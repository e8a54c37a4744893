---------------------------- MODULE DirectTransfer ----------------------------
(***************************************************************************)
(* Direct sends between accounts of one daemon (main.rs prepare_transfer,  *)
(* commit_transfer, cancel_transfer and their legacy counterparts), and    *)
(* the recovery scanner that promotes what a commit staged once its        *)
(* carrier is confirmed (scan_pending_rgb_stocks, rgb-service-local).      *)
(*                                                                         *)
(* A transfer is named by the txid of its carrier; txids are numbers, in   *)
(* the order pending_txids sorts them.  A commit writes two accounts, one  *)
(* Fjall transaction at a time, while the scanner, asset queries and the   *)
(* external engine's first operation on an account run beside it.  Every   *)
(* set and table is durable except dirs, lock, commit, scan and query,     *)
(* which a crash loses.                                                    *)
(*                                                                         *)
(* Left out as data: amounts, fascia and consignment contents, signatures. *)
(* A transfer has one recipient; a legacy one may have more, handled one   *)
(* after the other by the same loop.                                       *)
(***************************************************************************)
EXTENDS Naturals

CONSTANTS
    Accounts,
    Transfers,      \* carriers, numbered in txid order
    Sender,
    Recipient,
    Input,          \* the coin whose allocation each transfer spends
    Legacy,         \* transfers made through the legacy wallet API
    Aliased,        \* legacy transfers stored under another account of the descriptor
    Broken,         \* transfers whose consignment never validates
    Claimers,       \* accounts whose owner may turn to the external engine
    Queriers,       \* accounts asked for through /v1
    LegacyQueriers, \* accounts asked for through the legacy API
    Flaky,          \* transfers whose commit may fail and be repeated
    Evictable,      \* transfers whose carrier may leave the mempool
    Reorgable,      \* transfers whose carrier may lose its confirmation
    Cancellable,    \* transfers whose owner may cancel
    ReportedAs,     \* the flags with which the paid output may be tracked
    Forgetful,      \* the chain server denies outputs of carriers it does not know
    MaxCrashes,     \* bound on restarts
    None

ASSUME TransfersAssumption ==
    /\ Transfers \subseteq Nat
    /\ Sender \in [Transfers -> Accounts]
    /\ Recipient \in [Transfers -> Accounts]
    /\ \A t \in Transfers : Sender[t] # Recipient[t]
    /\ Legacy \subseteq Transfers
    /\ Aliased \subseteq Legacy
    /\ Broken \subseteq Transfers
    /\ ReportedAs \subseteq {"unconfirmed", "confirmed"}
    /\ Forgetful \in BOOLEAN
    /\ MaxCrashes \in Nat
    /\ None \notin Transfers

\* The daemon refuses a configuration with both the engine and the legacy API.
ASSUME ConfigAssumption ==
    Claimers = {} \/ (Legacy = {} /\ LegacyQueriers = {})

VARIABLES
    prepared,   \* keyspace prepared_transfers
    op,         \* rgb_pending_ops, per account and txid
    status,     \* rgb_pending_status, per account and txid
    stock,      \* per account, the transfers its RGB stock has consumed
    tracked,    \* keyspace account_utxos
    external,   \* accounts the engine owns
    dirs,       \* pending_stock_dirs, in memory
    lock,       \* the direct commit that holds external_mutation
    commit,     \* per transfer, the place its commit handler has reached
    scan,       \* the scanner thread
    query,      \* per account, an asset or balance query in flight
    chain,      \* per carrier: unknown, mempool or confirmed
    handed,     \* transfers whose anchor PSBT the wallet holds
    committed,  \* transfers whose commit was answered with success
    cancelled,  \* transfers whose cancellation was answered, not prepared since
    reorged,    \* carriers that were confirmed and lost it
    overtaken,  \* accounts staged after the scan's last look there, not registered since
    crashes

durable == <<prepared, op, status, stock, tracked, external>>
vars == <<durable, dirs, lock, commit, scan, query, chain, handed, committed,
          cancelled, reorged, overtaken, crashes>>

Outputs == {"paid", "change"} \X Transfers
Owner(o) == IF o[1] = "paid" THEN Recipient[o[2]] ELSE Sender[o[2]]
OwnedBy(a) == {o \in Outputs : Owner(o) = a}

CommitSteps == {"idle", "begun", "register_sender", "stage_receiver",
                "register_receiver", "track", "reply", "broadcast", "apply"}
ScanSteps == {"idle", "next", "look", "remove", "confirm", "mark", "check", "unregister"}
NoScan == [step |-> "idle", todo |-> {}, at |-> None, queue |-> {}, cur |-> None, done |-> {}]
NoQuery == [step |-> "idle", known |-> {}, rgb |-> {}]

TypeOK ==
    /\ prepared \subseteq Transfers
    /\ op \in [Accounts -> [Transfers -> {"none", "sender", "receiver"}]]
    /\ status \in [Accounts -> [Transfers -> {"none", "staged", "pending", "confirmed"}]]
    /\ stock \in [Accounts -> SUBSET Transfers]
    /\ tracked \in [Outputs -> {"untracked", "unconfirmed", "confirmed"}]
    /\ external \subseteq Claimers
    /\ dirs \subseteq Accounts
    /\ lock \in (Transfers \ Legacy) \cup {None}
    /\ commit \in [Transfers -> CommitSteps]
    /\ scan \in [step : ScanSteps, todo : SUBSET Accounts, at : Accounts \cup {None},
                 queue : SUBSET Transfers, cur : Transfers \cup {None},
                 done : SUBSET Transfers]
    /\ query \in [Accounts -> [step : {"idle", "listed", "legacy_listed", "check", "clean"},
                               known : SUBSET Outputs, rgb : SUBSET Outputs]]
    /\ chain \in [Transfers -> {"unknown", "mempool", "confirmed"}]
    /\ handed \subseteq Transfers
    /\ committed \subseteq Transfers
    /\ cancelled \subseteq Transfers
    /\ reorged \subseteq Transfers
    /\ overtaken \subseteq Accounts
    /\ crashes \in 0..MaxCrashes

Init ==
    /\ prepared = {}
    /\ op = [a \in Accounts |-> [t \in Transfers |-> "none"]]
    /\ status = [a \in Accounts |-> [t \in Transfers |-> "none"]]
    /\ stock = [a \in Accounts |-> {}]
    /\ tracked = [o \in Outputs |-> "untracked"]
    /\ external = {}
    /\ dirs = {}
    /\ lock = None
    /\ commit = [t \in Transfers |-> "idle"]
    /\ scan = NoScan
    /\ query = [a \in Accounts |-> NoQuery]
    /\ chain = [t \in Transfers |-> "unknown"]
    /\ handed = {}
    /\ committed = {}
    /\ cancelled = {}
    /\ reorged = {}
    /\ overtaken = {}
    /\ crashes = 0

-----------------------------------------------------------------------------
(***************************************************************************)
(* The account's pending store.                                            *)
(***************************************************************************)

pending_txids(a) == {t \in Transfers : op[a][t] # "none"}

is_terminal(s) == s = "confirmed"

has_active_pending(a) == \E t \in pending_txids(a) : ~is_terminal(status[a][t])

\* The account a, if the scan found nothing pending there and will unregister it.
LookedPast(a) == {b \in {a} : scan.step = "unregister" /\ scan.at = b}

\* Mutant: the status is written under another name.
put_pending_operation_Misnamed(a, t, role) ==
    /\ op' = [op EXCEPT ![a][t] = role]
    /\ status' = [status EXCEPT ![a][t] = "transferring"]
    /\ overtaken' = overtaken \cup LookedPast(a)

\* put_pending_operation: the operation and its status in one transaction.
put_pending_operation(a, t, role) ==
    /\ op' = [op EXCEPT ![a][t] = role]
    /\ status' = [status EXCEPT ![a][t] = "staged"]
    /\ overtaken' = overtaken \cup LookedPast(a)

remove_pending_op(a, t) ==
    /\ op' = [op EXCEPT ![a][t] = "none"]
    /\ status' = [status EXCEPT ![a][t] = "none"]

\* In memory only; a scan that is about to drop the account drops it all the same.
register_pending_stock_dir(a) ==
    /\ dirs' = dirs \cup {a}
    /\ overtaken' = overtaken \ ({a} \ LookedPast(a))

put_account_utxo(o, flag) == tracked' = [tracked EXCEPT ![o] = flag]

mark_account_utxos_confirmed(a, txids) ==
    tracked' = [o \in Outputs |->
        IF Owner(o) = a /\ o[2] \in txids /\ tracked[o] = "unconfirmed"
        THEN "confirmed" ELSE tracked[o]]

\* guard_legacy_account: an account of the engine takes no direct sends.
guard_legacy_account(a) == a \notin external

-----------------------------------------------------------------------------
(***************************************************************************)
(* prepare_transfer and the legacy transfer/psbt.  The inputs come from    *)
(* the sender's stock, which a staged transfer has not changed yet: two    *)
(* transfers of one coin may both be prepared.                             *)
(***************************************************************************)
prepare_rgb20_psbt(t) == \A u \in stock[Sender[t]] : Input[u] # Input[t]

PrepareDirect(t) ==
    /\ t \notin Legacy
    /\ lock = None
    /\ guard_legacy_account(Sender[t])
    /\ guard_legacy_account(Recipient[t])

\* transfer_psbt takes no lock and looks for no engine.
PrepareLegacy(t) == t \in Legacy

Prepare(t) ==
    /\ PrepareDirect(t) \/ PrepareLegacy(t)
    /\ commit[t] = "idle"
    /\ prepare_rgb20_psbt(t)
    /\ prepared' = prepared \cup {t}
    /\ handed' = handed \cup {t}
    /\ cancelled' = cancelled \ {t}
    /\ UNCHANGED <<op, status, stock, tracked, external, dirs, lock, commit, scan,
                   query, chain, committed, reorged, overtaken, crashes>>

\* cancel_transfer answers "cancelled" and touches nothing.
CancelDirect(t) ==
    /\ t \notin Legacy
    /\ lock = None
    /\ guard_legacy_account(Sender[t])
    /\ UNCHANGED prepared

\* Mutant: the record stays.
CancelLegacy_Keeping(t) ==
    /\ t \in Legacy
    /\ UNCHANGED prepared

\* transfer_cancel removes the record under the descriptor's own account.
CancelLegacy(t) ==
    /\ t \in Legacy
    /\ prepared' = IF t \in Aliased THEN prepared ELSE prepared \ {t}

Cancel(t) ==
    /\ t \in prepared \cap Cancellable
    /\ CancelDirect(t) \/ CancelLegacy(t)
    /\ cancelled' = IF commit[t] = "idle" /\ op[Sender[t]][t] = "none" /\ t \notin stock[Sender[t]]
                    THEN cancelled \cup {t} ELSE cancelled
    /\ UNCHANGED <<op, status, stock, tracked, external, dirs, lock, commit, scan,
                   query, chain, handed, committed, reorged, overtaken, crashes>>

-----------------------------------------------------------------------------
(***************************************************************************)
(* commit_transfer, under the mutation lock, and transfer_callback, which  *)
(* runs legacy_commit_prepared_transfer without it and then broadcasts.    *)
(* A client may repeat either for as long as the record is there.          *)
(***************************************************************************)
CommitAt(t, from, to) ==
    /\ commit[t] = from
    /\ commit' = [commit EXCEPT ![t] = to]

CommitDirect(t) ==
    /\ t \notin Legacy
    /\ lock = None
    /\ guard_legacy_account(Sender[t])
    /\ guard_legacy_account(Recipient[t])
    /\ lock' = t

CallbackLegacy(t) == t \in Legacy /\ UNCHANGED lock

BeginCommit(t) ==
    /\ CommitAt(t, "idle", "begun")
    /\ t \in prepared
    /\ t \in Flaky \/ t \notin committed
    /\ CommitDirect(t) \/ CallbackLegacy(t)
    /\ UNCHANGED <<durable, dirs, scan, query, chain, handed, committed, cancelled,
                   reorged, overtaken, crashes>>

stage_sender_fascia(t) ==
    /\ CommitAt(t, "begun", "register_sender")
    /\ put_pending_operation(Sender[t], t, "sender")
    /\ UNCHANGED <<prepared, stock, tracked, external, dirs, lock, scan, query, chain,
                   handed, committed, cancelled, reorged, crashes>>

RegisterSender(t) ==
    /\ CommitAt(t, "register_sender", "stage_receiver")
    /\ register_pending_stock_dir(Sender[t])
    /\ UNCHANGED <<durable, lock, scan, query, chain, handed, committed, cancelled,
                   reorged, crashes>>

stage_receiver_transfer(t) ==
    /\ CommitAt(t, "stage_receiver", "register_receiver")
    /\ guard_legacy_account(Recipient[t])
    /\ put_pending_operation(Recipient[t], t, "receiver")
    /\ UNCHANGED <<prepared, stock, tracked, external, dirs, lock, scan, query, chain,
                   handed, committed, cancelled, reorged, crashes>>

RegisterReceiver(t) ==
    /\ CommitAt(t, "register_receiver", "track")
    /\ register_pending_stock_dir(Recipient[t])
    /\ UNCHANGED <<durable, lock, scan, query, chain, handed, committed, cancelled,
                   reorged, crashes>>

\* issue_utxo: the client's entry for the paid output, or a confirmed one.
TrackReceiver(t) ==
    /\ CommitAt(t, "track", IF t \in Legacy THEN "broadcast" ELSE "reply")
    /\ \E flag \in ReportedAs : put_account_utxo(<<"paid", t>>, flag)
    /\ UNCHANGED <<prepared, op, status, stock, external, dirs, lock, scan, query, chain,
                   handed, committed, cancelled, reorged, overtaken, crashes>>

ReplyCommitted(t) ==
    /\ CommitAt(t, "reply", "idle")
    /\ lock' = None
    /\ committed' = committed \cup {t}
    /\ UNCHANGED <<durable, dirs, scan, query, chain, handed, cancelled,
                   reorged, overtaken, crashes>>

\* Two carriers of one coin exclude each other.
Conflicting(t, among) == \E u \in Transfers \ {t} : Input[u] = Input[t] /\ chain[u] \in among

Relayed(t) ==
    /\ ~Conflicting(t, {"mempool", "confirmed"})
    /\ chain' = [chain EXCEPT ![t] = IF @ = "unknown" THEN "mempool" ELSE @]

broadcast_legacy_tx(t) ==
    /\ CommitAt(t, "broadcast", "apply")
    /\ Relayed(t)
    /\ UNCHANGED <<durable, dirs, lock, scan, query, handed, committed, cancelled,
                   reorged, overtaken, crashes>>

\* The wallet's own outputs are tracked for the account that made the transfer.
apply_legacy_signed_tx(t) ==
    /\ CommitAt(t, "apply", "idle")
    /\ put_account_utxo(<<"change", t>>, "unconfirmed")
    /\ committed' = committed \cup {t}
    /\ UNCHANGED <<prepared, op, status, stock, external, dirs, lock, scan, query, chain,
                   handed, cancelled, reorged, overtaken, crashes>>

\* Any call of the handler may fail; what it wrote so far stays.
CommitFails(t) ==
    /\ t \in Flaky
    /\ commit[t] # "idle"
    /\ commit' = [commit EXCEPT ![t] = "idle"]
    /\ lock' = IF lock = t THEN None ELSE lock
    /\ UNCHANGED <<durable, dirs, scan, query, chain, handed, committed, cancelled,
                   reorged, overtaken, crashes>>

CommitStep(t) ==
    \/ stage_sender_fascia(t) \/ RegisterSender(t)
    \/ stage_receiver_transfer(t) \/ RegisterReceiver(t)
    \/ TrackReceiver(t) \/ ReplyCommitted(t)
    \/ broadcast_legacy_tx(t) \/ apply_legacy_signed_tx(t)

-----------------------------------------------------------------------------
(***************************************************************************)
(* The scanner: for every registered directory, promote the confirmed      *)
(* operations in txid order, mark their outputs, and unregister the        *)
(* directory when nothing is pending.  An error gives the account up until *)
(* the next scan and loses the report of what it had promoted.             *)
(***************************************************************************)
unchangedByScan == <<prepared, external, lock, commit, query, chain, handed, committed,
                     cancelled, reorged, overtaken, crashes>>

ScanStart ==
    /\ scan.step = "idle"
    /\ dirs # {}
    /\ scan' = [NoScan EXCEPT !.step = "next", !.todo = dirs]
    /\ UNCHANGED <<op, status, stock, tracked, dirs, unchangedByScan>>

\* The list of pending txids is read once per visit.
VisitAccount(a) ==
    /\ scan.step = "next"
    /\ a \in scan.todo
    /\ scan' = [step |-> "look", todo |-> scan.todo \ {a}, at |-> a,
                queue |-> pending_txids(a), cur |-> None, done |-> {}]
    /\ UNCHANGED <<op, status, stock, tracked, dirs, unchangedByScan>>

ScanEnd ==
    /\ scan.step = "next"
    /\ scan.todo = {}
    /\ scan' = NoScan
    /\ UNCHANGED <<op, status, stock, tracked, dirs, unchangedByScan>>

\* The list is sorted.
LookingAt(a, t) ==
    /\ scan.step = "look"
    /\ scan.at = a
    /\ t \in scan.queue
    /\ \A u \in scan.queue : t <= u

SkipTerminal(a, t) ==
    /\ LookingAt(a, t)
    /\ is_terminal(status[a][t])
    /\ scan' = [scan EXCEPT !.queue = @ \ {t}]
    /\ UNCHANGED <<op, status, stock, tracked, dirs, unchangedByScan>>

\* The answer may come from the cache, from before the confirmation; a chain
\* server that does not know the carrier leaves the status as it is.
LookUnconfirmed(a, t) ==
    /\ LookingAt(a, t)
    /\ ~is_terminal(status[a][t])
    /\ \/ status' = [status EXCEPT ![a][t] = "pending"]
       \/ chain[t] = "unknown" /\ UNCHANGED status
    /\ scan' = [scan EXCEPT !.queue = @ \ {t}]
    /\ UNCHANGED <<op, stock, tracked, dirs, unchangedByScan>>

\* Mutant: the stock is not stored before the operation is removed.
Promote_Unstored(a, t) ==
    /\ LookingAt(a, t)
    /\ ~is_terminal(status[a][t])
    /\ chain[t] = "confirmed"
    /\ scan' = [scan EXCEPT !.step = "remove", !.cur = t]
    /\ UNCHANGED <<op, status, stock, tracked, dirs, unchangedByScan>>

\* Mutant: a carrier in the mempool is enough.
Promote_Unconfirmed(a, t) ==
    /\ LookingAt(a, t)
    /\ ~is_terminal(status[a][t])
    /\ chain[t] # "unknown"
    /\ stock' = [stock EXCEPT ![a] = @ \cup {t}]
    /\ scan' = [scan EXCEPT !.step = "remove", !.cur = t]
    /\ UNCHANGED <<op, status, tracked, dirs, unchangedByScan>>

\* fetch_tx_confirmation_consensus: one confirmation is enough, and the answer
\* may be one that was cached before the carrier lost it.
ReportedConfirmed(t) == chain[t] = "confirmed" \/ t \in reorged

\* replay_pending_rgb_operation, its first transaction: consume the sender's
\* fascia or accept the receiver's consignment.
Promote(a, t) ==
    /\ LookingAt(a, t)
    /\ ~is_terminal(status[a][t])
    /\ ReportedConfirmed(t)
    /\ op[a][t] # "none"
    /\ op[a][t] = "receiver" => t \notin Broken
    /\ stock' = [stock EXCEPT ![a] = @ \cup {t}]
    /\ scan' = [scan EXCEPT !.step = "remove", !.cur = t]
    /\ UNCHANGED <<op, status, tracked, dirs, unchangedByScan>>

RemoveReplayed ==
    /\ scan.step = "remove"
    /\ remove_pending_op(scan.at, scan.cur)
    /\ scan' = [scan EXCEPT !.step = "confirm"]
    /\ UNCHANGED <<stock, tracked, dirs, unchangedByScan>>

ConfirmReplayed ==
    /\ scan.step = "confirm"
    /\ status' = [status EXCEPT ![scan.at][scan.cur] = "confirmed"]
    /\ scan' = [scan EXCEPT !.step = "look", !.queue = @ \ {scan.cur}, !.cur = None,
                            !.done = @ \cup {scan.cur}]
    /\ UNCHANGED <<op, stock, tracked, dirs, unchangedByScan>>

\* Mutant: the error ends the whole scan.
VisitFails_EndingScan(a, t) ==
    /\ LookingAt(a, t)
    /\ ~is_terminal(status[a][t])
    /\ scan' = NoScan
    /\ UNCHANGED <<op, status, stock, tracked, dirs, unchangedByScan>>

\* A chain error or a replay that fails ends the visit with "?".
VisitFails(a, t) ==
    /\ LookingAt(a, t)
    /\ ~is_terminal(status[a][t])
    /\ scan' = [NoScan EXCEPT !.step = "next", !.todo = scan.todo]
    /\ UNCHANGED <<op, status, stock, tracked, dirs, unchangedByScan>>

VisitEnds ==
    /\ scan.step = "look"
    /\ scan.queue = {}
    /\ scan' = [scan EXCEPT !.step = "mark"]
    /\ UNCHANGED <<op, status, stock, tracked, dirs, unchangedByScan>>

MarkPromoted ==
    /\ scan.step = "mark"
    /\ mark_account_utxos_confirmed(scan.at, scan.done)
    /\ scan' = [scan EXCEPT !.step = "check"]
    /\ UNCHANGED <<op, status, stock, dirs, unchangedByScan>>

stock_has_active_pending ==
    /\ scan.step = "check"
    /\ scan' = [scan EXCEPT !.step = IF has_active_pending(scan.at) THEN "next" ELSE "unregister"]
    /\ UNCHANGED <<op, status, stock, tracked, dirs, unchangedByScan>>

unregister_pending_stock_dir ==
    /\ scan.step = "unregister"
    /\ dirs' = dirs \ {scan.at}
    /\ scan' = [scan EXCEPT !.step = "next"]
    /\ UNCHANGED <<op, status, stock, tracked, unchangedByScan>>

Scanner ==
    \/ ScanStart \/ ScanEnd \/ VisitEnds
    \/ RemoveReplayed \/ ConfirmReplayed \/ MarkPromoted
    \/ stock_has_active_pending \/ unregister_pending_stock_dir
    \/ \E a \in Accounts :
          \/ VisitAccount(a)
          \/ \E t \in Transfers :
                \/ SkipTerminal(a, t) \/ LookUnconfirmed(a, t)
                \/ Promote(a, t) \/ VisitFails(a, t)

-----------------------------------------------------------------------------
(***************************************************************************)
(* list_assets and balance_breakdown, and legacy_list_assets.  None of     *)
(* them takes the mutation lock.                                           *)
(***************************************************************************)
unchangedByQuery == <<prepared, op, status, stock, external, dirs, lock, commit, scan, chain,
                      handed, committed, cancelled, reorged, overtaken, crashes>>

\* account_rgb20_utxos: reconcile the flags with the confirmed statuses, then
\* drop the confirmed outputs that the chain does not report as unspent (no
\* transaction of the model spends them, so only an unknown carrier's are).
account_rgb20_utxos(a, step) ==
    LET confirmedTxids == {t \in Transfers : status[a][t] = "confirmed"}
        reconciled(o) == IF tracked[o] = "unconfirmed" /\ o[2] \in confirmedTxids
                         THEN "confirmed" ELSE tracked[o]
        gone == {o \in OwnedBy(a) : /\ reconciled(o) = "confirmed"
                                    /\ Forgetful /\ chain[o[2]] = "unknown"}
    IN  /\ query[a].step = "idle"
        /\ tracked' = [o \in Outputs |->
                          IF o \in gone THEN "untracked"
                          ELSE IF Owner(o) = a THEN reconciled(o) ELSE tracked[o]]
        /\ query' = [query EXCEPT ![a] = [step |-> step, rgb |-> {},
               known |-> {o \in OwnedBy(a) \ gone : tracked[o] # "untracked"}]]
        /\ UNCHANGED unchangedByQuery

\* list_rgb20_assets_for_utxos: the known outputs that hold an allocation.
list_rgb20_assets_for_utxos(a) ==
    /\ query[a].step \in {"listed", "legacy_listed"}
    /\ query' = [query EXCEPT ![a] =
           [step |-> IF @.step = "listed" THEN "clean" ELSE "check",
            known |-> @.known,
            rgb |-> {o \in @.known : o[2] \in stock[a]}]]
    /\ UNCHANGED <<tracked, unchangedByQuery>>

\* legacy_list_assets keeps every output while something is pending.
CheckPending(a) ==
    /\ query[a].step = "check"
    /\ query' = [query EXCEPT ![a] =
                    IF has_active_pending(a) THEN NoQuery ELSE [@ EXCEPT !.step = "clean"]]
    /\ UNCHANGED <<tracked, unchangedByQuery>>

remove_account_utxos(a) ==
    /\ query[a].step = "clean"
    /\ tracked' = [o \in Outputs |->
                      IF o \in query[a].known \ query[a].rgb THEN "untracked" ELSE tracked[o]]
    /\ query' = [query EXCEPT ![a] = NoQuery]
    /\ UNCHANGED unchangedByQuery

Query(a) ==
    \/ a \in Queriers /\ account_rgb20_utxos(a, "listed")
    \/ a \in LegacyQueriers /\ account_rgb20_utxos(a, "legacy_listed")
    \/ list_rgb20_assets_for_utxos(a) \/ CheckPending(a) \/ remove_account_utxos(a)

-----------------------------------------------------------------------------
(***************************************************************************)
(* The engine, the wallet, the chain and restarts.                         *)
(***************************************************************************)

\* Mutant: staged transfers of the account are not looked at.
ExternalClaim_Hasty(a) ==
    /\ a \in Claimers \ external
    /\ lock = None
    /\ \A t \in prepared : Sender[t] # a
    /\ external' = external \cup {a}
    /\ UNCHANGED <<prepared, op, status, stock, tracked, dirs, lock, commit, scan, query,
                   chain, handed, committed, cancelled, reorged, overtaken, crashes>>

\* new_record: the engine's first operation on an account, under the lock.
ExternalClaim(a) ==
    /\ a \in Claimers \ external
    /\ lock = None
    /\ \A t \in prepared : Sender[t] # a
    /\ ~has_active_pending(a)
    /\ external' = external \cup {a}
    /\ UNCHANGED <<prepared, op, status, stock, tracked, dirs, lock, commit, scan, query,
                   chain, handed, committed, cancelled, reorged, overtaken, crashes>>

unchangedByChain == <<durable, dirs, lock, commit, scan, query, handed, committed, cancelled,
                      overtaken, crashes>>

WalletBroadcast(t) ==
    /\ t \in handed
    /\ chain[t] = "unknown"
    /\ Relayed(t)
    /\ UNCHANGED <<reorged, unchangedByChain>>

Evict(t) ==
    /\ t \in Evictable
    /\ chain[t] = "mempool"
    /\ chain' = [chain EXCEPT ![t] = "unknown"]
    /\ UNCHANGED <<reorged, unchangedByChain>>

Mine(t) ==
    /\ chain[t] = "mempool"
    /\ ~Conflicting(t, {"confirmed"})
    /\ chain' = [chain EXCEPT ![t] = "confirmed"]
    /\ UNCHANGED <<reorged, unchangedByChain>>

\* The carrier's block is replaced: it waits again, or the new branch has
\* pushed it out.  Nothing in the daemon is told.
Reorg(t) ==
    /\ t \in Reorgable
    /\ chain[t] = "confirmed"
    /\ \E left \in {"mempool", "unknown"} : chain' = [chain EXCEPT ![t] = left]
    /\ reorged' = reorged \cup {t}
    /\ UNCHANGED unchangedByChain

\* Mutant: a restart begins with no directory.
discover_pending_stock_dirs_Empty == {}

\* discover_pending_stock_dirs: every account with a key in rgb_pending_ops.
discover_pending_stock_dirs == {a \in Accounts : pending_txids(a) # {}}

Crash ==
    /\ crashes < MaxCrashes
    /\ crashes' = crashes + 1
    /\ dirs' = discover_pending_stock_dirs
    /\ lock' = None
    /\ commit' = [t \in Transfers |-> "idle"]
    /\ scan' = NoScan
    /\ query' = [a \in Accounts |-> NoQuery]
    /\ overtaken' = {}
    /\ UNCHANGED <<durable, chain, handed, committed, cancelled, reorged>>

Next ==
    \/ \E t \in Transfers :
          \/ Prepare(t) \/ Cancel(t)
          \/ BeginCommit(t) \/ CommitStep(t) \/ CommitFails(t)
          \/ WalletBroadcast(t) \/ Evict(t) \/ Mine(t) \/ Reorg(t)
    \/ Scanner
    \/ \E a \in Accounts : Query(a) \/ ExternalClaim(a)
    \/ Crash

Spec == Init /\ [][Next]_vars

\* The chain server answers again and again, and a cached answer expires.
Answered(a, t) == Promote(a, t) \/ (chain[t] # "confirmed" /\ LookUnconfirmed(a, t))

\* The scanner's thread runs for ever.
FairSpec ==
    /\ Spec
    /\ WF_vars(Scanner)
    /\ \A t \in Transfers : \A a \in {Sender[t], Recipient[t]} : SF_vars(Answered(a, t))

-----------------------------------------------------------------------------
\* Both sides of a transfer the daemon answered for are staged or in the
\* stock, at every step of a promotion, a repeated commit or a restart.
CommittedNotLost ==
    \A t \in committed : \A a \in {Sender[t], Recipient[t]} :
        op[a][t] # "none" \/ t \in stock[a]

\* Nothing reserves the inputs of a direct send, and nothing takes a promotion
\* back; two transfers of one coin are still never both promoted, in whichever
\* accounts, unless one of the carriers lost a confirmation it had.
NoConflictingPromotions ==
    \A a, b \in Accounts : \A t \in stock[a] : \A u \in stock[b] :
        Input[t] = Input[u] => t = u \/ {t, u} \cap reorged # {}

\* An account of the external engine has no direct send under way: not as the
\* sender, and not as the recipient of a transfer prepared before it changed.
EngineAccountsIdle ==
    \A a \in external : pending_txids(a) \subseteq stock[a]

\* What carries them.  A side the commit has staged is staged or in the stock;
\* the operation a scan is about to remove, and every one whose status is
\* confirmed, is in the stock; what is in a stock is confirmed or was until a
\* reorganisation, on a chain that at no time confirms two transfers of one
\* coin; a direct commit under way holds the lock and keeps the engine off
\* both accounts.
PastSender == CommitSteps \ {"idle", "begun"}
PastReceiver == PastSender \ {"register_sender", "stage_receiver"}
StagedOrStocked(a, t) == op[a][t] # "none" \/ t \in stock[a]

StagingInv ==
    \A t \in Transfers :
        /\ commit[t] \in PastSender \/ t \in committed => StagedOrStocked(Sender[t], t)
        /\ commit[t] \in PastReceiver \/ t \in committed => StagedOrStocked(Recipient[t], t)

ScanInv ==
    /\ scan.step \notin {"idle", "next"} => scan.at \in Accounts
    /\ scan.step \in {"remove", "confirm"} =>
          scan.cur \in Transfers /\ scan.cur \in stock[scan.at]
    /\ \A a \in Accounts, t \in Transfers : status[a][t] = "confirmed" => t \in stock[a]

ChainInv ==
    /\ \A a \in Accounts : \A t \in stock[a] : ReportedConfirmed(t)
    /\ \A t, u \in Transfers :
          Input[t] = Input[u] /\ chain[t] = "confirmed" /\ chain[u] = "confirmed" => t = u

LockInv ==
    /\ \A t \in Transfers \ Legacy : commit[t] # "idle" =>
          lock = t /\ Sender[t] \notin external /\ Recipient[t] \notin external
    /\ \A t \in Legacy : commit[t] # "reply"

IInv == TypeOK /\ StagingInv /\ ScanInv /\ ChainInv /\ LockInv /\ EngineAccountsIdle

\* A transfer whose cancellation was answered before anything of it was staged
\* is not committed afterwards, unless it is prepared again.
CancelStands ==
    [][\A t \in cancelled : commit[t] = "idle" => commit'[t] = "idle"]_vars

\* The scanner has forgotten the account: an operation was staged there between
\* its last look and its unregistering, and neither a commit nor a restart has
\* registered the account since.
Forgotten(a) == a \in overtaken \ dirs

\* A committed transfer whose carrier stays confirmed is promoted in both
\* accounts, whatever restarts, failed visits, other transfers of the accounts
\* and broken operations of other accounts come in between, unless the scanner
\* has forgotten the account.
CommittedPromoted ==
    \A t \in Transfers \ Broken : \A a \in {Sender[t], Recipient[t]} :
        (t \in committed /\ chain[t] = "confirmed")
            ~> (t \in stock[a] \/ chain[t] # "confirmed" \/ Forgotten(a))

-----------------------------------------------------------------------------
(* What the documents say or a reader expects, and the code does not do.   *)

\* "Promoted automatically once the chain's conditions are met": a committed
\* transfer whose carrier stays confirmed is promoted in both accounts.
PromotedOnceConfirmed ==
    \A t \in Transfers \ Broken : \A a \in {Sender[t], Recipient[t]} :
        (t \in committed /\ chain[t] = "confirmed")
            ~> (t \in stock[a] \/ chain[t] # "confirmed")

\* No coin is spent by two promoted transfers, reorganisations included.
PromotionsExclusive ==
    \A a, b \in Accounts : \A t \in stock[a] : \A u \in stock[b] :
        Input[t] = Input[u] => t = u

\* The paid output of a committed transfer that a carrier on the chain backs
\* stays tracked for the recipient.
ReceiptTracked ==
    \A t \in committed : chain[t] = "confirmed" => tracked[<<"paid", t>>] # "untracked"

\* Once a transfer is promoted for its sender, the change it pays back is
\* tracked, so that balances count it.
ChangeTracked ==
    \A t \in committed :
        t \in stock[Sender[t]] => tracked[<<"change", t>>] # "untracked"

=============================================================================
