------------------------- MODULE DirectTransferProofs -------------------------
(***************************************************************************)
(* Proofs about DirectTransfer, for any number of accounts and transfers.  *)
(* IInv is inductive; each of its parts is preserved by every action, and  *)
(* the safety properties of the runs follow from it.                       *)
(***************************************************************************)
EXTENDS DirectTransfer, TLAPS

\* Initially nothing is prepared, staged or promoted and every thread is idle.
LEMMA InitInvariant == Init => IInv
<1> SUFFICES ASSUME Init PROVE IInv
  OBVIOUS
<1> USE TransfersAssumption DEF Init, NoScan, NoQuery
<1>1. TypeOK
  BY DEF TypeOK, CommitSteps, ScanSteps
<1>2. StagingInv
  BY DEF StagingInv, PastSender, PastReceiver
<1>3. ScanInv /\ ChainInv /\ LockInv /\ EngineAccountsIdle
  BY DEF ScanInv, ChainInv, LockInv, EngineAccountsIdle, ReportedConfirmed
<1>4. QED
  BY <1>1, <1>2, <1>3 DEF IInv

\* Every action keeps the types.
LEMMA TypeStep == ASSUME IInv, [Next]_vars PROVE TypeOK'
<1>1. ASSUME NEW t \in Transfers, Prepare(t) PROVE TypeOK'
  BY <1>1, TransfersAssumption DEF Prepare, durable, IInv, ScanInv, TypeOK, CommitSteps,
         ScanSteps, Outputs, OwnedBy, NoQuery
<1>2. ASSUME NEW t \in Transfers, Cancel(t) PROVE TypeOK'
  BY <1>2, TransfersAssumption DEF Cancel, CancelDirect, CancelLegacy, durable, IInv,
         ScanInv, TypeOK, CommitSteps, ScanSteps, Outputs, OwnedBy, NoQuery
<1>3. ASSUME NEW t \in Transfers, BeginCommit(t) PROVE TypeOK'
  BY <1>3, TransfersAssumption DEF BeginCommit, CommitAt, CommitDirect, CallbackLegacy,
         guard_legacy_account, durable, IInv, ScanInv, TypeOK, CommitSteps, ScanSteps,
         Outputs, OwnedBy, NoQuery
<1>4. ASSUME NEW t \in Transfers, stage_sender_fascia(t) PROVE TypeOK'
  BY <1>4, TransfersAssumption DEF stage_sender_fascia, CommitAt, put_pending_operation,
         LookedPast, durable, IInv, ScanInv, TypeOK, CommitSteps, ScanSteps, Outputs, OwnedBy,
         NoQuery
<1>5. ASSUME NEW t \in Transfers, RegisterSender(t) PROVE TypeOK'
  <2>1. Sender[t] \in Accounts
    BY TransfersAssumption
  <2>2. dirs' \subseteq Accounts /\ commit' \in [Transfers -> CommitSteps]
    BY <1>5, <2>1 DEF RegisterSender, CommitAt, register_pending_stock_dir, IInv,
                       TypeOK, CommitSteps
  <2>3. overtaken' \subseteq Accounts
    BY <1>5 DEF RegisterSender, register_pending_stock_dir, IInv, TypeOK
  <2>4. QED
    BY <1>5, <2>2, <2>3 DEF RegisterSender, durable, IInv, TypeOK
<1>6. ASSUME NEW t \in Transfers, stage_receiver_transfer(t) PROVE TypeOK'
  BY <1>6, TransfersAssumption DEF stage_receiver_transfer, CommitAt,
         put_pending_operation, LookedPast, guard_legacy_account, durable, IInv, ScanInv, TypeOK,
         CommitSteps, ScanSteps, Outputs, OwnedBy, NoQuery
<1>7. ASSUME NEW t \in Transfers, RegisterReceiver(t) PROVE TypeOK'
  <2>1. Recipient[t] \in Accounts
    BY TransfersAssumption
  <2>2. dirs' \subseteq Accounts /\ commit' \in [Transfers -> CommitSteps]
    BY <1>7, <2>1 DEF RegisterReceiver, CommitAt, register_pending_stock_dir, IInv,
                       TypeOK, CommitSteps
  <2>3. overtaken' \subseteq Accounts
    BY <1>7 DEF RegisterReceiver, register_pending_stock_dir, IInv, TypeOK
  <2>4. QED
    BY <1>7, <2>2, <2>3 DEF RegisterReceiver, durable, IInv, TypeOK
<1>8. ASSUME NEW t \in Transfers, TrackReceiver(t) PROVE TypeOK'
  BY <1>8, TransfersAssumption DEF TrackReceiver, CommitAt, put_account_utxo, durable,
         IInv, ScanInv, TypeOK, CommitSteps, ScanSteps, Outputs, OwnedBy, NoQuery
<1>9. ASSUME NEW t \in Transfers, ReplyCommitted(t) PROVE TypeOK'
  BY <1>9, TransfersAssumption DEF ReplyCommitted, CommitAt, durable, IInv, ScanInv,
         TypeOK, CommitSteps, ScanSteps, Outputs, OwnedBy, NoQuery
<1>10. ASSUME NEW t \in Transfers, broadcast_legacy_tx(t) PROVE TypeOK'
  BY <1>10, TransfersAssumption DEF broadcast_legacy_tx, CommitAt, Relayed, durable,
         IInv, ScanInv, TypeOK, CommitSteps, ScanSteps, Outputs, OwnedBy, NoQuery
<1>11. ASSUME NEW t \in Transfers, apply_legacy_signed_tx(t) PROVE TypeOK'
  BY <1>11, TransfersAssumption DEF apply_legacy_signed_tx, CommitAt, put_account_utxo,
         durable, IInv, ScanInv, TypeOK, CommitSteps, ScanSteps, Outputs, OwnedBy,
         NoQuery
<1>12. ASSUME NEW t \in Transfers, CommitFails(t) PROVE TypeOK'
  BY <1>12, TransfersAssumption DEF CommitFails, durable, IInv, ScanInv, TypeOK,
         CommitSteps, ScanSteps, Outputs, OwnedBy, NoQuery
<1>13. ASSUME NEW t \in Transfers, WalletBroadcast(t) PROVE TypeOK'
  BY <1>13, TransfersAssumption DEF WalletBroadcast, Relayed, unchangedByChain, durable,
         IInv, ScanInv, TypeOK, CommitSteps, ScanSteps, Outputs, OwnedBy, NoQuery
<1>14. ASSUME NEW t \in Transfers, Evict(t) PROVE TypeOK'
  BY <1>14, TransfersAssumption DEF Evict, unchangedByChain, durable, IInv, ScanInv,
         TypeOK, CommitSteps, ScanSteps, Outputs, OwnedBy, NoQuery
<1>15. ASSUME NEW t \in Transfers, Mine(t) PROVE TypeOK'
  BY <1>15, TransfersAssumption DEF Mine, Conflicting, unchangedByChain, durable, IInv,
         ScanInv, TypeOK, CommitSteps, ScanSteps, Outputs, OwnedBy, NoQuery
<1>15a. ASSUME NEW t \in Transfers, Reorg(t) PROVE TypeOK'
  BY <1>15a, TransfersAssumption DEF Reorg, unchangedByChain, durable, IInv, ScanInv,
         TypeOK, CommitSteps, ScanSteps, Outputs, OwnedBy, NoQuery
<1>16. ASSUME ScanStart PROVE TypeOK'
  BY <1>16, TransfersAssumption DEF ScanStart, NoScan, unchangedByScan, IInv, ScanInv,
         TypeOK, CommitSteps, ScanSteps, Outputs, OwnedBy, NoQuery
<1>17. ASSUME ScanEnd PROVE TypeOK'
  BY <1>17, TransfersAssumption DEF ScanEnd, NoScan, unchangedByScan, IInv, ScanInv,
         TypeOK, CommitSteps, ScanSteps, Outputs, OwnedBy, NoQuery
<1>18. ASSUME VisitEnds PROVE TypeOK'
  BY <1>18, TransfersAssumption DEF VisitEnds, unchangedByScan, IInv, ScanInv, TypeOK,
         CommitSteps, ScanSteps, Outputs, OwnedBy, NoQuery
<1>19. ASSUME RemoveReplayed PROVE TypeOK'
  BY <1>19, TransfersAssumption DEF RemoveReplayed, remove_pending_op, unchangedByScan,
         IInv, ScanInv, TypeOK, CommitSteps, ScanSteps, Outputs, OwnedBy, NoQuery
<1>20. ASSUME ConfirmReplayed PROVE TypeOK'
  BY <1>20, TransfersAssumption DEF ConfirmReplayed, unchangedByScan, IInv, ScanInv,
         TypeOK, CommitSteps, ScanSteps, Outputs, OwnedBy, NoQuery
<1>21. ASSUME MarkPromoted PROVE TypeOK'
  BY <1>21, TransfersAssumption DEF MarkPromoted, mark_account_utxos_confirmed,
         unchangedByScan, IInv, ScanInv, TypeOK, CommitSteps, ScanSteps, Outputs,
         OwnedBy, NoQuery
<1>22. ASSUME stock_has_active_pending PROVE TypeOK'
  BY <1>22, TransfersAssumption DEF stock_has_active_pending, unchangedByScan, IInv,
         ScanInv, TypeOK, CommitSteps, ScanSteps, Outputs, OwnedBy, NoQuery
<1>23. ASSUME unregister_pending_stock_dir PROVE TypeOK'
  BY <1>23, TransfersAssumption DEF unregister_pending_stock_dir, unchangedByScan, IInv,
         ScanInv, TypeOK, CommitSteps, ScanSteps, Outputs, OwnedBy, NoQuery
<1>24. ASSUME NEW a \in Accounts, VisitAccount(a) PROVE TypeOK'
  BY <1>24, TransfersAssumption DEF VisitAccount, pending_txids, unchangedByScan, IInv,
         ScanInv, TypeOK, CommitSteps, ScanSteps, Outputs, OwnedBy, NoQuery
<1>25. ASSUME NEW a \in Accounts, NEW t \in Transfers, SkipTerminal(a, t) PROVE TypeOK'
  BY <1>25, TransfersAssumption DEF SkipTerminal, LookingAt, is_terminal,
         unchangedByScan, IInv, ScanInv, TypeOK, CommitSteps, ScanSteps, Outputs,
         OwnedBy, NoQuery
<1>26. ASSUME NEW a \in Accounts, NEW t \in Transfers, LookUnconfirmed(a, t) PROVE TypeOK'
  <2>1. scan' \in [step : ScanSteps, todo : SUBSET Accounts, at : Accounts \cup {None},
                     queue : SUBSET Transfers, cur : Transfers \cup {None},
                     done : SUBSET Transfers]
    BY <1>26 DEF LookUnconfirmed, IInv, TypeOK, ScanSteps
  <2>2. status' \in [Accounts -> [Transfers -> {"none", "staged", "pending", "confirmed"}]]
    <3>1. CASE status' = [status EXCEPT ![a][t] = "pending"]
      BY <3>1 DEF IInv, TypeOK
    <3>2. CASE status' = status
      BY <3>2 DEF IInv, TypeOK
    <3>3. QED
      BY <1>26, <3>1, <3>2 DEF LookUnconfirmed
  <2>3. QED
    BY <1>26, <2>1, <2>2 DEF LookUnconfirmed, unchangedByScan, IInv, TypeOK
<1>27. ASSUME NEW a \in Accounts, NEW t \in Transfers, Promote(a, t) PROVE TypeOK'
  <2>1. scan' \in [step : ScanSteps, todo : SUBSET Accounts, at : Accounts \cup {None},
                     queue : SUBSET Transfers, cur : Transfers \cup {None},
                     done : SUBSET Transfers]
    BY <1>27 DEF Promote, IInv, TypeOK, ScanSteps
  <2>2. stock' \in [Accounts -> SUBSET Transfers]
    BY <1>27 DEF Promote, IInv, TypeOK
  <2>3. QED
    BY <1>27, <2>1, <2>2 DEF Promote, unchangedByScan, IInv, TypeOK
<1>28. ASSUME NEW a \in Accounts, NEW t \in Transfers, VisitFails(a, t) PROVE TypeOK'
  <2>1. scan' \in [step : ScanSteps, todo : SUBSET Accounts, at : Accounts \cup {None},
                     queue : SUBSET Transfers, cur : Transfers \cup {None},
                     done : SUBSET Transfers]
    BY <1>28 DEF VisitFails, NoScan, IInv, TypeOK, ScanSteps
  <2>2. QED
    BY <1>28, <2>1 DEF VisitFails, unchangedByScan, IInv, TypeOK
<1>29. ASSUME NEW a \in Accounts, NEW s \in {"listed", "legacy_listed"},
             account_rgb20_utxos(a, s) PROVE TypeOK'
  BY <1>29, TransfersAssumption DEF account_rgb20_utxos, unchangedByQuery, durable,
         IInv, ScanInv, TypeOK, CommitSteps, ScanSteps, Outputs, OwnedBy, NoQuery
<1>30. ASSUME NEW a \in Accounts, list_rgb20_assets_for_utxos(a) PROVE TypeOK'
  <2>1. query' \in [Accounts -> [step : {"idle", "listed", "legacy_listed", "check", "clean"},
                                  known : SUBSET Outputs, rgb : SUBSET Outputs]]
    <3> DEFINE rgb == {o \in query[a].known : o[2] \in stock[a]}
    <3>1. query[a].known \subseteq Outputs /\ rgb \subseteq Outputs
      BY DEF IInv, TypeOK
    <3> HIDE DEF rgb
    <3> DEFINE new == [step |-> IF query[a].step = "listed" THEN "clean" ELSE "check",
                       known |-> query[a].known, rgb |-> rgb]
    <3>2. query' = [query EXCEPT ![a] = new]
      BY <1>30 DEF list_rgb20_assets_for_utxos, rgb, IInv, TypeOK
    <3>3. new \in [step : {"idle", "listed", "legacy_listed", "check", "clean"},
                   known : SUBSET Outputs, rgb : SUBSET Outputs]
      BY <3>1 DEF IInv, TypeOK
    <3> HIDE DEF new
    <3>4. QED
      BY <3>2, <3>3 DEF IInv, TypeOK
  <2>2. QED
    BY <1>30, <2>1 DEF list_rgb20_assets_for_utxos, unchangedByQuery, IInv, TypeOK
<1>31. ASSUME NEW a \in Accounts, CheckPending(a) PROVE TypeOK'
  <2>1. query' \in [Accounts -> [step : {"idle", "listed", "legacy_listed", "check", "clean"},
                                  known : SUBSET Outputs, rgb : SUBSET Outputs]]
    <3>1. CASE query' = [query EXCEPT ![a] = NoQuery]
      BY <3>1 DEF NoQuery, IInv, TypeOK
    <3>2. CASE query' = [query EXCEPT ![a].step = "clean"]
      BY <3>2 DEF IInv, TypeOK
    <3>3. QED
      BY <1>31, <3>1, <3>2 DEF CheckPending, IInv, TypeOK
  <2>2. QED
    BY <1>31, <2>1 DEF CheckPending, unchangedByQuery, IInv, TypeOK
<1>32. ASSUME NEW a \in Accounts, remove_account_utxos(a) PROVE TypeOK'
  BY <1>32, TransfersAssumption DEF remove_account_utxos, NoQuery, unchangedByQuery,
         durable, IInv, ScanInv, TypeOK, CommitSteps, ScanSteps, Outputs, OwnedBy
<1>33. ASSUME NEW a \in Accounts, ExternalClaim(a) PROVE TypeOK'
  BY <1>33, TransfersAssumption DEF ExternalClaim, has_active_pending, pending_txids,
         is_terminal, durable, IInv, ScanInv, TypeOK, CommitSteps, ScanSteps, Outputs,
         OwnedBy, NoQuery
<1>34. ASSUME Crash PROVE TypeOK'
  BY <1>34, TransfersAssumption DEF Crash, NoScan, NoQuery, discover_pending_stock_dirs,
         pending_txids, durable, IInv, ScanInv, TypeOK, CommitSteps, ScanSteps, Outputs,
         OwnedBy
<1>35. ASSUME UNCHANGED vars PROVE TypeOK'
  BY <1>35 DEF vars, durable, IInv, ScanInv, TypeOK, CommitSteps, ScanSteps, Outputs,
         OwnedBy, NoQuery
<1>36. QED
  BY <1>1, <1>2, <1>3, <1>4, <1>5, <1>6, <1>7, <1>8, <1>9, <1>10, <1>11, <1>12, <1>13,
     <1>14, <1>15, <1>15a, <1>16, <1>17, <1>18, <1>19, <1>20, <1>21, <1>22, <1>23, <1>24, <1>25,
     <1>26, <1>27, <1>28, <1>29, <1>30, <1>31, <1>32, <1>33, <1>34, <1>35
     DEF Next, CommitStep, Scanner, Query

\* A staged side is removed only once it is in the stock, and a stock only grows.
LEMMA StagingStep == ASSUME IInv, [Next]_vars PROVE StagingInv'
<1>1. ASSUME NEW t \in Transfers, Prepare(t) PROVE StagingInv'
  BY <1>1, TransfersAssumption DEF Prepare, durable, IInv, StagingInv, StagedOrStocked,
         PastSender, PastReceiver, CommitSteps, TypeOK, ScanInv
<1>2. ASSUME NEW t \in Transfers, Cancel(t) PROVE StagingInv'
  BY <1>2, TransfersAssumption DEF Cancel, CancelDirect, CancelLegacy, durable, IInv,
         StagingInv, StagedOrStocked, PastSender, PastReceiver, CommitSteps, TypeOK,
         ScanInv
<1>3. ASSUME NEW t \in Transfers, BeginCommit(t) PROVE StagingInv'
  BY <1>3, TransfersAssumption DEF BeginCommit, CommitAt, CommitDirect, CallbackLegacy,
         guard_legacy_account, durable, IInv, StagingInv, StagedOrStocked, PastSender,
         PastReceiver, CommitSteps, TypeOK, ScanInv
<1>4. ASSUME NEW t \in Transfers, stage_sender_fascia(t) PROVE StagingInv'
  <2>1. Sender[t] \in Accounts /\ Sender[t] # Recipient[t]
    BY TransfersAssumption
  <2>2. op'[Sender[t]][t] # "none"
    BY <1>4, <2>1 DEF stage_sender_fascia, put_pending_operation, IInv, TypeOK
  <2>3. \A a \in Accounts, u \in Transfers : op[a][u] # "none" => op'[a][u] # "none"
    BY <1>4, <2>1 DEF stage_sender_fascia, put_pending_operation, IInv, TypeOK
  <2>4. \A u \in Transfers \ {t} : commit'[u] = commit[u]
    BY <1>4 DEF stage_sender_fascia, CommitAt, IInv, TypeOK
  <2>5. commit'[t] = "register_sender" /\ commit[t] = "begun"
    BY <1>4 DEF stage_sender_fascia, CommitAt, IInv, TypeOK
  <2>6. \A u \in Transfers : Sender[u] \in Accounts /\ Recipient[u] \in Accounts
    BY TransfersAssumption
  <2>7. stock' = stock /\ committed' = committed
    BY <1>4 DEF stage_sender_fascia
  <2>8. QED
    BY <2>2, <2>3, <2>4, <2>5, <2>6, <2>7
    DEF IInv, StagingInv, StagedOrStocked, PastSender, PastReceiver, CommitSteps
<1>5. ASSUME NEW t \in Transfers, RegisterSender(t) PROVE StagingInv'
  BY <1>5, TransfersAssumption DEF RegisterSender, CommitAt, register_pending_stock_dir,
         durable, IInv, StagingInv, StagedOrStocked, PastSender, PastReceiver,
         CommitSteps, TypeOK, ScanInv
<1>6. ASSUME NEW t \in Transfers, stage_receiver_transfer(t) PROVE StagingInv'
  <2>1. Recipient[t] \in Accounts /\ Sender[t] # Recipient[t]
    BY TransfersAssumption
  <2>2. op'[Recipient[t]][t] # "none"
    BY <1>6, <2>1 DEF stage_receiver_transfer, put_pending_operation, IInv, TypeOK
  <2>3. \A a \in Accounts, u \in Transfers : op[a][u] # "none" => op'[a][u] # "none"
    BY <1>6, <2>1 DEF stage_receiver_transfer, put_pending_operation, IInv, TypeOK
  <2>4. \A u \in Transfers \ {t} : commit'[u] = commit[u]
    BY <1>6 DEF stage_receiver_transfer, CommitAt, IInv, TypeOK
  <2>5. commit'[t] = "register_receiver" /\ commit[t] = "stage_receiver"
    BY <1>6 DEF stage_receiver_transfer, CommitAt, IInv, TypeOK
  <2>6. \A u \in Transfers : Sender[u] \in Accounts /\ Recipient[u] \in Accounts
    BY TransfersAssumption
  <2>7. stock' = stock /\ committed' = committed
    BY <1>6 DEF stage_receiver_transfer
  <2>8. QED
    BY <2>2, <2>3, <2>4, <2>5, <2>6, <2>7
    DEF IInv, StagingInv, StagedOrStocked, PastSender, PastReceiver, CommitSteps
<1>7. ASSUME NEW t \in Transfers, RegisterReceiver(t) PROVE StagingInv'
  BY <1>7, TransfersAssumption DEF RegisterReceiver, CommitAt,
         register_pending_stock_dir, durable, IInv, StagingInv, StagedOrStocked,
         PastSender, PastReceiver, CommitSteps, TypeOK, ScanInv
<1>8. ASSUME NEW t \in Transfers, TrackReceiver(t) PROVE StagingInv'
  BY <1>8, TransfersAssumption DEF TrackReceiver, CommitAt, put_account_utxo, durable,
         IInv, StagingInv, StagedOrStocked, PastSender, PastReceiver, CommitSteps,
         TypeOK, ScanInv
<1>9. ASSUME NEW t \in Transfers, ReplyCommitted(t) PROVE StagingInv'
  BY <1>9, TransfersAssumption DEF ReplyCommitted, CommitAt, durable, IInv, StagingInv,
         StagedOrStocked, PastSender, PastReceiver, CommitSteps, TypeOK, ScanInv
<1>10. ASSUME NEW t \in Transfers, broadcast_legacy_tx(t) PROVE StagingInv'
  BY <1>10, TransfersAssumption DEF broadcast_legacy_tx, CommitAt, Relayed, durable,
         IInv, StagingInv, StagedOrStocked, PastSender, PastReceiver, CommitSteps,
         TypeOK, ScanInv
<1>11. ASSUME NEW t \in Transfers, apply_legacy_signed_tx(t) PROVE StagingInv'
  BY <1>11, TransfersAssumption DEF apply_legacy_signed_tx, CommitAt, put_account_utxo,
         durable, IInv, StagingInv, StagedOrStocked, PastSender, PastReceiver,
         CommitSteps, TypeOK, ScanInv
<1>12. ASSUME NEW t \in Transfers, CommitFails(t) PROVE StagingInv'
  BY <1>12, TransfersAssumption DEF CommitFails, durable, IInv, StagingInv,
         StagedOrStocked, PastSender, PastReceiver, CommitSteps, TypeOK, ScanInv
<1>13. ASSUME NEW t \in Transfers, WalletBroadcast(t) PROVE StagingInv'
  BY <1>13, TransfersAssumption DEF WalletBroadcast, Relayed, unchangedByChain, durable,
         IInv, StagingInv, StagedOrStocked, PastSender, PastReceiver, CommitSteps,
         TypeOK, ScanInv
<1>14. ASSUME NEW t \in Transfers, Evict(t) PROVE StagingInv'
  BY <1>14, TransfersAssumption DEF Evict, unchangedByChain, durable, IInv, StagingInv,
         StagedOrStocked, PastSender, PastReceiver, CommitSteps, TypeOK, ScanInv
<1>15. ASSUME NEW t \in Transfers, Mine(t) PROVE StagingInv'
  BY <1>15, TransfersAssumption DEF Mine, Conflicting, unchangedByChain, durable, IInv,
         StagingInv, StagedOrStocked, PastSender, PastReceiver, CommitSteps, TypeOK,
         ScanInv
<1>15a. ASSUME NEW t \in Transfers, Reorg(t) PROVE StagingInv'
  BY <1>15a, TransfersAssumption DEF Reorg, unchangedByChain, durable, IInv, StagingInv,
         StagedOrStocked, PastSender, PastReceiver, CommitSteps, TypeOK, ScanInv
<1>16. ASSUME ScanStart PROVE StagingInv'
  BY <1>16, TransfersAssumption DEF ScanStart, NoScan, unchangedByScan, IInv,
         StagingInv, StagedOrStocked, PastSender, PastReceiver, CommitSteps, TypeOK,
         ScanInv
<1>17. ASSUME ScanEnd PROVE StagingInv'
  BY <1>17, TransfersAssumption DEF ScanEnd, NoScan, unchangedByScan, IInv, StagingInv,
         StagedOrStocked, PastSender, PastReceiver, CommitSteps, TypeOK, ScanInv
<1>18. ASSUME VisitEnds PROVE StagingInv'
  BY <1>18, TransfersAssumption DEF VisitEnds, unchangedByScan, IInv, StagingInv,
         StagedOrStocked, PastSender, PastReceiver, CommitSteps, TypeOK, ScanInv
<1>19. ASSUME RemoveReplayed PROVE StagingInv'
  BY <1>19, TransfersAssumption DEF RemoveReplayed, remove_pending_op, unchangedByScan,
         IInv, StagingInv, StagedOrStocked, PastSender, PastReceiver, CommitSteps,
         TypeOK, ScanInv
<1>20. ASSUME ConfirmReplayed PROVE StagingInv'
  BY <1>20, TransfersAssumption DEF ConfirmReplayed, unchangedByScan, IInv, StagingInv,
         StagedOrStocked, PastSender, PastReceiver, CommitSteps, TypeOK, ScanInv
<1>21. ASSUME MarkPromoted PROVE StagingInv'
  BY <1>21, TransfersAssumption DEF MarkPromoted, mark_account_utxos_confirmed,
         unchangedByScan, IInv, StagingInv, StagedOrStocked, PastSender, PastReceiver,
         CommitSteps, TypeOK, ScanInv
<1>22. ASSUME stock_has_active_pending PROVE StagingInv'
  BY <1>22, TransfersAssumption DEF stock_has_active_pending, unchangedByScan, IInv,
         StagingInv, StagedOrStocked, PastSender, PastReceiver, CommitSteps, TypeOK,
         ScanInv
<1>23. ASSUME unregister_pending_stock_dir PROVE StagingInv'
  BY <1>23, TransfersAssumption DEF unregister_pending_stock_dir, unchangedByScan, IInv,
         StagingInv, StagedOrStocked, PastSender, PastReceiver, CommitSteps, TypeOK,
         ScanInv
<1>24. ASSUME NEW a \in Accounts, VisitAccount(a) PROVE StagingInv'
  BY <1>24, TransfersAssumption DEF VisitAccount, pending_txids, unchangedByScan, IInv,
         StagingInv, StagedOrStocked, PastSender, PastReceiver, CommitSteps, TypeOK,
         ScanInv
<1>25. ASSUME NEW a \in Accounts, NEW t \in Transfers, SkipTerminal(a, t) PROVE StagingInv'
  BY <1>25, TransfersAssumption DEF SkipTerminal, LookingAt, is_terminal,
         unchangedByScan, IInv, StagingInv, StagedOrStocked, PastSender, PastReceiver,
         CommitSteps, TypeOK, ScanInv
<1>26. ASSUME NEW a \in Accounts, NEW t \in Transfers, LookUnconfirmed(a, t) PROVE StagingInv'
  BY <1>26, TransfersAssumption DEF LookUnconfirmed, LookingAt, is_terminal,
         unchangedByScan, IInv, StagingInv, StagedOrStocked, PastSender, PastReceiver,
         CommitSteps, TypeOK, ScanInv
<1>27. ASSUME NEW a \in Accounts, NEW t \in Transfers, Promote(a, t) PROVE StagingInv'
  BY <1>27, TransfersAssumption DEF Promote, LookingAt, is_terminal, unchangedByScan,
         IInv, StagingInv, StagedOrStocked, PastSender, PastReceiver, CommitSteps,
         TypeOK, ScanInv
<1>28. ASSUME NEW a \in Accounts, NEW t \in Transfers, VisitFails(a, t) PROVE StagingInv'
  BY <1>28, TransfersAssumption DEF VisitFails, LookingAt, unchangedByScan, IInv,
         StagingInv, StagedOrStocked, PastSender, PastReceiver, CommitSteps, TypeOK,
         ScanInv
<1>29. ASSUME NEW a \in Accounts, NEW s \in {"listed", "legacy_listed"},
             account_rgb20_utxos(a, s) PROVE StagingInv'
  BY <1>29, TransfersAssumption DEF account_rgb20_utxos, unchangedByQuery, durable,
         IInv, StagingInv, StagedOrStocked, PastSender, PastReceiver, CommitSteps,
         TypeOK, ScanInv
<1>30. ASSUME NEW a \in Accounts, list_rgb20_assets_for_utxos(a) PROVE StagingInv'
  BY <1>30, TransfersAssumption DEF list_rgb20_assets_for_utxos, unchangedByQuery,
         durable, IInv, StagingInv, StagedOrStocked, PastSender, PastReceiver,
         CommitSteps, TypeOK, ScanInv
<1>31. ASSUME NEW a \in Accounts, CheckPending(a) PROVE StagingInv'
  BY <1>31, TransfersAssumption DEF CheckPending, NoQuery, unchangedByQuery, durable,
         IInv, StagingInv, StagedOrStocked, PastSender, PastReceiver, CommitSteps,
         TypeOK, ScanInv
<1>32. ASSUME NEW a \in Accounts, remove_account_utxos(a) PROVE StagingInv'
  BY <1>32, TransfersAssumption DEF remove_account_utxos, NoQuery, unchangedByQuery,
         durable, IInv, StagingInv, StagedOrStocked, PastSender, PastReceiver,
         CommitSteps, TypeOK, ScanInv
<1>33. ASSUME NEW a \in Accounts, ExternalClaim(a) PROVE StagingInv'
  BY <1>33, TransfersAssumption DEF ExternalClaim, has_active_pending, pending_txids,
         is_terminal, durable, IInv, StagingInv, StagedOrStocked, PastSender,
         PastReceiver, CommitSteps, TypeOK, ScanInv
<1>34. ASSUME Crash PROVE StagingInv'
  BY <1>34, TransfersAssumption DEF Crash, NoScan, NoQuery, discover_pending_stock_dirs,
         pending_txids, durable, IInv, StagingInv, StagedOrStocked, PastSender,
         PastReceiver, CommitSteps, TypeOK, ScanInv
<1>35. ASSUME UNCHANGED vars PROVE StagingInv'
  BY <1>35 DEF vars, durable, IInv, StagingInv, StagedOrStocked, PastSender,
         PastReceiver, CommitSteps, TypeOK, ScanInv
<1>36. QED
  BY <1>1, <1>2, <1>3, <1>4, <1>5, <1>6, <1>7, <1>8, <1>9, <1>10, <1>11, <1>12, <1>13,
     <1>14, <1>15, <1>15a, <1>16, <1>17, <1>18, <1>19, <1>20, <1>21, <1>22, <1>23, <1>24, <1>25,
     <1>26, <1>27, <1>28, <1>29, <1>30, <1>31, <1>32, <1>33, <1>34, <1>35
     DEF Next, CommitStep, Scanner, Query

\* A scan removes and confirms only what it has put into the stock.
LEMMA ScanStep == ASSUME IInv, [Next]_vars PROVE ScanInv'
<1>1. ASSUME NEW t \in Transfers, Prepare(t) PROVE ScanInv'
  BY <1>1 DEF Prepare, durable, IInv, ScanInv, TypeOK, NoScan
<1>2. ASSUME NEW t \in Transfers, Cancel(t) PROVE ScanInv'
  BY <1>2 DEF Cancel, CancelDirect, CancelLegacy, durable, IInv, ScanInv, TypeOK, NoScan
<1>3. ASSUME NEW t \in Transfers, BeginCommit(t) PROVE ScanInv'
  BY <1>3 DEF BeginCommit, CommitAt, CommitDirect, CallbackLegacy, guard_legacy_account,
         durable, IInv, ScanInv, TypeOK, NoScan
<1>4. ASSUME NEW t \in Transfers, stage_sender_fascia(t) PROVE ScanInv'
  BY <1>4 DEF stage_sender_fascia, CommitAt, put_pending_operation, durable, IInv,
         ScanInv, TypeOK, NoScan
<1>5. ASSUME NEW t \in Transfers, RegisterSender(t) PROVE ScanInv'
  BY <1>5 DEF RegisterSender, CommitAt, register_pending_stock_dir, durable, IInv,
         ScanInv, TypeOK, NoScan
<1>6. ASSUME NEW t \in Transfers, stage_receiver_transfer(t) PROVE ScanInv'
  BY <1>6 DEF stage_receiver_transfer, CommitAt, put_pending_operation,
         guard_legacy_account, durable, IInv, ScanInv, TypeOK, NoScan
<1>7. ASSUME NEW t \in Transfers, RegisterReceiver(t) PROVE ScanInv'
  BY <1>7 DEF RegisterReceiver, CommitAt, register_pending_stock_dir, durable, IInv,
         ScanInv, TypeOK, NoScan
<1>8. ASSUME NEW t \in Transfers, TrackReceiver(t) PROVE ScanInv'
  BY <1>8 DEF TrackReceiver, CommitAt, put_account_utxo, durable, IInv, ScanInv, TypeOK,
         NoScan
<1>9. ASSUME NEW t \in Transfers, ReplyCommitted(t) PROVE ScanInv'
  BY <1>9 DEF ReplyCommitted, CommitAt, durable, IInv, ScanInv, TypeOK, NoScan
<1>10. ASSUME NEW t \in Transfers, broadcast_legacy_tx(t) PROVE ScanInv'
  BY <1>10 DEF broadcast_legacy_tx, CommitAt, Relayed, durable, IInv, ScanInv, TypeOK,
         NoScan
<1>11. ASSUME NEW t \in Transfers, apply_legacy_signed_tx(t) PROVE ScanInv'
  BY <1>11 DEF apply_legacy_signed_tx, CommitAt, put_account_utxo, durable, IInv,
         ScanInv, TypeOK, NoScan
<1>12. ASSUME NEW t \in Transfers, CommitFails(t) PROVE ScanInv'
  BY <1>12 DEF CommitFails, durable, IInv, ScanInv, TypeOK, NoScan
<1>13. ASSUME NEW t \in Transfers, WalletBroadcast(t) PROVE ScanInv'
  BY <1>13 DEF WalletBroadcast, Relayed, unchangedByChain, durable, IInv, ScanInv,
         TypeOK, NoScan
<1>14. ASSUME NEW t \in Transfers, Evict(t) PROVE ScanInv'
  BY <1>14 DEF Evict, unchangedByChain, durable, IInv, ScanInv, TypeOK, NoScan
<1>15. ASSUME NEW t \in Transfers, Mine(t) PROVE ScanInv'
  BY <1>15 DEF Mine, Conflicting, unchangedByChain, durable, IInv, ScanInv, TypeOK,
         NoScan
<1>15a. ASSUME NEW t \in Transfers, Reorg(t) PROVE ScanInv'
  BY <1>15a DEF Reorg, unchangedByChain, durable, IInv, ScanInv, TypeOK, NoScan
<1>16. ASSUME ScanStart PROVE ScanInv'
  BY <1>16 DEF ScanStart, NoScan, unchangedByScan, IInv, ScanInv, TypeOK
<1>17. ASSUME ScanEnd PROVE ScanInv'
  BY <1>17 DEF ScanEnd, NoScan, unchangedByScan, IInv, ScanInv, TypeOK
<1>18. ASSUME VisitEnds PROVE ScanInv'
  BY <1>18 DEF VisitEnds, unchangedByScan, IInv, ScanInv, TypeOK, NoScan
<1>19. ASSUME RemoveReplayed PROVE ScanInv'
  BY <1>19 DEF RemoveReplayed, remove_pending_op, unchangedByScan, IInv, ScanInv,
         TypeOK, NoScan
<1>20. ASSUME ConfirmReplayed PROVE ScanInv'
  BY <1>20 DEF ConfirmReplayed, unchangedByScan, IInv, ScanInv, TypeOK, NoScan
<1>21. ASSUME MarkPromoted PROVE ScanInv'
  BY <1>21 DEF MarkPromoted, mark_account_utxos_confirmed, unchangedByScan, IInv,
         ScanInv, TypeOK, NoScan
<1>22. ASSUME stock_has_active_pending PROVE ScanInv'
  BY <1>22 DEF stock_has_active_pending, unchangedByScan, IInv, ScanInv, TypeOK, NoScan
<1>23. ASSUME unregister_pending_stock_dir PROVE ScanInv'
  BY <1>23 DEF unregister_pending_stock_dir, unchangedByScan, IInv, ScanInv, TypeOK,
         NoScan
<1>24. ASSUME NEW a \in Accounts, VisitAccount(a) PROVE ScanInv'
  BY <1>24 DEF VisitAccount, pending_txids, unchangedByScan, IInv, ScanInv, TypeOK,
         NoScan
<1>25. ASSUME NEW a \in Accounts, NEW t \in Transfers, SkipTerminal(a, t) PROVE ScanInv'
  BY <1>25 DEF SkipTerminal, LookingAt, is_terminal, unchangedByScan, IInv, ScanInv,
         TypeOK, NoScan
<1>26. ASSUME NEW a \in Accounts, NEW t \in Transfers, LookUnconfirmed(a, t) PROVE ScanInv'
  <2>1. scan'.step = "look" /\ scan'.at = a
    BY <1>26 DEF LookUnconfirmed, LookingAt, IInv, TypeOK
  <2>2. \A b \in Accounts, u \in Transfers :
           status'[b][u] = "confirmed" => status[b][u] = "confirmed"
    <3>1. CASE status' = [status EXCEPT ![a][t] = "pending"]
      BY <3>1 DEF IInv, TypeOK
    <3>2. CASE status' = status
      BY <3>2
    <3>3. QED
      BY <1>26, <3>1, <3>2 DEF LookUnconfirmed
  <2>3. QED
    BY <1>26, <2>1, <2>2 DEF LookUnconfirmed, IInv, ScanInv
<1>27. ASSUME NEW a \in Accounts, NEW t \in Transfers, Promote(a, t) PROVE ScanInv'
  BY <1>27 DEF Promote, LookingAt, is_terminal, unchangedByScan, IInv, ScanInv, TypeOK,
         NoScan
<1>28. ASSUME NEW a \in Accounts, NEW t \in Transfers, VisitFails(a, t) PROVE ScanInv'
  BY <1>28 DEF VisitFails, LookingAt, unchangedByScan, IInv, ScanInv, TypeOK, NoScan
<1>29. ASSUME NEW a \in Accounts, NEW s \in {"listed", "legacy_listed"},
             account_rgb20_utxos(a, s) PROVE ScanInv'
  BY <1>29 DEF account_rgb20_utxos, unchangedByQuery, durable, IInv, ScanInv, TypeOK,
         NoScan
<1>30. ASSUME NEW a \in Accounts, list_rgb20_assets_for_utxos(a) PROVE ScanInv'
  BY <1>30 DEF list_rgb20_assets_for_utxos, unchangedByQuery, durable, IInv, ScanInv,
         TypeOK, NoScan
<1>31. ASSUME NEW a \in Accounts, CheckPending(a) PROVE ScanInv'
  BY <1>31 DEF CheckPending, NoQuery, unchangedByQuery, durable, IInv, ScanInv, TypeOK,
         NoScan
<1>32. ASSUME NEW a \in Accounts, remove_account_utxos(a) PROVE ScanInv'
  BY <1>32 DEF remove_account_utxos, NoQuery, unchangedByQuery, durable, IInv, ScanInv,
         TypeOK, NoScan
<1>33. ASSUME NEW a \in Accounts, ExternalClaim(a) PROVE ScanInv'
  BY <1>33 DEF ExternalClaim, has_active_pending, pending_txids, is_terminal, durable,
         IInv, ScanInv, TypeOK, NoScan
<1>34. ASSUME Crash PROVE ScanInv'
  BY <1>34 DEF Crash, NoScan, NoQuery, discover_pending_stock_dirs, pending_txids,
         durable, IInv, ScanInv, TypeOK
<1>35. ASSUME UNCHANGED vars PROVE ScanInv'
  BY <1>35 DEF vars, durable, IInv, ScanInv, TypeOK, NoScan
<1>36. QED
  BY <1>1, <1>2, <1>3, <1>4, <1>5, <1>6, <1>7, <1>8, <1>9, <1>10, <1>11, <1>12, <1>13,
     <1>14, <1>15, <1>15a, <1>16, <1>17, <1>18, <1>19, <1>20, <1>21, <1>22, <1>23, <1>24, <1>25,
     <1>26, <1>27, <1>28, <1>29, <1>30, <1>31, <1>32, <1>33, <1>34, <1>35
     DEF Next, CommitStep, Scanner, Query

\* A stock consumes carriers that are confirmed, or were until a reorganisation,
\* and no two carriers of a coin are confirmed at a time.
LEMMA ChainStep == ASSUME IInv, [Next]_vars PROVE ChainInv'
<1> USE DEF ReportedConfirmed
<1>1. ASSUME NEW t \in Transfers, Prepare(t) PROVE ChainInv'
  BY <1>1 DEF Prepare, durable, IInv, ChainInv, TypeOK
<1>2. ASSUME NEW t \in Transfers, Cancel(t) PROVE ChainInv'
  BY <1>2 DEF Cancel, CancelDirect, CancelLegacy, durable, IInv, ChainInv, TypeOK
<1>3. ASSUME NEW t \in Transfers, BeginCommit(t) PROVE ChainInv'
  BY <1>3 DEF BeginCommit, CommitAt, CommitDirect, CallbackLegacy, guard_legacy_account,
         durable, IInv, ChainInv, TypeOK
<1>4. ASSUME NEW t \in Transfers, stage_sender_fascia(t) PROVE ChainInv'
  BY <1>4 DEF stage_sender_fascia, CommitAt, put_pending_operation, durable, IInv,
         ChainInv, TypeOK
<1>5. ASSUME NEW t \in Transfers, RegisterSender(t) PROVE ChainInv'
  BY <1>5 DEF RegisterSender, CommitAt, register_pending_stock_dir, durable, IInv,
         ChainInv, TypeOK
<1>6. ASSUME NEW t \in Transfers, stage_receiver_transfer(t) PROVE ChainInv'
  BY <1>6 DEF stage_receiver_transfer, CommitAt, put_pending_operation,
         guard_legacy_account, durable, IInv, ChainInv, TypeOK
<1>7. ASSUME NEW t \in Transfers, RegisterReceiver(t) PROVE ChainInv'
  BY <1>7 DEF RegisterReceiver, CommitAt, register_pending_stock_dir, durable, IInv,
         ChainInv, TypeOK
<1>8. ASSUME NEW t \in Transfers, TrackReceiver(t) PROVE ChainInv'
  BY <1>8 DEF TrackReceiver, CommitAt, put_account_utxo, durable, IInv, ChainInv, TypeOK
<1>9. ASSUME NEW t \in Transfers, ReplyCommitted(t) PROVE ChainInv'
  BY <1>9 DEF ReplyCommitted, CommitAt, durable, IInv, ChainInv, TypeOK
<1>10. ASSUME NEW t \in Transfers, broadcast_legacy_tx(t) PROVE ChainInv'
  BY <1>10 DEF broadcast_legacy_tx, CommitAt, Relayed, durable, IInv, ChainInv, TypeOK
<1>11. ASSUME NEW t \in Transfers, apply_legacy_signed_tx(t) PROVE ChainInv'
  BY <1>11 DEF apply_legacy_signed_tx, CommitAt, put_account_utxo, durable, IInv,
         ChainInv, TypeOK
<1>12. ASSUME NEW t \in Transfers, CommitFails(t) PROVE ChainInv'
  BY <1>12 DEF CommitFails, durable, IInv, ChainInv, TypeOK
<1>13. ASSUME NEW t \in Transfers, WalletBroadcast(t) PROVE ChainInv'
  BY <1>13 DEF WalletBroadcast, Relayed, unchangedByChain, durable, IInv, ChainInv,
         TypeOK
<1>14. ASSUME NEW t \in Transfers, Evict(t) PROVE ChainInv'
  BY <1>14 DEF Evict, unchangedByChain, durable, IInv, ChainInv, TypeOK
<1>15. ASSUME NEW t \in Transfers, Mine(t) PROVE ChainInv'
  BY <1>15 DEF Mine, Conflicting, unchangedByChain, durable, IInv, ChainInv, TypeOK
<1>15a. ASSUME NEW t \in Transfers, Reorg(t) PROVE ChainInv'
  BY <1>15a DEF Reorg, unchangedByChain, durable, IInv, ChainInv, TypeOK
<1>16. ASSUME ScanStart PROVE ChainInv'
  BY <1>16 DEF ScanStart, NoScan, unchangedByScan, IInv, ChainInv, TypeOK
<1>17. ASSUME ScanEnd PROVE ChainInv'
  BY <1>17 DEF ScanEnd, NoScan, unchangedByScan, IInv, ChainInv, TypeOK
<1>18. ASSUME VisitEnds PROVE ChainInv'
  BY <1>18 DEF VisitEnds, unchangedByScan, IInv, ChainInv, TypeOK
<1>19. ASSUME RemoveReplayed PROVE ChainInv'
  BY <1>19 DEF RemoveReplayed, remove_pending_op, unchangedByScan, IInv, ChainInv,
         TypeOK
<1>20. ASSUME ConfirmReplayed PROVE ChainInv'
  BY <1>20 DEF ConfirmReplayed, unchangedByScan, IInv, ChainInv, TypeOK
<1>21. ASSUME MarkPromoted PROVE ChainInv'
  BY <1>21 DEF MarkPromoted, mark_account_utxos_confirmed, unchangedByScan, IInv,
         ChainInv, TypeOK
<1>22. ASSUME stock_has_active_pending PROVE ChainInv'
  BY <1>22 DEF stock_has_active_pending, unchangedByScan, IInv, ChainInv, TypeOK
<1>23. ASSUME unregister_pending_stock_dir PROVE ChainInv'
  BY <1>23 DEF unregister_pending_stock_dir, unchangedByScan, IInv, ChainInv, TypeOK
<1>24. ASSUME NEW a \in Accounts, VisitAccount(a) PROVE ChainInv'
  BY <1>24 DEF VisitAccount, pending_txids, unchangedByScan, IInv, ChainInv, TypeOK
<1>25. ASSUME NEW a \in Accounts, NEW t \in Transfers, SkipTerminal(a, t) PROVE ChainInv'
  BY <1>25 DEF SkipTerminal, LookingAt, is_terminal, unchangedByScan, IInv, ChainInv,
         TypeOK
<1>26. ASSUME NEW a \in Accounts, NEW t \in Transfers, LookUnconfirmed(a, t) PROVE ChainInv'
  BY <1>26 DEF LookUnconfirmed, LookingAt, is_terminal, unchangedByScan, IInv, ChainInv,
         TypeOK
<1>27. ASSUME NEW a \in Accounts, NEW t \in Transfers, Promote(a, t) PROVE ChainInv'
  BY <1>27 DEF Promote, LookingAt, is_terminal, unchangedByScan, IInv, ChainInv, TypeOK
<1>28. ASSUME NEW a \in Accounts, NEW t \in Transfers, VisitFails(a, t) PROVE ChainInv'
  BY <1>28 DEF VisitFails, LookingAt, unchangedByScan, IInv, ChainInv, TypeOK
<1>29. ASSUME NEW a \in Accounts, NEW s \in {"listed", "legacy_listed"},
             account_rgb20_utxos(a, s) PROVE ChainInv'
  BY <1>29 DEF account_rgb20_utxos, unchangedByQuery, durable, IInv, ChainInv, TypeOK
<1>30. ASSUME NEW a \in Accounts, list_rgb20_assets_for_utxos(a) PROVE ChainInv'
  BY <1>30 DEF list_rgb20_assets_for_utxos, unchangedByQuery, durable, IInv, ChainInv,
         TypeOK
<1>31. ASSUME NEW a \in Accounts, CheckPending(a) PROVE ChainInv'
  BY <1>31 DEF CheckPending, NoQuery, unchangedByQuery, durable, IInv, ChainInv, TypeOK
<1>32. ASSUME NEW a \in Accounts, remove_account_utxos(a) PROVE ChainInv'
  BY <1>32 DEF remove_account_utxos, NoQuery, unchangedByQuery, durable, IInv, ChainInv,
         TypeOK
<1>33. ASSUME NEW a \in Accounts, ExternalClaim(a) PROVE ChainInv'
  BY <1>33 DEF ExternalClaim, has_active_pending, pending_txids, is_terminal, durable,
         IInv, ChainInv, TypeOK
<1>34. ASSUME Crash PROVE ChainInv'
  BY <1>34 DEF Crash, NoScan, NoQuery, discover_pending_stock_dirs, pending_txids,
         durable, IInv, ChainInv, TypeOK
<1>35. ASSUME UNCHANGED vars PROVE ChainInv'
  BY <1>35 DEF vars, durable, IInv, ChainInv, TypeOK
<1>36. QED
  BY <1>1, <1>2, <1>3, <1>4, <1>5, <1>6, <1>7, <1>8, <1>9, <1>10, <1>11, <1>12, <1>13,
     <1>14, <1>15, <1>15a, <1>16, <1>17, <1>18, <1>19, <1>20, <1>21, <1>22, <1>23, <1>24, <1>25,
     <1>26, <1>27, <1>28, <1>29, <1>30, <1>31, <1>32, <1>33, <1>34, <1>35
     DEF Next, CommitStep, Scanner, Query

\* A direct commit keeps the lock, which the engine needs to claim an account.
LEMMA LockStep == ASSUME IInv, [Next]_vars PROVE LockInv'
<1>1. ASSUME NEW t \in Transfers, Prepare(t) PROVE LockInv'
  BY <1>1, TransfersAssumption DEF Prepare, durable, IInv, LockInv, TypeOK
<1>2. ASSUME NEW t \in Transfers, Cancel(t) PROVE LockInv'
  BY <1>2, TransfersAssumption DEF Cancel, CancelDirect, CancelLegacy, durable, IInv,
         LockInv, TypeOK
<1>3. ASSUME NEW t \in Transfers, BeginCommit(t) PROVE LockInv'
  BY <1>3, TransfersAssumption DEF BeginCommit, CommitAt, CommitDirect, CallbackLegacy,
         guard_legacy_account, durable, IInv, LockInv, TypeOK
<1>4. ASSUME NEW t \in Transfers, stage_sender_fascia(t) PROVE LockInv'
  BY <1>4, TransfersAssumption DEF stage_sender_fascia, CommitAt, put_pending_operation,
         durable, IInv, LockInv, TypeOK
<1>5. ASSUME NEW t \in Transfers, RegisterSender(t) PROVE LockInv'
  BY <1>5, TransfersAssumption DEF RegisterSender, CommitAt, register_pending_stock_dir,
         durable, IInv, LockInv, TypeOK
<1>6. ASSUME NEW t \in Transfers, stage_receiver_transfer(t) PROVE LockInv'
  BY <1>6, TransfersAssumption DEF stage_receiver_transfer, CommitAt,
         put_pending_operation, guard_legacy_account, durable, IInv, LockInv, TypeOK
<1>7. ASSUME NEW t \in Transfers, RegisterReceiver(t) PROVE LockInv'
  BY <1>7, TransfersAssumption DEF RegisterReceiver, CommitAt,
         register_pending_stock_dir, durable, IInv, LockInv, TypeOK
<1>8. ASSUME NEW t \in Transfers, TrackReceiver(t) PROVE LockInv'
  BY <1>8, TransfersAssumption DEF TrackReceiver, CommitAt, put_account_utxo, durable,
         IInv, LockInv, TypeOK
<1>9. ASSUME NEW t \in Transfers, ReplyCommitted(t) PROVE LockInv'
  <2>1. commit[t] = "reply" /\ commit' = [commit EXCEPT ![t] = "idle"]
    BY <1>9 DEF ReplyCommitted, CommitAt
  <2>2. t \notin Legacy /\ lock = t
    BY <2>1 DEF IInv, LockInv
  <2>3. \A u \in Transfers : commit'[u] # "idle" => u # t /\ commit'[u] = commit[u]
    BY <2>1 DEF IInv, TypeOK
  <2>4. \A u \in Transfers \ Legacy : commit'[u] = "idle"
    BY <2>2, <2>3 DEF IInv, LockInv
  <2>5. QED
    BY <2>3, <2>4, TransfersAssumption DEF IInv, LockInv
<1>10. ASSUME NEW t \in Transfers, broadcast_legacy_tx(t) PROVE LockInv'
  BY <1>10, TransfersAssumption DEF broadcast_legacy_tx, CommitAt, Relayed, durable,
         IInv, LockInv, TypeOK
<1>11. ASSUME NEW t \in Transfers, apply_legacy_signed_tx(t) PROVE LockInv'
  BY <1>11, TransfersAssumption DEF apply_legacy_signed_tx, CommitAt, put_account_utxo,
         durable, IInv, LockInv, TypeOK
<1>12. ASSUME NEW t \in Transfers, CommitFails(t) PROVE LockInv'
  BY <1>12, TransfersAssumption DEF CommitFails, durable, IInv, LockInv, TypeOK
<1>13. ASSUME NEW t \in Transfers, WalletBroadcast(t) PROVE LockInv'
  BY <1>13, TransfersAssumption DEF WalletBroadcast, Relayed, unchangedByChain, durable,
         IInv, LockInv, TypeOK
<1>14. ASSUME NEW t \in Transfers, Evict(t) PROVE LockInv'
  BY <1>14, TransfersAssumption DEF Evict, unchangedByChain, durable, IInv, LockInv,
         TypeOK
<1>15. ASSUME NEW t \in Transfers, Mine(t) PROVE LockInv'
  BY <1>15, TransfersAssumption DEF Mine, Conflicting, unchangedByChain, durable, IInv,
         LockInv, TypeOK
<1>15a. ASSUME NEW t \in Transfers, Reorg(t) PROVE LockInv'
  BY <1>15a, TransfersAssumption DEF Reorg, unchangedByChain, durable, IInv, LockInv,
         TypeOK
<1>16. ASSUME ScanStart PROVE LockInv'
  BY <1>16, TransfersAssumption DEF ScanStart, NoScan, unchangedByScan, IInv, LockInv,
         TypeOK
<1>17. ASSUME ScanEnd PROVE LockInv'
  BY <1>17, TransfersAssumption DEF ScanEnd, NoScan, unchangedByScan, IInv, LockInv,
         TypeOK
<1>18. ASSUME VisitEnds PROVE LockInv'
  BY <1>18, TransfersAssumption DEF VisitEnds, unchangedByScan, IInv, LockInv, TypeOK
<1>19. ASSUME RemoveReplayed PROVE LockInv'
  BY <1>19, TransfersAssumption DEF RemoveReplayed, remove_pending_op, unchangedByScan,
         IInv, LockInv, TypeOK
<1>20. ASSUME ConfirmReplayed PROVE LockInv'
  BY <1>20, TransfersAssumption DEF ConfirmReplayed, unchangedByScan, IInv, LockInv,
         TypeOK
<1>21. ASSUME MarkPromoted PROVE LockInv'
  BY <1>21, TransfersAssumption DEF MarkPromoted, mark_account_utxos_confirmed,
         unchangedByScan, IInv, LockInv, TypeOK
<1>22. ASSUME stock_has_active_pending PROVE LockInv'
  BY <1>22, TransfersAssumption DEF stock_has_active_pending, unchangedByScan, IInv,
         LockInv, TypeOK
<1>23. ASSUME unregister_pending_stock_dir PROVE LockInv'
  BY <1>23, TransfersAssumption DEF unregister_pending_stock_dir, unchangedByScan, IInv,
         LockInv, TypeOK
<1>24. ASSUME NEW a \in Accounts, VisitAccount(a) PROVE LockInv'
  BY <1>24, TransfersAssumption DEF VisitAccount, pending_txids, unchangedByScan, IInv,
         LockInv, TypeOK
<1>25. ASSUME NEW a \in Accounts, NEW t \in Transfers, SkipTerminal(a, t) PROVE LockInv'
  BY <1>25, TransfersAssumption DEF SkipTerminal, LookingAt, is_terminal,
         unchangedByScan, IInv, LockInv, TypeOK
<1>26. ASSUME NEW a \in Accounts, NEW t \in Transfers, LookUnconfirmed(a, t) PROVE LockInv'
  BY <1>26, TransfersAssumption DEF LookUnconfirmed, LookingAt, is_terminal,
         unchangedByScan, IInv, LockInv, TypeOK
<1>27. ASSUME NEW a \in Accounts, NEW t \in Transfers, Promote(a, t) PROVE LockInv'
  BY <1>27, TransfersAssumption DEF Promote, LookingAt, is_terminal, unchangedByScan,
         IInv, LockInv, TypeOK
<1>28. ASSUME NEW a \in Accounts, NEW t \in Transfers, VisitFails(a, t) PROVE LockInv'
  BY <1>28, TransfersAssumption DEF VisitFails, LookingAt, unchangedByScan, IInv,
         LockInv, TypeOK
<1>29. ASSUME NEW a \in Accounts, NEW s \in {"listed", "legacy_listed"},
             account_rgb20_utxos(a, s) PROVE LockInv'
  BY <1>29, TransfersAssumption DEF account_rgb20_utxos, unchangedByQuery, durable,
         IInv, LockInv, TypeOK
<1>30. ASSUME NEW a \in Accounts, list_rgb20_assets_for_utxos(a) PROVE LockInv'
  BY <1>30, TransfersAssumption DEF list_rgb20_assets_for_utxos, unchangedByQuery,
         durable, IInv, LockInv, TypeOK
<1>31. ASSUME NEW a \in Accounts, CheckPending(a) PROVE LockInv'
  BY <1>31, TransfersAssumption DEF CheckPending, NoQuery, unchangedByQuery, durable,
         IInv, LockInv, TypeOK
<1>32. ASSUME NEW a \in Accounts, remove_account_utxos(a) PROVE LockInv'
  BY <1>32, TransfersAssumption DEF remove_account_utxos, NoQuery, unchangedByQuery,
         durable, IInv, LockInv, TypeOK
<1>33. ASSUME NEW a \in Accounts, ExternalClaim(a) PROVE LockInv'
  BY <1>33, TransfersAssumption DEF ExternalClaim, has_active_pending, pending_txids,
         is_terminal, durable, IInv, LockInv, TypeOK
<1>34. ASSUME Crash PROVE LockInv'
  BY <1>34, TransfersAssumption DEF Crash, NoScan, NoQuery, discover_pending_stock_dirs,
         pending_txids, durable, IInv, LockInv, TypeOK
<1>35. ASSUME UNCHANGED vars PROVE LockInv'
  BY <1>35 DEF vars, durable, IInv, LockInv, TypeOK
<1>36. QED
  BY <1>1, <1>2, <1>3, <1>4, <1>5, <1>6, <1>7, <1>8, <1>9, <1>10, <1>11, <1>12, <1>13,
     <1>14, <1>15, <1>15a, <1>16, <1>17, <1>18, <1>19, <1>20, <1>21, <1>22, <1>23, <1>24, <1>25,
     <1>26, <1>27, <1>28, <1>29, <1>30, <1>31, <1>32, <1>33, <1>34, <1>35
     DEF Next, CommitStep, Scanner, Query

\* No direct operation is staged in an account of the engine.
LEMMA EngineStep == ASSUME IInv, [Next]_vars PROVE EngineAccountsIdle'
<1>1. ASSUME NEW t \in Transfers, Prepare(t) PROVE EngineAccountsIdle'
  BY <1>1, TransfersAssumption, ConfigAssumption DEF Prepare, durable, IInv,
         EngineAccountsIdle, LockInv, ScanInv, pending_txids, TypeOK
<1>2. ASSUME NEW t \in Transfers, Cancel(t) PROVE EngineAccountsIdle'
  BY <1>2, TransfersAssumption, ConfigAssumption DEF Cancel, CancelDirect, CancelLegacy,
         durable, IInv, EngineAccountsIdle, LockInv, ScanInv, pending_txids, TypeOK
<1>3. ASSUME NEW t \in Transfers, BeginCommit(t) PROVE EngineAccountsIdle'
  BY <1>3, TransfersAssumption, ConfigAssumption DEF BeginCommit, CommitAt,
         CommitDirect, CallbackLegacy, guard_legacy_account, durable, IInv,
         EngineAccountsIdle, LockInv, ScanInv, pending_txids, TypeOK
<1>4. ASSUME NEW t \in Transfers, stage_sender_fascia(t) PROVE EngineAccountsIdle'
  BY <1>4, TransfersAssumption, ConfigAssumption DEF stage_sender_fascia, CommitAt,
         put_pending_operation, durable, IInv, EngineAccountsIdle, LockInv, ScanInv,
         pending_txids, TypeOK
<1>5. ASSUME NEW t \in Transfers, RegisterSender(t) PROVE EngineAccountsIdle'
  BY <1>5, TransfersAssumption, ConfigAssumption DEF RegisterSender, CommitAt,
         register_pending_stock_dir, durable, IInv, EngineAccountsIdle, LockInv,
         ScanInv, pending_txids, TypeOK
<1>6. ASSUME NEW t \in Transfers, stage_receiver_transfer(t) PROVE EngineAccountsIdle'
  BY <1>6, TransfersAssumption, ConfigAssumption DEF stage_receiver_transfer, CommitAt,
         put_pending_operation, guard_legacy_account, durable, IInv, EngineAccountsIdle,
         LockInv, ScanInv, pending_txids, TypeOK
<1>7. ASSUME NEW t \in Transfers, RegisterReceiver(t) PROVE EngineAccountsIdle'
  BY <1>7, TransfersAssumption, ConfigAssumption DEF RegisterReceiver, CommitAt,
         register_pending_stock_dir, durable, IInv, EngineAccountsIdle, LockInv,
         ScanInv, pending_txids, TypeOK
<1>8. ASSUME NEW t \in Transfers, TrackReceiver(t) PROVE EngineAccountsIdle'
  BY <1>8, TransfersAssumption, ConfigAssumption DEF TrackReceiver, CommitAt,
         put_account_utxo, durable, IInv, EngineAccountsIdle, LockInv, ScanInv,
         pending_txids, TypeOK
<1>9. ASSUME NEW t \in Transfers, ReplyCommitted(t) PROVE EngineAccountsIdle'
  BY <1>9, TransfersAssumption, ConfigAssumption DEF ReplyCommitted, CommitAt, durable,
         IInv, EngineAccountsIdle, LockInv, ScanInv, pending_txids, TypeOK
<1>10. ASSUME NEW t \in Transfers, broadcast_legacy_tx(t) PROVE EngineAccountsIdle'
  BY <1>10, TransfersAssumption, ConfigAssumption DEF broadcast_legacy_tx, CommitAt,
         Relayed, durable, IInv, EngineAccountsIdle, LockInv, ScanInv, pending_txids,
         TypeOK
<1>11. ASSUME NEW t \in Transfers, apply_legacy_signed_tx(t) PROVE EngineAccountsIdle'
  BY <1>11, TransfersAssumption, ConfigAssumption DEF apply_legacy_signed_tx, CommitAt,
         put_account_utxo, durable, IInv, EngineAccountsIdle, LockInv, ScanInv,
         pending_txids, TypeOK
<1>12. ASSUME NEW t \in Transfers, CommitFails(t) PROVE EngineAccountsIdle'
  BY <1>12, TransfersAssumption, ConfigAssumption DEF CommitFails, durable, IInv,
         EngineAccountsIdle, LockInv, ScanInv, pending_txids, TypeOK
<1>13. ASSUME NEW t \in Transfers, WalletBroadcast(t) PROVE EngineAccountsIdle'
  BY <1>13, TransfersAssumption, ConfigAssumption DEF WalletBroadcast, Relayed,
         unchangedByChain, durable, IInv, EngineAccountsIdle, LockInv, ScanInv,
         pending_txids, TypeOK
<1>14. ASSUME NEW t \in Transfers, Evict(t) PROVE EngineAccountsIdle'
  BY <1>14, TransfersAssumption, ConfigAssumption DEF Evict, unchangedByChain, durable,
         IInv, EngineAccountsIdle, LockInv, ScanInv, pending_txids, TypeOK
<1>15. ASSUME NEW t \in Transfers, Mine(t) PROVE EngineAccountsIdle'
  BY <1>15, TransfersAssumption, ConfigAssumption DEF Mine, Conflicting,
         unchangedByChain, durable, IInv, EngineAccountsIdle, LockInv, ScanInv,
         pending_txids, TypeOK
<1>15a. ASSUME NEW t \in Transfers, Reorg(t) PROVE EngineAccountsIdle'
  BY <1>15a, TransfersAssumption, ConfigAssumption DEF Reorg, unchangedByChain, durable,
         IInv, EngineAccountsIdle, LockInv, ScanInv, pending_txids, TypeOK
<1>16. ASSUME ScanStart PROVE EngineAccountsIdle'
  BY <1>16, TransfersAssumption, ConfigAssumption DEF ScanStart, NoScan,
         unchangedByScan, IInv, EngineAccountsIdle, LockInv, ScanInv, pending_txids,
         TypeOK
<1>17. ASSUME ScanEnd PROVE EngineAccountsIdle'
  BY <1>17, TransfersAssumption, ConfigAssumption DEF ScanEnd, NoScan, unchangedByScan,
         IInv, EngineAccountsIdle, LockInv, ScanInv, pending_txids, TypeOK
<1>18. ASSUME VisitEnds PROVE EngineAccountsIdle'
  BY <1>18, TransfersAssumption, ConfigAssumption DEF VisitEnds, unchangedByScan, IInv,
         EngineAccountsIdle, LockInv, ScanInv, pending_txids, TypeOK
<1>19. ASSUME RemoveReplayed PROVE EngineAccountsIdle'
  BY <1>19, TransfersAssumption, ConfigAssumption DEF RemoveReplayed, remove_pending_op,
         unchangedByScan, IInv, EngineAccountsIdle, LockInv, ScanInv, pending_txids,
         TypeOK
<1>20. ASSUME ConfirmReplayed PROVE EngineAccountsIdle'
  BY <1>20, TransfersAssumption, ConfigAssumption DEF ConfirmReplayed, unchangedByScan,
         IInv, EngineAccountsIdle, LockInv, ScanInv, pending_txids, TypeOK
<1>21. ASSUME MarkPromoted PROVE EngineAccountsIdle'
  BY <1>21, TransfersAssumption, ConfigAssumption DEF MarkPromoted,
         mark_account_utxos_confirmed, unchangedByScan, IInv, EngineAccountsIdle,
         LockInv, ScanInv, pending_txids, TypeOK
<1>22. ASSUME stock_has_active_pending PROVE EngineAccountsIdle'
  BY <1>22, TransfersAssumption, ConfigAssumption DEF stock_has_active_pending,
         unchangedByScan, IInv, EngineAccountsIdle, LockInv, ScanInv, pending_txids,
         TypeOK
<1>23. ASSUME unregister_pending_stock_dir PROVE EngineAccountsIdle'
  BY <1>23, TransfersAssumption, ConfigAssumption DEF unregister_pending_stock_dir,
         unchangedByScan, IInv, EngineAccountsIdle, LockInv, ScanInv, pending_txids,
         TypeOK
<1>24. ASSUME NEW a \in Accounts, VisitAccount(a) PROVE EngineAccountsIdle'
  BY <1>24, TransfersAssumption, ConfigAssumption DEF VisitAccount, pending_txids,
         unchangedByScan, IInv, EngineAccountsIdle, LockInv, ScanInv, TypeOK
<1>25. ASSUME NEW a \in Accounts, NEW t \in Transfers, SkipTerminal(a, t) PROVE EngineAccountsIdle'
  BY <1>25, TransfersAssumption, ConfigAssumption DEF SkipTerminal, LookingAt,
         is_terminal, unchangedByScan, IInv, EngineAccountsIdle, LockInv, ScanInv,
         pending_txids, TypeOK
<1>26. ASSUME NEW a \in Accounts, NEW t \in Transfers, LookUnconfirmed(a, t) PROVE EngineAccountsIdle'
  BY <1>26, TransfersAssumption, ConfigAssumption DEF LookUnconfirmed, LookingAt,
         is_terminal, unchangedByScan, IInv, EngineAccountsIdle, LockInv, ScanInv,
         pending_txids, TypeOK
<1>27. ASSUME NEW a \in Accounts, NEW t \in Transfers, Promote(a, t) PROVE EngineAccountsIdle'
  BY <1>27, TransfersAssumption, ConfigAssumption DEF Promote, LookingAt, is_terminal,
         unchangedByScan, IInv, EngineAccountsIdle, LockInv, ScanInv, pending_txids,
         TypeOK
<1>28. ASSUME NEW a \in Accounts, NEW t \in Transfers, VisitFails(a, t) PROVE EngineAccountsIdle'
  BY <1>28, TransfersAssumption, ConfigAssumption DEF VisitFails, LookingAt,
         unchangedByScan, IInv, EngineAccountsIdle, LockInv, ScanInv, pending_txids,
         TypeOK
<1>29. ASSUME NEW a \in Accounts, NEW s \in {"listed", "legacy_listed"},
             account_rgb20_utxos(a, s) PROVE EngineAccountsIdle'
  BY <1>29, TransfersAssumption, ConfigAssumption DEF account_rgb20_utxos,
         unchangedByQuery, durable, IInv, EngineAccountsIdle, LockInv, ScanInv,
         pending_txids, TypeOK
<1>30. ASSUME NEW a \in Accounts, list_rgb20_assets_for_utxos(a) PROVE EngineAccountsIdle'
  BY <1>30, TransfersAssumption, ConfigAssumption DEF list_rgb20_assets_for_utxos,
         unchangedByQuery, durable, IInv, EngineAccountsIdle, LockInv, ScanInv,
         pending_txids, TypeOK
<1>31. ASSUME NEW a \in Accounts, CheckPending(a) PROVE EngineAccountsIdle'
  BY <1>31, TransfersAssumption, ConfigAssumption DEF CheckPending, NoQuery,
         unchangedByQuery, durable, IInv, EngineAccountsIdle, LockInv, ScanInv,
         pending_txids, TypeOK
<1>32. ASSUME NEW a \in Accounts, remove_account_utxos(a) PROVE EngineAccountsIdle'
  BY <1>32, TransfersAssumption, ConfigAssumption DEF remove_account_utxos, NoQuery,
         unchangedByQuery, durable, IInv, EngineAccountsIdle, LockInv, ScanInv,
         pending_txids, TypeOK
<1>33. ASSUME NEW a \in Accounts, ExternalClaim(a) PROVE EngineAccountsIdle'
  BY <1>33, TransfersAssumption, ConfigAssumption DEF ExternalClaim, has_active_pending,
         pending_txids, is_terminal, durable, IInv, EngineAccountsIdle, LockInv,
         ScanInv, TypeOK
<1>34. ASSUME Crash PROVE EngineAccountsIdle'
  BY <1>34, TransfersAssumption, ConfigAssumption DEF Crash, NoScan, NoQuery,
         discover_pending_stock_dirs, pending_txids, durable, IInv, EngineAccountsIdle,
         LockInv, ScanInv, TypeOK
<1>35. ASSUME UNCHANGED vars PROVE EngineAccountsIdle'
  BY <1>35 DEF vars, durable, IInv, EngineAccountsIdle, LockInv, ScanInv, pending_txids,
         TypeOK
<1>36. QED
  BY <1>1, <1>2, <1>3, <1>4, <1>5, <1>6, <1>7, <1>8, <1>9, <1>10, <1>11, <1>12, <1>13,
     <1>14, <1>15, <1>15a, <1>16, <1>17, <1>18, <1>19, <1>20, <1>21, <1>22, <1>23, <1>24, <1>25,
     <1>26, <1>27, <1>28, <1>29, <1>30, <1>31, <1>32, <1>33, <1>34, <1>35
     DEF Next, CommitStep, Scanner, Query

\* The inductive invariant holds in every behaviour, however commits, scans,
\* queries, claims and restarts interleave.
THEOREM DirectInvariantHolds == Spec => []IInv
<1>1. IInv /\ [Next]_vars => IInv'
  <2> SUFFICES ASSUME IInv, [Next]_vars PROVE IInv'
    OBVIOUS
  <2>1. TypeOK' /\ StagingInv' /\ ScanInv'
    BY TypeStep, StagingStep, ScanStep
  <2>2. ChainInv' /\ LockInv' /\ EngineAccountsIdle'
    BY ChainStep, LockStep, EngineStep
  <2>3. QED
    BY <2>1, <2>2 DEF IInv
<1>2. QED
  BY InitInvariant, <1>1, PTL DEF Spec

\* The keyspaces, the registry and the threads keep their types.
THEOREM DirectTypeCorrect == Spec => []TypeOK
<1>1. IInv => TypeOK
  BY DEF IInv
<1>2. QED
  BY <1>1, DirectInvariantHolds, PTL

\* Both sides of a committed transfer stay staged or promoted.
THEOREM CommitsSurvive == Spec => []CommittedNotLost
<1>1. IInv => CommittedNotLost
  BY DEF IInv, TypeOK, StagingInv, StagedOrStocked, CommittedNotLost
<1>2. QED
  BY <1>1, DirectInvariantHolds, PTL

\* Two transfers of one coin are never both promoted, although nothing reserves
\* it and a promotion is never taken back, unless a reorganisation took the
\* confirmation of one of their carriers, before or after it was promoted.
THEOREM PromotionsAgree == Spec => []NoConflictingPromotions
<1>1. IInv => NoConflictingPromotions
  <2> SUFFICES ASSUME IInv, NEW a \in Accounts, NEW b \in Accounts,
                      NEW t \in stock[a], NEW u \in stock[b],
                      Input[t] = Input[u], t \notin reorged, u \notin reorged
               PROVE  t = u
    BY DEF NoConflictingPromotions
  <2>1. t \in Transfers /\ u \in Transfers
    BY DEF IInv, TypeOK
  <2>2. chain[t] = "confirmed" /\ chain[u] = "confirmed"
    BY DEF IInv, ChainInv, ReportedConfirmed
  <2>3. QED
    BY <2>1, <2>2 DEF IInv, ChainInv
<1>2. QED
  BY <1>1, DirectInvariantHolds, PTL

\* An account of the engine has no direct send under way.
THEOREM EngineExclusive == Spec => []EngineAccountsIdle
<1>1. IInv => EngineAccountsIdle
  BY DEF IInv
<1>2. QED
  BY <1>1, DirectInvariantHolds, PTL

-----------------------------------------------------------------------------
(* Cancellation.                                                           *)

\* What a step that neither prepares nor cancels does with the records: it
\* keeps them, and starts a commit only for a transfer that has one.
RecordsKept ==
    /\ UNCHANGED <<prepared, cancelled>>
    /\ \A t \in Transfers : commit[t] = "idle" /\ commit'[t] # "idle" => t \in prepared

\* The records change only where a transfer is prepared or cancelled.
LEMMA RecordsStep ==
    ASSUME TypeOK, [Next]_vars
    PROVE  \/ RecordsKept
           \/ \E t \in Transfers : Prepare(t) \/ Cancel(t)
<1> USE DEF RecordsKept, durable, TypeOK
<1>1. ASSUME NEW t \in Transfers, BeginCommit(t) PROVE RecordsKept
  BY <1>1 DEF BeginCommit, CommitAt
<1>2. ASSUME NEW t \in Transfers, stage_sender_fascia(t) PROVE RecordsKept
  BY <1>2 DEF stage_sender_fascia, CommitAt
<1>3. ASSUME NEW t \in Transfers, RegisterSender(t) PROVE RecordsKept
  BY <1>3 DEF RegisterSender, CommitAt
<1>4. ASSUME NEW t \in Transfers, stage_receiver_transfer(t) PROVE RecordsKept
  BY <1>4 DEF stage_receiver_transfer, CommitAt
<1>5. ASSUME NEW t \in Transfers, RegisterReceiver(t) PROVE RecordsKept
  BY <1>5 DEF RegisterReceiver, CommitAt
<1>6. ASSUME NEW t \in Transfers, TrackReceiver(t) PROVE RecordsKept
  BY <1>6 DEF TrackReceiver, CommitAt
<1>7. ASSUME NEW t \in Transfers, ReplyCommitted(t) PROVE RecordsKept
  BY <1>7 DEF ReplyCommitted, CommitAt
<1>8. ASSUME NEW t \in Transfers, broadcast_legacy_tx(t) PROVE RecordsKept
  BY <1>8 DEF broadcast_legacy_tx, CommitAt
<1>9. ASSUME NEW t \in Transfers, apply_legacy_signed_tx(t) PROVE RecordsKept
  BY <1>9 DEF apply_legacy_signed_tx, CommitAt
<1>10. ASSUME NEW t \in Transfers, CommitFails(t) PROVE RecordsKept
  BY <1>10 DEF CommitFails
<1>11. ASSUME NEW t \in Transfers, WalletBroadcast(t) PROVE RecordsKept
  BY <1>11 DEF WalletBroadcast, unchangedByChain
<1>12. ASSUME NEW t \in Transfers, Evict(t) PROVE RecordsKept
  BY <1>12 DEF Evict, unchangedByChain
<1>13. ASSUME NEW t \in Transfers, Mine(t) PROVE RecordsKept
  BY <1>13 DEF Mine, unchangedByChain
<1>13a. ASSUME NEW t \in Transfers, Reorg(t) PROVE RecordsKept
  BY <1>13a DEF Reorg, unchangedByChain
<1>14. ASSUME ScanStart PROVE RecordsKept
  BY <1>14 DEF ScanStart, unchangedByScan
<1>15. ASSUME ScanEnd PROVE RecordsKept
  BY <1>15 DEF ScanEnd, unchangedByScan
<1>16. ASSUME VisitEnds PROVE RecordsKept
  BY <1>16 DEF VisitEnds, unchangedByScan
<1>17. ASSUME RemoveReplayed PROVE RecordsKept
  BY <1>17 DEF RemoveReplayed, unchangedByScan
<1>18. ASSUME ConfirmReplayed PROVE RecordsKept
  BY <1>18 DEF ConfirmReplayed, unchangedByScan
<1>19. ASSUME MarkPromoted PROVE RecordsKept
  BY <1>19 DEF MarkPromoted, unchangedByScan
<1>20. ASSUME stock_has_active_pending PROVE RecordsKept
  BY <1>20 DEF stock_has_active_pending, unchangedByScan
<1>21. ASSUME unregister_pending_stock_dir PROVE RecordsKept
  BY <1>21 DEF unregister_pending_stock_dir, unchangedByScan
<1>22. ASSUME NEW a \in Accounts, VisitAccount(a) PROVE RecordsKept
  BY <1>22 DEF VisitAccount, unchangedByScan
<1>23. ASSUME NEW a \in Accounts, NEW t \in Transfers, SkipTerminal(a, t) PROVE RecordsKept
  BY <1>23 DEF SkipTerminal, unchangedByScan
<1>24. ASSUME NEW a \in Accounts, NEW t \in Transfers, LookUnconfirmed(a, t) PROVE RecordsKept
  BY <1>24 DEF LookUnconfirmed, unchangedByScan
<1>25. ASSUME NEW a \in Accounts, NEW t \in Transfers, Promote(a, t) PROVE RecordsKept
  BY <1>25 DEF Promote, unchangedByScan
<1>26. ASSUME NEW a \in Accounts, NEW t \in Transfers, VisitFails(a, t) PROVE RecordsKept
  BY <1>26 DEF VisitFails, unchangedByScan
<1>27. ASSUME NEW a \in Accounts, NEW s \in {"listed", "legacy_listed"},
             account_rgb20_utxos(a, s) PROVE RecordsKept
  BY <1>27 DEF account_rgb20_utxos, unchangedByQuery
<1>28. ASSUME NEW a \in Accounts, list_rgb20_assets_for_utxos(a) PROVE RecordsKept
  BY <1>28 DEF list_rgb20_assets_for_utxos, unchangedByQuery
<1>29. ASSUME NEW a \in Accounts, CheckPending(a) PROVE RecordsKept
  BY <1>29 DEF CheckPending, unchangedByQuery
<1>30. ASSUME NEW a \in Accounts, remove_account_utxos(a) PROVE RecordsKept
  BY <1>30 DEF remove_account_utxos, unchangedByQuery
<1>31. ASSUME NEW a \in Accounts, ExternalClaim(a) PROVE RecordsKept
  BY <1>31 DEF ExternalClaim
<1>32. ASSUME Crash PROVE RecordsKept
  BY <1>32 DEF Crash
<1>33. ASSUME UNCHANGED vars PROVE RecordsKept
  BY <1>33 DEF vars
<1> QED
  BY <1>1, <1>2, <1>3, <1>4, <1>5, <1>6, <1>7, <1>8, <1>9, <1>10, <1>11,
     <1>12, <1>13, <1>13a, <1>14, <1>15, <1>16, <1>17, <1>18, <1>19, <1>20, <1>21,
     <1>22, <1>23, <1>24, <1>25, <1>26, <1>27, <1>28, <1>29, <1>30, <1>31,
     <1>32, <1>33
     DEF Next, CommitStep, Scanner, Query

\* Where cancellation removes the record, a cancelled transfer has none.
CancelledGone == cancelled \cap prepared = {}

\* A step leaves no record of a cancelled transfer.
LEMMA CancelledStep ==
    ASSUME Cancellable \subseteq Legacy \ Aliased, TypeOK, CancelledGone, [Next]_vars
    PROVE  CancelledGone'
<1>1. ASSUME NEW t \in Transfers, Prepare(t) PROVE CancelledGone'
  BY <1>1 DEF Prepare, CancelledGone
<1>2. ASSUME NEW t \in Transfers, Cancel(t) PROVE CancelledGone'
  <2>1. prepared' = prepared \ {t}
    BY <1>2 DEF Cancel, CancelDirect, CancelLegacy
  <2>2. cancelled' \subseteq cancelled \cup {t}
    BY <1>2 DEF Cancel
  <2> QED BY <2>1, <2>2 DEF CancelledGone
<1>3. CASE RecordsKept
  BY <1>3 DEF RecordsKept, CancelledGone
<1> QED BY <1>1, <1>2, <1>3, RecordsStep

\* The legacy API's cancellation stands: where the transfers that may be
\* cancelled are legacy ones stored under the descriptor's own account, none
\* whose cancellation was answered is committed unless it is prepared again.
THEOREM LegacyCancelStands ==
    ASSUME Cancellable \subseteq Legacy \ Aliased
    PROVE  Spec => CancelStands
<1>1. Init => CancelledGone
  BY DEF Init, CancelledGone
<1>2. TypeOK /\ CancelledGone /\ [Next]_vars => CancelledGone'
  BY CancelledStep
<1>3. TypeOK /\ CancelledGone /\ [Next]_vars =>
        [\A t \in cancelled : commit[t] = "idle" => commit'[t] = "idle"]_vars
  <2> SUFFICES ASSUME TypeOK, CancelledGone, [Next]_vars,
                      NEW t \in cancelled, commit[t] = "idle"
               PROVE  commit'[t] = "idle"
    OBVIOUS
  <2>1. t \in Transfers \ prepared
    BY DEF TypeOK, CancelledGone
  <2>2. CASE RecordsKept
    BY <2>1, <2>2 DEF RecordsKept
  <2>3. ASSUME NEW u \in Transfers, Prepare(u) \/ Cancel(u) PROVE commit'[t] = "idle"
    BY <2>3 DEF Prepare, Cancel
  <2> QED BY <2>2, <2>3, RecordsStep
<1> QED
  BY <1>1, <1>2, <1>3, DirectTypeCorrect, PTL DEF Spec, CancelStands

=============================================================================
