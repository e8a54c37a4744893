-------------------------- MODULE ExternalRgbProofs --------------------------
(***************************************************************************)
(* Proofs about ExternalRgb for every set of accounts, operations, coins   *)
(* and carriers, in three parts: types, the reservation protocol and the   *)
(* exclusion of the direct-send protocol; the life of an operation's       *)
(* record; the tracked balance and the stock.                              *)
(***************************************************************************)
EXTENDS ExternalRgb, TLAPS

\* A receive whose blind outpoint credit has released.
Freed(rec) == rec.status = "settled" \/ rec.quarantine

\* What every stored record, and the holder's copy of it, keeps up: a slot to
\* talk to, and for a receive the evidence for each thing it claims.
Sound(x, rec) ==
    /\ rec.status # "absent"
    /\ rec.slot \in Slots
    /\ x \in Receives =>
          /\ IsBlind(rec) => rec.outpoint # None
          /\ rec.status = "settled" => rec.proof # None
          /\ rec.quarantine => rec.status = "needs_review" /\ rec.proof # None

RecordsSound == \A x \in Ops : Exists(x) => Sound(x, ops[x])

\* The steps a receive takes once it has a payment in hand.
WithProof == {"recheck", "validate", "nack", "post_ack", "save_ack", "confirm",
              "accept", "credit"}

\* The holder's copy agrees with the stored record on what is reserved, and a
\* receive that was credited is not on its way to being credited again.
HolderSound ==
    lock # None =>
        /\ Exists(lock) /\ Sound(lock, work)
        /\ work.inputs = ops[lock].inputs
        /\ lock \in Receives =>
              /\ Freed(ops[lock]) => Freed(work)
              /\ Freed(work) => pc \in {"recheck", "save"}
              /\ pc \in WithProof => work.proof # None
              /\ pc \in WithProof \ {"recheck"} => work.outpoint # None

Core == RecordsSound /\ HolderSound /\ InputsReserved
IInv == TypeOK /\ Core

-----------------------------------------------------------------------------
(* Facts about saves, whatever handler makes them.                         *)

\* A save that takes no reservation keeps every record sound and every input
\* reserved, if the record it writes is sound, names the inputs it named
\* before and, for a receive, still counts as freed if it was.
LEMMA SaveKeepsReservations ==
    ASSUME TypeOK, RecordsSound, InputsReserved,
           NEW x \in Ops, NEW rec \in Records,
           Sound(x, rec), rec.inputs = ops[x].inputs,
           x \in Receives /\ Freed(ops[x]) => Freed(rec),
           save(x, rec), reserved' = reserved
    PROVE  RecordsSound' /\ InputsReserved'
<1>1. \A y \in Ops : ops'[y] = IF y = x THEN rec ELSE ops[y]
  BY DEF save, TypeOK
<1>2. RecordsSound'
  BY <1>1 DEF RecordsSound, Exists, Sound, IsBlind
<1>3. InputsReserved'
  BY <1>1 DEF InputsReserved, Holds, Freed, Ops
<1> QED BY <1>2, <1>3

\* A save that reserves takes only outputs that are free or already its own,
\* so it leaves the inputs of every other operation reserved to that one.
LEMMA ReservingSave ==
    ASSUME TypeOK, RecordsSound, InputsReserved,
           NEW x \in Ops, NEW rec \in Records,
           Sound(x, rec), save_reserving(x, rec)
    PROVE  RecordsSound' /\ InputsReserved'
<1>1. \A y \in Ops : ops'[y] = IF y = x THEN rec ELSE ops[y]
  BY DEF save_reserving, TypeOK
<1>2. RecordsSound'
  BY <1>1 DEF RecordsSound, Exists, Sound, IsBlind
<1>3. \A o \in rec.inputs : o \in Outpoints /\ reserved'[o] = x
  BY DEF save_reserving, Records
<1>4. ASSUME NEW y \in Ops, y # x, Holds(y), NEW o \in ops[y].inputs
      PROVE  reserved'[o] = y
  <2>1. o \in Outpoints /\ reserved[o] = y
    BY <1>4 DEF InputsReserved, TypeOK, Records
  <2>2. o \notin rec.inputs
    BY <1>4, <2>1, IdsAssumption DEF save_reserving
  <2> QED BY <2>1, <2>2 DEF save_reserving
<1>5. InputsReserved'
  BY <1>1, <1>3, <1>4 DEF InputsReserved, Holds
<1> QED BY <1>2, <1>5

\* A step that leaves the records, the reservations and the holder alone.
LEMMA CoreUnchanged ==
    ASSUME Core, UNCHANGED <<ops, reserved, lock, work, pc>>
    PROVE  Core'
BY DEF Core, RecordsSound, HolderSound, InputsReserved, Exists, Sound, IsBlind,
       Holds, Freed

\* What the holder of the lock must respect for the place it goes to.
Fits(x, rec, step) ==
    x \in Receives =>
        /\ Freed(ops[x]) => Freed(rec)
        /\ Freed(rec) => step \in {"recheck", "save"}
        /\ step \in WithProof => rec.proof # None
        /\ step \in WithProof \ {"recheck"} => rec.outpoint # None

\* A step of the holder that commits nothing.
LEMMA HolderMoves ==
    ASSUME Core, NEW x \in Ops, lock = x, UNCHANGED <<ops, reserved, lock>>,
           Sound(x, work'), work'.inputs = work.inputs, Fits(x, work', pc')
    PROVE  Core'
<1>1. RecordsSound' /\ InputsReserved'
  BY DEF Core, RecordsSound, InputsReserved, Exists, Sound, IsBlind, Holds, Freed
<1>2. HolderSound'
  BY DEF Core, HolderSound, Exists, Fits, Sound, Freed, IsBlind
<1> QED BY <1>1, <1>2 DEF Core

\* A step of the holder that commits its record and goes on.
LEMMA HolderSaves ==
    ASSUME TypeOK, Core, NEW x \in Ops, lock = x, NEW rec \in Records, NEW step,
           Sound(x, rec), rec.inputs = work.inputs, Fits(x, rec, step),
           SaveAndGo(x, rec, step)
    PROVE  Core'
<1>0. x # None
  BY IdsAssumption
<1>1. work.inputs = ops[x].inputs
  BY <1>0 DEF Core, HolderSound
<1>2. RecordsSound' /\ InputsReserved'
  BY <1>1, SaveKeepsReservations DEF Core, SaveAndGo, Fits
<1>3. ops'[x] = rec /\ work' = rec /\ pc' = step /\ lock' = x
  BY DEF SaveAndGo, save, Goto, TypeOK
<1>4. HolderSound'
  BY <1>3 DEF HolderSound, Exists, Fits, Sound, Freed, IsBlind
<1> QED BY <1>2, <1>4 DEF Core

-----------------------------------------------------------------------------
(* The requests of clients.                                                *)

\* A new invoice reserves its blind outpoint with the record that names it.
LEMMA ReceiveKeepsCore ==
    ASSUME IInv, NEW r \in Receives, NEW blind \in Outpoints \cup {None}, Receive(r, blind)
    PROVE  Core'
<1> DEFINE rec == [Absent EXCEPT !.status = "awaiting_transfer",
                                 !.slot = recipient(r, blind),
                                 !.outpoint = blind,
                                 !.inputs = {blind} \ {None}]
<1>1. recipient(r, blind) \in Slots
  BY IdsAssumption DEF recipient, Slots, Ops
<1>2. rec \in Records /\ r \in Ops
  BY <1>1 DEF Absent, Records, Statuses, Answers, Ops
<1>3. Sound(r, rec)
  BY <1>1 DEF Sound, IsBlind, Absent
<1>4. save_reserving(r, rec) /\ lock = None /\ UNCHANGED <<lock, work, pc>>
  BY DEF Receive, new_record, holder
<1>5. RecordsSound' /\ InputsReserved'
  BY <1>2, <1>3, <1>4, ReservingSave DEF IInv, Core
<1>6. HolderSound'
  BY <1>4 DEF HolderSound
<1> QED BY <1>5, <1>6 DEF Core

\* A new send reserves its inputs with its record and then holds the lock.
LEMMA PrepareKeepsCore ==
    ASSUME IInv, NEW s \in Sends, NEW inputs \in SUBSET Outpoints, NEW slot \in Slots,
           Prepare(s, inputs, slot)
    PROVE  Core'
<1> DEFINE rec == [Absent EXCEPT !.status = "preparing", !.inputs = inputs, !.slot = slot]
<1>1. rec \in Records /\ s \in Ops
  BY DEF Absent, Records, Statuses, Answers, Ops
<1>2. s \notin Receives
  BY IdsAssumption
<1>3. Sound(s, rec)
  BY <1>2 DEF Sound, Absent
<1>4. save_reserving(s, rec) /\ lock' = s /\ work' = rec
  BY DEF Prepare
<1>5. RecordsSound' /\ InputsReserved'
  BY <1>1, <1>3, <1>4, ReservingSave DEF IInv, Core
<1>6. ops'[s] = rec
  BY <1>1, <1>4 DEF save_reserving, IInv, TypeOK
<1>7. HolderSound'
  BY <1>2, <1>3, <1>4, <1>6 DEF HolderSound, Exists, Sound
<1> QED BY <1>5, <1>7 DEF Core

\* Storing the signed transaction leaves a send's inputs as they were.
LEMMA FinalizeKeepsCore ==
    ASSUME IInv, NEW s \in Sends, Finalize(s)
    PROVE  Core'
<1> DEFINE rec == [ops[s] EXCEPT !.signed = TRUE, !.status = "delivering"]
<1>1. s \in Ops /\ s \notin Receives
  BY IdsAssumption DEF Ops
<1>2. rec \in Records /\ rec.inputs = ops[s].inputs
  BY <1>1 DEF IInv, TypeOK, Records, Statuses
<1>3. Sound(s, rec)
  BY <1>1 DEF IInv, Core, RecordsSound, Exists, Sound, Finalize, TypeOK, Records
<1>4. save(s, rec) /\ lock = None /\ UNCHANGED <<reserved, lock, work, pc>>
  BY DEF Finalize, holder
<1>5. RecordsSound' /\ InputsReserved'
  BY <1>1, <1>2, <1>3, <1>4, SaveKeepsReservations DEF IInv, Core
<1>6. HolderSound'
  BY <1>4 DEF HolderSound
<1> QED BY <1>5, <1>6 DEF Core

\* Cancelling an invoice changes its status and frees nothing.
LEMMA CancelKeepsCore ==
    ASSUME IInv, NEW x \in Ops, Cancel(x)
    PROVE  Core'
<1> DEFINE rec == [ops[x] EXCEPT !.status = "cancelled"]
<1>1. rec \in Records /\ rec.inputs = ops[x].inputs
  BY DEF IInv, TypeOK, Records, Statuses
<1>2. Sound(x, ops[x]) /\ ops[x].proof = None /\ x \in Receives
  BY DEF Cancel, IInv, Core, RecordsSound
<1>3. Sound(x, rec) /\ ~Freed(ops[x])
  BY <1>2 DEF Sound, Freed, IsBlind, IInv, TypeOK, Records
<1>4. save(x, rec) /\ lock = None /\ UNCHANGED <<reserved, lock, work, pc>>
  BY DEF Cancel, holder
<1>5. RecordsSound' /\ InputsReserved'
  BY <1>1, <1>3, <1>4, SaveKeepsReservations DEF IInv, Core
<1>6. HolderSound'
  BY <1>4 DEF HolderSound
<1> QED BY <1>5, <1>6 DEF Core

-----------------------------------------------------------------------------
(* The scanner.                                                            *)

\* The scanner picks a record up at a step that fits what the record says.
LEMMA ScanKeepsCore ==
    ASSUME IInv, NEW x \in Ops, Scan(x)
    PROVE  Core'
<1>1. UNCHANGED <<ops, reserved>> /\ lock' = x /\ work' = ops[x] /\ pc' = advance(x)
  BY DEF Scan, durable
<1>2. Exists(x) /\ ops[x].status # "needs_review"
  BY DEF Scan, Scannable, Exists
<1>3. Sound(x, ops[x])
  BY <1>2 DEF IInv, Core, RecordsSound
<1>4. RecordsSound' /\ InputsReserved'
  BY <1>1 DEF IInv, Core, RecordsSound, InputsReserved, Exists, Sound, IsBlind, Holds
<1>5. ASSUME x \in Receives
      PROVE  /\ Freed(ops[x]) => advance(x) = "recheck"
             /\ advance(x) \in WithProof => ops[x].proof # None
             /\ advance(x) \in WithProof \ {"recheck"} => ops[x].outpoint # None
  BY <1>2, <1>3, <1>5 DEF Sound, Freed, advance, receive_entry, WithProof
<1>6. HolderSound'
  BY <1>1, <1>2, <1>3, <1>5 DEF HolderSound, Exists, Sound, Freed, IsBlind
<1> QED BY <1>4, <1>6 DEF Core

\* What the holder knows of its own record and of the stored one.
LEMMA HolderKnows ==
    ASSUME IInv, NEW x \in Ops, lock = x
    PROVE  /\ work \in Records /\ Sound(x, work) /\ Exists(x)
           /\ work.inputs = ops[x].inputs
           /\ work.slot \in Slots
           /\ Fits(x, work, pc)
<1>1. x # None
  BY IdsAssumption
<1> QED BY <1>1 DEF IInv, Core, TypeOK, HolderSound, Fits, Sound

\* The save that ends a scan does not reopen an operation that was freed.
LEMMA ScanSaveKeepsCore ==
    ASSUME IInv, NEW x \in Ops, ScanSave(x)
    PROVE  Core'
<1>1. lock = x /\ save(x, work) /\ reserved' = reserved /\ lock' = None
  BY DEF ScanSave, At, Release
<1>2. RecordsSound' /\ InputsReserved'
  BY <1>1, HolderKnows, SaveKeepsReservations DEF IInv, Core, Fits
<1>3. HolderSound'
  BY <1>1 DEF HolderSound
<1> QED BY <1>2, <1>3 DEF Core

\* A crash loses the holder; the records and reservations are committed together.
LEMMA CrashKeepsCore ==
    ASSUME IInv, Crash
    PROVE  Core'
<1>1. UNCHANGED <<ops, reserved>> /\ lock' = None
  BY DEF Crash, Release, durable
<1> QED BY <1>1 DEF IInv, Core, RecordsSound, HolderSound, InputsReserved, Exists,
                    Sound, IsBlind, Holds

\* A failed call sends the holder to its last save with the record it has.
LEMMA CallFailsKeepsCore ==
    ASSUME IInv, NEW x \in Ops, CallFails(x)
    PROVE  Core'
<1>1. lock = x /\ UNCHANGED <<ops, reserved, lock, work>> /\ pc' = "save"
  BY DEF CallFails, Goto, durable
<1>2. Fits(x, work', pc') /\ Sound(x, work')
  BY <1>1, HolderKnows DEF Fits, WithProof, Sound, Freed, IsBlind
<1> QED BY <1>1, <1>2, HolderMoves DEF IInv

\* A lost reply changes at most the answer read from the proxy.
LEMMA ReplyLostKeepsCore ==
    ASSUME IInv, NEW x \in Ops, ReplyLost(x)
    PROVE  Core'
<1>1. lock = x /\ UNCHANGED <<ops, reserved, lock>> /\ pc' = "save"
  BY DEF ReplyLost, Goto, durable
<1>2. work' = work \/ work' = [work EXCEPT !.ack = acks[work.slot]]
  BY DEF ReplyLost
<1>3. work'.inputs = work.inputs /\ Sound(x, work') /\ Fits(x, work', pc')
  BY <1>1, <1>2, HolderKnows DEF Fits, WithProof, Sound, Freed, IsBlind, Records
<1> QED BY <1>1, <1>3, HolderMoves DEF IInv

-----------------------------------------------------------------------------
(* advance_send                                                            *)

\* Every step of advance_send and finish_preparation keeps the inputs.
LEMMA SendStepKeepsCore ==
    ASSUME IInv, NEW s \in Sends, SendStep(s)
    PROVE  Core'
<1>0. s \in Ops /\ s \notin Receives
  BY IdsAssumption DEF Ops
<1>1. lock = s
  BY DEF SendStep, At, finish_preparation, upload, SaveDelivered, MarkUnknown,
         broadcast, SaveBroadcast, Observe, stage_sender_fascia, Promote, MarkPromoted
<1>2. work \in Records /\ Sound(s, work) /\ work.slot \in Slots
  BY <1>0, <1>1, HolderKnows
<1>3. ASSUME UNCHANGED <<ops, reserved, lock>>,
             work' = work \/ work' = [work EXCEPT !.ack = acks[work.slot]]
      PROVE  Core'
  <2>1. work'.inputs = work.inputs /\ Sound(s, work') /\ Fits(s, work', pc')
    BY <1>0, <1>2, <1>3 DEF Fits, Sound, Records
  <2> QED BY <1>0, <1>1, <1>3, <2>1, HolderMoves DEF IInv
<1>4. ASSUME NEW rec \in Records, NEW step, SaveAndGo(s, rec, step),
             rec.inputs = work.inputs, rec.slot = work.slot, rec.status # "absent"
      PROVE  Core'
  <2>1. Sound(s, rec) /\ Fits(s, rec, step)
    BY <1>0, <1>2, <1>4 DEF Sound, Fits
  <2> QED BY <1>0, <1>1, <1>4, <2>1, HolderSaves DEF IInv
<1>5. CASE finish_preparation(s)
  <2> DEFINE rec == [work EXCEPT !.status = "awaiting_signature",
                                 !.moves = work.inputs \cap alloc,
                                 !.proof = ProofOf(s)]
  <2>1. CASE SaveAndGo(s, rec, "save")
    <3>1. rec \in Records /\ rec.inputs = work.inputs /\ rec.slot = work.slot
      BY <1>2 DEF Records, Statuses, ProofOf, Proofs, Txs
    <3>2. rec.status # "absent"
      BY <1>2 DEF Records
    <3> QED BY <1>4, <2>1, <3>1, <3>2
  <2>2. CASE Goto("save") /\ UNCHANGED <<durable, work>>
    BY <1>3, <2>2 DEF Goto, durable
  <2> QED BY <1>5, <2>1, <2>2 DEF finish_preparation
<1>6. CASE SaveDelivered(s)
  <2> DEFINE rec == [work EXCEPT !.delivery = "delivered"]
  <2>1. rec \in Records /\ rec.inputs = work.inputs /\ rec.slot = work.slot
    BY <1>2 DEF Records
  <2>2. rec.status # "absent" /\ SaveAndGo(s, rec, "mark_unknown")
    BY <1>2, <1>6 DEF Records, Sound, SaveDelivered
  <2> QED BY <1>4, <2>1, <2>2
<1>7. CASE MarkUnknown(s)
  <2> DEFINE rec == [work EXCEPT !.broadcast = "unknown"]
  <2>1. rec \in Records /\ rec.inputs = work.inputs /\ rec.slot = work.slot
    BY <1>2 DEF Records
  <2>2. rec.status # "absent" /\ SaveAndGo(s, rec, "broadcast")
    BY <1>2, <1>7 DEF Records, Sound, MarkUnknown
  <2> QED BY <1>4, <2>1, <2>2
<1>8. CASE SaveBroadcast(s)
  <2> DEFINE rec == [work EXCEPT !.broadcast = "broadcast",
                                 !.status = "waiting_confirmations"]
  <2>1. rec \in Records /\ rec.inputs = work.inputs /\ rec.slot = work.slot
    BY <1>2 DEF Records, Statuses
  <2>2. rec.status # "absent" /\ SaveAndGo(s, rec, "observe")
    BY <1>2, <1>8 DEF Records, SaveBroadcast
  <2> QED BY <1>4, <2>1, <2>2
<1>9. CASE upload(s)
  BY <1>3, <1>9 DEF upload, Goto, durable
<1>10. CASE broadcast(s)
  BY <1>3, <1>10 DEF broadcast, Goto, durable
<1>11. CASE Observe(s)
  BY <1>3, <1>11 DEF Observe, Goto, durable
<1>12. CASE stage_sender_fascia(s)
  BY <1>3, <1>12 DEF stage_sender_fascia, Goto
<1>13. CASE Promote(s)
  BY <1>3, <1>13 DEF Promote, replay_pending, Goto, durable
<1>14. CASE MarkPromoted(s)
  BY <1>3, <1>14 DEF MarkPromoted, mark_promoted, Goto
<1> QED BY <1>5, <1>6, <1>7, <1>8, <1>9, <1>10, <1>11, <1>12, <1>13, <1>14 DEF SendStep

-----------------------------------------------------------------------------
(* advance_receive                                                         *)

\* Away from its last steps a receive holds a record that is not freed, and
\* so is the stored one.
LEMMA NotFreed ==
    ASSUME IInv, NEW r \in Receives, lock = r, pc \notin {"recheck", "save"}
    PROVE  ~Freed(work) /\ ~Freed(ops[r])
BY HolderKnows DEF Fits, Ops

\* What can be read is there.
LEMMA ReadableIsStored ==
    \A p \in Readable : p \in Proofs /\ p # None
BY ProofsAssumption DEF Readable

\* Recording a consignment keeps the invoice's blind outpoint reserved.
LEMMA FetchKeepsCore ==
    ASSUME IInv, NEW r \in Receives, Fetch(r)
    PROVE  Core'
<1> DEFINE p == slots[work.slot]
           detected == [work EXCEPT !.proof = p,
                                    !.outpoint = IF IsBlind(work) THEN @ ELSE Paid(p.tx)]
<1>0. r \in Ops /\ lock = r /\ pc = "fetch"
  BY DEF Ops, Fetch, At
<1>1. /\ work \in Records /\ Sound(r, work) /\ work.slot \in Slots
      /\ ~Freed(work) /\ ~Freed(ops[r])
  BY <1>0, HolderKnows, NotFreed
<1>2. p \in Proofs \cup {None}
  BY <1>1 DEF IInv, TypeOK
<1>3. CASE Goto("save") /\ UNCHANGED <<durable, work>>
  <2>1. Fits(r, work', pc') /\ Sound(r, work') /\ work'.inputs = work.inputs
    BY <1>1, <1>3 DEF Fits, WithProof, Goto, Sound, Freed, IsBlind
  <2> QED BY <1>0, <1>3, <2>1, HolderMoves DEF IInv, Goto, durable
<1>4. CASE /\ p # None
           /\ work' = [work EXCEPT !.proof = p]
           /\ Goto("save") /\ UNCHANGED durable
  <2>1. Fits(r, work', pc') /\ Sound(r, work') /\ work'.inputs = work.inputs
    BY <1>1, <1>4 DEF Fits, WithProof, Goto, Sound, Freed, IsBlind, Records
  <2> QED BY <1>0, <1>4, <2>1, HolderMoves DEF IInv, Goto, durable
<1>5. ASSUME p # None, NEW status \in {"needs_review", "validating"},
             NEW step \in {"save", "validate"},
             SaveAndGo(r, [detected EXCEPT !.status = status], step)
      PROVE  Core'
  <2> DEFINE rec == [detected EXCEPT !.status = status]
  <2>1. p.tx \in Txs
    BY <1>2, <1>5 DEF Proofs
  <2>2. Paid(p.tx) \in Outpoints
    BY <2>1 DEF Outpoints
  <2>3. Paid(p.tx) # None
    BY <2>2, IdsAssumption
  <2>4. rec \in Records
    BY <1>1, <1>2, <1>5, <2>2 DEF Records, Statuses
  <2>5. /\ rec.inputs = work.inputs /\ rec.slot = work.slot /\ rec.status = status
        /\ rec.proof = p /\ rec.quarantine = work.quarantine
        /\ rec.outpoint = IF IsBlind(work) THEN work.outpoint ELSE Paid(p.tx)
    BY <1>1 DEF Records
  <2>6. rec.outpoint # None
    BY <1>1, <2>3, <2>5 DEF Sound
  <2>7. Sound(r, rec) /\ Fits(r, rec, step)
    BY <1>1, <1>5, <2>5, <2>6 DEF Sound, Fits, Freed
  <2> QED BY <1>0, <1>5, <2>4, <2>5, <2>7, HolderSaves DEF IInv
<1> QED BY <1>3, <1>4, <1>5, ReadableIsStored DEF Fetch

\* Neither a passed check nor a rejection frees the invoice's outpoint.
LEMMA ValidateKeepsCore ==
    ASSUME IInv, NEW r \in Receives, Validate(r)
    PROVE  Core'
<1>0. r \in Ops /\ lock = r /\ pc = "validate"
  BY DEF Ops, Validate, At
<1>1. /\ work \in Records /\ Sound(r, work)
      /\ ~Freed(work) /\ ~Freed(ops[r])
      /\ work.proof # None /\ work.outpoint # None
  BY <1>0, HolderKnows, NotFreed DEF Fits, WithProof
<1>2. CASE Goto("save") /\ UNCHANGED <<durable, work>>
  <2>1. Fits(r, work', pc') /\ Sound(r, work') /\ work'.inputs = work.inputs
    BY <1>1, <1>2 DEF Fits, WithProof, Goto, Sound, Freed, IsBlind
  <2> QED BY <1>0, <1>2, <2>1, HolderMoves DEF IInv, Goto, durable
<1>3. CASE SaveAndGo(r, [work EXCEPT !.status = "needs_review"], "nack")
  <2> DEFINE rec == [work EXCEPT !.status = "needs_review"]
  <2>1. rec \in Records /\ rec.inputs = work.inputs
    BY <1>1 DEF Records, Statuses
  <2>2. Sound(r, rec) /\ Fits(r, rec, "nack")
    BY <1>1 DEF Sound, Fits, Freed, IsBlind, Records
  <2> QED BY <1>0, <1>3, <2>1, <2>2, HolderSaves DEF IInv
<1>4. CASE SaveAndGo(r, [work EXCEPT !.status = "waiting_confirmations",
                                     !.delivery = "validated"], "post_ack")
  <2> DEFINE rec == [work EXCEPT !.status = "waiting_confirmations",
                                 !.delivery = "validated"]
  <2>1. rec \in Records /\ rec.inputs = work.inputs
    BY <1>1 DEF Records, Statuses
  <2>2. Sound(r, rec) /\ Fits(r, rec, "post_ack")
    BY <1>1 DEF Sound, Fits, Freed, IsBlind, Records
  <2> QED BY <1>0, <1>4, <2>1, <2>2, HolderSaves DEF IInv
<1> QED BY <1>2, <1>3, <1>4 DEF Validate

\* Every step of advance_receive before credit keeps the outpoint reserved.
LEMMA ReceiveStepKeepsCore ==
    ASSUME IInv, NEW r \in Receives, ReceiveStep(r)
    PROVE  Core'
<1>0. r \in Ops
  BY DEF Ops
<1>1. CASE Fetch(r)
  BY <1>1, FetchKeepsCore
<1>2. CASE Validate(r)
  BY <1>2, ValidateKeepsCore
<1>3. ASSUME lock = r, UNCHANGED <<ops, reserved, lock, work>>,
             pc \in WithProof \ {"recheck"},
             pc' \in {"save", "save_ack", "accept", "credit"}
      PROVE  Core'
  <2>1. Sound(r, work) /\ ~Freed(work) /\ ~Freed(ops[r])
    BY <1>0, <1>3, HolderKnows, NotFreed DEF WithProof
  <2>2. work.proof # None /\ work.outpoint # None
    BY <1>0, <1>3, HolderKnows DEF Fits
  <2>3. Fits(r, work', pc') /\ Sound(r, work')
    BY <1>3, <2>1, <2>2 DEF Fits, Sound, Freed, IsBlind
  <2> QED BY <1>0, <1>3, <2>3, HolderMoves DEF IInv
<1>4. CASE PostNack(r)
  BY <1>3, <1>4 DEF PostNack, At, Goto, durable, WithProof
<1>5. CASE PostAck(r)
  BY <1>3, <1>5 DEF PostAck, At, Goto, durable, WithProof
<1>6. CASE Confirm(r)
  BY <1>3, <1>6 DEF Confirm, At, Goto, durable, WithProof
<1>7. CASE Accept(r)
  BY <1>3, <1>7 DEF Accept, At, Goto, WithProof
<1>8. CASE SaveAck(r)
  <2> DEFINE rec == [work EXCEPT !.ack = "ack"]
  <2>1. lock = r /\ pc = "save_ack" /\ SaveAndGo(r, rec, "confirm")
    BY <1>8 DEF SaveAck, At
  <2>2. /\ work \in Records /\ Sound(r, work)
        /\ ~Freed(work) /\ ~Freed(ops[r])
        /\ work.proof # None /\ work.outpoint # None
    BY <1>0, <2>1, HolderKnows, NotFreed DEF Fits, WithProof
  <2>3. rec \in Records /\ rec.inputs = work.inputs
    BY <2>2 DEF Records, Answers
  <2>4. Sound(r, rec) /\ Fits(r, rec, "confirm")
    BY <2>2 DEF Sound, Fits, Freed, IsBlind, Records
  <2> QED BY <1>0, <2>1, <2>3, <2>4, HolderSaves DEF IInv
<1> QED BY <1>1, <1>2, <1>4, <1>5, <1>6, <1>7, <1>8 DEF ReceiveStep

-----------------------------------------------------------------------------
(* Credit and the recheck of settled operations.                           *)

\* Crediting a receive frees its own outpoint and no other operation's: the
\* outpoint was still reserved to it, since it had not been credited before.
LEMMA CreditKeepsCore ==
    ASSUME IInv, NEW x \in Ops, credit(x)
    PROVE  Core'
<1> DEFINE rec == [work EXCEPT !.status = "settled"]
<1>1. lock = x /\ pc = "credit" /\ lock' = lock /\ pc' = "save"
  BY DEF credit, At, Goto
<1>2. /\ work \in Records /\ Sound(x, work) /\ work.inputs = ops[x].inputs /\ Exists(x)
      /\ x \in Receives => ~Freed(work) /\ ~Freed(ops[x]) /\ work.proof # None
  BY <1>1, HolderKnows, NotFreed DEF Fits, WithProof
<1>3. rec \in Records /\ rec.inputs = ops[x].inputs /\ Sound(x, rec)
  BY <1>2 DEF Records, Statuses, Sound, Freed, IsBlind
<1>4. \A y \in Ops : ops'[y] = IF y = x THEN rec ELSE ops[y]
  BY DEF credit, save, IInv, TypeOK
<1>5. RecordsSound'
  BY <1>3, <1>4 DEF IInv, Core, RecordsSound, Exists, Sound, IsBlind
<1>6. InputsReserved'
  <2>1. ASSUME NEW y \in Ops, y # x, Holds(y), NEW o \in ops[y].inputs
        PROVE  reserved'[o] = y
    <3>1. o \in Outpoints /\ reserved[o] = y
      BY <2>1 DEF IInv, Core, InputsReserved, TypeOK, Records
    <3>2. x \in Receives => o \notin work.inputs
      BY <1>2, <2>1, <3>1 DEF IInv, Core, InputsReserved, Holds, Freed
    <3> QED BY <3>1, <3>2 DEF credit
  <2>2. ASSUME x \in Sends, NEW o \in ops[x].inputs
        PROVE  reserved'[o] = x
    <3>1. o \in Outpoints /\ reserved[o] = x /\ x \notin Receives
      BY <2>2, IdsAssumption DEF IInv, Core, InputsReserved, Holds, TypeOK, Records
    <3> QED BY <3>1 DEF credit
  <2>3. x \in Receives => ~(x \in Sends) /\ rec.status = "settled"
    BY <1>2, IdsAssumption DEF Records
  <2> QED BY <1>3, <1>4, <2>1, <2>2, <2>3 DEF InputsReserved, Holds, Ops
<1>7. HolderSound'
  <2>1. work'.inputs = work.inputs /\ work'.slot = work.slot /\ work'.proof = work.proof
        /\ work'.outpoint = work.outpoint /\ work'.quarantine = work.quarantine
        /\ work'.status \in {"settled", "needs_review"}
    BY <1>2 DEF credit, Records
  <2>2. x \in Receives => work'.status = "settled"
    BY <1>2 DEF credit, Records
  <2>3. Sound(x, work')
    BY <1>2, <2>1, <2>2 DEF Sound, Freed, IsBlind
  <2>4. Exists(x)' /\ work'.inputs = ops'[x].inputs
    BY <1>2, <1>3, <1>4, <2>1 DEF Exists, Sound
  <2> QED BY <1>1, <1>2, <2>2, <2>3, <2>4 DEF HolderSound, Exists, Sound, Freed, IsBlind, WithProof
<1> QED BY <1>5, <1>6, <1>7 DEF Core

\* Freezing a settled operation leaves a credited receive freed.
LEMMA RecheckKeepsCore ==
    ASSUME IInv, NEW x \in Ops, Recheck(x)
    PROVE  Core'
<1>1. lock = x /\ pc = "recheck" /\ UNCHANGED <<ops, reserved, lock>> /\ pc' = "save"
  BY DEF Recheck, At, Goto
<1>2. work \in Records /\ Sound(x, work) /\ Fits(x, work, "recheck")
  BY <1>1, HolderKnows
<1>3. \/ work' = work
      \/ work' = [work EXCEPT !.status = "needs_review", !.quarantine = TRUE]
  BY DEF Recheck
<1>4. work'.inputs = work.inputs /\ Sound(x, work') /\ Fits(x, work', pc')
  BY <1>1, <1>2, <1>3 DEF Sound, Fits, Freed, IsBlind, Records, WithProof
<1> QED BY <1>1, <1>4, HolderMoves DEF IInv

-----------------------------------------------------------------------------
(* Types.                                                                  *)

\* A save of a record keeps the type of the operations keyspace.
LEMMA SaveType ==
    ASSUME TypeOK, NEW x \in Ops, NEW rec \in Records, save(x, rec)
    PROVE  ops' \in [Ops -> Records]
BY DEF save, TypeOK

\* A reserving save keeps the types of both keyspaces it writes.
LEMMA ReservingSaveType ==
    ASSUME TypeOK, NEW x \in Ops, NEW rec \in Records, save_reserving(x, rec)
    PROVE  ops' \in [Ops -> Records] /\ reserved' \in [Outpoints -> Ops \cup {None}]
BY DEF save_reserving, TypeOK

\* The empty record is a record.
LEMMA AbsentType == Absent \in Records
BY DEF Absent, Records, Statuses, Answers

\* Client requests and queries keep every type.
LEMMA ClientTypes ==
    ASSUME TypeOK, Client
    PROVE  TypeOK'
<1>1. ASSUME NEW r \in Receives, NEW blind \in Outpoints \cup {None}, Receive(r, blind)
      PROVE  TypeOK'
  <2> DEFINE rec == [Absent EXCEPT !.status = "awaiting_transfer",
                                   !.slot = recipient(r, blind),
                                   !.outpoint = blind,
                                   !.inputs = {blind} \ {None}]
  <2>1. recipient(r, blind) \in Slots
    BY IdsAssumption DEF recipient, Slots, Ops
  <2>2. rec \in Records /\ r \in Ops
    BY <2>1 DEF Absent, Records, Statuses, Answers, Ops
  <2>3. ops' \in [Ops -> Records] /\ reserved' \in [Outpoints -> Ops \cup {None}]
    BY <1>1, <2>2, ReservingSaveType DEF Receive
  <2> QED BY <1>1, <2>3 DEF TypeOK, Receive, holder, recovery, proxy, chain
<1>2. ASSUME NEW s \in Sends, NEW inputs \in SUBSET Outpoints, NEW slot \in Slots,
             Prepare(s, inputs, slot)
      PROVE  TypeOK'
  <2> DEFINE rec == [Absent EXCEPT !.status = "preparing", !.inputs = inputs, !.slot = slot]
  <2>1. rec \in Records /\ s \in Ops
    BY DEF Absent, Records, Statuses, Answers, Ops
  <2>2. ops' \in [Ops -> Records] /\ reserved' \in [Outpoints -> Ops \cup {None}]
    BY <1>2, <2>1, ReservingSaveType DEF Prepare
  <2>3. lock' \in Ops \cup {None} /\ work' \in Records /\ pc' \in Steps
    BY <1>2, <2>1 DEF Prepare, Steps
  <2> QED BY <1>2, <2>2, <2>3 DEF TypeOK, Prepare, recovery, proxy, chain
<1>3. ASSUME NEW s \in Sends, Finalize(s)
      PROVE  TypeOK'
  <2> DEFINE rec == [ops[s] EXCEPT !.signed = TRUE, !.status = "delivering"]
  <2>1. rec \in Records /\ s \in Ops
    BY DEF TypeOK, Records, Statuses, Ops
  <2>2. ops' \in [Ops -> Records]
    BY <1>3, <2>1, SaveType DEF Finalize
  <2> QED BY <1>3, <2>2 DEF TypeOK, Finalize, holder, recovery, proxy, chain
<1>4. ASSUME NEW x \in Ops, Cancel(x)
      PROVE  TypeOK'
  <2> DEFINE rec == [ops[x] EXCEPT !.status = "cancelled"]
  <2>1. rec \in Records
    BY DEF TypeOK, Records, Statuses
  <2>2. ops' \in [Ops -> Records]
    BY <1>4, <2>1, SaveType DEF Cancel
  <2> QED BY <1>4, <2>2 DEF TypeOK, Cancel, holder, recovery, proxy, chain
<1>5. ASSUME NEW a \in Accounts, LegacyPrepare(a)
      PROVE  TypeOK'
  BY <1>5 DEF TypeOK, LegacyPrepare, holder, recovery, proxy, chain
<1>6. ASSUME NEW a \in Accounts, QueryList(a)
      PROVE  TypeOK'
  <2>1. utxos' \in [Outpoints -> {"absent", "unconfirmed", "confirmed"}]
    BY <1>6 DEF TypeOK, QueryList, account_rgb20_utxos, mark_confirmed
  <2>2. known' \in [Accounts -> SUBSET Outpoints]
    BY <1>6 DEF TypeOK, QueryList, AccountUtxos
  <2> QED BY <1>6, <2>1, <2>2 DEF TypeOK, QueryList, holder, recovery, proxy, chain
<1>7. ASSUME NEW a \in Accounts, QueryClean(a)
      PROVE  TypeOK'
  BY <1>7 DEF TypeOK, QueryClean, holder, recovery, proxy, chain
<1> QED BY <1>1, <1>2, <1>3, <1>4, <1>5, <1>6, <1>7 DEF Client

\* A step of the holder that commits its record and goes on.
LEMMA HolderSaveTypes ==
    ASSUME TypeOK, NEW x \in Ops, NEW rec \in Records, NEW step \in Steps,
           SaveAndGo(x, rec, step), UNCHANGED <<recovery, known, proxy, chain, expired>>
    PROVE  TypeOK'
<1>1. ops' \in [Ops -> Records]
  BY SaveType DEF SaveAndGo
<1> QED BY <1>1 DEF TypeOK, SaveAndGo, Goto, recovery, proxy, chain

\* Replaying and marking a staged carrier keep the stock's types.
LEMMA PromotionTypes ==
    ASSUME TypeOK, NEW t \in Sends
    PROVE  /\ replay_pending(t) => /\ alloc' \subseteq Outpoints
                                   /\ pend' \in [Sends -> {"none", "staged", "confirmed"}]
                                   /\ promoting' \in Sends \cup {None}
           /\ mark_promoted(t) => pend' \in [Sends -> {"none", "staged", "confirmed"}]
BY DEF TypeOK, replay_pending, mark_promoted, Outpoints, Arriving

\* The steps of advance_send keep every type.
LEMMA SendStepTypes ==
    ASSUME IInv, NEW s \in Sends, SendStep(s)
    PROVE  TypeOK'
<1>0. s \in Ops /\ s \in Txs
  BY DEF Ops, Txs
<1>1. lock = s
  BY DEF SendStep, At, finish_preparation, upload, SaveDelivered, MarkUnknown,
         broadcast, SaveBroadcast, Observe, stage_sender_fascia, Promote, MarkPromoted
<1>2. TypeOK /\ work \in Records /\ work.slot \in Slots
  BY <1>0, <1>1, HolderKnows DEF IInv
<1>3. CASE finish_preparation(s)
  <2> DEFINE rec == [work EXCEPT !.status = "awaiting_signature",
                                 !.moves = work.inputs \cap alloc,
                                 !.proof = ProofOf(s)]
  <2>1. rec \in Records
    BY <1>0, <1>2 DEF Records, Statuses, ProofOf, Proofs
  <2>2. CASE SaveAndGo(s, rec, "save")
    BY <1>0, <1>2, <1>3, <2>1, <2>2, HolderSaveTypes DEF finish_preparation, Steps
  <2>3. CASE Goto("save") /\ UNCHANGED <<durable, work>>
    BY <1>2, <1>3, <2>3 DEF finish_preparation, TypeOK, Goto, Steps, durable, recovery,
                            proxy, chain
  <2> QED BY <1>3, <2>2, <2>3 DEF finish_preparation
<1>4. CASE SaveDelivered(s)
  <2>1. [work EXCEPT !.delivery = "delivered"] \in Records
    BY <1>2 DEF Records
  <2> QED BY <1>0, <1>2, <1>4, <2>1, HolderSaveTypes DEF SaveDelivered, Steps
<1>5. CASE MarkUnknown(s)
  <2>1. [work EXCEPT !.broadcast = "unknown"] \in Records
    BY <1>2 DEF Records
  <2> QED BY <1>0, <1>2, <1>5, <2>1, HolderSaveTypes DEF MarkUnknown, Steps
<1>6. CASE SaveBroadcast(s)
  <2>1. [work EXCEPT !.broadcast = "broadcast",
                     !.status = "waiting_confirmations"] \in Records
    BY <1>2 DEF Records, Statuses
  <2> QED BY <1>0, <1>2, <1>6, <2>1, HolderSaveTypes DEF SaveBroadcast, Steps
<1>7. CASE upload(s)
  <2>1. slots' \in [Slots -> Proofs \cup {None}]
    BY <1>2, <1>7 DEF upload, Stored, TypeOK, Records
  <2> QED BY <1>2, <1>7, <2>1 DEF upload, TypeOK, Goto, Steps, durable, recovery, chain
<1>8. CASE broadcast(s)
  BY <1>0, <1>2, <1>8 DEF broadcast, TypeOK, Goto, Steps, durable, recovery, proxy, chain
<1>9. CASE Observe(s)
  <2>1. work' \in Records
    BY <1>2, <1>9 DEF Observe, TypeOK, Records
  <2> QED BY <1>2, <1>9, <2>1 DEF Observe, TypeOK, Goto, Steps, durable, recovery, proxy, chain
<1>10. CASE stage_sender_fascia(s)
  BY <1>2, <1>10 DEF stage_sender_fascia, TypeOK, Goto, Steps, recovery, proxy, chain
<1>11. CASE Promote(s)
  <2>1. ASSUME NEW t \in Sends, replay_pending(t) /\ Goto("mark_promoted")
        PROVE  TypeOK'
    <3>1. /\ alloc' \subseteq Outpoints
          /\ pend' \in [Sends -> {"none", "staged", "confirmed"}]
          /\ promoting' \in Sends \cup {None}
      BY <1>2, <2>1, PromotionTypes
    <3> QED BY <1>2, <1>11, <2>1, <3>1 DEF Promote, replay_pending, TypeOK, Goto, Steps,
                                           proxy, chain
  <2>2. CASE UNCHANGED <<durable, recovery>>
             /\ Goto(IF pend[s] = "confirmed" THEN "credit" ELSE "save")
    BY <1>2, <1>11, <2>2 DEF Promote, TypeOK, Goto, Steps, durable, recovery, proxy, chain
  <2> QED BY <1>11, <2>1, <2>2 DEF Promote, Promotable
<1>12. CASE MarkPromoted(s)
  BY <1>2, <1>12 DEF MarkPromoted, mark_promoted, TypeOK, Goto, Steps, proxy, chain
<1> QED BY <1>3, <1>4, <1>5, <1>6, <1>7, <1>8, <1>9, <1>10, <1>11, <1>12 DEF SendStep

\* The steps of advance_receive keep every type: a detected proof is present
\* whenever its carrier is looked at.
LEMMA ReceiveStepTypes ==
    ASSUME IInv, NEW r \in Receives, ReceiveStep(r)
    PROVE  TypeOK'
<1>0. r \in Ops
  BY DEF Ops
<1>1. lock = r
  BY DEF ReceiveStep, At, Fetch, Validate, PostNack, PostAck, SaveAck, Confirm, Accept
<1>2. TypeOK /\ work \in Records /\ work.slot \in Slots
  BY <1>0, <1>1, HolderKnows DEF IInv
<1>3. CASE Fetch(r)
  <2> DEFINE p == slots[work.slot]
             detected == [work EXCEPT !.proof = p,
                                      !.outpoint = IF IsBlind(work) THEN @ ELSE Paid(p.tx)]
  <2>0. p \in Proofs \cup {None}
    BY <1>2 DEF TypeOK
  <2>1. CASE Goto("save") /\ UNCHANGED <<durable, work>>
    BY <1>2, <1>3, <2>1 DEF Fetch, TypeOK, Goto, Steps, durable, recovery, proxy, chain
  <2>2. CASE /\ p # None
             /\ work' = [work EXCEPT !.proof = p]
             /\ Goto("save") /\ UNCHANGED durable
    <3>1. work' \in Records
      BY <1>2, <2>0, <2>2 DEF Records
    <3> QED BY <1>2, <1>3, <2>2, <3>1 DEF Fetch, TypeOK, Goto, Steps, durable, recovery,
                                          proxy, chain
  <2>3. ASSUME p # None, NEW status \in {"needs_review", "validating"},
               NEW step \in {"save", "validate"},
               SaveAndGo(r, [detected EXCEPT !.status = status], step)
        PROVE  TypeOK'
    <3>1. p.tx \in Txs
      BY <2>0, <2>3 DEF Proofs
    <3>2. Paid(p.tx) \in Outpoints
      BY <3>1 DEF Outpoints
    <3>3. [detected EXCEPT !.status = status] \in Records
      BY <1>2, <2>0, <2>3, <3>2 DEF Records, Statuses
    <3> QED BY <1>0, <1>2, <1>3, <2>3, <3>3, HolderSaveTypes DEF Fetch, Steps
  <2> QED BY <1>3, <2>1, <2>2, <2>3, ReadableIsStored DEF Fetch
<1>4. CASE Validate(r)
  <2>1. /\ [work EXCEPT !.status = "needs_review"] \in Records
        /\ [work EXCEPT !.status = "waiting_confirmations",
                        !.delivery = "validated"] \in Records
    BY <1>2 DEF Records, Statuses
  <2>2. CASE Goto("save") /\ UNCHANGED <<durable, work>>
    BY <1>2, <1>4, <2>2 DEF Validate, TypeOK, Goto, Steps, durable, recovery, proxy, chain
  <2>3. CASE SaveAndGo(r, [work EXCEPT !.status = "needs_review"], "nack")
    BY <1>0, <1>2, <1>4, <2>1, <2>3, HolderSaveTypes DEF Validate, Steps
  <2>4. CASE SaveAndGo(r, [work EXCEPT !.status = "waiting_confirmations",
                                       !.delivery = "validated"], "post_ack")
    BY <1>0, <1>2, <1>4, <2>1, <2>4, HolderSaveTypes DEF Validate, Steps
  <2> QED BY <1>4, <2>2, <2>3, <2>4 DEF Validate
<1>5. CASE PostNack(r)
  BY <1>2, <1>5 DEF PostNack, Answered, Answers, TypeOK, Goto, Steps, durable, recovery, chain
<1>6. CASE PostAck(r)
  BY <1>2, <1>6 DEF PostAck, Answered, Answers, TypeOK, Goto, Steps, durable, recovery, chain
<1>7. CASE SaveAck(r)
  <2>1. [work EXCEPT !.ack = "ack"] \in Records
    BY <1>2 DEF Records, Answers
  <2> QED BY <1>0, <1>2, <1>7, <2>1, HolderSaveTypes DEF SaveAck, Steps
<1>8. CASE Confirm(r)
  BY <1>2, <1>8 DEF Confirm, TypeOK, Goto, Steps, durable, recovery, proxy, chain
<1>9. CASE Accept(r)
  <2>1. work.outpoint # None
    BY <1>0, <1>1, <1>9, HolderKnows DEF Accept, At, Fits, WithProof
  <2>2. alloc' \subseteq Outpoints
    BY <1>2, <1>9, <2>1 DEF Accept, TypeOK, Records, Arriving
  <2> QED BY <1>2, <1>9, <2>2 DEF Accept, TypeOK, Goto, Steps, recovery, proxy, chain
<1> QED BY <1>3, <1>4, <1>5, <1>6, <1>7, <1>8, <1>9 DEF ReceiveStep

\* The steps of whoever holds the mutation lock keep every type.
LEMMA HolderStepTypes ==
    ASSUME IInv, NEW x \in Ops, HolderStep(x)
    PROVE  TypeOK'
<1>0. TypeOK /\ work \in Records
  BY DEF IInv, TypeOK
<1>1. CASE x \in Sends /\ SendStep(x)
  BY <1>1, SendStepTypes
<1>2. CASE x \in Receives /\ ReceiveStep(x)
  BY <1>2, ReceiveStepTypes
<1>3. CASE credit(x)
  <2>1. [work EXCEPT !.status = "settled"] \in Records
    BY <1>0 DEF Records, Statuses
  <2>2. ops' \in [Ops -> Records]
    BY <1>0, <1>3, <2>1, SaveType DEF credit
  <2>3. work' \in Records
    <3>1. /\ [work EXCEPT !.status = "settled", !.broadcast = "confirmed"] \in Records
          /\ \A v \in {"settled", "needs_review"} : [work EXCEPT !.status = v] \in Records
      BY <1>0 DEF Records, Statuses
    <3>2. \/ work' = [work EXCEPT !.status = "settled", !.broadcast = "confirmed"]
          \/ \E v \in {"settled", "needs_review"} : work' = [work EXCEPT !.status = v]
      BY <1>3 DEF credit
    <3> QED BY <3>1, <3>2
  <2>4. /\ utxos' \in [Outpoints -> {"absent", "unconfirmed", "confirmed"}]
        /\ reserved' \in [Outpoints -> Ops \cup {None}]
    BY <1>0, <1>3 DEF credit, TypeOK
  <2> QED BY <1>0, <1>3, <2>2, <2>3, <2>4 DEF credit, TypeOK, Goto, Steps, recovery, proxy, chain
<1>4. CASE Recheck(x)
  <2>1. work' \in Records
    BY <1>0, <1>4 DEF Recheck, Records, Statuses
  <2>2. utxos' \in [Outpoints -> {"absent", "unconfirmed", "confirmed"}]
    BY <1>0, <1>4 DEF Recheck, TypeOK
  <2> QED BY <1>0, <1>4, <2>1, <2>2 DEF Recheck, TypeOK, Goto, Steps, recovery, proxy, chain
<1>5. CASE ScanSave(x)
  <2>1. ops' \in [Ops -> Records]
    BY <1>0, <1>5, SaveType DEF ScanSave
  <2> QED BY <1>0, <1>5, <2>1, AbsentType DEF ScanSave, Release, TypeOK, Steps, recovery, proxy, chain
<1> QED BY <1>1, <1>2, <1>3, <1>4, <1>5 DEF HolderStep

\* Picking an operation up keeps every type.
LEMMA ScanTypes ==
    ASSUME TypeOK, NEW x \in Ops, Scan(x)
    PROVE  TypeOK'
<1>1. advance(x) \in Steps
  BY DEF advance, receive_entry, send_entry, Steps
<1> QED BY <1>1 DEF Scan, TypeOK, durable, recovery, proxy, chain

\* The recovery scan keeps every type.
LEMMA RecoveryTypes ==
    ASSUME TypeOK,
           \/ \E s \in Sends : RecoveryStep(s)
           \/ \E a \in Accounts : Unregister(a)
    PROVE  TypeOK'
<1>1. ASSUME NEW t \in Sends, RecoveryReplay(t)
      PROVE  TypeOK'
  <2>1. /\ alloc' \subseteq Outpoints
        /\ pend' \in [Sends -> {"none", "staged", "confirmed"}]
        /\ promoting' \in Sends \cup {None}
    BY <1>1, PromotionTypes DEF RecoveryReplay
  <2> QED BY <1>1, <2>1 DEF RecoveryReplay, replay_pending, TypeOK, holder, proxy, chain
<1>2. ASSUME NEW t \in Sends, RecoveryMark(t)
      PROVE  TypeOK'
  BY <1>2 DEF RecoveryMark, mark_promoted, TypeOK, holder, recovery, proxy, chain
<1>3. ASSUME NEW t \in Sends, RecoveryTrack(t)
      PROVE  TypeOK'
  <2>1. utxos' \in [Outpoints -> {"absent", "unconfirmed", "confirmed"}]
    BY <1>3 DEF RecoveryTrack, mark_confirmed, TypeOK
  <2> QED BY <1>3, <2>1 DEF RecoveryTrack, TypeOK, holder, proxy, chain
<1>4. ASSUME NEW a \in Accounts, Unregister(a)
      PROVE  TypeOK'
  BY <1>4 DEF Unregister, TypeOK, durable, holder, proxy, chain
<1> QED BY <1>1, <1>2, <1>3, <1>4 DEF RecoveryStep

\* Peers, blocks and time keep every type.
LEMMA WorldTypes ==
    ASSUME TypeOK, World
    PROVE  TypeOK'
<1>1. ASSUME NEW slot \in Slots, NEW p \in Proofs, PeerPost(slot, p)
      PROVE  TypeOK'
  BY <1>1 DEF PeerPost, TypeOK, durable, holder, recovery, chain
<1>2. ASSUME NEW slot \in PeerSlots, NEW value \in {"ack", "nack"}, PeerAnswer(slot, value)
      PROVE  TypeOK'
  BY <1>2 DEF PeerAnswer, Answers, TypeOK, durable, holder, recovery, chain
<1>3. ASSUME NEW t \in Txs, Publish(t)
      PROVE  TypeOK'
  BY <1>3 DEF Publish, TypeOK, durable, holder, recovery, proxy
<1>4. ASSUME NEW t \in Txs, Mine(t)
      PROVE  TypeOK'
  BY <1>4 DEF Mine, TypeOK, durable, holder, recovery, proxy
<1>5. ASSUME NEW x \in Ops, Expire(x)
      PROVE  TypeOK'
  BY <1>5 DEF Expire, TypeOK, durable, holder, recovery, proxy, chain
<1> QED BY <1>1, <1>2, <1>3, <1>4, <1>5 DEF World

\* Crashes, failing calls, reorganisations and evictions keep every type.
LEMMA FaultTypes ==
    ASSUME IInv, Fault
    PROVE  TypeOK'
<1>0. TypeOK
  BY DEF IInv
<1>1. CASE Crash
  BY <1>0, <1>1, AbsentType DEF Crash, Release, TypeOK, Steps, durable, proxy, chain
<1>2. ASSUME NEW x \in Ops, CallFails(x)
      PROVE  TypeOK'
  BY <1>0, <1>2 DEF CallFails, TypeOK, Goto, Steps, durable, recovery, proxy, chain
<1>3. ASSUME NEW x \in Ops, ReplyLost(x)
      PROVE  TypeOK'
  <2>1. work \in Records /\ work.slot \in Slots
    BY <1>3, HolderKnows DEF ReplyLost
  <2>2. work' \in Records
    BY <1>0, <1>3, <2>1 DEF ReplyLost, TypeOK, Records
  <2>3. slots' \in [Slots -> Proofs \cup {None}]
    BY <1>0, <1>3, <2>1 DEF ReplyLost, Stored, TypeOK, Records, proxy
  <2>4. acks' \in [Slots -> Answers]
    BY <1>0, <1>3 DEF ReplyLost, Answered, Answers, TypeOK, proxy
  <2>5. seen' \subseteq Txs /\ posted' \subseteq Sends /\ UNCHANGED <<depth, foreign>>
    BY <1>0, <1>3 DEF ReplyLost, TypeOK, Txs, chain
  <2> QED BY <1>0, <1>3, <2>2, <2>3, <2>4, <2>5 DEF ReplyLost, TypeOK, Goto, Steps, durable, recovery
<1>4. ASSUME NEW T \in SUBSET Txs, Reorg(T)
      PROVE  TypeOK'
  BY <1>0, <1>4 DEF Reorg, TypeOK, durable, holder, recovery, proxy
<1>5. ASSUME NEW t \in Txs, Evict(t)
      PROVE  TypeOK'
  BY <1>0, <1>5 DEF Evict, TypeOK, durable, holder, recovery, proxy
<1>6. ASSUME NEW o \in ForeignCoins, ForeignSpend(o)
      PROVE  TypeOK'
  BY <1>0, <1>6, CoinsAssumption DEF ForeignSpend, TypeOK, durable, holder, recovery, proxy
<1> QED BY <1>1, <1>2, <1>3, <1>4, <1>5, <1>6 DEF Fault

-----------------------------------------------------------------------------
(* The inductive invariant, and what it gives.                             *)

\* The inductive invariant holds of a fresh store.
LEMMA InitIInv == Init => IInv
<1> SUFFICES ASSUME Init PROVE IInv
  OBVIOUS
<1>1. TypeOK
  BY AbsentType, CoinsAssumption DEF Init, TypeOK, Outpoints, Steps, Answers
<1>2. \A x \in Ops : ops[x] = Absent
  BY DEF Init
<1>3. RecordsSound
  BY <1>2 DEF RecordsSound, Exists, Absent
<1>4. InputsReserved
  BY <1>2 DEF InputsReserved, Absent
<1>5. HolderSound
  BY DEF Init, HolderSound
<1> QED BY <1>1, <1>3, <1>4, <1>5 DEF IInv, Core

\* Every step keeps the inductive invariant: types first, then the core.
LEMMA NextIInv == IInv /\ [Next]_vars => IInv'
<1> SUFFICES ASSUME IInv, [Next]_vars PROVE IInv'
  OBVIOUS
<1>0. TypeOK /\ Core
  BY DEF IInv
<1>1. CASE Client
  <2>1. TypeOK'
    BY <1>0, <1>1, ClientTypes
  <2>2. ASSUME NEW a \in Accounts, LegacyPrepare(a) \/ QueryList(a) \/ QueryClean(a)
        PROVE  Core'
    BY <1>0, <2>2, CoreUnchanged DEF LegacyPrepare, QueryList, QueryClean, holder
  <2>3. Core'
    BY <1>1, <2>2, ReceiveKeepsCore, PrepareKeepsCore, FinalizeKeepsCore, CancelKeepsCore
       DEF Client
  <2> QED BY <2>1, <2>3 DEF IInv
<1>2. ASSUME NEW x \in Ops, Scan(x)
      PROVE  IInv'
  BY <1>0, <1>2, ScanTypes, ScanKeepsCore DEF IInv
<1>3. ASSUME NEW x \in Ops, HolderStep(x)
      PROVE  IInv'
  <2>1. Core'
    BY <1>3, SendStepKeepsCore, ReceiveStepKeepsCore, CreditKeepsCore, RecheckKeepsCore,
       ScanSaveKeepsCore DEF HolderStep
  <2> QED BY <1>3, <2>1, HolderStepTypes DEF IInv
<1>4. CASE \/ \E s \in Sends : RecoveryStep(s)
           \/ \E a \in Accounts : Unregister(a)
  <2>1. UNCHANGED <<ops, reserved, lock, work, pc>>
    BY <1>4 DEF RecoveryStep, RecoveryReplay, RecoveryMark, RecoveryTrack, Unregister,
                replay_pending, mark_promoted, durable, holder
  <2> QED BY <1>0, <1>4, <2>1, RecoveryTypes, CoreUnchanged DEF IInv
<1>5. CASE World
  <2>1. UNCHANGED <<ops, reserved, lock, work, pc>>
    BY <1>5 DEF World, PeerPost, PeerAnswer, Publish, Mine, Expire, durable, holder
  <2> QED BY <1>0, <1>5, <2>1, WorldTypes, CoreUnchanged DEF IInv
<1>6. CASE Fault
  <2>1. ASSUME \/ \E T \in SUBSET Txs : Reorg(T)
               \/ \E t \in Txs : Evict(t)
               \/ \E o \in ForeignCoins : ForeignSpend(o)
        PROVE  Core'
    <3>1. UNCHANGED <<ops, reserved, lock, work, pc>>
      BY <2>1 DEF Reorg, Evict, ForeignSpend, durable, holder
    <3> QED BY <1>0, <3>1, CoreUnchanged
  <2>2. Core'
    BY <1>6, <2>1, CrashKeepsCore, CallFailsKeepsCore, ReplyLostKeepsCore DEF Fault
  <2> QED BY <1>6, <2>2, FaultTypes DEF IInv
<1>7. CASE UNCHANGED vars
  <2>1. Core'
    BY <1>0, <1>7, CoreUnchanged DEF vars, durable, holder
  <2>2. TypeOK'
    BY <1>0, <1>7 DEF vars, durable, holder, recovery, proxy, chain, TypeOK
  <2> QED BY <2>1, <2>2 DEF IInv
<1> QED BY <1>1, <1>2, <1>3, <1>4, <1>5, <1>6, <1>7 DEF Next

\* The inductive invariant holds of every behaviour of the engine.
THEOREM InvariantHolds == Spec => []IInv
BY InitIInv, NextIInv, PTL DEF Spec

\* Every keyspace and the holder's state keep their types, for any number of
\* accounts, operations, coins and carriers, through every request, scan step,
\* failing call, crash and reorganisation.
THEOREM TypeCorrect == Spec => []TypeOK
<1>1. IInv => TypeOK
  BY DEF IInv
<1> QED BY <1>1, InvariantHolds, PTL

\* The inputs of an operation stay reserved to it: a send's for ever, a
\* receive's until credit releases them, whatever the scanner, the clients and
\* the crashes do in between.
THEOREM ReservationsHold == Spec => []InputsReserved
<1>1. IInv => InputsReserved
  BY DEF IInv, Core
<1> QED BY <1>1, InvariantHolds, PTL

\* Two operations never commit to the same output, so the daemon never hands
\* out two PSBTs that spend one coin, nor one that spends the coin under an
\* open invoice's blind seal.
THEOREM DoubleSpendExcluded == Spec => []NoDoubleSpend
<1>1. InputsReserved => NoDoubleSpend
  BY DEF InputsReserved, NoDoubleSpend
<1> QED BY <1>1, ReservationsHold, PTL

-----------------------------------------------------------------------------
(* The two protocols exclude each other.                                   *)

\* Only Receive and Prepare create a record, and only LegacyPrepare a direct send.
NoNewRecord == legacy' = legacy /\ \A y \in Ops : Exists(y)' => Exists(y)

\* A save for an operation that exists creates no record.
LEMMA SaveIsNotNew ==
    ASSUME TypeOK, NEW x \in Ops, Exists(x), NEW rec, save(x, rec), legacy' = legacy
    PROVE  NoNewRecord
BY DEF NoNewRecord, save, Exists, TypeOK

\* The holder of the lock only ever saves an operation that exists.
LEMMA HolderStepIsNotNew ==
    ASSUME IInv, NEW x \in Ops, HolderStep(x)
    PROVE  NoNewRecord
<1>1. lock = x
  BY DEF HolderStep, SendStep, ReceiveStep, At, credit, Recheck, ScanSave,
         finish_preparation, upload, SaveDelivered, MarkUnknown, broadcast,
         SaveBroadcast, Observe, stage_sender_fascia, Promote, MarkPromoted,
         Fetch, Validate, PostNack, PostAck, SaveAck, Confirm, Accept
<1>2. TypeOK /\ Exists(x)
  BY <1>1, HolderKnows DEF IInv
<1>3. \/ ops' = ops /\ legacy' = legacy
      \/ \E rec : save(x, rec) /\ legacy' = legacy
  <2>1. CASE SendStep(x)
    BY <2>1 DEF SendStep, SaveAndGo, durable,
         finish_preparation, upload, SaveDelivered, MarkUnknown, broadcast,
         SaveBroadcast, Observe, stage_sender_fascia, Promote, replay_pending,
         MarkPromoted, mark_promoted
  <2>2. CASE ReceiveStep(x)
    BY <2>2 DEF ReceiveStep, SaveAndGo, durable, Fetch, Validate, PostNack, PostAck,
         SaveAck, Confirm, Accept
  <2>3. CASE credit(x) \/ Recheck(x) \/ ScanSave(x)
    BY <2>3 DEF credit, Recheck, ScanSave
  <2> QED BY <2>1, <2>2, <2>3 DEF HolderStep
<1>4. CASE ops' = ops /\ legacy' = legacy
  BY <1>4 DEF NoNewRecord, Exists
<1> QED BY <1>2, <1>3, <1>4, SaveIsNotNew

\* A step that starts one protocol on an account finds no trace of the other.
LEMMA LegacyStep ==
    ASSUME IInv, LegacyExclusion, [Next]_vars
    PROVE  LegacyExclusion'
<1>0. TypeOK
  BY DEF IInv
<1>1. ASSUME NoNewRecord
      PROVE  LegacyExclusion'
  BY <1>1 DEF NoNewRecord, LegacyExclusion, OpsOf
<1>2. ASSUME NEW x \in Ops, AccountOf[x] \notin legacy, NEW rec,
             ops' = [ops EXCEPT ![x] = rec], legacy' = legacy
      PROVE  LegacyExclusion'
  BY <1>0, <1>2 DEF LegacyExclusion, OpsOf, Exists, TypeOK
<1>3. ASSUME NEW r \in Receives, NEW blind \in Outpoints \cup {None}, Receive(r, blind)
      PROVE  LegacyExclusion'
  BY <1>2, <1>3 DEF Receive, new_record, save_reserving, Ops
<1>4. ASSUME NEW s \in Sends, NEW inputs \in SUBSET Outpoints, NEW slot \in Slots,
             Prepare(s, inputs, slot)
      PROVE  LegacyExclusion'
  BY <1>2, <1>4 DEF Prepare, new_record, save_reserving, Ops
<1>5. ASSUME NEW s \in Sends, Finalize(s)
      PROVE  LegacyExclusion'
  <2>1. Exists(s) /\ s \in Ops
    BY <1>5 DEF Finalize, Exists, Ops
  <2> QED BY <1>0, <1>1, <1>5, <2>1, SaveIsNotNew DEF Finalize
<1>6. ASSUME NEW x \in Ops, Cancel(x)
      PROVE  LegacyExclusion'
  BY <1>0, <1>1, <1>6, SaveIsNotNew DEF Cancel
<1>7. ASSUME NEW a \in Accounts, LegacyPrepare(a)
      PROVE  LegacyExclusion'
  BY <1>7 DEF LegacyPrepare, LegacyExclusion, OpsOf, Exists
<1>8. ASSUME NEW x \in Ops, HolderStep(x)
      PROVE  LegacyExclusion'
  BY <1>1, <1>8, HolderStepIsNotNew
<1>9. ASSUME ops' = ops, legacy' = legacy
      PROVE  LegacyExclusion'
  BY <1>1, <1>9 DEF NoNewRecord, Exists
<1>10. ASSUME NEW a \in Accounts, QueryList(a) \/ QueryClean(a) \/ Unregister(a)
       PROVE  LegacyExclusion'
  BY <1>9, <1>10 DEF QueryList, QueryClean, Unregister, durable
<1>11. ASSUME NEW x \in Ops, Scan(x)
       PROVE  LegacyExclusion'
  BY <1>9, <1>11 DEF Scan, durable
<1>12. ASSUME NEW s \in Sends, RecoveryStep(s)
       PROVE  LegacyExclusion'
  BY <1>9, <1>12 DEF RecoveryStep, RecoveryReplay, RecoveryMark, RecoveryTrack,
                     replay_pending, mark_promoted
<1>13. CASE World
  BY <1>9, <1>13 DEF World, PeerPost, PeerAnswer, Publish, Mine, Expire, durable
<1>14. CASE Fault
  BY <1>9, <1>14 DEF Fault, Crash, CallFails, ReplyLost, Reorg, Evict, ForeignSpend, durable
<1>15. CASE UNCHANGED vars
  BY <1>9, <1>15 DEF vars, durable
<1> QED BY <1>3, <1>4, <1>5, <1>6, <1>7, <1>8, <1>10, <1>11, <1>12, <1>13, <1>14, <1>15
        DEF Next, Client

\* No account ever has both prepared direct sends, which do not consult the
\* engine's reservations, and operations of the engine.
THEOREM ProtocolsExclusive == Spec => []LegacyExclusion
<1>1. Init => LegacyExclusion
  BY DEF Init, LegacyExclusion
<1>2. IInv /\ LegacyExclusion /\ [Next]_vars => LegacyExclusion'
  BY LegacyStep
<1> QED BY <1>1, <1>2, InvariantHolds, PTL DEF Spec

-----------------------------------------------------------------------------
(* The life of an operation's record: what a record may claim at each      *)
(* status, how far the holder's copy may be ahead of the stored one, and   *)
(* what follows for the proxy, the chain and the payer: verdicts stand,    *)
(* nothing is published unproven, one payment per invoice, and answers     *)
(* that agree with the records.                                            *)

\* How a record may change from one version to a later one.
Grows(old, new) ==
    /\ old.status = "needs_review" => new.status = "needs_review"
    /\ old.status = "settled" => new.status \in {"settled", "needs_review"}
    /\ old.status = "cancelled" => new.status \in {"cancelled", "needs_review"}
    /\ old.signed => new.signed
    /\ new.slot = old.slot
    /\ old.proof # None =>
          new.proof = old.proof /\ new.moves = old.moves /\ new.outpoint = old.outpoint
    /\ old.delivery # "not_started" => new.delivery = old.delivery
    /\ old.broadcast # "not_started" => new.broadcast # "not_started"

\* What a send's record claims, it can show: a PSBT was handed out before a
\* signature came back, a delivery is in its slot of the proxy (sl), and nothing is
\* published before it is delivered.
SendRecord(sl, s, rec) ==
    /\ rec.status # "cancelled" /\ rec.delivery # "validated"
    /\ rec.status = "preparing" => rec.proof = None
    /\ rec.status = "awaiting_signature" \/ rec.signed => rec.proof = ProofOf(s)
    /\ rec.proof = None => rec.moves = {}
    /\ rec.moves \subseteq rec.inputs
    /\ rec.delivery = "delivered" => rec.signed /\ sl[rec.slot] = ProofOf(s)
    /\ rec.broadcast # "not_started" => rec.delivery = "delivered"

\* What a receive's record claims: a validated payment is on its way to credit
\* or frozen after it, and a detected one that is not validated was refused,
\* came late or waits for its checks.
ReceiveRecord(rec) ==
    /\ rec.delivery # "delivered"
    /\ rec.delivery = "validated" =>
          /\ rec.proof # None
          /\ \/ rec.status \in {"waiting_confirmations", "settled"}
             \/ rec.status = "needs_review" /\ rec.quarantine
    /\ rec.proof # None /\ rec.outpoint # None =>
          rec.status \in {"validating", "needs_review"} \/ rec.delivery = "validated"
    /\ rec.status \in {"settled", "needs_review"} => rec.proof # None
    /\ rec.proof = None /\ rec.outpoint # None => IsBlind(rec)

RecordOK(sl, x, rec) ==
    /\ x \in Sends => SendRecord(sl, x, rec)
    /\ x \in Receives => ReceiveRecord(rec)

StoredOK ==
    \A x \in Ops : IF Exists(x) THEN RecordOK(slots, x, ops[x]) ELSE ops[x] = Absent

\* The steps of advance_send once the proof is delivered, and those of
\* advance_receive once the payment is validated.
Sent == {"mark_unknown", "broadcast", "save_broadcast", "observe", "stage",
         "replay", "mark_promoted", "credit"}
Checked == {"post_ack", "save_ack", "confirm", "accept", "credit"}

\* What the holder has established, in its copy or in the store, when it is at
\* a step.
Reached(sl, x, stored, rec, step) ==
    /\ rec.status = "needs_review" => step \in {"save", "nack"}
    /\ rec.status = "settled" => step \in {"recheck", "save"}
    /\ rec.status = "cancelled" => step \in {"fetch", "save"}
    /\ x \in Sends =>
          /\ rec.status \in {"settled", "needs_review"} =>
                stored.status \in {"settled", "needs_review"}
          /\ step = "finish" => rec.status = "preparing"
          /\ step \in {"upload", "save_delivered"} => rec.signed
          /\ step = "save_delivered" => sl[rec.slot] = ProofOf(x)
          /\ step \in Sent => rec.delivery = "delivered"
          /\ step \in {"broadcast", "save_broadcast"} => stored.broadcast # "not_started"
          /\ step = "recheck" => stored.status \in {"settled", "needs_review"}
    /\ x \in Receives =>
          /\ step = "fetch" => rec.proof = None
          /\ step = "validate" => rec.status = "validating"
          /\ step \in Checked => stored.delivery = "validated"
          /\ step = "nack" => stored.status = "needs_review"

HolderOK ==
    lock # None =>
        /\ RecordOK(slots, lock, work)
        /\ Grows(ops[lock], work)
        /\ Reached(slots, lock, ops[lock], work, pc)

RInv == StoredOK /\ HolderOK

\* What the daemon published is marked in the stored record.
PostedMarked == \A s \in posted : Exists(s) /\ ops[s].broadcast # "not_started"

\* An invoice has its recipient id for itself.
SlotsOwned ==
    \A r \in Receives : Exists(r) =>
        /\ ops[r].slot \in {WitnessSlot(AccountOf[r]), BlindSlot(r)}
        /\ \A q \in Receives : Exists(q) /\ ops[q].slot = ops[r].slot => q = r

\* Nobody answers for an id of this daemon before its invoice exists.
NoEarlyAnswer ==
    \A i \in Slots \ PeerSlots :
        acks[i] # "none" => \E r \in Receives : Exists(r) /\ ops[r].slot = i

AInv == SlotsOwned /\ NoEarlyAnswer /\ AnswerMatchesRecord

-----------------------------------------------------------------------------
(* The common part: how a step of any kind may treat records and slots.    *)

\* The proxy keeps the first consignment of every slot.
SlotsKept == \A i \in Slots : slots[i] # None => slots'[i] = slots[i]

\* Every stored record lives on and only ever grows.
OpsGrow == \A y \in Ops : Exists(y) => Exists(y)' /\ Grows(ops[y], ops'[y])

\* A record's claims survive whatever is added to the proxy.
LEMMA ClaimsLast ==
    ASSUME NEW sl, NEW later, \A i \in Slots : sl[i] # None => later[i] = sl[i],
           NEW x \in Ops, NEW rec, rec.slot \in Slots, RecordOK(sl, x, rec)
    PROVE  RecordOK(later, x, rec)
<1>1. \A s \in Sends : ProofOf(s) # None
  BY ProofsAssumption DEF ProofOf, Proofs, Txs
<1> QED BY <1>1 DEF RecordOK, SendRecord

\* So does what the holder has established.
LEMMA ReachedLasts ==
    ASSUME NEW sl, NEW later, \A i \in Slots : sl[i] # None => later[i] = sl[i],
           NEW x \in Ops, NEW stored, NEW rec, rec.slot \in Slots, NEW step,
           Reached(sl, x, stored, rec, step)
    PROVE  Reached(later, x, stored, rec, step)
<1>1. \A s \in Sends : ProofOf(s) # None
  BY ProofsAssumption DEF ProofOf, Proofs, Txs
<1> QED BY <1>1 DEF Reached

\* A record is a later version of itself.
LEMMA GrowsFromItself ==
    ASSUME NEW rec
    PROVE  Grows(rec, rec)
BY DEF Grows

\* The stored records keep their claims while they are not written.
LEMMA StoredLast ==
    ASSUME IInv, StoredOK, SlotsKept, ops' = ops
    PROVE  StoredOK' /\ OpsGrow
<1>1. \A y \in Ops : Exists(y) => ops[y].slot \in Slots
  BY DEF IInv, Core, RecordsSound, Sound
<1>2. \A y \in Ops : Exists(y) => RecordOK(slots', y, ops[y])
  BY <1>1, ClaimsLast DEF StoredOK, SlotsKept
<1>3. StoredOK'
  BY <1>2 DEF StoredOK, Exists
<1> QED BY <1>3, GrowsFromItself DEF OpsGrow, Exists

\* A step that leaves the records and the holder alone.
LEMMA RecordsUnchanged ==
    ASSUME IInv, RInv, SlotsKept, UNCHANGED <<ops, lock, work, pc>>
    PROVE  RInv' /\ OpsGrow
<1>1. StoredOK' /\ OpsGrow
  BY StoredLast DEF RInv
<1>2. HolderOK'
  <2> SUFFICES ASSUME lock # None
               PROVE  /\ RecordOK(slots', lock, work)
                      /\ Grows(ops[lock], work)
                      /\ Reached(slots', lock, ops[lock], work, pc)
    BY DEF HolderOK
  <2>1. lock \in Ops /\ work.slot \in Slots
    BY HolderKnows DEF IInv, TypeOK
  <2> QED BY <2>1, ClaimsLast, ReachedLasts DEF RInv, HolderOK, SlotsKept
<1> QED BY <1>1, <1>2 DEF RInv

\* A step of the holder that commits nothing.
LEMMA HolderMovesOn ==
    ASSUME IInv, RInv, NEW x \in Ops, lock = x, SlotsKept, UNCHANGED <<ops, lock>>,
           RecordOK(slots', x, work'), Grows(ops[x], work'),
           Reached(slots', x, ops[x], work', pc')
    PROVE  RInv' /\ OpsGrow
<1>1. StoredOK' /\ OpsGrow
  BY StoredLast DEF RInv
<1>2. HolderOK'
  BY DEF HolderOK
<1> QED BY <1>1, <1>2 DEF RInv

\* A record that is written keeps the store in order if it makes good what it
\* claims and is a later version of the one it replaces.
LEMMA StoredWritten ==
    ASSUME IInv, StoredOK, SlotsKept, NEW x \in Ops, NEW rec,
           rec.status # "absent", RecordOK(slots', x, rec),
           Exists(x) => Grows(ops[x], rec),
           ops' = [ops EXCEPT ![x] = rec]
    PROVE  StoredOK' /\ OpsGrow
<1>1. \A y \in Ops : ops'[y] = IF y = x THEN rec ELSE ops[y]
  BY DEF IInv, TypeOK
<1>2. \A y \in Ops : Exists(y) => ops[y].slot \in Slots
  BY DEF IInv, Core, RecordsSound, Sound
<1>3. \A y \in Ops : Exists(y) => RecordOK(slots', y, ops[y])
  BY <1>2, ClaimsLast DEF StoredOK, SlotsKept
<1>4. StoredOK'
  BY <1>1, <1>3 DEF StoredOK, Exists
<1> QED BY <1>1, <1>4, GrowsFromItself DEF OpsGrow, Exists

\* A step of the holder that commits its record and goes on.
LEMMA HolderWrites ==
    ASSUME IInv, RInv, NEW x \in Ops, lock = x, SlotsKept, NEW rec, NEW step,
           rec.status # "absent", RecordOK(slots', x, rec), Grows(ops[x], rec),
           Reached(slots', x, rec, rec, step), SaveAndGo(x, rec, step)
    PROVE  RInv' /\ OpsGrow
<1>1. StoredOK' /\ OpsGrow
  BY StoredWritten DEF RInv, SaveAndGo, save
<1>2. ops'[x] = rec /\ work' = rec /\ pc' = step /\ lock' = x
  BY DEF SaveAndGo, save, Goto, IInv, TypeOK
<1>3. HolderOK'
  BY <1>2, GrowsFromItself DEF HolderOK
<1> QED BY <1>1, <1>3 DEF RInv

\* A record that is written while nobody goes on with it.
LEMMA NobodyHolds ==
    ASSUME StoredOK', OpsGrow, lock' = None
    PROVE  RInv' /\ OpsGrow
BY DEF RInv, HolderOK

-----------------------------------------------------------------------------
(* Requests and the scanner.                                               *)

\* What the holder of the lock starts from.
LEMMA HolderStarts ==
    ASSUME IInv, RInv, NEW x \in Ops, lock = x
    PROVE  /\ work \in Records /\ work.slot \in Slots /\ work.status # "absent"
           /\ Exists(x) /\ ops[x] \in Records
           /\ RecordOK(slots, x, work) /\ Grows(ops[x], work)
           /\ Reached(slots, x, ops[x], work, pc)
<1>1. x # None
  BY IdsAssumption
<1> QED BY <1>1, HolderKnows DEF RInv, HolderOK, Sound, IInv, TypeOK

\* A new invoice claims nothing yet.
LEMMA ReceiveKeepsRecords ==
    ASSUME IInv, RInv, NEW r \in Receives, NEW blind \in Outpoints \cup {None},
           Receive(r, blind)
    PROVE  RInv' /\ OpsGrow
<1> DEFINE rec == [Absent EXCEPT !.status = "awaiting_transfer",
                                 !.slot = recipient(r, blind),
                                 !.outpoint = blind,
                                 !.inputs = {blind} \ {None}]
<1>1. r \in Ops /\ r \notin Sends /\ ~Exists(r)
  BY IdsAssumption DEF Ops, Receive, new_record
<1>2. /\ ops' = [ops EXCEPT ![r] = rec] /\ lock = None
      /\ UNCHANGED <<lock, work, pc, slots>>
  BY DEF Receive, new_record, save_reserving, holder, proxy
<1>3. rec.status # "absent" /\ RecordOK(slots', r, rec)
  BY <1>1 DEF RecordOK, ReceiveRecord, IsBlind, Absent
<1>4. SlotsKept
  BY <1>2 DEF SlotsKept
<1>5. StoredOK' /\ OpsGrow
  BY <1>1, <1>2, <1>3, <1>4, StoredWritten DEF RInv
<1> QED BY <1>2, <1>5, NobodyHolds

\* A new send has handed out no PSBT yet.
LEMMA PrepareKeepsRecords ==
    ASSUME IInv, RInv, NEW s \in Sends, NEW inputs \in SUBSET Outpoints, NEW slot \in Slots,
           Prepare(s, inputs, slot)
    PROVE  RInv' /\ OpsGrow
<1> DEFINE rec == [Absent EXCEPT !.status = "preparing", !.inputs = inputs, !.slot = slot]
<1>1. s \in Ops /\ s \notin Receives /\ ~Exists(s)
  BY IdsAssumption DEF Ops, Prepare, new_record
<1>2. /\ ops' = [ops EXCEPT ![s] = rec]
      /\ lock' = s /\ work' = rec /\ pc' = "finish" /\ slots' = slots
  BY DEF Prepare, save_reserving, proxy
<1>3. rec.status # "absent" /\ RecordOK(slots', s, rec)
  BY <1>1 DEF RecordOK, SendRecord, Absent
<1>4. SlotsKept
  BY <1>2 DEF SlotsKept
<1>5. StoredOK' /\ OpsGrow
  BY <1>1, <1>2, <1>3, <1>4, StoredWritten DEF RInv
<1>6. ops'[s] = rec
  BY <1>1, <1>2 DEF IInv, TypeOK
<1>7. Reached(slots', s, rec, rec, "finish")
  BY <1>1 DEF Reached, Sent, Absent
<1>8. HolderOK'
  BY <1>2, <1>3, <1>6, <1>7, GrowsFromItself DEF HolderOK
<1> QED BY <1>5, <1>8 DEF RInv

\* The signature is stored for a PSBT that was handed out.
LEMMA FinalizeKeepsRecords ==
    ASSUME IInv, RInv, NEW s \in Sends, Finalize(s)
    PROVE  RInv' /\ OpsGrow
<1> DEFINE rec == [ops[s] EXCEPT !.signed = TRUE, !.status = "delivering"]
<1>1. s \in Ops /\ s \notin Receives /\ Exists(s) /\ ops[s] \in Records
  BY IdsAssumption DEF Ops, Finalize, Exists, IInv, TypeOK
<1>2. ops' = [ops EXCEPT ![s] = rec] /\ lock' = None /\ slots' = slots
  BY DEF Finalize, save, holder, proxy
<1>3. RecordOK(slots, s, ops[s]) /\ ops[s].status = "awaiting_signature"
  BY <1>1 DEF RInv, StoredOK, Finalize
<1>4. rec.status # "absent" /\ RecordOK(slots', s, rec)
  BY <1>1, <1>2, <1>3 DEF RecordOK, SendRecord, Records
<1>5. Grows(ops[s], rec)
  BY <1>1, <1>3 DEF Grows, Records
<1>6. SlotsKept
  BY <1>2 DEF SlotsKept
<1>7. StoredOK' /\ OpsGrow
  BY <1>1, <1>2, <1>4, <1>5, <1>6, StoredWritten DEF RInv
<1> QED BY <1>2, <1>7, NobodyHolds

\* Only an invoice without a payment is cancelled, so never one that has been
\* settled or put under review.
LEMMA CancelKeepsRecords ==
    ASSUME IInv, RInv, NEW x \in Ops, Cancel(x)
    PROVE  RInv' /\ OpsGrow
<1> DEFINE rec == [ops[x] EXCEPT !.status = "cancelled"]
<1>1. /\ x \in Receives /\ x \notin Sends /\ Exists(x) /\ ops[x] \in Records
      /\ ops[x].proof = None
  BY IdsAssumption DEF Cancel, IInv, TypeOK
<1>2. ops' = [ops EXCEPT ![x] = rec] /\ lock' = None /\ slots' = slots
  BY DEF Cancel, save, holder, proxy
<1>3. RecordOK(slots, x, ops[x]) /\ Sound(x, ops[x])
  BY <1>1 DEF RInv, StoredOK, IInv, Core, RecordsSound
<1>4. rec.status # "absent" /\ RecordOK(slots', x, rec)
  BY <1>1, <1>2, <1>3 DEF RecordOK, ReceiveRecord, IsBlind, Records
<1>5. Grows(ops[x], rec)
  BY <1>1, <1>3 DEF Grows, Records, RecordOK, ReceiveRecord, Sound
<1>6. SlotsKept
  BY <1>2 DEF SlotsKept
<1>7. StoredOK' /\ OpsGrow
  BY <1>1, <1>2, <1>4, <1>5, <1>6, StoredWritten DEF RInv
<1> QED BY <1>2, <1>7, NobodyHolds

\* The scanner picks an operation up at a step its record has reached.
LEMMA ScanKeepsRecords ==
    ASSUME IInv, RInv, NEW x \in Ops, Scan(x)
    PROVE  RInv' /\ OpsGrow
<1>1. /\ ops' = ops /\ lock' = x /\ work' = ops[x] /\ pc' = advance(x) /\ slots' = slots
      /\ Exists(x) /\ ops[x].status \notin {"needs_review", "awaiting_signature"}
  BY DEF Scan, Scannable, Exists, durable, proxy
<1>2. SlotsKept
  BY <1>1 DEF SlotsKept
<1>3. StoredOK' /\ OpsGrow
  BY <1>1, <1>2, StoredLast DEF RInv
<1>4. RecordOK(slots, x, ops[x]) /\ ops[x] \in Records
  BY <1>1 DEF RInv, StoredOK, IInv, TypeOK
<1>5. ASSUME x \in Sends
      PROVE  Reached(slots, x, ops[x], ops[x], advance(x))
  BY <1>1, <1>4, <1>5, IdsAssumption
     DEF Reached, RecordOK, SendRecord, Records, advance, send_entry, Sent
<1>6. ASSUME x \in Receives
      PROVE  Reached(slots, x, ops[x], ops[x], advance(x))
  BY <1>1, <1>4, <1>6, IdsAssumption
     DEF Reached, RecordOK, ReceiveRecord, Records, advance, receive_entry, Checked
<1>7. HolderOK'
  BY <1>1, <1>4, <1>5, <1>6, GrowsFromItself DEF HolderOK, Ops
<1> QED BY <1>3, <1>7 DEF RInv

\* The save that ends a scan writes what the holder has established.
LEMMA ScanSaveKeepsRecords ==
    ASSUME IInv, RInv, NEW x \in Ops, ScanSave(x)
    PROVE  RInv' /\ OpsGrow
<1>1. /\ lock = x /\ ops' = [ops EXCEPT ![x] = work] /\ lock' = None /\ slots' = slots
  BY DEF ScanSave, At, save, Release, proxy
<1>2. SlotsKept
  BY <1>1 DEF SlotsKept
<1>3. StoredOK' /\ OpsGrow
  BY <1>1, <1>2, HolderStarts, StoredWritten DEF RInv
<1> QED BY <1>1, <1>3, NobodyHolds

\* A crash loses only the holder's copy.
LEMMA CrashKeepsRecords ==
    ASSUME IInv, RInv, Crash
    PROVE  RInv' /\ OpsGrow
<1>1. ops' = ops /\ lock' = None /\ SlotsKept
  BY DEF Crash, Release, durable, proxy, SlotsKept
<1> QED BY <1>1, StoredLast, NobodyHolds DEF RInv

-----------------------------------------------------------------------------
(* Calls.                                                                  *)

\* Giving up is always possible: the last save needs nothing more.
LEMMA MayGiveUp ==
    ASSUME NEW sl, NEW x, NEW stored, NEW rec, NEW step, Reached(sl, x, stored, rec, step)
    PROVE  Reached(sl, x, stored, rec, "save")
BY DEF Reached, Sent, Checked

\* The answer read from the proxy changes no other claim of a record.
LEMMA AnswerRead ==
    ASSUME NEW sl, NEW x \in Ops, NEW stored, NEW rec \in Records, NEW v,
           RecordOK(sl, x, rec), Grows(stored, rec)
    PROVE  /\ RecordOK(sl, x, [rec EXCEPT !.ack = v])
           /\ Grows(stored, [rec EXCEPT !.ack = v])
           /\ \A step : Reached(sl, x, stored, rec, step)
                          => Reached(sl, x, stored, [rec EXCEPT !.ack = v], step)
<1> DEFINE new == [rec EXCEPT !.ack = v]
<1>1. /\ new.status = rec.status /\ new.inputs = rec.inputs /\ new.moves = rec.moves
      /\ new.slot = rec.slot /\ new.signed = rec.signed /\ new.delivery = rec.delivery
      /\ new.broadcast = rec.broadcast /\ new.proof = rec.proof
      /\ new.outpoint = rec.outpoint /\ new.quarantine = rec.quarantine
  BY DEF Records
<1> HIDE DEF new
<1>2. RecordOK(sl, x, new)
  BY <1>1 DEF RecordOK, SendRecord, ReceiveRecord, IsBlind
<1>3. Grows(stored, new)
  BY <1>1 DEF Grows
<1>4. \A step : Reached(sl, x, stored, rec, step) => Reached(sl, x, stored, new, step)
  BY <1>1 DEF Reached
<1> QED BY <1>2, <1>3, <1>4 DEF new

\* A failed call sends the holder to its last save with the record it has.
LEMMA CallFailsKeepsRecords ==
    ASSUME IInv, RInv, NEW x \in Ops, CallFails(x)
    PROVE  RInv' /\ OpsGrow
<1>1. /\ lock = x /\ UNCHANGED <<ops, lock, work, slots>> /\ pc' = "save"
  BY DEF CallFails, Goto, durable, proxy
<1>2. SlotsKept
  BY <1>1 DEF SlotsKept
<1>3. Reached(slots, x, ops[x], work, "save")
  BY <1>1, HolderStarts, MayGiveUp
<1> QED BY <1>1, <1>2, <1>3, HolderStarts, HolderMovesOn

\* A stored consignment is never replaced.
LEMMA StoredKeepsSlots ==
    ASSUME TypeOK, NEW i \in Slots, NEW p, slots' = Stored(i, p)
    PROVE  SlotsKept /\ (slots'[i] = p \/ slots[i] # None)
BY DEF SlotsKept, Stored, TypeOK

\* A lost reply leaves a delivery, a broadcast or an answer behind, and the
\* record as it was.
LEMMA ReplyLostKeepsRecords ==
    ASSUME IInv, RInv, NEW x \in Ops, ReplyLost(x)
    PROVE  RInv' /\ OpsGrow
<1>1. lock = x /\ UNCHANGED <<ops, lock>> /\ pc' = "save"
  BY DEF ReplyLost, Goto, durable
<1>2. work.slot \in Slots /\ TypeOK
  BY <1>1, HolderStarts DEF IInv
<1>3. SlotsKept
  <2>1. slots' = slots \/ slots' = Stored(work.slot, work.proof)
    BY DEF ReplyLost, proxy
  <2> QED BY <1>2, <2>1, StoredKeepsSlots DEF SlotsKept
<1>4. work' = work \/ work' = [work EXCEPT !.ack = acks[work.slot]]
  BY DEF ReplyLost
<1>5. /\ RecordOK(slots, x, work') /\ Grows(ops[x], work')
      /\ Reached(slots, x, ops[x], work', "save")
  BY <1>1, <1>4, HolderStarts, AnswerRead, MayGiveUp
<1>6. work'.slot \in Slots
  BY <1>2, <1>5, HolderStarts, <1>1, <1>4 DEF Records
<1>7. RecordOK(slots', x, work') /\ Reached(slots', x, ops[x], work', "save")
  BY <1>3, <1>5, <1>6, ClaimsLast, ReachedLasts DEF SlotsKept
<1> QED BY <1>1, <1>3, <1>5, <1>7, HolderMovesOn

-----------------------------------------------------------------------------
(* advance_send                                                            *)

\* Every step of advance_send establishes what its successor relies on: the
\* proof is in the slot before delivery is recorded, delivery and the doubt
\* about the broadcast are recorded before the chain server is called.
LEMMA SendStepKeepsRecords ==
    ASSUME IInv, RInv, NEW s \in Sends, SendStep(s)
    PROVE  RInv' /\ OpsGrow
<1>0. s \in Ops /\ s \notin Receives /\ TypeOK
  BY IdsAssumption DEF Ops, IInv
<1>1. lock = s
  BY DEF SendStep, At, finish_preparation, upload, SaveDelivered, MarkUnknown,
         broadcast, SaveBroadcast, Observe, stage_sender_fascia, Promote, MarkPromoted
<1>2. /\ work \in Records /\ work.slot \in Slots /\ work.status # "absent"
      /\ ops[s] \in Records
      /\ RecordOK(slots, s, work) /\ Grows(ops[s], work)
      /\ Reached(slots, s, ops[s], work, pc)
  BY <1>0, <1>1, HolderStarts
<1>3. ASSUME NEW rec, NEW step, rec.status # "absent", RecordOK(slots, s, rec),
             Grows(ops[s], rec), Reached(slots, s, rec, rec, step),
             SaveAndGo(s, rec, step), UNCHANGED proxy
      PROVE  RInv' /\ OpsGrow
  <2>1. slots' = slots /\ SlotsKept
    BY <1>3 DEF proxy, SlotsKept
  <2> QED BY <1>0, <1>1, <1>3, <2>1, HolderWrites
<1>4. ASSUME UNCHANGED <<ops, lock, slots>>,
             work' = work \/ work' = [work EXCEPT !.ack = acks[work.slot]],
             Reached(slots, s, ops[s], work, pc')
      PROVE  RInv' /\ OpsGrow
  <2>1. SlotsKept
    BY <1>4 DEF SlotsKept
  <2>2. /\ RecordOK(slots, s, work') /\ Grows(ops[s], work')
        /\ Reached(slots, s, ops[s], work', pc')
    BY <1>0, <1>2, <1>4, AnswerRead
  <2> QED BY <1>0, <1>1, <1>4, <2>1, <2>2, HolderMovesOn
<1>5. CASE finish_preparation(s)
  <2> DEFINE rec == [work EXCEPT !.status = "awaiting_signature",
                                 !.moves = work.inputs \cap alloc,
                                 !.proof = ProofOf(s)]
  <2>0. pc = "finish" /\ work.status = "preparing" /\ UNCHANGED proxy
    BY <1>0, <1>2, <1>5 DEF finish_preparation, At, Reached
  <2>1. CASE SaveAndGo(s, rec, "save")
    <3>1. /\ rec.status = "awaiting_signature" /\ rec.proof = ProofOf(s)
          /\ rec.moves = work.inputs \cap alloc /\ rec.inputs = work.inputs
          /\ rec.slot = work.slot /\ rec.signed = work.signed
          /\ rec.delivery = work.delivery /\ rec.broadcast = work.broadcast
      BY <1>2 DEF Records
    <3>2. RecordOK(slots, s, rec)
      BY <1>0, <1>2, <3>1, ProofsAssumption DEF RecordOK, SendRecord, ProofOf, Proofs, Txs
    <3>3. ops[s].proof = None
      BY <1>0, <1>2, <2>0 DEF Grows, RecordOK, SendRecord
    <3>4. Grows(ops[s], rec)
      BY <1>2, <2>0, <3>1, <3>3 DEF Grows
    <3>5. Reached(slots, s, rec, rec, "save") /\ rec.status # "absent"
      BY <1>0, <3>1 DEF Reached, Sent
    <3> QED BY <1>3, <2>0, <2>1, <3>2, <3>4, <3>5
  <2>2. CASE Goto("save") /\ UNCHANGED <<durable, work>>
    BY <1>2, <1>4, <2>0, <2>2, MayGiveUp DEF Goto, durable, proxy
  <2> QED BY <1>5, <2>1, <2>2 DEF finish_preparation
<1>6. CASE SaveDelivered(s)
  <2> DEFINE rec == [work EXCEPT !.delivery = "delivered"]
  <2>0. pc = "save_delivered" /\ UNCHANGED proxy /\ SaveAndGo(s, rec, "mark_unknown")
    BY <1>6 DEF SaveDelivered, At
  <2>1. /\ rec.status = work.status /\ rec.proof = work.proof
        /\ rec.moves = work.moves /\ rec.inputs = work.inputs
        /\ rec.slot = work.slot /\ rec.signed = work.signed
        /\ rec.delivery = "delivered" /\ rec.broadcast = work.broadcast
    BY <1>2 DEF Records
  <2>2. work.signed /\ slots[work.slot] = ProofOf(s)
    BY <1>0, <1>2, <2>0 DEF Reached
  <2>3. RecordOK(slots, s, rec)
    BY <1>0, <1>2, <2>1, <2>2 DEF RecordOK, SendRecord
  <2>4. Grows(ops[s], rec)
    <3>1. ops[s].delivery # "not_started" => ops[s].delivery = "delivered"
      BY <1>0, <1>2 DEF Grows, RecordOK, SendRecord, Records
    <3> QED BY <1>2, <2>1, <3>1 DEF Grows
  <2>5. Reached(slots, s, rec, rec, "mark_unknown")
    BY <1>0, <1>2, <2>0, <2>1 DEF Reached, Sent
  <2> QED BY <1>2, <1>3, <2>0, <2>1, <2>3, <2>4, <2>5
<1>7. CASE MarkUnknown(s)
  <2> DEFINE rec == [work EXCEPT !.broadcast = "unknown"]
  <2>0. pc = "mark_unknown" /\ UNCHANGED proxy /\ SaveAndGo(s, rec, "broadcast")
    BY <1>7 DEF MarkUnknown, At
  <2>1. /\ rec.status = work.status /\ rec.proof = work.proof
        /\ rec.moves = work.moves /\ rec.inputs = work.inputs
        /\ rec.slot = work.slot /\ rec.signed = work.signed
        /\ rec.delivery = work.delivery /\ rec.broadcast = "unknown"
    BY <1>2 DEF Records
  <2>2. work.delivery = "delivered"
    BY <1>0, <1>2, <2>0 DEF Reached, Sent
  <2>3. RecordOK(slots, s, rec)
    BY <1>0, <1>2, <2>1, <2>2 DEF RecordOK, SendRecord
  <2>4. Grows(ops[s], rec)
    BY <1>2, <2>1 DEF Grows
  <2>5. Reached(slots, s, rec, rec, "broadcast")
    BY <1>0, <1>2, <2>0, <2>1, <2>2 DEF Reached, Sent
  <2> QED BY <1>2, <1>3, <2>0, <2>1, <2>3, <2>4, <2>5
<1>8. CASE SaveBroadcast(s)
  <2> DEFINE rec == [work EXCEPT !.broadcast = "broadcast",
                                 !.status = "waiting_confirmations"]
  <2>0. pc = "save_broadcast" /\ UNCHANGED proxy /\ SaveAndGo(s, rec, "observe")
    BY <1>8 DEF SaveBroadcast, At
  <2>1. /\ rec.status = "waiting_confirmations" /\ rec.proof = work.proof
        /\ rec.moves = work.moves /\ rec.inputs = work.inputs
        /\ rec.slot = work.slot /\ rec.signed = work.signed
        /\ rec.delivery = work.delivery /\ rec.broadcast = "broadcast"
    BY <1>2 DEF Records
  <2>2. work.delivery = "delivered" /\ work.status \notin {"needs_review", "settled", "cancelled"}
    BY <1>0, <1>2, <2>0 DEF Reached, Sent
  <2>3. RecordOK(slots, s, rec)
    BY <1>0, <1>2, <2>1, <2>2 DEF RecordOK, SendRecord
  <2>4. Grows(ops[s], rec)
    BY <1>2, <2>1, <2>2 DEF Grows
  <2>5. Reached(slots, s, rec, rec, "observe")
    BY <1>0, <2>1, <2>2 DEF Reached, Sent
  <2> QED BY <1>3, <2>0, <2>1, <2>3, <2>4, <2>5
<1>9. CASE upload(s)
  <2>0. /\ pc = "upload" /\ UNCHANGED <<ops, lock, work>>
        /\ slots' = Stored(work.slot, work.proof)
        /\ pc' = IF slots'[work.slot] = work.proof THEN "save_delivered" ELSE "save"
    BY <1>9 DEF upload, At, Goto, durable
  <2>1. SlotsKept
    BY <1>0, <1>2, <2>0, StoredKeepsSlots
  <2>2. RecordOK(slots', s, work) /\ Reached(slots', s, ops[s], work, "upload")
    BY <1>0, <1>2, <2>0, <2>1, ClaimsLast, ReachedLasts DEF SlotsKept
  <2>3. work.signed /\ work.proof = ProofOf(s)
    BY <1>0, <2>0, <2>2 DEF Reached, RecordOK, SendRecord
  <2>4. Reached(slots', s, ops[s], work, pc')
    BY <1>0, <2>0, <2>2, <2>3 DEF Reached, Sent
  <2> QED BY <1>0, <1>1, <1>2, <2>0, <2>1, <2>2, <2>4, HolderMovesOn
<1>10. CASE broadcast(s)
  <2>0. /\ pc = "broadcast" /\ UNCHANGED <<ops, lock, work, slots>>
        /\ pc' \in {"save_broadcast", "save"}
    BY <1>10 DEF broadcast, At, Goto, durable, proxy
  <2>1. Reached(slots, s, ops[s], work, pc')
    BY <1>0, <1>2, <2>0 DEF Reached, Sent
  <2> QED BY <1>4, <2>0, <2>1
<1>11. ASSUME pc \in Sent, UNCHANGED <<ops, lock, slots>>,
              work' = work \/ work' = [work EXCEPT !.ack = acks[work.slot]],
              pc' \in {"save", "credit", "stage", "replay", "mark_promoted"}
       PROVE  RInv' /\ OpsGrow
  <2>1. Reached(slots, s, ops[s], work, pc')
    BY <1>0, <1>2, <1>11 DEF Reached, Sent
  <2> QED BY <1>4, <1>11, <2>1
<1>12. CASE Observe(s)
  BY <1>11, <1>12 DEF Observe, At, Goto, durable, proxy, Sent
<1>13. CASE stage_sender_fascia(s)
  BY <1>11, <1>13 DEF stage_sender_fascia, At, Goto, proxy, Sent
<1>14. CASE Promote(s)
  BY <1>11, <1>14 DEF Promote, replay_pending, At, Goto, durable, proxy, Sent
<1>15. CASE MarkPromoted(s)
  BY <1>11, <1>15 DEF MarkPromoted, mark_promoted, At, Goto, proxy, Sent
<1> QED BY <1>5, <1>6, <1>7, <1>8, <1>9, <1>10, <1>12, <1>13, <1>14, <1>15 DEF SendStep

-----------------------------------------------------------------------------
(* advance_receive                                                         *)

\* A payment is recorded once; one that comes late is reviewed, not credited.
LEMMA FetchKeepsRecords ==
    ASSUME IInv, RInv, NEW r \in Receives, Fetch(r)
    PROVE  RInv' /\ OpsGrow
<1> DEFINE p == slots[work.slot]
           detected == [work EXCEPT !.proof = p,
                                    !.outpoint = IF IsBlind(work) THEN @ ELSE Paid(p.tx)]
           late == r \in expired \/ work.status = "cancelled"
<1>0. r \in Ops /\ r \notin Sends /\ lock = r /\ pc = "fetch" /\ slots' = slots
  BY IdsAssumption DEF Ops, Fetch, At, proxy
<1>1. /\ work \in Records /\ work.slot \in Slots /\ work.status # "absent"
      /\ ops[r] \in Records
      /\ RecordOK(slots, r, work) /\ Grows(ops[r], work)
      /\ Reached(slots, r, ops[r], work, "fetch")
  BY <1>0, HolderStarts
<1>2. SlotsKept
  BY <1>0 DEF SlotsKept
<1>3. /\ work.proof = None /\ ops[r].proof = None
      /\ work.status \notin {"needs_review", "settled"}
      /\ work.delivery = "not_started" /\ ops[r].delivery = "not_started"
  <2>1. work.proof = None /\ work.status \notin {"needs_review", "settled"}
    BY <1>0, <1>1 DEF Reached
  <2>2. ops[r].proof = None
    BY <1>1, <2>1 DEF Grows
  <2>3. work.delivery = "not_started"
    BY <1>0, <1>1, <2>1 DEF RecordOK, ReceiveRecord, Records
  <2>4. ops[r].delivery = "not_started"
    BY <1>1, <2>3 DEF Grows
  <2> QED BY <2>1, <2>2, <2>3, <2>4
<1>4. CASE Goto("save") /\ UNCHANGED <<durable, work>>
  <2>1. Reached(slots, r, ops[r], work, "save")
    BY <1>1, MayGiveUp
  <2> QED BY <1>0, <1>1, <1>2, <1>4, <2>1, HolderMovesOn DEF Goto, durable
<1>5. CASE /\ p # None /\ ~IsBlind(work)
           /\ work' = [work EXCEPT !.proof = p]
           /\ Goto("save") /\ UNCHANGED durable
  <2> DEFINE new == [work EXCEPT !.proof = p]
  <2>1. /\ new.status = work.status /\ new.proof = p /\ new.outpoint = work.outpoint
        /\ new.moves = work.moves /\ new.inputs = work.inputs /\ new.slot = work.slot
        /\ new.signed = work.signed /\ new.delivery = work.delivery
        /\ new.broadcast = work.broadcast /\ new.quarantine = work.quarantine
    BY <1>1 DEF Records
  <2>2. work.outpoint = None
    BY <1>0, <1>1, <1>3, <1>5 DEF RecordOK, ReceiveRecord
  <2>3. RecordOK(slots, r, new)
    BY <1>0, <1>3, <1>5, <2>1, <2>2 DEF RecordOK, ReceiveRecord
  <2>4. Grows(ops[r], new)
    BY <1>1, <1>3, <2>1 DEF Grows
  <2>5. Reached(slots, r, ops[r], new, "save")
    BY <1>0, <1>1, <2>1 DEF Reached, Checked
  <2> QED BY <1>0, <1>2, <1>5, <2>3, <2>4, <2>5, HolderMovesOn DEF Goto, durable
<1>6. ASSUME p # None, NEW status, NEW step,
             \/ status = "needs_review" /\ step = "save"
             \/ status = "validating" /\ step = "validate" /\ ~late,
             SaveAndGo(r, [detected EXCEPT !.status = status], step)
      PROVE  RInv' /\ OpsGrow
  <2> DEFINE rec == [detected EXCEPT !.status = status]
  <2>1. /\ rec.status = status /\ rec.proof = p
        /\ rec.moves = work.moves /\ rec.inputs = work.inputs /\ rec.slot = work.slot
        /\ rec.signed = work.signed /\ rec.delivery = work.delivery
        /\ rec.broadcast = work.broadcast /\ rec.quarantine = work.quarantine
    BY <1>1 DEF Records
  <2>2. RecordOK(slots, r, rec) /\ rec.status # "absent"
    BY <1>0, <1>3, <1>6, <2>1 DEF RecordOK, ReceiveRecord
  <2>3. Grows(ops[r], rec)
    BY <1>1, <1>3, <1>6, <2>1 DEF Grows
  <2>4. Reached(slots, r, rec, rec, step)
    BY <1>0, <1>6, <2>1 DEF Reached, Checked
  <2> QED BY <1>0, <1>2, <1>6, <2>2, <2>3, <2>4, HolderWrites
<1> QED BY <1>4, <1>5, <1>6, ReadableIsStored DEF Fetch

\* A verdict is written before anything is answered.
LEMMA ValidateKeepsRecords ==
    ASSUME IInv, RInv, NEW r \in Receives, Validate(r)
    PROVE  RInv' /\ OpsGrow
<1>0. r \in Ops /\ r \notin Sends /\ lock = r /\ pc = "validate" /\ slots' = slots
  BY IdsAssumption DEF Ops, Validate, At, proxy
<1>1. /\ work \in Records /\ work.slot \in Slots
      /\ ops[r] \in Records
      /\ RecordOK(slots, r, work) /\ Grows(ops[r], work)
      /\ Reached(slots, r, ops[r], work, "validate")
  BY <1>0, HolderStarts
<1>2. SlotsKept
  BY <1>0 DEF SlotsKept
<1>3. /\ work.proof # None /\ work.status = "validating"
      /\ work.delivery = "not_started" /\ ops[r].delivery = "not_started"
  <2>1. work.proof # None
    BY <1>0, HolderKnows DEF Fits, WithProof
  <2>2. work.status = "validating"
    BY <1>0, <1>1 DEF Reached
  <2>3. work.delivery = "not_started"
    BY <1>0, <1>1, <2>2 DEF RecordOK, ReceiveRecord, Records
  <2>4. ops[r].delivery = "not_started"
    BY <1>1, <2>3 DEF Grows
  <2> QED BY <2>1, <2>2, <2>3, <2>4
<1>4. CASE Goto("save") /\ UNCHANGED <<durable, work>>
  <2>1. Reached(slots, r, ops[r], work, "save")
    BY <1>1, MayGiveUp
  <2> QED BY <1>0, <1>1, <1>2, <1>4, <2>1, HolderMovesOn DEF Goto, durable
<1>5. CASE SaveAndGo(r, [work EXCEPT !.status = "needs_review"], "nack")
  <2> DEFINE rec == [work EXCEPT !.status = "needs_review"]
  <2>1. /\ rec.status = "needs_review" /\ rec.proof = work.proof
        /\ rec.moves = work.moves /\ rec.slot = work.slot
        /\ rec.signed = work.signed /\ rec.delivery = work.delivery
        /\ rec.broadcast = work.broadcast
    BY <1>1 DEF Records
  <2>2. RecordOK(slots, r, rec) /\ rec.status # "absent"
    BY <1>0, <1>3, <2>1 DEF RecordOK, ReceiveRecord
  <2>3. Grows(ops[r], rec)
    BY <1>1, <1>3, <2>1 DEF Grows
  <2>4. Reached(slots, r, rec, rec, "nack")
    BY <1>0, <2>1 DEF Reached, Checked
  <2> QED BY <1>0, <1>2, <1>5, <2>2, <2>3, <2>4, HolderWrites
<1>6. CASE SaveAndGo(r, [work EXCEPT !.status = "waiting_confirmations",
                                     !.delivery = "validated"], "post_ack")
  <2> DEFINE rec == [work EXCEPT !.status = "waiting_confirmations",
                                 !.delivery = "validated"]
  <2>1. /\ rec.status = "waiting_confirmations" /\ rec.proof = work.proof
        /\ rec.moves = work.moves /\ rec.slot = work.slot
        /\ rec.signed = work.signed /\ rec.delivery = "validated"
        /\ rec.broadcast = work.broadcast
    BY <1>1 DEF Records
  <2>2. RecordOK(slots, r, rec) /\ rec.status # "absent"
    BY <1>0, <1>3, <2>1 DEF RecordOK, ReceiveRecord
  <2>3. Grows(ops[r], rec)
    BY <1>1, <1>3, <2>1 DEF Grows
  <2>4. Reached(slots, r, rec, rec, "post_ack")
    BY <1>0, <2>1 DEF Reached, Checked
  <2> QED BY <1>0, <1>2, <1>6, <2>2, <2>3, <2>4, HolderWrites
<1> QED BY <1>4, <1>5, <1>6 DEF Validate

\* Every step of advance_receive before credit.
LEMMA ReceiveStepKeepsRecords ==
    ASSUME IInv, RInv, NEW r \in Receives, ReceiveStep(r)
    PROVE  RInv' /\ OpsGrow
<1>0. r \in Ops /\ r \notin Sends
  BY IdsAssumption DEF Ops
<1>1. CASE Fetch(r)
  BY <1>1, FetchKeepsRecords
<1>2. CASE Validate(r)
  BY <1>2, ValidateKeepsRecords
<1>3. ASSUME lock = r, UNCHANGED <<ops, lock, work, slots>>,
             \/ pc' = "save"
             \/ pc \in Checked /\ pc' \in Checked
      PROVE  RInv' /\ OpsGrow
  <2>1. SlotsKept
    BY <1>3 DEF SlotsKept
  <2>2. /\ RecordOK(slots, r, work) /\ Grows(ops[r], work)
        /\ Reached(slots, r, ops[r], work, pc)
    BY <1>0, <1>3, HolderStarts
  <2>3. Reached(slots, r, ops[r], work, pc')
    BY <1>0, <1>3, <2>2, MayGiveUp DEF Reached, Checked
  <2> QED BY <1>0, <1>3, <2>1, <2>2, <2>3, HolderMovesOn
<1>4. CASE PostNack(r)
  BY <1>3, <1>4 DEF PostNack, At, Goto, durable
<1>5. CASE PostAck(r)
  BY <1>3, <1>5 DEF PostAck, At, Goto, durable, Checked
<1>6. CASE Confirm(r)
  BY <1>3, <1>6 DEF Confirm, At, Goto, durable, proxy, Checked
<1>7. CASE Accept(r)
  BY <1>3, <1>7 DEF Accept, At, Goto, proxy, Checked
<1>8. CASE SaveAck(r)
  <2> DEFINE rec == [work EXCEPT !.ack = "ack"]
  <2>1. lock = r /\ pc = "save_ack" /\ SaveAndGo(r, rec, "confirm") /\ slots' = slots
    BY <1>8 DEF SaveAck, At, proxy
  <2>2. /\ work \in Records /\ work.status # "absent"
        /\ RecordOK(slots, r, work) /\ Grows(ops[r], work)
        /\ Reached(slots, r, ops[r], work, "save_ack")
    BY <1>0, <2>1, HolderStarts
  <2>3. RecordOK(slots, r, rec) /\ Grows(ops[r], rec)
    BY <1>0, <2>2, AnswerRead
  <2>4. rec.status = work.status /\ rec.delivery = work.delivery
    BY <2>2 DEF Records
  <2>5. work.delivery = "validated"
    BY <1>0, <2>2 DEF Reached, Checked, Grows
  <2>6. Reached(slots, r, rec, rec, "confirm")
    BY <1>0, <2>2, <2>4, <2>5 DEF Reached, Checked
  <2>7. SlotsKept
    BY <2>1 DEF SlotsKept
  <2> QED BY <1>0, <2>1, <2>2, <2>3, <2>4, <2>6, <2>7, HolderWrites
<1> QED BY <1>1, <1>2, <1>4, <1>5, <1>6, <1>7, <1>8 DEF ReceiveStep

-----------------------------------------------------------------------------
(* Credit and the recheck of settled operations.                           *)

\* What is credited was neither settled nor under review nor cancelled.
LEMMA CreditKeepsRecords ==
    ASSUME IInv, RInv, NEW x \in Ops, credit(x)
    PROVE  RInv' /\ OpsGrow
<1> DEFINE rec == [work EXCEPT !.status = "settled"]
<1>0. /\ lock = x /\ pc = "credit" /\ lock' = x /\ pc' = "save" /\ slots' = slots
      /\ ops' = [ops EXCEPT ![x] = rec]
  BY DEF credit, At, Goto, save, proxy
<1>1. /\ work \in Records /\ ops[x] \in Records /\ Exists(x)
      /\ RecordOK(slots, x, work) /\ Grows(ops[x], work)
      /\ Reached(slots, x, ops[x], work, "credit")
  BY <1>0, HolderStarts
<1>2. SlotsKept
  BY <1>0 DEF SlotsKept
<1>3. /\ work.status \notin {"needs_review", "settled", "cancelled"}
      /\ x \in Sends => work.delivery = "delivered"
      /\ x \in Receives => work.delivery = "validated"
  <2>1. work.status \notin {"needs_review", "settled", "cancelled"}
    BY <1>1 DEF Reached
  <2>2. x \in Sends => work.delivery = "delivered"
    BY <1>1 DEF Reached, Sent
  <2>3. x \in Receives => work.delivery = "validated"
    BY <1>1 DEF Reached, Checked, Grows
  <2> QED BY <2>1, <2>2, <2>3
<1>4. /\ rec.status = "settled" /\ rec.proof = work.proof /\ rec.outpoint = work.outpoint
      /\ rec.moves = work.moves /\ rec.inputs = work.inputs /\ rec.slot = work.slot
      /\ rec.signed = work.signed /\ rec.delivery = work.delivery
      /\ rec.broadcast = work.broadcast /\ rec.quarantine = work.quarantine
  BY <1>1 DEF Records
<1>5. RecordOK(slots, x, rec)
  BY <1>1, <1>3, <1>4 DEF RecordOK, SendRecord, ReceiveRecord
<1>6. Grows(ops[x], rec)
  BY <1>1, <1>3, <1>4 DEF Grows
<1>7. StoredOK' /\ OpsGrow
  BY <1>0, <1>1, <1>2, <1>4, <1>5, <1>6, StoredWritten DEF RInv
<1>8. /\ work'.proof = work.proof /\ work'.outpoint = work.outpoint
      /\ work'.moves = work.moves /\ work'.inputs = work.inputs /\ work'.slot = work.slot
      /\ work'.signed = work.signed /\ work'.delivery = work.delivery
      /\ work'.status \in {"settled", "needs_review"}
      /\ x \in Receives => work'.status = "settled" /\ work'.broadcast = "confirmed"
      /\ x \notin Receives => work'.broadcast = work.broadcast
  BY <1>1 DEF credit, Records
<1>9. RecordOK(slots, x, work')
  BY <1>1, <1>3, <1>8, IdsAssumption DEF RecordOK, SendRecord, ReceiveRecord
<1>10. Grows(rec, work')
  BY <1>4, <1>8 DEF Grows
<1>11. Reached(slots, x, rec, work', "save")
  BY <1>4, <1>8 DEF Reached, Sent, Checked
<1>12. ops'[x] = rec
  BY <1>0 DEF IInv, TypeOK
<1>13. HolderOK'
  BY <1>0, <1>9, <1>10, <1>11, <1>12 DEF HolderOK
<1> QED BY <1>7, <1>13 DEF RInv

\* A settled operation is frozen at most.
LEMMA RecheckKeepsRecords ==
    ASSUME IInv, RInv, NEW x \in Ops, Recheck(x)
    PROVE  RInv' /\ OpsGrow
<1>0. /\ lock = x /\ pc = "recheck" /\ UNCHANGED <<ops, lock, slots>> /\ pc' = "save"
  BY DEF Recheck, At, Goto, proxy
<1>1. /\ work \in Records /\ ops[x] \in Records
      /\ RecordOK(slots, x, work) /\ Grows(ops[x], work)
      /\ Reached(slots, x, ops[x], work, "recheck")
  BY <1>0, HolderStarts
<1>2. SlotsKept
  BY <1>0 DEF SlotsKept
<1>3. CASE work' = work
  BY <1>0, <1>1, <1>2, <1>3, MayGiveUp, HolderMovesOn
<1>4. CASE work' = [work EXCEPT !.status = "needs_review", !.quarantine = TRUE]
  <2>1. /\ work'.status = "needs_review" /\ work'.quarantine
        /\ work'.proof = work.proof /\ work'.outpoint = work.outpoint
        /\ work'.moves = work.moves /\ work'.inputs = work.inputs /\ work'.slot = work.slot
        /\ work'.signed = work.signed /\ work'.delivery = work.delivery
        /\ work'.broadcast = work.broadcast
    BY <1>1, <1>4 DEF Records
  <2>2. x \in Receives => work.proof # None
    BY <1>0, HolderKnows DEF Fits, WithProof
  <2>3. RecordOK(slots, x, work')
    BY <1>1, <2>1, <2>2 DEF RecordOK, SendRecord, ReceiveRecord, IsBlind
  <2>4. Grows(ops[x], work')
    BY <1>1, <2>1 DEF Grows
  <2>5. Reached(slots, x, ops[x], work', "save")
    BY <1>1, <2>1 DEF Reached, Sent, Checked
  <2> QED BY <1>0, <1>2, <2>3, <2>4, <2>5, HolderMovesOn
<1> QED BY <1>3, <1>4 DEF Recheck

-----------------------------------------------------------------------------
(* The life of a record.                                                   *)

\* A fresh store has no records and no holder.
LEMMA InitRInv == Init => RInv
BY IdsAssumption DEF Init, RInv, StoredOK, HolderOK, Exists, Absent

\* Every step keeps the claims of the records, and every record grows.
LEMMA NextRInv ==
    ASSUME IInv, RInv, [Next]_vars
    PROVE  RInv' /\ OpsGrow
<1>1. CASE Client
  <2>1. ASSUME NEW a \in Accounts, LegacyPrepare(a) \/ QueryList(a) \/ QueryClean(a)
        PROVE  RInv' /\ OpsGrow
    <3>1. UNCHANGED <<ops, lock, work, pc, slots>>
      BY <2>1 DEF LegacyPrepare, QueryList, QueryClean, holder, proxy
    <3> QED BY <3>1, RecordsUnchanged DEF SlotsKept
  <2> QED BY <1>1, <2>1, ReceiveKeepsRecords, PrepareKeepsRecords, FinalizeKeepsRecords,
             CancelKeepsRecords DEF Client
<1>2. ASSUME NEW x \in Ops, Scan(x) \/ HolderStep(x)
      PROVE  RInv' /\ OpsGrow
  BY <1>2, ScanKeepsRecords, SendStepKeepsRecords, ReceiveStepKeepsRecords,
     CreditKeepsRecords, RecheckKeepsRecords, ScanSaveKeepsRecords DEF HolderStep
<1>3. CASE \/ \E s \in Sends : RecoveryStep(s)
           \/ \E a \in Accounts : Unregister(a)
  <2>1. UNCHANGED <<ops, lock, work, pc, slots>>
    BY <1>3 DEF RecoveryStep, RecoveryReplay, RecoveryMark, RecoveryTrack, Unregister,
                replay_pending, mark_promoted, durable, holder, proxy
  <2> QED BY <2>1, RecordsUnchanged DEF SlotsKept
<1>4. CASE World
  <2>1. UNCHANGED <<ops, lock, work, pc>>
    BY <1>4 DEF World, PeerPost, PeerAnswer, Publish, Mine, Expire, durable, holder
  <2>2. SlotsKept
    <3>1. ASSUME NEW slot \in Slots, NEW p \in Proofs, PeerPost(slot, p)
          PROVE  SlotsKept
      BY <3>1 DEF PeerPost, SlotsKept, IInv, TypeOK
    <3>2. CASE slots' = slots
      BY <3>2 DEF SlotsKept
    <3> QED BY <1>4, <3>1, <3>2 DEF World, PeerAnswer, Publish, Mine, Expire, proxy
  <2> QED BY <2>1, <2>2, RecordsUnchanged
<1>5. CASE Fault
  <2>1. ASSUME \/ \E T \in SUBSET Txs : Reorg(T)
               \/ \E t \in Txs : Evict(t)
               \/ \E o \in ForeignCoins : ForeignSpend(o)
        PROVE  RInv' /\ OpsGrow
    <3>1. UNCHANGED <<ops, lock, work, pc, slots>>
      BY <2>1 DEF Reorg, Evict, ForeignSpend, durable, holder, proxy
    <3> QED BY <3>1, RecordsUnchanged DEF SlotsKept
  <2> QED BY <1>5, <2>1, CrashKeepsRecords, CallFailsKeepsRecords, ReplyLostKeepsRecords
          DEF Fault
<1>6. CASE UNCHANGED vars
  <2>1. UNCHANGED <<ops, lock, work, pc, slots>>
    BY <1>6 DEF vars, durable, holder, proxy
  <2> QED BY <2>1, RecordsUnchanged DEF SlotsKept
<1> QED BY <1>1, <1>2, <1>3, <1>4, <1>5, <1>6 DEF Next

\* At every moment each record can show what it claims, and the holder of the
\* lock has established what its next step relies on.
THEOREM RecordsHold == Spec => [](IInv /\ RInv)
<1>1. IInv /\ RInv /\ [Next]_vars => RInv'
  BY NextRInv
<1> QED BY <1>1, InitRInv, InvariantHolds, PTL DEF Spec

\* Review is left to an operator, a settled operation is only ever frozen, a
\* cancelled invoice is never credited, and a signature is never forgotten:
\* neither a client's request, a scan, a lost reply, a crash nor a stale copy
\* of the record that is saved late takes a verdict back.
THEOREM VerdictsNeverChange == Spec => VerdictsStand
<1>1. IInv /\ RInv /\ [Next]_vars =>
        [\A x \in Ops :
          /\ ops[x].status = "needs_review" => ops'[x].status = "needs_review"
          /\ ops[x].status = "settled" => ops'[x].status \in {"settled", "needs_review"}
          /\ ops[x].status = "cancelled" => ops'[x].status \in {"cancelled", "needs_review"}
          /\ ops[x].signed => ops'[x].signed]_vars
  <2> SUFFICES ASSUME IInv, RInv, [Next]_vars, NEW x \in Ops
               PROVE  /\ ops[x].status = "needs_review" => ops'[x].status = "needs_review"
                      /\ ops[x].status = "settled" => ops'[x].status \in {"settled", "needs_review"}
                      /\ ops[x].status = "cancelled" => ops'[x].status \in {"cancelled", "needs_review"}
                      /\ ops[x].signed => ops'[x].signed
    OBVIOUS
  <2>1. CASE Exists(x)
    BY <2>1, NextRInv DEF OpsGrow, Grows
  <2>2. CASE ~Exists(x)
    BY <2>2 DEF RInv, StoredOK, Absent
  <2> QED BY <2>1, <2>2
<1> QED BY <1>1, RecordsHold, PTL DEF Spec, VerdictsStand

-----------------------------------------------------------------------------
(* What is published.                                                      *)

\* The daemon publishes a carrier at one step only.
LEMMA PostedByBroadcast ==
    ASSUME IInv, [Next]_vars, NEW s \in posted'
    PROVE  s \in posted \/ (s \in Sends /\ lock = s /\ pc = "broadcast" /\ ops' = ops)
<1>1. ASSUME posted' = posted PROVE s \in posted
  BY <1>1
<1>2. CASE Client
  BY <1>1, <1>2 DEF Client, Receive, Prepare, Finalize, Cancel, LegacyPrepare, QueryList,
                    QueryClean, chain
<1>3. ASSUME NEW x \in Ops, Scan(x) \/ credit(x) \/ Recheck(x) \/ ScanSave(x)
      PROVE  s \in posted
  BY <1>1, <1>3 DEF Scan, credit, Recheck, ScanSave, chain
<1>4. ASSUME NEW x \in Sends, broadcast(x)
      PROVE  s \in posted \/ (s \in Sends /\ lock = s /\ pc = "broadcast" /\ ops' = ops)
  BY <1>4 DEF broadcast, At, chain, durable
<1>5. ASSUME NEW x \in Sends, SendStep(x), ~broadcast(x)
      PROVE  s \in posted
  BY <1>1, <1>5 DEF SendStep, finish_preparation, upload, SaveDelivered, MarkUnknown,
                    SaveBroadcast, Observe, stage_sender_fascia, Promote, MarkPromoted, chain
<1>6. ASSUME NEW r \in Receives, ReceiveStep(r)
      PROVE  s \in posted
  BY <1>1, <1>6 DEF ReceiveStep, Fetch, Validate, PostNack, PostAck, SaveAck, Confirm,
                    Accept, chain
<1>7. CASE \/ \E t \in Sends : RecoveryStep(t)
           \/ \E a \in Accounts : Unregister(a)
  BY <1>1, <1>7 DEF RecoveryStep, RecoveryReplay, RecoveryMark, RecoveryTrack, Unregister,
                    chain
<1>8. CASE World
  BY <1>1, <1>8 DEF World, PeerPost, PeerAnswer, Publish, Mine, Expire, chain
<1>9. ASSUME NEW x \in Ops, ReplyLost(x)
      PROVE  s \in posted \/ (s \in Sends /\ lock = s /\ pc = "broadcast" /\ ops' = ops)
  BY <1>9 DEF ReplyLost, chain, durable
<1>10. ASSUME Fault, ~\E x \in Ops : ReplyLost(x)
       PROVE  s \in posted
  BY <1>1, <1>10 DEF Fault, Crash, CallFails, Reorg, Evict, ForeignSpend, chain
<1>11. CASE UNCHANGED vars
  BY <1>1, <1>11 DEF vars, chain
<1> QED BY <1>2, <1>3, <1>4, <1>5, <1>6, <1>7, <1>8, <1>9, <1>10, <1>11
        DEF Next, HolderStep

\* What the daemon published stays marked in the stored record: the doubt is
\* committed before the call, and no later save withdraws it.
LEMMA NextPosted ==
    ASSUME IInv, RInv, PostedMarked, [Next]_vars
    PROVE  PostedMarked'
<1> SUFFICES ASSUME NEW s \in posted'
             PROVE  Exists(s)' /\ ops'[s].broadcast # "not_started"
  BY DEF PostedMarked
<1>1. CASE s \in posted
  <2>1. s \in Ops /\ Exists(s) /\ ops[s].broadcast # "not_started"
    BY <1>1 DEF PostedMarked, IInv, TypeOK, Ops
  <2> QED BY <2>1, NextRInv DEF OpsGrow, Grows
<1>2. CASE s \in Sends /\ lock = s /\ pc = "broadcast" /\ ops' = ops
  <2>1. Exists(s) /\ Reached(slots, s, ops[s], work, "broadcast")
    BY <1>2, HolderStarts DEF Ops
  <2> QED BY <1>2, <2>1 DEF Reached, Exists
<1> QED BY <1>1, <1>2, PostedByBroadcast

\* A carrier the daemon published has its signature stored, its proof in the
\* recipient's slot of the proxy and a record that says it may be public, for
\* any number of sends, invoices and accounts, after any crash, lost reply or
\* retry.
THEOREM PublishedIsProven == Spec => []ProvenBeforeBroadcast
<1>1. Init => PostedMarked
  BY DEF Init, PostedMarked
<1>2. IInv /\ RInv /\ PostedMarked /\ [Next]_vars => PostedMarked'
  BY NextPosted
<1>3. IInv /\ RInv /\ PostedMarked => ProvenBeforeBroadcast
  <2> SUFFICES ASSUME IInv, RInv, PostedMarked, NEW s \in posted
               PROVE  /\ ops[s].signed /\ ops[s].delivery = "delivered"
                      /\ ops[s].broadcast # "not_started"
                      /\ slots[ops[s].slot] = ProofOf(s)
    BY DEF ProvenBeforeBroadcast
  <2>1. s \in Sends /\ s \in Ops /\ Exists(s) /\ ops[s].broadcast # "not_started"
    BY DEF PostedMarked, IInv, TypeOK, Ops
  <2> QED BY <2>1 DEF RInv, StoredOK, RecordOK, SendRecord
<1> QED BY <1>1, <1>2, <1>3, RecordsHold, PTL DEF Spec

\* The daemon never publishes two payments for one invoice: the slot of the
\* invoice holds one consignment, and each published send has its own there.
THEOREM InvoicePaidOnce == Spec => []OnePaymentPerInvoice
<1>1. ASSUME NEW s, NEW t, ProofOf(s) = ProofOf(t)
      PROVE  s = t
  <2>1. ProofOf(s).tx = s /\ ProofOf(t).tx = t
    BY DEF ProofOf
  <2> QED BY <1>1, <2>1
<1>2. ProvenBeforeBroadcast => OnePaymentPerInvoice
  BY <1>1 DEF ProvenBeforeBroadcast, OnePaymentPerInvoice
<1> QED BY <1>2, PublishedIsProven, PTL

-----------------------------------------------------------------------------
(* What the payer reads.                                                   *)

\* An answer on an id of this daemon is given once, by the invoice that has
\* the id, and for the verdict that is already stored.
GivesAnswer(i) ==
    \E r \in Receives :
        /\ lock = r /\ work.slot = i /\ ops' = ops
        /\ acks[i] = "none"
        /\ \/ pc = "nack" /\ acks'[i] = "nack"
           \/ pc = "post_ack" /\ acks'[i] = "ack"

\* Answers change in no other way.
LEMMA AnswersGiven ==
    ASSUME IInv, [Next]_vars, NEW i \in Slots \ PeerSlots
    PROVE  acks'[i] = acks[i] \/ GivesAnswer(i)
<1>1. ASSUME acks' = acks PROVE acks'[i] = acks[i]
  BY <1>1
<1>2. CASE Client
  BY <1>1, <1>2 DEF Client, Receive, Prepare, Finalize, Cancel, LegacyPrepare, QueryList,
                    QueryClean, proxy
<1>3. ASSUME NEW x \in Ops, Scan(x) \/ credit(x) \/ Recheck(x) \/ ScanSave(x)
      PROVE  acks'[i] = acks[i]
  BY <1>1, <1>3 DEF Scan, credit, Recheck, ScanSave, proxy
<1>4. ASSUME NEW x \in Sends, SendStep(x)
      PROVE  acks'[i] = acks[i]
  BY <1>1, <1>4 DEF SendStep, finish_preparation, upload, SaveDelivered, MarkUnknown, broadcast,
                    SaveBroadcast, Observe, stage_sender_fascia, Promote, MarkPromoted, proxy
<1>5. ASSUME NEW r \in Receives, lock = r, ops' = ops,
             \/ pc = "nack" /\ acks' = Answered(work.slot, "nack")
             \/ pc = "post_ack" /\ acks' = Answered(work.slot, "ack")
      PROVE  acks'[i] = acks[i] \/ GivesAnswer(i)
  <2>1. \A v : acks' = Answered(work.slot, v) =>
               \/ acks'[i] = acks[i]
               \/ i = work.slot /\ acks[i] = "none" /\ acks'[i] = v
    BY DEF Answered, IInv, TypeOK
  <2> QED BY <1>5, <2>1 DEF GivesAnswer
<1>6. ASSUME NEW r \in Receives, ReceiveStep(r)
      PROVE  acks'[i] = acks[i] \/ GivesAnswer(i)
  <2>1. CASE PostNack(r) \/ PostAck(r)
    BY <1>5, <2>1 DEF PostNack, PostAck, At, durable
  <2>2. CASE ~(PostNack(r) \/ PostAck(r))
    BY <1>1, <1>6, <2>2 DEF ReceiveStep, Fetch, Validate, SaveAck, Confirm, Accept, proxy
  <2> QED BY <2>1, <2>2
<1>7. CASE \/ \E t \in Sends : RecoveryStep(t)
           \/ \E a \in Accounts : Unregister(a)
  BY <1>1, <1>7 DEF RecoveryStep, RecoveryReplay, RecoveryMark, RecoveryTrack, Unregister,
                    proxy
<1>8. CASE World
  <2>1. ASSUME NEW slot \in PeerSlots, NEW value, PeerAnswer(slot, value)
        PROVE  acks'[i] = acks[i]
    BY <2>1 DEF PeerAnswer, IInv, TypeOK
  <2> QED BY <1>1, <1>8, <2>1 DEF World, PeerPost, Publish, Mine, Expire, proxy
<1>9. ASSUME NEW x \in Ops, ReplyLost(x)
      PROVE  acks'[i] = acks[i] \/ GivesAnswer(i)
  <2>1. CASE x \in Receives /\ pc = "post_ack" /\ acks' = Answered(work.slot, "ack")
    BY <1>5, <1>9, <2>1 DEF ReplyLost, durable
  <2> QED BY <1>1, <1>9, <2>1 DEF ReplyLost, proxy
<1>10. ASSUME Fault, ~\E x \in Ops : ReplyLost(x)
       PROVE  acks'[i] = acks[i]
  BY <1>1, <1>10 DEF Fault, Crash, CallFails, Reorg, Evict, ForeignSpend, proxy
<1>11. CASE UNCHANGED vars
  BY <1>1, <1>11 DEF vars, proxy
<1> QED BY <1>2, <1>3, <1>4, <1>6, <1>7, <1>8, <1>9, <1>10, <1>11
        DEF Next, HolderStep

\* Invoices come into being in Receive only.
LEMMA NewInvoices ==
    ASSUME IInv, RInv, [Next]_vars, NEW r \in Receives, ~Exists(r), Exists(r)'
    PROVE  \E blind \in Outpoints \cup {None} : Receive(r, blind)
<1>0. r \in Ops /\ r \notin Sends /\ TypeOK
  BY IdsAssumption DEF Ops, IInv
<1>1. ~NoNewRecord
  BY <1>0 DEF NoNewRecord
<1>2. ASSUME ops' = ops PROVE FALSE
  BY <1>2 DEF Exists
<1>3. ASSUME NEW x \in Ops, x # r, NEW rec, ops' = [ops EXCEPT ![x] = rec]
      PROVE  FALSE
  BY <1>0, <1>3 DEF Exists, TypeOK
<1>4. ASSUME NEW q \in Receives, NEW blind \in Outpoints \cup {None}, Receive(q, blind), q # r
      PROVE  FALSE
  BY <1>3, <1>4 DEF Receive, save_reserving, Ops
<1>5. ASSUME NEW s \in Sends, NEW inputs \in SUBSET Outpoints, NEW slot \in Slots,
             Prepare(s, inputs, slot)
      PROVE  FALSE
  BY <1>0, <1>3, <1>5 DEF Prepare, save_reserving, Ops
<1>6. ASSUME NEW s \in Sends, Finalize(s) PROVE FALSE
  BY <1>0, <1>3, <1>6 DEF Finalize, save, Ops
<1>7. ASSUME NEW x \in Ops, Cancel(x) PROVE FALSE
  <2>1. x # r
    BY <1>7 DEF Cancel
  <2> QED BY <1>3, <1>7, <2>1 DEF Cancel, save
<1>8. ASSUME NEW x \in Ops, HolderStep(x) PROVE FALSE
  BY <1>1, <1>8, HolderStepIsNotNew
<1>9. ASSUME NEW a \in Accounts, LegacyPrepare(a) \/ QueryList(a) \/ QueryClean(a) \/ Unregister(a)
      PROVE  FALSE
  BY <1>2, <1>9 DEF LegacyPrepare, QueryList, QueryClean, Unregister, durable
<1>10. ASSUME NEW x \in Ops, Scan(x) PROVE FALSE
  BY <1>2, <1>10 DEF Scan, durable
<1>11. ASSUME NEW s \in Sends, RecoveryStep(s) PROVE FALSE
  BY <1>2, <1>11 DEF RecoveryStep, RecoveryReplay, RecoveryMark, RecoveryTrack,
                     replay_pending, mark_promoted
<1>12. ASSUME World PROVE FALSE
  BY <1>2, <1>12 DEF World, PeerPost, PeerAnswer, Publish, Mine, Expire, durable
<1>13. ASSUME Fault PROVE FALSE
  BY <1>2, <1>13 DEF Fault, Crash, CallFails, ReplyLost, Reorg, Evict, ForeignSpend, durable
<1>14. ASSUME UNCHANGED vars PROVE FALSE
  BY <1>2, <1>14 DEF vars, durable
<1> QED BY <1>4, <1>5, <1>6, <1>7, <1>8, <1>9, <1>10, <1>11, <1>12, <1>13, <1>14
        DEF Next, Client

\* Two invoices with one recipient id are to the address of one account.
LEMMA SharedRecipient ==
    ASSUME NEW r, NEW q, NEW i,
           i \in {WitnessSlot(AccountOf[r]), BlindSlot(r)},
           i \in {WitnessSlot(AccountOf[q]), BlindSlot(q)}
    PROVE  r = q \/ AccountOf[r] = AccountOf[q]
BY DEF WitnessSlot, BlindSlot

\* A new invoice gets an id no other invoice has: a blind seal is its own, and
\* an account's address is used once.
LEMMA NextSlotsOwned ==
    ASSUME IInv, RInv, SlotsOwned, [Next]_vars
    PROVE  SlotsOwned'
<1>0. \A r \in Receives : r \in Ops /\ r \notin Sends
  BY IdsAssumption DEF Ops
<1>1. \A r \in Receives : Exists(r) => Exists(r)' /\ ops'[r].slot = ops[r].slot
  BY <1>0, NextRInv DEF OpsGrow, Grows
<1>2. ASSUME NEW r \in Receives, NEW blind \in Outpoints \cup {None}, Receive(r, blind)
      PROVE  /\ ops'[r].slot = recipient(r, blind)
             /\ recipient(r, blind) \in {WitnessSlot(AccountOf[r]), BlindSlot(r)}
             /\ \A q \in Receives : Exists(q) => ops[q].slot # recipient(r, blind)
             /\ \A q \in Receives : Exists(q)' => Exists(q) \/ q = r
  <2>1. recipient(r, blind) \in {WitnessSlot(AccountOf[r]), BlindSlot(r)}
    BY DEF recipient
  <2>2. ~Exists(r) /\ \A q \in OpsOf(AccountOf[r]) \cap Receives : ops[q].slot # recipient(r, blind)
    BY <1>2 DEF Receive, new_record
  <2>3. ASSUME NEW q \in Receives, Exists(q), ops[q].slot = recipient(r, blind)
        PROVE  FALSE
    <3>1. ops[q].slot \in {WitnessSlot(AccountOf[q]), BlindSlot(q)}
      BY <2>3 DEF SlotsOwned
    <3>2. AccountOf[q] = AccountOf[r]
      BY <2>1, <2>2, <2>3, <3>1, SharedRecipient
    <3> QED BY <1>0, <2>2, <2>3, <3>2 DEF OpsOf
  <2>4. \A y \in Ops : y # r => ops'[y] = ops[y]
    BY <1>2 DEF Receive, save_reserving, IInv, TypeOK
  <2>5. ops'[r].slot = recipient(r, blind)
    BY <1>0, <1>2 DEF Receive, save_reserving, IInv, TypeOK, Absent
  <2> QED BY <1>0, <2>1, <2>3, <2>4, <2>5 DEF Exists
<1>3. ASSUME NEW r \in Receives, Exists(r)'
      PROVE  ops'[r].slot \in {WitnessSlot(AccountOf[r]), BlindSlot(r)}
  BY <1>1, <1>2, <1>3, NewInvoices DEF SlotsOwned
<1>4. ASSUME NEW r \in Receives, NEW q \in Receives, ~Exists(r), Exists(r)', Exists(q)',
             ops'[q].slot = ops'[r].slot
      PROVE  q = r
  BY <1>1, <1>2, <1>4, NewInvoices
<1>5. ASSUME NEW r \in Receives, NEW q \in Receives, Exists(r), Exists(q),
             ops'[q].slot = ops'[r].slot
      PROVE  q = r
  BY <1>1, <1>5 DEF SlotsOwned
<1> QED BY <1>3, <1>4, <1>5 DEF SlotsOwned

\* Answers follow verdicts: the verdict is stored before the call, the call is
\* made for the invoice's own id, and neither is taken back.
LEMMA NextAInv ==
    ASSUME IInv, RInv, AInv, [Next]_vars
    PROVE  AInv'
<1>0. \A r \in Receives : r \in Ops /\ r \notin Sends
  BY IdsAssumption DEF Ops
<1>1. SlotsOwned'
  BY NextSlotsOwned DEF AInv
<1>2. RInv' /\ \A r \in Receives : Exists(r) => Exists(r)' /\ Grows(ops[r], ops'[r])
  BY <1>0, NextRInv DEF OpsGrow
<1>3. ASSUME NEW i \in Slots \ PeerSlots, GivesAnswer(i)
      PROVE  \E r \in Receives :
                /\ Exists(r) /\ ops[r].slot = i /\ ops' = ops
                /\ \/ acks'[i] = "nack" /\ ops[r].status = "needs_review"
                   \/ acks'[i] = "ack" /\ ops[r].delivery = "validated"
  <2>1. PICK r \in Receives : /\ lock = r /\ work.slot = i /\ ops' = ops
                              /\ \/ pc = "nack" /\ acks'[i] = "nack"
                                 \/ pc = "post_ack" /\ acks'[i] = "ack"
    BY <1>3 DEF GivesAnswer
  <2>2. /\ Exists(r) /\ Grows(ops[r], work) /\ Reached(slots, r, ops[r], work, pc)
    BY <1>0, <2>1, HolderStarts
  <2>3. ops[r].slot = i
    BY <2>1, <2>2 DEF Grows
  <2>4. /\ pc = "nack" => ops[r].status = "needs_review"
        /\ pc = "post_ack" => ops[r].delivery = "validated"
    BY <2>2 DEF Reached, Checked
  <2> QED BY <2>1, <2>2, <2>3, <2>4
<1>4. NoEarlyAnswer'
  <2> SUFFICES ASSUME NEW i \in Slots \ PeerSlots, acks'[i] # "none"
               PROVE  \E r \in Receives : Exists(r)' /\ ops'[r].slot = i
    BY DEF NoEarlyAnswer
  <2>1. \E r \in Receives : Exists(r) /\ ops[r].slot = i
    BY <1>3, AnswersGiven DEF AInv, NoEarlyAnswer
  <2> QED BY <1>2, <2>1 DEF Grows
<1>5. AnswerMatchesRecord'
  <2> SUFFICES ASSUME NEW r \in Receives, Exists(r)'
               PROVE  /\ acks'[ops'[r].slot] = "ack" =>
                            /\ ops'[r].delivery = "validated"
                            /\ ops'[r].status = "needs_review" => ops'[r].quarantine
                      /\ acks'[ops'[r].slot] = "nack" => ops'[r].status = "needs_review"
    BY DEF AnswerMatchesRecord
  <2> DEFINE i == ops'[r].slot
  <2>1. i \in Slots \ PeerSlots
    <3>1. i \in {WitnessSlot(AccountOf[r]), BlindSlot(r)}
      BY <1>1 DEF SlotsOwned
    <3> QED BY <1>0, <3>1, SlotsAssumption, IdsAssumption DEF Slots
  <2>2. ReceiveRecord(ops'[r])
    BY <1>0, <1>2 DEF RInv, StoredOK, RecordOK
  <2>3. ops'[r].delivery = "validated" => (ops'[r].status = "needs_review" => ops'[r].quarantine)
    BY <2>2 DEF ReceiveRecord
  <2>4. CASE Exists(r) /\ acks'[i] = acks[i]
    <3>1. i = ops[r].slot /\ Grows(ops[r], ops'[r])
      BY <1>2, <2>4 DEF Grows
    <3>2. /\ acks[i] = "ack" => ops[r].delivery = "validated"
          /\ acks[i] = "nack" => ops[r].status = "needs_review"
      BY <2>4, <3>1 DEF AInv, AnswerMatchesRecord
    <3> QED BY <2>3, <2>4, <3>1, <3>2 DEF Grows
  <2>5. CASE GivesAnswer(i)
    <3>1. PICK q \in Receives :
                /\ Exists(q) /\ ops[q].slot = i /\ ops' = ops
                /\ \/ acks'[i] = "nack" /\ ops[q].status = "needs_review"
                   \/ acks'[i] = "ack" /\ ops[q].delivery = "validated"
      BY <1>3, <2>1, <2>5
    <3>2. q = r
      BY <1>2, <3>1, <1>1 DEF SlotsOwned
    <3> QED BY <2>3, <3>1, <3>2
  <2>6. CASE ~Exists(r) /\ acks'[i] = acks[i]
    <3>1. \A q \in Receives : ~(Exists(q) /\ ops[q].slot = i)
      BY <1>1, <1>2, <2>6 DEF SlotsOwned, Grows
    <3>2. acks[i] = "none"
      BY <2>1, <3>1 DEF AInv, NoEarlyAnswer
    <3> QED BY <2>6, <3>2
  <2> QED BY <2>1, <2>4, <2>5, <2>6, AnswersGiven
<1> QED BY <1>1, <1>4, <1>5 DEF AInv

\* The payer reads ACK only for a payment that passed every check, is stored
\* and is on its way to credit (or was frozen by a reorganisation after it),
\* and NACK only for one that is held for review: for any number of invoices
\* and accounts, and after a crash or a lost reply at any point.
THEOREM AnswersMatchRecords == Spec => []AnswerMatchesRecord
<1>1. Init => AInv
  BY DEF Init, AInv, SlotsOwned, NoEarlyAnswer, AnswerMatchesRecord, Exists, Absent, Ops
<1>2. IInv /\ RInv /\ AInv /\ [Next]_vars => AInv'
  BY NextAInv
<1>3. AInv => AnswerMatchesRecord
  BY DEF AInv
<1> QED BY <1>1, <1>2, <1>3, RecordsHold, PTL DEF Spec

-----------------------------------------------------------------------------
(* What ExternalRgb tracks in account_utxos is backed by the account's RGB *)
(* stock, through promotion by the holder of the lock or by the recovery   *)
(* scan, crashes between stock and credit, and queries that run beside     *)
(* both.                                                                   *)

\* What the stock has seen: its allocations and those moved on from it.
Seen(o) == o \in alloc \/ \E s \in Sends : o \in ops[s].moves

\* The holder comes to credit with the stock already brought up to date.
CreditReady ==
    lock # None /\ pc = "credit" =>
        /\ lock \in Sends => pend[lock] = "confirmed"
        /\ lock \in Receives => Seen(work.outpoint)

\* Stock first, credit second, and what was credited is not staged again.
StockFirst ==
    /\ \A s \in Sends : /\ pend[s] = "confirmed" => Consumed(s)
                        /\ Credited(s) => pend[s] # "staged"
    /\ promoting # None => Consumed(promoting)
    /\ lock # None /\ pc = "mark_promoted" => promoting # None
    /\ CreditReady

\* Some operation has brought the output.
Brought(o) == \E x \in Ops : BroughtBy(x, o)

\* BalanceBacked, for one output.
Backed(o) ==
    \/ o \in alloc
    \/ \E s \in Sends : o \in ops[s].moves /\ (Credited(s) => Brought(o))

BInv == StockFirst /\ BalanceBacked

\* BalanceBacked, output by output.
LEMMA TrackedBacked ==
    ASSUME BalanceBacked PROVE \A o \in Outpoints : utxos[o] # "absent" => Backed(o)
BY DEF BalanceBacked, Backed, Brought

-----------------------------------------------------------------------------
(* What no step takes back.                                                *)

\* The inputs a send's fascia moves are settled once and for all.
LEMMA MovesKept ==
    ASSUME IInv, RInv, [Next]_vars, NEW s \in Sends
    PROVE  ops[s].moves \subseteq ops'[s].moves
<1>0. s \in Ops
  BY DEF Ops
<1>1. CASE ~Exists(s)
  BY <1>0, <1>1 DEF RInv, StoredOK, Absent
<1>2. CASE Exists(s) /\ ops[s].proof = None
  BY <1>0, <1>2 DEF RInv, StoredOK, RecordOK, SendRecord
<1>3. CASE Exists(s) /\ ops[s].proof # None
  BY <1>0, <1>3, NextRInv DEF OpsGrow, Grows
<1> QED BY <1>1, <1>2, <1>3

\* What an operation has brought stays its own.
LEMMA BroughtLasts ==
    ASSUME IInv, RInv, [Next]_vars, NEW o, Brought(o)
    PROVE  Brought(o)'
<1>1. PICK x \in Ops : Credited(x) /\ o = OutpointOf(x, ops[x])
  BY DEF Brought, BroughtBy
<1>2. Exists(x) /\ Grows(ops[x], ops'[x])
  BY <1>1, NextRInv DEF Credited, Exists, OpsGrow
<1>3. Credited(x)'
  BY <1>1, <1>2 DEF Credited, Grows
<1>4. OutpointOf(x, ops'[x]) = o
  <2>1. CASE x \in Sends
    BY <1>1, <2>1 DEF OutpointOf
  <2>2. CASE x \notin Sends
    <3>1. ops[x].proof # None
      BY <1>1, <1>2, <2>2 DEF RInv, StoredOK, RecordOK, ReceiveRecord, Credited, Ops
    <3> QED BY <1>1, <1>2, <2>2, <3>1 DEF OutpointOf, Grows
  <2> QED BY <2>1, <2>2
<1> QED BY <1>3, <1>4 DEF Brought, BroughtBy

\* A send becomes credited in credit and nowhere else.
LEMMA NewCredit ==
    ASSUME IInv, RInv, [Next]_vars, NEW s \in Sends, Credited(s)', ~Credited(s)
    PROVE  credit(s)
<1>0. s \in Ops /\ s \notin Receives /\ TypeOK
  BY IdsAssumption DEF Ops, IInv
<1>1. ASSUME ops' = ops PROVE FALSE
  BY <1>1 DEF Credited
<1>2. ASSUME NEW x \in Ops, NEW rec, ops' = [ops EXCEPT ![x] = rec],
             x # s \/ rec.status \notin {"settled", "needs_review"}
      PROVE  FALSE
  BY <1>0, <1>2 DEF Credited, TypeOK
<1>3. ASSUME NEW r \in Receives, NEW blind \in Outpoints \cup {None}, Receive(r, blind)
      PROVE  FALSE
  BY <1>0, <1>2, <1>3 DEF Receive, save_reserving, Ops
<1>4. ASSUME NEW t \in Sends, NEW inputs \in SUBSET Outpoints, NEW slot \in Slots,
             Prepare(t, inputs, slot)
      PROVE  FALSE
  BY <1>2, <1>4 DEF Prepare, save_reserving, Ops, Absent
<1>5. ASSUME NEW t \in Sends, Finalize(t) PROVE FALSE
  <2>1. t \in Ops /\ ops[t] \in Records
    BY <1>0 DEF Ops, TypeOK
  <2>2. [ops[t] EXCEPT !.signed = TRUE, !.status = "delivering"].status = "delivering"
    BY <2>1 DEF Records
  <2> QED BY <1>2, <1>5, <2>1, <2>2 DEF Finalize, save
<1>6. ASSUME NEW x \in Ops, Cancel(x) PROVE FALSE
  BY <1>0, <1>2, <1>6 DEF Cancel, save
<1>7. ASSUME NEW a \in Accounts, LegacyPrepare(a) \/ QueryList(a) \/ QueryClean(a) \/ Unregister(a)
      PROVE  FALSE
  BY <1>1, <1>7 DEF LegacyPrepare, QueryList, QueryClean, Unregister, durable
<1>8. ASSUME NEW x \in Ops, Scan(x) PROVE FALSE
  BY <1>1, <1>8 DEF Scan, durable
<1>9. ASSUME NEW t \in Sends, SendStep(t) PROVE FALSE
  <2>1. t \in Ops /\ t \notin Receives
    BY IdsAssumption DEF Ops
  <2>2. lock = t
    BY <1>9 DEF SendStep, At, finish_preparation, upload, SaveDelivered, MarkUnknown,
           broadcast, SaveBroadcast, Observe, stage_sender_fascia, Promote, MarkPromoted
  <2>3. work \in Records /\ Reached(slots, t, ops[t], work, pc)
    BY <2>1, <2>2, HolderStarts
  <2>4. work.status \in {"settled", "needs_review"} => Credited(t)
    BY <2>3, <1>9 DEF Reached, Credited
  <2>5. CASE finish_preparation(t)
    <3>1. [work EXCEPT !.status = "awaiting_signature", !.moves = work.inputs \cap alloc,
                       !.proof = ProofOf(t)].status = "awaiting_signature"
      BY <2>3 DEF Records
    <3> QED BY <1>1, <1>2, <2>1, <2>5, <3>1 DEF finish_preparation, SaveAndGo, save, durable
  <2>6. CASE SaveDelivered(t)
    <3>1. [work EXCEPT !.delivery = "delivered"].status = work.status
      BY <2>3 DEF Records
    <3> QED BY <1>2, <2>1, <2>4, <2>6, <3>1 DEF SaveDelivered, SaveAndGo, save
  <2>7. CASE MarkUnknown(t)
    <3>1. [work EXCEPT !.broadcast = "unknown"].status = work.status
      BY <2>3 DEF Records
    <3> QED BY <1>2, <2>1, <2>4, <2>7, <3>1 DEF MarkUnknown, SaveAndGo, save
  <2>8. CASE SaveBroadcast(t)
    <3>1. [work EXCEPT !.broadcast = "broadcast",
                       !.status = "waiting_confirmations"].status = "waiting_confirmations"
      BY <2>3 DEF Records
    <3> QED BY <1>2, <2>1, <2>8, <3>1 DEF SaveBroadcast, SaveAndGo, save
  <2> QED BY <1>1, <1>9, <2>5, <2>6, <2>7, <2>8
          DEF SendStep, upload, broadcast, Observe, stage_sender_fascia, Promote,
              replay_pending, MarkPromoted, mark_promoted, durable
<1>10. ASSUME NEW r \in Receives, ReceiveStep(r) PROVE FALSE
  <2>1. r \in Ops /\ r # s
    BY <1>0 DEF Ops
  <2>2. ops' = ops \/ \E rec : ops' = [ops EXCEPT ![r] = rec]
    BY <1>10 DEF ReceiveStep, SaveAndGo, save, durable, Fetch, Validate, PostNack, PostAck,
           SaveAck, Confirm, Accept
  <2> QED BY <1>1, <1>2, <2>1, <2>2
<1>11. ASSUME NEW x \in Ops, credit(x), x # s PROVE FALSE
  BY <1>2, <1>11 DEF credit, save
<1>12. ASSUME NEW x \in Ops, Recheck(x) PROVE FALSE
  BY <1>1, <1>12 DEF Recheck
<1>13. ASSUME NEW x \in Ops, ScanSave(x) PROVE FALSE
  <2>1. lock = x
    BY <1>13 DEF ScanSave, At
  <2>2. x = s => (work.status \in {"settled", "needs_review"} => Credited(s))
    BY <2>1, HolderStarts DEF Reached, Credited
  <2> QED BY <1>2, <1>13, <2>2 DEF ScanSave, save
<1>14. ASSUME NEW t \in Sends, RecoveryStep(t) PROVE FALSE
  BY <1>1, <1>14 DEF RecoveryStep, RecoveryReplay, RecoveryMark, RecoveryTrack,
                     replay_pending, mark_promoted
<1>15. ASSUME World PROVE FALSE
  BY <1>1, <1>15 DEF World, PeerPost, PeerAnswer, Publish, Mine, Expire, durable
<1>16. ASSUME Fault PROVE FALSE
  BY <1>1, <1>16 DEF Fault, Crash, CallFails, ReplyLost, Reorg, Evict, ForeignSpend, durable
<1>17. ASSUME UNCHANGED vars PROVE FALSE
  BY <1>1, <1>17 DEF vars, durable
<1> QED BY <1>3, <1>4, <1>5, <1>6, <1>7, <1>8, <1>9, <1>10, <1>11, <1>12, <1>13, <1>14,
           <1>15, <1>16, <1>17 DEF Next, Client, HolderStep

\* What the stock has seen leaves it only by being moved on.
LEMMA SeenLasts ==
    ASSUME IInv, RInv, [Next]_vars, NEW o, Seen(o), o \in alloc => Seen(o)'
    PROVE  Seen(o)'
BY MovesKept DEF Seen

\* A consumed fascia stays consumed.
LEMMA ConsumedLasts ==
    ASSUME IInv, RInv, [Next]_vars, NEW s \in Sends, Consumed(s),
           Change(s) \in alloc => Seen(Change(s))'
    PROVE  Consumed(s)'
BY SeenLasts DEF Seen, Consumed

\* A backed output stays backed if what takes it out of the stock is a send
\* still to be credited, and the sends that moved it earlier are not credited.
LEMMA BackedLasts ==
    ASSUME IInv, RInv, [Next]_vars, NEW o \in Outpoints, Backed(o),
           o \in alloc => \/ o \in alloc'
                          \/ \E s \in Sends : o \in ops[s].moves /\ ~Credited(s)',
           \A s \in Sends : o \in ops[s].moves /\ Credited(s)' => Credited(s)
    PROVE  Backed(o)'
<1>1. ASSUME NEW s \in Sends, o \in ops[s].moves, Credited(s)' => Brought(o)
      PROVE  Backed(o)'
  BY <1>1, MovesKept, BroughtLasts DEF Backed
<1> QED BY <1>1 DEF Backed

-----------------------------------------------------------------------------
(* Steps.                                                                  *)

\* A step that adds at most to the stock, credits no send and tracks nothing
\* new.
LEMMA QuietStep ==
    ASSUME IInv, RInv, BInv, [Next]_vars,
           alloc \subseteq alloc', pend' = pend, promoting' \in {promoting, None},
           \A o \in Outpoints : utxos'[o] # "absent" => utxos[o] # "absent",
           \A s \in Sends : ~credit(s),
           lock' # None /\ pc' = "mark_promoted" => promoting' # None,
           CreditReady'
    PROVE  BInv'
<1>1. \A s \in Sends : Credited(s)' => Credited(s)
  BY NewCredit
<1>2. \A s \in Sends : Consumed(s) => Consumed(s)'
  BY ConsumedLasts DEF Seen
<1>3. promoting # None => promoting \in Sends
  BY DEF IInv, TypeOK
<1>4. StockFirst'
  BY <1>1, <1>2, <1>3 DEF BInv, StockFirst
<1>5. \A o \in Outpoints : utxos'[o] # "absent" => Backed(o)
  BY TrackedBacked DEF BInv
<1>6. \A o \in Outpoints : utxos'[o] # "absent" => Backed(o)'
  BY <1>1, <1>5, BackedLasts
<1>7. BalanceBacked'
  BY <1>6 DEF BalanceBacked, Backed, Brought
<1> QED BY <1>4, <1>7 DEF BInv

\* A step outside the holder's last steps that touches neither stock nor staged
\* carriers, and tracks nothing new.
LEMMA IdleStep ==
    ASSUME IInv, RInv, BInv, [Next]_vars,
           UNCHANGED <<alloc, pend>>, promoting' \in {promoting, None},
           \A o \in Outpoints : utxos'[o] # "absent" => utxos[o] # "absent",
           \A s \in Sends : ~credit(s),
           \/ UNCHANGED <<lock, work, pc, promoting>>
           \/ lock' = None
           \/ pc' \notin {"credit", "mark_promoted"}
    PROVE  BInv'
<1>1. CreditReady'
  <2>1. Seen(work.outpoint) => Seen(work.outpoint)' \/ work' # work
    <3>1. ASSUME Seen(work.outpoint), work' = work PROVE Seen(work.outpoint)'
      BY <3>1, MovesKept DEF Seen
    <3> QED BY <3>1
  <2> QED BY <2>1 DEF CreditReady, BInv, StockFirst
<1>2. lock' # None /\ pc' = "mark_promoted" => promoting' # None
  BY DEF BInv, StockFirst
<1> QED BY <1>1, <1>2, QuietStep

\* Consuming a staged fascia takes its inputs out of the stock, and the send
\* is still to be credited.
LEMMA ReplayStep ==
    ASSUME IInv, RInv, BInv, [Next]_vars, NEW t \in Sends, pend[t] = "staged",
           replay_pending(t), lock' = None \/ pc' = "mark_promoted"
    PROVE  BInv'
<1>0. TypeOK /\ t # None
  BY IdsAssumption DEF IInv, Ops
<1>1. /\ alloc' = (alloc \ ops[t].moves) \cup Arriving(Change(t))
      /\ \A s \in Sends : pend'[s] = IF s = t THEN "none" ELSE pend[s]
      /\ promoting' = t /\ UNCHANGED <<ops, utxos>>
  BY <1>0 DEF replay_pending, TypeOK
<1>2. \A s \in Sends : Credited(s)' <=> Credited(s)
  BY <1>1 DEF Credited
<1>3. \A s \in Sends : Consumed(s) => Consumed(s)'
  <2>1. \A o : o \in alloc => Seen(o)'
    BY <1>1 DEF Seen
  <2> QED BY <2>1, ConsumedLasts
<1>4. Consumed(t)'
  BY <1>1 DEF Consumed, Arriving
<1>5. CreditReady'
  BY DEF CreditReady
<1>6. StockFirst'
  BY <1>0, <1>1, <1>2, <1>3, <1>4, <1>5 DEF BInv, StockFirst
<1>7. ~Credited(t)
  BY DEF BInv, StockFirst
<1>8. \A o \in Outpoints : utxos'[o] # "absent" => Backed(o)
  BY <1>1, TrackedBacked DEF BInv
<1>9. ASSUME NEW o \in Outpoints, utxos'[o] # "absent"
      PROVE  Backed(o)'
  <2>1. o \in alloc => o \in alloc' \/ (o \in ops[t].moves /\ ~Credited(t)')
    BY <1>1, <1>2, <1>7
  <2> QED BY <1>2, <1>8, <1>9, <2>1, BackedLasts
<1>10. BalanceBacked'
  BY <1>9 DEF BalanceBacked, Backed, Brought
<1> QED BY <1>6, <1>10 DEF BInv

\* A carrier is marked promoted after its fascia has come into the stock.
LEMMA MarkStep ==
    ASSUME IInv, RInv, BInv, [Next]_vars, promoting # None,
           mark_promoted(promoting), utxos' = utxos, promoting' \in {promoting, None},
           \/ UNCHANGED <<lock, work, pc, promoting>>
           \/ pc' \notin {"credit", "mark_promoted"}
    PROVE  BInv'
<1>0. TypeOK /\ promoting \in Sends
  BY DEF IInv, TypeOK
<1>1. /\ \A s \in Sends : pend'[s] = IF s = promoting THEN "confirmed" ELSE pend[s]
      /\ UNCHANGED <<ops, alloc>>
  BY <1>0 DEF mark_promoted, TypeOK
<1>2. \A s \in Sends : (Credited(s)' <=> Credited(s)) /\ (Consumed(s)' <=> Consumed(s))
  BY <1>1 DEF Credited, Consumed
<1>3. CreditReady'
  <2>1. Seen(work.outpoint) /\ work' = work => Seen(work.outpoint)'
    BY <1>1 DEF Seen
  <2> QED BY <1>1, <2>1 DEF CreditReady, BInv, StockFirst
<1>4. StockFirst'
  BY <1>0, <1>1, <1>2, <1>3 DEF BInv, StockFirst
<1>5. BalanceBacked'
  BY <1>1 DEF BInv, BalanceBacked, Credited, BroughtBy
<1> QED BY <1>4, <1>5 DEF BInv

\* A send is staged by the scan that will credit it.
LEMMA StageStep ==
    ASSUME IInv, RInv, BInv, [Next]_vars, NEW s \in Sends, stage_sender_fascia(s)
    PROVE  BInv'
<1>0. s \in Ops /\ TypeOK
  BY DEF Ops, IInv
<1>1. /\ lock = s /\ pc = "stage" /\ pc' = "replay"
      /\ UNCHANGED <<ops, utxos, alloc, promoting>>
      /\ \A t \in Sends : pend'[t] = IF t = s THEN "staged" ELSE pend[t]
  BY <1>0 DEF stage_sender_fascia, At, Goto, recovery, TypeOK
<1>2. ~Credited(s)
  <2>1. Reached(slots, s, ops[s], work, "stage") /\ Grows(ops[s], work)
    BY <1>0, <1>1, HolderStarts
  <2> QED BY <2>1 DEF Reached, Grows, Credited
<1>3. \A t \in Sends : (Credited(t)' <=> Credited(t)) /\ (Consumed(t)' <=> Consumed(t))
  BY <1>1 DEF Credited, Consumed
<1>4. StockFirst'
  <2>1. CreditReady'
    BY <1>1 DEF CreditReady
  <2>2. promoting # None => promoting \in Sends
    BY <1>0 DEF TypeOK
  <2> QED BY <1>1, <1>2, <1>3, <2>1, <2>2 DEF BInv, StockFirst
<1>5. BalanceBacked'
  BY <1>1 DEF BInv, BalanceBacked, Credited, BroughtBy
<1> QED BY <1>4, <1>5 DEF BInv

\* Credit tracks an output the stock has, or has had until another send moved
\* it, and takes the inputs of a send off in the same transaction.
LEMMA CreditStep ==
    ASSUME IInv, RInv, BInv, [Next]_vars, NEW x \in Ops, credit(x)
    PROVE  BInv'
<1>0. TypeOK /\ x # None
  BY IdsAssumption DEF IInv
<1>1. /\ lock = x /\ pc = "credit" /\ pc' = "save"
      /\ UNCHANGED <<alloc, pend, promoting>>
      /\ \A o \in Outpoints :
            utxos'[o] = IF o = OutpointOf(x, work) THEN "confirmed"
                        ELSE IF o \in work.inputs THEN "absent" ELSE utxos[o]
      /\ \A y \in Ops : y # x => ops'[y] = ops[y]
      /\ ops'[x] = [work EXCEPT !.status = "settled"]
  BY <1>0 DEF credit, At, Goto, save, recovery, TypeOK
<1>2. /\ x \in Sends => pend[x] = "confirmed" /\ Consumed(x)
      /\ x \in Receives => Seen(work.outpoint)
  BY <1>0, <1>1 DEF BInv, StockFirst, CreditReady
<1>3. ASSUME x \in Sends PROVE ops[x].moves \subseteq work.inputs
  <2>1. RecordOK(slots, x, work) /\ Grows(ops[x], work) /\ Reached(slots, x, ops[x], work, "credit")
    BY <1>1, HolderStarts
  <2>2. ops[x].moves \subseteq work.moves
    <3>1. CASE ops[x].proof # None
      BY <2>1, <3>1 DEF Grows
    <3>2. CASE ops[x].proof = None
      <4>1. Exists(x)
        BY <1>1, HolderStarts
      <4>2. ops[x].moves = {}
        BY <1>3, <3>2, <4>1 DEF RInv, StoredOK, RecordOK, SendRecord
      <4> QED BY <4>2
    <3> QED BY <3>1, <3>2
  <2> QED BY <1>3, <2>1, <2>2 DEF RecordOK, SendRecord
<1>4. \A s \in Sends : Consumed(s) => Consumed(s)'
  BY <1>1, ConsumedLasts DEF Seen
<1>5. \A s \in Sends : Credited(s)' => Credited(s) \/ s = x
  BY <1>1 DEF Credited, Ops
<1>6. StockFirst'
  <2>1. CreditReady'
    BY <1>1 DEF CreditReady
  <2>2. promoting # None => promoting \in Sends
    BY <1>0 DEF TypeOK
  <2> QED BY <1>1, <1>2, <1>4, <1>5, <2>1, <2>2 DEF BInv, StockFirst
<1>7. \A o : o = OutpointOf(x, work) => Brought(o)'
  <2>1. ops'[x].status = "settled" /\ ops'[x].outpoint = work.outpoint
    BY <1>0, <1>1 DEF TypeOK, Records
  <2>2. OutpointOf(x, ops'[x]) = OutpointOf(x, work)
    BY <2>1 DEF OutpointOf
  <2> QED BY <2>1, <2>2 DEF Brought, BroughtBy, Credited
<1>8. ASSUME NEW o \in Outpoints, utxos'[o] # "absent"
      PROVE  Backed(o)'
  <2>1. CASE o = OutpointOf(x, work)
    <3>1. Seen(o)
      BY <1>2, <2>1 DEF OutpointOf, Seen, Consumed, Ops
    <3>2. Seen(o)'
      BY <1>1, <3>1, SeenLasts DEF Seen
    <3>3. Brought(o)'
      BY <1>7, <2>1
    <3> QED BY <3>2, <3>3 DEF Seen, Backed
  <2>2. CASE o # OutpointOf(x, work)
    <3>1. utxos[o] # "absent" /\ o \notin work.inputs
      BY <1>1, <1>8, <2>2
    <3>2. Backed(o)
      BY <3>1, TrackedBacked DEF BInv
    <3>3. \A s \in Sends : o \in ops[s].moves /\ Credited(s)' => Credited(s)
      BY <1>3, <1>5, <3>1
    <3> QED BY <1>1, <3>2, <3>3, BackedLasts
  <2> QED BY <2>1, <2>2
<1>9. BalanceBacked'
  BY <1>8 DEF BalanceBacked, Backed, Brought
<1> QED BY <1>6, <1>9 DEF BInv

-----------------------------------------------------------------------------
(* Every step.                                                             *)

\* Credit happens at its place under the lock and moves the holder on.
LEMMA NoCredit ==
    ASSUME lock = None \/ pc # "credit" \/ pc' # "save"
    PROVE  \A s \in Sends : ~credit(s)
BY IdsAssumption DEF credit, At, Goto, Ops

\* A request changes no stock; a query only drops tracked outputs.
LEMMA ClientKeeps ==
    ASSUME IInv, RInv, BInv, [Next]_vars, Client
    PROVE  BInv'
<1>1. ASSUME NEW r \in Receives, NEW blind \in Outpoints \cup {None}, Receive(r, blind)
      PROVE  BInv'
  BY <1>1, NoCredit, IdleStep DEF Receive, new_record, holder, recovery
<1>2. ASSUME NEW s \in Sends, NEW inputs \in SUBSET Outpoints, NEW slot \in Slots,
             Prepare(s, inputs, slot)
      PROVE  BInv'
  BY <1>2, NoCredit, IdleStep DEF Prepare, new_record, recovery
<1>3. ASSUME NEW s \in Sends, Finalize(s) PROVE BInv'
  BY <1>3, NoCredit, IdleStep DEF Finalize, holder, recovery
<1>4. ASSUME NEW x \in Ops, Cancel(x) PROVE BInv'
  BY <1>4, NoCredit, IdleStep DEF Cancel, holder, recovery
<1>5. ASSUME NEW a \in Accounts, LegacyPrepare(a) PROVE BInv'
  BY <1>5, NoCredit, IdleStep DEF LegacyPrepare, holder, recovery
<1>6. ASSUME NEW a \in Accounts, QueryList(a) PROVE BInv'
  <2>1. \A o \in Outpoints : utxos'[o] # "absent" => utxos[o] # "absent"
    BY <1>6 DEF QueryList, account_rgb20_utxos, mark_confirmed
  <2>2. UNCHANGED <<alloc, pend, lock, work, pc, promoting>>
    BY <1>6 DEF QueryList, holder, recovery
  <2> QED BY <2>1, <2>2, NoCredit, IdleStep
<1>7. ASSUME NEW a \in Accounts, QueryClean(a) PROVE BInv'
  <2>1. \A o \in Outpoints : utxos'[o] # "absent" => utxos[o] # "absent"
    BY <1>7 DEF QueryClean
  <2>2. UNCHANGED <<alloc, pend, lock, work, pc, promoting>>
    BY <1>7 DEF QueryClean, holder, recovery
  <2> QED BY <2>1, <2>2, NoCredit, IdleStep
<1> QED BY <1>1, <1>2, <1>3, <1>4, <1>5, <1>6, <1>7 DEF Client

\* advance_send comes to credit only with its carrier marked as promoted.
LEMMA SendKeeps ==
    ASSUME IInv, RInv, BInv, [Next]_vars, NEW s \in Sends, SendStep(s)
    PROVE  BInv'
<1>0. s \in Ops /\ s \notin Receives /\ s # None
  BY IdsAssumption DEF Ops
<1>1. CASE finish_preparation(s)
  BY <1>1, NoCredit, IdleStep DEF finish_preparation, SaveAndGo, At, Goto, durable, recovery
<1>2. CASE upload(s)
  BY <1>2, NoCredit, IdleStep DEF upload, At, Goto, durable, recovery
<1>3. CASE SaveDelivered(s)
  BY <1>3, NoCredit, IdleStep DEF SaveDelivered, SaveAndGo, At, Goto, recovery
<1>4. CASE MarkUnknown(s)
  BY <1>4, NoCredit, IdleStep DEF MarkUnknown, SaveAndGo, At, Goto, recovery
<1>5. CASE broadcast(s)
  BY <1>5, NoCredit, IdleStep DEF broadcast, At, Goto, durable, recovery
<1>6. CASE SaveBroadcast(s)
  BY <1>6, NoCredit, IdleStep DEF SaveBroadcast, SaveAndGo, At, Goto, recovery
<1>7. ASSUME UNCHANGED <<utxos, alloc, pend, promoting>>, lock = s, lock' = s, pc # "credit",
             pc' \in {"save", "stage"} \/ (pc' = "credit" /\ pend[s] = "confirmed")
      PROVE  BInv'
  <2>1. CreditReady'
    BY <1>0, <1>7 DEF CreditReady
  <2> QED BY <1>7, <2>1, NoCredit, QuietStep
<1>8. CASE Observe(s)
  <2>1. UNCHANGED <<utxos, alloc, pend, promoting>>
    BY <1>8 DEF Observe, durable, recovery
  <2>2. lock = s /\ lock' = s /\ pc = "observe"
    BY <1>8 DEF Observe, At, Goto
  <2>3. pc' \in {"save", "stage"} \/ (pc' = "credit" /\ pend[s] = "confirmed")
    BY <1>8 DEF Observe, Goto
  <2> QED BY <1>7, <2>1, <2>2, <2>3
<1>9. CASE stage_sender_fascia(s)
  BY <1>9, StageStep
<1>10. CASE Promote(s)
  <2>1. ASSUME NEW t \in Promotable(AccountOf[s]), replay_pending(t), Goto("mark_promoted")
        PROVE  BInv'
    BY <2>1, ReplayStep DEF Promotable, Goto
  <2>2. ASSUME Goto(IF pend[s] = "confirmed" THEN "credit" ELSE "save"),
               UNCHANGED <<durable, recovery>>
        PROVE  BInv'
    <3>1. UNCHANGED <<utxos, alloc, pend, promoting>>
      BY <2>2 DEF durable, recovery
    <3>2. lock = s /\ lock' = s /\ pc = "replay"
      BY <1>10, <2>2 DEF Promote, At, Goto
    <3>3. pc' = "save" \/ (pc' = "credit" /\ pend[s] = "confirmed")
      BY <2>2 DEF Goto
    <3> QED BY <1>7, <3>1, <3>2, <3>3
  <2> QED BY <1>10, <2>1, <2>2 DEF Promote
<1>11. CASE MarkPromoted(s)
  <2>1. promoting # None
    BY <1>0, <1>11 DEF MarkPromoted, At, BInv, StockFirst
  <2> QED BY <1>11, <2>1, MarkStep DEF MarkPromoted, Goto
<1> QED BY <1>1, <1>2, <1>3, <1>4, <1>5, <1>6, <1>8, <1>9, <1>10, <1>11 DEF SendStep

\* advance_receive comes to credit only through acceptance into the stock.
LEMMA ReceiveKeeps ==
    ASSUME IInv, RInv, BInv, [Next]_vars, NEW r \in Receives, ReceiveStep(r)
    PROVE  BInv'
<1>0. r \in Ops /\ r \notin Sends /\ r # None
  BY IdsAssumption DEF Ops
<1>1. ASSUME UNCHANGED <<utxos, alloc, pend, recovery>>, pc # "credit",
             pc' \notin {"credit", "mark_promoted"}
      PROVE  BInv'
  BY <1>1, NoCredit, IdleStep DEF recovery
<1>2. CASE Fetch(r)
  BY <1>1, <1>2 DEF Fetch, SaveAndGo, At, Goto, durable
<1>3. CASE Validate(r)
  BY <1>1, <1>3 DEF Validate, SaveAndGo, At, Goto, durable
<1>4. CASE PostNack(r)
  BY <1>1, <1>4 DEF PostNack, At, Goto, durable
<1>5. CASE PostAck(r)
  BY <1>1, <1>5 DEF PostAck, At, Goto, durable
<1>6. CASE SaveAck(r)
  BY <1>1, <1>6 DEF SaveAck, SaveAndGo, At, Goto
<1>7. CASE Confirm(r)
  BY <1>1, <1>7 DEF Confirm, At, Goto, durable
<1>8. CASE Accept(r)
  <2>1. /\ UNCHANGED <<ops, utxos, pend, promoting, lock, work>>
        /\ lock = r /\ pc = "accept" /\ pc' = "credit"
        /\ alloc' = alloc \cup Arriving(work.outpoint)
    BY <1>8 DEF Accept, At, Goto, recovery
  <2>2. Seen(work.outpoint)'
    BY <2>1 DEF Seen, Arriving
  <2>3. CreditReady'
    BY <1>0, <2>1, <2>2 DEF CreditReady
  <2> QED BY <2>1, <2>3, NoCredit, QuietStep
<1> QED BY <1>2, <1>3, <1>4, <1>5, <1>6, <1>7, <1>8 DEF ReceiveStep

\* The recovery scan consumes, then marks, and only confirms what is tracked.
LEMMA RecoveryKeeps ==
    ASSUME IInv, RInv, BInv, [Next]_vars, NEW t \in Sends, RecoveryStep(t)
    PROVE  BInv'
<1>0. t # None
  BY IdsAssumption DEF Ops
<1>1. CASE RecoveryReplay(t)
  BY <1>1, ReplayStep DEF RecoveryReplay, Promotable, holder
<1>2. CASE RecoveryMark(t)
  BY <1>0, <1>2, MarkStep DEF RecoveryMark, holder, recovery
<1>3. CASE RecoveryTrack(t)
  <2>1. \A o \in Outpoints : utxos'[o] # "absent" => utxos[o] # "absent"
    BY <1>3 DEF RecoveryTrack, mark_confirmed
  <2>2. /\ UNCHANGED <<ops, alloc, pend, lock, work, pc>>
        /\ promoting' = None /\ pc # "mark_promoted"
    BY <1>3 DEF RecoveryTrack, holder
  <2>3. CreditReady'
    <3>1. Seen(work.outpoint) => Seen(work.outpoint)'
      BY <2>2 DEF Seen
    <3> QED BY <2>2, <3>1 DEF CreditReady, BInv, StockFirst
  <2> QED BY <2>1, <2>2, <2>3, NoCredit, QuietStep
<1> QED BY <1>1, <1>2, <1>3 DEF RecoveryStep

\* Every step keeps stock and balance in line.
LEMMA NextBInv ==
    ASSUME IInv, RInv, BInv, [Next]_vars
    PROVE  BInv'
<1>1. CASE Client
  BY <1>1, ClientKeeps
<1>2. ASSUME NEW x \in Ops, Scan(x) PROVE BInv'
  <2>1. advance(x) \notin {"credit", "mark_promoted"}
    BY DEF advance, send_entry, receive_entry
  <2> QED BY <1>2, <2>1, NoCredit, IdleStep DEF Scan, durable, recovery
<1>3. ASSUME NEW x \in Ops, HolderStep(x) PROVE BInv'
  <2>1. CASE x \in Sends /\ SendStep(x)
    BY <2>1, SendKeeps
  <2>2. CASE x \in Receives /\ ReceiveStep(x)
    BY <2>2, ReceiveKeeps
  <2>3. CASE credit(x)
    BY <2>3, CreditStep
  <2>4. CASE Recheck(x)
    <3>1. \A o \in Outpoints : utxos'[o] # "absent" => utxos[o] # "absent"
      BY <2>4 DEF Recheck, IInv, TypeOK
    <3>2. UNCHANGED <<alloc, pend, promoting>> /\ pc = "recheck" /\ pc' = "save"
      BY <2>4 DEF Recheck, At, Goto, recovery
    <3> QED BY <3>1, <3>2, NoCredit, IdleStep
  <2>5. CASE ScanSave(x)
    BY <2>5, NoCredit, IdleStep DEF ScanSave, At, Release, recovery
  <2> QED BY <1>3, <2>1, <2>2, <2>3, <2>4, <2>5 DEF HolderStep
<1>4. ASSUME NEW s \in Sends, RecoveryStep(s) PROVE BInv'
  BY <1>4, RecoveryKeeps
<1>5. ASSUME NEW a \in Accounts, Unregister(a) PROVE BInv'
  BY <1>5, NoCredit, IdleStep DEF Unregister, durable, holder
<1>6. CASE World
  <2>1. UNCHANGED <<alloc, pend, utxos, lock, work, pc, promoting>>
    BY <1>6 DEF World, PeerPost, PeerAnswer, Publish, Mine, Expire, durable, holder, recovery
  <2> QED BY <2>1, NoCredit, IdleStep
<1>7. CASE Fault
  <2>1. UNCHANGED <<alloc, pend, utxos>> /\ promoting' \in {promoting, None}
    BY <1>7 DEF Fault, Crash, CallFails, ReplyLost, Reorg, Evict, ForeignSpend, durable, recovery
  <2>2. \/ UNCHANGED <<lock, work, pc, promoting>>
        \/ lock' = None /\ pc' = "idle"
        \/ pc' = "save" /\ pc # "credit"
    BY <1>7 DEF Fault, Crash, CallFails, ReplyLost, Reorg, Evict, ForeignSpend, Release, Goto,
                holder, recovery
  <2> QED BY <2>1, <2>2, NoCredit, IdleStep
<1>8. CASE UNCHANGED vars
  <2>1. UNCHANGED <<alloc, pend, utxos, lock, work, pc, promoting>>
    BY <1>8 DEF vars, durable, holder, recovery
  <2> QED BY <2>1, NoCredit, IdleStep
<1> QED BY <1>1, <1>2, <1>3, <1>4, <1>5, <1>6, <1>7, <1>8 DEF Next

\* At the start the tracked outputs are the coins with allocations.
LEMMA InitBInv ==
    ASSUME Init PROVE BInv
<1>1. \A x \in Ops : ops[x] = Absent
  BY DEF Init
<1>2. \A s \in Sends : ~Credited(s) /\ pend[s] = "none"
  BY <1>1 DEF Init, Credited, Absent, Ops
<1>3. StockFirst
  BY <1>2 DEF Init, StockFirst, CreditReady
<1>4. BalanceBacked
  BY DEF Init, BalanceBacked
<1> QED BY <1>3, <1>4 DEF BInv

\* THEOREM: in every behaviour, whatever the engine shows in a balance is
\* backed by the stock of the account: credit follows promotion and acceptance
\* through crashes, failed calls, recovery scans and queries beside both.
THEOREM BalanceIsBacked == Spec => []BalanceBacked
<1>1. Init => BInv
  BY InitBInv
<1>2. IInv /\ RInv /\ BInv /\ [Next]_vars => BInv'
  BY NextBInv
<1>3. BInv => BalanceBacked
  BY DEF BInv
<1> QED BY <1>1, <1>2, <1>3, RecordsHold, PTL DEF Spec

==============================================================================
