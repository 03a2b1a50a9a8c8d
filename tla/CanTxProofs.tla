----------------------------- MODULE CanTxProofs -----------------------------
(***************************************************************************)
(* Proofs about the CAN driver's transmit path, for every number of        *)
(* buffers, every set of mailboxes and every width of CANtxCount.          *)
(***************************************************************************)
EXTENDS CanTx, CanTxOpsProofs, FiniteSetTheorems

\* Sets of buffer indices are finite.
LEMMA SubsetsFinite ==
    ASSUME NEW S \in SUBSET TxBuffers
    PROVE  IsFiniteSet(S) /\ Cardinality(S) \in Nat
<1>1. IsFiniteSet(TxBuffers)
  BY CanTxAssumption, FS_Interval DEF TxBuffers
<1>2. QED
  BY <1>1, FS_Subset, FS_CardinalityType

\* A poll that sends takes its buffer out of full, one off the counter, and
\* loads one free mailbox.
LEMMA PollSendsSpec ==
    ASSUME TypeOK, FreeBoxes(tx) # {}, NEW b \in TxBuffers, PollSends(b)
    PROVE  /\ tx' \in TxRecord(TxBuffers)
           /\ tx'.full = tx.full \ {b}
           /\ tx'.count = tx.count - 1
           /\ \E k \in Mailboxes :
                 /\ tx.box[k] = NoFrame
                 /\ tx'.box = [tx.box EXCEPT ![k] = b]
<1> DEFINE p == [PollFlags EXCEPT !.inhibit = syncFlag(b),
                                  !.full = @ \ {b}, !.count = @ - 1]
<1>1. tx \in TxRecord(TxBuffers)
  BY DEF TypeOK
<1>2. /\ PollFlags \in TxRecord(TxBuffers) /\ PollFlags.box = tx.box
      /\ PollFlags.count = tx.count /\ PollFlags.full = tx.full
  BY <1>1 DEF PollFlags, TxRecord
<1>3. tx.count - 1 \in 0 .. CountRange - 1
  <2>1. tx.count \in 0 .. CountRange - 1 /\ tx.count > 0
    BY <1>1 DEF PollSends, TxRecord
  <2>2. QED
    BY <2>1, CanTxAssumption
<1>4. /\ p \in TxRecord(TxBuffers) /\ p.box = tx.box
      /\ p.full = tx.full \ {b} /\ p.count = tx.count - 1
  BY <1>2, <1>3, SyncFlagType DEF TxRecord
<1>5. FreeBoxes(p) # {}
  BY <1>4 DEF FreeBoxes
<1>6. tx' = AddTxMessage(p, b)
  BY DEF PollSends
<1> HIDE DEF p
<1>7. PICK k \in Mailboxes : /\ p.box[k] = NoFrame
                             /\ tx' = [p EXCEPT !.box = [p.box EXCEPT ![k] = b]]
  BY <1>4, <1>5, <1>6, AddTxMessageSpec
<1>8. tx' \in TxRecord(TxBuffers)
  BY <1>4, <1>5, <1>6, AddTxMessageSpec
<1>9. tx'.full = p.full /\ tx'.count = p.count /\ tx'.box = [p.box EXCEPT ![k] = b]
  BY <1>4, <1>7 DEF TxRecord
<1>10. QED
  BY <1>4, <1>7, <1>8, <1>9

\* The contents the mailboxes can have.
Boxes == [Mailboxes -> TxBuffers \cup {NoFrame}]

\* CO_CANmodule_init leaves a well-typed record.
LEMMA TypeInit == Init => TypeOK
<1>1. 0 \in 0 .. CountRange - 1
  BY CanTxAssumption
<1>2. CANmodule_init \in TxRecord(TxBuffers)
  BY <1>1 DEF CANmodule_init, TxRecord
<1>3. QED
  BY <1>2 DEF Init, TypeOK

\* Every step keeps the record well-typed.
LEMMA TypeStep == TypeOK /\ [Next]_vars => TypeOK'
<1> SUFFICES ASSUME TypeOK, [Next]_vars PROVE TypeOK'
  OBVIOUS
<1>0. tx \in TxRecord(TxBuffers) /\ overflow \in BOOLEAN /\ wrapped \in BOOLEAN
  BY DEF TypeOK
<1>1. ASSUME NEW b \in TxBuffers, Send(b) PROVE TypeOK'
  BY <1>0, <1>1, CANsendSpec DEF Send, TypeOK
<1>2. ASSUME NEW b \in ClearedBuffers, Clear(b) PROVE TypeOK'
  BY <1>0, <1>2 DEF Clear, TxBufferClear, TypeOK, TxRecord
<1>3. ASSUME ClearPendingSyncPDOs PROVE TypeOK'
  <2>1. Cardinality(PendingSync) \in Nat
    <3>1. PendingSync \subseteq TxBuffers
      BY <1>0, TxShape DEF PendingSync
    <3>2. QED
      BY <3>1, SubsetsFinite
  <2>2. (tx.count - Cardinality(PendingSync)) % CountRange \in 0 .. CountRange - 1
    BY <2>1, <1>0, CanTxAssumption, TxShape
  <2>3. QED
    BY <1>0, <1>3, <2>2 DEF ClearPendingSyncPDOs, TypeOK, TxRecord
<1>4. ASSUME CANpolling_Tx PROVE TypeOK'
  <2>1. PollFlags \in TxRecord(TxBuffers) /\ PollFlags.box = tx.box
    BY <1>0 DEF PollFlags, TxRecord
  <2>2. CASE PollNothingToSend
    BY <1>0, <1>4, <2>1, <2>2 DEF PollNothingToSend, CANpolling_Tx, TypeOK
  <2>3. CASE PollNoneFull
    BY <1>0, <1>4, <2>1, <2>3, CanTxAssumption DEF PollNoneFull, CANpolling_Tx, TypeOK, TxRecord
  <2>4. ASSUME NEW b \in TxBuffers, PollSends(b) PROVE TypeOK'
    BY <1>0, <1>4, <2>4, PollSendsSpec DEF CANpolling_Tx, TypeOK
  <2>5. QED
    BY <1>4, <2>2, <2>3, <2>4 DEF CANpolling_Tx
<1>5. ASSUME NEW m \in Mailboxes, Transmitted(m) PROVE TypeOK'
  BY <1>0, <1>5 DEF Transmitted, MailboxDone, TypeOK, TxRecord
<1>6. CASE UNCHANGED vars
  BY <1>0, <1>6 DEF vars, TypeOK
<1>7. QED
  BY <1>1, <1>2, <1>3, <1>4, <1>5, <1>6 DEF Next

\* TypeOK is an invariant of CanTx, whether or not the counter wraps.
THEOREM CanTxTypeCorrect == Spec => []TypeOK
  BY TypeInit, TypeStep, PTL DEF Spec

-----------------------------------------------------------------------------
(***************************************************************************)
(* The inductive invariant.  TypeOK bounds the counter, CountCoversFull    *)
(* says that it misses no full buffer; CO_CANsend counts a full buffer     *)
(* twice, and a buffer cleared by its owner stays counted, so equality is  *)
(* not preserved and the inequality is what is left.                       *)
(***************************************************************************)
CountInv == TypeOK /\ CountCoversFull

\* It leaves an empty queue and a zero counter.
LEMMA CountInit == Init => CountInv
<1>1. Init => TypeOK
  BY TypeInit
<1>2. Init => CountCoversFull
  BY FS_EmptySet DEF Init, CANmodule_init, CountCoversFull
<1>3. QED
  BY <1>1, <1>2 DEF CountInv

\* Every step keeps the counter at or above the number of full buffers, until it wraps.
LEMMA CountStep == CountInv /\ [Next]_vars => CountInv'
<1> SUFFICES ASSUME CountInv, [Next]_vars, ~wrapped'
             PROVE  Cardinality(tx'.full) <= tx'.count
  BY TypeStep DEF CountInv, CountCoversFull
<1>1. tx \in TxRecord(TxBuffers) /\ TypeOK
  BY DEF CountInv, TypeOK
<1>2. ~wrapped
  BY DEF Next, vars, Send, Clear, ClearPendingSyncPDOs, CANpolling_Tx, Transmitted, CountInv, TypeOK
<1>3. Cardinality(tx.full) <= tx.count
  BY <1>2 DEF CountInv, CountCoversFull
<1>4. /\ IsFiniteSet(tx.full) /\ Cardinality(tx.full) \in Nat
      /\ tx.count \in Nat /\ tx.count < CountRange /\ tx.full \in SUBSET TxBuffers
  <2>1. tx.full \in SUBSET TxBuffers /\ tx.count \in 0 .. CountRange - 1
    BY <1>1 DEF TxRecord
  <2>2. QED
    BY <2>1, SubsetsFinite, CanTxAssumption
<1>5. ASSUME NEW b \in TxBuffers, Send(b)
      PROVE  Cardinality(tx'.full) <= tx'.count
  <2>1. CASE SendsAtOnce(tx)
    <3>1. tx'.full = tx.full /\ tx'.count = tx.count
      BY <1>1, <1>5, <2>1, CANsendSpec DEF Send
    <3>2. QED
      BY <3>1, <1>3
  <2>2. CASE ~SendsAtOnce(tx)
    <3>1. tx'.full = tx.full \cup {b} /\ tx'.count = (tx.count + 1) % CountRange
      BY <1>1, <1>5, <2>2, CANsendSpec DEF Send
    <3>2. tx.count # CountRange - 1
      BY <1>5, <2>2 DEF Send
    <3>3. (tx.count + 1) % CountRange = tx.count + 1
      BY <3>2, <1>4, CanTxAssumption
    <3>4. Cardinality(tx.full \cup {b}) <= Cardinality(tx.full) + 1
      BY <1>4, FS_AddElement
    <3>5. Cardinality(tx.full \cup {b}) \in Nat
      BY <1>4, FS_AddElement
    <3>6. QED
      BY <3>1, <3>3, <3>4, <3>5, <1>3, <1>4
  <2>3. QED
    BY <2>1, <2>2
<1>6. ASSUME NEW b \in ClearedBuffers, Clear(b)
      PROVE  Cardinality(tx'.full) <= tx'.count
  <2>1. tx'.full = tx.full \ {b} /\ tx'.count = tx.count
    BY <1>1, <1>6 DEF Clear, TxBufferClear, TxRecord
  <2>2. Cardinality(tx.full \ {b}) <= Cardinality(tx.full) /\ Cardinality(tx.full \ {b}) \in Nat
    <3>1. tx.full \ {b} \in SUBSET tx.full
      OBVIOUS
    <3>2. QED
      BY <3>1, <1>4, FS_Subset, FS_CardinalityType
  <2>3. QED
    BY <2>1, <2>2, <1>3, <1>4
<1>7. ASSUME ClearPendingSyncPDOs
      PROVE  Cardinality(tx'.full) <= tx'.count
  <2>1. /\ tx'.full = tx.full \ PendingSync
        /\ tx'.count = (tx.count - Cardinality(PendingSync)) % CountRange
    BY <1>1, <1>7 DEF ClearPendingSyncPDOs, TxRecord
  <2>2. PendingSync \in SUBSET tx.full
    BY DEF PendingSync
  <2>3. /\ Cardinality(PendingSync) \in Nat
        /\ Cardinality(PendingSync) <= Cardinality(tx.full)
    BY <2>2, <1>4, FS_Subset, FS_CardinalityType
  <2>4. Cardinality(tx.full \ PendingSync) = Cardinality(tx.full) - Cardinality(PendingSync)
    <3>1. tx.full \cap PendingSync = PendingSync
      BY <2>2
    <3>2. QED
      BY <3>1, <1>4, FS_Difference
  <2>5. (tx.count - Cardinality(PendingSync)) % CountRange = tx.count - Cardinality(PendingSync)
    BY <2>3, <1>3, <1>4, CanTxAssumption
  <2>6. QED
    BY <2>1, <2>3, <2>4, <2>5, <1>3, <1>4
<1>8. ASSUME CANpolling_Tx
      PROVE  Cardinality(tx'.full) <= tx'.count
  <2>1. PollFlags.full = tx.full /\ PollFlags.count = tx.count /\ PollFlags \in TxRecord(TxBuffers)
    BY <1>1 DEF PollFlags, TxRecord
  <2>2. CASE PollNothingToSend
    BY <2>1, <2>2, <1>3 DEF PollNothingToSend
  <2>3. CASE PollNoneFull
    <3>1. tx'.full = {} /\ tx'.count = 0
      BY <2>1, <2>3 DEF PollNoneFull, TxRecord
    <3>2. QED
      BY <3>1, FS_EmptySet
  <2>4. ASSUME NEW b \in TxBuffers, PollSends(b)
        PROVE  Cardinality(tx'.full) <= tx'.count
    <3>1. tx'.full = tx.full \ {b} /\ tx'.count = tx.count - 1
      BY <1>1, <1>8, <2>4, PollSendsSpec DEF CANpolling_Tx
    <3>2. b \in tx.full
      BY <2>4 DEF PollSends, LowestFull
    <3>3. Cardinality(tx.full \ {b}) = Cardinality(tx.full) - 1
      BY <3>2, <1>4, FS_RemoveElement
    <3>4. QED
      BY <3>1, <3>3, <1>3, <1>4
  <2>5. QED
    BY <1>8, <2>2, <2>3, <2>4 DEF CANpolling_Tx
<1>9. ASSUME NEW m \in Mailboxes, Transmitted(m)
      PROVE  Cardinality(tx'.full) <= tx'.count
  <2>1. tx'.full = tx.full /\ tx'.count = tx.count
    BY <1>1, <1>9 DEF Transmitted, MailboxDone, TxRecord
  <2>2. QED
    BY <2>1, <1>3
<1>10. CASE UNCHANGED vars
  BY <1>10, <1>3 DEF vars
<1>11. QED
  BY <1>5, <1>6, <1>7, <1>8, <1>9, <1>10 DEF Next

\* CANtxCount never misses a full buffer before it has wrapped
\* (CO_CANsend, CO_CANclearPendingSyncPDOs, CO_CANpolling_Tx).
THEOREM CanTxCountCovers == Spec => []CountCoversFull
<1>1. CountInv => CountCoversFull
  BY DEF CountInv
<1>2. QED
  BY <1>1, CountInit, CountStep, PTL DEF Spec

-----------------------------------------------------------------------------
\* A step of the driver that starts before the counter has wrapped is a step
\* of the priority queue, or leaves the queue alone.
LEMMA QueueStep ==
    ASSUME CountInv, ~wrapped, [Next]_vars
    PROVE  [Queue!Next]_(Queue!queueVars)
<1>1. tx \in TxRecord(TxBuffers) /\ TypeOK
  BY DEF CountInv, TypeOK
<1>2. Cardinality(tx.full) <= tx.count
  BY DEF CountInv, CountCoversFull
<1>3. IsFiniteSet(tx.full) /\ Cardinality(tx.full) \in Nat /\ tx.count \in Nat
  <2>1. tx.full \in SUBSET TxBuffers /\ tx.count \in 0 .. CountRange - 1
    BY <1>1 DEF TxRecord
  <2>2. QED
    BY <2>1, SubsetsFinite, CanTxAssumption
<1>4. ASSUME NEW b \in TxBuffers, Send(b)
      PROVE  Queue!SubmitAtOnce(b) \/ Queue!SubmitAndWait(b)
  <2>1. CASE SendsAtOnce(tx)
    <3>1. tx.full = {}
      BY <2>1, <1>2, <1>3, FS_EmptySet DEF SendsAtOnce
    <3>2. /\ tx'.full = tx.full
          /\ \E k \in Mailboxes : /\ tx.box[k] = NoFrame
                                  /\ tx'.box = [tx.box EXCEPT ![k] = b]
      BY <1>1, <1>4, <2>1, CANsendSpec DEF Send
    <3>3. QED
      BY <3>1, <3>2 DEF Queue!SubmitAtOnce, Queue!Load
  <2>2. CASE ~SendsAtOnce(tx)
    <3>1. tx'.full = tx.full \cup {b} /\ tx'.box = tx.box
      BY <1>1, <1>4, <2>2, CANsendSpec DEF Send
    <3>2. QED
      BY <3>1 DEF Queue!SubmitAndWait
  <2>3. QED
    BY <2>1, <2>2
<1>5. ASSUME NEW b \in ClearedBuffers, Clear(b)
      PROVE  Queue!Withdraw({b})
  BY <1>1, <1>5 DEF Clear, TxBufferClear, TxRecord, Queue!Withdraw
<1>6. ASSUME ClearPendingSyncPDOs
      PROVE  Queue!Withdraw(PendingSync)
  BY <1>1, <1>6 DEF ClearPendingSyncPDOs, TxRecord, Queue!Withdraw
<1>7. ASSUME CANpolling_Tx
      PROVE  \/ \E b \in TxBuffers : Queue!HandOver(b)
             \/ UNCHANGED Queue!queueVars
  <2>1. /\ PollFlags.full = tx.full /\ PollFlags.box = tx.box
        /\ PollFlags \in TxRecord(TxBuffers)
    BY <1>1 DEF PollFlags, TxRecord
  <2>2. CASE PollNothingToSend
    BY <2>1, <2>2 DEF PollNothingToSend, Queue!queueVars
  <2>3. CASE PollNoneFull
    <3>1. tx'.full = tx.full /\ tx'.box = tx.box
      BY <2>1, <2>3 DEF PollNoneFull, TxRecord
    <3>2. QED
      BY <3>1 DEF Queue!queueVars
  <2>4. ASSUME NEW b \in TxBuffers, PollSends(b)
        PROVE  Queue!HandOver(b)
    <3>1. /\ tx'.full = tx.full \ {b}
          /\ \E k \in Mailboxes : /\ tx.box[k] = NoFrame
                                  /\ tx'.box = [tx.box EXCEPT ![k] = b]
      BY <1>1, <1>7, <2>4, PollSendsSpec DEF CANpolling_Tx
    <3>2. LowestFull(b)
      BY <2>4 DEF PollSends
    <3>3. QED
      BY <3>1, <3>2 DEF LowestFull, Queue!HandOver, Queue!Load
  <2>5. QED
    BY <1>7, <2>2, <2>3, <2>4 DEF CANpolling_Tx
<1>8. ASSUME NEW m \in Mailboxes, Transmitted(m)
      PROVE  Queue!Transmit(m)
  BY <1>1, <1>8 DEF Transmitted, MailboxDone, TxRecord, Queue!Transmit
<1>9. CASE UNCHANGED vars
  BY <1>9 DEF vars, Queue!queueVars
<1>10. PendingSync \in SUBSET TxBuffers
  BY <1>1 DEF PendingSync, TxRecord
<1>11. \A b \in ClearedBuffers : {b} \in SUBSET TxBuffers
  BY CallersAssumption
<1>12. QED
  BY <1>4, <1>5, <1>6, <1>7, <1>8, <1>9, <1>10, <1>11 DEF Next, Queue!Next

\* Until CANtxCount wraps, the driver is the priority queue its header
\* describes, whether or not the poll is wired.
THEOREM CanTxImplementsQueue == SpecNoWrap => ImplementsQueue
<1>1. Init => CountInv /\ ~wrapped /\ Queue!Init
  BY CountInit DEF Init, CANmodule_init, Queue!Init
<1>2. (CountInv /\ ~wrapped) /\ [NextNoWrap]_vars => (CountInv /\ ~wrapped)'
  BY CountStep DEF NextNoWrap, vars
<1>3. (CountInv /\ ~wrapped) /\ [NextNoWrap]_vars => [Queue!Next]_(Queue!queueVars)
  BY QueueStep DEF NextNoWrap
<1>4. QED
  BY <1>1, <1>2, <1>3, PTL DEF SpecNoWrap, ImplementsQueue, Queue!Spec

\* No frame overtakes a waiting one of lower index, as long as the counter
\* has not wrapped.
THEOREM CanTxNoOvertaking == Spec => NoOvertaking
<1> DEFINE Order == \A m \in Mailboxes, c \in TxBuffers :
                       /\ ~wrapped
                       /\ tx.box[m] = NoFrame
                       /\ tx'.box[m] # NoFrame
                       /\ c \in tx.full
                       => tx'.box[m] <= c
<1>1. CountInv /\ [Next]_vars => [Order]_vars
  <2> SUFFICES ASSUME CountInv, [Next]_vars, ~wrapped,
                      NEW m \in Mailboxes, NEW c \in tx.full,
                      tx.box[m] = NoFrame, tx'.box[m] # NoFrame
               PROVE  tx'.box[m] <= c
    OBVIOUS
  <2>0. tx.box \in Boxes /\ tx.full \in SUBSET TxBuffers
    BY DEF CountInv, TypeOK, TxRecord, Boxes
  <2>1. [Queue!Next]_(Queue!queueVars)
    BY QueueStep
  <2>2. tx'.box # tx.box
    OBVIOUS
  <2>3. PICK b \in TxBuffers : Queue!SubmitAtOnce(b) \/ Queue!HandOver(b)
    BY <2>0, <2>1, <2>2 DEF Queue!Next, Queue!queueVars, Queue!SubmitAndWait,
       Queue!Withdraw, Queue!Transmit, Boxes
  <2>4. Queue!HandOver(b)
    BY <2>3 DEF Queue!SubmitAtOnce
  <2>5. tx'.box[m] = b
    BY <2>0, <2>4 DEF Queue!HandOver, Queue!Load, Boxes
  <2>6. QED
    BY <2>4, <2>5 DEF Queue!HandOver
<1>2. QED
  BY <1>1, CountInit, CountStep, PTL DEF Spec, NoOvertaking

\* Closing the sync window leaves no synchronous TPDO in the buffers, as long
\* as the counter has not wrapped: CO_CANclearPendingSyncPDOs looks at the
\* buffers only when the counter is not zero.
THEOREM CanTxWindowCloses == Spec => SyncWindowCloses
<1> DEFINE Closes == ClearPendingSyncPDOs /\ ~wrapped => tx'.full \cap SyncBuffers = {}
<1>1. CountInv => [Closes]_vars
  <2> SUFFICES ASSUME CountInv, ClearPendingSyncPDOs, ~wrapped
               PROVE  tx'.full \cap SyncBuffers = {}
    OBVIOUS
  <2>1. /\ tx \in TxRecord(TxBuffers)
        /\ Cardinality(tx.full) <= tx.count
    BY DEF CountInv, TypeOK, CountCoversFull
  <2>2. tx'.full = tx.full \ PendingSync
    BY <2>1 DEF ClearPendingSyncPDOs, TxRecord
  <2>3. ASSUME tx.count = 0
        PROVE  tx.full = {}
    <3>1. IsFiniteSet(tx.full) /\ Cardinality(tx.full) \in Nat
      BY <2>1, TxShape, SubsetsFinite
    <3>2. Cardinality(tx.full) = 0
      BY <2>1, <2>3, <3>1
    <3>3. QED
      BY <3>1, <3>2, FS_EmptySet
  <2>4. CASE tx.count = 0
    BY <2>2, <2>3, <2>4
  <2>5. CASE tx.count # 0
    BY <2>2, <2>5 DEF PendingSync
  <2>6. QED
    BY <2>4, <2>5
<1>2. QED
  BY <1>1, CountInit, CountStep, PTL DEF Spec, SyncWindowCloses
=============================================================================
