-------------------------------- MODULE CanTx --------------------------------
(***************************************************************************)
(* The CAN driver's transmit path under arbitrary callers.  A frame is     *)
(* identified with the index of the buffer it was sent from.               *)
(*                                                                         *)
(* CO_CANpolling_Tx is declared in CO_driver.h and defined in CO_driver.c  *)
(* but called from nowhere, and the transmit interrupt only runs the HAL's *)
(* default callbacks: PollingWired = FALSE is the firmware as it is built, *)
(* TRUE the driver as its header describes it.                             *)
(***************************************************************************)
EXTENDS CanTxOps, FiniteSets

CONSTANTS PollingWired,  \* does the transmit interrupt call CO_CANpolling_Tx?
          ClearedBuffers \* buffers whose owner resets bufferFull itself

ASSUME CallersAssumption ==
    /\ PollingWired \in BOOLEAN
    /\ ClearedBuffers \subseteq TxBuffers

VARIABLES tx,        \* the driver's record, see CanTxOps
          overflow,  \* CO_EM_CAN_TX_OVERFLOW has been reported
          wrapped    \* history: CANtxCount has wrapped around

vars == <<tx, overflow, wrapped>>

Init ==
    /\ tx = CANmodule_init
    /\ overflow = FALSE
    /\ wrapped = FALSE

\* CO_CANsend: the overflow report precedes the critical section.
Send(b) ==
    /\ overflow' = (overflow \/ (b \in tx.full /\ ~tx.first))
    /\ tx' = CANsend(tx, b, b)
    /\ wrapped' = (wrapped \/ (~SendsAtOnce(tx) /\ tx.count = CountRange - 1))

Clear(b) ==
    /\ tx' = TxBufferClear(tx, b)
    /\ UNCHANGED <<overflow, wrapped>>

\* The synchronous TPDOs CO_CANclearPendingSyncPDOs finds: it looks at the
\* buffers only when CANtxCount says that something waits.
PendingSync == IF tx.count = 0 THEN {} ELSE tx.full \cap SyncBuffers

\* Mutant of ClearPendingSyncPDOs: bufferFull is not tested before the counter
\* is decremented.
ClearSyncUntested ==
    /\ tx' = [tx EXCEPT !.inhibit = FALSE,
                        !.full = @ \ PendingSync,
                        !.count = IF @ = 0 THEN 0
                                  ELSE (@ - Cardinality(SyncBuffers)) % CountRange]
    /\ UNCHANGED <<overflow, wrapped>>

\* Mutant of ClearPendingSyncPDOs: it is done once the inhibit flag was set.
ClearSyncOrFlag ==
    /\ tx' = IF tx.inhibit
             THEN [tx EXCEPT !.inhibit = FALSE]
             ELSE [tx EXCEPT !.full = @ \ PendingSync,
                             !.count = (@ - Cardinality(PendingSync)) % CountRange]
    /\ UNCHANGED <<overflow, wrapped>>

\* CO_CANclearPendingSyncPDOs.  The abort of a mailbox is commented out in
\* the code: only the flag and the software buffers change.  The error report
\* CO_EM_TPDO_OUTSIDE_WINDOW that follows is left out: it changes the emergency
\* object, not the driver.
ClearPendingSyncPDOs ==
    /\ tx' = [tx EXCEPT !.inhibit = FALSE,
                        !.full = @ \ PendingSync,
                        !.count = (@ - Cardinality(PendingSync)) % CountRange]
    /\ UNCHANGED <<overflow, wrapped>>

\* The buffer CO_CANpolling_Tx's loop stops at: the lowest full index.
LowestFull(b) == b \in tx.full /\ \A c \in tx.full : b <= c

\* What a poll does first, whenever a mailbox is free.
PollFlags == [tx EXCEPT !.first = FALSE, !.inhibit = FALSE]

PollNothingToSend ==
    /\ tx.count = 0
    /\ tx' = PollFlags

\* Mutant of PollNoneFull: the counter is decremented, also when it is zero.
PollNoneFullDecrements ==
    /\ tx.full = {}
    /\ tx' = [PollFlags EXCEPT !.count = @ - 1]

\* "Clear counter if no more messages".
PollNoneFull ==
    /\ tx.count > 0
    /\ tx.full = {}
    /\ tx' = [PollFlags EXCEPT !.count = 0]

PollSends(b) ==
    /\ tx.count > 0
    /\ LowestFull(b)
    /\ tx' = AddTxMessage([PollFlags EXCEPT !.inhibit = syncFlag(b),
                                            !.full = @ \ {b},
                                            !.count = @ - 1], b)

\* CO_CANpolling_Tx, called from the transmit interrupt when wired.
CANpolling_Tx ==
    /\ PollingWired
    /\ FreeBoxes(tx) # {}
    /\ PollNothingToSend \/ PollNoneFull \/ \E b \in TxBuffers : PollSends(b)
    /\ UNCHANGED <<overflow, wrapped>>

\* A node on the bus acknowledges the frame of mailbox m.
Transmitted(m) ==
    /\ tx.box[m] # NoFrame
    /\ tx' = MailboxDone(tx, m)
    /\ UNCHANGED <<overflow, wrapped>>

Next ==
    \/ \E b \in TxBuffers : Send(b)
    \/ \E b \in ClearedBuffers : Clear(b)
    \/ ClearPendingSyncPDOs
    \/ CANpolling_Tx
    \/ \E m \in Mailboxes : Transmitted(m)

Spec == Init /\ [][Next]_vars

(***************************************************************************)
(* Behaviours in which the 16-bit CANtxCount does not wrap.                *)
(***************************************************************************)
NextNoWrap == Next /\ ~wrapped'
SpecNoWrap == Init /\ [][NextNoWrap]_vars

\* The bus acknowledges every frame.  Of CO_CANpolling_Tx nothing is assumed:
\* no code of the firmware calls it.
Fairness == \A m \in Mailboxes : WF_vars(Transmitted(m))

FairSpec == SpecNoWrap /\ Fairness

(***************************************************************************)
(* Properties.                                                             *)
(***************************************************************************)

\* The driver's record has the shape of CO_CANmodule_t.
TypeOK ==
    /\ tx \in TxRecord(TxBuffers)
    /\ overflow \in BOOLEAN
    /\ wrapped \in BOOLEAN

\* CANtxCount is never below the number of full buffers: CO_CANsend,
\* CO_CANpolling_Tx and CO_CANclearPendingSyncPDOs look at the counter alone
\* to learn whether a message waits, so a message the counter misses would be
\* overtaken by CO_CANsend and never picked up by the poll.
CountCoversFull == ~wrapped => Cardinality(tx.full) <= tx.count

\* No frame is handed to the CAN module while a frame of a lower index waits,
\* whether CO_CANsend hands it over or the poll does.
NoOvertaking ==
    [][\A m \in Mailboxes, c \in TxBuffers :
          /\ ~wrapped
          /\ tx.box[m] = NoFrame
          /\ tx'.box[m] # NoFrame
          /\ c \in tx.full
          => tx'.box[m] <= c]_vars

\* Once CO_CANclearPendingSyncPDOs has run, no synchronous TPDO is left in the
\* software buffers for a later poll to send outside the sync window.
SyncWindowCloses ==
    [][ClearPendingSyncPDOs /\ ~wrapped => tx'.full \cap SyncBuffers = {}]_vars

\* CO_driver.h:135-137: "Message will be then sent by CAN TX interrupt as soon
\* as CAN module is freed."
BufferedMessageIsSent == \A b \in TxBuffers : b \in tx.full ~> b \notin tx.full

\* The driver is the priority queue its header describes.
Queue == INSTANCE TxQueue WITH Buffers <- TxBuffers, waiting <- tx.full, box <- tx.box
ImplementsQueue == Queue!Spec
=============================================================================
