------------------------------ MODULE CanTxOps ------------------------------
(***************************************************************************)
(* The transmit half of the CAN driver, safetyctrl/.../CO_driver.c, as     *)
(* operators on one record, so that the driver on its own (CanTx) and the  *)
(* application that sits on it (SafetyCtrl) share one definition.          *)
(*                                                                         *)
(*   full     indices of the CO_CANtx_t whose bufferFull flag is set       *)
(*   count    CANmodule->CANtxCount, an unsigned counter that wraps        *)
(*   inhibit  CANmodule->bufferInhibitFlag                                 *)
(*   first    CANmodule->firstCANtxMessage                                 *)
(*   box      the transmit mailboxes of the CAN peripheral: a frame or     *)
(*            NoFrame.  The peripheral is not under src/.                  *)
(***************************************************************************)
EXTENDS Integers

CONSTANTS TxSize,      \* txSize: number of CO_CANtx_t buffers in txArray
          SyncBuffers, \* indices of the buffers created with syncFlag set
          Mailboxes,   \* transmit mailboxes of the peripheral (three on bxCAN)
          CountRange,  \* CANtxCount takes the values 0 .. CountRange - 1
          NoFrame      \* content of a free mailbox

TxBuffers == 0 .. TxSize - 1

ASSUME CanTxAssumption ==
    /\ TxSize \in Nat \ {0}
    /\ SyncBuffers \subseteq TxBuffers
    /\ CountRange \in Nat
    /\ CountRange > 1

TxRecord(Frames) ==
    [full : SUBSET TxBuffers, count : 0 .. CountRange - 1,
     inhibit : BOOLEAN, first : BOOLEAN,
     box : [Mailboxes -> Frames \cup {NoFrame}]]

\* CO_CANmodule_init: every flag cleared, firstCANtxMessage set.
CANmodule_init ==
    [full |-> {}, count |-> 0, inhibit |-> FALSE, first |-> TRUE,
     box |-> [m \in Mailboxes |-> NoFrame]]

\* HAL_CAN_GetTxMailboxesFreeLevel > 0.
FreeBoxes(tx) == {m \in Mailboxes : tx.box[m] = NoFrame}

\* HAL_CAN_AddTxMessage: it cannot fail while a mailbox is free.
AddTxMessage(tx, frame) ==
    [tx EXCEPT !.box[CHOOSE m \in FreeBoxes(tx) : TRUE] = frame]

\* Mutant of SendsAtOnce: CANtxCount is not looked at.
SendsWhenBoxFree(tx) == FreeBoxes(tx) # {}

\* The condition under which CO_CANsend hands the frame over at once.
SendsAtOnce(tx) == tx.count = 0 /\ FreeBoxes(tx) # {}

\* buffer->syncFlag.
syncFlag(b) == b \in SyncBuffers

\* CO_CANsend, from CO_LOCK_CAN_SEND to CO_UNLOCK_CAN_SEND.
CANsend(tx, b, frame) ==
    IF SendsAtOnce(tx)
    THEN AddTxMessage([tx EXCEPT !.inhibit = syncFlag(b)], frame)
    ELSE [tx EXCEPT !.full = @ \cup {b}, !.count = (@ + 1) % CountRange]

\* bufferFull = false without touching CANtxCount: CO_CANtxBufferInit and
\* CO_SDOTxBufferClear.
TxBufferClear(tx, b) == [tx EXCEPT !.full = @ \ {b}]

\* The bus takes the frame of mailbox m.
MailboxDone(tx, m) == [tx EXCEPT !.box[m] = NoFrame]
=============================================================================
