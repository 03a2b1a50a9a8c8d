------------------------------- MODULE MCCanTx -------------------------------
(***************************************************************************)
(* Three transmit buffers: 0 an asynchronous one (NMT, index CO_TXCAN_NMT  *)
(* is the lowest), 1 a synchronous TPDO, 2 the SDO client's, the only one  *)
(* whose owner clears bufferFull.  Two mailboxes instead of three, and a   *)
(* counter that wraps after CountRange values instead of 65536.            *)
(***************************************************************************)
EXTENDS CanTx

MCTxSize == 3
MCSyncBuffers == {1}
MCClearedBuffers == {2}
MCMailboxes == {1, 2}
MCCountRange == 6
MCNoFrame == -1
=============================================================================
