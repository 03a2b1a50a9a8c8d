---------------------------- MODULE SdoMasterOps ----------------------------
(***************************************************************************)
(* The SDO client of CO_SDOmaster.c as the safety controller uses it:      *)
(* expedited transfers (no more than four bytes) to a server that is not   *)
(* the node itself.  One record holds the client and one transmit buffer,  *)
(* index SdoBuffer of the CAN driver (CanTxOps), belongs to it.            *)
(*                                                                         *)
(*   state  SDO_C->state: "idle" is SDO_STATE_NOTDEFINED                   *)
(*   rx     the node whose answers the receive filter lets through         *)
(*   txid   the node the transmit buffer's identifier addresses            *)
(*   prev   COB_IDClientToServerPrev and COB_IDServerToClientPrev          *)
(*   new    CANrxNew                                                       *)
(*   data   CANrxData: the kind of answer in it                            *)
(*   out    CANtxBuff->data: the request in it, "zero" when cleared        *)
(*   timer  timeoutTimer, in units of timeDifference_ms                    *)
(***************************************************************************)
EXTENDS CanTxOps

CONSTANTS Nodes,     \* node identifiers of SDO servers
          NoNode,    \* the identifier of an SDO client that is not in use
          Words,     \* values a download may write
          SdoBuffer, \* CO_TXCAN_SDO_CLI
          SdoPolls   \* polls until timeoutTimer reaches SDOtimeoutTime

ASSUME SdoAssumption ==
    /\ NoNode \notin Nodes
    /\ SdoBuffer \in TxBuffers
    /\ SdoPolls \in Nat \ {0}
    /\ Words \cap {"read", "abort", "zero"} = {}

Answers == {"ack", "value", "abort"}
Requests == Words \cup {"read", "abort", "zero"}

SdoRecord ==
    [state : {"idle", "download", "upload", "abort"},
     rx : Nodes \cup {NoNode}, txid : Nodes \cup {NoNode},
     prev : Nodes \cup {NoNode},
     new : BOOLEAN, data : Answers, out : Requests, timer : 0 .. SdoPolls]

SdoFrame(node, what) == [kind |-> "sdo", node |-> node, what |-> what]

\* CO_SDOclient_init, and the CO_SDOclient_setup(0, 0, 0) at its end.
SDOclient_init ==
    [state |-> "idle", rx |-> NoNode, txid |-> NoNode, prev |-> NoNode,
     new |-> FALSE, data |-> "ack", out |-> "zero", timer |-> 0]

\* CO_SDOclient_receive: an answer is kept unless one waits or none is awaited.
SDOclient_receive(s, answer) ==
    IF s.new \/ s.state = "idle" THEN s
    ELSE [s EXCEPT !.new = TRUE, !.data = answer]

\* CO_SDOclient_setup, up to and including CO_CANrxBufferInit, which is called
\* only when the identifiers differ from those of the last call.
SDOclient_setupRx(s, node) ==
    [s EXCEPT !.state = "idle", !.new = FALSE,
              !.rx = IF s.prev = node THEN @ ELSE node]

\* CO_SDOclient_setup, from CO_CANtxBufferInit on.
SDOclient_setupTx(s, node) == [s EXCEPT !.txid = node, !.prev = node]

\* CO_SDOclientDownloadInitiate and CO_SDOclientUploadInitiate up to
\* CO_SDOTxBufferClear; TxBufferClear is applied to the driver.
SDOclientBegin(s, state) == [s EXCEPT !.state = state, !.out = "zero"]

\* The request is written into the transmit buffer.
SDOclientFill(s, what) == [s EXCEPT !.out = what]

\* The rest of the two Initiate functions; CANsend is applied to the driver.
SDOclientSend(s) == [s EXCEPT !.new = FALSE, !.timer = 0]

\* Mutant of EndsTransfer: CANrxNew is not tested.
EndsWithoutAnswer(s, state) == s.state = state

\* Is the received message the answer that ends the transfer?
EndsTransfer(s, state) ==
    /\ s.new
    /\ s.state = state
    /\ s.data = (IF state = "upload" THEN "value" ELSE "ack")

\* The section "RX data" for a message that does not end the call.
AfterRx(s) ==
    IF s.new THEN [s EXCEPT !.state = "abort", !.timer = 0, !.new = FALSE] ELSE s

\* The section "TMO": the timer saturates at SDOtimeoutTime.
AfterTimer(s) ==
    [s EXCEPT !.timer = IF @ < SdoPolls THEN @ + 1 ELSE @]

\* CO_SDOclient_abort leaves the client idle.
Aborted(s) == [s EXCEPT !.state = "idle", !.new = FALSE, !.out = "abort"]

\* The section "TX data" when the transmit buffer is free.
SDOclientTransmit(s, tx) ==
    LET cleared == TxBufferClear(tx, SdoBuffer)
    IN  IF s.state = "abort"
        THEN [sdo |-> Aborted(s), ret |-> "clientAbort",
              tx |-> CANsend(cleared, SdoBuffer, SdoFrame(s.txid, "abort"))]
        ELSE [sdo |-> [s EXCEPT !.out = "zero"], ret |-> "waiting", tx |-> cleared]

\* The sections "TMO" and "TX data".
SDOclientContinue(s, tx) ==
    IF s.timer = SdoPolls
    THEN [sdo |-> Aborted(s), ret |-> "timeout",
          tx |-> CANsend(tx, SdoBuffer, SdoFrame(s.txid, "abort"))]
    ELSE IF SdoBuffer \in tx.full
    THEN [sdo |-> s, ret |-> "transmittBufferFull", tx |-> tx]
    ELSE SDOclientTransmit(s, tx)

\* One call of CO_SDOclientDownload (state = "download") or CO_SDOclientUpload
\* (state = "upload"): the client, the driver and the returned value after it.
SDOclientPoll(s, tx, state) ==
    LET ended == [s EXCEPT !.state = "idle", !.new = FALSE]
    IN  IF s.new /\ s.data = "abort"
        THEN [sdo |-> ended, tx |-> tx, ret |-> "serverAbort"]
        ELSE IF EndsTransfer(s, state)
        THEN [sdo |-> ended, tx |-> tx, ret |-> "communicationEnd"]
        ELSE SDOclientContinue(AfterTimer(AfterRx(s)), tx)
=============================================================================
