----------------------------- MODULE SdoClient ------------------------------
(***************************************************************************)
(* The SDO client of CO_SDOmaster.c for every kind of transfer, as         *)
(* functions of the client's record; the server is another node.           *)
(*                                                                         *)
(*   st    SDO_C->state: "idle", "abort"; downloads "dlInit", "dlReq"      *)
(*         DOWNLOAD_REQUEST, "dlWait" ..._RESPONSE, "blInit", "blGo"       *)
(*         BLOCKDOWNLOAD_INPORGRES, "blWait" ..._BLOCK_ACK, "blCrc",       *)
(*         "blCrcWait"; uploads "ulInit", "ulReq", "ulWait", "buInit",     *)
(*         "buStart" ..._INITIATE_ACK, "buGo" ..._INPROGRES, "buSubEnd",   *)
(*         "buAck", "buAckLast", "buCrc", "buEnd"                          *)
(*   new, rx   CANrxNew and CANrxData                                      *)
(*   buf, size buffer and bufferSize                                       *)
(*   off, ack  bufferOffset and bufferOffsetACK; got dataSizeTransfered    *)
(*   toggle, seq, blk, pad   block_seqno, block_blksize, block_noData      *)
(*   dsize, timer, btimer    dataSize, timeoutTimer, timeoutTimerBLOCK     *)
(***************************************************************************)
EXTENDS SdoServer

CONSTANTS BlockMax,     \* block_size_max: segments of a block, 127
          ClientBuffer  \* size of the buffer of an upload

ASSUME SdoClientAssumption ==
    BlockMax \in 1 .. 127 /\ ClientBuffer \in Nat /\ BlockMax * SegmentSize <= ClientBuffer

\* An idle client; what it uploaded is in buf.
ClientIdle ==
    [st |-> "idle", new |-> FALSE, rx |-> [k |-> "none"], buf |-> <<>>, size |-> 0,
     off |-> 0, ack |-> 0, got |-> 0, toggle |-> 0, seq |-> 0, blk |-> 0, pad |-> 0,
     dsize |-> 0, timer |-> 0, btimer |-> 0]

Answer(c, out, ret) == [c |-> c, out |-> out, ret |-> ret]

\* CO_SDOclientDownloadInitiate.
ClientDownload(c, data, block) ==
    LET n == Len(data)
        begun(st) == [c EXCEPT !.st = st, !.buf = data, !.size = n, !.new = FALSE, !.timer = 0]
    IN  IF n <= ExpeditedMax THEN Answer(begun("dlInit"), <<[k |-> "dlExp", d |-> data]>>, "busy")
        ELSE IF n > BlockFrom /\ block
        THEN Answer(begun("blInit"), <<[k |-> "blDl", size |-> n]>>, "busy")
        ELSE Answer(begun("dlInit"), <<[k |-> "dlInit", size |-> n]>>, "busy")

\* CO_SDOclientUploadInitiate.
ClientUpload(c, block) ==
    LET begun == [c EXCEPT !.buf = [i \in 1 .. ClientBuffer |-> 0], !.size = ClientBuffer,
                           !.new = FALSE, !.timer = 0, !.btimer = 0]
    IN  IF block
        THEN Answer([begun EXCEPT !.st = "buInit", !.blk = BlockMax, !.seq = 0],
                    <<[k |-> "blUl", blk |-> BlockMax, pst |-> BlockFrom]>>, "busy")
        ELSE Answer([begun EXCEPT !.st = "ulInit"], <<[k |-> "ulInit"]>>, "busy")

\* CO_SDOclient_receive for a segment of a block upload.
ClientTakes(c, m) ==
    LET n == Least(SegmentSize, c.size - c.got)
        stored == [c EXCEPT !.seq = @ + 1, !.got = @ + n, !.buf = Paste(@, c.got, m.d, n)]
        ended(x) == [x EXCEPT !.st = "buSubEnd", !.new = TRUE]
    IN  IF SeqNo(m) = c.seq + 1
        THEN IF stored.got >= c.size \/ LastBit(m) \/ stored.seq >= c.blk
             THEN ended(stored) ELSE stored
        ELSE IF SeqNo(m) = c.seq \/ c.seq = 0 THEN c ELSE ended(c)

\* CO_SDOclient_receive.
ClientReceive(c, m) ==
    IF c.new \/ c.st = "idle" THEN c
    ELSE IF c.st = "buGo" THEN ClientTakes([c EXCEPT !.rx = m, !.timer = 0, !.btimer = 0], m)
    ELSE [c EXCEPT !.new = TRUE, !.rx = m]

-----------------------------------------------------------------------------
\* The answer ends a download, or an upload, successfully.
DownloadEnds(c) ==
    \/ c.st = "dlInit" /\ c.rx.k = "dlInitR" /\ c.size <= ExpeditedMax
    \/ c.st = "dlWait" /\ c.rx.k = "dlSegR" /\ c.rx.t = c.toggle /\ c.off = c.size
    \/ c.st = "blCrcWait" /\ c.rx.k = "blEndR"

SegmentFits(c) ==
    c.rx.k = "ulSegR" /\ c.rx.t = Flip(c.toggle) /\ c.off + c.rx.n <= c.size

UploadEnds(c) ==
    \/ c.st \in {"ulInit", "buInit"} /\ c.rx.k = "ulExp"
    \/ c.st = "ulWait" /\ SegmentFits(c) /\ c.rx.c

\* A sub-block of a download is confirmed, in whole or in part.
BlockAnswered(c) ==
    LET partly == c.rx.ack # c.blk
        acked == IF partly THEN c.ack + c.rx.ack * SegmentSize ELSE c.off
    IN  [c EXCEPT !.ack = acked, !.off = acked, !.blk = c.rx.blk, !.seq = 0,
                  !.st = IF acked >= c.size THEN "blCrc" ELSE "blGo"]

\* The section "RX data" of CO_SDOclientDownload, when the transfer goes on.
DownloadRx(c) ==
    CASE c.st = "dlInit" /\ c.rx.k = "dlInitR" ->
            [c EXCEPT !.off = 0, !.toggle = 0, !.st = "dlReq"]
      [] c.st = "dlWait" /\ c.rx.k = "dlSegR" /\ c.rx.t = c.toggle ->
            [c EXCEPT !.toggle = Flip(@), !.st = "dlReq"]
      [] c.st = "blInit" /\ c.rx.k = "blDlR" ->
            [c EXCEPT !.blk = c.rx.blk, !.seq = 0, !.off = 0, !.ack = 0, !.st = "blGo"]
      [] c.st \in {"blGo", "blWait"} /\ c.rx.k = "blSubR" -> BlockAnswered(c)
      [] OTHER -> [c EXCEPT !.st = "abort"]

\* BLOCKUPLOAD_SUB_END after the last segment.
LastSubBlock(c) == [c EXCEPT !.st = IF c.dsize > c.got THEN "abort" ELSE "buAckLast"]

\* Mutant of UploadChecked: the CRC is not verified.
UploadUnchecked(c) == [c EXCEPT !.got = @ - c.rx.pad, !.st = "buEnd"]

\* BLOCKUPLOAD_BLOCK_CRC.
UploadChecked(c) ==
    LET n == c.got - c.rx.pad
    IN  [c EXCEPT !.got = n,
                  !.st = IF SubSeq(c.buf, 1, n) = c.rx.crc THEN "buEnd" ELSE "abort"]

\* The same section of CO_SDOclientUpload.
UploadRx(c) ==
    CASE c.st \in {"ulInit", "buInit"} /\ c.rx.k = "ulInitR" ->
            [c EXCEPT !.off = 0, !.toggle = 0, !.st = "ulReq"]
      [] c.st = "ulWait" /\ SegmentFits(c) ->
            [c EXCEPT !.buf = Paste(@, c.off, c.rx.d, c.rx.n), !.off = @ + c.rx.n, !.st = "ulReq"]
      [] c.st = "buInit" /\ c.rx.k = "blUlR" ->
            [c EXCEPT !.dsize = c.rx.size, !.got = 0,
                      !.st = IF c.rx.size > c.size THEN "abort" ELSE "buStart"]
      [] c.st = "buSubEnd" /\ LastBit(c.rx) -> LastSubBlock(c)
      [] c.st = "buSubEnd" /\ ~LastBit(c.rx) ->
            [c EXCEPT !.st = IF c.got >= c.size THEN "abort" ELSE "buAck"]
      [] c.st = "buCrc" /\ c.rx.k = "blUlEndR" -> UploadChecked(c)
      [] OTHER -> [c EXCEPT !.st = "abort"]

\* What the buffer holds when UploadEnds.
Uploaded(c) ==
    IF c.rx.k = "ulExp" THEN c.rx.d
    ELSE SubSeq(Paste(c.buf, c.off, c.rx.d, c.rx.n), 1, c.off + c.rx.n)

-----------------------------------------------------------------------------
\* The section "TX data": what is sent in a state, and the state after it.
DownloadTx(c) ==
    CASE c.st = "dlReq" ->
            LET n == Least(SegmentSize, c.size - c.off)
            IN  Answer([c EXCEPT !.off = @ + n, !.st = "dlWait"],
                       <<[k |-> "dlSeg", t |-> c.toggle, n |-> n, c |-> c.off + n = c.size,
                          d |-> Cut(c.buf, c.off, n)]>>, "busy")
      [] c.st = "blGo" ->
            LET n == Least(SegmentSize, c.size - c.off)
                over == c.off + SegmentSize >= c.size
                seq == c.seq + 1
            IN  Answer([c EXCEPT !.seq = seq, !.off = @ + SegmentSize, !.pad = SegmentSize - n,
                                 !.blk = IF over THEN seq ELSE @, !.timer = 0,
                                 !.st = IF over \/ seq >= c.blk THEN "blWait" ELSE "blGo"],
                       <<[k |-> "blSeg", seq |-> seq, last |-> over, d |-> Cut(c.buf, c.off, n)]>>,
                       "busy")
      [] c.st = "blCrc" ->
            Answer([c EXCEPT !.st = "blCrcWait", !.timer = 0],
                   <<[k |-> "blEnd", pad |-> c.pad, crc |-> c.buf]>>, "busy")
      [] OTHER -> Answer(c, <<>>, "busy")

\* BLOCKUPLOAD_BLOCK_ACK: what has come is confirmed and the next block ordered.
BlockAck(c) ==
    LET left == c.dsize - c.got
        ordered == Least(BlockMax, (left + SegmentSize - 1) \div SegmentSize)
        blk == IF left <= 0 THEN 0 ELSE ordered
        out == <<[k |-> "blAck", ack |-> c.seq, blk |-> blk]>>
    IN  IF left <= 0 THEN Answer([c EXCEPT !.blk = 0, !.st = "buCrc"], out, "busy")
        ELSE Answer([c EXCEPT !.blk = blk, !.seq = 0, !.btimer = 0, !.st = "buGo"], out, "busy")

UploadTx(c) ==
    CASE c.st = "ulReq" ->
            Answer([c EXCEPT !.toggle = Flip(@), !.st = "ulWait"],
                   <<[k |-> "ulSeg", t |-> c.toggle]>>, "busy")
      [] c.st = "buStart" ->
            Answer([c EXCEPT !.seq = 0, !.btimer = 0, !.st = "buGo"], <<[k |-> "blUlStart"]>>, "busy")
      [] c.st = "buAckLast" ->
            Answer([c EXCEPT !.seq = 0, !.btimer = 0, !.st = "buCrc"],
                   <<[k |-> "blAck", ack |-> c.seq, blk |-> c.blk]>>, "busy")
      [] c.st = "buAck" -> BlockAck(c)
      [] c.st = "buEnd" ->
            Answer([ClientIdle EXCEPT !.buf = SubSeq(c.buf, 1, c.got)], <<[k |-> "blUlEnd"]>>, "ok")
      [] OTHER -> Answer(c, <<>>, "busy")

\* CO_SDOclient_abort.
ClientAbort(c, ret) == Answer(ClientIdle, <<[k |-> "abort"]>>, ret)

\* The section "TMO"; half the time without a segment ends the wait for a block,
\* whatever the state is by then.
ClientTimer(c, dt) ==
    LET counts == c.timer < SdoTimeout /\ c.st = "buGo"
    IN  [c EXCEPT !.timer = Elapsed(@, dt), !.btimer = IF counts THEN @ + dt ELSE @]

BlockTimer(c) == IF c.btimer >= SdoTimeout \div 2 THEN [c EXCEPT !.st = "buAck"] ELSE c

\* One call of CO_SDOclientDownload, or of CO_SDOclientUpload, dt after the last.
ClientPoll(c, upload, full, dt) ==
    LET received == IF c.new
                    THEN [(IF upload THEN UploadRx(c) ELSE DownloadRx(c))
                            EXCEPT !.timer = 0, !.new = FALSE, !.rx = [k |-> "none"]]
                    ELSE c
        timed == ClientTimer(received, dt)
        due == IF upload THEN BlockTimer(timed) ELSE timed
    IN  IF c.new /\ c.rx.k = "abort" THEN Answer(ClientIdle, <<>>, "serverAbort")
        ELSE IF c.new /\ ~upload /\ DownloadEnds(c) THEN Answer(ClientIdle, <<>>, "ok")
        ELSE IF c.new /\ upload /\ UploadEnds(c)
        THEN Answer([ClientIdle EXCEPT !.buf = Uploaded(c)], <<>>, "ok")
        ELSE IF timed.timer >= SdoTimeout THEN ClientAbort(timed, "timeout")
        ELSE IF full THEN Answer(due, <<>>, "busy")
        ELSE IF due.st = "abort" THEN ClientAbort(due, "clientAbort")
        ELSE IF upload THEN UploadTx(due) ELSE DownloadTx(due)
=============================================================================
