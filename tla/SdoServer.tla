----------------------------- MODULE SdoServer ------------------------------
(***************************************************************************)
(* The SDO server of CO_SDO.c: CO_SDO_receive, which the CAN receive       *)
(* interrupt calls, and CO_SDO_process, which main calls, as functions of  *)
(* the server's record and the object.  A frame is a record of its kind    *)
(* and what it carries; a CRC is the bytes it is computed from.  A block   *)
(* segment that comes late keeps its kind: where no block is being sent it *)
(* is refused, though its number may read as a command.  The               *)
(* object is a variable of the dictionary, readable and writable, without  *)
(* a function of its own.  The dictionary holds no domain, so that the     *)
(* refilling of the buffer for domains has no counterpart here.            *)
(*                                                                         *)
(*   st       SDO->state: "idle", "dlSeg" DOWNLOAD_SEGMENTED, "dlSub"      *)
(*            DOWNLOAD_BL_SUBBLOCK, "dlResp" ..._SUB_RESP, "dlEnd",        *)
(*            "ulSeg", "ulStart" UPLOAD_BL_INITIATE_2, "ulSub", "ulEnd"    *)
(*   new, rx  CANrxNew and CANrxData                                       *)
(*   buf, off databuffer and bufferOffset                                  *)
(*   len      ODF_arg.dataLength: what an upload has left to confirm       *)
(*   seq, blk sequence (the toggle bit of a segmented transfer), blksize   *)
(*   eot, last, crc, timer   endOfTransfer, lastLen, crc, timeoutTimer     *)
(***************************************************************************)
EXTENDS Integers, Sequences

CONSTANTS SegmentSize,  \* data bytes of a segment: 7
          ExpeditedMax, \* data bytes of an expedited transfer: 4
          BlockFrom,    \* CO_SDOclient_t.pst: no block transfer up to this size, 21
          SdoBufferSize,\* CO_SDO_BUFFER_SIZE
          SdoTimeout    \* SDOtimeoutTime, for either side

ASSUME SdoServerAssumption ==
    /\ SegmentSize \in Nat /\ ExpeditedMax \in Nat /\ ExpeditedMax < SegmentSize
    /\ BlockFrom \in Nat /\ BlockFrom >= SegmentSize
    /\ SdoBufferSize \in Nat /\ SdoBufferSize \div SegmentSize \in 1 .. 127
    /\ SdoTimeout \in Nat /\ SdoTimeout >= 2

Least(a, b) == IF a <= b THEN a ELSE b
Flip(bit) == 1 - bit

\* The n bytes of data from offset on, filled up to a segment with zeros.
Cut(data, off, n) ==
    [i \in 1 .. SegmentSize |-> IF i <= n THEN data[off + i] ELSE 0]

\* data with the first n bytes of d copied to offset.
Paste(data, off, d, n) ==
    [i \in DOMAIN data |-> IF i \in off + 1 .. off + n THEN d[i - off] ELSE data[i]]

\* Bits 0-6 of the first byte of a frame, when it is taken for the sequence number of
\* a block segment.  The command of a segment of the other kind, in either direction, is
\* its toggle bit, three bits for the bytes it lacks and the mark of the last one: a
\* number that a block may reach.  An abort is 0x80.  All other commands have numbers
\* from 32 on, which no segment of an object in the server's buffer has.
SeqNo(m) ==
    CASE m.k = "blSeg" -> m.seq
      [] m.k \in {"dlSeg", "ulSegR"} ->
            (IF m.t = 1 THEN 16 ELSE 0) + 2 * ((SegmentSize - m.n) % 8) + (IF m.c THEN 1 ELSE 0)
      [] m.k = "abort" -> 0
      [] OTHER -> 127

\* Bit 7 of that byte, then the mark of the last segment: the block transfers' own
\* commands have it.
LastBit(m) ==
    IF m.k = "blSeg" THEN m.last
    ELSE m.k \in {"abort", "blDl", "blEnd", "blUl", "blUlStart", "blAck", "blUlEnd",
                  "blDlR", "blSubR", "blEndR", "blUlR", "blUlEndR"}

ServerIdle ==
    [st |-> "idle", new |-> FALSE, rx |-> [k |-> "none"], off |-> 0, len |-> 0,
     buf |-> [i \in 1 .. SdoBufferSize |-> 0], seq |-> 0, blk |-> 0, eot |-> FALSE,
     last |-> 0, crc |-> <<>>, timer |-> 0]

-----------------------------------------------------------------------------
\* The buffer is full, the last segment is there or the block is complete.
SubBlockFull(s, m) == s.off >= SdoBufferSize \/ LastBit(m) \/ s.seq >= s.blk

\* A segment of a block download is copied by the receive function itself.
TakeSegment(s, m) ==
    LET n == Least(SegmentSize, SdoBufferSize - s.off)
        stored == [s EXCEPT !.seq = @ + 1, !.off = @ + n,
                            !.buf = Paste(@, s.off, m.d, n)]
        broken == [s EXCEPT !.st = "dlResp", !.new = TRUE]
    IN  IF SeqNo(m) = s.seq + 1
        THEN IF SubBlockFull(stored, m)
             THEN [stored EXCEPT !.st = "dlResp", !.new = TRUE] ELSE stored
        ELSE IF SeqNo(m) = s.seq \/ s.seq = 0 THEN s ELSE broken

\* CO_SDO_receive.
ServerReceive(s, m) ==
    IF s.new THEN s
    ELSE IF s.st = "dlSub" THEN TakeSegment([s EXCEPT !.rx = m, !.timer = 0], m)
    ELSE [s EXCEPT !.new = TRUE, !.rx = m]

-----------------------------------------------------------------------------
\* What is of no use any more is forgotten: the frame that has been processed and,
\* in an idle server, all but the timer.
Forget(s) ==
    IF s.st = "idle" THEN [ServerIdle EXCEPT !.timer = s.timer]
    ELSE [s EXCEPT !.new = FALSE, !.rx = [k |-> "none"]]

\* What a branch of CO_SDO_process leaves: the server, the object, the frames sent.
Result(s, object, out) == [s |-> s, object |-> object, out |-> out]

\* The end of CO_SDO_process: the received frame is done with.
Reply(s, object, m) == Result(Forget(s), object, <<m>>)

\* CO_SDO_abort.
ServerAbort(s, object) ==
    Result(Forget([s EXCEPT !.st = "idle"]), object, <<[k |-> "abort"]>>)

\* CO_SDO_writeOD for the bytes in the buffer, and what follows when it succeeds.
WriteOD(s, object, length, m) ==
    IF length # Len(object) THEN ServerAbort(s, object)
    ELSE Reply([s EXCEPT !.st = "idle"], SubSeq(s.buf, 1, length), m)

\* Mutant of DownloadInitiate: what is written is what the buffer held before.
InitiateUncopied(s, object) ==
    IF s.rx.k = "dlExp" THEN WriteOD(s, object, Len(s.rx.d), [k |-> "dlInitR"])
    ELSE IF s.rx.size # Len(object) THEN ServerAbort(s, object)
    ELSE Reply([s EXCEPT !.st = "dlSeg", !.off = 0, !.seq = 0, !.len = s.rx.size],
               object, [k |-> "dlInitR"])

\* DOWNLOAD_INITIATE: expedited, or the first frame of a segmented transfer.
DownloadInitiate(s, object) ==
    IF s.rx.k = "dlExp"
    THEN WriteOD([s EXCEPT !.buf = Paste(@, 0, s.rx.d, Len(s.rx.d))], object, Len(s.rx.d),
                 [k |-> "dlInitR"])
    ELSE IF s.rx.size # Len(object) THEN ServerAbort(s, object)
    ELSE Reply([s EXCEPT !.st = "dlSeg", !.off = 0, !.seq = 0, !.len = s.rx.size],
               object, [k |-> "dlInitR"])

\* Mutant of DownloadSegment: every segment goes to the object at once.
SegmentWritten(s, object) ==
    LET m == s.rx
        stored == [s EXCEPT !.off = @ + m.n, !.seq = Flip(@)]
    IN  IF m.k # "dlSeg" THEN ServerAbort(s, object)
        ELSE IF m.t # s.seq \/ s.off + m.n > s.len THEN ServerAbort(s, object)
        ELSE Reply([stored EXCEPT !.st = IF m.c THEN "idle" ELSE @],
                   Paste(object, s.off, m.d, m.n), [k |-> "dlSegR", t |-> s.seq])

\* DOWNLOAD_SEGMENTED.
DownloadSegment(s, object) ==
    LET m == s.rx
        stored == [s EXCEPT !.buf = Paste(@, s.off, m.d, m.n), !.off = @ + m.n,
                            !.seq = Flip(@)]
        answer == [k |-> "dlSegR", t |-> s.seq]
    IN  IF m.k # "dlSeg" THEN ServerAbort(s, object)
        ELSE IF m.t # s.seq \/ s.off + m.n > s.len THEN ServerAbort(s, object)
        ELSE IF m.c THEN WriteOD(stored, object, stored.off, answer)
        ELSE Reply(stored, object, answer)

\* DOWNLOAD_BL_INITIATE.
BlockDownloadInitiate(s, object) ==
    IF s.rx.size # Len(object) THEN ServerAbort(s, object)
    ELSE LET blk == SdoBufferSize \div SegmentSize
         IN  Reply([s EXCEPT !.st = "dlSub", !.off = 0, !.seq = 0, !.blk = blk,
                             !.len = s.rx.size],
                   object, [k |-> "blDlR", blk |-> blk])

\* DOWNLOAD_BL_SUB_RESP, after a frame or when the sub-block has timed out.
SubBlockResponse(s, object, timedOut) ==
    LET last == ~timedOut /\ LastBit(s.rx)
        blk == (SdoBufferSize - s.off) \div SegmentSize
        answer == [k |-> "blSubR", ack |-> s.seq, blk |-> blk]
    IN  IF ~last /\ s.off >= SdoBufferSize THEN ServerAbort(s, object)
        ELSE Reply([s EXCEPT !.st = IF last THEN "dlEnd" ELSE "dlSub", !.seq = 0, !.blk = blk],
                   object, answer)

\* DOWNLOAD_BL_END.
BlockDownloadEnd(s, object) ==
    IF s.rx.k # "blEnd" THEN ServerAbort(s, object)
    ELSE LET off == s.off - s.rx.pad
         IN  IF SubSeq(s.buf, 1, off) # s.rx.crc
             THEN ServerAbort([s EXCEPT !.off = off], object)
             ELSE WriteOD([s EXCEPT !.off = off], object, off, [k |-> "blEndR"])

\* CO_SDO_readOD, then UPLOAD_INITIATE or UPLOAD_BL_INITIATE.
UploadInitiate(s, object) ==
    LET n == Len(object)
        read == [s EXCEPT !.len = n, !.buf = Paste(@, 0, object, n)]
    IN  IF s.rx.k = "blUl" /\ n > s.rx.pst
        THEN IF s.rx.blk < 1 THEN ServerAbort(read, object)
             ELSE Reply([read EXCEPT !.st = "ulStart", !.blk = s.rx.blk, !.crc = object],
                        object, [k |-> "blUlR", size |-> n])
        ELSE IF n <= ExpeditedMax
        THEN Reply([read EXCEPT !.st = "idle"], object, [k |-> "ulExp", d |-> object])
        ELSE Reply([read EXCEPT !.st = "ulSeg", !.off = 0, !.seq = 0], object,
                   [k |-> "ulInitR"])

\* UPLOAD_SEGMENTED.
UploadSegment(s, object) ==
    LET n == Least(s.len - s.off, SegmentSize)
        over == s.off + n = s.len
    IN  IF s.rx.k # "ulSeg" THEN ServerAbort(s, object)
        ELSE IF s.rx.t # s.seq THEN ServerAbort(s, object)
        ELSE Reply([s EXCEPT !.off = @ + n, !.seq = Flip(@),
                             !.st = IF over THEN "idle" ELSE "ulSeg"],
                   object,
                   [k |-> "ulSegR", t |-> s.seq, n |-> n, c |-> over, d |-> Cut(s.buf, s.off, n)])

\* The second half of UPLOAD_BL_SUBBLOCK: the next segment, unless the block is sent.
SendSegment(s, object) ==
    IF s.seq = s.blk \/ s.eot THEN Result(s, object, <<>>)
    ELSE LET n == Least(s.len - s.off, SegmentSize)
             over == s.off + n = s.len
             sent == [s EXCEPT !.timer = 0, !.off = @ + n, !.seq = @ + 1]
         IN  Result(IF over THEN [sent EXCEPT !.last = n, !.blk = sent.seq, !.eot = TRUE]
                            ELSE sent,
                    object,
                    <<[k |-> "blSeg", seq |-> sent.seq, last |-> over,
                       d |-> Cut(s.buf, s.off, n)]>>)

\* UPLOAD_BL_INITIATE_2.
BlockUploadStart(s, object) ==
    IF s.rx.k # "blUlStart" THEN ServerAbort(s, object)
    ELSE SendSegment([Forget(s) EXCEPT !.st = "ulSub", !.off = 0, !.seq = 0, !.eot = FALSE],
                     object)

\* Mutant of Confirmed: the data that remain are not moved to the front.
ConfirmedInPlace(s) ==
    [Forget(s) EXCEPT !.len = @ - s.rx.ack * SegmentSize, !.blk = s.rx.blk, !.off = 0,
                      !.seq = 0, !.eot = FALSE]

\* The client confirms rx.ack segments: the rest is moved to the front.
Confirmed(s) ==
    LET n == s.rx.ack * SegmentSize
    IN  [Forget(s) EXCEPT !.buf = [i \in DOMAIN @ |-> IF i + n <= s.len THEN @[i + n] ELSE @[i]],
                          !.len = @ - n, !.blk = s.rx.blk, !.off = 0, !.seq = 0, !.eot = FALSE]

\* UPLOAD_BL_SUBBLOCK.
BlockUpload(s, object) ==
    IF ~s.new THEN SendSegment(s, object)
    ELSE IF s.rx.k # "blAck" THEN ServerAbort(s, object)
    ELSE IF s.rx.ack > s.seq THEN ServerAbort(s, object)
    ELSE IF s.eot /\ s.rx.ack = s.blk
    THEN Reply([s EXCEPT !.st = "ulEnd"], object,
               [k |-> "blUlEndR", pad |-> SegmentSize - s.last, crc |-> s.crc])
    ELSE SendSegment(Confirmed(s), object)

\* UPLOAD_BL_END.  The bits compared do not tell the end from a start.
BlockUploadEnd(s, object) ==
    IF s.rx.k \notin {"blUlEnd", "blUlStart"} THEN ServerAbort(s, object)
    ELSE Result(Forget([s EXCEPT !.st = "idle"]), object, <<>>)

-----------------------------------------------------------------------------
\* A frame that starts a transfer; of the others the command or the index is
\* refused.
NewTransfer(s, object) ==
    CASE s.rx.k \in {"dlExp", "dlInit"} -> DownloadInitiate(s, object)
      [] s.rx.k = "blDl" -> BlockDownloadInitiate(s, object)
      [] s.rx.k \in {"ulInit", "blUl"} -> UploadInitiate(s, object)
      [] OTHER -> ServerAbort(s, object)

\* The state machine of CO_SDO_process.
Handle(s, object) ==
    CASE s.st = "idle" -> NewTransfer(s, object)
      [] s.st = "dlSeg" -> DownloadSegment(s, object)
      [] s.st = "dlResp" -> SubBlockResponse(s, object, FALSE)
      [] s.st = "dlEnd" -> BlockDownloadEnd(s, object)
      [] s.st = "ulSeg" -> UploadSegment(s, object)
      [] s.st = "ulStart" -> BlockUploadStart(s, object)
      [] s.st = "ulSub" -> BlockUpload(s, object)
      [] s.st = "ulEnd" -> BlockUploadEnd(s, object)

\* The timeout: a sub-block that has begun is answered, anything else aborted.
ServerTimesOut(s, object, full) ==
    IF s.st = "dlSub" /\ s.seq # 0 /\ ~full THEN SubBlockResponse(s, object, TRUE)
    ELSE ServerAbort(s, object)

\* A timer after dt: it stands still at the timeout.
Elapsed(timer, dt) == IF timer < SdoTimeout THEN timer + dt ELSE timer

\* One call of CO_SDO_process, dt after the last, with bufferFull = full; the node
\* is operational or pre-operational.
ServerProcess(s, object, full, dt) ==
    LET active == ~full /\ (s.new \/ s.st = "ulSub")
        awake == IF active /\ s.st # "ulSub" THEN [s EXCEPT !.timer = 0] ELSE s
        timed == [awake EXCEPT !.timer = Elapsed(@, dt)]
    IN  IF s.st = "idle" /\ ~s.new THEN Result(s, object, <<>>)
        ELSE IF active /\ s.new /\ s.rx.k = "abort"
        THEN Result(Forget([awake EXCEPT !.st = "idle"]), object, <<>>)
        ELSE IF timed.timer >= SdoTimeout THEN ServerTimesOut(timed, object, full)
        ELSE IF active THEN Handle(timed, object)
        ELSE Result(timed, object, <<>>)
=============================================================================
