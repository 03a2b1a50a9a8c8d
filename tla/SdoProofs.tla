------------------------------ MODULE SdoProofs ------------------------------
(***************************************************************************)
(* Proofs about SDO transfers: whatever is lost, replaced, late or given   *)
(* up, neither end reads or writes past a buffer, for every size of        *)
(* segments, buffers and objects, every length of a block and timeout, and *)
(* any number of transfers, faults and frames on their way; and only a     *)
(* segmented download can write a mixture of transfers (WholeWrites).      *)
(***************************************************************************)
EXTENDS SdoTransfer, SequenceTheorems, TLAPS

-----------------------------------------------------------------------------
(* What the two ends read and write. *)

\* A sequence, whatever it is of.
IsList(s) == \E S : s \in Seq(S)

\* What frames carry: the numbers of their fields, whoever sent them and when.
IsFrame(m) ==
    /\ m.k = "dlSeg" => m.n \in Nat
    /\ m.k = "ulSegR" => m.n \in Nat
    /\ m.k = "blSeg" => m.seq \in 1 .. 127
    /\ m.k \in {"blSubR", "blAck"} => m.ack \in 0 .. 127
    /\ m.k \in {"blDlR", "blSubR", "blAck", "blUl"} => m.blk \in 0 .. 127
    /\ m.k = "blUl" => m.pst = BlockFrom
    /\ m.k = "blUlR" => m.size \in Nat /\ m.size > BlockFrom
    /\ m.k = "blUlEndR" => m.pad \in 0 .. SegmentSize

Carries(ch) == IsList(ch) /\ \A i \in 1 .. Len(ch) : IsFrame(ch[i])

ServerFields == {"st", "new", "rx", "off", "len", "buf", "seq", "blk", "eot", "last", "crc", "timer"}
ServerStates == {"idle", "dlSeg", "dlSub", "dlResp", "dlEnd", "ulSeg", "ulStart", "ulSub", "ulEnd"}

\* The server's own fields.
ServerShape(s) ==
    /\ DOMAIN s = ServerFields
    /\ s.st \in ServerStates /\ s.eot \in BOOLEAN
    /\ s.off \in 0 .. SdoBufferSize /\ s.len \in 0 .. SdoBufferSize
    /\ s.seq \in 0 .. 127 /\ s.blk \in 0 .. 127 /\ s.last \in 0 .. SegmentSize
    /\ s.timer \in 0 .. SdoTimeout
    /\ IsList(s.buf) /\ DOMAIN s.buf = 1 .. SdoBufferSize

\* A segment of an upload begins inside the data, a block of them ends there at
\* most; of the segments sent a client can only confirm those that were full
\* without having all of the data.
Begun(s) ==
    /\ s.st = "ulStart" => s.len > 0
    /\ s.st \in {"dlSeg", "ulSeg", "ulSub"} => s.off <= s.len
    /\ s.st \in {"dlSeg", "ulSeg"} => s.seq \in 0 .. 1
    /\ s.st = "ulSub" =>
         IF s.eot THEN s.seq = s.blk /\ s.seq > 0 /\ (s.seq - 1) * SegmentSize < s.len
                  ELSE s.off = s.seq * SegmentSize /\ s.off < s.len /\ s.seq <= s.blk

\* The frame it has not yet processed.
Heard(s) ==
    /\ s.new \in BOOLEAN /\ (s.new => IsFrame(s.rx))
    /\ s.st = "dlSub" => ~s.new

ServerOK(s) == ServerShape(s) /\ Begun(s) /\ Heard(s)

ClientFields == {"st", "new", "rx", "buf", "size", "off", "ack", "got", "toggle", "seq", "blk",
                 "pad", "dsize", "timer", "btimer"}

\* The client's own fields.
ClientShape(c) ==
    /\ DOMAIN c = ClientFields
    /\ c.size \in Nat /\ c.off \in Nat /\ c.ack \in Nat /\ c.got \in 0 .. ClientBuffer
    /\ c.seq \in 0 .. 127 /\ c.blk \in 0 .. 127 /\ c.pad \in 0 .. SegmentSize
    /\ c.dsize \in Nat /\ c.timer \in 0 .. SdoTimeout /\ c.btimer \in Nat

\* A download reads inside its data ...
Reads(c) ==
    /\ c.st = "blInit" => c.size > 0
    /\ c.st \in {"dlReq", "dlWait", "ulReq", "ulWait"} => c.off <= c.size
    /\ c.st = "blGo" => c.off < c.size /\ (c.seq = 0 \/ c.seq < c.blk)

BlockUploads == {"buStart", "buGo", "buSubEnd", "buAck", "buAckLast", "buCrc", "buEnd"}
Uploads == BlockUploads \cup {"buInit", "ulInit", "ulReq", "ulWait"}

\* ... and an upload writes inside its buffer; what it takes the padding from is
\* longer than a segment.
Writes(c, up) ==
    /\ c.st \in Uploads => up
    /\ up /\ (c.st # "idle" \/ c.btimer > 0) => c.size = ClientBuffer
    /\ c.st \in BlockUploads \/ c.btimer > 0 => c.dsize > BlockFrom
    /\ c.st \in {"buAckLast", "buCrc"} => c.dsize <= c.got

Copies(c, up) == ClientShape(c) /\ Reads(c) /\ Writes(c, up)

ClientOK(c, up) ==
    /\ Copies(c, up)
    /\ c.new \in BOOLEAN /\ (c.new => IsFrame(c.rx))

SdoInv ==
    /\ ServerOK(server) /\ ClientOK(client, session.up)
    /\ IsList(object) /\ Len(object) \in ObjectSizes
    /\ Carries(toServer) /\ Carries(toClient)
    /\ Len(toServer) <= Held /\ Len(toClient) <= Held
    /\ DOMAIN session = {"n", "up", "block", "ret"} /\ session.up \in BOOLEAN

\* What a branch of CO_SDO_process may leave.
Good(r, o) ==
    /\ ServerOK(r.s) /\ IsList(r.object) /\ Len(r.object) = Len(o)
    /\ r.out = <<>> \/ \E m : IsFrame(m) /\ r.out = <<m>>

\* What a call of the client's functions may leave.
ClientGood(a, up) ==
    /\ ClientOK(a.c, up)
    /\ a.out = <<>> \/ \E m : IsFrame(m) /\ a.out = <<m>>

\* What the assumptions say of the constants, as numbers.
LEMMA SdoNumbers ==
    /\ SegmentSize \in Nat \ {0} /\ SdoBufferSize \in Nat \ {0} /\ SdoTimeout \in Nat \ {0, 1}
    /\ BlockFrom \in Nat \ {0} /\ SegmentSize <= BlockFrom /\ ExpeditedMax \in Nat /\ ExpeditedMax < SegmentSize
    /\ BlockMax \in 1 .. 127 /\ ClientBuffer \in Nat /\ SegmentSize <= ClientBuffer
    /\ \A n \in ObjectSizes : n \in Nat \ {0} /\ n <= SdoBufferSize /\ n <= ClientBuffer
    /\ Held \in Nat \ {0}
<1>1. /\ SegmentSize \in Nat \ {0} /\ SdoBufferSize \in Nat /\ SdoTimeout \in Nat \ {0, 1}
      /\ BlockFrom \in Nat /\ SegmentSize <= BlockFrom /\ ExpeditedMax \in Nat /\ ExpeditedMax < SegmentSize
      /\ SdoBufferSize # 0
  BY SdoServerAssumption
<1>2. BlockMax \in 1 .. 127 /\ ClientBuffer \in Nat /\ BlockMax * SegmentSize <= ClientBuffer
  BY SdoClientAssumption
<1>3. SegmentSize <= BlockMax * SegmentSize  BY <1>1, <1>2
<1>4. SegmentSize <= ClientBuffer  BY <1>1, <1>2, <1>3
<1>5. \A n \in ObjectSizes : n \in 1 .. Least(SdoBufferSize, ClientBuffer)
  BY SdoTransferAssumption
<1>6. \A n \in ObjectSizes : n \in Nat \ {0} /\ n <= SdoBufferSize /\ n <= ClientBuffer
  BY <1>1, <1>2, <1>5 DEF Least
<1> QED  BY <1>1, <1>2, <1>4, <1>6, SdoTransferAssumption

\* Whatever the first byte of a frame is taken for, seven bits hold it.
LEMMA SeqNoIs ==
    ASSUME NEW m, IsFrame(m)
    PROVE  SeqNo(m) \in 0 .. 127
<1>1. CASE m.k \in {"dlSeg", "ulSegR"}
  <2> DEFINE lacks == (SegmentSize - m.n) % 8
             t == IF m.t = 1 THEN 16 ELSE 0
             c == IF m.c THEN 1 ELSE 0
  <2>1. lacks \in 0 .. 7  BY <1>1, SdoNumbers DEF IsFrame
  <2>2. t \in 0 .. 16 /\ c \in 0 .. 1  OBVIOUS
  <2>3. SeqNo(m) = t + 2 * lacks + c  BY <1>1 DEF SeqNo
  <2> HIDE DEF lacks, t, c
  <2> QED  BY <2>1, <2>2, <2>3
<1>2. CASE m.k \notin {"dlSeg", "ulSegR"}  BY <1>2 DEF SeqNo, IsFrame
<1> QED  BY <1>1, <1>2

\* Blocks the server orders.
LEMMA BlocksFit ==
    ASSUME NEW off \in 0 .. SdoBufferSize
    PROVE  (SdoBufferSize - off) \div SegmentSize \in 0 .. 127
<1>1. SegmentSize \in Nat \ {0} /\ SdoBufferSize \in Nat /\ SdoBufferSize \div SegmentSize \in 1 .. 127
  BY SdoServerAssumption
<1>2. SdoBufferSize < 128 * SegmentSize  BY <1>1
<1> DEFINE b == (SdoBufferSize - off) \div SegmentSize
<1>3. b \in Int /\ b * SegmentSize <= SdoBufferSize - off /\ SdoBufferSize - off < (b + 1) * SegmentSize
  BY <1>1
<1>4. b * SegmentSize < 128 * SegmentSize /\ 0 < (b + 1) * SegmentSize
  BY <1>1, <1>2, <1>3
<1>5. b < 128 /\ 0 < b + 1
  BY <1>1, <1>3, <1>4
<1> QED  BY <1>3, <1>5

\* Lists, made by what they hold at each place.
LEMMA ListIs ==
    ASSUME NEW n \in Nat, NEW f, f = [i \in 1 .. n |-> f[i]]
    PROVE  IsList(f) /\ Len(f) = n
<1> DEFINE S == {f[i] : i \in 1 .. n}
<1>1. f \in [1 .. n -> S]  OBVIOUS
<1>2. f \in Seq(S)  BY <1>1, IsASeq
<1>3. Len(f) = n  BY <1>1, <1>2, LenProperties
<1> QED  BY <1>2, <1>3 DEF IsList

\* Paste keeps the length of the buffer it writes to.
LEMMA PasteIs ==
    ASSUME NEW b, NEW off, NEW d, NEW n, DOMAIN b = 1 .. SdoBufferSize
    PROVE  IsList(Paste(b, off, d, n)) /\ DOMAIN Paste(b, off, d, n) = 1 .. SdoBufferSize
<1>1. Paste(b, off, d, n) = [i \in 1 .. SdoBufferSize |-> Paste(b, off, d, n)[i]]
      /\ DOMAIN Paste(b, off, d, n) = 1 .. SdoBufferSize
  BY DEF Paste
<1>2. IsList(Paste(b, off, d, n))  BY <1>1, ListIs, SdoNumbers
<1> QED  BY <1>1, <1>2

\* The beginning of a list.
LEMMA BeginningIs ==
    ASSUME NEW b, NEW n \in Nat, IsList(b), DOMAIN b = 1 .. SdoBufferSize, n <= SdoBufferSize
    PROVE  IsList(SubSeq(b, 1, n)) /\ Len(SubSeq(b, 1, n)) = n
<1>1. PICK S : b \in Seq(S)  BY DEF IsList
<1>2. Len(b) = SdoBufferSize  BY <1>1, SdoNumbers, LenProperties
<1>3. \A i \in 1 .. n : b[i] \in S  BY <1>1, <1>2, SdoNumbers
<1>4. SubSeq(b, 1, n) \in Seq(S) /\ Len(SubSeq(b, 1, n)) = n
  BY <1>1, <1>2, <1>3, SubSeqProperties, SdoNumbers
<1> QED  BY <1>4 DEF IsList

-----------------------------------------------------------------------------
(* The server. *)

\* An idle server has its initial fields, but for the timer.
LEMMA IdleIs ==
    ASSUME NEW t \in 0 .. SdoTimeout
    PROVE  ServerOK([ServerIdle EXCEPT !.timer = t])
<1> DEFINE b == [i \in 1 .. SdoBufferSize |-> 0]
           s == [ServerIdle EXCEPT !.timer = t]
<1>1. IsList(b) /\ DOMAIN b = 1 .. SdoBufferSize
  BY ListIs, SdoNumbers
<1>2. /\ DOMAIN s = ServerFields /\ s.st = "idle" /\ s.new = FALSE /\ s.off = 0 /\ s.len = 0
      /\ s.buf = b /\ s.seq = 0 /\ s.blk = 0 /\ s.eot = FALSE /\ s.last = 0 /\ s.timer = t
  BY DEF ServerIdle, ServerFields
<1> HIDE DEF s, b
<1>3. 0 \in 0 .. SdoBufferSize /\ 0 \in 0 .. 127 /\ 0 \in 0 .. SegmentSize
  BY SdoNumbers
<1>4. ServerShape(s)
  BY <1>1, <1>2, <1>3 DEF ServerShape, ServerStates
<1>5. Begun(s) /\ Heard(s)  BY <1>2 DEF Begun, Heard
<1> QED  BY <1>4, <1>5 DEF ServerOK, s

\* A transfer that is over.
LEMMA OverIs ==
    ASSUME NEW s, DOMAIN s = ServerFields, s.timer \in 0 .. SdoTimeout
    PROVE  ServerOK(Forget([s EXCEPT !.st = "idle"]))
<1>1. Forget([s EXCEPT !.st = "idle"]) = [ServerIdle EXCEPT !.timer = s.timer]
  BY DEF Forget, ServerFields
<1> QED  BY <1>1, IdleIs

\* What Forget makes of a server in any state.
LEMMA ForgetIs ==
    ASSUME NEW s, ServerShape(s), Begun(s)
    PROVE  /\ ServerOK(Forget(s)) /\ ~Forget(s).new
           /\ s.st # "idle" =>
                \A f \in ServerFields \ {"new", "rx"} : Forget(s)[f] = s[f]
<1>1. CASE s.st = "idle"
  <2>1. Forget(s) = [ServerIdle EXCEPT !.timer = s.timer]  BY <1>1 DEF Forget
  <2>2. ~Forget(s).new  BY <2>1 DEF ServerIdle
  <2> QED  BY <1>1, <2>1, <2>2, IdleIs DEF ServerShape
<1>2. CASE s.st # "idle"
  <2> DEFINE t == [s EXCEPT !.new = FALSE, !.rx = [k |-> "none"]]
  <2>1. Forget(s) = t  BY <1>2 DEF Forget
  <2>2. DOMAIN t = ServerFields /\ ~t.new /\ t.new \in BOOLEAN
        /\ \A f \in ServerFields \ {"new", "rx"} : t[f] = s[f]
    BY DEF ServerShape, ServerFields
  <2> HIDE DEF t
  <2>3. /\ t.st = s.st /\ t.off = s.off /\ t.len = s.len /\ t.buf = s.buf /\ t.seq = s.seq
        /\ t.blk = s.blk /\ t.eot = s.eot /\ t.last = s.last /\ t.timer = s.timer
    BY <2>2 DEF ServerFields
  <2>4. ServerShape(t)  BY <2>2, <2>3 DEF ServerShape
  <2>5. Begun(t)  BY <2>3 DEF Begun
  <2>6. Heard(t)  BY <2>2 DEF Heard
  <2> QED  BY <1>2, <2>1, <2>2, <2>4, <2>5, <2>6 DEF ServerOK
<1> QED  BY <1>1, <1>2

\* A frame has been processed and is answered.
LEMMA ReplyIs ==
    ASSUME NEW s, NEW o, NEW m, ServerShape(s), Begun(s), IsList(o), IsFrame(m)
    PROVE  Good(Reply(s, o, m), o)
BY ForgetIs DEF Reply, Result, Good

\* CO_SDO_abort.
LEMMA AbortIs ==
    ASSUME NEW s, NEW o, DOMAIN s = ServerFields, s.timer \in 0 .. SdoTimeout, IsList(o)
    PROVE  Good(ServerAbort(s, o), o)
<1>1. IsFrame([k |-> "abort"])  BY DEF IsFrame
<1> QED  BY <1>1, OverIs DEF ServerAbort, Result, Good

\* A write of the object keeps its length.
LEMMA WriteIs ==
    ASSUME NEW s, NEW o, NEW n, NEW m, DOMAIN s = ServerFields, s.timer \in 0 .. SdoTimeout,
           IsList(s.buf), DOMAIN s.buf = 1 .. SdoBufferSize,
           IsList(o), Len(o) \in ObjectSizes, IsFrame(m)
    PROVE  Good(WriteOD(s, o, n, m), o)
<1>1. CASE n # Len(o)  BY <1>1, AbortIs DEF WriteOD
<1>2. CASE n = Len(o)
  <2>1. IsList(SubSeq(s.buf, 1, n)) /\ Len(SubSeq(s.buf, 1, n)) = Len(o)
    BY <1>2, BeginningIs, SdoNumbers
  <2>2. ServerOK(Forget([s EXCEPT !.st = "idle"]))  BY OverIs
  <2> QED  BY <1>2, <2>1, <2>2 DEF WriteOD, Reply, Result, Good
<1> QED  BY <1>1, <1>2

\* DOWNLOAD_INITIATE: the bytes of an expedited download fit, or it is aborted.
LEMMA DownloadBegun ==
    ASSUME NEW s, NEW o, ServerShape(s), IsList(o), Len(o) \in ObjectSizes
    PROVE  Good(DownloadInitiate(s, o), o)
<1>1. CASE s.rx.k = "dlExp"
  <2> DEFINE t == [s EXCEPT !.buf = Paste(@, 0, s.rx.d, Len(s.rx.d))]
  <2>1. DOMAIN t = ServerFields /\ t.timer = s.timer /\ t.buf = Paste(s.buf, 0, s.rx.d, Len(s.rx.d))
    BY DEF ServerShape, ServerFields
  <2>2. IsFrame([k |-> "dlInitR"])  BY DEF IsFrame
  <2>3. DownloadInitiate(s, o) = WriteOD(t, o, Len(s.rx.d), [k |-> "dlInitR"])
    BY <1>1 DEF DownloadInitiate
  <2> HIDE DEF t
  <2>4. IsList(t.buf) /\ DOMAIN t.buf = 1 .. SdoBufferSize
    BY <2>1, PasteIs DEF ServerShape
  <2>5. t.timer \in 0 .. SdoTimeout  BY <2>1 DEF ServerShape
  <2> QED  BY <2>1, <2>2, <2>3, <2>4, <2>5, WriteIs
<1>2. CASE s.rx.k # "dlExp" /\ s.rx.size # Len(o)
  BY <1>2, AbortIs DEF DownloadInitiate, ServerShape
<1>3. CASE s.rx.k # "dlExp" /\ s.rx.size = Len(o)
  <2> DEFINE t == [s EXCEPT !.st = "dlSeg", !.off = 0, !.seq = 0, !.len = s.rx.size]
  <2>1. /\ DOMAIN t = ServerFields /\ t.st = "dlSeg" /\ t.off = 0 /\ t.seq = 0 /\ t.len = Len(o)
        /\ t.blk = s.blk /\ t.eot = s.eot /\ t.last = s.last /\ t.timer = s.timer /\ t.buf = s.buf
    BY <1>3 DEF ServerShape, ServerFields
  <2>2. DownloadInitiate(s, o) = Reply(t, o, [k |-> "dlInitR"])
    BY <1>3 DEF DownloadInitiate
  <2>3. IsFrame([k |-> "dlInitR"])  BY DEF IsFrame
  <2> HIDE DEF t
  <2>4. ServerShape(t)  BY <2>1, SdoNumbers DEF ServerShape, ServerStates
  <2>5. Begun(t)  BY <2>1, SdoNumbers DEF Begun
  <2> QED  BY <2>2, <2>3, <2>4, <2>5, ReplyIs
<1> QED  BY <1>1, <1>2, <1>3

\* DOWNLOAD_SEGMENTED: a segment is taken only if it ends inside the announced size.
LEMMA SegmentTaken ==
    ASSUME NEW s, NEW o, ServerShape(s), Begun(s), s.st = "dlSeg", IsFrame(s.rx),
           IsList(o), Len(o) \in ObjectSizes
    PROVE  Good(DownloadSegment(s, o), o)
<1> DEFINE m == s.rx
           t == [s EXCEPT !.buf = Paste(@, s.off, m.d, m.n), !.off = @ + m.n, !.seq = Flip(@)]
           a == [k |-> "dlSegR", t |-> s.seq]
<1>1. CASE m.k # "dlSeg" \/ m.t # s.seq \/ s.off + m.n > s.len
  <2>1. DownloadSegment(s, o) = ServerAbort(s, o)  BY <1>1 DEF DownloadSegment
  <2> QED  BY <2>1, AbortIs DEF ServerShape
<1>2. CASE m.k = "dlSeg" /\ m.t = s.seq /\ ~(s.off + m.n > s.len)
  <2>1. /\ DOMAIN t = ServerFields /\ t.st = "dlSeg" /\ t.off = s.off + m.n /\ t.seq = 1 - s.seq
        /\ t.len = s.len /\ t.buf = Paste(s.buf, s.off, m.d, m.n)
        /\ t.blk = s.blk /\ t.eot = s.eot /\ t.last = s.last /\ t.timer = s.timer
    BY DEF ServerShape, ServerFields, Flip
  <2>2. DownloadSegment(s, o) = IF m.c THEN WriteOD(t, o, t.off, a) ELSE Reply(t, o, a)
    BY <1>2 DEF DownloadSegment
  <2>3. IsFrame(a)  BY DEF IsFrame
  <2>4. m.n \in Nat  BY <1>2 DEF IsFrame
  <2> HIDE DEF t, a
  <2>5. IsList(t.buf) /\ DOMAIN t.buf = 1 .. SdoBufferSize
    BY <2>1, PasteIs DEF ServerShape
  <2>6. t.timer \in 0 .. SdoTimeout  BY <2>1 DEF ServerShape
  <2>7. CASE m.c
    BY <2>1, <2>2, <2>3, <2>5, <2>6, <2>7, WriteIs
  <2>8. CASE ~m.c
    <3>1. t.off \in 0 .. SdoBufferSize /\ t.off <= t.len
      BY <1>2, <2>1, <2>4, SdoNumbers, SMTT(60) DEF ServerShape
    <3>2. t.seq \in 0 .. 1 /\ t.seq \in 0 .. 127  BY <2>1 DEF Begun
    <3>3. ServerShape(t)
      BY <2>1, <2>5, <3>1, <3>2 DEF ServerShape, ServerStates
    <3>4. Begun(t)  BY <2>1, <3>1, <3>2 DEF Begun
    <3> QED  BY <2>2, <2>3, <2>8, <3>3, <3>4, ReplyIs
  <2> QED  BY <2>7, <2>8
<1> QED  BY <1>1, <1>2

\* DOWNLOAD_BL_INITIATE.
LEMMA BlockDownloadBegun ==
    ASSUME NEW s, NEW o, ServerShape(s), IsList(o), Len(o) \in ObjectSizes
    PROVE  Good(BlockDownloadInitiate(s, o), o)
<1> DEFINE b == SdoBufferSize \div SegmentSize
           t == [s EXCEPT !.st = "dlSub", !.off = 0, !.seq = 0, !.blk = b, !.len = s.rx.size]
           a == [k |-> "blDlR", blk |-> b]
<1>1. CASE s.rx.size # Len(o)
  BY <1>1, AbortIs DEF BlockDownloadInitiate, ServerShape
<1>2. CASE s.rx.size = Len(o)
  <2>1. b \in 0 .. 127  BY SdoServerAssumption
  <2>2. BlockDownloadInitiate(s, o) = Reply(t, o, a)
    BY <1>2 DEF BlockDownloadInitiate
  <2>3. IsFrame(a)  BY <2>1 DEF IsFrame
  <2> HIDE DEF a, b
  <2>4. /\ DOMAIN t = ServerFields /\ t.st = "dlSub" /\ t.off = 0 /\ t.seq = 0 /\ t.len = Len(o)
        /\ t.blk = b /\ t.eot = s.eot /\ t.last = s.last /\ t.timer = s.timer /\ t.buf = s.buf
    BY <1>2 DEF ServerShape, ServerFields
  <2> HIDE DEF t
  <2>5. ServerShape(t)  BY <2>1, <2>4, SdoNumbers DEF ServerShape, ServerStates
  <2>6. Begun(t)  BY <2>4, SdoNumbers DEF Begun
  <2> QED  BY <2>2, <2>3, <2>5, <2>6, ReplyIs
<1> QED  BY <1>1, <1>2

\* DOWNLOAD_BL_SUB_RESP, at any time: the block ordered next fits into what is left.
LEMMA SubBlockAnswered ==
    ASSUME NEW s, NEW o, NEW timedOut, ServerShape(s), IsList(o)
    PROVE  Good(SubBlockResponse(s, o, timedOut), o)
<1> DEFINE last == ~timedOut /\ LastBit(s.rx)
           b == (SdoBufferSize - s.off) \div SegmentSize
           t == [s EXCEPT !.st = IF last THEN "dlEnd" ELSE "dlSub", !.seq = 0, !.blk = b]
           a == [k |-> "blSubR", ack |-> s.seq, blk |-> b]
<1>1. CASE ~last /\ s.off >= SdoBufferSize
  <2>1. SubBlockResponse(s, o, timedOut) = ServerAbort(s, o)  BY <1>1 DEF SubBlockResponse
  <2> QED  BY <2>1, AbortIs DEF ServerShape
<1>2. CASE ~(~last /\ s.off >= SdoBufferSize)
  <2>1. b \in 0 .. 127  BY BlocksFit DEF ServerShape
  <2>2. SubBlockResponse(s, o, timedOut) = Reply(t, o, a)
    BY <1>2 DEF SubBlockResponse
  <2>3. IsFrame(a)  BY <2>1 DEF IsFrame, ServerShape
  <2> HIDE DEF a, b, last
  <2>4. /\ DOMAIN t = ServerFields /\ t.st \in {"dlEnd", "dlSub"} /\ t.off = s.off /\ t.seq = 0
        /\ t.len = s.len /\ t.blk = b /\ t.eot = s.eot /\ t.last = s.last /\ t.timer = s.timer
        /\ t.buf = s.buf
    BY DEF ServerShape, ServerFields
  <2> HIDE DEF t
  <2>5. ServerShape(t)  BY <2>1, <2>4 DEF ServerShape, ServerStates
  <2>6. Begun(t)  BY <2>4 DEF Begun
  <2> QED  BY <2>2, <2>3, <2>5, <2>6, ReplyIs
<1> QED  BY <1>1, <1>2

\* DOWNLOAD_BL_END: a padding that is too large does not lead to a write.
LEMMA BlockDownloadEnded ==
    ASSUME NEW s, NEW o, ServerShape(s), IsList(o), Len(o) \in ObjectSizes
    PROVE  Good(BlockDownloadEnd(s, o), o)
<1> DEFINE off == s.off - s.rx.pad
           t == [s EXCEPT !.off = off]
<1>1. CASE s.rx.k # "blEnd"
  BY <1>1, AbortIs DEF BlockDownloadEnd, ServerShape
<1>2. CASE s.rx.k = "blEnd"
  <2>1. DOMAIN t = ServerFields /\ t.timer \in 0 .. SdoTimeout /\ t.buf = s.buf
    BY DEF ServerShape, ServerFields
  <2>2. BlockDownloadEnd(s, o) \in {ServerAbort(t, o), WriteOD(t, o, off, [k |-> "blEndR"])}
    BY <1>2 DEF BlockDownloadEnd
  <2>3. IsFrame([k |-> "blEndR"])  BY DEF IsFrame
  <2> HIDE DEF t, off
  <2>4. IsList(t.buf) /\ DOMAIN t.buf = 1 .. SdoBufferSize  BY <2>1 DEF ServerShape
  <2>5. Good(ServerAbort(t, o), o)  BY <2>1, AbortIs
  <2>6. Good(WriteOD(t, o, off, [k |-> "blEndR"]), o)  BY <2>1, <2>3, <2>4, WriteIs
  <2> QED  BY <2>2, <2>5, <2>6
<1> QED  BY <1>1, <1>2

\* UPLOAD_INITIATE and UPLOAD_BL_INITIATE.
LEMMA UploadBegun ==
    ASSUME NEW s, NEW o, ServerShape(s), s.rx.k \in {"ulInit", "blUl"}, IsFrame(s.rx),
           IsList(o), Len(o) \in ObjectSizes
    PROVE  Good(UploadInitiate(s, o), o)
<1> DEFINE n == Len(o)
           r == [s EXCEPT !.len = n, !.buf = Paste(@, 0, o, n)]
<1>1. /\ DOMAIN r = ServerFields /\ r.st = s.st /\ r.off = s.off /\ r.seq = s.seq /\ r.len = n
      /\ r.blk = s.blk /\ r.eot = s.eot /\ r.last = s.last /\ r.timer = s.timer
      /\ r.buf = Paste(s.buf, 0, o, n)
  BY DEF ServerShape, ServerFields
<1>2. n \in 0 .. SdoBufferSize /\ n > 0  BY SdoNumbers
<1> DEFINE t1 == [r EXCEPT !.st = "ulStart", !.blk = s.rx.blk, !.crc = o]
           t2 == [r EXCEPT !.st = "idle"]
           t3 == [r EXCEPT !.st = "ulSeg", !.off = 0, !.seq = 0]
           a1 == [k |-> "blUlR", size |-> n]
           a2 == [k |-> "ulExp", d |-> o]
           a3 == [k |-> "ulInitR"]
<1>3. IsFrame(a2) /\ IsFrame(a3)  BY DEF IsFrame
<1>4. UploadInitiate(s, o) =
        IF s.rx.k = "blUl" /\ n > s.rx.pst
        THEN IF s.rx.blk < 1 THEN ServerAbort(r, o) ELSE Reply(t1, o, a1)
        ELSE IF n <= ExpeditedMax THEN Reply(t2, o, a2) ELSE Reply(t3, o, a3)
  BY DEF UploadInitiate
<1>5. s.rx.k = "blUl" /\ n > s.rx.pst => IsFrame(a1) /\ s.rx.blk \in 0 .. 127
  BY <1>2 DEF IsFrame
<1> HIDE DEF a1, a2, a3, r, n
<1>6. IsList(r.buf) /\ DOMAIN r.buf = 1 .. SdoBufferSize
  BY <1>1, PasteIs DEF ServerShape
<1>7. ServerShape(r)  BY <1>1, <1>2, <1>6 DEF ServerShape
<1>8. s.rx.k = "blUl" /\ n > s.rx.pst => Good(Reply(t1, o, a1), o)
  <2> SUFFICES ASSUME s.rx.k = "blUl" /\ n > s.rx.pst PROVE Good(Reply(t1, o, a1), o)
    OBVIOUS
  <2>1. /\ DOMAIN t1 = ServerFields /\ t1.st = "ulStart" /\ t1.off = r.off /\ t1.seq = r.seq
        /\ t1.len = n /\ t1.blk = s.rx.blk /\ t1.eot = r.eot /\ t1.last = r.last
        /\ t1.timer = r.timer /\ t1.buf = r.buf
    BY <1>1 DEF ServerFields
  <2> HIDE DEF t1
  <2>2. ServerShape(t1)  BY <1>1, <1>5, <1>7, <2>1 DEF ServerShape, ServerStates
  <2>3. Begun(t1)  BY <1>2, <2>1 DEF Begun
  <2> QED  BY <1>5, <2>2, <2>3, ReplyIs
<1>9. Good(Reply(t2, o, a2), o)
  <2>1. /\ DOMAIN t2 = ServerFields /\ t2.st = "idle" /\ t2.off = r.off /\ t2.seq = r.seq
        /\ t2.len = n /\ t2.blk = r.blk /\ t2.eot = r.eot /\ t2.last = r.last
        /\ t2.timer = r.timer /\ t2.buf = r.buf
    BY <1>1 DEF ServerFields
  <2> HIDE DEF t2
  <2>2. ServerShape(t2)  BY <1>1, <1>7, <2>1 DEF ServerShape, ServerStates
  <2>3. Begun(t2)  BY <2>1 DEF Begun
  <2> QED  BY <1>3, <2>2, <2>3, ReplyIs
<1>10. Good(Reply(t3, o, a3), o)
  <2>1. /\ DOMAIN t3 = ServerFields /\ t3.st = "ulSeg" /\ t3.off = 0 /\ t3.seq = 0
        /\ t3.len = n /\ t3.blk = r.blk /\ t3.eot = r.eot /\ t3.last = r.last
        /\ t3.timer = r.timer /\ t3.buf = r.buf
    BY <1>1 DEF ServerFields
  <2> HIDE DEF t3
  <2>2. ServerShape(t3)  BY <1>1, <1>7, <2>1, SdoNumbers DEF ServerShape, ServerStates
  <2>3. Begun(t3)  BY <1>2, <2>1 DEF Begun
  <2> QED  BY <1>3, <2>2, <2>3, ReplyIs
<1>11. Good(ServerAbort(r, o), o)  BY <1>7, AbortIs DEF ServerShape
<1> HIDE DEF t1, t2, t3
<1> QED  BY <1>4, <1>8, <1>9, <1>10, <1>11

\* UPLOAD_SEGMENTED.
LEMMA SegmentAsked ==
    ASSUME NEW s, NEW o, ServerShape(s), Begun(s), s.st = "ulSeg", IsList(o)
    PROVE  Good(UploadSegment(s, o), o)
<1> DEFINE n == Least(s.len - s.off, SegmentSize)
           over == s.off + n = s.len
           t == [s EXCEPT !.off = @ + n, !.seq = Flip(@), !.st = IF over THEN "idle" ELSE "ulSeg"]
           a == [k |-> "ulSegR", t |-> s.seq, n |-> n, c |-> over, d |-> Cut(s.buf, s.off, n)]
<1>1. CASE s.rx.k # "ulSeg" \/ s.rx.t # s.seq
  <2>1. UploadSegment(s, o) = ServerAbort(s, o)  BY <1>1 DEF UploadSegment
  <2> QED  BY <2>1, AbortIs DEF ServerShape
<1>2. CASE s.rx.k = "ulSeg" /\ s.rx.t = s.seq
  <2>1. s.off \in Nat /\ s.len \in Nat /\ s.off <= s.len /\ s.len <= SdoBufferSize
        /\ s.seq \in 0 .. 1
    BY SdoNumbers DEF ServerShape, Begun
  <2>2. n \in Nat /\ s.off + n <= s.len  BY <2>1, SdoNumbers DEF Least
  <2>3. UploadSegment(s, o) = Reply(t, o, a)
    BY <1>2 DEF UploadSegment
  <2> HIDE DEF n
  <2>4. IsFrame(a)  BY <2>2 DEF IsFrame
  <2>5. /\ DOMAIN t = ServerFields /\ t.st \in {"idle", "ulSeg"} /\ t.off = s.off + n
        /\ t.seq = 1 - s.seq /\ t.len = s.len /\ t.blk = s.blk /\ t.eot = s.eot /\ t.last = s.last
        /\ t.timer = s.timer /\ t.buf = s.buf
    BY DEF ServerShape, ServerFields, Flip
  <2> HIDE DEF t, a, over
  <2>6. t.seq \in 0 .. 1 /\ t.seq \in 0 .. 127 /\ t.off \in 0 .. SdoBufferSize /\ t.off <= t.len
    BY <2>1, <2>2, <2>5, SdoNumbers
  <2>7. ServerShape(t)  BY <2>5, <2>6 DEF ServerShape, ServerStates
  <2>8. Begun(t)  BY <2>5, <2>6 DEF Begun
  <2> QED  BY <2>3, <2>4, <2>7, <2>8, ReplyIs
<1> QED  BY <1>1, <1>2

\* Another segment fits into the block.
LEMMA NotTheLast ==
    \A seq, blk \in 0 .. 127 : seq <= blk /\ seq # blk => seq < blk /\ seq + 1 <= 127
OBVIOUS

\* A segment of a block upload: full, unless it is the last.
LEMMA SegmentSent ==
    ASSUME NEW s, NEW o, ServerShape(s), Begun(s), Heard(s), s.st = "ulSub", IsList(o)
    PROVE  Good(SendSegment(s, o), o)
<1> DEFINE n == Least(s.len - s.off, SegmentSize)
           over == s.off + n = s.len
           sent == [s EXCEPT !.timer = 0, !.off = @ + n, !.seq = @ + 1]
           done == [sent EXCEPT !.last = n, !.blk = sent.seq, !.eot = TRUE]
           t == IF over THEN done ELSE sent
           a == [k |-> "blSeg", seq |-> sent.seq, last |-> over, d |-> Cut(s.buf, s.off, n)]
<1>0. /\ s.seq \in 0 .. 127 /\ s.blk \in 0 .. 127 /\ s.off \in 0 .. SdoBufferSize
      /\ s.len \in 0 .. SdoBufferSize
  BY DEF ServerShape
<1>1. CASE s.seq = s.blk \/ s.eot
  BY <1>1 DEF SendSegment, Result, Good, ServerOK
<1>2. CASE ~(s.seq = s.blk \/ s.eot)
  <2>0. s.off = s.seq * SegmentSize /\ s.off < s.len
    BY <1>2 DEF Begun
  <2>1. /\ s.off \in Nat /\ s.len \in Nat /\ s.len <= SdoBufferSize /\ s.seq \in Nat
        /\ s.seq + 1 <= 127 /\ s.seq < s.blk /\ s.off = s.seq * SegmentSize /\ s.off < s.len
    <3>1. s.seq <= s.blk /\ s.seq # s.blk  BY <1>2 DEF Begun
    <3>2. s.seq < s.blk /\ s.seq + 1 <= 127  BY <1>0, <3>1, NotTheLast
    <3>3. s.off \in Nat /\ s.len \in Nat /\ s.len <= SdoBufferSize /\ s.seq \in Nat
      BY <1>0, SdoNumbers
    <3> QED  BY <2>0, <3>2, <3>3
  <2>2. n \in 0 .. SegmentSize /\ s.off + n <= s.len /\ n > 0
        /\ (~over => n = SegmentSize)
    BY <2>1, SdoNumbers DEF Least
  <2>3. SendSegment(s, o) = [s |-> t, object |-> o, out |-> <<a>>]
    BY <1>2 DEF SendSegment, Result
  <2> HIDE DEF n
  <2>4. /\ DOMAIN sent = ServerFields /\ sent.st = "ulSub" /\ sent.off = s.off + n
        /\ sent.seq = s.seq + 1 /\ sent.len = s.len /\ sent.blk = s.blk /\ sent.eot = s.eot
        /\ sent.last = s.last /\ sent.timer = 0 /\ sent.buf = s.buf
        /\ sent.new = s.new /\ sent.rx = s.rx
    BY DEF ServerShape, ServerFields
  <2> HIDE DEF sent
  <2>5. /\ DOMAIN done = ServerFields /\ done.st = "ulSub" /\ done.off = s.off + n
        /\ done.seq = s.seq + 1 /\ done.len = s.len /\ done.blk = s.seq + 1 /\ done.eot = TRUE
        /\ done.last = n /\ done.timer = 0 /\ done.buf = s.buf
        /\ done.new = s.new /\ done.rx = s.rx
    BY <2>4 DEF ServerFields
  <2> HIDE DEF done
  <2>6. IsFrame(a)  BY <2>1, <2>4 DEF IsFrame
  <2>7. s.off + n \in 0 .. SdoBufferSize /\ s.seq + 1 \in 0 .. 127 /\ 0 \in 0 .. SdoTimeout
    BY <2>1, <2>2, SdoNumbers
  <2>8. (s.seq + 1 - 1) * SegmentSize = s.off /\ (s.seq + 1) * SegmentSize = s.off + SegmentSize
    BY <2>1, SdoNumbers
  <2>9. ServerOK(sent) \/ over
    <3>1. ServerShape(sent)  BY <2>4, <2>7 DEF ServerShape
    <3>2. Heard(sent)  BY <2>4 DEF Heard
    <3>3. ~over => s.off + n < s.len /\ s.off + n <= s.len /\ s.off + n = (s.seq + 1) * SegmentSize
      BY <2>1, <2>2, <2>8, SdoNumbers
    <3>4. s.seq + 1 <= s.blk /\ s.eot = FALSE
      <4>1. s.seq + 1 <= s.blk  BY <1>0, <2>1
      <4>2. s.eot = FALSE  BY <1>2 DEF ServerShape
      <4> QED  BY <4>1, <4>2
    <3> HIDE DEF over
    <3>5. ~over => /\ sent.st = "ulSub" /\ sent.eot = FALSE /\ sent.off = sent.seq * SegmentSize
                   /\ sent.off < sent.len /\ sent.off <= sent.len /\ sent.seq <= sent.blk
      BY <2>4, <3>3, <3>4
    <3>6. ~over => Begun(sent)  BY <3>5 DEF Begun
    <3> QED  BY <3>1, <3>2, <3>6 DEF ServerOK
  <2>10. ServerOK(done)
    <3>1. ServerShape(done)  BY <2>2, <2>5, <2>7 DEF ServerShape
    <3>2. Heard(done)  BY <2>5 DEF Heard
    <3>3. Begun(done)  BY <2>1, <2>2, <2>5, <2>8 DEF Begun
    <3> QED  BY <3>1, <3>2, <3>3 DEF ServerOK
  <2>11. ServerOK(t)  BY <2>9, <2>10
  <2> HIDE DEF t, a
  <2> QED  BY <2>3, <2>6, <2>11 DEF Good
<1> QED  BY <1>1, <1>2

\* UPLOAD_BL_INITIATE_2: a block upload is of an object that is not empty.
LEMMA BlockUploadBegun ==
    ASSUME NEW s, NEW o, ServerShape(s), Begun(s), s.st = "ulStart", IsList(o)
    PROVE  Good(BlockUploadStart(s, o), o)
<1> DEFINE f == Forget(s)
           t == [f EXCEPT !.st = "ulSub", !.off = 0, !.seq = 0, !.eot = FALSE]
<1>1. CASE s.rx.k # "blUlStart"
  BY <1>1, AbortIs DEF BlockUploadStart, ServerShape
<1>2. CASE s.rx.k = "blUlStart"
  <2>1. BlockUploadStart(s, o) = SendSegment(t, o)  BY <1>2 DEF BlockUploadStart
  <2>2. ServerOK(f) /\ ~f.new /\ f.len = s.len /\ DOMAIN f = ServerFields
    <3>1. ServerOK(f) /\ ~f.new /\ f["len"] = s["len"]  BY ForgetIs DEF ServerFields
    <3> QED  BY <3>1 DEF ServerOK, ServerShape
  <2> HIDE DEF f
  <2>3. /\ DOMAIN t = ServerFields /\ t.st = "ulSub" /\ t.off = 0 /\ t.seq = 0 /\ t.len = f.len
        /\ t.blk = f.blk /\ t.eot = FALSE /\ t.last = f.last /\ t.timer = f.timer /\ t.buf = f.buf
        /\ t.new = f.new /\ t.rx = f.rx
    BY <2>2 DEF ServerFields
  <2> HIDE DEF t
  <2>4. ServerShape(f)  BY <2>2 DEF ServerOK
  <2>5. ServerShape(t)
    <3>1. 0 \in 0 .. SdoBufferSize /\ 0 \in 0 .. 127  BY SdoNumbers
    <3> QED  BY <2>3, <2>4, <3>1 DEF ServerShape, ServerStates
  <2>6. 0 < t.len /\ 0 <= t.len /\ 0 = 0 * SegmentSize /\ 0 <= t.blk
    <3>1. s.len > 0  BY DEF Begun
    <3>2. f.blk \in 0 .. 127 /\ s.len \in 0 .. SdoBufferSize  BY <2>4 DEF ServerShape
    <3> QED  BY <2>2, <2>3, <3>1, <3>2, SdoNumbers
  <2>7. Begun(t)  BY <2>3, <2>6 DEF Begun
  <2>8. Heard(t)  BY <2>2, <2>3 DEF Heard, ServerOK
  <2> QED  BY <2>1, <2>3, <2>5, <2>7, <2>8, SegmentSent
<1> QED  BY <1>1, <1>2

\* What a client confirms leaves data to send, or all is confirmed.
LEMMA ConfirmedIs ==
    ASSUME NEW s, ServerShape(s), Begun(s), s.st = "ulSub", s.rx.k = "blAck", IsFrame(s.rx),
           ~(s.rx.ack > s.seq), ~(s.eot /\ s.rx.ack = s.blk)
    PROVE  LET t == Confirmed(s) IN ServerShape(t) /\ Begun(t) /\ Heard(t) /\ t.st = "ulSub"
<1> DEFINE f == Forget(s)
           n == s.rx.ack * SegmentSize
           b == [i \in DOMAIN f.buf |-> IF i + n <= s.len THEN f.buf[i + n] ELSE f.buf[i]]
           t == [f EXCEPT !.buf = [i \in DOMAIN @ |-> IF i + n <= s.len THEN @[i + n] ELSE @[i]],
                          !.len = @ - n, !.blk = s.rx.blk, !.off = 0, !.seq = 0, !.eot = FALSE]
<1>1. ServerOK(f) /\ ~f.new /\ f.len = s.len /\ f.st = "ulSub" /\ f.buf = s.buf /\ DOMAIN f = ServerFields
  <2>1. ServerOK(f) /\ ~f.new /\ f["len"] = s["len"] /\ f["st"] = s["st"] /\ f["buf"] = s["buf"]
    BY ForgetIs DEF ServerFields
  <2> QED  BY <2>1 DEF ServerOK, ServerShape
<1>2. /\ s.len \in Nat /\ s.len <= SdoBufferSize /\ s.seq \in Nat /\ s.rx.ack \in Nat
      /\ s.rx.ack <= s.seq /\ s.rx.blk \in 0 .. 127
  <2>1. s.rx.ack \in 0 .. 127 /\ s.rx.blk \in 0 .. 127  BY DEF IsFrame
  <2>2. s.len \in 0 .. SdoBufferSize /\ s.seq \in 0 .. 127  BY DEF ServerShape
  <2>3. s.rx.ack \in Nat /\ s.seq \in Nat  BY <2>1, <2>2
  <2>4. s.rx.ack <= s.seq  BY <2>3
  <2> QED  BY <2>1, <2>2, <2>3, <2>4, SdoNumbers
<1>3. n \in Nat /\ n < s.len
  <2>1. CASE s.eot
    <3>1. s.seq = s.blk /\ s.seq > 0 /\ (s.seq - 1) * SegmentSize < s.len  BY <2>1 DEF Begun
    <3>2. s.rx.ack <= s.seq - 1  BY <1>2, <2>1, <3>1
    <3>3. s.rx.ack * SegmentSize <= (s.seq - 1) * SegmentSize  BY <1>2, <3>1, <3>2, SdoNumbers
    <3>4. (s.seq - 1) * SegmentSize \in Nat /\ s.rx.ack * SegmentSize \in Nat
      BY <1>2, <3>1, SdoNumbers
    <3> QED  BY <1>2, <3>1, <3>3, <3>4
  <2>2. CASE ~s.eot
    <3>1. s.off = s.seq * SegmentSize /\ s.off < s.len  BY <2>2 DEF Begun
    <3>2. s.rx.ack * SegmentSize <= s.seq * SegmentSize  BY <1>2, SdoNumbers
    <3>3. s.seq * SegmentSize \in Nat /\ s.rx.ack * SegmentSize \in Nat
      BY <1>2, SdoNumbers
    <3> QED  BY <1>2, <3>1, <3>2, <3>3
  <2> QED  BY <2>1, <2>2
<1>4. Confirmed(s) = t  BY DEF Confirmed
<1> HIDE DEF f, n
<1>5. /\ DOMAIN t = ServerFields /\ t.st = "ulSub" /\ t.off = 0 /\ t.seq = 0 /\ t.len = s.len - n
      /\ t.blk = s.rx.blk /\ t.eot = FALSE /\ t.last = f.last /\ t.timer = f.timer /\ t.buf = b
      /\ t.new = f.new /\ t.rx = f.rx
  BY <1>1 DEF ServerFields
<1> HIDE DEF t
<1>6. IsList(b) /\ DOMAIN b = 1 .. SdoBufferSize
  <2>1. DOMAIN f.buf = 1 .. SdoBufferSize  BY <1>1 DEF ServerOK, ServerShape
  <2>2. b = [i \in 1 .. SdoBufferSize |-> b[i]] /\ DOMAIN b = 1 .. SdoBufferSize  BY <2>1
  <2> QED  BY <2>2, ListIs, SdoNumbers
<1> HIDE DEF b
<1>7. t.len \in 0 .. SdoBufferSize /\ 0 < t.len /\ 0 <= t.len /\ 0 = 0 * SegmentSize /\ 0 <= t.blk
      /\ 0 \in 0 .. SdoBufferSize /\ 0 \in 0 .. 127
  <2>1. t.len = s.len - n /\ t.blk = s.rx.blk  BY <1>5
  <2> QED  BY <1>2, <1>3, <2>1, SdoNumbers
<1>8. ServerShape(f)  BY <1>1 DEF ServerOK
<1>9. ServerShape(t)  BY <1>2, <1>5, <1>6, <1>7, <1>8 DEF ServerShape, ServerStates
<1>10. Begun(t)  BY <1>5, <1>7 DEF Begun
<1>11. Heard(t)
  <2>1. t.new = FALSE  BY <1>1, <1>5 DEF ServerOK, Heard
  <2> QED  BY <1>5, <2>1 DEF Heard
<1> QED  BY <1>4, <1>5, <1>9, <1>10, <1>11

\* UPLOAD_BL_SUBBLOCK.
LEMMA BlockUploaded ==
    ASSUME NEW s, NEW o, ServerOK(s), s.st = "ulSub", IsList(o)
    PROVE  Good(BlockUpload(s, o), o)
<1> USE DEF ServerOK
<1> DEFINE t == [s EXCEPT !.st = "ulEnd"]
           a == [k |-> "blUlEndR", pad |-> SegmentSize - s.last, crc |-> s.crc]
<1>1. CASE ~s.new  BY <1>1, SegmentSent DEF BlockUpload
<1>2. CASE s.new /\ (s.rx.k # "blAck" \/ s.rx.ack > s.seq)
  <2>1. BlockUpload(s, o) = ServerAbort(s, o)  BY <1>2 DEF BlockUpload
  <2> QED  BY <2>1, AbortIs DEF ServerShape
<1>3. CASE s.new /\ s.rx.k = "blAck" /\ ~(s.rx.ack > s.seq) /\ s.eot /\ s.rx.ack = s.blk
  <2>1. BlockUpload(s, o) = Reply(t, o, a)  BY <1>3 DEF BlockUpload
  <2>2. SegmentSize - s.last \in 0 .. SegmentSize  BY SdoNumbers DEF ServerShape
  <2>3. IsFrame(a)  BY <2>2 DEF IsFrame
  <2>4. /\ DOMAIN t = ServerFields /\ t.st = "ulEnd" /\ t.off = s.off /\ t.seq = s.seq
        /\ t.len = s.len /\ t.blk = s.blk /\ t.eot = s.eot /\ t.last = s.last /\ t.timer = s.timer
        /\ t.buf = s.buf
    BY DEF ServerShape, ServerFields
  <2> HIDE DEF t, a
  <2>5. ServerShape(t)  BY <2>4 DEF ServerShape, ServerStates
  <2>6. Begun(t)  BY <2>4 DEF Begun
  <2> QED  BY <2>1, <2>3, <2>5, <2>6, ReplyIs
<1>4. CASE s.new /\ s.rx.k = "blAck" /\ ~(s.rx.ack > s.seq) /\ ~(s.eot /\ s.rx.ack = s.blk)
  <2>1. BlockUpload(s, o) = SendSegment(Confirmed(s), o)  BY <1>4 DEF BlockUpload
  <2>2. IsFrame(s.rx)  BY <1>4 DEF Heard
  <2> QED  BY <1>4, <2>1, <2>2, ConfirmedIs, SegmentSent
<1> QED  BY <1>1, <1>2, <1>3, <1>4

\* UPLOAD_BL_END.
LEMMA BlockUploadEnded ==
    ASSUME NEW s, NEW o, ServerShape(s), IsList(o)
    PROVE  Good(BlockUploadEnd(s, o), o)
<1>1. CASE s.rx.k \notin {"blUlEnd", "blUlStart"}  BY <1>1, AbortIs DEF BlockUploadEnd, ServerShape
<1>2. CASE s.rx.k \in {"blUlEnd", "blUlStart"}
  <2>1. ServerOK(Forget([s EXCEPT !.st = "idle"]))  BY OverIs DEF ServerShape
  <2> QED  BY <1>2, <2>1 DEF BlockUploadEnd, Result, Good
<1> QED  BY <1>1, <1>2

\* The state machine, with a frame that waits or in a block upload.
LEMMA Handled ==
    ASSUME NEW s, NEW o, ServerOK(s), s.new \/ s.st = "ulSub", IsList(o), Len(o) \in ObjectSizes
    PROVE  Good(Handle(s, o), o)
<1> USE DEF ServerOK
<1>1. s.st # "dlSub" /\ (s.st # "ulSub" => IsFrame(s.rx))  BY DEF Heard
<1>2. CASE s.st = "idle"
  <2>1. Handle(s, o) = NewTransfer(s, o)  BY <1>2 DEF Handle
  <2>2. CASE s.rx.k \in {"dlExp", "dlInit"}
    BY <2>1, <2>2, DownloadBegun DEF NewTransfer
  <2>3. CASE s.rx.k = "blDl"
    BY <2>1, <2>3, BlockDownloadBegun DEF NewTransfer
  <2>4. CASE s.rx.k \in {"ulInit", "blUl"}
    <3>1. NewTransfer(s, o) = UploadInitiate(s, o)  BY <2>4 DEF NewTransfer
    <3>2. IsFrame(s.rx)  BY <1>1, <1>2
    <3> QED  BY <2>1, <2>4, <3>1, <3>2, UploadBegun
  <2>5. CASE s.rx.k \notin {"dlExp", "dlInit", "blDl", "ulInit", "blUl"}
    <3>1. NewTransfer(s, o) = ServerAbort(s, o)  BY <2>5 DEF NewTransfer
    <3> QED  BY <2>1, <3>1, AbortIs DEF ServerShape
  <2> QED  BY <2>2, <2>3, <2>4, <2>5
<1>3. CASE s.st = "dlSeg"
  <2>1. Handle(s, o) = DownloadSegment(s, o)  BY <1>3 DEF Handle
  <2> QED  BY <1>1, <1>3, <2>1, SegmentTaken
<1>4. CASE s.st = "dlResp"
  <2>1. Handle(s, o) = SubBlockResponse(s, o, FALSE)  BY <1>4 DEF Handle
  <2> QED  BY <2>1, SubBlockAnswered
<1>5. CASE s.st = "dlEnd"
  <2>1. Handle(s, o) = BlockDownloadEnd(s, o)  BY <1>5 DEF Handle
  <2> QED  BY <2>1, BlockDownloadEnded
<1>6. CASE s.st = "ulSeg"
  <2>1. Handle(s, o) = UploadSegment(s, o)  BY <1>6 DEF Handle
  <2> QED  BY <1>6, <2>1, SegmentAsked
<1>7. CASE s.st = "ulStart"
  <2>1. Handle(s, o) = BlockUploadStart(s, o)  BY <1>7 DEF Handle
  <2> QED  BY <1>7, <2>1, BlockUploadBegun
<1>8. CASE s.st = "ulSub"
  <2>1. Handle(s, o) = BlockUpload(s, o)  BY <1>8 DEF Handle
  <2> QED  BY <1>8, <2>1, BlockUploaded
<1>9. CASE s.st = "ulEnd"
  <2>1. Handle(s, o) = BlockUploadEnd(s, o)  BY <1>9 DEF Handle
  <2> QED  BY <2>1, BlockUploadEnded
<1>10. s.st \in ServerStates  BY DEF ServerShape
<1> QED  BY <1>1, <1>2, <1>3, <1>4, <1>5, <1>6, <1>7, <1>8, <1>9, <1>10 DEF ServerStates

\* Only the timer differs.
LEMMA TimerOnly ==
    ASSUME NEW s, ServerOK(s), NEW v \in 0 .. SdoTimeout
    PROVE  LET t == [s EXCEPT !.timer = v] IN
             /\ ServerOK(t) /\ t.timer = v /\ t.st = s.st /\ t.new = s.new /\ t.rx = s.rx
<1> DEFINE t == [s EXCEPT !.timer = v]
<1>1. /\ DOMAIN t = ServerFields /\ t.st = s.st /\ t.off = s.off /\ t.seq = s.seq
      /\ t.len = s.len /\ t.blk = s.blk /\ t.eot = s.eot /\ t.last = s.last /\ t.timer = v
      /\ t.buf = s.buf /\ t.new = s.new /\ t.rx = s.rx
  BY DEF ServerOK, ServerShape, ServerFields
<1> HIDE DEF t
<1>2. ServerShape(t)  BY <1>1 DEF ServerOK, ServerShape
<1>3. Begun(t)  BY <1>1 DEF ServerOK, Begun
<1>4. Heard(t)  BY <1>1 DEF ServerOK, Heard
<1> QED  BY <1>1, <1>2, <1>3, <1>4 DEF ServerOK, t

\* A call of CO_SDO_process.
LEMMA ProcessIs ==
    ASSUME NEW s, NEW o, NEW full \in BOOLEAN, NEW dt \in 0 .. 1, ServerOK(s),
           IsList(o), Len(o) \in ObjectSizes
    PROVE  Good(ServerProcess(s, o, full, dt), o)
<1> DEFINE active == ~full /\ (s.new \/ s.st = "ulSub")
           awake == IF active /\ s.st # "ulSub" THEN [s EXCEPT !.timer = 0] ELSE s
           timed == [awake EXCEPT !.timer = Elapsed(@, dt)]
<1>1. ServerOK(awake) /\ awake.st = s.st /\ awake.new = s.new /\ awake.rx = s.rx
  <2>1. 0 \in 0 .. SdoTimeout  BY SdoNumbers
  <2> QED  BY <2>1, TimerOnly
<1>2. awake.timer \in 0 .. SdoTimeout /\ DOMAIN awake = ServerFields
  BY <1>1 DEF ServerOK, ServerShape
<1>3. timed = [awake EXCEPT !.timer = Elapsed(awake.timer, dt)]
  BY <1>2 DEF ServerFields
<1>4. ServerProcess(s, o, full, dt) =
        IF s.st = "idle" /\ ~s.new THEN Result(s, o, <<>>)
        ELSE IF active /\ s.new /\ s.rx.k = "abort"
        THEN Result(Forget([awake EXCEPT !.st = "idle"]), o, <<>>)
        ELSE IF timed.timer >= SdoTimeout THEN ServerTimesOut(timed, o, full)
        ELSE IF active THEN Handle(timed, o)
        ELSE Result(timed, o, <<>>)
  BY DEF ServerProcess
<1> HIDE DEF awake
<1>5. Elapsed(awake.timer, dt) \in 0 .. SdoTimeout
  BY <1>2, SdoNumbers DEF Elapsed
<1>6. ServerOK(timed) /\ timed.st = s.st /\ timed.new = s.new /\ timed.rx = s.rx
  BY <1>1, <1>3, <1>5, TimerOnly
<1> HIDE DEF timed
<1>7. Good(Result(s, o, <<>>), o) /\ Good(Result(timed, o, <<>>), o)
  BY <1>6 DEF Result, Good
<1>8. Good(Result(Forget([awake EXCEPT !.st = "idle"]), o, <<>>), o)
  BY <1>2, OverIs DEF Result, Good
<1>9. Good(ServerTimesOut(timed, o, full), o)
  <2>1. Good(SubBlockResponse(timed, o, TRUE), o)
    BY <1>6, SubBlockAnswered DEF ServerOK
  <2>2. Good(ServerAbort(timed, o), o)
    BY <1>6, AbortIs DEF ServerOK, ServerShape
  <2> QED  BY <2>1, <2>2 DEF ServerTimesOut
<1>10. active => Good(Handle(timed, o), o)
  BY <1>6, Handled
<1> HIDE DEF active
<1> QED  BY <1>4, <1>7, <1>8, <1>9, <1>10

\* CO_SDO_receive, any frame in any state.
LEMMA ReceiveIs ==
    ASSUME NEW s, NEW m, ServerOK(s), IsFrame(m)
    PROVE  ServerOK(ServerReceive(s, m))
<1> DEFINE h == [s EXCEPT !.new = TRUE, !.rx = m]
           r == [s EXCEPT !.rx = m, !.timer = 0]
<1>1. CASE s.new  BY <1>1 DEF ServerReceive
<1>2. CASE ~s.new /\ s.st # "dlSub"
  <2>1. /\ DOMAIN h = ServerFields /\ h.st = s.st /\ h.off = s.off /\ h.seq = s.seq
        /\ h.len = s.len /\ h.blk = s.blk /\ h.eot = s.eot /\ h.last = s.last /\ h.timer = s.timer
        /\ h.buf = s.buf /\ h.new = TRUE /\ h.rx = m
    BY DEF ServerOK, ServerShape, ServerFields
  <2>2. ServerReceive(s, m) = h  BY <1>2 DEF ServerReceive
  <2> HIDE DEF h
  <2>3. ServerShape(h)  BY <2>1 DEF ServerOK, ServerShape
  <2>4. Begun(h)  BY <2>1 DEF ServerOK, Begun
  <2>5. Heard(h)  BY <1>2, <2>1 DEF Heard
  <2> QED  BY <2>2, <2>3, <2>4, <2>5 DEF ServerOK
<1>3. CASE ~s.new /\ s.st = "dlSub"
  <2>1. /\ DOMAIN r = ServerFields /\ r.st = "dlSub" /\ r.off = s.off /\ r.seq = s.seq
        /\ r.len = s.len /\ r.blk = s.blk /\ r.eot = s.eot /\ r.last = s.last /\ r.timer = 0
        /\ r.buf = s.buf /\ ~r.new /\ r.new = s.new /\ r.rx = m
    BY <1>3 DEF ServerOK, ServerShape, ServerFields
  <2>2. ServerReceive(s, m) = TakeSegment(r, m)  BY <1>3 DEF ServerReceive
  <2> HIDE DEF r
  <2>3. ServerShape(r)  BY <2>1, SdoNumbers DEF ServerOK, ServerShape, ServerStates
  <2>4. ServerOK(r)  BY <1>3, <2>1, <2>3 DEF ServerOK, Begun, Heard
  <2> DEFINE n == Least(SegmentSize, SdoBufferSize - r.off)
             stored == [r EXCEPT !.seq = @ + 1, !.off = @ + n, !.buf = Paste(@, r.off, m.d, n)]
             full == [stored EXCEPT !.st = "dlResp", !.new = TRUE]
             broken == [r EXCEPT !.st = "dlResp", !.new = TRUE]
  <2>5. TakeSegment(r, m) = IF SeqNo(m) = r.seq + 1
                            THEN IF SubBlockFull(stored, m) THEN full ELSE stored
                            ELSE IF SeqNo(m) = r.seq \/ r.seq = 0 THEN r ELSE broken
    BY DEF TakeSegment
  <2>6. r.off + n \in 0 .. SdoBufferSize
    BY <2>3, SdoNumbers DEF Least, ServerShape
  <2>7. SeqNo(m) \in 0 .. 127  BY SeqNoIs
  <2> HIDE DEF n
  <2>8. /\ DOMAIN stored = ServerFields /\ stored.st = "dlSub" /\ stored.off = r.off + n
        /\ stored.seq = r.seq + 1 /\ stored.len = r.len /\ stored.blk = r.blk /\ stored.eot = r.eot
        /\ stored.last = r.last /\ stored.timer = 0 /\ stored.new = r.new /\ stored.rx = m
        /\ stored.buf = Paste(r.buf, r.off, m.d, n)
    BY <2>1 DEF ServerFields
  <2> HIDE DEF stored
  <2>9. /\ DOMAIN full = ServerFields /\ full.st = "dlResp" /\ full.off = stored.off
        /\ full.seq = stored.seq /\ full.len = r.len /\ full.blk = r.blk /\ full.eot = r.eot
        /\ full.last = r.last /\ full.timer = 0 /\ full.new = TRUE /\ full.rx = m
        /\ full.buf = stored.buf
    BY <2>8 DEF ServerFields
  <2> HIDE DEF full
  <2>10. /\ DOMAIN broken = ServerFields /\ broken.st = "dlResp" /\ broken.off = r.off
         /\ broken.seq = r.seq /\ broken.len = r.len /\ broken.blk = r.blk /\ broken.eot = r.eot
         /\ broken.last = r.last /\ broken.timer = 0 /\ broken.new = TRUE /\ broken.rx = m
         /\ broken.buf = r.buf
    BY <2>1 DEF ServerFields
  <2> HIDE DEF broken
  <2>11. SeqNo(m) = r.seq + 1 => ServerOK(stored) /\ ServerOK(full)
    <3> SUFFICES ASSUME SeqNo(m) = r.seq + 1 PROVE ServerOK(stored) /\ ServerOK(full)
      OBVIOUS
    <3>1. r.seq + 1 \in 0 .. 127  BY <2>7
    <3>2. IsList(stored.buf) /\ DOMAIN stored.buf = 1 .. SdoBufferSize
      BY <2>3, <2>8, PasteIs DEF ServerShape
    <3>3. ServerShape(stored)
      BY <2>1, <2>3, <2>6, <2>8, <3>1, <3>2 DEF ServerShape, ServerStates
    <3>4. ServerShape(full)
      <4>1. /\ full.off = stored.off /\ full.seq = stored.seq /\ full.len = stored.len
            /\ full.blk = stored.blk /\ full.eot = stored.eot /\ full.last = stored.last
            /\ full.timer = stored.timer /\ full.buf = stored.buf
        BY <2>8, <2>9
      <4> QED  BY <2>9, <3>3, <4>1 DEF ServerShape, ServerStates
    <3>5. Begun(stored) /\ Begun(full)
      <4>1. stored.st = "dlSub" /\ full.st = "dlResp"  BY <2>8, <2>9
      <4> QED  BY <4>1 DEF Begun
    <3>6. Heard(stored)
      <4>1. stored.new = FALSE  BY <2>1, <2>4, <2>8 DEF ServerOK, Heard
      <4> QED  BY <4>1 DEF Heard
    <3>7. Heard(full)  BY <2>9 DEF Heard
    <3> QED  BY <3>3, <3>4, <3>5, <3>6, <3>7 DEF ServerOK
  <2>12. ServerOK(broken)
    <3>1. ServerShape(broken)
      BY <2>1, <2>3, <2>10 DEF ServerShape, ServerStates
    <3> QED  BY <2>10, <3>1 DEF ServerOK, Begun, Heard
  <2> QED  BY <2>2, <2>4, <2>5, <2>11, <2>12
<1> QED  BY <1>1, <1>2, <1>3 DEF ServerOK, Heard

-----------------------------------------------------------------------------
(* The client. *)

\* An idle client has its initial fields, but for the buffer.
LEMMA ClientIdleIs ==
    ASSUME NEW b, NEW up
    PROVE  ClientOK([ClientIdle EXCEPT !.buf = b], up)
<1> DEFINE t == [ClientIdle EXCEPT !.buf = b]
<1>1. /\ DOMAIN t = ClientFields /\ t.st = "idle" /\ t.new = FALSE /\ t.size = 0 /\ t.off = 0
      /\ t.ack = 0 /\ t.got = 0 /\ t.seq = 0 /\ t.blk = 0 /\ t.pad = 0 /\ t.dsize = 0
      /\ t.timer = 0 /\ t.btimer = 0
  BY DEF ClientIdle, ClientFields
<1> HIDE DEF t
<1>2. 0 \in 0 .. ClientBuffer /\ 0 \in 0 .. SegmentSize /\ 0 \in 0 .. SdoTimeout /\ 0 \in 0 .. 127
      /\ 0 \in Nat
  BY SdoNumbers
<1>3. ClientShape(t)  BY <1>1, <1>2 DEF ClientShape
<1>4. Reads(t)  BY <1>1 DEF Reads
<1>5. Writes(t, up)  BY <1>1 DEF Writes, Uploads, BlockUploads
<1> QED  BY <1>1, <1>3, <1>4, <1>5 DEF ClientOK, Copies, t

\* An idle client, whoever looks at it.
LEMMA FreshIs == \A up : ClientOK(ClientIdle, up)
<1>1. ClientIdle = [ClientIdle EXCEPT !.buf = ClientIdle.buf]  BY DEF ClientIdle
<1> QED  BY <1>1, ClientIdleIs

\* What is copied does not depend on the frame, and on the timers as little as that.
LEMMA CopiesKept ==
    ASSUME NEW c, NEW t, NEW up, Copies(c, up), DOMAIN t = ClientFields,
           t.st = c.st, t.size = c.size, t.off = c.off, t.ack = c.ack, t.got = c.got,
           t.seq = c.seq, t.blk = c.blk, t.pad = c.pad, t.dsize = c.dsize,
           t.timer \in 0 .. SdoTimeout, t.btimer \in Nat,
           t.btimer > 0 => c.btimer > 0 \/ c.st = "buGo"
    PROVE  Copies(t, up)
<1> USE DEF Copies
<1>1. ClientShape(t)  BY DEF ClientShape
<1>2. Reads(t)  BY DEF Reads
<1>3. t.st \in BlockUploads \/ t.btimer > 0 => t.dsize > BlockFrom
  <2>1. c.st \in BlockUploads \/ c.btimer > 0 => c.dsize > BlockFrom  BY DEF Writes
  <2>2. c.st = "buGo" => c.st \in BlockUploads  BY DEF BlockUploads
  <2> QED  BY <2>1, <2>2
<1>4. Writes(t, up)  BY <1>3 DEF Writes
<1> QED  BY <1>1, <1>2, <1>4

\* An answer with a frame, and one without.
LEMMA AnswerIs ==
    ASSUME NEW c, NEW up, NEW ret, ClientOK(c, up)
    PROVE  /\ ClientGood(Answer(c, <<>>, ret), up)
           /\ \A m : IsFrame(m) => ClientGood(Answer(c, <<m>>, ret), up)
<1>1. ClientGood(Answer(c, <<>>, ret), up)  BY DEF ClientGood, Answer
<1>2. ASSUME NEW m, IsFrame(m)  PROVE ClientGood(Answer(c, <<m>>, ret), up)
  <2>1. Answer(c, <<m>>, ret).c = c /\ Answer(c, <<m>>, ret).out = <<m>>  BY DEF Answer
  <2> QED  BY <1>2, <2>1 DEF ClientGood
<1> QED  BY <1>1, <1>2

\* CO_SDOclientDownloadInitiate.
LEMMA ClientDownloadIs ==
    ASSUME NEW c, NEW up, NEW data, NEW block \in BOOLEAN, ClientOK(c, up), IsList(data)
    PROVE  ClientGood(ClientDownload(c, data, block), FALSE)
<1> DEFINE n == Len(data)
           t1 == [c EXCEPT !.st = "dlInit", !.buf = data, !.size = n, !.new = FALSE, !.timer = 0]
           t2 == [c EXCEPT !.st = "blInit", !.buf = data, !.size = n, !.new = FALSE, !.timer = 0]
           m1 == [k |-> "dlExp", d |-> data]
           m2 == [k |-> "blDl", size |-> n]
           m3 == [k |-> "dlInit", size |-> n]
<1>1. ClientDownload(c, data, block) =
        IF n <= ExpeditedMax THEN Answer(t1, <<m1>>, "busy")
        ELSE IF n > BlockFrom /\ block THEN Answer(t2, <<m2>>, "busy")
        ELSE Answer(t1, <<m3>>, "busy")
  BY DEF ClientDownload
<1>2. n \in Nat
  <2>1. PICK S : data \in Seq(S)  BY DEF IsList
  <2> QED  BY <2>1, LenProperties
<1>3. IsFrame(m1) /\ IsFrame(m2) /\ IsFrame(m3)  BY DEF IsFrame
<1> HIDE DEF m1, m2, m3, n
<1>4. /\ DOMAIN t1 = ClientFields /\ t1.st = "dlInit" /\ t1.new = FALSE /\ t1.size = n
      /\ t1.off = c.off /\ t1.ack = c.ack /\ t1.got = c.got /\ t1.seq = c.seq /\ t1.blk = c.blk
      /\ t1.pad = c.pad /\ t1.dsize = c.dsize /\ t1.timer = 0 /\ t1.btimer = c.btimer
  BY DEF ClientOK, Copies, ClientShape, ClientFields
<1>5. /\ DOMAIN t2 = ClientFields /\ t2.st = "blInit" /\ t2.new = FALSE /\ t2.size = n
      /\ t2.off = c.off /\ t2.ack = c.ack /\ t2.got = c.got /\ t2.seq = c.seq /\ t2.blk = c.blk
      /\ t2.pad = c.pad /\ t2.dsize = c.dsize /\ t2.timer = 0 /\ t2.btimer = c.btimer
  BY DEF ClientOK, Copies, ClientShape, ClientFields
<1> HIDE DEF t1, t2
<1>6. ClientShape(c) /\ (c.btimer > 0 => c.dsize > BlockFrom)  BY DEF ClientOK, Copies, Writes
<1>7. 0 \in 0 .. SdoTimeout  BY SdoNumbers
<1>8. ClientShape(t1) /\ ClientShape(t2)
  BY <1>2, <1>4, <1>5, <1>6, <1>7 DEF ClientShape
<1>9. Reads(t1)  BY <1>4 DEF Reads
<1>10. n > BlockFrom => Reads(t2)
  <2>1. n > BlockFrom => n > 0  BY <1>2, SdoNumbers
  <2> QED  BY <1>5, <2>1 DEF Reads
<1>11. Writes(t1, FALSE) /\ Writes(t2, FALSE)
  BY <1>4, <1>5, <1>6 DEF Writes, Uploads, BlockUploads
<1>12. ClientOK(t1, FALSE) /\ (n > BlockFrom => ClientOK(t2, FALSE))
  BY <1>4, <1>5, <1>8, <1>9, <1>10, <1>11 DEF ClientOK, Copies
<1> QED  BY <1>1, <1>3, <1>12, AnswerIs

\* CO_SDOclientUploadInitiate.
LEMMA ClientUploadIs ==
    ASSUME NEW c, NEW up, NEW block \in BOOLEAN, ClientOK(c, up)
    PROVE  ClientGood(ClientUpload(c, block), TRUE)
<1> DEFINE b == [i \in 1 .. ClientBuffer |-> 0]
           t1 == [c EXCEPT !.buf = b, !.size = ClientBuffer, !.new = FALSE, !.timer = 0,
                           !.btimer = 0]
           t2 == [t1 EXCEPT !.st = "buInit", !.blk = BlockMax, !.seq = 0]
           t3 == [t1 EXCEPT !.st = "ulInit"]
           m1 == [k |-> "blUl", blk |-> BlockMax, pst |-> BlockFrom]
           m2 == [k |-> "ulInit"]
<1>1. ClientUpload(c, block) = IF block THEN Answer(t2, <<m1>>, "busy") ELSE Answer(t3, <<m2>>, "busy")
  BY DEF ClientUpload
<1>2. IsFrame(m1) /\ IsFrame(m2)
  <2>1. BlockMax \in 0 .. 127  BY SdoNumbers
  <2> QED  BY <2>1 DEF IsFrame
<1> HIDE DEF m1, m2, b
<1>3. /\ DOMAIN t1 = ClientFields /\ t1.new = FALSE /\ t1.size = ClientBuffer
      /\ t1.off = c.off /\ t1.ack = c.ack /\ t1.got = c.got /\ t1.seq = c.seq /\ t1.blk = c.blk
      /\ t1.pad = c.pad /\ t1.dsize = c.dsize /\ t1.timer = 0 /\ t1.btimer = 0
  BY DEF ClientOK, Copies, ClientShape, ClientFields
<1> HIDE DEF t1
<1>4. /\ DOMAIN t2 = ClientFields /\ t2.st = "buInit" /\ t2.new = FALSE /\ t2.size = ClientBuffer
      /\ t2.off = c.off /\ t2.ack = c.ack /\ t2.got = c.got /\ t2.seq = 0 /\ t2.blk = BlockMax
      /\ t2.pad = c.pad /\ t2.dsize = c.dsize /\ t2.timer = 0 /\ t2.btimer = 0
  BY <1>3 DEF ClientFields
<1>5. /\ DOMAIN t3 = ClientFields /\ t3.st = "ulInit" /\ t3.new = FALSE /\ t3.size = ClientBuffer
      /\ t3.off = c.off /\ t3.ack = c.ack /\ t3.got = c.got /\ t3.seq = c.seq /\ t3.blk = c.blk
      /\ t3.pad = c.pad /\ t3.dsize = c.dsize /\ t3.timer = 0 /\ t3.btimer = 0
  BY <1>3 DEF ClientFields
<1> HIDE DEF t2, t3
<1>6. ClientShape(c)  BY DEF ClientOK, Copies
<1>7. 0 \in 0 .. SdoTimeout /\ 0 \in 0 .. 127 /\ BlockMax \in 0 .. 127 /\ ClientBuffer \in Nat
  BY SdoNumbers
<1>8. ClientShape(t2) /\ ClientShape(t3)
  BY <1>4, <1>5, <1>6, <1>7 DEF ClientShape
<1>9. Reads(t2) /\ Reads(t3)  BY <1>4, <1>5 DEF Reads
<1>10. Writes(t2, TRUE) /\ Writes(t3, TRUE)
  BY <1>4, <1>5 DEF Writes, Uploads, BlockUploads
<1>11. ClientOK(t2, TRUE) /\ ClientOK(t3, TRUE)
  BY <1>4, <1>5, <1>8, <1>9, <1>10 DEF ClientOK, Copies
<1> QED  BY <1>1, <1>2, <1>11, AnswerIs

\* CO_SDOclient_receive, any frame in any state.
LEMMA ClientReceiveIs ==
    ASSUME NEW c, NEW m, NEW up \in BOOLEAN, ClientOK(c, up), IsFrame(m)
    PROVE  ClientOK(ClientReceive(c, m), up)
<1> DEFINE h == [c EXCEPT !.new = TRUE, !.rx = m]
           r == [c EXCEPT !.rx = m, !.timer = 0, !.btimer = 0]
<1>1. CASE c.new \/ c.st = "idle"
  BY <1>1 DEF ClientReceive
<1>2. CASE ~(c.new \/ c.st = "idle") /\ c.st # "buGo"
  <2>1. /\ DOMAIN h = ClientFields /\ h.st = c.st /\ h.new = TRUE /\ h.rx = m /\ h.size = c.size
        /\ h.off = c.off /\ h.ack = c.ack /\ h.got = c.got /\ h.seq = c.seq /\ h.blk = c.blk
        /\ h.pad = c.pad /\ h.dsize = c.dsize /\ h.timer = c.timer /\ h.btimer = c.btimer
    BY DEF ClientOK, Copies, ClientShape, ClientFields
  <2>2. ClientReceive(c, m) = h  BY <1>2 DEF ClientReceive
  <2> HIDE DEF h
  <2>3. h.timer \in 0 .. SdoTimeout /\ h.btimer \in Nat
    BY <2>1 DEF ClientOK, Copies, ClientShape
  <2>4. Copies(c, up)  BY DEF ClientOK
  <2>5. Copies(h, up)  BY <2>1, <2>3, <2>4, CopiesKept
  <2> QED  BY <2>1, <2>2, <2>5 DEF ClientOK
<1>3. CASE ~(c.new \/ c.st = "idle") /\ c.st = "buGo"
  <2>1. /\ DOMAIN r = ClientFields /\ r.st = c.st /\ r.new = c.new /\ r.rx = m /\ r.size = c.size
        /\ r.off = c.off /\ r.ack = c.ack /\ r.got = c.got /\ r.seq = c.seq /\ r.blk = c.blk
        /\ r.pad = c.pad /\ r.dsize = c.dsize /\ r.timer = 0 /\ r.btimer = 0
    BY DEF ClientOK, Copies, ClientShape, ClientFields
  <2>2. ClientReceive(c, m) = ClientTakes(r, m)  BY <1>3 DEF ClientReceive
  <2> HIDE DEF r
  <2>3. Copies(r, up)
    <3>1. 0 \in 0 .. SdoTimeout /\ 0 \in Nat /\ ~(0 > 0)  BY SdoNumbers
    <3>2. Copies(c, up)  BY DEF ClientOK
    <3> QED  BY <2>1, <3>1, <3>2, CopiesKept
  <2>4. up /\ r.size = ClientBuffer /\ r.dsize > BlockFrom
    BY <1>3, <2>1, <2>3 DEF Copies, Writes, Uploads, BlockUploads
  <2>5. r.new = FALSE  BY <1>3, <2>1 DEF ClientOK
  <2> DEFINE n == Least(SegmentSize, r.size - r.got)
             b == Paste(r.buf, r.got, m.d, n)
             stored == [r EXCEPT !.seq = @ + 1, !.got = @ + n, !.buf = Paste(@, r.got, m.d, n)]
             full == [stored EXCEPT !.st = "buSubEnd", !.new = TRUE]
             broken == [r EXCEPT !.st = "buSubEnd", !.new = TRUE]
  <2>6. ClientTakes(r, m) \in {r, broken} \/ (SeqNo(m) = r.seq + 1 /\ ClientTakes(r, m) \in {stored, full})
    BY DEF ClientTakes
  <2>7. r.got + n \in 0 .. ClientBuffer
    <3>1. r.got \in 0 .. ClientBuffer  BY <2>3 DEF Copies, ClientShape
    <3> QED  BY <2>4, <3>1, SdoNumbers DEF Least
  <2>8. SeqNo(m) \in 0 .. 127  BY SeqNoIs
  <2> HIDE DEF n, b
  <2>9. /\ DOMAIN stored = ClientFields /\ stored.st = "buGo" /\ stored.new = FALSE /\ stored.rx = m
        /\ stored.size = r.size /\ stored.off = r.off /\ stored.ack = r.ack /\ stored.got = r.got + n
        /\ stored.seq = r.seq + 1 /\ stored.blk = r.blk /\ stored.pad = r.pad
        /\ stored.dsize = r.dsize /\ stored.timer = 0 /\ stored.btimer = 0
    BY <1>3, <2>1, <2>5 DEF ClientFields
  <2> HIDE DEF stored
  <2>10. /\ DOMAIN full = ClientFields /\ full.st = "buSubEnd" /\ full.new = TRUE /\ full.rx = m
         /\ full.size = r.size /\ full.off = r.off /\ full.ack = r.ack /\ full.got = r.got + n
         /\ full.seq = r.seq + 1 /\ full.blk = r.blk /\ full.pad = r.pad
         /\ full.dsize = r.dsize /\ full.timer = 0 /\ full.btimer = 0
    BY <2>9 DEF ClientFields
  <2> HIDE DEF full
  <2>11. /\ DOMAIN broken = ClientFields /\ broken.st = "buSubEnd" /\ broken.new = TRUE /\ broken.rx = m
         /\ broken.size = r.size /\ broken.off = r.off /\ broken.ack = r.ack /\ broken.got = r.got
         /\ broken.seq = r.seq /\ broken.blk = r.blk /\ broken.pad = r.pad
         /\ broken.dsize = r.dsize /\ broken.timer = 0 /\ broken.btimer = 0
    BY <2>1 DEF ClientFields
  <2> HIDE DEF broken
  <2>12. ClientShape(r)  BY <2>3 DEF Copies
  <2>13. SeqNo(m) = r.seq + 1 => ClientShape(stored) /\ ClientShape(full)
    <3>1. SeqNo(m) = r.seq + 1 => r.seq + 1 \in 0 .. 127  BY <2>8
    <3>2. 0 \in 0 .. SdoTimeout /\ 0 \in Nat  BY SdoNumbers
    <3> QED  BY <2>7, <2>9, <2>10, <2>12, <3>1, <3>2 DEF ClientShape
  <2>14. ClientShape(broken)
    <3>1. 0 \in 0 .. SdoTimeout /\ 0 \in Nat  BY SdoNumbers
    <3> QED  BY <2>11, <2>12, <3>1 DEF ClientShape
  <2>15. Reads(stored) /\ Reads(full) /\ Reads(broken)
    BY <2>9, <2>10, <2>11 DEF Reads
  <2>16. Writes(stored, up) /\ Writes(full, up) /\ Writes(broken, up)
    BY <2>4, <2>9, <2>10, <2>11 DEF Writes
  <2>17. ClientOK(r, up)  BY <2>3, <2>5 DEF ClientOK
  <2>18. ClientOK(broken, up)  BY <2>11, <2>14, <2>15, <2>16 DEF ClientOK, Copies
  <2>19. SeqNo(m) = r.seq + 1 => ClientOK(stored, up) /\ ClientOK(full, up)
    BY <2>9, <2>10, <2>13, <2>15, <2>16 DEF ClientOK, Copies
  <2> QED  BY <2>2, <2>6, <2>17, <2>18, <2>19
<1> QED  BY <1>1, <1>2, <1>3

\* The section "RX data" of a download, when the transfer goes on.
LEMMA DownloadRxIs ==
    ASSUME NEW c, ClientOK(c, FALSE), c.new, c.st # "idle"
    PROVE  Copies(DownloadRx(c), FALSE)
<1>1. ClientShape(c) /\ Reads(c) /\ Writes(c, FALSE) /\ IsFrame(c.rx)
  BY DEF ClientOK, Copies
<1>2. (c.btimer > 0 => c.dsize > BlockFrom) /\ c.st \notin Uploads
  BY <1>1 DEF Writes
<1>3. 0 \in 0 .. 127 /\ 0 \in Nat /\ 0 = 0  BY SdoNumbers
<1> DEFINE t1 == [c EXCEPT !.off = 0, !.toggle = 0, !.st = "dlReq"]
           t2 == [c EXCEPT !.toggle = Flip(@), !.st = "dlReq"]
           t3 == [c EXCEPT !.blk = c.rx.blk, !.seq = 0, !.off = 0, !.ack = 0, !.st = "blGo"]
           t4 == BlockAnswered(c)
           t5 == [c EXCEPT !.st = "abort"]
<1>4. Copies(t1, FALSE)
  <2>1. /\ DOMAIN t1 = ClientFields /\ t1.st = "dlReq" /\ t1.size = c.size /\ t1.off = 0
        /\ t1.ack = c.ack /\ t1.got = c.got /\ t1.seq = c.seq /\ t1.blk = c.blk /\ t1.pad = c.pad
        /\ t1.dsize = c.dsize /\ t1.timer = c.timer /\ t1.btimer = c.btimer
    BY <1>1 DEF ClientShape, ClientFields
  <2> HIDE DEF t1
  <2>2. ClientShape(t1)  BY <1>1, <1>3, <2>1 DEF ClientShape
  <2>3. t1.off <= t1.size  BY <1>1, <2>1 DEF ClientShape
  <2>4. Reads(t1)  BY <2>1, <2>3 DEF Reads
  <2>5. Writes(t1, FALSE)  BY <1>2, <2>1 DEF Writes, Uploads, BlockUploads
  <2> QED  BY <2>2, <2>4, <2>5 DEF Copies
<1>5. c.st = "dlWait" => Copies(t2, FALSE)
  <2>1. /\ DOMAIN t2 = ClientFields /\ t2.st = "dlReq" /\ t2.size = c.size /\ t2.off = c.off
        /\ t2.ack = c.ack /\ t2.got = c.got /\ t2.seq = c.seq /\ t2.blk = c.blk /\ t2.pad = c.pad
        /\ t2.dsize = c.dsize /\ t2.timer = c.timer /\ t2.btimer = c.btimer
    BY <1>1 DEF ClientShape, ClientFields
  <2> HIDE DEF t2
  <2>2. ClientShape(t2)  BY <1>1, <2>1 DEF ClientShape
  <2>4. c.st = "dlWait" => Reads(t2)  BY <1>1, <2>1 DEF Reads
  <2>5. Writes(t2, FALSE)  BY <1>2, <2>1 DEF Writes, Uploads, BlockUploads
  <2> QED  BY <2>2, <2>4, <2>5 DEF Copies
<1>6. c.st = "blInit" /\ c.rx.k = "blDlR" => Copies(t3, FALSE)
  <2> SUFFICES ASSUME c.st = "blInit", c.rx.k = "blDlR" PROVE Copies(t3, FALSE)  OBVIOUS
  <2>1. /\ DOMAIN t3 = ClientFields /\ t3.st = "blGo" /\ t3.size = c.size /\ t3.off = 0
        /\ t3.ack = 0 /\ t3.got = c.got /\ t3.seq = 0 /\ t3.blk = c.rx.blk /\ t3.pad = c.pad
        /\ t3.dsize = c.dsize /\ t3.timer = c.timer /\ t3.btimer = c.btimer
    BY <1>1 DEF ClientShape, ClientFields
  <2> HIDE DEF t3
  <2>2. c.rx.blk \in 0 .. 127  BY <1>1 DEF IsFrame
  <2>3. ClientShape(t3)  BY <1>1, <1>3, <2>1, <2>2 DEF ClientShape
  <2>4. 0 < c.size  BY <1>1 DEF Reads, ClientShape
  <2>5. Reads(t3)  BY <2>1, <2>4 DEF Reads
  <2>6. Writes(t3, FALSE)  BY <1>2, <2>1 DEF Writes, Uploads, BlockUploads
  <2> QED  BY <2>3, <2>5, <2>6 DEF Copies
<1>7. c.rx.k = "blSubR" => Copies(t4, FALSE)
  <2> SUFFICES ASSUME c.rx.k = "blSubR" PROVE Copies(t4, FALSE)  OBVIOUS
  <2> DEFINE acked == IF c.rx.ack # c.blk THEN c.ack + c.rx.ack * SegmentSize ELSE c.off
             e == [c EXCEPT !.ack = acked, !.off = acked, !.blk = c.rx.blk, !.seq = 0,
                            !.st = IF acked >= c.size THEN "blCrc" ELSE "blGo"]
  <2>1. t4 = e  BY DEF BlockAnswered
  <2>2. c.rx.blk \in 0 .. 127 /\ c.rx.ack \in 0 .. 127  BY <1>1 DEF IsFrame
  <2>3. acked \in Nat
    <3>1. c.ack \in Nat /\ c.off \in Nat  BY <1>1 DEF ClientShape
    <3>2. c.rx.ack \in Nat  BY <2>2
    <3>3. c.rx.ack * SegmentSize \in Nat  BY <3>2, SdoNumbers
    <3> QED  BY <3>1, <3>3
  <2> HIDE DEF acked, t4
  <2>4. /\ DOMAIN e = ClientFields /\ e.st \in {"blCrc", "blGo"} /\ (e.st = "blGo" => ~(acked >= c.size))
        /\ e.size = c.size /\ e.off = acked
        /\ e.ack = acked /\ e.got = c.got /\ e.seq = 0 /\ e.blk = c.rx.blk /\ e.pad = c.pad
        /\ e.dsize = c.dsize /\ e.timer = c.timer /\ e.btimer = c.btimer
    BY <1>1 DEF ClientShape, ClientFields
  <2> HIDE DEF e
  <2>5. ClientShape(e)  BY <1>1, <1>3, <2>2, <2>3, <2>4 DEF ClientShape
  <2>6. e.st = "blGo" => e.off < e.size
    <3>1. c.size \in Nat  BY <1>1 DEF ClientShape
    <3> QED  BY <2>3, <2>4, <3>1
  <2>7. Reads(e)  BY <2>4, <2>6 DEF Reads
  <2>8. Writes(e, FALSE)  BY <1>2, <2>4 DEF Writes, Uploads, BlockUploads
  <2> QED  BY <2>1, <2>5, <2>7, <2>8 DEF Copies
<1>8. Copies(t5, FALSE)
  <2>1. /\ DOMAIN t5 = ClientFields /\ t5.st = "abort" /\ t5.size = c.size /\ t5.off = c.off
        /\ t5.ack = c.ack /\ t5.got = c.got /\ t5.seq = c.seq /\ t5.blk = c.blk /\ t5.pad = c.pad
        /\ t5.dsize = c.dsize /\ t5.timer = c.timer /\ t5.btimer = c.btimer
    BY <1>1 DEF ClientShape, ClientFields
  <2> HIDE DEF t5
  <2>2. ClientShape(t5)  BY <1>1, <2>1 DEF ClientShape
  <2>3. Reads(t5)  BY <2>1 DEF Reads
  <2>4. Writes(t5, FALSE)  BY <1>2, <2>1 DEF Writes, Uploads, BlockUploads
  <2> QED  BY <2>2, <2>3, <2>4 DEF Copies
<1> HIDE DEF t1, t2, t3, t4, t5
<1>9. CASE c.st = "dlInit" /\ c.rx.k = "dlInitR"
  <2>1. DownloadRx(c) = t1  BY <1>9 DEF DownloadRx, t1
  <2> QED  BY <1>4, <2>1
<1>10. CASE c.st = "dlWait" /\ c.rx.k = "dlSegR" /\ c.rx.t = c.toggle
  <2>1. DownloadRx(c) = t2  BY <1>10 DEF DownloadRx, t2
  <2> QED  BY <1>5, <1>10, <2>1
<1>11. CASE c.st = "blInit" /\ c.rx.k = "blDlR"
  <2>1. DownloadRx(c) = t3  BY <1>11 DEF DownloadRx, t3
  <2> QED  BY <1>6, <1>11, <2>1
<1>12. CASE c.st \in {"blGo", "blWait"} /\ c.rx.k = "blSubR"
  <2>1. DownloadRx(c) = t4  BY <1>12 DEF DownloadRx, t4
  <2> QED  BY <1>7, <1>12, <2>1
<1>13. CASE ~(c.st = "dlInit" /\ c.rx.k = "dlInitR")
            /\ ~(c.st = "dlWait" /\ c.rx.k = "dlSegR" /\ c.rx.t = c.toggle)
            /\ ~(c.st = "blInit" /\ c.rx.k = "blDlR")
            /\ ~(c.st \in {"blGo", "blWait"} /\ c.rx.k = "blSubR")
  <2>1. DownloadRx(c) = t5  BY <1>13 DEF DownloadRx, t5
  <2> QED  BY <1>8, <2>1
<1> QED  BY <1>9, <1>10, <1>11, <1>12, <1>13

\* The same section of an upload.
LEMMA UploadRxIs ==
    ASSUME NEW c, ClientOK(c, TRUE), c.new, c.st # "idle"
    PROVE  Copies(UploadRx(c), TRUE)
<1>1. ClientShape(c) /\ Reads(c) /\ Writes(c, TRUE) /\ IsFrame(c.rx) /\ c.size = ClientBuffer
  BY DEF ClientOK, Copies, Writes
<1>2. c.st \in BlockUploads \/ c.btimer > 0 => c.dsize > BlockFrom
  BY <1>1 DEF Writes
<1>3. 0 \in 0 .. ClientBuffer /\ 0 \in Nat  BY SdoNumbers
<1> DEFINE t1 == [c EXCEPT !.off = 0, !.toggle = 0, !.st = "ulReq"]
           t2 == [c EXCEPT !.buf = Paste(@, c.off, c.rx.d, c.rx.n), !.off = @ + c.rx.n, !.st = "ulReq"]
           s3 == IF c.rx.size > c.size THEN "abort" ELSE "buStart"
           t3 == [c EXCEPT !.dsize = c.rx.size, !.got = 0, !.st = s3]
           s4 == IF c.dsize > c.got THEN "abort" ELSE "buAckLast"
           s5 == IF c.got >= c.size THEN "abort" ELSE "buAck"
           n == c.got - c.rx.pad
           s6 == IF SubSeq(c.buf, 1, n) = c.rx.crc THEN "buEnd" ELSE "abort"
           t6 == [c EXCEPT !.got = n, !.st = s6]
\* A new state of the reception alone.
<1>4. ASSUME NEW st \in {"abort", "buAck", "buAckLast"}, st # "abort" => c.st \in BlockUploads,
             st = "buAckLast" => c.dsize <= c.got
      PROVE  Copies([c EXCEPT !.st = st], TRUE)
  <2> DEFINE t == [c EXCEPT !.st = st]
  <2>1. /\ DOMAIN t = ClientFields /\ t.st = st /\ t.size = c.size /\ t.off = c.off
        /\ t.ack = c.ack /\ t.got = c.got /\ t.seq = c.seq /\ t.blk = c.blk /\ t.pad = c.pad
        /\ t.dsize = c.dsize /\ t.timer = c.timer /\ t.btimer = c.btimer
    BY <1>1 DEF ClientShape, ClientFields
  <2> HIDE DEF t
  <2>2. ClientShape(t)  BY <1>1, <2>1 DEF ClientShape
  <2>3. Reads(t)  BY <1>4, <2>1 DEF Reads
  <2>4. t.st \in BlockUploads => c.st \in BlockUploads  BY <1>4, <2>1 DEF BlockUploads
  <2>5. Writes(t, TRUE)  BY <1>1, <1>2, <1>4, <2>1, <2>4 DEF Writes
  <2> QED  BY <2>2, <2>3, <2>5 DEF Copies, t
<1>5. Copies(t1, TRUE)
  <2>1. /\ DOMAIN t1 = ClientFields /\ t1.st = "ulReq" /\ t1.size = c.size /\ t1.off = 0
        /\ t1.ack = c.ack /\ t1.got = c.got /\ t1.seq = c.seq /\ t1.blk = c.blk /\ t1.pad = c.pad
        /\ t1.dsize = c.dsize /\ t1.timer = c.timer /\ t1.btimer = c.btimer
    BY <1>1 DEF ClientShape, ClientFields
  <2> HIDE DEF t1
  <2>2. ClientShape(t1)  BY <1>1, <1>3, <2>1 DEF ClientShape
  <2>3. t1.off <= t1.size  BY <1>1, <2>1, SdoNumbers
  <2>4. Reads(t1)  BY <2>1, <2>3 DEF Reads
  <2>5. Writes(t1, TRUE)  BY <1>1, <1>2, <2>1 DEF Writes, BlockUploads
  <2> QED  BY <2>2, <2>4, <2>5 DEF Copies
<1>6. c.st = "ulWait" /\ SegmentFits(c) => Copies(t2, TRUE)
  <2> SUFFICES ASSUME c.st = "ulWait", SegmentFits(c) PROVE Copies(t2, TRUE)  OBVIOUS
  <2>1. /\ DOMAIN t2 = ClientFields /\ t2.st = "ulReq" /\ t2.size = c.size /\ t2.off = c.off + c.rx.n
        /\ t2.ack = c.ack /\ t2.got = c.got /\ t2.seq = c.seq /\ t2.blk = c.blk /\ t2.pad = c.pad
        /\ t2.dsize = c.dsize /\ t2.timer = c.timer /\ t2.btimer = c.btimer
    BY <1>1 DEF ClientShape, ClientFields
  <2> HIDE DEF t2
  <2>2. c.rx.n \in Nat /\ c.off + c.rx.n <= c.size  BY <1>1 DEF IsFrame, SegmentFits
  <2>3. c.off + c.rx.n \in Nat  BY <1>1, <2>2 DEF ClientShape
  <2>4. ClientShape(t2)  BY <1>1, <2>1, <2>3 DEF ClientShape
  <2>5. Reads(t2)  BY <2>1, <2>2 DEF Reads
  <2>6. Writes(t2, TRUE)  BY <1>1, <1>2, <2>1 DEF Writes, BlockUploads
  <2> QED  BY <2>4, <2>5, <2>6 DEF Copies
<1>7. c.rx.k = "blUlR" => Copies(t3, TRUE)
  <2> SUFFICES ASSUME c.rx.k = "blUlR" PROVE Copies(t3, TRUE)  OBVIOUS
  <2>1. s3 \in {"abort", "buStart"}  OBVIOUS
  <2> HIDE DEF s3
  <2>2. /\ DOMAIN t3 = ClientFields /\ t3.st = s3 /\ t3.size = c.size /\ t3.off = c.off
        /\ t3.ack = c.ack /\ t3.got = 0 /\ t3.seq = c.seq /\ t3.blk = c.blk /\ t3.pad = c.pad
        /\ t3.dsize = c.rx.size /\ t3.timer = c.timer /\ t3.btimer = c.btimer
    BY <1>1 DEF ClientShape, ClientFields
  <2> HIDE DEF t3
  <2>3. c.rx.size \in Nat /\ c.rx.size > BlockFrom  BY <1>1 DEF IsFrame
  <2>4. ClientShape(t3)  BY <1>1, <1>3, <2>2, <2>3 DEF ClientShape
  <2>5. Reads(t3)  BY <2>1, <2>2 DEF Reads
  <2>6. Writes(t3, TRUE)  BY <1>1, <2>1, <2>2, <2>3 DEF Writes
  <2> QED  BY <2>4, <2>5, <2>6 DEF Copies
<1>8. c.st = "buSubEnd" => Copies(LastSubBlock(c), TRUE)
  <2>1. c.dsize \in Nat /\ c.got \in Int  BY <1>1, SdoNumbers DEF ClientShape
  <2>2. s4 \in {"abort", "buAckLast"} /\ (s4 = "buAckLast" => c.dsize <= c.got)
    BY <2>1
  <2>3. LastSubBlock(c) = [c EXCEPT !.st = s4]  BY DEF LastSubBlock
  <2> HIDE DEF s4
  <2>4. c.st = "buSubEnd" => c.st \in BlockUploads  BY DEF BlockUploads
  <2> QED  BY <1>4, <2>2, <2>3, <2>4
<1>9. c.st = "buSubEnd" => Copies([c EXCEPT !.st = s5], TRUE)
  <2>1. s5 \in {"abort", "buAck"}  OBVIOUS
  <2> HIDE DEF s5
  <2>2. c.st = "buSubEnd" => c.st \in BlockUploads  BY DEF BlockUploads
  <2> QED  BY <1>4, <2>1, <2>2
<1>10. c.st = "buCrc" /\ c.rx.k = "blUlEndR" => Copies(t6, TRUE)
  <2> SUFFICES ASSUME c.st = "buCrc", c.rx.k = "blUlEndR" PROVE Copies(t6, TRUE)  OBVIOUS
  <2>1. s6 \in {"abort", "buEnd"}  OBVIOUS
  <2>2. n \in 0 .. ClientBuffer
    <3>1. c.rx.pad \in 0 .. SegmentSize  BY <1>1 DEF IsFrame
    <3>2. c.dsize > BlockFrom /\ c.dsize <= c.got  BY <1>1, <1>2 DEF Writes, BlockUploads
    <3>3. c.dsize \in Nat /\ c.got \in 0 .. ClientBuffer  BY <1>1 DEF ClientShape
    <3> QED  BY <3>1, <3>2, <3>3, SdoNumbers
  <2> HIDE DEF s6, n
  <2>3. /\ DOMAIN t6 = ClientFields /\ t6.st = s6 /\ t6.size = c.size /\ t6.off = c.off
        /\ t6.ack = c.ack /\ t6.got = n /\ t6.seq = c.seq /\ t6.blk = c.blk /\ t6.pad = c.pad
        /\ t6.dsize = c.dsize /\ t6.timer = c.timer /\ t6.btimer = c.btimer
    BY <1>1 DEF ClientShape, ClientFields
  <2> HIDE DEF t6
  <2>4. ClientShape(t6)  BY <1>1, <2>2, <2>3 DEF ClientShape
  <2>5. Reads(t6)  BY <2>1, <2>3 DEF Reads
  <2>6. c.dsize > BlockFrom  BY <1>2 DEF BlockUploads
  <2>7. Writes(t6, TRUE)  BY <1>1, <2>1, <2>3, <2>6 DEF Writes
  <2> QED  BY <2>4, <2>5, <2>7 DEF Copies
<1>11. Copies([c EXCEPT !.st = "abort"], TRUE)  BY <1>4
<1> HIDE DEF t1, t2, t3, t6, s5
<1>12. CASE c.st \in {"ulInit", "buInit"} /\ c.rx.k = "ulInitR"
  <2>1. UploadRx(c) = t1  BY <1>12 DEF UploadRx, t1
  <2> QED  BY <1>5, <2>1
<1>13. CASE c.st = "ulWait" /\ SegmentFits(c)
  <2>1. UploadRx(c) = t2  BY <1>13 DEF UploadRx, t2
  <2> QED  BY <1>6, <1>13, <2>1
<1>14. CASE c.st = "buInit" /\ c.rx.k = "blUlR"
  <2>1. UploadRx(c) = t3  BY <1>14 DEF UploadRx, t3
  <2> QED  BY <1>7, <1>14, <2>1
<1>15. CASE c.st = "buSubEnd" /\ LastBit(c.rx)
  <2>1. UploadRx(c) = LastSubBlock(c)  BY <1>15 DEF UploadRx
  <2> QED  BY <1>8, <1>15, <2>1
<1>16. CASE c.st = "buSubEnd" /\ ~LastBit(c.rx)
  <2>1. UploadRx(c) = [c EXCEPT !.st = s5]  BY <1>16 DEF UploadRx, s5
  <2> QED  BY <1>9, <1>16, <2>1
<1>17. CASE c.st = "buCrc" /\ c.rx.k = "blUlEndR"
  <2>1. UploadRx(c) = t6  BY <1>17 DEF UploadRx, UploadChecked, t6
  <2> QED  BY <1>10, <1>17, <2>1
<1>18. CASE ~(c.st \in {"ulInit", "buInit"} /\ c.rx.k = "ulInitR")
            /\ ~(c.st = "ulWait" /\ SegmentFits(c)) /\ ~(c.st = "buInit" /\ c.rx.k = "blUlR")
            /\ c.st # "buSubEnd" /\ ~(c.st = "buCrc" /\ c.rx.k = "blUlEndR")
  <2>1. UploadRx(c) = [c EXCEPT !.st = "abort"]  BY <1>18 DEF UploadRx
  <2> QED  BY <1>11, <2>1
<1> QED  BY <1>12, <1>13, <1>14, <1>15, <1>16, <1>17, <1>18

\* The section "TX data" of a download.
LEMMA DownloadTxIs ==
    ASSUME NEW c, ClientOK(c, FALSE)
    PROVE  ClientGood(DownloadTx(c), FALSE)
<1> DEFINE n == Least(SegmentSize, c.size - c.off)
           over == c.off + SegmentSize >= c.size
           m1 == [k |-> "dlSeg", t |-> c.toggle, n |-> n, c |-> c.off + n = c.size,
                  d |-> Cut(c.buf, c.off, n)]
           m2 == [k |-> "blSeg", seq |-> c.seq + 1, last |-> over, d |-> Cut(c.buf, c.off, n)]
           m3 == [k |-> "blEnd", pad |-> c.pad, crc |-> c.buf]
           t1 == [c EXCEPT !.off = @ + n, !.st = "dlWait"]
           st == IF over \/ c.seq + 1 >= c.blk THEN "blWait" ELSE "blGo"
           blk == IF over THEN c.seq + 1 ELSE c.blk
           t2 == [c EXCEPT !.seq = c.seq + 1, !.off = @ + SegmentSize, !.pad = SegmentSize - n,
                           !.blk = IF over THEN c.seq + 1 ELSE @, !.timer = 0, !.st = st]
           t3 == [c EXCEPT !.st = "blCrcWait", !.timer = 0]
<1>1. ClientShape(c) /\ Reads(c) /\ Writes(c, FALSE) /\ c.new \in BOOLEAN /\ (c.new => IsFrame(c.rx))
  BY DEF ClientOK, Copies
<1>2. (c.btimer > 0 => c.dsize > BlockFrom) /\ c.st \notin Uploads  BY <1>1 DEF Writes
<1>3. 0 \in 0 .. SdoTimeout  BY SdoNumbers
<1>4. CASE c.st = "dlReq"
  <2>1. DownloadTx(c) = Answer(t1, <<m1>>, "busy")  BY <1>4 DEF DownloadTx
  <2>2. c.off \in Nat /\ c.size \in Nat /\ c.off <= c.size  BY <1>1, <1>4 DEF ClientShape, Reads
  <2>3. n \in Nat /\ c.off + n <= c.size /\ c.off + n \in Nat
    BY <2>2, SdoNumbers DEF Least
  <2>4. IsFrame(m1)  BY <2>3 DEF IsFrame
  <2> HIDE DEF n, m1
  <2>5. /\ DOMAIN t1 = ClientFields /\ t1.st = "dlWait" /\ t1.size = c.size /\ t1.off = c.off + n
        /\ t1.ack = c.ack /\ t1.got = c.got /\ t1.seq = c.seq /\ t1.blk = c.blk /\ t1.pad = c.pad
        /\ t1.dsize = c.dsize /\ t1.timer = c.timer /\ t1.btimer = c.btimer
        /\ t1.new = c.new /\ t1.rx = c.rx
    BY <1>1 DEF ClientShape, ClientFields
  <2> HIDE DEF t1
  <2>6. ClientShape(t1)  BY <1>1, <2>3, <2>5 DEF ClientShape
  <2>7. Reads(t1)  BY <2>3, <2>5 DEF Reads
  <2>8. Writes(t1, FALSE)  BY <1>2, <2>5 DEF Writes, Uploads, BlockUploads
  <2>9. ClientOK(t1, FALSE)  BY <1>1, <2>5, <2>6, <2>7, <2>8 DEF ClientOK, Copies
  <2> QED  BY <2>1, <2>4, <2>9, AnswerIs
<1>5. CASE c.st = "blGo"
  <2>1. DownloadTx(c) = Answer(t2, <<m2>>, "busy")  BY <1>5 DEF DownloadTx
  <2>2. c.off \in Nat /\ c.size \in Nat /\ c.off < c.size /\ c.seq \in 0 .. 127 /\ c.blk \in 0 .. 127
        /\ (c.seq = 0 \/ c.seq < c.blk)
    BY <1>1, <1>5 DEF ClientShape, Reads
  <2>3. n \in 1 .. SegmentSize /\ SegmentSize - n \in 0 .. SegmentSize /\ c.off + SegmentSize \in Nat
    BY <2>2, SdoNumbers DEF Least
  <2>4. c.seq + 1 \in 1 .. 127 /\ c.seq + 1 \in 0 .. 127  BY <2>2
  <2>5. IsFrame(m2)  BY <2>4 DEF IsFrame
  <2>6. st \in {"blWait", "blGo"} /\ blk \in 0 .. 127  BY <2>2, <2>4
  <2>7. st = "blGo" => c.off + SegmentSize < c.size /\ c.seq + 1 < blk
    <3>1. st = "blGo" => ~over /\ ~(c.seq + 1 >= c.blk)  OBVIOUS
    <3>2. ~over => c.off + SegmentSize < c.size  BY <2>2, <2>3
    <3>3. c.seq \in Int /\ c.blk \in Int  BY <2>2
    <3>4. ~(c.seq + 1 >= c.blk) => c.seq + 1 < c.blk  BY <3>3
    <3> QED  BY <3>1, <3>2, <3>4
  <2> HIDE DEF n, m2, over
  <2>8. /\ DOMAIN t2 = ClientFields /\ t2.st = st /\ t2.size = c.size /\ t2.off = c.off + SegmentSize
        /\ t2.ack = c.ack /\ t2.got = c.got /\ t2.seq = c.seq + 1 /\ t2.blk = blk
        /\ t2.pad = SegmentSize - n
        /\ t2.dsize = c.dsize /\ t2.timer = 0 /\ t2.btimer = c.btimer
        /\ t2.new = c.new /\ t2.rx = c.rx
    BY <1>1 DEF ClientShape, ClientFields
  <2> HIDE DEF t2, st, blk
  <2>9. ClientShape(t2)  BY <1>1, <1>3, <2>3, <2>4, <2>6, <2>8 DEF ClientShape
  <2>10. Reads(t2)  BY <2>6, <2>7, <2>8 DEF Reads
  <2>11. Writes(t2, FALSE)  BY <1>2, <2>6, <2>8 DEF Writes, Uploads, BlockUploads
  <2>12. ClientOK(t2, FALSE)  BY <1>1, <2>8, <2>9, <2>10, <2>11 DEF ClientOK, Copies
  <2> QED  BY <2>1, <2>5, <2>12, AnswerIs
<1>6. CASE c.st = "blCrc"
  <2>1. DownloadTx(c) = Answer(t3, <<m3>>, "busy")  BY <1>6 DEF DownloadTx
  <2>2. IsFrame(m3)  BY DEF IsFrame
  <2>3. /\ DOMAIN t3 = ClientFields /\ t3.st = "blCrcWait" /\ t3.size = c.size /\ t3.off = c.off
        /\ t3.ack = c.ack /\ t3.got = c.got /\ t3.seq = c.seq /\ t3.blk = c.blk /\ t3.pad = c.pad
        /\ t3.dsize = c.dsize /\ t3.timer = 0 /\ t3.btimer = c.btimer
        /\ t3.new = c.new /\ t3.rx = c.rx
    BY <1>1 DEF ClientShape, ClientFields
  <2> HIDE DEF t3, m3
  <2>4. ClientShape(t3)  BY <1>1, <1>3, <2>3 DEF ClientShape
  <2>5. Reads(t3)  BY <2>3 DEF Reads
  <2>6. Writes(t3, FALSE)  BY <1>2, <2>3 DEF Writes, Uploads, BlockUploads
  <2>7. ClientOK(t3, FALSE)  BY <1>1, <2>3, <2>4, <2>5, <2>6 DEF ClientOK, Copies
  <2> QED  BY <2>1, <2>2, <2>7, AnswerIs
<1>7. CASE c.st \notin {"dlReq", "blGo", "blCrc"}
  <2>1. DownloadTx(c) = Answer(c, <<>>, "busy")  BY <1>7 DEF DownloadTx
  <2> QED  BY <2>1, AnswerIs
<1> QED  BY <1>4, <1>5, <1>6, <1>7

\* BLOCKUPLOAD_BLOCK_ACK: the next block has at least one segment.
LEMMA BlockAckIs ==
    ASSUME NEW c, ClientOK(c, TRUE), c.st = "buAck"
    PROVE  ClientGood(BlockAck(c), TRUE)
<1> DEFINE left == c.dsize - c.got
           ordered == Least(BlockMax, (left + SegmentSize - 1) \div SegmentSize)
           blk == IF left <= 0 THEN 0 ELSE ordered
           m == [k |-> "blAck", ack |-> c.seq, blk |-> blk]
           t1 == [c EXCEPT !.blk = 0, !.st = "buCrc"]
           t2 == [c EXCEPT !.blk = blk, !.seq = 0, !.btimer = 0, !.st = "buGo"]
<1>1. ClientShape(c) /\ Reads(c) /\ Writes(c, TRUE) /\ c.new \in BOOLEAN /\ (c.new => IsFrame(c.rx))
      /\ c.size = ClientBuffer /\ c.dsize > BlockFrom
  BY DEF ClientOK, Copies, Writes, BlockUploads
<1>2. BlockAck(c) = IF left <= 0 THEN Answer(t1, <<m>>, "busy") ELSE Answer(t2, <<m>>, "busy")
  BY DEF BlockAck
<1>3. c.dsize \in Nat /\ c.got \in Int /\ c.seq \in 0 .. 127  BY <1>1, SdoNumbers DEF ClientShape
<1>4. left \in Int /\ (left <= 0 => c.dsize <= c.got)  BY <1>3
<1>5. blk \in 0 .. 127
  <2>1. CASE left <= 0  BY <2>1
  <2>2. CASE ~(left <= 0)
    <3> DEFINE q == (left + SegmentSize - 1) \div SegmentSize
    <3>1. left >= 1 /\ SegmentSize >= 1 /\ SegmentSize \in Nat  BY <1>4, <2>2, SdoNumbers
    <3>2. left + SegmentSize - 1 \in Nat  BY <1>4, <3>1
    <3> HIDE DEF left
    <3>3. q \in Nat  BY <3>1, <3>2
    <3>4. BlockMax \in 1 .. 127  BY SdoNumbers
    <3> HIDE DEF q
    <3>5. Least(BlockMax, q) \in 0 .. 127  BY <3>3, <3>4 DEF Least
    <3> QED  BY <2>2, <3>5 DEF q
  <2> QED  BY <2>1, <2>2
<1> HIDE DEF blk, ordered
<1>6. IsFrame(m)  BY <1>3, <1>5 DEF IsFrame
<1>7. /\ DOMAIN t1 = ClientFields /\ t1.st = "buCrc" /\ t1.size = c.size /\ t1.off = c.off
      /\ t1.ack = c.ack /\ t1.got = c.got /\ t1.seq = c.seq /\ t1.blk = 0 /\ t1.pad = c.pad
      /\ t1.dsize = c.dsize /\ t1.timer = c.timer /\ t1.btimer = c.btimer
      /\ t1.new = c.new /\ t1.rx = c.rx
  BY <1>1 DEF ClientShape, ClientFields
<1>8. /\ DOMAIN t2 = ClientFields /\ t2.st = "buGo" /\ t2.size = c.size /\ t2.off = c.off
      /\ t2.ack = c.ack /\ t2.got = c.got /\ t2.seq = 0 /\ t2.blk = blk /\ t2.pad = c.pad
      /\ t2.dsize = c.dsize /\ t2.timer = c.timer /\ t2.btimer = 0
      /\ t2.new = c.new /\ t2.rx = c.rx
  BY <1>1 DEF ClientShape, ClientFields
<1> HIDE DEF t1, t2, m
<1>9. 0 \in 0 .. 127 /\ 0 \in Nat  OBVIOUS
<1>10. ClientShape(t1) /\ ClientShape(t2)
  BY <1>1, <1>5, <1>7, <1>8, <1>9 DEF ClientShape
<1>11. Reads(t1) /\ Reads(t2)  BY <1>7, <1>8 DEF Reads
<1>12. (left <= 0 => Writes(t1, TRUE)) /\ Writes(t2, TRUE)
  BY <1>1, <1>4, <1>7, <1>8 DEF Writes
<1>13. (left <= 0 => ClientOK(t1, TRUE)) /\ ClientOK(t2, TRUE)
  BY <1>1, <1>7, <1>8, <1>10, <1>11, <1>12 DEF ClientOK, Copies
<1> QED  BY <1>2, <1>6, <1>13, AnswerIs

\* The same section of an upload.
LEMMA UploadTxIs ==
    ASSUME NEW c, ClientOK(c, TRUE)
    PROVE  ClientGood(UploadTx(c), TRUE)
<1> DEFINE m1 == [k |-> "ulSeg", t |-> c.toggle]
           m2 == [k |-> "blUlStart"]
           m3 == [k |-> "blAck", ack |-> c.seq, blk |-> c.blk]
           m4 == [k |-> "blUlEnd"]
           t1 == [c EXCEPT !.toggle = Flip(@), !.st = "ulWait"]
           t2 == [c EXCEPT !.seq = 0, !.btimer = 0, !.st = "buGo"]
           t3 == [c EXCEPT !.seq = 0, !.btimer = 0, !.st = "buCrc"]
<1>1. ClientShape(c) /\ Reads(c) /\ Writes(c, TRUE) /\ c.new \in BOOLEAN /\ (c.new => IsFrame(c.rx))
  BY DEF ClientOK, Copies
<1>2. c.seq \in 0 .. 127 /\ c.blk \in 0 .. 127  BY <1>1 DEF ClientShape
<1>3. IsFrame(m1) /\ IsFrame(m2) /\ IsFrame(m3) /\ IsFrame(m4)  BY <1>2 DEF IsFrame
<1>4. 0 \in 0 .. 127 /\ 0 \in Nat  OBVIOUS
<1> HIDE DEF m1, m2, m3, m4
<1>5. CASE c.st = "ulReq"
  <2>1. UploadTx(c) = Answer(t1, <<m1>>, "busy")  BY <1>5 DEF UploadTx, m1
  <2>2. /\ DOMAIN t1 = ClientFields /\ t1.st = "ulWait" /\ t1.size = c.size /\ t1.off = c.off
        /\ t1.ack = c.ack /\ t1.got = c.got /\ t1.seq = c.seq /\ t1.blk = c.blk /\ t1.pad = c.pad
        /\ t1.dsize = c.dsize /\ t1.timer = c.timer /\ t1.btimer = c.btimer
        /\ t1.new = c.new /\ t1.rx = c.rx
    BY <1>1 DEF ClientShape, ClientFields
  <2> HIDE DEF t1
  <2>3. ClientShape(t1)  BY <1>1, <2>2 DEF ClientShape
  <2>4. Reads(t1)  BY <1>1, <1>5, <2>2 DEF Reads
  <2>5. Writes(t1, TRUE)  BY <1>1, <1>5, <2>2 DEF Writes, BlockUploads
  <2>6. ClientOK(t1, TRUE)  BY <1>1, <2>2, <2>3, <2>4, <2>5 DEF ClientOK, Copies
  <2> QED  BY <1>3, <2>1, <2>6, AnswerIs
<1>6. CASE c.st = "buStart"
  <2>1. UploadTx(c) = Answer(t2, <<m2>>, "busy")  BY <1>6 DEF UploadTx, m2
  <2>2. /\ DOMAIN t2 = ClientFields /\ t2.st = "buGo" /\ t2.size = c.size /\ t2.off = c.off
        /\ t2.ack = c.ack /\ t2.got = c.got /\ t2.seq = 0 /\ t2.blk = c.blk /\ t2.pad = c.pad
        /\ t2.dsize = c.dsize /\ t2.timer = c.timer /\ t2.btimer = 0
        /\ t2.new = c.new /\ t2.rx = c.rx
    BY <1>1 DEF ClientShape, ClientFields
  <2> HIDE DEF t2
  <2>3. ClientShape(t2)  BY <1>1, <1>4, <2>2 DEF ClientShape
  <2>4. Reads(t2)  BY <2>2 DEF Reads
  <2>5. c.size = ClientBuffer /\ c.dsize > BlockFrom  BY <1>1, <1>6 DEF Writes, BlockUploads
  <2>6. Writes(t2, TRUE)  BY <2>2, <2>5 DEF Writes
  <2>7. ClientOK(t2, TRUE)  BY <1>1, <2>2, <2>3, <2>4, <2>6 DEF ClientOK, Copies
  <2> QED  BY <1>3, <2>1, <2>7, AnswerIs
<1>7. CASE c.st = "buAckLast"
  <2>1. UploadTx(c) = Answer(t3, <<m3>>, "busy")  BY <1>7 DEF UploadTx, m3
  <2>2. /\ DOMAIN t3 = ClientFields /\ t3.st = "buCrc" /\ t3.size = c.size /\ t3.off = c.off
        /\ t3.ack = c.ack /\ t3.got = c.got /\ t3.seq = 0 /\ t3.blk = c.blk /\ t3.pad = c.pad
        /\ t3.dsize = c.dsize /\ t3.timer = c.timer /\ t3.btimer = 0
        /\ t3.new = c.new /\ t3.rx = c.rx
    BY <1>1 DEF ClientShape, ClientFields
  <2> HIDE DEF t3
  <2>3. ClientShape(t3)  BY <1>1, <1>4, <2>2 DEF ClientShape
  <2>4. Reads(t3)  BY <2>2 DEF Reads
  <2>5. c.size = ClientBuffer /\ c.dsize > BlockFrom /\ c.dsize <= c.got
    BY <1>1, <1>7 DEF Writes, BlockUploads
  <2>6. Writes(t3, TRUE)  BY <2>2, <2>5 DEF Writes
  <2>7. ClientOK(t3, TRUE)  BY <1>1, <2>2, <2>3, <2>4, <2>6 DEF ClientOK, Copies
  <2> QED  BY <1>3, <2>1, <2>7, AnswerIs
<1>8. CASE c.st = "buAck"
  <2>1. UploadTx(c) = BlockAck(c)  BY <1>8 DEF UploadTx
  <2> QED  BY <1>8, <2>1, BlockAckIs
<1>9. CASE c.st = "buEnd"
  <2>1. UploadTx(c) = Answer([ClientIdle EXCEPT !.buf = SubSeq(c.buf, 1, c.got)], <<m4>>, "ok")
    BY <1>9 DEF UploadTx, m4
  <2>2. ClientOK([ClientIdle EXCEPT !.buf = SubSeq(c.buf, 1, c.got)], TRUE)  BY ClientIdleIs
  <2> QED  BY <1>3, <2>1, <2>2, AnswerIs
<1>10. CASE c.st \notin {"ulReq", "buStart", "buAckLast", "buAck", "buEnd"}
  <2>1. UploadTx(c) = Answer(c, <<>>, "busy")  BY <1>10 DEF UploadTx
  <2> QED  BY <2>1, AnswerIs
<1> QED  BY <1>5, <1>6, <1>7, <1>8, <1>9, <1>10

\* A call of CO_SDOclientDownload or CO_SDOclientUpload.
LEMMA PollIs ==
    ASSUME NEW c, NEW up \in BOOLEAN, NEW full \in BOOLEAN, NEW dt \in 0 .. 1,
           ClientOK(c, up), c.st # "idle"
    PROVE  ClientGood(ClientPoll(c, up, full, dt), up)
<1> DEFINE rx == IF up THEN UploadRx(c) ELSE DownloadRx(c)
           heard == [rx EXCEPT !.timer = 0, !.new = FALSE, !.rx = [k |-> "none"]]
           received == IF c.new THEN heard ELSE c
           timed == ClientTimer(received, dt)
           due == IF up THEN BlockTimer(timed) ELSE timed
<1>1. ClientPoll(c, up, full, dt) =
        IF c.new /\ c.rx.k = "abort" THEN Answer(ClientIdle, <<>>, "serverAbort")
        ELSE IF c.new /\ ~up /\ DownloadEnds(c) THEN Answer(ClientIdle, <<>>, "ok")
        ELSE IF c.new /\ up /\ UploadEnds(c)
        THEN Answer([ClientIdle EXCEPT !.buf = Uploaded(c)], <<>>, "ok")
        ELSE IF timed.timer >= SdoTimeout THEN ClientAbort(timed, "timeout")
        ELSE IF full THEN Answer(due, <<>>, "busy")
        ELSE IF due.st = "abort" THEN ClientAbort(due, "clientAbort")
        ELSE IF up THEN UploadTx(due) ELSE DownloadTx(due)
  BY DEF ClientPoll
<1>2. ClientOK(received, up)
  <2>1. CASE ~c.new  BY <2>1
  <2>2. CASE c.new
    <3>1. Copies(rx, up)
      <4>1. CASE up
        <5>1. ClientOK(c, TRUE)  BY <4>1
        <5>2. Copies(UploadRx(c), TRUE)  BY <2>2, <5>1, UploadRxIs
        <5> QED  BY <4>1, <5>2
      <4>2. CASE ~up
        <5>1. ClientOK(c, FALSE)  BY <4>2
        <5>2. Copies(DownloadRx(c), FALSE)  BY <2>2, <5>1, DownloadRxIs
        <5> QED  BY <4>2, <5>2
      <4> QED  BY <4>1, <4>2
    <3> HIDE DEF rx
    <3>2. ClientShape(rx)  BY <3>1 DEF Copies
    <3>3. /\ DOMAIN heard = ClientFields /\ heard.st = rx.st /\ heard.size = rx.size
          /\ heard.off = rx.off /\ heard.ack = rx.ack /\ heard.got = rx.got /\ heard.seq = rx.seq
          /\ heard.blk = rx.blk /\ heard.pad = rx.pad /\ heard.dsize = rx.dsize
          /\ heard.timer = 0 /\ heard.btimer = rx.btimer /\ heard.new = FALSE
      BY <3>2 DEF ClientShape, ClientFields
    <3> HIDE DEF heard
    <3>4. heard.timer \in 0 .. SdoTimeout  BY <3>3, SdoNumbers
    <3>5. heard.btimer \in Nat  BY <3>2, <3>3 DEF ClientShape
    <3>6. Copies(heard, up)  BY <3>1, <3>3, <3>4, <3>5, CopiesKept
    <3>7. ClientOK(heard, up)  BY <3>3, <3>6 DEF ClientOK
    <3> QED  BY <2>2, <3>7
  <2>3. c.new \in BOOLEAN  BY DEF ClientOK
  <2> QED  BY <2>1, <2>2, <2>3
<1> HIDE DEF received
<1>3. ClientOK(timed, up) /\ timed.btimer \in Nat
  <2> DEFINE counts == received.timer < SdoTimeout /\ received.st = "buGo"
             e == Elapsed(received.timer, dt)
             f == IF counts THEN received.btimer + dt ELSE received.btimer
  <2>1. Copies(received, up) /\ ClientShape(received)  BY <1>2 DEF ClientOK, Copies
  <2>2. received.timer \in 0 .. SdoTimeout /\ received.btimer \in Nat  BY <2>1 DEF ClientShape
  <2>3. e \in 0 .. SdoTimeout  BY <2>2, SdoNumbers DEF Elapsed
  <2>4. f \in Nat /\ (f > 0 => received.btimer > 0 \/ received.st = "buGo")
    <3>1. CASE counts  BY <2>2, <3>1
    <3>2. CASE ~counts  BY <2>2, <3>2
    <3> QED  BY <3>1, <3>2
  <2>5. /\ DOMAIN timed = ClientFields /\ timed.st = received.st /\ timed.size = received.size
        /\ timed.off = received.off /\ timed.ack = received.ack /\ timed.got = received.got
        /\ timed.seq = received.seq /\ timed.blk = received.blk /\ timed.pad = received.pad
        /\ timed.dsize = received.dsize /\ timed.timer = e /\ timed.btimer = f
        /\ timed.new = received.new /\ timed.rx = received.rx
    BY <2>1 DEF ClientTimer, ClientShape, ClientFields
  <2> HIDE DEF timed, e, f
  <2>6. Copies(timed, up)  BY <2>1, <2>3, <2>4, <2>5, CopiesKept
  <2> QED  BY <1>2, <2>4, <2>5, <2>6 DEF ClientOK
<1> HIDE DEF timed
<1>4. ClientOK(due, up)
  <2> DEFINE t == [timed EXCEPT !.st = "buAck"]
  <2>1. due = timed \/ (up /\ timed.btimer >= SdoTimeout \div 2 /\ due = t)
    BY DEF BlockTimer
  <2>2. timed.btimer >= SdoTimeout \div 2 => timed.btimer > 0
    <3>1. SdoTimeout \div 2 \in Nat /\ SdoTimeout \div 2 >= 1  BY SdoServerAssumption
    <3> QED  BY <1>3, <3>1
  <2>3. Copies(timed, up) /\ ClientShape(timed) /\ Writes(timed, up)
    BY <1>3 DEF ClientOK, Copies
  <2>4. /\ DOMAIN t = ClientFields /\ t.st = "buAck" /\ t.size = timed.size
        /\ t.off = timed.off /\ t.ack = timed.ack /\ t.got = timed.got
        /\ t.seq = timed.seq /\ t.blk = timed.blk /\ t.pad = timed.pad
        /\ t.dsize = timed.dsize /\ t.timer = timed.timer /\ t.btimer = timed.btimer
        /\ t.new = timed.new /\ t.rx = timed.rx
    BY <2>3 DEF ClientShape, ClientFields
  <2> HIDE DEF t
  <2>5. ClientShape(t)  BY <2>3, <2>4 DEF ClientShape
  <2>6. Reads(t)  BY <2>4 DEF Reads
  <2>7. up /\ timed.btimer > 0 => Writes(t, up)
    BY <2>3, <2>4 DEF Writes
  <2>8. up /\ timed.btimer > 0 => ClientOK(t, up)
    BY <1>3, <2>4, <2>5, <2>6, <2>7 DEF ClientOK, Copies
  <2> QED  BY <1>3, <2>1, <2>2, <2>8
<1> HIDE DEF due
<1>5. ClientGood(Answer(ClientIdle, <<>>, "serverAbort"), up)
      /\ ClientGood(Answer(ClientIdle, <<>>, "ok"), up)
      /\ ClientGood(Answer([ClientIdle EXCEPT !.buf = Uploaded(c)], <<>>, "ok"), up)
      /\ ClientGood(Answer(due, <<>>, "busy"), up)
  BY <1>4, FreshIs, ClientIdleIs, AnswerIs
<1>6. ClientGood(ClientAbort(timed, "timeout"), up) /\ ClientGood(ClientAbort(due, "clientAbort"), up)
  <2>1. IsFrame([k |-> "abort"])  BY DEF IsFrame
  <2> QED  BY <2>1, FreshIs, AnswerIs DEF ClientAbort
<1>7. ClientGood(IF up THEN UploadTx(due) ELSE DownloadTx(due), up)
  <2>1. CASE up
    <3>1. ClientOK(due, TRUE)  BY <1>4, <2>1
    <3>2. ClientGood(UploadTx(due), TRUE)  BY <3>1, UploadTxIs
    <3> QED  BY <2>1, <3>2
  <2>2. CASE ~up
    <3>1. ClientOK(due, FALSE)  BY <1>4, <2>2
    <3>2. ClientGood(DownloadTx(due), FALSE)  BY <3>1, DownloadTxIs
    <3> QED  BY <2>2, <3>2
  <2> QED  BY <2>1, <2>2
<1> QED  BY <1>1, <1>5, <1>6, <1>7

-----------------------------------------------------------------------------
(* Frames on their way, and the two ends together. *)

\* CO_CANsend adds a frame or replaces the one that waits.
LEMMA SentIs ==
    ASSUME NEW ch, NEW out, Carries(ch), Len(ch) <= Held,
           out = <<>> \/ \E m : IsFrame(m) /\ out = <<m>>
    PROVE  Carries(Sent(ch, out)) /\ Len(Sent(ch, out)) <= Held
<1>1. CASE out = <<>>  BY <1>1 DEF Sent
<1>2. CASE out # <<>>
  <2>1. PICK m : IsFrame(m) /\ out = <<m>>  BY <1>2
  <2>2. PICK S0 : ch \in Seq(S0)  BY DEF Carries, IsList
  <2> DEFINE S == S0 \cup {m}
  <2>3. ch \in Seq(S)  BY <2>2
  <2> HIDE DEF S
  <2>4. m \in S  BY DEF S
  <2>5. Len(ch) \in Nat  BY <2>3, LenProperties
  <2>6. \A i \in 1 .. Len(ch) : IsFrame(ch[i])  BY DEF Carries
  <2>7. CASE FullChannel(ch)
    <3> DEFINE t == [ch EXCEPT ![Len(ch)] = m]
    <3>1. Sent(ch, out) = t  BY <1>2, <2>1, <2>7 DEF Sent
    <3>2. Len(ch) \in 1 .. Len(ch)  BY <2>5, <2>7, SdoNumbers DEF FullChannel
    <3>3. t \in Seq(S) /\ Len(t) = Len(ch)
      BY <2>3, <2>4, <3>2, ExceptSeq
    <3>4. \A i \in 1 .. Len(ch) : t[i] = IF i = Len(ch) THEN m ELSE ch[i]
      BY <2>3
    <3> HIDE DEF t
    <3>5. \A i \in 1 .. Len(t) : IsFrame(t[i])  BY <2>1, <2>6, <3>3, <3>4
    <3> QED  BY <3>1, <3>3, <3>5 DEF Carries, IsList
  <2>8. CASE ~FullChannel(ch)
    <3> DEFINE t == ch \o <<m>>
    <3>1. Sent(ch, out) = t  BY <1>2, <2>1, <2>8 DEF Sent
    <3>2. t \in Seq(S) /\ Len(t) = Len(ch) + 1
          /\ \A i \in 1 .. Len(t) : t[i] = IF i <= Len(ch) THEN ch[i] ELSE m
      BY <2>3, <2>4
    <3>3. Len(ch) + 1 <= Held  BY <2>5, <2>8, SdoNumbers DEF FullChannel
    <3> HIDE DEF t
    <3>4. \A i \in 1 .. Len(t) : IsFrame(t[i])
      <4> SUFFICES ASSUME NEW i \in 1 .. Len(t)  PROVE IsFrame(t[i])  OBVIOUS
      <4>1. CASE i <= Len(ch)
        <5>1. i \in 1 .. Len(ch)  BY <2>5, <3>2, <4>1
        <5> QED  BY <2>6, <3>2, <4>1, <5>1
      <4>2. CASE ~(i <= Len(ch))  BY <2>1, <3>2, <4>2
      <4> QED  BY <4>1, <4>2
    <3> QED  BY <3>1, <3>2, <3>3, <3>4 DEF Carries, IsList
  <2> QED  BY <2>7, <2>8
<1> QED  BY <1>1, <1>2

\* The first frame leaves its channel.
LEMMA TakenIs ==
    ASSUME NEW ch, Carries(ch), ch # <<>>
    PROVE  IsFrame(Head(ch)) /\ Carries(Tail(ch)) /\ Len(Tail(ch)) <= Len(ch)
<1>1. PICK S : ch \in Seq(S)  BY DEF Carries, IsList
<1>2. Len(ch) \in Nat /\ Len(ch) >= 1 /\ Head(ch) = ch[1]
      /\ Tail(ch) \in Seq(S) /\ Len(Tail(ch)) = Len(ch) - 1
      /\ \A i \in 1 .. Len(Tail(ch)) : Tail(ch)[i] = ch[i + 1]
  BY <1>1, EmptySeq, LenProperties, HeadTailProperties
<1>3. \A i \in 1 .. Len(ch) : IsFrame(ch[i])  BY DEF Carries
<1>4. IsFrame(Head(ch))  BY <1>2, <1>3
<1>5. \A i \in 1 .. Len(Tail(ch)) : IsFrame(Tail(ch)[i])
  BY <1>2, <1>3
<1> QED  BY <1>2, <1>4, <1>5 DEF Carries, IsList

\* The bytes of a download are a list of the object's length.
LEMMA DataIs == \A n, size \in Nat : IsList(Data(n, size)) /\ Len(Data(n, size)) = size
<1> SUFFICES ASSUME NEW n \in Nat, NEW size \in Nat
             PROVE  IsList(Data(n, size)) /\ Len(Data(n, size)) = size
  OBVIOUS
<1>1. Data(n, size) = [i \in 1 .. size |-> Data(n, size)[i]]  BY DEF Data
<1> QED  BY <1>1, ListIs

\* Both ends idle, and nothing on its way.
LEMMA SdoInvInit == SdoInit => SdoInv
<1> SUFFICES ASSUME SdoInit PROVE SdoInv  OBVIOUS
<1> USE DEF SdoInit
<1>1. ServerOK(server)
  <2>1. ServerIdle = [ServerIdle EXCEPT !.timer = ServerIdle.timer]  BY DEF ServerIdle
  <2>2. ServerIdle.timer \in 0 .. SdoTimeout  BY SdoNumbers DEF ServerIdle
  <2>3. ServerOK([ServerIdle EXCEPT !.timer = ServerIdle.timer])  BY <2>2, IdleIs
  <2> QED  BY <2>1, <2>3
<1>2. ClientOK(client, session.up)  BY FreshIs
<1>3. IsList(object) /\ Len(object) \in ObjectSizes
  <2>1. PICK size \in ObjectSizes : object = Data(0, size)  OBVIOUS
  <2>2. size \in Nat  BY SdoNumbers
  <2> QED  BY <2>1, <2>2, DataIs
<1>4. Carries(<<>>) /\ Len(<<>>) <= Held
  <2>1. <<>> \in Seq({}) /\ Len(<<>>) = 0  OBVIOUS
  <2> QED  BY <2>1, SdoNumbers DEF Carries, IsList
<1>5. DOMAIN session = {"n", "up", "block", "ret"} /\ session.up \in BOOLEAN  OBVIOUS
<1> QED  BY <1>1, <1>2, <1>3, <1>4, <1>5 DEF SdoInv

\* Every step of either end and of the channels keeps the invariant.
LEMMA SdoInvStep == SdoInv /\ [SdoNext]_sdoVars => SdoInv'
<1> SUFFICES ASSUME SdoInv, [SdoNext]_sdoVars PROVE SdoInv'  OBVIOUS
<1> USE DEF SdoInv
<1>1. ASSUME NEW up \in BOOLEAN, NEW block \in BOOLEAN, Start(up, block)  PROVE SdoInv'
  <2> DEFINE n == session.n + 1
             a == IF up THEN ClientUpload(client, block)
                  ELSE ClientDownload(client, Data(n, Len(object)), block)
  <2>1. /\ client' = a.c /\ toServer' = Sent(toServer, a.out)
        /\ session' = [n |-> n, up |-> up, block |-> block, ret |-> a.ret]
        /\ UNCHANGED <<server, object, toClient, faults>>
    BY <1>1 DEF Start
  <2>2. ClientGood(a, up)
    <3>1. CASE up
      <4>1. ClientGood(ClientUpload(client, block), TRUE)  BY ClientUploadIs
      <4> QED  BY <3>1, <4>1
    <3>2. CASE ~up
      <4>1. IsList(Data(n, Len(object)))
        <5>1. Len(object) \in Nat  BY SdoNumbers
        <5>2. Data(n, Len(object)) = [i \in 1 .. Len(object) |-> Data(n, Len(object))[i]]  BY DEF Data
        <5> QED  BY <5>1, <5>2, ListIs
      <4>2. ClientGood(ClientDownload(client, Data(n, Len(object)), block), FALSE)
        BY <4>1, ClientDownloadIs
      <4> QED  BY <3>2, <4>2
    <3> QED  BY <3>1, <3>2
  <2> HIDE DEF a, n
  <2>3. Carries(toServer)' /\ (Len(toServer) <= Held)'
    BY <2>1, <2>2, SentIs DEF ClientGood
  <2>4. DOMAIN session' = {"n", "up", "block", "ret"} /\ session'.up = up  BY <2>1
  <2>5. ClientOK(client', session'.up)  BY <2>1, <2>2, <2>4 DEF ClientGood
  <2> QED  BY <2>1, <2>3, <2>4, <2>5
<1>2. ASSUME NEW dt \in 0 .. 1, ClientRuns(dt)  PROVE SdoInv'
  <2> DEFINE a == ClientPoll(client, session.up, FullChannel(toServer), dt)
  <2>1. /\ client' = a.c /\ toServer' = Sent(toServer, a.out)
        /\ session' = [session EXCEPT !.ret = a.ret] /\ client.st # "idle"
        /\ UNCHANGED <<server, object, toClient, faults>>
    BY <1>2 DEF ClientRuns
  <2>2. ClientGood(a, session.up)
    <3>1. FullChannel(toServer) \in BOOLEAN  BY DEF FullChannel
    <3> QED  BY <2>1, <3>1, PollIs
  <2> HIDE DEF a
  <2>3. Carries(toServer)' /\ (Len(toServer) <= Held)'
    BY <2>1, <2>2, SentIs DEF ClientGood
  <2>4. DOMAIN session' = {"n", "up", "block", "ret"} /\ session'.up = session.up  BY <2>1
  <2>5. ClientOK(client', session'.up)  BY <2>1, <2>2, <2>4 DEF ClientGood
  <2> QED  BY <2>1, <2>3, <2>4, <2>5
<1>3. ASSUME NEW dt \in 0 .. 1, ServerRuns(dt)  PROVE SdoInv'
  <2> DEFINE r == ServerProcess(server, object, FullChannel(toClient), dt)
  <2>1. /\ server' = r.s /\ object' = r.object /\ toClient' = Sent(toClient, r.out)
        /\ UNCHANGED <<client, toServer, session, faults>>
    BY <1>3 DEF ServerRuns
  <2>2. Good(r, object)
    <3>1. FullChannel(toClient) \in BOOLEAN  BY DEF FullChannel
    <3> QED  BY <3>1, ProcessIs
  <2> HIDE DEF r
  <2>3. Carries(toClient)' /\ (Len(toClient) <= Held)'
    BY <2>1, <2>2, SentIs DEF Good
  <2>4. ServerOK(server') /\ IsList(object') /\ Len(object') \in ObjectSizes
    BY <2>1, <2>2 DEF Good
  <2> QED  BY <2>1, <2>3, <2>4
<1>4. ASSUME ClientCloses  PROVE SdoInv'
  <2>1. /\ client' = ClientIdle /\ session' = [session EXCEPT !.ret = "closed"]
        /\ UNCHANGED <<server, object, toServer, toClient>>
    BY <1>4 DEF ClientCloses
  <2>2. DOMAIN session' = {"n", "up", "block", "ret"} /\ session'.up = session.up  BY <2>1
  <2>3. ClientOK(client', session'.up)  BY <2>1, FreshIs
  <2> QED  BY <2>1, <2>2, <2>3
<1>5. ASSUME ServerStopped  PROVE SdoInv'
  <2>1. /\ server' = Forget([server EXCEPT !.st = "idle"])
        /\ UNCHANGED <<client, object, toServer, toClient, session>>
    BY <1>5 DEF ServerStopped
  <2>2. ServerOK(server')  BY <2>1, OverIs DEF ServerOK, ServerShape
  <2> QED  BY <2>1, <2>2
<1>6. ASSUME ServerHears  PROVE SdoInv'
  <2>1. /\ toServer # <<>> /\ server' = ServerReceive(server, Head(toServer))
        /\ toServer' = Tail(toServer) /\ UNCHANGED <<client, object, toClient, session, faults>>
    BY <1>6 DEF ServerHears
  <2>2. IsFrame(Head(toServer)) /\ Carries(Tail(toServer)) /\ Len(Tail(toServer)) <= Held
    <3>1. Len(toServer) \in Nat /\ Len(Tail(toServer)) \in Nat
      BY <2>1, TakenIs, LenProperties DEF Carries, IsList
    <3> QED  BY <2>1, <3>1, TakenIs, SdoNumbers
  <2>3. ServerOK(server')  BY <2>1, <2>2, ReceiveIs
  <2> QED  BY <2>1, <2>2, <2>3
<1>7. ASSUME ClientHears  PROVE SdoInv'
  <2>1. /\ toClient # <<>> /\ client' = ClientReceive(client, Head(toClient))
        /\ toClient' = Tail(toClient) /\ UNCHANGED <<server, object, toServer, session, faults>>
    BY <1>7 DEF ClientHears
  <2>2. IsFrame(Head(toClient)) /\ Carries(Tail(toClient)) /\ Len(Tail(toClient)) <= Held
    <3>1. Len(toClient) \in Nat /\ Len(Tail(toClient)) \in Nat
      BY <2>1, TakenIs, LenProperties DEF Carries, IsList
    <3> QED  BY <2>1, <3>1, TakenIs, SdoNumbers
  <2>3. ClientOK(client', session'.up)  BY <2>1, <2>2, ClientReceiveIs
  <2> QED  BY <2>1, <2>2, <2>3
<1>8. ASSUME FrameLost  PROVE SdoInv'
  <2>1. UNCHANGED <<server, client, object, session>>  BY <1>8 DEF FrameLost
  <2>2. \/ toServer # <<>> /\ toServer' = Tail(toServer) /\ UNCHANGED toClient
        \/ toClient # <<>> /\ toClient' = Tail(toClient) /\ UNCHANGED toServer
    BY <1>8 DEF FrameLost
  <2>3. ASSUME NEW ch, Carries(ch), ch # <<>>, Len(ch) <= Held
        PROVE  Carries(Tail(ch)) /\ Len(Tail(ch)) <= Held
    <3>1. Len(ch) \in Nat /\ Len(Tail(ch)) \in Nat
      BY <2>3, TakenIs, LenProperties DEF Carries, IsList
    <3> QED  BY <2>3, <3>1, TakenIs, SdoNumbers
  <2> QED  BY <2>1, <2>2, <2>3
<1>9. ASSUME UNCHANGED sdoVars  PROVE SdoInv'
  BY <1>9 DEF sdoVars
<1> QED  BY <1>1, <1>2, <1>3, <1>4, <1>5, <1>6, <1>7, <1>8, <1>9 DEF SdoNext

\* What is read and written stays inside the buffers.
LEMMA SdoInvTypes == SdoInv => SdoTypeOK
<1> SUFFICES ASSUME SdoInv PROVE SdoTypeOK  OBVIOUS
<1>1. ServerShape(server) /\ Begun(server)  BY DEF SdoInv, ServerOK
<1>2. ClientShape(client) /\ Reads(client)  BY DEF SdoInv, ClientOK, Copies
<1>3. /\ server.off \in 0 .. SdoBufferSize /\ server.len \in 0 .. SdoBufferSize
      /\ server.st \in {"dlSeg", "ulSeg", "ulSub"} => server.off <= server.len
      /\ server.seq \in 0 .. 127 /\ server.timer \in 0 .. SdoTimeout
      /\ DOMAIN server.buf = 1 .. SdoBufferSize
  BY <1>1 DEF ServerShape, Begun
<1>4. /\ client.off \in Nat /\ client.got \in 0 .. ClientBuffer
      /\ client.st \in {"dlReq", "dlWait", "ulWait"} => client.off <= client.size
      /\ client.st = "blGo" => client.off < client.size
      /\ client.seq \in 0 .. 127 /\ client.timer \in 0 .. SdoTimeout
  BY <1>2 DEF ClientShape, Reads
<1> QED  BY <1>3, <1>4 DEF SdoInv, SdoTypeOK

\* Whatever is lost, replaced, delayed or given up, no transfer reads or writes
\* past a buffer of either end.
THEOREM SdoTypeCorrect == SdoSpec => []SdoTypeOK
<1>1. SdoInit => SdoInv  BY SdoInvInit
<1>2. SdoInv /\ [SdoNext]_sdoVars => SdoInv'  BY SdoInvStep
<1>3. SdoInv => SdoTypeOK  BY SdoInvTypes
<1> QED  BY <1>1, <1>2, <1>3, PTL DEF SdoSpec

-----------------------------------------------------------------------------
(* What a download can write. *)

\* The frames with which the data of a download are complete: the one of an expedited
\* download, and the last of a block download, whose CRC stands for the bytes.
WholeFrame(m, n, len) ==
    /\ m.k = "dlExp" => Whole(m.d, n, len)
    /\ m.k = "blEnd" => Whole(m.crc, n, len)

\* The client keeps the data of its download, and sends the two only with them.
WholeInv ==
    /\ session.n \in Nat
    /\ client.st # "idle" /\ ~session.up => Whole(client.buf, session.n, Len(object))
    /\ server.new => WholeFrame(server.rx, session.n, Len(object))
    /\ \A i \in 1 .. Len(toServer) : WholeFrame(toServer[i], session.n, Len(object))

-----------------------------------------------------------------------------
\* A processed frame is forgotten.
LEMMA ForgetNew == \A s : DOMAIN s = ServerFields => Forget(s).new = FALSE
BY DEF Forget, ServerIdle, ServerFields

\* The ends of CO_SDO_process that write nothing.
LEMMA ReplyKeeps ==
    \A s, o, m : DOMAIN s = ServerFields => Reply(s, o, m).object = o /\ ~Reply(s, o, m).s.new
BY ForgetNew DEF Reply, Result

\* An abort leaves the object alone.
LEMMA AbortKeeps ==
    \A s, o : DOMAIN s = ServerFields => ServerAbort(s, o).object = o /\ ~ServerAbort(s, o).s.new
<1> SUFFICES ASSUME NEW s, NEW o, DOMAIN s = ServerFields
             PROVE  ServerAbort(s, o).object = o /\ ~ServerAbort(s, o).s.new
  OBVIOUS
<1> DEFINE t == [s EXCEPT !.st = "idle"]
<1>1. DOMAIN t = ServerFields  OBVIOUS
<1> HIDE DEF t
<1>2. ~Forget(t).new  BY <1>1, ForgetNew
<1> QED  BY <1>2 DEF ServerAbort, Result, t

\* What is written has the length of the object and is what the buffer holds.
LEMMA WriteWrites ==
    \A s, o, n, m : DOMAIN s = ServerFields =>
        /\ ~WriteOD(s, o, n, m).s.new
        /\ WriteOD(s, o, n, m).object = o
           \/ (n = Len(o) /\ WriteOD(s, o, n, m).object = SubSeq(s.buf, 1, n))
<1> SUFFICES ASSUME NEW s, NEW o, NEW n, NEW m, DOMAIN s = ServerFields
             PROVE  /\ ~WriteOD(s, o, n, m).s.new
                    /\ WriteOD(s, o, n, m).object = o
                       \/ (n = Len(o) /\ WriteOD(s, o, n, m).object = SubSeq(s.buf, 1, n))
  OBVIOUS
<1> DEFINE t == [s EXCEPT !.st = "idle"]
<1>1. DOMAIN t = ServerFields  OBVIOUS
<1>2. WriteOD(s, o, n, m) = IF n # Len(o) THEN ServerAbort(s, o)
                            ELSE Reply(t, SubSeq(s.buf, 1, n), m)
  BY Zenon DEF WriteOD
<1> HIDE DEF t
<1>3. CASE n # Len(o)
  <2>1. WriteOD(s, o, n, m) = ServerAbort(s, o)  BY <1>2, <1>3
  <2> QED  BY <2>1, AbortKeeps
<1>4. CASE n = Len(o)
  <2> DEFINE d == SubSeq(s.buf, 1, n)
  <2>1. WriteOD(s, o, n, m) = Reply(t, d, m)  BY <1>2, <1>4
  <2>2. Reply(t, d, m).object = d /\ ~Reply(t, d, m).s.new  BY <1>1, ReplyKeeps
  <2> HIDE DEF d
  <2>3. ~WriteOD(s, o, n, m).s.new /\ WriteOD(s, o, n, m).object = d  BY <2>1, <2>2
  <2> QED  BY <1>4, <2>3 DEF d
<1> QED  BY <1>3, <1>4

\* A segment of a block upload is sent without writing.
LEMMA SendKeeps ==
    \A s, o : DOMAIN s = ServerFields =>
        SendSegment(s, o).object = o /\ SendSegment(s, o).s.new = s.new
<1> SUFFICES ASSUME NEW s, NEW o, DOMAIN s = ServerFields
             PROVE  SendSegment(s, o).object = o /\ SendSegment(s, o).s.new = s.new
  OBVIOUS
<1> DEFINE n == Least(s.len - s.off, SegmentSize)
           over == s.off + n = s.len
           sent == [s EXCEPT !.timer = 0, !.off = @ + n, !.seq = @ + 1]
           all == [sent EXCEPT !.last = n, !.blk = sent.seq, !.eot = TRUE]
           segment == [k |-> "blSeg", seq |-> sent.seq, last |-> over, d |-> Cut(s.buf, s.off, n)]
<1>1. DOMAIN sent = ServerFields /\ sent.new = s.new  BY DEF ServerFields
<1> HIDE DEF sent
<1>2. all.new = sent.new  BY <1>1 DEF ServerFields
<1> HIDE DEF all
<1>3. SendSegment(s, o) = IF s.seq = s.blk \/ s.eot THEN Result(s, o, <<>>)
                          ELSE Result(IF over THEN all ELSE sent, o, <<segment>>)
  BY DEF SendSegment, sent, all
<1> HIDE DEF over, segment
<1> QED  BY <1>1, <1>2, <1>3 DEF Result

\* What a branch of CO_SDO_process leaves: no frame to be processed, and the object.
Keeps(r, o) == ~r.s.new /\ r.object = o

\* An expedited download writes the data of its frame.
LEMMA InitiateWrites ==
    ASSUME NEW s, NEW o, DOMAIN s = ServerFields, DOMAIN s.buf = 1 .. SdoBufferSize,
           s.rx.k = "dlExp" => IsList(s.rx.d) /\ Len(s.rx.d) <= SdoBufferSize
    PROVE  LET r == DownloadInitiate(s, o)
           IN  ~r.s.new /\ (r.object = o \/ (s.rx.k = "dlExp" /\ r.object = s.rx.d))
<1>1. CASE s.rx.k = "dlExp"
  <2> DEFINE d == s.rx.d
             t == [s EXCEPT !.buf = Paste(s.buf, 0, d, Len(d))]
             w == WriteOD(t, o, Len(d), [k |-> "dlInitR"])
  <2>1. DownloadInitiate(s, o) = w  BY <1>1, Zenon DEF DownloadInitiate
  <2>2. DOMAIN t = ServerFields /\ t.buf = Paste(s.buf, 0, d, Len(d))  BY DEF ServerFields
  <2>3. SubSeq(t.buf, 1, Len(d)) = d
    <3>1. PICK S : d \in Seq(S)  BY <1>1 DEF IsList
    <3>2. Len(d) \in Nat /\ Len(d) <= SdoBufferSize /\ DOMAIN d = 1 .. Len(d)
      BY <1>1, <3>1, LenProperties
    <3> DEFINE p == Paste(s.buf, 0, d, Len(d))
    <3>3. \A i \in 1 .. Len(d) : p[i] = d[i]
      <4> SUFFICES ASSUME NEW i \in 1 .. Len(d) PROVE p[i] = d[i]  OBVIOUS
      <4>1. i \in DOMAIN s.buf /\ i \in 0 + 1 .. 0 + Len(d) /\ i - 0 = i
        BY <3>2, SdoNumbers
      <4> QED  BY <4>1 DEF Paste
    <3> HIDE DEF p
    <3>4. SubSeq(p, 1, Len(d)) = [i \in 1 .. Len(d) |-> p[i]]
      BY <3>2 DEF SubSeq
    <3>5. d = [i \in 1 .. Len(d) |-> d[i]]  BY <3>1, <3>2
    <3>6. SubSeq(p, 1, Len(d)) = d  BY <3>3, <3>4, <3>5
    <3> QED  BY <2>2, <3>6 DEF p
  <2> HIDE DEF t, d
  <2>4. ~w.s.new /\ (w.object = o \/ w.object = SubSeq(t.buf, 1, Len(d)))
    BY <2>2, WriteWrites
  <2> QED  BY <1>1, <2>1, <2>3, <2>4 DEF d
<1>2. CASE s.rx.k # "dlExp"
  <2> DEFINE t == [s EXCEPT !.st = "dlSeg", !.off = 0, !.seq = 0, !.len = s.rx.size]
  <2>1. DOMAIN t = ServerFields  OBVIOUS
  <2>2. DownloadInitiate(s, o) = IF s.rx.size # Len(o) THEN ServerAbort(s, o)
                                 ELSE Reply(t, o, [k |-> "dlInitR"])
    BY <1>2, Zenon DEF DownloadInitiate
  <2> HIDE DEF t
  <2> QED  BY <2>1, <2>2, ReplyKeeps, AbortKeeps
<1> QED  BY <1>1, <1>2

\* A block download ends with the bytes its CRC stands for.
LEMMA BlockEndWrites ==
    ASSUME NEW s, NEW o, DOMAIN s = ServerFields
    PROVE  LET r == BlockDownloadEnd(s, o)
           IN  ~r.s.new /\ (r.object = o \/ (s.rx.k = "blEnd" /\ r.object = s.rx.crc))
<1> DEFINE off == s.off - s.rx.pad
           t == [s EXCEPT !.off = off]
           w == WriteOD(t, o, off, [k |-> "blEndR"])
<1>1. DOMAIN t = ServerFields /\ t.buf = s.buf  BY DEF ServerFields
<1> HIDE DEF t, off
<1>2. BlockDownloadEnd(s, o) =
        IF s.rx.k # "blEnd" THEN ServerAbort(s, o)
        ELSE IF SubSeq(s.buf, 1, off) # s.rx.crc THEN ServerAbort(t, o) ELSE w
  BY Zenon DEF BlockDownloadEnd, t, off
<1>3. ~w.s.new /\ (w.object = o \/ w.object = SubSeq(t.buf, 1, off))
  BY <1>1, WriteWrites
<1> HIDE DEF w
<1>4. CASE s.rx.k # "blEnd"  BY <1>2, <1>4, AbortKeeps
<1>5. CASE s.rx.k = "blEnd" /\ SubSeq(s.buf, 1, off) # s.rx.crc
  BY <1>1, <1>2, <1>5, AbortKeeps
<1>6. CASE s.rx.k = "blEnd" /\ SubSeq(s.buf, 1, off) = s.rx.crc
  BY <1>1, <1>2, <1>3, <1>6
<1> QED  BY <1>4, <1>5, <1>6

\* A segment of a download.
LEMMA SegmentNew ==
    ASSUME NEW s, NEW o, DOMAIN s = ServerFields
    PROVE  ~DownloadSegment(s, o).s.new
<1> DEFINE m == s.rx
           t == [s EXCEPT !.buf = Paste(s.buf, s.off, m.d, m.n), !.off = s.off + m.n,
                          !.seq = Flip(s.seq)]
           answer == [k |-> "dlSegR", t |-> s.seq]
<1>1. DOMAIN t = ServerFields  OBVIOUS
<1> HIDE DEF t, answer
<1>2. DownloadSegment(s, o) =
        IF m.k # "dlSeg" THEN ServerAbort(s, o)
        ELSE IF m.t # s.seq \/ s.off + m.n > s.len THEN ServerAbort(s, o)
        ELSE IF m.c THEN WriteOD(t, o, t.off, answer) ELSE Reply(t, o, answer)
  BY Zenon DEF DownloadSegment, t, answer
<1> HIDE DEF m
<1> QED  BY <1>1, <1>2, WriteWrites, ReplyKeeps, AbortKeeps

\* The branches that write nothing.
LEMMA BlockInitiateKeeps ==
    ASSUME NEW s, NEW o, DOMAIN s = ServerFields
    PROVE  Keeps(BlockDownloadInitiate(s, o), o)
<1> DEFINE blk == SdoBufferSize \div SegmentSize
           t == [s EXCEPT !.st = "dlSub", !.off = 0, !.seq = 0, !.blk = blk, !.len = s.rx.size]
<1>1. DOMAIN t = ServerFields  OBVIOUS
<1>2. BlockDownloadInitiate(s, o) = IF s.rx.size # Len(o) THEN ServerAbort(s, o)
                                    ELSE Reply(t, o, [k |-> "blDlR", blk |-> blk])
  BY Zenon DEF BlockDownloadInitiate
<1> HIDE DEF t, blk
<1> QED  BY <1>1, <1>2, ReplyKeeps, AbortKeeps DEF Keeps

\* The answer to a sub-block writes nothing.
LEMMA SubBlockKeeps ==
    ASSUME NEW s, NEW o, NEW b \in BOOLEAN, DOMAIN s = ServerFields
    PROVE  Keeps(SubBlockResponse(s, o, b), o)
<1> DEFINE last == ~b /\ LastBit(s.rx)
           blk == (SdoBufferSize - s.off) \div SegmentSize
           answer == [k |-> "blSubR", ack |-> s.seq, blk |-> blk]
           t == [s EXCEPT !.st = IF last THEN "dlEnd" ELSE "dlSub", !.seq = 0, !.blk = blk]
<1>1. DOMAIN t = ServerFields  OBVIOUS
<1>2. SubBlockResponse(s, o, b) = IF ~last /\ s.off >= SdoBufferSize THEN ServerAbort(s, o)
                                  ELSE Reply(t, o, answer)
  BY Zenon DEF SubBlockResponse
<1> HIDE DEF t, answer, last
<1> QED  BY <1>1, <1>2, ReplyKeeps, AbortKeeps DEF Keeps

\* Neither does the beginning of an upload, whatever its kind.
LEMMA UploadInitiateKeeps ==
    ASSUME NEW s, NEW o, DOMAIN s = ServerFields
    PROVE  Keeps(UploadInitiate(s, o), o)
<1> DEFINE n == Len(o)
           read == [s EXCEPT !.len = n, !.buf = Paste(s.buf, 0, o, n)]
           blocks == [read EXCEPT !.st = "ulStart", !.blk = s.rx.blk, !.crc = o]
           once == [read EXCEPT !.st = "idle"]
           segments == [read EXCEPT !.st = "ulSeg", !.off = 0, !.seq = 0]
<1>1. DOMAIN read = ServerFields  OBVIOUS
<1>2. UploadInitiate(s, o) =
        IF s.rx.k = "blUl" /\ n > s.rx.pst
        THEN IF s.rx.blk < 1 THEN ServerAbort(read, o)
             ELSE Reply(blocks, o, [k |-> "blUlR", size |-> n])
        ELSE IF n <= ExpeditedMax THEN Reply(once, o, [k |-> "ulExp", d |-> o])
        ELSE Reply(segments, o, [k |-> "ulInitR"])
  BY Zenon DEF UploadInitiate
<1> HIDE DEF read
<1>3. DOMAIN blocks = ServerFields /\ DOMAIN once = ServerFields /\ DOMAIN segments = ServerFields
  BY <1>1
<1> HIDE DEF blocks, once, segments, n
<1> QED  BY <1>1, <1>2, <1>3, ReplyKeeps, AbortKeeps DEF Keeps

\* Neither does the answer to a request for a segment.
LEMMA UploadSegmentKeeps ==
    ASSUME NEW s, NEW o, DOMAIN s = ServerFields
    PROVE  Keeps(UploadSegment(s, o), o)
<1> DEFINE n == Least(s.len - s.off, SegmentSize)
           over == s.off + n = s.len
           t == [s EXCEPT !.off = s.off + n, !.seq = Flip(s.seq), !.st = IF over THEN "idle" ELSE "ulSeg"]
           answer == [k |-> "ulSegR", t |-> s.seq, n |-> n, c |-> over, d |-> Cut(s.buf, s.off, n)]
<1>1. DOMAIN t = ServerFields  OBVIOUS
<1>2. UploadSegment(s, o) = IF s.rx.k # "ulSeg" THEN ServerAbort(s, o)
                            ELSE IF s.rx.t # s.seq THEN ServerAbort(s, o) ELSE Reply(t, o, answer)
  BY Zenon DEF UploadSegment
<1> HIDE DEF t, answer
<1> QED  BY <1>1, <1>2, ReplyKeeps, AbortKeeps DEF Keeps

\* Neither does the first sub-block of a block upload.
LEMMA BlockUploadStartKeeps ==
    ASSUME NEW s, NEW o, DOMAIN s = ServerFields
    PROVE  Keeps(BlockUploadStart(s, o), o)
<1> DEFINE f == Forget(s)
           t == [f EXCEPT !.st = "ulSub", !.off = 0, !.seq = 0, !.eot = FALSE]
<1>1. DOMAIN f = ServerFields /\ ~f.new  BY ForgetNew DEF Forget, ServerIdle, ServerFields
<1> HIDE DEF f
<1>2. DOMAIN t = ServerFields /\ ~t.new  BY <1>1 DEF ServerFields
<1>3. BlockUploadStart(s, o) = IF s.rx.k # "blUlStart" THEN ServerAbort(s, o) ELSE SendSegment(t, o)
  BY Zenon DEF BlockUploadStart, f
<1> HIDE DEF t
<1> QED  BY <1>2, <1>3, SendKeeps, AbortKeeps DEF Keeps

\* Neither does the confirmation of a sub-block.
LEMMA BlockUploadKeeps ==
    ASSUME NEW s, NEW o, DOMAIN s = ServerFields, s.new \in BOOLEAN
    PROVE  Keeps(BlockUpload(s, o), o)
<1> DEFINE f == Forget(s)
           b == [i \in DOMAIN f.buf |-> IF i + s.rx.ack * SegmentSize <= s.len
                                        THEN f.buf[i + s.rx.ack * SegmentSize] ELSE f.buf[i]]
           t == [f EXCEPT !.buf = b, !.len = f.len - s.rx.ack * SegmentSize, !.blk = s.rx.blk,
                          !.off = 0, !.seq = 0, !.eot = FALSE]
           last == [s EXCEPT !.st = "ulEnd"]
           answer == [k |-> "blUlEndR", pad |-> SegmentSize - s.last, crc |-> s.crc]
<1>1. DOMAIN f = ServerFields /\ ~f.new  BY ForgetNew DEF Forget, ServerIdle, ServerFields
<1>2. Confirmed(s) = t  BY Zenon DEF Confirmed
<1> HIDE DEF f, b
<1>3. DOMAIN t = ServerFields /\ ~t.new  BY <1>1 DEF ServerFields
<1>4. DOMAIN last = ServerFields  OBVIOUS
<1>5. BlockUpload(s, o) =
        IF ~s.new THEN SendSegment(s, o)
        ELSE IF s.rx.k # "blAck" THEN ServerAbort(s, o)
        ELSE IF s.rx.ack > s.seq THEN ServerAbort(s, o)
        ELSE IF s.eot /\ s.rx.ack = s.blk THEN Reply(last, o, answer)
        ELSE SendSegment(t, o)
  BY <1>2, Zenon DEF BlockUpload
<1> HIDE DEF t, last, answer
<1>6. CASE ~s.new  BY <1>5, <1>6, SendKeeps DEF Keeps
<1>7. CASE s.new
  BY <1>3, <1>4, <1>5, <1>7, SendKeeps, ReplyKeeps, AbortKeeps DEF Keeps
<1> QED  BY <1>6, <1>7

\* Neither does the end of a block upload.
LEMMA BlockUploadEndKeeps ==
    ASSUME NEW s, NEW o, DOMAIN s = ServerFields
    PROVE  Keeps(BlockUploadEnd(s, o), o)
<1> DEFINE t == [s EXCEPT !.st = "idle"]
<1>1. DOMAIN t = ServerFields  OBVIOUS
<1>2. BlockUploadEnd(s, o) = IF s.rx.k \notin {"blUlEnd", "blUlStart"} THEN ServerAbort(s, o)
                             ELSE Result(Forget(t), o, <<>>)
  BY Zenon DEF BlockUploadEnd
<1> HIDE DEF t
<1> QED  BY <1>1, <1>2, ForgetNew, AbortKeeps DEF Keeps, Result

\* What a step of CO_SDO_process does to the object: nothing, or it stores a segment's
\* end, or the whole of what the processed frame tells.
WritesWhole(r, s, o) ==
    \/ r.object = o
    \/ s.st = "dlSeg"
    \/ s.new /\ s.rx.k = "dlExp" /\ r.object = s.rx.d
    \/ s.new /\ s.rx.k = "blEnd" /\ r.object = s.rx.crc

\* An expedited frame's data fit in the buffer.
Fits(m) == m.k = "dlExp" => IsList(m.d) /\ Len(m.d) <= SdoBufferSize

\* The state machine of CO_SDO_process.
LEMMA HandleWrites ==
    ASSUME NEW s, NEW o, ServerOK(s), s.new => Fits(s.rx), s.new \/ s.st = "ulSub"
    PROVE  ~Handle(s, o).s.new /\ WritesWhole(Handle(s, o), s, o)
<1>1. /\ DOMAIN s = ServerFields /\ DOMAIN s.buf = 1 .. SdoBufferSize /\ s.new \in BOOLEAN
      /\ s.st \in ServerStates \ {"dlSub"}
  BY DEF ServerOK, ServerShape, Heard
<1>2. CASE s.st = "idle"
  <2>1. Handle(s, o) = NewTransfer(s, o) /\ s.new  BY <1>2 DEF Handle
  <2>2. CASE s.rx.k \in {"dlExp", "dlInit"}
    <3>1. NewTransfer(s, o) = DownloadInitiate(s, o)  BY <2>2 DEF NewTransfer
    <3>2. s.rx.k = "dlExp" => IsList(s.rx.d) /\ Len(s.rx.d) <= SdoBufferSize
      BY <2>1 DEF Fits
    <3> QED  BY <1>1, <2>1, <3>1, <3>2, InitiateWrites DEF WritesWhole
  <2>3. CASE s.rx.k = "blDl"
    <3>1. NewTransfer(s, o) = BlockDownloadInitiate(s, o)  BY <2>3 DEF NewTransfer
    <3> QED  BY <1>1, <2>1, <3>1, BlockInitiateKeeps DEF Keeps, WritesWhole
  <2>4. CASE s.rx.k \in {"ulInit", "blUl"}
    <3>1. NewTransfer(s, o) = UploadInitiate(s, o)  BY <2>4 DEF NewTransfer
    <3> QED  BY <1>1, <2>1, <3>1, UploadInitiateKeeps DEF Keeps, WritesWhole
  <2>5. CASE s.rx.k \notin {"dlExp", "dlInit", "blDl", "ulInit", "blUl"}
    <3>1. NewTransfer(s, o) = ServerAbort(s, o)  BY <2>5 DEF NewTransfer
    <3> QED  BY <1>1, <2>1, <3>1, AbortKeeps DEF WritesWhole
  <2> QED  BY <2>2, <2>3, <2>4, <2>5
<1>3. CASE s.st = "dlSeg"
  <2>1. Handle(s, o) = DownloadSegment(s, o)  BY <1>3 DEF Handle
  <2> QED  BY <1>1, <1>3, <2>1, SegmentNew DEF WritesWhole
<1>4. CASE s.st = "dlResp"
  <2>1. Handle(s, o) = SubBlockResponse(s, o, FALSE)  BY <1>4 DEF Handle
  <2>2. Keeps(SubBlockResponse(s, o, FALSE), o)  BY <1>1, SubBlockKeeps
  <2> QED  BY <2>1, <2>2 DEF Keeps, WritesWhole
<1>5. CASE s.st = "dlEnd"
  <2>1. Handle(s, o) = BlockDownloadEnd(s, o) /\ s.new  BY <1>5 DEF Handle
  <2> QED  BY <1>1, <2>1, BlockEndWrites DEF WritesWhole
<1>6. CASE s.st = "ulSeg"
  <2>1. Handle(s, o) = UploadSegment(s, o)  BY <1>6 DEF Handle
  <2> QED  BY <1>1, <2>1, UploadSegmentKeeps DEF Keeps, WritesWhole
<1>7. CASE s.st = "ulStart"
  <2>1. Handle(s, o) = BlockUploadStart(s, o)  BY <1>7 DEF Handle
  <2> QED  BY <1>1, <2>1, BlockUploadStartKeeps DEF Keeps, WritesWhole
<1>8. CASE s.st = "ulSub"
  <2>1. Handle(s, o) = BlockUpload(s, o)  BY <1>8 DEF Handle
  <2> QED  BY <1>1, <2>1, BlockUploadKeeps DEF Keeps, WritesWhole
<1>9. CASE s.st = "ulEnd"
  <2>1. Handle(s, o) = BlockUploadEnd(s, o)  BY <1>9 DEF Handle
  <2> QED  BY <1>1, <2>1, BlockUploadEndKeeps DEF Keeps, WritesWhole
<1> QED  BY <1>1, <1>2, <1>3, <1>4, <1>5, <1>6, <1>7, <1>8, <1>9 DEF ServerStates

\* A call of CO_SDO_process; a frame that it leaves is the one there was.
LEMMA ProcessWrites ==
    ASSUME NEW s, NEW o, NEW full \in BOOLEAN, NEW dt \in 0 .. 1, ServerOK(s), s.new => Fits(s.rx)
    PROVE  LET r == ServerProcess(s, o, full, dt)
           IN  (r.s.new => s.new /\ r.s.rx = s.rx) /\ WritesWhole(r, s, o)
<1> DEFINE active == ~full /\ (s.new \/ s.st = "ulSub")
           awake == IF active /\ s.st # "ulSub" THEN [s EXCEPT !.timer = 0] ELSE s
           timed == [awake EXCEPT !.timer = Elapsed(@, dt)]
           over == [awake EXCEPT !.st = "idle"]
<1>1. ServerOK(awake) /\ awake.st = s.st /\ awake.new = s.new /\ awake.rx = s.rx
  <2>1. 0 \in 0 .. SdoTimeout  BY SdoNumbers
  <2> QED  BY <2>1, TimerOnly
<1>2. awake.timer \in 0 .. SdoTimeout /\ DOMAIN awake = ServerFields
  BY <1>1 DEF ServerOK, ServerShape
<1>3. timed = [awake EXCEPT !.timer = Elapsed(awake.timer, dt)]
  BY <1>2 DEF ServerFields
<1>4. ServerProcess(s, o, full, dt) =
        IF s.st = "idle" /\ ~s.new THEN Result(s, o, <<>>)
        ELSE IF active /\ s.new /\ s.rx.k = "abort" THEN Result(Forget(over), o, <<>>)
        ELSE IF timed.timer >= SdoTimeout THEN ServerTimesOut(timed, o, full)
        ELSE IF active THEN Handle(timed, o)
        ELSE Result(timed, o, <<>>)
  BY DEF ServerProcess
<1> HIDE DEF awake
<1>5. Elapsed(awake.timer, dt) \in 0 .. SdoTimeout
  BY <1>2, SdoNumbers DEF Elapsed
<1>6. ServerOK(timed) /\ timed.st = s.st /\ timed.new = s.new /\ timed.rx = s.rx
  BY <1>1, <1>3, <1>5, TimerOnly
<1>7. DOMAIN over = ServerFields  BY <1>2
<1>8. DOMAIN timed = ServerFields /\ s.new \in BOOLEAN  BY <1>6 DEF ServerOK, ServerShape, Heard
<1> HIDE DEF timed, over
<1> DEFINE P(r) == (r.s.new => s.new /\ r.s.rx = s.rx) /\ WritesWhole(r, s, o)
<1>9. P(Result(s, o, <<>>)) /\ P(Result(timed, o, <<>>))  BY <1>6 DEF Result, WritesWhole
<1>10. P(Result(Forget(over), o, <<>>))  BY <1>7, ForgetNew DEF Result, WritesWhole
<1>11. P(ServerTimesOut(timed, o, full))
  <2>1. P(SubBlockResponse(timed, o, TRUE))  BY <1>8, SubBlockKeeps DEF Keeps, WritesWhole
  <2>2. P(ServerAbort(timed, o))  BY <1>8, AbortKeeps DEF WritesWhole
  <2> HIDE DEF P
  <2> QED  BY <2>1, <2>2 DEF ServerTimesOut
<1>12. active => P(Handle(timed, o))  BY <1>6, HandleWrites DEF WritesWhole
<1> HIDE DEF active, P
<1>13. P(ServerProcess(s, o, full, dt))  BY <1>4, <1>9, <1>10, <1>11, <1>12
<1> QED  BY <1>13 DEF P

\* CO_SDO_receive: the frame kept is the one received, or the one there was.
LEMMA ReceiveKeeps ==
    ASSUME NEW s, NEW m, ServerOK(s)
    PROVE  LET t == ServerReceive(s, m)
           IN  t.new => (s.new /\ t.rx = s.rx) \/ t.rx = m
<1> DEFINE h == [s EXCEPT !.rx = m, !.timer = 0]
           n == Least(SegmentSize, SdoBufferSize - h.off)
           stored == [h EXCEPT !.seq = h.seq + 1, !.off = h.off + n, !.buf = Paste(h.buf, h.off, m.d, n)]
           full == [stored EXCEPT !.st = "dlResp", !.new = TRUE]
           broken == [h EXCEPT !.st = "dlResp", !.new = TRUE]
           new == [s EXCEPT !.new = TRUE, !.rx = m]
<1>1. DOMAIN s = ServerFields  BY DEF ServerOK, ServerShape
<1>2. DOMAIN h = ServerFields /\ h.rx = m  BY <1>1 DEF ServerFields
<1>3. new.rx = m  BY <1>1 DEF ServerFields
<1>4. TakeSegment(h, m) = IF SeqNo(m) = h.seq + 1
                          THEN IF SubBlockFull(stored, m) THEN full ELSE stored
                          ELSE IF SeqNo(m) = h.seq \/ h.seq = 0 THEN h ELSE broken
  BY Zenon DEF TakeSegment
<1>5. ServerReceive(s, m) = IF s.new THEN s
                            ELSE IF s.st = "dlSub" THEN TakeSegment(h, m) ELSE new
  BY Zenon DEF ServerReceive
<1> HIDE DEF h, n, new
<1>6. DOMAIN stored = ServerFields /\ stored.rx = m /\ broken.rx = m  BY <1>2 DEF ServerFields
<1> HIDE DEF stored, broken
<1>7. full.rx = m  BY <1>6 DEF ServerFields
<1> HIDE DEF full
<1>8. TakeSegment(h, m).rx = m  BY <1>2, <1>4, <1>6, <1>7
<1> QED  BY <1>3, <1>5, <1>8

-----------------------------------------------------------------------------
(* The client. *)

\* Of the two frames that tell the whole of a download, only those with d.
Tells(out, d) == \A m : out = <<m>> => (m.k = "dlExp" => m.d = d) /\ (m.k = "blEnd" => m.crc = d)

\* CO_SDOclientDownloadInitiate.
LEMMA ClientDownloadTells ==
    ASSUME NEW c, NEW d, NEW block \in BOOLEAN, DOMAIN c = ClientFields
    PROVE  LET a == ClientDownload(c, d, block)  IN  a.c.buf = d /\ Tells(a.out, d)
<1> DEFINE n == Len(d)
           begun(st) == [c EXCEPT !.st = st, !.buf = d, !.size = n, !.new = FALSE, !.timer = 0]
           x == begun("dlInit")
           y == begun("blInit")
<1>1. x.buf = d /\ y.buf = d  BY DEF ClientFields
<1>2. ClientDownload(c, d, block) =
        IF n <= ExpeditedMax THEN Answer(x, <<[k |-> "dlExp", d |-> d]>>, "busy")
        ELSE IF n > BlockFrom /\ block THEN Answer(y, <<[k |-> "blDl", size |-> n]>>, "busy")
        ELSE Answer(x, <<[k |-> "dlInit", size |-> n]>>, "busy")
  BY Zenon DEF ClientDownload
<1> HIDE DEF x, y, n, begun
<1> QED  BY <1>1, <1>2 DEF Answer, Tells

\* CO_SDOclientUploadInitiate.
LEMMA ClientUploadTells ==
    ASSUME NEW c, NEW d, NEW block \in BOOLEAN
    PROVE  Tells(ClientUpload(c, block).out, d)
<1> DEFINE begun == [c EXCEPT !.buf = [i \in 1 .. ClientBuffer |-> 0], !.size = ClientBuffer,
                              !.new = FALSE, !.timer = 0, !.btimer = 0]
           x == [begun EXCEPT !.st = "buInit", !.blk = BlockMax, !.seq = 0]
           y == [begun EXCEPT !.st = "ulInit"]
<1>1. ClientUpload(c, block) =
        IF block THEN Answer(x, <<[k |-> "blUl", blk |-> BlockMax, pst |-> BlockFrom]>>, "busy")
        ELSE Answer(y, <<[k |-> "ulInit"]>>, "busy")
  BY Zenon DEF ClientUpload
<1> HIDE DEF x, y
<1> QED  BY <1>1 DEF Answer, Tells

\* The section "RX data" of a download leaves its data alone.
LEMMA DownloadRxKeeps ==
    ASSUME NEW c, DOMAIN c = ClientFields
    PROVE  DOMAIN DownloadRx(c) = ClientFields /\ DownloadRx(c).buf = c.buf
<1> DEFINE begun == [c EXCEPT !.off = 0, !.toggle = 0, !.st = "dlReq"]
           next == [c EXCEPT !.toggle = Flip(c.toggle), !.st = "dlReq"]
           blocks == [c EXCEPT !.blk = c.rx.blk, !.seq = 0, !.off = 0, !.ack = 0, !.st = "blGo"]
           bad == [c EXCEPT !.st = "abort"]
           acked == IF c.rx.ack # c.blk THEN c.ack + c.rx.ack * SegmentSize ELSE c.off
           answered == [c EXCEPT !.ack = acked, !.off = acked, !.blk = c.rx.blk, !.seq = 0,
                                 !.st = IF acked >= c.size THEN "blCrc" ELSE "blGo"]
<1> DEFINE P(x) == DOMAIN x = ClientFields /\ x.buf = c.buf
<1>1. P(begun) /\ P(next) /\ P(blocks) /\ P(bad)  BY DEF ClientFields
<1>2. P(answered)
  <2> HIDE DEF acked
  <2> QED  BY DEF ClientFields
<1>3. BlockAnswered(c) = answered  BY Zenon DEF BlockAnswered
<1> HIDE DEF begun, next, blocks, bad, answered, acked
<1>4. DownloadRx(c) =
        CASE c.st = "dlInit" /\ c.rx.k = "dlInitR" -> begun
          [] c.st = "dlWait" /\ c.rx.k = "dlSegR" /\ c.rx.t = c.toggle -> next
          [] c.st = "blInit" /\ c.rx.k = "blDlR" -> blocks
          [] c.st \in {"blGo", "blWait"} /\ c.rx.k = "blSubR" -> BlockAnswered(c)
          [] OTHER -> bad
  BY DEF DownloadRx, begun, next, blocks, bad
<1> HIDE DEF P
<1>5. P(DownloadRx(c))
  <2>1. CASE c.st = "dlInit" /\ c.rx.k = "dlInitR"
    <3>1. DownloadRx(c) = begun  BY <1>4, <2>1
    <3> QED  BY <1>1, <3>1
  <2>2. CASE c.st = "dlWait" /\ c.rx.k = "dlSegR" /\ c.rx.t = c.toggle
    <3>1. DownloadRx(c) = next  BY <1>4, <2>2
    <3> QED  BY <1>1, <3>1
  <2>3. CASE c.st = "blInit" /\ c.rx.k = "blDlR"
    <3>1. DownloadRx(c) = blocks  BY <1>4, <2>3
    <3> QED  BY <1>1, <3>1
  <2>4. CASE c.st \in {"blGo", "blWait"} /\ c.rx.k = "blSubR"
    <3>1. DownloadRx(c) = answered  BY <1>3, <1>4, <2>4
    <3> QED  BY <1>2, <3>1
  <2>5. CASE /\ ~(c.st = "dlInit" /\ c.rx.k = "dlInitR")
             /\ ~(c.st = "dlWait" /\ c.rx.k = "dlSegR" /\ c.rx.t = c.toggle)
             /\ ~(c.st = "blInit" /\ c.rx.k = "blDlR")
             /\ ~(c.st \in {"blGo", "blWait"} /\ c.rx.k = "blSubR")
    <3>1. DownloadRx(c) = bad  BY <1>4, <2>5
    <3> QED  BY <1>1, <3>1
  <2> QED  BY <2>1, <2>2, <2>3, <2>4, <2>5
<1> QED  BY <1>5 DEF P

\* The section "TX data" of a download sends the data, or asks for an end with all of them.
LEMMA DownloadTxTells ==
    ASSUME NEW c, DOMAIN c = ClientFields
    PROVE  DownloadTx(c).c.buf = c.buf /\ Tells(DownloadTx(c).out, c.buf)
<1> DEFINE n == Least(SegmentSize, c.size - c.off)
           over == c.off + SegmentSize >= c.size
           seq == c.seq + 1
           x == [c EXCEPT !.off = c.off + n, !.st = "dlWait"]
           y == [c EXCEPT !.seq = seq, !.off = c.off + SegmentSize, !.pad = SegmentSize - n,
                          !.blk = IF over THEN seq ELSE c.blk, !.timer = 0,
                          !.st = IF over \/ seq >= c.blk THEN "blWait" ELSE "blGo"]
           z == [c EXCEPT !.st = "blCrcWait", !.timer = 0]
           mx == [k |-> "dlSeg", t |-> c.toggle, n |-> n, c |-> c.off + n = c.size,
                  d |-> Cut(c.buf, c.off, n)]
           my == [k |-> "blSeg", seq |-> seq, last |-> over, d |-> Cut(c.buf, c.off, n)]
           mz == [k |-> "blEnd", pad |-> c.pad, crc |-> c.buf]
<1> DEFINE P(a) == a.c.buf = c.buf /\ Tells(a.out, c.buf)
<1>1. x.buf = c.buf /\ z.buf = c.buf  BY DEF ClientFields
<1>2. y.buf = c.buf
  <2> HIDE DEF over, seq, n
  <2> QED  BY DEF ClientFields
<1>3. mx.k = "dlSeg" /\ my.k = "blSeg" /\ mz.k = "blEnd" /\ mz.crc = c.buf  OBVIOUS
<1>4. c.st = "dlReq" => DownloadTx(c) = Answer(x, <<mx>>, "busy")  BY Zenon DEF DownloadTx
<1>5. c.st = "blGo" => DownloadTx(c) = Answer(y, <<my>>, "busy")  BY Zenon DEF DownloadTx
<1>6. c.st = "blCrc" => DownloadTx(c) = Answer(z, <<mz>>, "busy")  BY Zenon DEF DownloadTx
<1>7. c.st \notin {"dlReq", "blGo", "blCrc"} => DownloadTx(c) = Answer(c, <<>>, "busy")
  BY DEF DownloadTx
<1> HIDE DEF x, y, z, mx, my, mz, n, over, seq
<1>8. /\ P(Answer(x, <<mx>>, "busy")) /\ P(Answer(y, <<my>>, "busy"))
      /\ P(Answer(z, <<mz>>, "busy")) /\ P(Answer(c, <<>>, "busy"))
  BY <1>1, <1>2, <1>3 DEF Answer, Tells
<1> HIDE DEF P
<1>9. P(DownloadTx(c))  BY <1>4, <1>5, <1>6, <1>7, <1>8
<1> QED  BY <1>9 DEF P

\* The same section of an upload sends neither of the two.
LEMMA UploadTxTells ==
    ASSUME NEW c, NEW d
    PROVE  Tells(UploadTx(c).out, d)
<1>1. ASSUME NEW a, NEW m, m.k \notin {"dlExp", "blEnd"}, a.out = <<m>>  PROVE Tells(a.out, d)
  BY <1>1 DEF Tells
<1>2. ASSUME NEW a, a.out = <<>>  PROVE Tells(a.out, d)  BY <1>2 DEF Tells
<1>3. CASE c.st = "ulReq"
  <2> DEFINE m == [k |-> "ulSeg", t |-> c.toggle]
  <2>1. UploadTx(c).out = <<m>>  BY <1>3 DEF UploadTx, Answer
  <2> QED  BY <1>1, <2>1
<1>4. CASE c.st = "buStart"
  <2>1. UploadTx(c).out = <<[k |-> "blUlStart"]>>  BY <1>4 DEF UploadTx, Answer
  <2> QED  BY <1>1, <2>1
<1>5. CASE c.st = "buAckLast"
  <2> DEFINE m == [k |-> "blAck", ack |-> c.seq, blk |-> c.blk]
  <2>1. UploadTx(c).out = <<m>>  BY <1>5 DEF UploadTx, Answer
  <2> QED  BY <1>1, <2>1
<1>6. CASE c.st = "buAck"
  <2> DEFINE left == c.dsize - c.got
             blk == IF left <= 0 THEN 0
                    ELSE Least(BlockMax, (left + SegmentSize - 1) \div SegmentSize)
             m == [k |-> "blAck", ack |-> c.seq, blk |-> blk]
  <2>1. UploadTx(c) = BlockAck(c)  BY <1>6 DEF UploadTx
  <2>2. BlockAck(c).out = <<m>>  BY DEF BlockAck, Answer
  <2>3. m.k \notin {"dlExp", "blEnd"}  OBVIOUS
  <2> HIDE DEF m
  <2> QED  BY <1>1, <2>1, <2>2, <2>3
<1>7. CASE c.st = "buEnd"
  <2>1. UploadTx(c).out = <<[k |-> "blUlEnd"]>>  BY <1>7 DEF UploadTx, Answer
  <2> QED  BY <1>1, <2>1
<1>8. CASE c.st \notin {"ulReq", "buStart", "buAckLast", "buAck", "buEnd"}
  <2>1. UploadTx(c) = Answer(c, <<>>, "busy")  BY <1>8 DEF UploadTx
  <2> QED  BY <1>2, <2>1 DEF Answer
<1> QED  BY <1>3, <1>4, <1>5, <1>6, <1>7, <1>8

\* A call of CO_SDOclientDownload keeps the data and tells no other; one of
\* CO_SDOclientUpload tells none.
LEMMA PollTells ==
    ASSUME NEW c, NEW d, NEW up \in BOOLEAN, NEW full \in BOOLEAN, NEW dt \in 0 .. 1,
           DOMAIN c = ClientFields, ~up => c.buf = d
    PROVE  LET a == ClientPoll(c, up, full, dt)
           IN  (~up /\ a.c.st # "idle" => a.c.buf = d) /\ Tells(a.out, d)
<1> DEFINE rx == IF up THEN UploadRx(c) ELSE DownloadRx(c)
           heard == [rx EXCEPT !.timer = 0, !.new = FALSE, !.rx = [k |-> "none"]]
           received == IF c.new THEN heard ELSE c
           timed == ClientTimer(received, dt)
           due == IF up THEN BlockTimer(timed) ELSE timed
           uploaded == [ClientIdle EXCEPT !.buf = Uploaded(c)]
           P(a) == (~up /\ a.c.st # "idle" => a.c.buf = d) /\ Tells(a.out, d)
<1>1. ClientPoll(c, up, full, dt) =
        IF c.new /\ c.rx.k = "abort" THEN Answer(ClientIdle, <<>>, "serverAbort")
        ELSE IF c.new /\ ~up /\ DownloadEnds(c) THEN Answer(ClientIdle, <<>>, "ok")
        ELSE IF c.new /\ up /\ UploadEnds(c) THEN Answer(uploaded, <<>>, "ok")
        ELSE IF timed.timer >= SdoTimeout THEN ClientAbort(timed, "timeout")
        ELSE IF full THEN Answer(due, <<>>, "busy")
        ELSE IF due.st = "abort" THEN ClientAbort(due, "clientAbort")
        ELSE IF up THEN UploadTx(due) ELSE DownloadTx(due)
  BY DEF ClientPoll
<1>2. ~up => DOMAIN received = ClientFields /\ received.buf = d
  <2> SUFFICES ASSUME ~up PROVE DOMAIN received = ClientFields /\ received.buf = d  OBVIOUS
  <2>1. rx = DownloadRx(c)  OBVIOUS
  <2> HIDE DEF rx
  <2>2. DOMAIN rx = ClientFields /\ rx.buf = d  BY <2>1, DownloadRxKeeps
  <2>3. DOMAIN heard = ClientFields /\ heard.buf = d  BY <2>2 DEF ClientFields
  <2> HIDE DEF heard
  <2> QED  BY <2>3
<1> HIDE DEF received
<1>3. ~up => DOMAIN timed = ClientFields /\ timed.buf = d
  BY <1>2 DEF ClientTimer, ClientFields
<1> HIDE DEF timed
<1>4. ~up => due = timed  OBVIOUS
<1> HIDE DEF due, uploaded
<1>5. P(Answer(ClientIdle, <<>>, "serverAbort")) /\ P(Answer(ClientIdle, <<>>, "ok"))
  BY DEF Answer, Tells, ClientIdle
<1>6. up => P(Answer(uploaded, <<>>, "ok"))  BY DEF Answer, Tells
<1>7. P(Answer(due, <<>>, "busy"))  BY <1>3, <1>4 DEF Answer, Tells
<1>8. P(ClientAbort(timed, "timeout")) /\ P(ClientAbort(due, "clientAbort"))
  BY DEF ClientAbort, Answer, Tells, ClientIdle
<1>9. up => P(UploadTx(due))  BY UploadTxTells
<1>10. ~up => P(DownloadTx(due))  BY <1>3, <1>4, DownloadTxTells
<1> HIDE DEF P
<1>11. P(ClientPoll(c, up, full, dt))
  BY <1>1, <1>5, <1>6, <1>7, <1>8, <1>9, <1>10
<1> QED  BY <1>11 DEF P

\* CO_SDOclient_receive does not touch the data of a download.
LEMMA ClientReceiveKeeps ==
    ASSUME NEW c, NEW m, DOMAIN c = ClientFields, c.st # "buGo"
    PROVE  ClientReceive(c, m).buf = c.buf /\ ClientReceive(c, m).st = c.st
<1> DEFINE t == [c EXCEPT !.new = TRUE, !.rx = m]
<1>1. t.buf = c.buf /\ t.st = c.st  BY DEF ClientFields
<1>2. ClientReceive(c, m) \in {c, t}  BY DEF ClientReceive
<1> HIDE DEF t
<1> QED  BY <1>1, <1>2

-----------------------------------------------------------------------------
(* The frames on their way, and the invariant. *)

\* What CO_CANsend leaves in a channel was in it or is the frame sent.
LEMMA SentAre ==
    ASSUME NEW ch, NEW out, Carries(ch), Len(ch) <= Held, out = <<>> \/ \E m : out = <<m>>
    PROVE  \A i \in 1 .. Len(Sent(ch, out)) :
              \/ \E j \in 1 .. Len(ch) : Sent(ch, out)[i] = ch[j]
              \/ out = <<Sent(ch, out)[i]>>
<1>1. CASE out = <<>>  BY <1>1 DEF Sent
<1>2. CASE out # <<>>
  <2>1. PICK m : out = <<m>>  BY <1>2
  <2>2. PICK S0 : ch \in Seq(S0)  BY DEF Carries, IsList
  <2> DEFINE S == S0 \cup {m}
  <2>3. ch \in Seq(S)  BY <2>2
  <2> HIDE DEF S
  <2>4. m \in S  BY DEF S
  <2>5. Len(ch) \in Nat  BY <2>3, LenProperties
  <2>6. CASE FullChannel(ch)
    <3> DEFINE t == [ch EXCEPT ![Len(ch)] = m]
    <3>1. Sent(ch, out) = t  BY <1>2, <2>1, <2>6 DEF Sent
    <3>2. Len(ch) \in 1 .. Len(ch)  BY <2>5, <2>6, SdoNumbers DEF FullChannel
    <3>3. t \in Seq(S) /\ Len(t) = Len(ch)
      BY <2>3, <2>4, <3>2, ExceptSeq
    <3>4. \A i \in 1 .. Len(ch) : t[i] = IF i = Len(ch) THEN m ELSE ch[i]
      BY <2>3
    <3> HIDE DEF t
    <3> QED  BY <2>1, <3>1, <3>3, <3>4
  <2>7. CASE ~FullChannel(ch)
    <3> DEFINE t == ch \o <<m>>
    <3>1. Sent(ch, out) = t  BY <1>2, <2>1, <2>7 DEF Sent
    <3>2. Len(t) = Len(ch) + 1
          /\ \A i \in 1 .. Len(t) : t[i] = IF i <= Len(ch) THEN ch[i] ELSE m
      BY <2>3, <2>4
    <3> HIDE DEF t
    <3>3. \A i \in 1 .. Len(t) : (\E j \in 1 .. Len(ch) : t[i] = ch[j]) \/ t[i] = m
      <4> SUFFICES ASSUME NEW i \in 1 .. Len(t)
                   PROVE  (\E j \in 1 .. Len(ch) : t[i] = ch[j]) \/ t[i] = m
        OBVIOUS
      <4>1. CASE i <= Len(ch)
        <5>1. i \in 1 .. Len(ch) /\ t[i] = ch[i]  BY <2>5, <3>2, <4>1
        <5> QED  BY <5>1
      <4>2. CASE ~(i <= Len(ch))  BY <3>2, <4>2
      <4> QED  BY <4>1, <4>2
    <3> QED  BY <2>1, <3>1, <3>3
  <2> QED  BY <2>6, <2>7
<1> QED  BY <1>1, <1>2

\* What is left when the first has been taken was there before.
LEMMA TakenAre ==
    ASSUME NEW ch, Carries(ch), ch # <<>>
    PROVE  /\ \E j \in 1 .. Len(ch) : Head(ch) = ch[j]
           /\ \A i \in 1 .. Len(Tail(ch)) : \E j \in 1 .. Len(ch) : Tail(ch)[i] = ch[j]
<1>1. PICK S : ch \in Seq(S)  BY DEF Carries, IsList
<1>2. Len(ch) \in Nat /\ Len(ch) >= 1 /\ Head(ch) = ch[1] /\ Len(Tail(ch)) = Len(ch) - 1
      /\ \A i \in 1 .. Len(Tail(ch)) : Tail(ch)[i] = ch[i + 1]
  BY <1>1, EmptySeq, LenProperties, HeadTailProperties
<1>3. 1 \in 1 .. Len(ch)  BY <1>2
<1>4. \A i \in 1 .. Len(Tail(ch)) : i + 1 \in 1 .. Len(ch)  BY <1>2
<1> QED  BY <1>2, <1>3, <1>4

\* A frame with all the data of a download fits in the server's buffer.
LEMMA WholeFits ==
    ASSUME NEW m, NEW n \in Nat, NEW len \in ObjectSizes, WholeFrame(m, n, len)
    PROVE  Fits(m)
<1> SUFFICES ASSUME m.k = "dlExp" PROVE IsList(m.d) /\ Len(m.d) <= SdoBufferSize
  BY DEF Fits
<1>1. PICK i \in 1 .. n : m.d = Data(i, len)  BY DEF WholeFrame, Whole
<1>2. len \in Nat /\ len <= SdoBufferSize /\ i \in Nat  BY SdoNumbers
<1> QED  BY <1>1, <1>2, DataIs

\* The data of a download are still those when another has begun.
LEMMA WholeStays ==
    ASSUME NEW n \in Nat, NEW len, NEW m, WholeFrame(m, n, len)
    PROVE  WholeFrame(m, n + 1, len)
<1>1. 1 .. n \subseteq 1 .. n + 1  OBVIOUS
<1> QED  BY <1>1 DEF WholeFrame, Whole

\* Nothing has been sent yet.
LEMMA WholeInit == SdoInit => WholeInv
<1> SUFFICES ASSUME SdoInit PROVE WholeInv  OBVIOUS
<1>1. Len(<<>>) = 0  OBVIOUS
<1>2. ~ServerIdle.new /\ ClientIdle.st = "idle"  BY DEF ServerIdle, ClientIdle
<1> QED  BY <1>1, <1>2 DEF SdoInit, WholeInv

\* A step keeps the length of the object.
LEMMA LengthStays == SdoInv /\ [SdoNext]_sdoVars => Len(object') = Len(object)
<1> SUFFICES ASSUME SdoInv, [SdoNext]_sdoVars PROVE Len(object') = Len(object)  OBVIOUS
<1>1. ASSUME NEW dt \in 0 .. 1, ServerRuns(dt)  PROVE Len(object') = Len(object)
  <2>1. FullChannel(toClient) \in BOOLEAN  BY DEF FullChannel
  <2>2. Good(ServerProcess(server, object, FullChannel(toClient), dt), object)
    BY <2>1, ProcessIs DEF SdoInv
  <2> QED  BY <1>1, <2>2 DEF ServerRuns, Good
<1>2. CASE ~\E dt \in 0 .. 1 : ServerRuns(dt)
  BY <1>2 DEF SdoNext, sdoVars, Start, ClientRuns, ClientCloses, ServerStopped, ServerHears,
              ClientHears, FrameLost
<1> QED  BY <1>1, <1>2

\* Every step keeps the invariant, and writes what it may.
LEMMA WholeStep ==
    ASSUME SdoInv, WholeInv, [SdoNext]_sdoVars
    PROVE  /\ WholeInv'
           /\ object' = object \/ server.st = "dlSeg" \/ Whole(object', session.n, Len(object))
<1> DEFINE len == Len(object)
           W(m) == WholeFrame(m, session.n, len)
           writes == object' = object \/ server.st = "dlSeg" \/ Whole(object', session.n, len)
<1>1. /\ ServerOK(server) /\ ClientOK(client, session.up) /\ session.up \in BOOLEAN
      /\ len \in ObjectSizes /\ Carries(toServer) /\ Len(toServer) <= Held
      /\ DOMAIN session = {"n", "up", "block", "ret"}
  BY DEF SdoInv
<1>2. DOMAIN client = ClientFields /\ DOMAIN server = ServerFields
  BY <1>1 DEF ServerOK, ServerShape, ClientOK, Copies, ClientShape
<1>3. /\ session.n \in Nat
      /\ client.st # "idle" /\ ~session.up => Whole(client.buf, session.n, len)
      /\ server.new => W(server.rx)
      /\ \A i \in 1 .. Len(toServer) : W(toServer[i])
  BY DEF WholeInv
<1>4. Len(object') = len  BY LengthStays
<1> DEFINE V(m) == WholeFrame(m, session'.n, len)
<1>5. ASSUME /\ session'.n \in Nat
             /\ client'.st # "idle" /\ ~session'.up => Whole(client'.buf, session'.n, len)
             /\ server'.new => V(server'.rx)
             /\ \A i \in 1 .. Len(toServer') : V(toServer'[i])
      PROVE  WholeInv'
  BY <1>4, <1>5 DEF WholeInv
<1> HIDE DEF len
<1>6. ASSUME NEW up \in BOOLEAN, NEW block \in BOOLEAN, Start(up, block)
      PROVE  WholeInv' /\ writes
  <2> DEFINE n == session.n + 1
             d == Data(n, len)
             a == IF up THEN ClientUpload(client, block) ELSE ClientDownload(client, d, block)
  <2>1. /\ client' = a.c /\ toServer' = Sent(toServer, a.out)
        /\ session' = [n |-> n, up |-> up, block |-> block, ret |-> a.ret]
        /\ UNCHANGED <<server, object, toClient, faults>>
    BY <1>6 DEF Start, len
  <2>2. n \in 1 .. n /\ n \in Nat  BY <1>3
  <2>3. Whole(d, n, len)  BY <2>2 DEF Whole
  <2>4. Tells(a.out, d) /\ (~up => a.c.buf = d)
    BY <1>2, ClientUploadTells, ClientDownloadTells
  <2>5. a.out = <<>> \/ \E m : a.out = <<m>>
    BY DEF ClientUpload, ClientDownload, Answer
  <2> HIDE DEF a, d
  <2>6. session'.n = n /\ session'.up = up  BY <2>1
  <2>7. \A m : W(m) => V(m)  BY <1>3, <2>6, WholeStays DEF n
  <2>8. \A i \in 1 .. Len(toServer') : V(toServer'[i])
    <3> SUFFICES ASSUME NEW i \in 1 .. Len(toServer') PROVE V(toServer'[i])  OBVIOUS
    <3>1. CASE \E j \in 1 .. Len(toServer) : toServer'[i] = toServer[j]
      BY <1>3, <2>7, <3>1
    <3>2. CASE a.out = <<toServer'[i]>>
      BY <2>3, <2>4, <2>6, <3>2 DEF Tells, WholeFrame
    <3>3. PICK out : out = a.out  OBVIOUS
    <3>4. out = <<>> \/ \E m : out = <<m>>  BY <2>5, <3>3
    <3>5. \A i1 \in 1 .. Len(Sent(toServer, out)) :
             \/ \E j \in 1 .. Len(toServer) : Sent(toServer, out)[i1] = toServer[j]
             \/ out = <<Sent(toServer, out)[i1]>>
      BY <1>1, <3>4, SentAre
    <3>6. toServer' = Sent(toServer, out)  BY <2>1, <3>3
    <3> QED  BY <3>1, <3>2, <3>3, <3>5, <3>6
  <2>9. server' = server /\ object' = object  BY <2>1
  <2> QED  BY <1>3, <1>5, <2>1, <2>2, <2>3, <2>4, <2>6, <2>7, <2>8, <2>9
<1>7. ASSUME NEW dt \in 0 .. 1, ClientRuns(dt)  PROVE WholeInv' /\ writes
  <2> DEFINE a == ClientPoll(client, session.up, FullChannel(toServer), dt)
             d == client.buf
  <2>1. /\ client' = a.c /\ toServer' = Sent(toServer, a.out) /\ client.st # "idle"
        /\ session' = [session EXCEPT !.ret = a.ret]
        /\ UNCHANGED <<server, object, toClient, faults>>
    BY <1>7 DEF ClientRuns
  <2>2. FullChannel(toServer) \in BOOLEAN  BY DEF FullChannel
  <2>3. Tells(a.out, d) /\ (~session.up /\ a.c.st # "idle" => a.c.buf = d)
    <3>1. PICK e : e = client.buf  OBVIOUS
    <3>2. ~session.up => client.buf = e  BY <3>1
    <3>3. \A up \in BOOLEAN, full \in BOOLEAN : (~up => client.buf = e) =>
             LET b == ClientPoll(client, up, full, dt)
             IN  (~up /\ b.c.st # "idle" => b.c.buf = e) /\ Tells(b.out, e)
      BY <1>2, PollTells
    <3> QED  BY <1>1, <2>2, <3>1, <3>2, <3>3
  <2>4. a.out = <<>> \/ \E m : a.out = <<m>>
    BY <1>1, <2>1, <2>2, PollIs DEF ClientGood
  <2>5. session.up => \A e : Tells(a.out, e)
    BY <1>1, <1>2, <2>2, PollTells
  <2> HIDE DEF a, d
  <2>6. session'.n = session.n /\ session'.up = session.up  BY <1>1, <2>1
  <2>7. \A m : a.out = <<m>> => V(m)
    <3> SUFFICES ASSUME NEW m, a.out = <<m>> PROVE V(m)  OBVIOUS
    <3>1. CASE ~session.up
      <4>1. Whole(d, session.n, len)  BY <1>3, <2>1, <3>1 DEF d
      <4> QED  BY <2>3, <2>6, <4>1 DEF Tells, WholeFrame
    <3>2. CASE session.up
      <4>1. m.k = "dlExp" => \A e : m.d = e  BY <2>5, <3>2 DEF Tells
      <4>2. m.k = "blEnd" => \A e : m.crc = e  BY <2>5, <3>2 DEF Tells
      <4>3. TRUE # FALSE  OBVIOUS
      <4>4. m.k # "dlExp" /\ m.k # "blEnd"  BY <4>1, <4>2, <4>3
      <4> QED  BY <4>4 DEF WholeFrame
    <3> QED  BY <1>1, <3>1, <3>2
  <2>8. \A i \in 1 .. Len(toServer') : V(toServer'[i])
    <3> SUFFICES ASSUME NEW i \in 1 .. Len(toServer') PROVE V(toServer'[i])  OBVIOUS
    <3>1. CASE \E j \in 1 .. Len(toServer) : toServer'[i] = toServer[j]
      BY <1>3, <2>6, <3>1
    <3>2. CASE a.out = <<toServer'[i]>>  BY <2>7, <3>2
    <3>3. PICK out : out = a.out  OBVIOUS
    <3>4. out = <<>> \/ \E m : out = <<m>>  BY <2>4, <3>3
    <3>5. \A i1 \in 1 .. Len(Sent(toServer, out)) :
             \/ \E j \in 1 .. Len(toServer) : Sent(toServer, out)[i1] = toServer[j]
             \/ out = <<Sent(toServer, out)[i1]>>
      BY <1>1, <3>4, SentAre
    <3>6. toServer' = Sent(toServer, out)  BY <2>1, <3>3
    <3> QED  BY <3>1, <3>2, <3>3, <3>5, <3>6
  <2>9. server' = server /\ object' = object  BY <2>1
  <2>10. client'.st # "idle" /\ ~session'.up => Whole(client'.buf, session'.n, len)
    BY <1>3, <2>1, <2>3, <2>6 DEF d
  <2> QED  BY <1>3, <1>5, <2>6, <2>8, <2>9, <2>10
<1>8. ASSUME NEW dt \in 0 .. 1, ServerRuns(dt)  PROVE WholeInv' /\ writes
  <2> DEFINE r == ServerProcess(server, object, FullChannel(toClient), dt)
  <2>1. server' = r.s /\ object' = r.object /\ UNCHANGED <<client, toServer, session, faults>>
    BY <1>8 DEF ServerRuns
  <2>2. FullChannel(toClient) \in BOOLEAN  BY DEF FullChannel
  <2>3. server.new => Fits(server.rx)  BY <1>1, <1>3, WholeFits
  <2>4. (r.s.new => server.new /\ r.s.rx = server.rx) /\ WritesWhole(r, server, object)
    BY <1>1, <2>2, <2>3, ProcessWrites
  <2> HIDE DEF r
  <2>5. writes  BY <1>3, <2>1, <2>4 DEF WritesWhole, WholeFrame
  <2>6. server'.new => V(server'.rx)  BY <1>3, <2>1, <2>4
  <2> HIDE DEF writes
  <2> QED  BY <1>3, <1>5, <2>1, <2>5, <2>6
<1>9. ASSUME ClientCloses  PROVE WholeInv' /\ writes
  <2>1. /\ client' = ClientIdle /\ session' = [session EXCEPT !.ret = "closed"]
        /\ UNCHANGED <<server, object, toServer, toClient>>
    BY <1>9 DEF ClientCloses
  <2>2. session'.n = session.n /\ client'.st = "idle"  BY <1>1, <2>1 DEF ClientIdle
  <2> QED  BY <1>3, <1>5, <2>1, <2>2
<1>10. ASSUME ServerStopped  PROVE WholeInv' /\ writes
  <2> DEFINE t == [server EXCEPT !.st = "idle"]
  <2>1. server' = Forget(t) /\ UNCHANGED <<client, object, toServer, toClient, session>>
    BY <1>10 DEF ServerStopped
  <2>2. DOMAIN t = ServerFields  BY <1>2
  <2> HIDE DEF t
  <2>3. ~server'.new  BY <2>1, <2>2, ForgetNew
  <2> QED  BY <1>3, <1>5, <2>1, <2>3
<1>11. ASSUME ServerHears  PROVE WholeInv' /\ writes
  <2> DEFINE m == Head(toServer)
  <2>1. /\ toServer # <<>> /\ server' = ServerReceive(server, m)
        /\ toServer' = Tail(toServer) /\ UNCHANGED <<client, object, toClient, session, faults>>
    BY <1>11 DEF ServerHears
  <2>2. W(m) /\ \A i \in 1 .. Len(toServer') : W(toServer'[i])
    BY <1>1, <1>3, <2>1, TakenAre
  <2>3. server'.new => (server.new /\ server'.rx = server.rx) \/ server'.rx = m
    BY <1>1, <2>1, ReceiveKeeps
  <2> HIDE DEF m
  <2> QED  BY <1>3, <1>5, <2>1, <2>2, <2>3
<1>12. ASSUME ClientHears  PROVE WholeInv' /\ writes
  <2>1. client' = ClientReceive(client, Head(toClient))
        /\ UNCHANGED <<server, object, toServer, session, faults>>
    BY <1>12 DEF ClientHears
  <2>2. ~session.up => client.st # "buGo"
    BY <1>1 DEF ClientOK, Copies, Writes, Uploads, BlockUploads
  <2>3. ~session.up => client'.buf = client.buf /\ client'.st = client.st
    BY <1>2, <2>1, <2>2, ClientReceiveKeeps
  <2> QED  BY <1>3, <1>5, <2>1, <2>3
<1>13. ASSUME FrameLost  PROVE WholeInv' /\ writes
  <2>1. UNCHANGED <<server, client, object, session>>  BY <1>13 DEF FrameLost
  <2>2. \A i \in 1 .. Len(toServer') : W(toServer'[i])
    <3>1. (toServer # <<>> /\ toServer' = Tail(toServer)) \/ toServer' = toServer
      BY <1>13 DEF FrameLost
    <3> QED  BY <1>1, <1>3, <3>1, TakenAre
  <2> QED  BY <1>3, <1>5, <2>1, <2>2
<1>14. ASSUME UNCHANGED sdoVars  PROVE WholeInv' /\ writes
  BY <1>3, <1>5, <1>14 DEF sdoVars
<1> HIDE DEF writes
<1>15. WholeInv' /\ writes
  BY <1>6, <1>7, <1>8, <1>9, <1>10, <1>11, <1>12, <1>13, <1>14 DEF SdoNext
<1> QED  BY <1>15 DEF writes, len

\* An expedited download and a block download write all the data of one download or
\* nothing, however many frames are lost or late and transfers given up; only segments
\* can be mixed, because nothing but a toggle bit tells them apart.
THEOREM SdoWholeWrites == SdoSpec => WholeWrites
<1>1. SdoInit => SdoInv /\ WholeInv  BY SdoInvInit, WholeInit
<1>2. SdoInv /\ WholeInv /\ [SdoNext]_sdoVars => SdoInv' /\ WholeInv'
  BY SdoInvStep, WholeStep
<1>3. SdoInv /\ WholeInv /\ [SdoNext]_sdoVars =>
        [\/ object' = object
         \/ server.st = "dlSeg"
         \/ Whole(object', session.n, Len(object))]_sdoVars
  BY WholeStep
<1> QED  BY <1>1, <1>2, <1>3, PTL DEF SdoSpec, WholeWrites
=============================================================================
