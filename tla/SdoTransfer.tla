---------------------------- MODULE SdoTransfer -----------------------------
(***************************************************************************)
(* SDO transfers between the client of one node and the server of another. *)
(* Each end owns one transmit buffer, of which the frame may be held back  *)
(* while the one before it is on its way; a frame written when the buffer  *)
(* is full replaces the one that waits.  The receive functions drop what   *)
(* comes while CANrxNew is set; a frame may also get lost, or the server's *)
(* node be stopped, as often as SdoFaults allows.  Either end calls its    *)
(* processing function at its own pace.  The bytes of the n-th download    *)
(* are 10 * n + 1, 10 * n + 2, ..., so that those of different transfers   *)
(* and places differ.                                                      *)
(***************************************************************************)
EXTENDS SdoClient

CONSTANTS ObjectSizes, \* lengths of the object
          Transfers,   \* transfers the client starts
          SdoFaults,   \* frames lost, stops of the server's node, transfers given up
          Held         \* frames of one end on their way: the last waits in its buffer

ASSUME SdoTransferAssumption ==
    /\ ObjectSizes \subseteq 1 .. Least(SdoBufferSize, ClientBuffer)
    /\ Transfers \in Nat /\ SdoFaults \in Nat /\ Held \in Nat \ {0}

VARIABLES server, client,
          object,             \* the bytes in the object dictionary
          toServer, toClient, \* frames on their way, in order
          session,            \* the last transfer: its number, kind and what the client returned
          faults,             \* number of faults so far
          clean               \* history: nothing lost, dropped, replaced or timed out

sdoVars == <<server, client, object, toServer, toClient, session, faults, clean>>

Data(n, size) == [i \in 1 .. size |-> 10 * n + i]

SdoInit ==
    /\ server = ServerIdle /\ client = ClientIdle
    /\ \E size \in ObjectSizes : object = Data(0, size)
    /\ toServer = <<>> /\ toClient = <<>>
    /\ session = [n |-> 0, up |-> FALSE, block |-> FALSE, ret |-> "none"]
    /\ faults = 0 /\ clean = TRUE

FullChannel(ch) == Len(ch) >= Held

\* CO_CANsend of at most one frame.
Sent(ch, out) ==
    IF out = <<>> THEN ch
    ELSE IF FullChannel(ch) THEN [ch EXCEPT ![Len(ch)] = out[1]] ELSE ch \o out

Replaces(ch, out) == out # <<>> /\ FullChannel(ch)

\* The client's application starts a transfer when the last has ended.
Start(up, block) ==
    /\ client.st = "idle" /\ session.n < Transfers
    /\ LET n == session.n + 1
           a == IF up THEN ClientUpload(client, block)
                ELSE ClientDownload(client, Data(n, Len(object)), block)
       IN  /\ client' = a.c
           /\ toServer' = Sent(toServer, a.out)
           /\ session' = [n |-> n, up |-> up, block |-> block, ret |-> a.ret]
           /\ clean' = (clean /\ ~Replaces(toServer, a.out))
    /\ UNCHANGED <<server, object, toClient, faults>>

\* The application polls the client.
ClientRuns(dt) ==
    /\ client.st # "idle"
    /\ LET a == ClientPoll(client, session.up, FullChannel(toServer), dt)
       IN  /\ client' = a.c
           /\ toServer' = Sent(toServer, a.out)
           /\ session' = [session EXCEPT !.ret = a.ret]
           /\ clean' = (clean /\ ~Replaces(toServer, a.out) /\ a.ret # "timeout"
                          /\ ~(client.st = "buGo" /\ client.btimer + dt >= SdoTimeout \div 2))
    /\ UNCHANGED <<server, object, toClient, faults>>

\* CO_SDOclientClose.
ClientCloses ==
    /\ client.st # "idle" /\ faults < SdoFaults
    /\ client' = ClientIdle
    /\ session' = [session EXCEPT !.ret = "closed"]
    /\ faults' = faults + 1 /\ clean' = FALSE
    /\ UNCHANGED <<server, object, toServer, toClient>>

\* main calls CO_SDO_process.
ServerRuns(dt) ==
    /\ server.st # "idle" \/ server.new
    /\ LET r == ServerProcess(server, object, FullChannel(toClient), dt)
       IN  /\ server' = r.s /\ object' = r.object
           /\ toClient' = Sent(toClient, r.out)
           /\ clean' = (clean /\ ~Replaces(toClient, r.out)
                          /\ r.s.timer < SdoTimeout)
    /\ UNCHANGED <<client, toServer, session, faults>>

\* CO_SDO_process while the node is stopped.
ServerStopped ==
    /\ server.st # "idle" \/ server.new
    /\ faults < SdoFaults
    /\ server' = Forget([server EXCEPT !.st = "idle"])
    /\ faults' = faults + 1 /\ clean' = FALSE
    /\ UNCHANGED <<client, object, toServer, toClient, session>>

ServerHears ==
    /\ toServer # <<>>
    /\ server' = ServerReceive(server, Head(toServer))
    /\ toServer' = Tail(toServer)
    /\ clean' = (clean /\ ~server.new)
    /\ UNCHANGED <<client, object, toClient, session, faults>>

ClientHears ==
    /\ toClient # <<>>
    /\ client' = ClientReceive(client, Head(toClient))
    /\ toClient' = Tail(toClient)
    /\ clean' = (clean /\ ~client.new)
    /\ UNCHANGED <<server, object, toServer, session, faults>>

\* A frame is lost on the bus or in a receive FIFO that overruns.
FrameLost ==
    /\ faults < SdoFaults
    /\ \/ toServer # <<>> /\ toServer' = Tail(toServer) /\ UNCHANGED toClient
       \/ toClient # <<>> /\ toClient' = Tail(toClient) /\ UNCHANGED toServer
    /\ faults' = faults + 1 /\ clean' = FALSE
    /\ UNCHANGED <<server, client, object, session>>

SdoNext ==
    \/ \E up, block \in BOOLEAN : Start(up, block)
    \/ \E dt \in 0 .. 1 : ClientRuns(dt) \/ ServerRuns(dt)
    \/ ClientCloses \/ ServerStopped
    \/ ServerHears \/ ClientHears \/ FrameLost

SdoSpec == SdoInit /\ [][SdoNext]_sdoVars

-----------------------------------------------------------------------------
\* Offsets, counters and timers of both ends are in the range of their buffers:
\* nothing is read or written past a buffer and no length becomes negative.
\* After sub-blocks confirmed twice the client's offset may lie behind its data,
\* but then it sends none.
SdoTypeOK ==
    /\ server.off \in 0 .. SdoBufferSize /\ server.len \in 0 .. SdoBufferSize
    /\ server.st \in {"dlSeg", "ulSeg", "ulSub"} => server.off <= server.len
    /\ server.seq \in 0 .. 127 /\ server.timer \in 0 .. SdoTimeout
    /\ DOMAIN server.buf = 1 .. SdoBufferSize
    /\ client.off \in Nat /\ client.got \in 0 .. ClientBuffer
    /\ client.st \in {"dlReq", "dlWait", "ulWait"} => client.off <= client.size
    /\ client.st = "blGo" => client.off < client.size
    /\ client.seq \in 0 .. 127 /\ client.timer \in 0 .. SdoTimeout
    /\ Len(toServer) <= Held /\ Len(toClient) <= Held
    /\ Len(object) \in ObjectSizes

\* At most one transfer came before, or nothing was ever lost, late or given up.  From
\* the third on two that were given up may have left answers: a frame tells no transfer
\* from another but by a toggle bit or a number, and those of two together can pass for
\* the answers to the third, which then says "ok" with bytes of several.
FewGivenUp == clean \/ session.n <= 2

\* When the client says that a download of several frames has ended, the server's
\* object is what was to be written, whatever was lost and sent again in between and
\* whatever one transfer before it has left on the bus.  An expedited download has no
\* such guarantee: nothing tells its answer from a late answer to the download before.
DownloadArrives ==
    session.ret = "ok" /\ ~session.up /\ Len(object) > ExpeditedMax
      => object = Data(session.n, Len(object))

\* When the client says that an upload has ended, it has all of the object.
UploadArrives ==
    session.ret = "ok" /\ session.up => client.buf = object

\* A transfer in either direction that reports success has moved all its bytes, as far as
\* the two above go.
TransferArrives == FewGivenUp => DownloadArrives /\ UploadArrives

\* d is all the data of one of the first n downloads, of len bytes.
Whole(d, n, len) == \E i \in 1 .. n : d = Data(i, len)

\* Whatever frames get lost, late or replaced and however many transfers are given up,
\* only a segmented download can write a mixture: an expedited one, of one frame, and a
\* block download, whose CRC is verified, write the data of one download or nothing.
WholeWrites ==
    [][\/ object' = object
       \/ server.st = "dlSeg"
       \/ Whole(object', session.n, Len(object))]_sdoVars

\* The object is never a part of a download or a mixture of two.
ObjectOfOneTransfer ==
    FewGivenUp => \E n \in 0 .. session.n : object = Data(n, Len(object))

\* A transfer that nothing disturbs succeeds.
CleanTransferSucceeds ==
    clean /\ client.st = "idle" => session.ret \in {"none", "ok"}
=============================================================================
