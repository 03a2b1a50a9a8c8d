--------------------------- MODULE SafetyCtrlProofs ---------------------------
(***************************************************************************)
(* Proofs about the safety controller, for any number of motors, mailboxes *)
(* and polls.  Types alone are not inductive: what an instruction writes   *)
(* depends on the context being at a step that belongs to it (CtxOK).      *)
(* The last section is about detection (DetectInv).                        *)
(***************************************************************************)
EXTENDS SafetyCtrl, CanTxOpsProofs

\* The steps of an instruction.
StepsOf(op) == CASE op = "nmt" -> {"command", "node", "send"}
                 [] op = "setup" -> {"rx", "tx"}
                 [] op \in {"write", "read"} -> {"begin", "fill", "go", "poll"}

Instruction(x) == Block(x.proc, x.b)[x.k]

\* A context that is at an instruction of a routine.
Busy(x) == /\ x.proc \in {"detect", "reset", "stop"}
           /\ x.b \in Blocks(x.proc)
           /\ x.k \in 1 .. Len(Block(x.proc, x.b))
           /\ x.step \in StepsOf(Instruction(x).op)

AtRest(x) == /\ x.proc \in {"wait", "loop", "idle"}
             /\ x.step = "none"

CtxOK == \A c \in Contexts : Busy(ctx[c]) \/ AtRest(ctx[c])

IInv == TypeOK /\ CtxOK

Instructions ==
    [op : {"nmt"}, node : 0 .. NumMotors + 1, arg : NmtCommands]
      \cup [op : {"setup"}, node : Motors, arg : {"none"}]
      \cup [op : {"write"}, node : Motors, arg : Words]
      \cup [op : {"read"}, node : Motors, arg : {"read"}]

CtxRecord == [proc : Procs, b : 0 .. NumMotors + 1, k : 1 .. 5, step : Steps]

\* Every block is one instruction on its own or a short sequence of them.
LEMMA BlockType ==
    ASSUME NEW p \in {"detect", "reset", "stop"}, NEW b \in Blocks(p)
    PROVE  /\ Len(Block(p, b)) \in 1 .. 5
           /\ \A k \in 1 .. Len(Block(p, b)) : Block(p, b)[k] \in Instructions
           /\ b \in 0 .. NumMotors + 1
<1>1. NumMotors \in Nat /\ NumMotors > 0
  BY SafetyAssumption
<1>2. ASSUME NEW m \in Motors
      PROVE  /\ Len(Stop_Motor(m)) = 3
             /\ \A k \in 1 .. 3 : Stop_Motor(m)[k] \in Instructions
  BY <1>1, SafetyAssumption DEF Stop_Motor, Instructions, Motors, Nmt, Start_SDO_Communication,
     Send_SDO, NmtCommands
<1>3. ASSUME NEW m \in Motors
      PROVE  /\ Len(init_motor(m)) = 5
             /\ \A k \in 1 .. 5 : init_motor(m)[k] \in Instructions
  <2>1. init_motor(m)[1] \in Instructions
    BY DEF init_motor, Instructions, Start_SDO_Communication
  <2>2. \A w \in Words : Send_SDO(m, w) \in Instructions
    BY DEF Instructions, Send_SDO
  <2>3. \A k \in 2 .. 5 : \E w \in Words : init_motor(m)[k] = Send_SDO(m, w)
    BY SafetyAssumption DEF init_motor
  <2>4. QED
    BY <2>1, <2>2, <2>3 DEF init_motor
<1>4. ASSUME NEW m \in Motors
      PROVE  /\ Len(DetectMotor(m)) = 2
             /\ \A k \in 1 .. 2 : DetectMotor(m)[k] \in Instructions
  BY DEF DetectMotor, Instructions, Start_SDO_Communication, ReadStatusword
<1>5. ASSUME NEW q \in NmtCommands, NEW n \in 0 .. NumMotors + 1
      PROVE  /\ Len(<<Nmt(q, n)>>) = 1
             /\ \A k \in 1 .. 1 : <<Nmt(q, n)>>[k] \in Instructions
  BY DEF Nmt, Instructions
<1>6. CASE p = "detect"
  BY <1>1, <1>4, <1>6 DEF Block, Blocks, Motors
<1>7. CASE p = "stop"
  <2>1. CASE b = 0
    BY <1>1, <1>5, <1>7, <2>1 DEF Block, NmtCommands, CanCard
  <2>2. CASE b # 0
    BY <1>1, <1>2, <1>7, <2>2 DEF Block, Blocks, Motors
  <2>3. QED
    BY <2>1, <2>2
<1>8. CASE p = "reset"
  <2>1. CASE b = 0 \/ b = NumMotors + 1
    BY <1>1, <1>5, <1>8, <2>1 DEF Block, NmtCommands, AllNodes, Motors
  <2>2. CASE b \in Motors
    BY <1>1, <1>3, <1>8, <2>2, SMTT(60) DEF Block, Motors
  <2>3. QED
    BY <1>1, <1>8, <2>1, <2>2 DEF Blocks, Motors
<1>9. QED
  BY <1>6, <1>7, <1>8

\* An instruction's first step belongs to it.
LEMMA AtType ==
    ASSUME NEW p \in {"detect", "reset", "stop"}, NEW b \in Blocks(p),
           NEW k \in 1 .. Len(Block(p, b))
    PROVE  At(p, b, k) \in CtxRecord /\ Busy(At(p, b, k))
<1>1. Block(p, b)[k] \in Instructions /\ k \in 1 .. 5 /\ b \in 0 .. NumMotors + 1
  BY BlockType
<1>2. Block(p, b)[k].op \in {"nmt", "setup", "write", "read"}
  BY <1>1 DEF Instructions
<1>3. /\ FirstStep(Block(p, b)[k].op) \in StepsOf(Block(p, b)[k].op)
      /\ FirstStep(Block(p, b)[k].op) \in Steps
  BY <1>2 DEF FirstStep, StepsOf, Steps
<1>4. QED
  BY <1>1, <1>3 DEF At, CtxRecord, Procs, Busy, Instruction

\* No block is empty.
LEMMA FirstInstr ==
    ASSUME NEW p \in {"detect", "reset", "stop"}, NEW b \in Blocks(p)
    PROVE  1 \in 1 .. Len(Block(p, b))
<1>1. Len(Block(p, b)) \in 1 .. 5
  BY BlockType
<1>2. QED
  BY <1>1

\* The first instruction of each routine.
LEMMA FirstAt ==
    /\ \A p \in {"stop", "reset"} : At(p, 0, 1) \in CtxRecord /\ Busy(At(p, 0, 1))
    /\ \A m \in Motors : At("detect", m, 1) \in CtxRecord /\ Busy(At("detect", m, 1))
<1>1. \A p \in {"stop", "reset"} : 0 \in Blocks(p)
  BY SafetyAssumption DEF Blocks
<1>2. \A m \in Motors : m \in Blocks("detect")
  BY DEF Blocks
<1>3. \A p \in {"detect", "stop", "reset"} : \A b \in Blocks(p) : 1 \in 1 .. Len(Block(p, b))
  BY FirstInstr
<1>4. \A p \in {"stop", "reset"} : At(p, 0, 1) \in CtxRecord /\ Busy(At(p, 0, 1))
  BY <1>1, <1>3, AtType
<1>5. \A m \in Motors : At("detect", m, 1) \in CtxRecord /\ Busy(At("detect", m, 1))
  BY <1>2, <1>3, AtType
<1>6. QED
  BY <1>4, <1>5

\* A context that rests is well-typed.
LEMMA RestingType ==
    ASSUME NEW p \in {"wait", "loop", "idle"}
    PROVE  Resting(p) \in CtxRecord /\ AtRest(Resting(p))
  BY SafetyAssumption DEF Resting, CtxRecord, AtRest, Procs, Steps

\* While a routine has not returned there is a next instruction.
LEMMA NextInstrType ==
    ASSUME NEW x \in CtxRecord, Busy(x), ~Returns(x)
    PROVE  NextInstr(x) \in CtxRecord /\ Busy(NextInstr(x))
<1>1. /\ x.proc \in {"detect", "reset", "stop"} /\ x.b \in Blocks(x.proc)
      /\ x.k \in 1 .. Len(Block(x.proc, x.b))
  BY DEF Busy
<1>2. Len(Block(x.proc, x.b)) \in 1 .. 5
  BY <1>1, BlockType
<1>3. CASE x.k < Len(Block(x.proc, x.b))
  <2>1. x.k + 1 \in 1 .. Len(Block(x.proc, x.b))
    BY <1>1, <1>2, <1>3
  <2>2. QED
    BY <1>1, <1>3, <2>1, AtType DEF NextInstr
<1>4. CASE ~(x.k < Len(Block(x.proc, x.b)))
  <2>1. x.k = Len(Block(x.proc, x.b))
    BY <1>1, <1>2, <1>4
  <2>2. x.b # LastBlock(x.proc)
    BY <2>1 DEF Returns
  <2>3. x.b + 1 \in Blocks(x.proc)
    <3>1. NumMotors \in Nat /\ NumMotors > 0
      BY SafetyAssumption
    <3>2. CASE x.proc = "reset"
      BY <1>1, <2>2, <3>1, <3>2 DEF Blocks, LastBlock
    <3>3. CASE x.proc # "reset"
      BY <1>1, <2>2, <3>1, <3>3 DEF Blocks, LastBlock, Motors
    <3>4. QED
      BY <3>2, <3>3
  <2>4. 1 \in 1 .. Len(Block(x.proc, x.b + 1))
    BY <1>1, <2>3, FirstInstr
  <2>5. QED
    BY <1>1, <1>4, <2>3, <2>4, AtType DEF NextInstr
<1>5. QED
  BY <1>3, <1>4

\* Moving a context on keeps the contexts in order.
LEMMA ToNextInstrType ==
    ASSUME IInv, NEW c \in Contexts, Busy(ctx[c]), ToNextInstr(c)
    PROVE  /\ ctx' \in [Contexts -> CtxRecord] /\ CtxOK'
           /\ Zustand' \in BOOLEAN
<1>1. ctx \in [Contexts -> CtxRecord] /\ Zustand \in BOOLEAN /\ CtxOK
  BY DEF IInv, TypeOK, CtxRecord
<1>2. CASE Returns(ctx[c])
  <2> DEFINE r == Resting(IF c = "main" THEN "loop" ELSE "idle")
  <2>1. r \in CtxRecord /\ AtRest(r)
    BY RestingType
  <2>2. ctx' = [ctx EXCEPT ![c] = r]
    BY <1>2 DEF ToNextInstr
  <2>3. Zustand' \in BOOLEAN
    BY <1>1, <1>2 DEF ToNextInstr
  <2> HIDE DEF r
  <2>4. QED
    BY <1>1, <2>1, <2>2, <2>3 DEF CtxOK
<1>3. CASE ~Returns(ctx[c])
  <2>1. NextInstr(ctx[c]) \in CtxRecord /\ Busy(NextInstr(ctx[c]))
    BY <1>1, <1>3, NextInstrType
  <2>2. ctx' = [ctx EXCEPT ![c] = NextInstr(ctx[c])] /\ Zustand' = Zustand
    BY <1>3 DEF ToNextInstr
  <2>3. QED
    BY <1>1, <2>1, <2>2 DEF CtxOK
<1>4. QED
  BY <1>2, <1>3

\* A step within an instruction keeps the contexts well-typed.
LEMMA ToStepType ==
    ASSUME IInv, NEW c \in Contexts, Busy(ctx[c]), NEW s \in Steps, ToStep(c, s),
           s \in StepsOf(Instruction(ctx[c]).op)
    PROVE  /\ ctx' \in [Contexts -> CtxRecord] /\ CtxOK'
           /\ Zustand' \in BOOLEAN
<1>1. ctx \in [Contexts -> CtxRecord] /\ Zustand \in BOOLEAN /\ CtxOK
  BY DEF IInv, TypeOK, CtxRecord
<1> DEFINE y == [ctx[c] EXCEPT !.step = s]
<1>2. ctx' = [ctx EXCEPT ![c] = y] /\ Zustand' = Zustand
  BY DEF ToStep
<1>3. y \in CtxRecord /\ y.proc = ctx[c].proc /\ y.b = ctx[c].b /\ y.k = ctx[c].k /\ y.step = s
  BY <1>1 DEF CtxRecord
<1>4. Busy(y)
  BY <1>3 DEF Busy, Instruction
<1> HIDE DEF y
<1>5. QED
  BY <1>1, <1>2, <1>3, <1>4 DEF CtxOK

\* A busy context's instruction, and what its step says about it.
LEMMA InstrType ==
    ASSUME IInv, NEW c \in Contexts, ctx[c].step # "none"
    PROVE  /\ Busy(ctx[c])
           /\ Instr(c) = Instruction(ctx[c])
           /\ Instr(c) \in Instructions
           /\ ctx[c].step \in StepsOf(Instr(c).op)
<1>1. Busy(ctx[c])
  BY DEF IInv, CtxOK, AtRest
<1>2. Instr(c) = Instruction(ctx[c])
  BY DEF Instr, Instruction
<1>3. Instruction(ctx[c]) \in Instructions
  BY <1>1, BlockType DEF Busy, Instruction
<1>4. QED
  BY <1>1, <1>2, <1>3 DEF Busy

\* The identifiers of the SDO client are those of the bus.
LEMMA NodeType ==
    /\ NumMotors \in Nat /\ NumMotors > 0
    /\ Nodes \cup {NoNode} = 0 .. NumMotors
    /\ Motors \subseteq Nodes
  BY SafetyAssumption DEF Motors, AllNodes

\* Each operator on the SDO client keeps its record well-typed.
LEMMA SdoOpsType ==
    ASSUME NEW s \in SdoRecord
    PROVE  /\ \A n \in Nodes : /\ SDOclient_setupRx(s, n) \in SdoRecord
                               /\ SDOclient_setupTx(s, n) \in SdoRecord
           /\ \A st \in {"download", "upload"} : SDOclientBegin(s, st) \in SdoRecord
           /\ \A w \in Requests : SDOclientFill(s, w) \in SdoRecord
           /\ SDOclientSend(s) \in SdoRecord
           /\ \A a \in Answers : SDOclient_receive(s, a) \in SdoRecord
           /\ AfterRx(s) \in SdoRecord
           /\ AfterTimer(s) \in SdoRecord
           /\ Aborted(s) \in SdoRecord
<1>1. 0 \in 0 .. SdoPolls /\ SdoPolls \in Nat
  BY SdoAssumption
<1>2. "zero" \in Requests /\ "abort" \in Requests
  BY DEF Requests
<1>3. \A n \in Nodes : /\ SDOclient_setupRx(s, n) \in SdoRecord
                       /\ SDOclient_setupTx(s, n) \in SdoRecord
  BY DEF SDOclient_setupRx, SDOclient_setupTx, SdoRecord
<1>4. \A st \in {"download", "upload"} : SDOclientBegin(s, st) \in SdoRecord
  BY <1>2 DEF SDOclientBegin, SdoRecord
<1>5. /\ \A w \in Requests : SDOclientFill(s, w) \in SdoRecord
      /\ SDOclientSend(s) \in SdoRecord
  BY <1>1 DEF SDOclientFill, SDOclientSend, SdoRecord
<1>6. \A a \in Answers : SDOclient_receive(s, a) \in SdoRecord
  BY DEF SDOclient_receive, SdoRecord
<1>7. AfterRx(s) \in SdoRecord /\ Aborted(s) \in SdoRecord
  BY <1>1, <1>2 DEF AfterRx, Aborted, SdoRecord
<1>8. AfterTimer(s) \in SdoRecord
  <2>1. s.timer \in 0 .. SdoPolls
    BY DEF SdoRecord
  <2>2. (IF s.timer < SdoPolls THEN s.timer + 1 ELSE s.timer) \in 0 .. SdoPolls
    BY <1>1, <2>1
  <2>3. QED
    BY <2>2 DEF AfterTimer, SdoRecord
<1>9. QED
  BY <1>3, <1>4, <1>5, <1>6, <1>7, <1>8

\* What the client sends is a frame.
LEMMA SdoFrameType ==
    ASSUME NEW s \in SdoRecord
    PROVE  /\ \A w \in Requests : SdoFrame(s.txid, w) \in Frames
           /\ s.out \in Requests /\ "abort" \in Requests /\ "zero" \in Requests
<1>1. s.txid \in 0 .. NumMotors /\ s.out \in Requests
  BY NodeType DEF SdoRecord
<1>2. QED
  BY <1>1 DEF SdoFrame, Frames, Requests

\* Sending and clearing keep the driver's record well-typed.
LEMMA TxOpsType ==
    ASSUME NEW t \in TxRecord(Frames)
    PROVE  /\ TxBufferClear(t, SdoBuffer) \in TxRecord(Frames)
           /\ \A b \in {NmtBuffer, SdoBuffer} : \A f \in Frames :
                 CANsend(t, b, f) \in TxRecord(Frames)
           /\ \A k \in Mailboxes : MailboxDone(t, k) \in TxRecord(Frames)
<1>1. NmtBuffer \in TxBuffers /\ SdoBuffer \in TxBuffers
  BY SdoAssumption, SafetyAssumption
<1>2. TxBufferClear(t, SdoBuffer) \in TxRecord(Frames)
  BY DEF TxBufferClear, TxRecord
<1>3. ASSUME NEW b \in {NmtBuffer, SdoBuffer}, NEW f \in Frames
      PROVE  CANsend(t, b, f) \in TxRecord(Frames)
  BY <1>1, CANsendSpec
<1>4. ASSUME NEW k \in Mailboxes PROVE MailboxDone(t, k) \in TxRecord(Frames)
  BY DEF MailboxDone, TxRecord
<1>5. QED
  BY <1>2, <1>3, <1>4

\* One poll of the SDO client.
LEMMA PollType ==
    ASSUME NEW s \in SdoRecord, NEW t \in TxRecord(Frames),
           NEW st \in {"download", "upload"}
    PROVE  /\ SDOclientPoll(s, t, st).sdo \in SdoRecord
           /\ SDOclientPoll(s, t, st).tx \in TxRecord(Frames)
<1>1. [s EXCEPT !.state = "idle", !.new = FALSE] \in SdoRecord
  BY DEF SdoRecord
<1> DEFINE u == AfterTimer(AfterRx(s))
           cleared == TxBufferClear(t, SdoBuffer)
           z == [u EXCEPT !.out = "zero"]
<1>2. u \in SdoRecord
  BY SdoOpsType
<1>3. SdoFrame(u.txid, "abort") \in Frames
  BY <1>2, SdoFrameType
<1>4. cleared \in TxRecord(Frames)
  BY TxOpsType
<1> HIDE DEF u, cleared
<1>5. z \in SdoRecord /\ Aborted(u) \in SdoRecord
  BY <1>2, SdoFrameType, SdoOpsType DEF SdoRecord
<1>6. /\ CANsend(t, SdoBuffer, SdoFrame(u.txid, "abort")) \in TxRecord(Frames)
      /\ CANsend(cleared, SdoBuffer, SdoFrame(u.txid, "abort")) \in TxRecord(Frames)
  BY <1>3, <1>4, TxOpsType
<1>7. /\ SDOclientTransmit(u, t).sdo \in {z, Aborted(u)}
      /\ SDOclientTransmit(u, t).tx \in
           {cleared, CANsend(cleared, SdoBuffer, SdoFrame(u.txid, "abort"))}
  BY DEF SDOclientTransmit, cleared
<1> HIDE DEF z
<1>8. /\ SDOclientContinue(u, t).sdo \in SdoRecord
      /\ SDOclientContinue(u, t).tx \in TxRecord(Frames)
  BY <1>2, <1>4, <1>5, <1>6, <1>7 DEF SDOclientContinue
<1>9. QED
  BY <1>1, <1>8 DEF SDOclientPoll, u

-----------------------------------------------------------------------------
(* The invariant. *)

\* What a step of the bus or of a motor does to the drive states.
LEMMA DriveAfterType ==
    ASSUME NEW d \in DriveStates, NEW w \in Words
    PROVE  DriveAfter(d, w) \in DriveStates
  BY SafetyAssumption DEF DriveAfter, DriveStates

\* Serving a request keeps the drives and the answers well-typed.
LEMMA ServeType ==
    ASSUME TypeOK, NEW m \in Motors, NEW what, Serve(m, what)
    PROVE  /\ drive' \in [Motors -> DriveStates]
           /\ reply' \in [Motors -> Answers \cup {"none"}]
<1>1. drive \in [Motors -> DriveStates] /\ reply \in [Motors -> Answers \cup {"none"}]
  BY DEF TypeOK
<1>2. "ack" \in Answers /\ "value" \in Answers /\ "abort" \in Answers
  BY DEF Answers
<1>3. what \in Words => DriveAfter(drive[m], what) \in DriveStates
  BY <1>1, DriveAfterType
<1>4. QED
  BY <1>1, <1>2, <1>3 DEF Serve

\* The first state is well-typed.
LEMMA InitIInv == Init => IInv
<1> SUFFICES ASSUME Init PROVE IInv
  OBVIOUS
<1>1. NumMotors \in Nat /\ NumMotors > 0 /\ 1 \in Motors
  BY SafetyAssumption DEF Motors
<1>2. /\ At("detect", 1, 1) \in CtxRecord /\ Busy(At("detect", 1, 1))
      /\ Resting("idle") \in CtxRecord /\ AtRest(Resting("idle"))
  BY <1>1, FirstAt, RestingType
<1>3. ctx \in [Contexts -> CtxRecord] /\ CtxOK
  BY <1>2 DEF Init, Contexts, CtxOK
<1>4. sdo \in SdoRecord
  BY SdoAssumption DEF Init, SDOclient_init, SdoRecord, Answers, Requests
<1>5. tx \in TxRecord(Frames)
  BY CanTxAssumption DEF Init, CANmodule_init, TxRecord
<1>6. nmtData \in [what : NmtCommands, node : 0 .. NumMotors + 1]
  BY <1>1 DEF Init, NmtCommands, AllNodes
<1>7. /\ nmt \in [Motors -> NmtCommands] /\ drive \in [Motors -> DriveStates]
      /\ reply \in [Motors -> Answers \cup {"none"}] /\ power \subseteq Motors
  BY DEF Init, NmtCommands, DriveStates
<1>8. QED
  BY <1>3, <1>4, <1>5, <1>6, <1>7 DEF Init, IInv, TypeOK, CtxRecord

\* A step of one context keeps the invariant.
LEMMA StepIInv ==
    ASSUME IInv, NEW c \in Contexts, Step(c)
    PROVE  IInv'
<1>1. /\ pin \in BOOLEAN /\ answered \subseteq Motors /\ sdo \in SdoRecord
      /\ nmtData \in [what : NmtCommands, node : 0 .. NumMotors + 1]
      /\ tx \in TxRecord(Frames) /\ power \subseteq Motors
      /\ nmt \in [Motors -> NmtCommands] /\ drive \in [Motors -> DriveStates]
      /\ reply \in [Motors -> Answers \cup {"none"}]
      /\ ctx \in [Contexts -> CtxRecord] /\ CtxOK /\ Zustand \in BOOLEAN
  BY DEF IInv, TypeOK, CtxRecord
<1>2. ctx[c].step # "none"
  BY DEF Step, NmtCommand, NmtNode, NmtSend, SetupRx, SetupTx, SdoBegin, SdoFill, SdoSend,
     PollDownload, Runs
<1>3. /\ Busy(ctx[c]) /\ Instr(c) = Instruction(ctx[c]) /\ Instr(c) \in Instructions
      /\ ctx[c].step \in StepsOf(Instr(c).op)
  BY <1>2, InstrType
<1>4. Instr(c).op \in {"nmt", "setup", "write", "read"}
  BY <1>3 DEF Instructions
<1>5. UNCHANGED <<pin, answered, motor>>
  BY DEF Step, NmtCommand, NmtNode, NmtSend, SetupRx, SetupTx, SdoBegin, SdoFill, SdoSend,
     PollDownload
<1>6. SUFFICES /\ ctx' \in [Contexts -> CtxRecord] /\ CtxOK' /\ Zustand' \in BOOLEAN
               /\ sdo' \in SdoRecord /\ tx' \in TxRecord(Frames)
               /\ nmtData' \in [what : NmtCommands, node : 0 .. NumMotors + 1]
  BY <1>1, <1>5 DEF IInv, TypeOK, motor, CtxRecord
<1>7. CASE NmtCommand(c)
  <2>1. Instr(c).op = "nmt" /\ Instr(c).arg \in NmtCommands
    BY <1>3, <1>4, <1>7 DEF NmtCommand, Runs, StepsOf, Instructions
  <2>2. ToStep(c, "node") /\ "node" \in StepsOf(Instruction(ctx[c]).op) /\ "node" \in Steps
    BY <1>3, <1>7, <2>1 DEF NmtCommand, StepsOf, Steps
  <2>3. QED
    BY <1>1, <1>3, <1>7, <2>1, <2>2, ToStepType DEF NmtCommand
<1>8. CASE NmtNode(c)
  <2>1. Instr(c).op = "nmt" /\ Instr(c).node \in 0 .. NumMotors + 1
    BY <1>3, <1>4, <1>8 DEF NmtNode, Runs, StepsOf, Instructions
  <2>2. ToStep(c, "send") /\ "send" \in StepsOf(Instruction(ctx[c]).op) /\ "send" \in Steps
    BY <1>3, <1>8, <2>1 DEF NmtNode, StepsOf, Steps
  <2>3. QED
    BY <1>1, <1>3, <1>8, <2>1, <2>2, ToStepType DEF NmtNode
<1>9. CASE NmtSend(c)
  <2>1. NmtFrame(nmtData.node, nmtData.what) \in Frames
    BY <1>1 DEF NmtFrame, Frames
  <2>2. CANsend(tx, NmtBuffer, NmtFrame(nmtData.node, nmtData.what)) \in TxRecord(Frames)
    BY <1>1, <2>1, TxOpsType
  <2>3. QED
    BY <1>1, <1>3, <1>9, <2>2, ToNextInstrType DEF NmtSend
<1>10. CASE SetupRx(c)
  <2>1. Instr(c).op = "setup" /\ Instr(c).node \in Nodes
    BY <1>3, <1>4, <1>10, NodeType DEF SetupRx, Runs, StepsOf, Instructions
  <2>2. sdo' \in SdoRecord
    BY <1>1, <1>10, <2>1, SdoOpsType DEF SetupRx
  <2>3. "tx" \in StepsOf(Instruction(ctx[c]).op) /\ "tx" \in Steps
    BY <1>3, <2>1 DEF StepsOf, Steps
  <2>4. ToNextInstr(c) \/ ToStep(c, "tx")
    BY <1>10 DEF SetupRx
  <2>5. QED
    BY <1>1, <1>3, <1>10, <2>2, <2>3, <2>4, ToNextInstrType, ToStepType DEF SetupRx
<1>11. CASE SetupTx(c)
  <2>1. Instr(c).op = "setup" /\ Instr(c).node \in Nodes
    BY <1>3, <1>4, <1>11, NodeType DEF SetupTx, Runs, StepsOf, Instructions
  <2>2. sdo' \in SdoRecord /\ tx' \in TxRecord(Frames)
    BY <1>1, <1>11, <2>1, SdoOpsType, TxOpsType DEF SetupTx
  <2>3. QED
    BY <1>1, <1>3, <1>11, <2>2, ToNextInstrType DEF SetupTx
<1>12. CASE SdoBegin(c)
  <2>1. Instr(c).op \in {"write", "read"}
    BY <1>3, <1>4, <1>12 DEF SdoBegin, Runs, StepsOf
  <2>2. sdo' \in SdoRecord /\ tx' \in TxRecord(Frames)
    BY <1>1, <1>12, SdoOpsType, TxOpsType DEF SdoBegin, Transfer
  <2>3. ToStep(c, "fill") /\ "fill" \in StepsOf(Instruction(ctx[c]).op) /\ "fill" \in Steps
    BY <1>3, <1>12, <2>1 DEF SdoBegin, StepsOf, Steps
  <2>4. QED
    BY <1>1, <1>3, <1>12, <2>2, <2>3, ToStepType DEF SdoBegin
<1>13. CASE SdoFill(c)
  <2>1. Instr(c).op \in {"write", "read"}
    BY <1>3, <1>4, <1>13 DEF SdoFill, Runs, StepsOf
  <2>2. Instr(c).arg \in Requests
    BY <1>3, <2>1 DEF Instructions, Requests
  <2>3. sdo' \in SdoRecord
    BY <1>1, <1>13, <2>2, SdoOpsType DEF SdoFill
  <2>4. ToStep(c, "go") /\ "go" \in StepsOf(Instruction(ctx[c]).op) /\ "go" \in Steps
    BY <1>3, <1>13, <2>1 DEF SdoFill, StepsOf, Steps
  <2>5. QED
    BY <1>1, <1>3, <1>13, <2>3, <2>4, ToStepType DEF SdoFill
<1>14. CASE SdoSend(c)
  <2>1. Instr(c).op \in {"write", "read"}
    BY <1>3, <1>4, <1>14 DEF SdoSend, Runs, StepsOf
  <2>2. SdoFrame(sdo.txid, sdo.out) \in Frames
    BY <1>1, SdoFrameType
  <2>3. sdo' \in SdoRecord /\ tx' \in TxRecord(Frames)
    BY <1>1, <1>14, <2>2, SdoOpsType, TxOpsType DEF SdoSend
  <2>4. ToStep(c, "poll") /\ "poll" \in StepsOf(Instruction(ctx[c]).op) /\ "poll" \in Steps
    BY <1>3, <1>14, <2>1 DEF SdoSend, StepsOf, Steps
  <2>5. QED
    BY <1>1, <1>3, <1>14, <2>3, <2>4, ToStepType DEF SdoSend
<1>15. CASE PollDownload(c)
  <2>1. sdo' \in SdoRecord /\ tx' \in TxRecord(Frames)
    BY <1>1, <1>15, PollType DEF PollDownload
  <2>2. ToNextInstr(c) \/ UNCHANGED <<ctx, Zustand>>
    BY <1>15 DEF PollDownload
  <2>3. UNCHANGED <<ctx, Zustand>> => CtxOK'
    BY <1>1 DEF CtxOK
  <2>4. QED
    BY <1>1, <1>3, <1>15, <2>1, <2>2, <2>3, ToNextInstrType DEF PollDownload
<1>16. QED
  BY <1>7, <1>8, <1>9, <1>10, <1>11, <1>12, <1>13, <1>14, <1>15 DEF Step

\* Replacing one context by one that is in order keeps both in order.
LEMMA MovedType ==
    ASSUME IInv, NEW c \in Contexts, NEW y \in CtxRecord, Busy(y) \/ AtRest(y),
           ctx' = [ctx EXCEPT ![c] = y]
    PROVE  ctx' \in [Contexts -> CtxRecord] /\ CtxOK'
<1>1. ctx \in [Contexts -> CtxRecord] /\ CtxOK
  BY DEF IInv, TypeOK, CtxRecord
<1>2. QED
  BY <1>1 DEF CtxOK

\* Only motorDetection reads a statusword.
LEMMA NoReadOutsideDetection ==
    ASSUME NEW p \in {"reset", "stop"}, NEW b \in Blocks(p),
           NEW k \in 1 .. Len(Block(p, b))
    PROVE  Block(p, b)[k].op # "read"
<1>1. Block(p, b) \in {Stop_Motor(b), init_motor(b), <<Nmt("stopped", CanCard)>>,
                       <<Nmt("preop", AllNodes)>>, <<Nmt("op", AllNodes)>>}
  BY DEF Block
<1>2. QED
  BY <1>1 DEF Stop_Motor, init_motor, Nmt, Start_SDO_Communication, Send_SDO

\* The steps of main and of the interrupt outside the routines.
LEMMA MainIInv ==
    ASSUME IInv, PollUpload \/ StartMotors \/ CommunicationReset \/ TIM3_IRQHandler
    PROVE  IInv'
<1>1. /\ pin \in BOOLEAN /\ answered \subseteq Motors /\ sdo \in SdoRecord
      /\ nmtData \in [what : NmtCommands, node : 0 .. NumMotors + 1]
      /\ tx \in TxRecord(Frames) /\ power \subseteq Motors
      /\ nmt \in [Motors -> NmtCommands] /\ drive \in [Motors -> DriveStates]
      /\ reply \in [Motors -> Answers \cup {"none"}]
      /\ ctx \in [Contexts -> CtxRecord] /\ CtxOK /\ Zustand \in BOOLEAN
  BY DEF IInv, TypeOK, CtxRecord
<1>2. UNCHANGED <<pin, Zustand, nmtData, motor>>
  BY DEF PollUpload, StartMotors, CommunicationReset, TIM3_IRQHandler
<1>3. "main" \in Contexts /\ "tim3" \in Contexts
  BY DEF Contexts
<1>4. SUFFICES /\ ctx' \in [Contexts -> CtxRecord] /\ CtxOK'
               /\ sdo' \in SdoRecord /\ tx' \in TxRecord(Frames)
               /\ answered' \subseteq Motors
  BY <1>1, <1>2 DEF IInv, TypeOK, motor, CtxRecord
<1>5. CASE PollUpload
  <2>1. ctx["main"].step # "none"
    BY <1>5 DEF PollUpload, Runs
  <2>2. Instr("main").op = "read" /\ Busy(ctx["main"])
    BY <1>3, <1>5, <2>1, InstrType DEF PollUpload
  <2>3. ctx["main"].b \in Motors
    <3>1. ctx["main"].proc = "detect" => ctx["main"].b \in Motors
      BY <2>2 DEF Busy, Blocks
    <3>2. ctx["main"].proc # "detect" => Instr("main").op # "read"
      BY <2>2, NoReadOutsideDetection DEF Instr, Busy
    <3>3. QED
      BY <2>2, <3>1, <3>2
  <2>4. sdo' \in SdoRecord /\ tx' \in TxRecord(Frames)
    BY <1>1, <1>5, PollType DEF PollUpload
  <2>5. answered' \subseteq Motors
    BY <1>1, <1>5, <2>3 DEF PollUpload
  <2>6. \/ ctx' = [ctx EXCEPT !["main"] = Resting("wait")]
        \/ \E m \in Motors : ctx' = [ctx EXCEPT !["main"] = At("detect", m, 1)]
    BY <1>5 DEF PollUpload
  <2>7. QED
    BY <1>3, <2>4, <2>5, <2>6, FirstAt, RestingType, MovedType
<1>6. CASE StartMotors
  BY <1>1, <1>3, <1>6, FirstAt, MovedType DEF StartMotors
<1>7. CASE CommunicationReset
  <2>1. sdo' \in SdoRecord
    BY <1>7, SdoAssumption
    DEF CommunicationReset, SDOclient_init, SdoRecord, Answers, Requests
  <2>2. tx' \in TxRecord(Frames)
    <3>1. CANmodule_init \in TxRecord(Frames)
      BY CanTxAssumption DEF CANmodule_init, TxRecord
    <3>2. tx.box \in [Mailboxes -> Frames \cup {NoFrame}]
      BY <1>1 DEF TxRecord
    <3>3. tx' = [CANmodule_init EXCEPT !.box = tx.box]
      BY <1>7 DEF CommunicationReset
    <3>4. QED
      BY <3>1, <3>2, <3>3 DEF TxRecord
  <2>3. 1 \in Motors
    BY NodeType DEF Motors
  <2>4. ctx' = [ctx EXCEPT !["main"] = At("detect", 1, 1)] /\ answered' = {}
    BY <1>7 DEF CommunicationReset
  <2>5. QED
    BY <1>3, <2>1, <2>2, <2>3, <2>4, FirstAt, MovedType
<1>8. CASE TIM3_IRQHandler
  BY <1>1, <1>3, <1>8, FirstAt, MovedType DEF TIM3_IRQHandler
<1>9. QED
  BY <1>5, <1>6, <1>7, <1>8

\* The steps of the bus, the motors and the curtain.
LEMMA WorldIInv ==
    ASSUME IInv, \/ Bus
                 \/ \E m \in Motors : PowerUp(m) \/ PowerLost(m)
                 \/ CurtainChanges
    PROVE  IInv'
<1>1. /\ pin \in BOOLEAN /\ answered \subseteq Motors /\ sdo \in SdoRecord
      /\ nmtData \in [what : NmtCommands, node : 0 .. NumMotors + 1]
      /\ tx \in TxRecord(Frames) /\ power \subseteq Motors
      /\ nmt \in [Motors -> NmtCommands] /\ drive \in [Motors -> DriveStates]
      /\ reply \in [Motors -> Answers \cup {"none"}]
      /\ ctx \in [Contexts -> CtxRecord] /\ CtxOK /\ Zustand \in BOOLEAN
  BY DEF IInv, TypeOK, CtxRecord
<1>2. UNCHANGED <<ctx, Zustand, nmtData, answered>>
  BY DEF Bus, NmtDelivered, SdoDelivered, AnswerReceived, PowerUp, PowerLost, CurtainChanges, code
<1>3. SUFFICES /\ pin' \in BOOLEAN /\ sdo' \in SdoRecord /\ tx' \in TxRecord(Frames)
               /\ power' \subseteq Motors
               /\ nmt' \in [Motors -> NmtCommands] /\ drive' \in [Motors -> DriveStates]
               /\ reply' \in [Motors -> Answers \cup {"none"}]
  BY <1>1, <1>2 DEF IInv, TypeOK, CtxOK, CtxRecord
<1>4. ASSUME NEW box \in Mailboxes, NmtDelivered(box)
      PROVE  /\ UNCHANGED <<pin, sdo, power, drive, reply>>
             /\ tx' \in TxRecord(Frames) /\ nmt' \in [Motors -> NmtCommands]
  <2>1. tx.box[box] \in Frames /\ tx.box[box].kind = "nmt"
    BY <1>1, <1>4 DEF NmtDelivered, TxRecord
  <2>2. tx.box[box].what \in NmtCommands
    BY <2>1 DEF Frames
  <2>3. tx' \in TxRecord(Frames)
    BY <1>1, <1>4, TxOpsType DEF NmtDelivered
  <2>4. nmt' \in [Motors -> NmtCommands]
    BY <1>1, <1>4, <2>2 DEF NmtDelivered
  <2>5. QED
    BY <1>4, <2>3, <2>4 DEF NmtDelivered
<1>5. ASSUME NEW box \in Mailboxes, SdoDelivered(box)
      PROVE  /\ UNCHANGED <<pin, sdo, power, nmt>>
             /\ tx' \in TxRecord(Frames) /\ drive' \in [Motors -> DriveStates]
             /\ reply' \in [Motors -> Answers \cup {"none"}]
  <2>1. tx' \in TxRecord(Frames)
    BY <1>1, <1>5, TxOpsType DEF SdoDelivered
  <2>2. \/ UNCHANGED <<drive, reply>>
        \/ \E m \in Motors : Serve(m, tx.box[box].what)
    BY <1>1, <1>5 DEF SdoDelivered
  <2>3. TypeOK
    BY DEF IInv
  <2>4. drive' \in [Motors -> DriveStates] /\ reply' \in [Motors -> Answers \cup {"none"}]
    BY <1>1, <2>2, <2>3, ServeType
  <2>5. QED
    BY <1>5, <2>1, <2>4 DEF SdoDelivered
<1>6. ASSUME NEW m \in Motors, AnswerReceived(m)
      PROVE  /\ UNCHANGED <<pin, tx, power, nmt, drive>>
             /\ sdo' \in SdoRecord /\ reply' \in [Motors -> Answers \cup {"none"}]
  <2>1. reply[m] \in Answers
    BY <1>1, <1>6 DEF AnswerReceived
  <2>2. sdo' \in SdoRecord
    BY <1>1, <1>6, <2>1, SdoOpsType DEF AnswerReceived
  <2>3. QED
    BY <1>1, <1>6, <2>2 DEF AnswerReceived
<1>7. ASSUME NEW m \in Motors, PowerUp(m) \/ PowerLost(m)
      PROVE  /\ UNCHANGED <<pin, sdo, tx>> /\ power' \subseteq Motors
             /\ nmt' \in [Motors -> NmtCommands] /\ drive' \in [Motors -> DriveStates]
             /\ reply' \in [Motors -> Answers \cup {"none"}]
  BY <1>1, <1>7 DEF PowerUp, PowerLost, code, NmtCommands, DriveStates
<1>8. ASSUME CurtainChanges
      PROVE  /\ pin' \in BOOLEAN
             /\ UNCHANGED <<sdo, tx, power, nmt, drive, reply>>
  BY <1>1, <1>8 DEF CurtainChanges, code, motor
<1>9. QED
  BY <1>1, <1>4, <1>5, <1>6, <1>7, <1>8 DEF Bus

\* No step leaves the invariant.
LEMMA NextIInv == IInv /\ [Next]_vars => IInv'
<1> SUFFICES ASSUME IInv, [Next]_vars PROVE IInv'
  OBVIOUS
<1>1. CASE \E c \in Contexts : Step(c)
  BY <1>1, StepIInv
<1>2. CASE PollUpload \/ StartMotors \/ CommunicationReset \/ TIM3_IRQHandler
  BY <1>2, MainIInv
<1>3. CASE \/ Bus
           \/ \E m \in Motors : PowerUp(m) \/ PowerLost(m)
           \/ CurtainChanges
  BY <1>3, WorldIInv
<1>4. CASE UNCHANGED vars
  BY <1>4 DEF vars, code, motor, IInv, TypeOK, CtxOK
<1>5. QED
  BY <1>1, <1>2, <1>3, <1>4 DEF Next

\* The invariant is inductive, and with it every variable keeps its type: in
\* no interleaving of main() and TIM3_IRQHandler does a half-written request
\* or NMT command leave the controller as something the code never writes.
THEOREM SafetyTypeCorrect == Spec => []TypeOK
<1>1. IInv => TypeOK
  BY DEF IInv
<1>2. QED
  BY InitIInv, NextIInv, <1>1, PTL DEF Spec

-----------------------------------------------------------------------------
(* The routines, instruction by instruction. *)

\* Where in a routine instruction i, of a block with n of them, can be.
NmtPlace(x, i, n) ==
    /\ n = x.k
    /\ \/ /\ x.proc = "stop" /\ i.arg = "stopped"
          /\ \/ x.b = 0 /\ x.k = 1 /\ i.node = NumMotors + 1
             \/ x.b \in Motors /\ x.k = 3 /\ i.node = x.b
       \/ /\ x.proc = "reset" /\ i.arg # "stopped"
          /\ x.b \in {0, NumMotors + 1} /\ x.k = 1
SetupPlace(x, i, n) == x.b \in Motors /\ i.node = x.b /\ x.k = 1 /\ n > 1
WritePlace(x, i, n) ==
    /\ x.b \in Motors /\ i.node = x.b
    /\ \/ x.proc = "stop" /\ n = 3 /\ x.k = 2 /\ i.arg = "Shutdown"
       \/ /\ x.proc = "reset" /\ n = 5
          /\ \/ x.k = 2 /\ i.arg = "DisableVoltage"
             \/ x.k = 3 /\ i.arg = "Shutdown"
             \/ x.k = 4 /\ i.arg = "SwitchOn"
             \/ x.k = 5 /\ i.arg = "EnableOperation"
ReadPlace(x, i, n) ==
    /\ x.proc = "detect" /\ x.b \in Motors /\ i.node = x.b
    /\ x.k = 2 /\ n = 2 /\ i.arg = "read"

Place(x, i, n) == /\ i.op = "nmt" => NmtPlace(x, i, n)
                  /\ i.op = "setup" => SetupPlace(x, i, n)
                  /\ i.op = "write" => WritePlace(x, i, n)
                  /\ i.op = "read" => ReadPlace(x, i, n)

\* Every instruction of the three routines is at its place.
LEMMA BlockTable ==
    ASSUME NEW x, Busy(x)
    PROVE  Place(x, Instruction(x), Len(Block(x.proc, x.b)))
<1> DEFINE i == Instruction(x)
           n == Len(Block(x.proc, x.b))
<1>1. NumMotors \in Nat /\ NumMotors > 0
  BY SafetyAssumption
<1>2. /\ x.proc \in {"detect", "reset", "stop"} /\ x.b \in Blocks(x.proc) /\ x.k \in 1 .. n
  BY DEF Busy
<1>3. ASSUME x.proc = "stop", x.b = 0
      PROVE  n = 1 /\ x.k = 1 /\ i = Nmt("stopped", CanCard)
  BY <1>2, <1>3 DEF Block, Instruction
<1>4. ASSUME x.proc = "stop", x.b # 0
      PROVE  /\ x.b \in Motors /\ n = 3
             /\ \/ x.k = 1 /\ i = Start_SDO_Communication(x.b)
                \/ x.k = 2 /\ i = Send_SDO(x.b, "Shutdown")
                \/ x.k = 3 /\ i = Nmt("stopped", x.b)
  <2>1. Block(x.proc, x.b) = Stop_Motor(x.b)
    BY <1>4 DEF Block
  <2>2. x.b \in Motors
    BY <1>1, <1>2, <1>4 DEF Blocks, Motors
  <2>3. QED
    BY <1>2, <2>1, <2>2 DEF Stop_Motor, Instruction
<1>5. ASSUME x.proc = "reset", x.b \notin Motors
      PROVE  /\ n = 1 /\ x.k = 1 /\ x.b \in {0, NumMotors + 1}
             /\ i \in {Nmt("preop", AllNodes), Nmt("op", AllNodes)}
  <2>1. x.b \in {0, NumMotors + 1}
    BY <1>1, <1>2, <1>5 DEF Blocks, Motors
  <2>2. QED
    BY <1>2, <1>5, <2>1 DEF Block, Instruction
<1>6. ASSUME x.proc = "reset", x.b \in Motors
      PROVE  /\ n = 5
             /\ \/ x.k = 1 /\ i = Start_SDO_Communication(x.b)
                \/ x.k = 2 /\ i = Send_SDO(x.b, "DisableVoltage")
                \/ x.k = 3 /\ i = Send_SDO(x.b, "Shutdown")
                \/ x.k = 4 /\ i = Send_SDO(x.b, "SwitchOn")
                \/ x.k = 5 /\ i = Send_SDO(x.b, "EnableOperation")
  <2>1. x.b # 0
    BY <1>6 DEF Motors
  <2>2. Block(x.proc, x.b) = init_motor(x.b)
    BY <1>6, <2>1 DEF Block
  <2>3. QED
    BY <1>2, <2>2 DEF init_motor, Instruction
<1>7. ASSUME x.proc = "detect"
      PROVE  /\ x.b \in Motors /\ n = 2
             /\ \/ x.k = 1 /\ i = Start_SDO_Communication(x.b)
                \/ x.k = 2 /\ i = ReadStatusword(x.b)
  BY <1>2, <1>7 DEF Block, Blocks, DetectMotor, Instruction
<1> SUFFICES Place(x, i, n)
  OBVIOUS
<1> HIDE DEF i, n
<1>8. CASE x.proc = "stop"
  <2>1. CASE x.b = 0
    <3>1. i.op = "nmt" /\ i.arg = "stopped" /\ i.node = NumMotors + 1
      BY <1>3, <1>8, <2>1 DEF Nmt, CanCard
    <3>2. QED
      BY <1>3, <1>8, <2>1, <3>1 DEF Place, NmtPlace
  <2>2. CASE x.b # 0
    BY <1>4, <1>8, <2>2 DEF Nmt, Start_SDO_Communication, Send_SDO,
       Place, NmtPlace, SetupPlace, WritePlace
  <2>3. QED
    BY <2>1, <2>2
<1>9. CASE x.proc = "reset"
  <2>1. CASE x.b \notin Motors
    BY <1>5, <1>9, <2>1 DEF Nmt, Place, NmtPlace
  <2>2. CASE x.b \in Motors
    BY <1>6, <1>9, <2>2 DEF Start_SDO_Communication, Send_SDO, Place, SetupPlace, WritePlace
  <2>3. QED
    BY <2>1, <2>2
<1>10. CASE x.proc = "detect"
  BY <1>7, <1>10 DEF Start_SDO_Communication, ReadStatusword, Place, SetupPlace, ReadPlace
<1>11. QED
  BY <1>2, <1>8, <1>9, <1>10

\* After an instruction that is not the last one of its routine the next one
\* of the block follows, or the first one of the next block.
LEMMA NextPlace ==
    ASSUME NEW x \in CtxRecord, Busy(x), ~Returns(x), NEW y, y = NextInstr(x)
    PROVE  /\ y \in CtxRecord /\ Busy(y)
           /\ y.proc = x.proc
           /\ y.step \in {"command", "rx", "begin"}
           /\ IF x.k < Len(Block(x.proc, x.b)) THEN y.b = x.b /\ y.k = x.k + 1
                                               ELSE y.b = x.b + 1 /\ y.k = 1
<1>1. y \in CtxRecord /\ Busy(y)
  BY NextInstrType
<1>2. /\ y.proc = x.proc
      /\ IF x.k < Len(Block(x.proc, x.b)) THEN y.b = x.b /\ y.k = x.k + 1
                                          ELSE y.b = x.b + 1 /\ y.k = 1
      /\ y.step = FirstStep(Instruction(y).op)
  BY DEF NextInstr, At, Instruction
<1>3. Instruction(y).op \in {"nmt", "setup", "write", "read"}
  <2>1. Instruction(y) \in Instructions
    BY <1>1, BlockType DEF Busy, Instruction
  <2>2. QED
    BY <2>1 DEF Instructions
<1>4. y.step \in {"command", "rx", "begin"}
  BY <1>2, <1>3 DEF FirstStep
<1>5. QED
  BY <1>1, <1>2, <1>4

\* A step belongs to the instruction it is a step of.
LEMMA StepPlace ==
    ASSUME NEW x \in CtxRecord, Busy(x)
    PROVE  /\ Instruction(x) \in Instructions
           /\ x.step \in {"command", "node", "send"} => Instruction(x).op = "nmt"
           /\ x.step \in {"rx", "tx"} => Instruction(x).op = "setup"
           /\ x.step \in {"begin", "fill", "go", "poll"} => Instruction(x).op \in {"write", "read"}
           /\ x.step # "none"
<1>1. Instruction(x) \in Instructions
  BY BlockType DEF Busy, Instruction
<1>2. Instruction(x).op \in {"nmt", "setup", "write", "read"}
  BY <1>1 DEF Instructions
<1>3. x.step \in StepsOf(Instruction(x).op)
  BY DEF Busy
<1>4. QED
  BY <1>1, <1>2, <1>3 DEF StepsOf

-----------------------------------------------------------------------------
(* What is sent. *)

\* The mailboxes of t with at most one more frame, f.
Loaded(t, u, f) ==
    \/ u.box = t.box
    \/ \E k \in Mailboxes : t.box[k] = NoFrame /\ u.box = [t.box EXCEPT ![k] = f]

IsWord(f) == f # NoFrame /\ f.kind = "sdo" /\ f.what \in Words
IsStop(f) == f # NoFrame /\ f.kind = "nmt" /\ f.what = "stopped"

\* Sending puts the frame into one mailbox, or into none.
LEMMA SendLoads ==
    ASSUME NEW t \in TxRecord(Frames), NEW b \in {NmtBuffer, SdoBuffer}, NEW f \in Frames
    PROVE  /\ Loaded(t, CANsend(t, b, f), f)
           /\ Loaded(t, CANsend(TxBufferClear(t, SdoBuffer), b, f), f)
           /\ TxBufferClear(t, SdoBuffer).box = t.box
<1>1. b \in TxBuffers
  BY SdoAssumption, SafetyAssumption
<1>2. Loaded(t, CANsend(t, b, f), f)
  BY <1>1, CANsendSpec DEF Loaded
<1> DEFINE u == TxBufferClear(t, SdoBuffer)
<1>3. u \in TxRecord(Frames) /\ u.box = t.box
  BY TxOpsType DEF TxBufferClear, TxRecord
<1> HIDE DEF u
<1>4. Loaded(u, CANsend(u, b, f), f)
  BY <1>1, <1>3, CANsendSpec, SMTT(60) DEF Loaded
<1>5. QED
  BY <1>2, <1>3, <1>4 DEF Loaded, u

\* What a poll leaves: the client's node, no answer, and at most an abort in a
\* mailbox.  It ends the transfer only on the answer awaited.
LEMMA PollEffect ==
    ASSUME NEW s \in SdoRecord, NEW t \in TxRecord(Frames),
           NEW st \in {"download", "upload"}
    PROVE  LET r == SDOclientPoll(s, t, st) IN
           /\ r.sdo.rx = s.rx /\ r.sdo.prev = s.prev /\ r.sdo.txid = s.txid
           /\ ~r.sdo.new /\ r.sdo.out \in {s.out, "abort", "zero"}
           /\ Loaded(t, r.tx, SdoFrame(s.txid, "abort"))
           /\ r.ret = "communicationEnd" =>
                 s.new /\ s.data = (IF st = "upload" THEN "value" ELSE "ack")
<1> DEFINE ended == [s EXCEPT !.state = "idle", !.new = FALSE]
           u == AfterTimer(AfterRx(s))
           f == SdoFrame(s.txid, "abort")
           cleared == TxBufferClear(t, SdoBuffer)
           Good(r) == /\ r.sdo.rx = s.rx /\ r.sdo.prev = s.prev /\ r.sdo.txid = s.txid
                      /\ ~r.sdo.new /\ r.sdo.out \in {s.out, "abort", "zero"}
                      /\ Loaded(t, r.tx, f)
<1>1. ended.rx = s.rx /\ ended.prev = s.prev /\ ended.txid = s.txid /\ ~ended.new
      /\ ended.out = s.out
  BY DEF SdoRecord
<1>2. u \in SdoRecord /\ u.rx = s.rx /\ u.prev = s.prev /\ u.txid = s.txid /\ ~u.new
      /\ u.out = s.out
  <2>1. AfterRx(s) \in SdoRecord
    BY SdoOpsType
  <2>2. AfterRx(s).rx = s.rx /\ AfterRx(s).prev = s.prev /\ AfterRx(s).txid = s.txid
        /\ ~AfterRx(s).new /\ AfterRx(s).out = s.out
    BY DEF AfterRx, SdoRecord
  <2>3. u \in SdoRecord
    BY <2>1, SdoOpsType
  <2>4. QED
    BY <2>1, <2>2, <2>3 DEF AfterTimer, SdoRecord
<1>3. f \in Frames
  BY SdoFrameType
<1>4. /\ Loaded(t, t, f) /\ Loaded(t, cleared, f)
      /\ Loaded(t, CANsend(t, SdoBuffer, f), f) /\ Loaded(t, CANsend(cleared, SdoBuffer, f), f)
  <2>1. cleared.box = t.box
    BY SendLoads, <1>3
  <2>2. Loaded(t, t, f) /\ Loaded(t, cleared, f)
    BY <2>1 DEF Loaded
  <2>3. QED
    BY <1>3, <2>2, SendLoads
<1> HIDE DEF u, f, cleared, ended
<1>5. Aborted(u).rx = s.rx /\ Aborted(u).prev = s.prev /\ Aborted(u).txid = s.txid /\ ~Aborted(u).new
      /\ Aborted(u).out = "abort"
  BY <1>2 DEF Aborted, SdoRecord
<1>6. SdoFrame(u.txid, "abort") = f
  BY <1>2 DEF f
<1>7. Good(SDOclientTransmit(u, t)) /\ SDOclientTransmit(u, t).ret # "communicationEnd"
  <2>1. CASE u.state = "abort"
    BY <1>4, <1>5, <1>6, <2>1 DEF SDOclientTransmit, cleared
  <2>2. CASE u.state # "abort"
    <3>1. SDOclientTransmit(u, t) =
            [sdo |-> [u EXCEPT !.out = "zero"], ret |-> "waiting", tx |-> cleared]
      BY <2>2 DEF SDOclientTransmit, cleared
    <3> DEFINE z == [u EXCEPT !.out = "zero"]
    <3>2. z.rx = s.rx /\ z.prev = s.prev /\ z.txid = s.txid /\ ~z.new /\ z.out = "zero"
      BY <1>2 DEF SdoRecord
    <3> HIDE DEF z
    <3>3. SDOclientTransmit(u, t) = [sdo |-> z, ret |-> "waiting", tx |-> cleared]
      BY <3>1 DEF z
    <3>4. QED
      BY <1>4, <3>2, <3>3
  <2>3. QED
    BY <2>1, <2>2
<1>8. Good(SDOclientContinue(u, t)) /\ SDOclientContinue(u, t).ret # "communicationEnd"
  <2>1. CASE u.timer = SdoPolls
    BY <1>4, <1>5, <1>6, <2>1 DEF SDOclientContinue
  <2>2. CASE u.timer # SdoPolls /\ SdoBuffer \in t.full
    BY <1>2, <1>4, <2>2 DEF SDOclientContinue
  <2>3. CASE u.timer # SdoPolls /\ SdoBuffer \notin t.full
    BY <1>7, <2>3 DEF SDOclientContinue
  <2>4. QED
    BY <2>1, <2>2, <2>3
<1>9. CASE s.new /\ s.data = "abort"
  <2>1. SDOclientPoll(s, t, st) = [sdo |-> ended, tx |-> t, ret |-> "serverAbort"]
    BY <1>9 DEF SDOclientPoll, ended
  <2>2. QED
    BY <1>1, <1>4, <2>1 DEF f
<1>10. CASE ~(s.new /\ s.data = "abort") /\ EndsTransfer(s, st)
  <2>1. SDOclientPoll(s, t, st) = [sdo |-> ended, tx |-> t, ret |-> "communicationEnd"]
    BY <1>10 DEF SDOclientPoll, ended
  <2>2. s.new /\ s.data = (IF st = "upload" THEN "value" ELSE "ack")
    BY <1>10 DEF EndsTransfer
  <2>3. QED
    BY <1>1, <1>4, <2>1, <2>2 DEF f
<1>11. CASE ~(s.new /\ s.data = "abort") /\ ~EndsTransfer(s, st)
  <2>1. SDOclientPoll(s, t, st) = SDOclientContinue(u, t)
    BY <1>11 DEF SDOclientPoll, u
  <2>2. QED
    BY <1>8, <2>1 DEF f
<1>12. QED
  BY <1>9, <1>10, <1>11

-----------------------------------------------------------------------------
(* Detection.  motorDetection may hear an answer that is not the one to its  *)
(* question only if the handler sets up the client in between; but then the  *)
(* handler keeps the processor until every motor has answered it, or for     *)
(* ever.                                                                     *)

Handler == ctx["tim3"]
HandlerRests == Handler.proc = "idle"

\* The motors the handler may have written controlwords to.
Written == IF HandlerRests THEN {}
           ELSE IF Handler.k > 1 THEN 1 .. Handler.b ELSE 1 .. Handler.b - 1

\* Who answers has voltage.
HeardFromPowered ==
    /\ answered \subseteq power
    /\ sdo.new => sdo.rx \in power
    /\ \A m \in Motors : reply[m] # "none" => m \in power

\* Only the handler writes controlwords, and a motor acknowledges only these.
WordsToWritten ==
    /\ \A box \in Mailboxes : IsWord(tx.box[box]) => tx.box[box].node \in Written
    /\ sdo.out \in Words => sdo.txid \in Written
    /\ \A m \in Motors : reply[m] = "ack" => m \in Written
    /\ sdo.new /\ sdo.data = "ack" => sdo.rx \in Written

\* The client as main leaves it ...
MainClient(x) ==
    /\ x.step # "tx" => sdo.rx = sdo.prev
    /\ x.step # "rx" => sdo.rx = x.b

\* ... and as the handler sets it up.  Its first setup may find the client
\* between the two halves of main's: then it listens to another motor than it
\* writes to, and waits for ever.
HandlerClient ==
    /\ Handler.b > 1 /\ Handler.k = 1 => sdo.txid = Handler.b - 1
    /\ Handler.step = "tx" => sdo.rx = Handler.b
    /\ Handler.b \in Motors /\ Handler.k > 1 =>
          /\ sdo.txid = Handler.b
          /\ sdo.rx = Handler.b \/ (Handler.b = 1 /\ Handler.k = 2)

\* The handler passes a motor only when it has answered.
MotorsPassed ==
    \A m \in Motors : m < Handler.b \/ (m = Handler.b /\ Handler.k > 2) => m \in power

Detecting ==
    /\ ctx["main"].proc = "detect"
    /\ HeardFromPowered /\ WordsToWritten /\ sdo.prev = sdo.txid
    /\ HandlerRests => MainClient(ctx["main"])
    /\ ~HandlerRests => HandlerClient /\ MotorsPassed

DetectInv ==
    /\ ctx["main"].proc \in {"detect", "wait", "reset", "loop"}
    /\ Handler.proc \in {"idle", "stop", "reset"}
    /\ ctx["main"].proc = "loop" \/ power = Motors \/ Detecting

\* At the start main is about to ask the first motor and nothing is under way.
LEMMA InitDetect == Init => DetectInv
<1> SUFFICES ASSUME Init PROVE DetectInv
  OBVIOUS
<1>1. /\ ctx["main"] = At("detect", 1, 1) /\ Handler = Resting("idle")
      /\ sdo = SDOclient_init /\ answered = {} /\ tx = CANmodule_init
      /\ \A m \in Motors : reply[m] = "none"
  BY DEF Init, Handler
<1>2. /\ ctx["main"].proc = "detect" /\ ctx["main"].step = "rx"
      /\ Handler.proc = "idle"
  BY <1>1 DEF At, Resting, Block, DetectMotor, Start_SDO_Communication, FirstStep
<1>3. /\ ~sdo.new /\ sdo.rx = NoNode /\ sdo.prev = NoNode /\ sdo.txid = NoNode /\ sdo.out = "zero"
  BY <1>1 DEF SDOclient_init
<1>4. \A box \in Mailboxes : tx.box[box] = NoFrame
  BY <1>1 DEF CANmodule_init
<1>5. "zero" \notin Words
  BY SdoAssumption
<1>6. HeardFromPowered
  BY <1>1, <1>3 DEF HeardFromPowered
<1>7. WordsToWritten
  BY <1>1, <1>3, <1>4, <1>5 DEF WordsToWritten, IsWord
<1>8. MainClient(ctx["main"])
  BY <1>2, <1>3 DEF MainClient
<1>9. QED
  BY <1>2, <1>3, <1>6, <1>7, <1>8 DEF DetectInv, Detecting, HandlerRests

\* What is under way stays in order when nothing new is heard and at most one
\* frame is sent, a controlword only to a motor the handler writes to.
LEMMA UnderwayKept ==
    ASSUME IInv, HeardFromPowered, WordsToWritten, UNCHANGED <<power, reply>>,
           answered' \subseteq power,
           sdo'.new => sdo.new /\ sdo'.rx = sdo.rx /\ sdo'.data = sdo.data,
           sdo'.out \in Words => sdo'.txid \in Written',
           Written \subseteq Written',
           NEW f, Loaded(tx, tx', f), IsWord(f) => f.node \in Written'
    PROVE  HeardFromPowered' /\ WordsToWritten'
<1>1. tx.box \in [Mailboxes -> Frames \cup {NoFrame}]
  BY DEF IInv, TypeOK, TxRecord
<1>2. HeardFromPowered'
  BY DEF HeardFromPowered
<1>3. ASSUME NEW box \in Mailboxes, IsWord(tx'.box[box]) PROVE tx'.box[box].node \in Written'
  <2>1. tx'.box[box] = tx.box[box] \/ tx'.box[box] = f
    BY <1>1 DEF Loaded
  <2>2. CASE tx'.box[box] = tx.box[box]
    BY <1>3, <2>2 DEF WordsToWritten
  <2>3. CASE tx'.box[box] = f
    BY <1>3, <2>3
  <2>4. QED
    BY <2>1, <2>2, <2>3
<1>4. \A m \in Motors : reply'[m] = "ack" => m \in Written'
  BY DEF WordsToWritten
<1>5. sdo'.new /\ sdo'.data = "ack" => sdo'.rx \in Written'
  BY DEF WordsToWritten
<1>6. QED
  BY <1>2, <1>3, <1>4, <1>5 DEF WordsToWritten, IsWord

\* The instruction the handler is at, and its place.
LEMMA HandlerAt ==
    ASSUME IInv, Handler.proc \in {"stop", "reset"}
    PROVE  /\ Handler \in CtxRecord /\ Busy(Handler) /\ "tim3" \in Contexts
           /\ Place(Handler, Instruction(Handler), Len(Block(Handler.proc, Handler.b)))
           /\ Instruction(Handler) \in Instructions
           /\ Instruction(Handler).op # "read"
           /\ Instr("tim3") = Instruction(Handler)
           /\ NumMotors \in Nat /\ NumMotors > 0 /\ Motors = 1 .. NumMotors
           /\ Handler.b \in 0 .. NumMotors + 1 /\ Handler.k \in 1 .. 5
<1>1. /\ "tim3" \in Contexts
      /\ Handler \in CtxRecord /\ (Busy(Handler) \/ AtRest(Handler))
  BY DEF IInv, TypeOK, CtxOK, CtxRecord, Contexts, Handler
<1>2. Busy(Handler)
  BY <1>1 DEF AtRest
<1>3. Instr("tim3") = Instruction(Handler)
  BY DEF Instr, Instruction, Handler
<1>4. Instruction(Handler).op # "read"
  BY <1>2, NoReadOutsideDetection DEF Busy, Instruction
<1>5. QED
  BY <1>1, <1>2, <1>3, <1>4, StepPlace, BlockTable, SafetyAssumption DEF CtxRecord, Motors

\* A step of the handler within an instruction.
LEMMA HandlerStays ==
    ASSUME IInv, Handler.proc \in {"stop", "reset"}, MotorsPassed, power' = power,
           NEW s \in Steps, ToStep("tim3", s)
    PROVE  /\ ctx'["main"] = ctx["main"]
           /\ Handler'.proc = Handler.proc /\ Handler'.b = Handler.b
           /\ Handler'.k = Handler.k /\ Handler'.step = s
           /\ Written' = Written /\ MotorsPassed'
<1>1. ctx \in [Contexts -> CtxRecord]
  BY DEF IInv, TypeOK, CtxRecord
<1>2. Handler \in CtxRecord
  BY HandlerAt
<1> DEFINE y == [Handler EXCEPT !.step = s]
<1>3. y.proc = Handler.proc /\ y.b = Handler.b /\ y.k = Handler.k /\ y.step = s
  BY <1>2 DEF CtxRecord
<1>4. ctx' = [ctx EXCEPT !["tim3"] = y]
  BY <1>1 DEF ToStep, Handler, Contexts
<1> HIDE DEF y
<1>5. ctx'["main"] = ctx["main"] /\ Handler' = y
  BY <1>1, <1>4 DEF Contexts, Handler
<1>6. QED
  BY <1>3, <1>5 DEF Written, HandlerRests, MotorsPassed

\* The handler's next instruction, or its return: then every motor has voltage.
LEMMA HandlerMoves ==
    ASSUME IInv, Handler.proc \in {"stop", "reset"}, MotorsPassed, power \subseteq Motors,
           power' = power, ToNextInstr("tim3"),
           Handler.b \in Motors /\ Handler.k = 2 => Handler.b \in power
    PROVE  \/ Handler'.proc = "idle" /\ power = Motors
           \/ /\ ctx'["main"] = ctx["main"]
              /\ Handler'.proc = Handler.proc
              /\ Handler'.step # "tx"
              /\ Written \subseteq Written' /\ MotorsPassed'
              /\ Handler'.b <= NumMotors + 1
              /\ \/ Handler'.b = Handler.b /\ Handler'.k = Handler.k + 1
                 \/ /\ Handler'.b = Handler.b + 1 /\ Handler'.k = 1
                    /\ Handler.b \in Motors => Handler.k > 1
<1>1. ctx \in [Contexts -> CtxRecord]
  BY DEF IInv, TypeOK, CtxRecord
<1> DEFINE n == Len(Block(Handler.proc, Handler.b))
           i == Instruction(Handler)
<1>2. /\ Handler \in CtxRecord /\ Busy(Handler) /\ Place(Handler, i, n)
      /\ i.op \in {"nmt", "setup", "write"} /\ n \in 1 .. 5
      /\ NumMotors \in Nat /\ NumMotors > 0 /\ Motors = 1 .. NumMotors
      /\ Handler.b \in 0 .. NumMotors + 1 /\ Handler.k \in 1 .. 5
  BY HandlerAt, BlockType DEF Busy, Instructions
<1> HIDE DEF n, i
<1>3. Handler.k = n /\ Handler.b \in Motors => Handler.k > 1
  BY <1>2 DEF Place, NmtPlace, SetupPlace, WritePlace
<1>4. \A m \in Motors : m < Handler.b \/ (m = Handler.b /\ Handler.k > 1) => m \in power
  BY <1>2 DEF MotorsPassed
<1>5. CASE Returns(Handler)
  <2>1. Handler.b = LastBlock(Handler.proc) /\ Handler.k = n
    BY <1>5 DEF Returns, n
  <2>2. \A m \in Motors : m \in power
    BY <1>2, <1>3, <1>4, <2>1 DEF LastBlock
  <2>3. ctx' = [ctx EXCEPT !["tim3"] = Resting("idle")]
    BY <1>5 DEF ToNextInstr, Handler
  <2>4. Handler'.proc = "idle"
    BY <1>1, <2>3 DEF Handler, Resting, Contexts
  <2>5. QED
    BY <2>2, <2>4
<1>6. CASE ~Returns(Handler)
  <2> DEFINE y == NextInstr(Handler)
  <2>1. /\ y.proc = Handler.proc /\ y.step \in {"command", "rx", "begin"}
        /\ y \in CtxRecord
        /\ IF Handler.k < n THEN y.b = Handler.b /\ y.k = Handler.k + 1
                            ELSE y.b = Handler.b + 1 /\ y.k = 1
    BY <1>2, <1>6, NextPlace DEF n
  <2>2. ctx' = [ctx EXCEPT !["tim3"] = y]
    BY <1>6 DEF ToNextInstr, Handler
  <2> HIDE DEF y
  <2>3. ctx'["main"] = ctx["main"] /\ Handler' = y
    BY <1>1, <2>2 DEF Contexts, Handler
  <2>4. Handler.k <= n
    BY <1>2 DEF Busy, n
  <2>5. \/ y.b = Handler.b /\ y.k = Handler.k + 1
        \/ /\ y.b = Handler.b + 1 /\ y.k = 1
           /\ Handler.b \in Motors => Handler.k > 1
    BY <1>2, <1>3, <2>1, <2>4
  <2>6. MotorsPassed'
    BY <1>2, <1>4, <2>3, <2>5 DEF MotorsPassed
  <2>7. Written \subseteq Written'
    <3>1. Handler.proc # "idle" /\ y.proc # "idle"
      BY <2>1
    <3>2. QED
      BY <1>2, <2>3, <2>5, <3>1 DEF Written, HandlerRests
  <2>8. y.b <= NumMotors + 1
    BY <1>2, <2>1 DEF CtxRecord
  <2>9. QED
    BY <2>1, <2>3, <2>5, <2>6, <2>7, <2>8
<1>7. QED
  BY <1>5, <1>6

\* What the operators on the client leave alone, and what they may send.
LEMMA ClientFields ==
    ASSUME NEW s \in SdoRecord
    PROVE  /\ \A n \in Nodes :
                LET r == SDOclient_setupRx(s, n)
                IN  /\ ~r.new /\ r.prev = s.prev /\ r.txid = s.txid /\ r.out = s.out
                    /\ r.rx = IF s.prev = n THEN s.rx ELSE n
           /\ \A n \in Nodes :
                LET r == SDOclient_setupTx(s, n)
                IN  /\ r.new = s.new /\ r.data = s.data /\ r.prev = n /\ r.txid = n
                    /\ r.out = s.out /\ r.rx = s.rx
           /\ \A st \in {"download", "upload"} :
                LET r == SDOclientBegin(s, st)
                IN  /\ r.new = s.new /\ r.data = s.data /\ r.prev = s.prev /\ r.txid = s.txid
                    /\ r.out = "zero" /\ r.rx = s.rx
           /\ \A w \in Requests :
                LET r == SDOclientFill(s, w)
                IN  /\ r.new = s.new /\ r.data = s.data /\ r.prev = s.prev /\ r.txid = s.txid
                    /\ r.out = w /\ r.rx = s.rx
           /\ LET r == SDOclientSend(s)
              IN  /\ ~r.new /\ r.prev = s.prev /\ r.txid = s.txid
                  /\ r.out = s.out /\ r.rx = s.rx
<1>1. \A n \in Nodes :
        LET r == SDOclient_setupRx(s, n)
        IN  /\ ~r.new /\ r.prev = s.prev /\ r.txid = s.txid /\ r.out = s.out
            /\ r.rx = IF s.prev = n THEN s.rx ELSE n
  BY DEF SDOclient_setupRx, SdoRecord
<1>2. \A n \in Nodes :
        LET r == SDOclient_setupTx(s, n)
        IN  /\ r.new = s.new /\ r.data = s.data /\ r.prev = n /\ r.txid = n
            /\ r.out = s.out /\ r.rx = s.rx
  BY DEF SDOclient_setupTx, SdoRecord
<1>3. \A st \in {"download", "upload"} :
        LET r == SDOclientBegin(s, st)
        IN  /\ r.new = s.new /\ r.data = s.data /\ r.prev = s.prev /\ r.txid = s.txid
            /\ r.out = "zero" /\ r.rx = s.rx
  BY DEF SDOclientBegin, SdoRecord
<1>4. \A w \in Requests :
        LET r == SDOclientFill(s, w)
        IN  /\ r.new = s.new /\ r.data = s.data /\ r.prev = s.prev /\ r.txid = s.txid
            /\ r.out = w /\ r.rx = s.rx
  BY DEF SDOclientFill, SdoRecord
<1>5. LET r == SDOclientSend(s)
      IN  /\ ~r.new /\ r.prev = s.prev /\ r.txid = s.txid
          /\ r.out = s.out /\ r.rx = s.rx
  BY DEF SDOclientSend, SdoRecord
<1>6. QED
  BY <1>1, <1>2, <1>3, <1>4, <1>5

\* A step of the handler while motorDetection waits.
LEMMA HandlerDetects ==
    ASSUME IInv, DetectInv, Detecting, Step("tim3")
    PROVE  \/ Handler'.proc = "idle" /\ power' = Motors
           \/ /\ Detecting' /\ Handler'.proc = Handler.proc
<1> DEFINE x == Handler
           i == Instruction(Handler)
           n == Len(Block(Handler.proc, Handler.b))
<1>1. x.step # "none" /\ UNCHANGED <<answered, power, reply>>
  BY DEF Step, NmtCommand, NmtNode, NmtSend, SetupRx, SetupTx, SdoBegin, SdoFill, SdoSend,
     PollDownload, Runs, motor, Handler
<1>2. x.proc \in {"stop", "reset"}
  BY <1>1, InstrType DEF DetectInv, Handler, Busy, Contexts
<1>3. /\ x \in CtxRecord /\ Busy(x) /\ Place(x, i, n) /\ i \in Instructions /\ i.op # "read"
      /\ Instr("tim3") = i
      /\ NumMotors \in Nat /\ NumMotors > 0 /\ Motors = 1 .. NumMotors
      /\ x.b \in 0 .. NumMotors + 1 /\ x.k \in 1 .. 5
  BY <1>2, HandlerAt
<1>4. /\ x.step \in {"command", "node", "send"} => i.op = "nmt"
      /\ x.step \in {"rx", "tx"} => i.op = "setup"
      /\ x.step \in {"begin", "fill", "go", "poll"} => i.op = "write"
  BY <1>3, StepPlace
<1>5. /\ sdo \in SdoRecord /\ tx \in TxRecord(Frames) /\ power \subseteq Motors
      /\ nmtData.node \in 0 .. NumMotors + 1 /\ nmtData.what \in NmtCommands
  BY DEF IInv, TypeOK
<1>6. /\ ctx["main"].proc = "detect" /\ HeardFromPowered /\ WordsToWritten
      /\ sdo.prev = sdo.txid /\ HandlerClient /\ MotorsPassed /\ ~HandlerRests
  BY <1>2 DEF Detecting, HandlerRests
<1>7. answered' \subseteq power
  BY <1>1, <1>6 DEF HeardFromPowered
<1>8. /\ i.op = "setup" => i.node = x.b /\ i.node \in Nodes /\ x.b \in Motors /\ x.k = 1 /\ n > 1
      /\ i.op = "write" => /\ i.node = x.b /\ x.b \in Motors /\ x.k > 1
                           /\ i.arg \in Words /\ i.arg \in Requests
  BY <1>3, NodeType DEF Place, SetupPlace, WritePlace, Instructions, Requests
<1>9. /\ x.b > 1 /\ x.k = 1 => sdo.txid = x.b - 1
      /\ x.step = "tx" => sdo.rx = x.b
      /\ x.b \in Motors /\ x.k > 1 =>
            sdo.txid = x.b /\ (sdo.rx = x.b \/ (x.b = 1 /\ x.k = 2))
  BY <1>6 DEF HandlerClient
<1>10. /\ x.k > 1 => Written = 1 .. x.b
       /\ ~(x.k > 1) => Written = 1 .. x.b - 1
  BY <1>6 DEF Written
<1>11. "zero" \notin Words /\ "abort" \notin Words
  BY SdoAssumption
\* What is left to show once it is known where the handler is.
<1>12. ASSUME ctx'["main"] = ctx["main"], Handler'.proc = x.proc, MotorsPassed',
              HeardFromPowered' /\ WordsToWritten', sdo'.prev = sdo'.txid, HandlerClient'
       PROVE  Detecting' /\ Handler'.proc = x.proc
  BY <1>2, <1>6, <1>12 DEF Detecting, HandlerRests
<1>13. ASSUME UNCHANGED <<sdo, tx>>, Written \subseteq Written'
       PROVE  HeardFromPowered' /\ WordsToWritten'
  <2>1. Loaded(tx, tx', NoFrame) /\ ~IsWord(NoFrame)
    BY <1>13 DEF Loaded, IsWord
  <2>2. sdo'.out \in Words => sdo'.txid \in Written'
    BY <1>6, <1>13 DEF WordsToWritten
  <2>3. QED
    BY <1>1, <1>6, <1>7, <1>13, <2>1, <2>2, UnderwayKept
<1> HIDE DEF i, n, x
<1>14. CASE NmtCommand("tim3") \/ NmtNode("tim3")
  <2>1. PICK s \in {"node", "send"} : ToStep("tim3", s)
    BY <1>14 DEF NmtCommand, NmtNode
  <2>2. s \in Steps /\ s # "tx" /\ UNCHANGED <<sdo, tx>>
    BY <1>14 DEF NmtCommand, NmtNode, Steps
  <2>3. /\ ctx'["main"] = ctx["main"]
        /\ Handler'.proc = x.proc /\ Handler'.b = x.b /\ Handler'.k = x.k /\ Handler'.step = s
        /\ Written' = Written /\ MotorsPassed'
    BY <1>1, <1>2, <1>6, <2>1, <2>2, HandlerStays DEF x
  <2>4. HandlerClient'
    BY <1>9, <2>2, <2>3 DEF HandlerClient
  <2>5. QED
    BY <1>6, <1>12, <1>13, <2>2, <2>3, <2>4 DEF x
<1>15. CASE NmtSend("tim3")
  <2>1. /\ ToNextInstr("tim3") /\ sdo' = sdo
        /\ tx' = CANsend(tx, NmtBuffer, NmtFrame(nmtData.node, nmtData.what))
        /\ i.op = "nmt"
    BY <1>4, <1>15 DEF NmtSend, Runs, Handler, x
  <2> DEFINE f == NmtFrame(nmtData.node, nmtData.what)
  <2>2. f \in Frames /\ ~IsWord(f)
    BY <1>5 DEF NmtFrame, Frames, IsWord
  <2> HIDE DEF f
  <2>3. Loaded(tx, tx', f)
    BY <1>5, <2>1, <2>2, SendLoads DEF f
  <2>4. ~(x.b \in Motors /\ x.k = 2)
    BY <1>3, <2>1 DEF Place, NmtPlace
  <2>5. CASE Handler'.proc = "idle" /\ power = Motors
    BY <1>1, <2>5
  <2>6. CASE /\ ctx'["main"] = ctx["main"] /\ Handler'.proc = x.proc /\ Handler'.step # "tx"
             /\ Written \subseteq Written' /\ MotorsPassed'
             /\ Handler'.b <= NumMotors + 1
             /\ \/ Handler'.b = x.b /\ Handler'.k = x.k + 1
                \/ /\ Handler'.b = x.b + 1 /\ Handler'.k = 1
                   /\ x.b \in Motors => x.k > 1
    <3>1. sdo'.out \in Words => sdo'.txid \in Written'
      BY <1>6, <2>1, <2>6 DEF WordsToWritten
    <3>2. HeardFromPowered' /\ WordsToWritten'
      BY <1>1, <1>6, <1>7, <2>1, <2>2, <2>3, <2>6, <3>1, UnderwayKept
    <3>3. Handler'.b = x.b /\ Handler'.k = x.k + 1 => x.b \notin Motors \/ x.k > 2
      BY <1>3, <2>1, <2>4, <2>6 DEF Place, NmtPlace, MotorsPassed
    <3>4. HandlerClient'
      BY <1>3, <1>9, <2>1, <2>6, <3>3 DEF HandlerClient
    <3>5. QED
      BY <1>6, <1>12, <2>1, <2>6, <3>2, <3>4 DEF x
  <2>7. QED
    BY <1>1, <1>2, <1>5, <1>6, <2>1, <2>4, <2>5, <2>6, HandlerMoves DEF x
<1>16. CASE SetupRx("tim3")
  <2>1. /\ sdo' = SDOclient_setupRx(sdo, x.b) /\ tx' = tx
        /\ IF sdo.prev = x.b THEN ToNextInstr("tim3") ELSE ToStep("tim3", "tx")
        /\ x.b \in Motors /\ x.b \in Nodes /\ x.k = 1 /\ n > 1
    BY <1>3, <1>4, <1>8, <1>16 DEF SetupRx, Runs, Handler, x
  <2>2. /\ ~sdo'.new /\ sdo'.prev = sdo.prev /\ sdo'.txid = sdo.txid /\ sdo'.out = sdo.out
        /\ sdo'.rx = IF sdo.prev = x.b THEN sdo.rx ELSE x.b
    BY <1>5, <2>1, ClientFields
  <2>3. Loaded(tx, tx', NoFrame) /\ ~IsWord(NoFrame)
    BY <2>1 DEF Loaded, IsWord
  <2>4. ASSUME Written \subseteq Written' PROVE HeardFromPowered' /\ WordsToWritten'
    <3>1. sdo'.out \in Words => sdo'.txid \in Written'
      BY <1>6, <2>2, <2>4 DEF WordsToWritten
    <3>2. QED
      BY <1>1, <1>6, <1>7, <2>2, <2>3, <2>4, <3>1, UnderwayKept
  <2>5. CASE sdo.prev = x.b
    <3>1. x.b = 1
      BY <1>3, <1>6, <1>9, <2>1, <2>5
    <3>2. ToNextInstr("tim3") /\ ~(x.b \in Motors /\ x.k = 2)
      BY <2>1, <2>5
    <3>3. CASE Handler'.proc = "idle" /\ power = Motors
      BY <1>1, <3>3
    <3>4. CASE /\ ctx'["main"] = ctx["main"] /\ Handler'.proc = x.proc /\ Handler'.step # "tx"
               /\ Written \subseteq Written' /\ MotorsPassed'
               /\ Handler'.b <= NumMotors + 1
               /\ \/ Handler'.b = x.b /\ Handler'.k = x.k + 1
                  \/ /\ Handler'.b = x.b + 1 /\ Handler'.k = 1
                     /\ x.b \in Motors => x.k > 1
      <4>1. Handler'.b = 1 /\ Handler'.k = 2
        BY <2>1, <3>1, <3>4
      <4>2. HandlerClient'
        BY <1>6, <2>2, <2>5, <3>1, <3>4, <4>1 DEF HandlerClient
      <4>3. QED
        BY <1>6, <1>12, <2>2, <2>4, <3>4, <4>2 DEF x
    <3>5. QED
      BY <1>1, <1>2, <1>5, <1>6, <3>2, <3>3, <3>4, HandlerMoves DEF x
  <2>6. CASE sdo.prev # x.b
    <3>1. /\ ctx'["main"] = ctx["main"]
          /\ Handler'.proc = x.proc /\ Handler'.b = x.b /\ Handler'.k = x.k
          /\ Written' = Written /\ MotorsPassed'
      <4>1. ToStep("tim3", "tx") /\ "tx" \in Steps
        BY <2>1, <2>6 DEF Steps
      <4>2. QED
        BY <1>1, <1>2, <1>6, <4>1, HandlerStays DEF x
    <3>2. HandlerClient'
      BY <1>9, <2>1, <2>2, <2>6, <3>1 DEF HandlerClient
    <3>3. QED
      BY <1>6, <1>12, <2>2, <2>4, <3>1, <3>2 DEF x
  <2>7. QED
    BY <2>5, <2>6
<1>17. CASE SetupTx("tim3")
  <2>1. /\ sdo' = SDOclient_setupTx(sdo, x.b) /\ tx' = TxBufferClear(tx, SdoBuffer)
        /\ ToNextInstr("tim3") /\ x.b \in Motors /\ x.b \in Nodes /\ x.k = 1 /\ n > 1
        /\ x.step = "tx"
    BY <1>3, <1>4, <1>8, <1>17 DEF SetupTx, Runs, Handler, x
  <2>2. /\ sdo'.new = sdo.new /\ sdo'.data = sdo.data /\ sdo'.prev = x.b /\ sdo'.txid = x.b
        /\ sdo'.out = sdo.out /\ sdo'.rx = sdo.rx /\ sdo.rx = x.b
    BY <1>5, <1>9, <2>1, ClientFields
  <2>3. Loaded(tx, tx', NoFrame) /\ ~IsWord(NoFrame)
    BY <2>1 DEF Loaded, IsWord, TxBufferClear
  <2>4. ~(x.b \in Motors /\ x.k = 2)
    BY <2>1
  <2>5. CASE Handler'.proc = "idle" /\ power = Motors
    BY <1>1, <2>5
  <2>6. CASE /\ ctx'["main"] = ctx["main"] /\ Handler'.proc = x.proc /\ Handler'.step # "tx"
             /\ Written \subseteq Written' /\ MotorsPassed'
             /\ Handler'.b <= NumMotors + 1
             /\ \/ Handler'.b = x.b /\ Handler'.k = x.k + 1
                \/ /\ Handler'.b = x.b + 1 /\ Handler'.k = 1
                   /\ x.b \in Motors => x.k > 1
    <3>1. Handler'.b = x.b /\ Handler'.k = 2
      BY <2>1, <2>6
    <3>2. Written' = 1 .. x.b
      BY <1>2, <2>6, <3>1 DEF Written, HandlerRests, x
    <3>3. sdo'.out \in Words => sdo'.txid \in Written'
      BY <1>3, <2>1, <2>2, <3>2
    <3>4. HeardFromPowered' /\ WordsToWritten'
      BY <1>1, <1>6, <1>7, <2>2, <2>3, <2>6, <3>3, UnderwayKept
    <3>5. HandlerClient'
      BY <2>2, <2>6, <3>1 DEF HandlerClient
    <3>6. QED
      BY <1>12, <2>2, <2>6, <3>4, <3>5 DEF x
  <2>7. QED
    BY <1>1, <1>2, <1>5, <1>6, <2>1, <2>4, <2>5, <2>6, HandlerMoves DEF x
<1>18. CASE SdoBegin("tim3") \/ SdoFill("tim3") \/ SdoSend("tim3")
  <2>1. PICK s \in {"fill", "go", "poll"} : ToStep("tim3", s)
    BY <1>18 DEF SdoBegin, SdoFill, SdoSend
  <2>2. s \in Steps /\ s # "tx" /\ x.b \in Motors /\ x.k > 1 /\ i.arg \in Requests
    BY <1>4, <1>8, <1>18 DEF SdoBegin, SdoFill, SdoSend, Runs, Handler, x, Steps
  <2>3. /\ ctx'["main"] = ctx["main"]
        /\ Handler'.proc = x.proc /\ Handler'.b = x.b /\ Handler'.k = x.k /\ Handler'.step = s
        /\ Written' = Written /\ MotorsPassed'
    BY <1>1, <1>2, <1>6, <2>1, <2>2, HandlerStays DEF x
  <2>4. sdo.txid = x.b /\ x.b \in Written'
    BY <1>3, <1>9, <1>10, <2>2, <2>3
  <2>5. /\ sdo'.prev = sdo.prev /\ sdo'.txid = sdo.txid /\ sdo'.rx = sdo.rx
        /\ sdo'.new => sdo.new /\ sdo'.data = sdo.data
    <3>1. CASE SdoBegin("tim3")
      BY <1>5, <3>1, ClientFields DEF SdoBegin, Transfer
    <3>2. CASE SdoFill("tim3")
      BY <1>3, <1>5, <2>2, <3>2, ClientFields DEF SdoFill
    <3>3. CASE SdoSend("tim3")
      BY <1>5, <3>3, ClientFields DEF SdoSend
    <3>4. QED
      BY <1>18, <3>1, <3>2, <3>3
  <2> DEFINE f == SdoFrame(sdo.txid, sdo.out)
  <2>6. f \in Frames /\ f.node = sdo.txid
    BY <1>5, SdoFrameType DEF SdoFrame
  <2>7. Loaded(tx, tx', f)
    <3>1. CASE SdoSend("tim3")
      BY <1>5, <2>6, <3>1, SendLoads DEF SdoSend
    <3>2. CASE SdoBegin("tim3") \/ SdoFill("tim3")
      <4>1. tx'.box = tx.box
        BY <1>5, <2>6, <3>2, SendLoads DEF SdoBegin, SdoFill
      <4>2. QED
        BY <4>1 DEF Loaded
    <3>3. QED
      BY <1>18, <3>1, <3>2
  <2> HIDE DEF f
  <2>8. HeardFromPowered' /\ WordsToWritten'
    <3>1. sdo'.out \in Words => sdo'.txid \in Written'
      BY <2>4, <2>5
    <3>2. IsWord(f) => f.node \in Written'
      BY <2>4, <2>6
    <3>3. QED
      BY <1>1, <1>6, <1>7, <2>3, <2>5, <2>7, <3>1, <3>2, UnderwayKept
  <2>9. HandlerClient'
    BY <1>9, <2>2, <2>3, <2>5 DEF HandlerClient
  <2>10. QED
    BY <1>6, <1>12, <2>3, <2>5, <2>8, <2>9 DEF x
<1>19. CASE PollDownload("tim3")
  <2> DEFINE r == SDOclientPoll(sdo, tx, "download")
             f == SdoFrame(sdo.txid, "abort")
  <2>1. /\ sdo' = r.sdo /\ tx' = r.tx
        /\ IF r.ret = "communicationEnd" THEN ToNextInstr("tim3")
                                         ELSE UNCHANGED <<ctx, Zustand>>
        /\ x.b \in Motors /\ x.k > 1 /\ x.step = "poll"
    BY <1>4, <1>8, <1>19 DEF PollDownload, Runs, Handler, x
  <2>2. /\ r.sdo.rx = sdo.rx /\ r.sdo.prev = sdo.prev /\ r.sdo.txid = sdo.txid
        /\ ~r.sdo.new /\ r.sdo.out \in {sdo.out, "abort", "zero"}
        /\ Loaded(tx, r.tx, f)
        /\ r.ret = "communicationEnd" => sdo.new /\ sdo.data = "ack"
    BY <1>5, PollEffect
  <2>3. ~IsWord(f)
    BY <1>11 DEF IsWord, SdoFrame
  <2> HIDE DEF r, f
  <2>4. ASSUME Written \subseteq Written' PROVE HeardFromPowered' /\ WordsToWritten'
    <3>1. sdo'.out \in Words => sdo'.txid \in Written'
      BY <1>6, <1>11, <2>1, <2>2, <2>4 DEF WordsToWritten
    <3>2. Loaded(tx, tx', f) /\ ~sdo'.new
      BY <2>1, <2>2
    <3>3. QED
      BY <1>1, <1>6, <1>7, <2>3, <2>4, <3>1, <3>2, UnderwayKept
  <2>5. CASE r.ret = "communicationEnd"
    \* The answer is the addressed motor's own.
    <3>1. sdo.rx = x.b
      <4>1. sdo.rx \in 1 .. x.b
        BY <1>6, <1>10, <2>1, <2>2, <2>5 DEF WordsToWritten
      <4>2. QED
        BY <1>3, <1>9, <2>1, <4>1
    <3>2. x.b \in power
      BY <1>6, <2>2, <2>5, <3>1 DEF HeardFromPowered
    <3>3. CASE Handler'.proc = "idle" /\ power = Motors
      BY <1>1, <3>3
    <3>4. CASE /\ ctx'["main"] = ctx["main"] /\ Handler'.proc = x.proc /\ Handler'.step # "tx"
               /\ Written \subseteq Written' /\ MotorsPassed'
               /\ Handler'.b <= NumMotors + 1
               /\ \/ Handler'.b = x.b /\ Handler'.k = x.k + 1
                  \/ /\ Handler'.b = x.b + 1 /\ Handler'.k = 1
                     /\ x.b \in Motors => x.k > 1
      <4>1. HandlerClient'
        BY <1>3, <1>9, <2>1, <2>2, <3>1, <3>4 DEF HandlerClient
      <4>2. QED
        BY <1>6, <1>12, <2>1, <2>2, <2>4, <3>4, <4>1 DEF x
    <3>5. QED
      BY <1>1, <1>2, <1>5, <1>6, <2>1, <2>5, <3>2, <3>3, <3>4, HandlerMoves DEF x
  <2>6. CASE r.ret # "communicationEnd"
    <3>1. ctx' = ctx /\ Handler' = x
      BY <2>1, <2>6 DEF Handler, x
    <3>2. Written' = Written /\ MotorsPassed'
      BY <1>1, <1>6, <3>1 DEF Written, HandlerRests, MotorsPassed, x
    <3>3. HandlerClient'
      BY <1>9, <2>1, <2>2, <3>1 DEF HandlerClient
    <3>4. QED
      BY <1>6, <1>12, <2>1, <2>2, <2>4, <3>1, <3>2, <3>3 DEF x
  <2>7. QED
    BY <2>5, <2>6
<1>20. QED
  BY <1>14, <1>15, <1>16, <1>17, <1>18, <1>19 DEF Step, x

\* A step of main while motorDetection asks the motors.
LEMMA MainDetects ==
    ASSUME IInv, DetectInv, Detecting, HandlerRests, Step("main") \/ PollUpload
    PROVE  \/ ctx'["main"].proc = "wait" /\ power' = Motors
           \/ Detecting'
<1> DEFINE x == ctx["main"]
           i == Instruction(ctx["main"])
           n == Len(Block(ctx["main"].proc, ctx["main"].b))
<1>1. x.step # "none" /\ UNCHANGED <<power, reply>>
  BY DEF Step, NmtCommand, NmtNode, NmtSend, SetupRx, SetupTx, SdoBegin, SdoFill, SdoSend,
     PollDownload, PollUpload, Runs, motor
<1>2. /\ x.proc = "detect" /\ HeardFromPowered /\ WordsToWritten
      /\ sdo.prev = sdo.txid /\ MainClient(x)
  BY DEF Detecting
<1>3. /\ x \in CtxRecord /\ Busy(x) /\ Place(x, i, n) /\ i \in Instructions /\ Instr("main") = i
      /\ NumMotors \in Nat /\ NumMotors > 0 /\ Motors = 1 .. NumMotors
  BY <1>1, InstrType, BlockTable, SafetyAssumption
  DEF IInv, TypeOK, CtxRecord, Contexts, Motors
<1>4. /\ ctx \in [Contexts -> CtxRecord] /\ "main" \in Contexts /\ "tim3" \in Contexts
      /\ sdo \in SdoRecord /\ tx \in TxRecord(Frames) /\ power \subseteq Motors
  BY DEF IInv, TypeOK, CtxRecord, Contexts
<1>5. n = 2
  BY <1>2 DEF Block, DetectMotor
<1>6. /\ x.step \in {"command", "node", "send"} => i.op = "nmt"
      /\ x.step \in {"rx", "tx"} => i.op = "setup"
      /\ x.step \in {"begin", "fill", "go", "poll"} => i.op = "read"
  <2>1. i.op # "write"
    BY <1>2, <1>3, <1>5 DEF Place, WritePlace
  <2>2. QED
    BY <1>3, <2>1, StepPlace
<1>7. /\ i.op # "nmt"
      /\ i.op = "setup" => i.node = x.b /\ i.node \in Nodes /\ x.b \in Motors /\ x.k = 1
      /\ i.op = "read" => i.node = x.b /\ x.b \in Motors /\ i.arg = "read"
  BY <1>2, <1>3, NodeType DEF Place, NmtPlace, SetupPlace, ReadPlace
<1>8. "zero" \notin Words /\ "abort" \notin Words /\ "read" \notin Words /\ "read" \in Requests
  BY SdoAssumption DEF Requests
<1>9. /\ sdo.out \notin Words /\ Written = {}
  BY <1>2 DEF WordsToWritten, Written
<1>10. ASSUME NEW y, ctx' = [ctx EXCEPT !["main"] = y], y.proc = "detect", MainClient(y)',
              answered' \subseteq power, sdo'.prev = sdo'.txid, sdo'.out \notin Words,
              sdo'.new => sdo.new /\ sdo'.rx = sdo.rx /\ sdo'.data = sdo.data,
              NEW f, Loaded(tx, tx', f), ~IsWord(f)
       PROVE  Detecting'
  <2>1. Handler' = Handler /\ ctx'["main"] = y
    BY <1>4, <1>10 DEF Handler
  <2>2. HandlerRests' /\ Written' = {}
    BY <1>9, <2>1 DEF HandlerRests, Written
  <2>3. HeardFromPowered' /\ WordsToWritten'
    BY <1>1, <1>2, <1>9, <1>10, <2>2, UnderwayKept
  <2>4. QED
    BY <1>10, <2>1, <2>2, <2>3 DEF Detecting, MainClient
<1>11. answered \subseteq power
  BY <1>2 DEF HeardFromPowered
<1>12. x.step # "rx" => sdo.rx = x.b
  BY <1>2 DEF MainClient
<1> HIDE DEF x, i, n
\* A step within an instruction, and the first step of the question.
<1>13. ASSUME NEW s \in Steps, ToStep("main", s)
       PROVE  \E y : /\ ctx' = [ctx EXCEPT !["main"] = y] /\ y.proc = "detect"
                     /\ y.b = x.b /\ y.step = s
  <2> DEFINE y == [x EXCEPT !.step = s]
  <2>1. y.proc = "detect" /\ y.b = x.b /\ y.step = s
    BY <1>2, <1>3 DEF CtxRecord
  <2>2. ctx' = [ctx EXCEPT !["main"] = y]
    BY <1>4, <1>13 DEF ToStep, x
  <2> HIDE DEF y
  <2>3. QED
    BY <2>1, <2>2
<1>14. ASSUME ToNextInstr("main"), x.k = 1
       PROVE  \E y : /\ ctx' = [ctx EXCEPT !["main"] = y] /\ y.proc = "detect"
                     /\ y.b = x.b /\ y.step = "begin"
  <2>1. x.k < Len(Block(x.proc, x.b)) /\ ~Returns(x)
    BY <1>5, <1>14 DEF Returns, n, x
  <2>2. ctx' = [ctx EXCEPT !["main"] = At("detect", x.b, 2)]
    BY <1>2, <1>14, <2>1 DEF ToNextInstr, NextInstr, x
  <2>3. Block("detect", x.b)[2] = ReadStatusword(x.b)
    BY DEF Block, DetectMotor
  <2>4. At("detect", x.b, 2) = [proc |-> "detect", b |-> x.b, k |-> 2, step |-> "begin"]
    BY <2>3 DEF At, FirstStep, ReadStatusword
  <2> DEFINE y == At("detect", x.b, 2)
  <2>5. y.proc = "detect" /\ y.b = x.b /\ y.step = "begin"
    BY <2>4
  <2>6. ctx' = [ctx EXCEPT !["main"] = y]
    BY <2>2
  <2> HIDE DEF y
  <2>7. QED
    BY <2>5, <2>6
<1>15. CASE SetupRx("main")
  <2>1. /\ sdo' = SDOclient_setupRx(sdo, x.b) /\ tx' = tx /\ answered' = answered
        /\ IF sdo.prev = x.b THEN ToNextInstr("main") ELSE ToStep("main", "tx")
        /\ x.b \in Nodes /\ x.k = 1 /\ x.step = "rx"
    BY <1>3, <1>6, <1>7, <1>15 DEF SetupRx, Runs, x
  <2>2. /\ ~sdo'.new /\ sdo'.prev = sdo.prev /\ sdo'.txid = sdo.txid /\ sdo'.out = sdo.out
        /\ sdo'.rx = IF sdo.prev = x.b THEN sdo.rx ELSE x.b
    BY <1>4, <2>1, ClientFields
  <2>3. sdo'.rx = x.b
    BY <1>2, <2>1, <2>2 DEF MainClient
  <2>4. Loaded(tx, tx', NoFrame) /\ ~IsWord(NoFrame)
    BY <2>1 DEF Loaded, IsWord
  <2>5. "tx" \in Steps
    BY DEF Steps
  <2>6. PICK y : /\ ctx' = [ctx EXCEPT !["main"] = y] /\ y.proc = "detect" /\ y.b = x.b
                 /\ y.step = IF sdo.prev = x.b THEN "begin" ELSE "tx"
    BY <1>13, <1>14, <2>1, <2>5
  <2>7. MainClient(y)'
    BY <2>2, <2>3, <2>6 DEF MainClient
  <2>8. QED
    BY <1>2, <1>9, <1>10, <1>11, <2>1, <2>2, <2>4, <2>6, <2>7
<1>16. CASE SetupTx("main")
  <2>1. /\ sdo' = SDOclient_setupTx(sdo, x.b) /\ tx' = TxBufferClear(tx, SdoBuffer)
        /\ answered' = answered /\ ToNextInstr("main")
        /\ x.b \in Nodes /\ x.k = 1 /\ x.step = "tx"
    BY <1>3, <1>6, <1>7, <1>16 DEF SetupTx, Runs, x
  <2>2. /\ sdo'.new = sdo.new /\ sdo'.data = sdo.data /\ sdo'.prev = x.b /\ sdo'.txid = x.b
        /\ sdo'.out = sdo.out /\ sdo'.rx = sdo.rx /\ sdo.rx = x.b
    BY <1>4, <1>12, <2>1, ClientFields
  <2>3. Loaded(tx, tx', NoFrame) /\ ~IsWord(NoFrame)
    BY <2>1 DEF Loaded, IsWord, TxBufferClear
  <2>4. PICK y : /\ ctx' = [ctx EXCEPT !["main"] = y] /\ y.proc = "detect" /\ y.b = x.b
                 /\ y.step = "begin"
    BY <1>14, <2>1
  <2>5. MainClient(y)'
    BY <2>2, <2>4 DEF MainClient
  <2>6. QED
    BY <1>9, <1>10, <1>11, <2>1, <2>2, <2>3, <2>4, <2>5
<1>17. CASE SdoBegin("main") \/ SdoFill("main") \/ SdoSend("main")
  <2>1. PICK s \in {"fill", "go", "poll"} : ToStep("main", s)
    BY <1>17 DEF SdoBegin, SdoFill, SdoSend
  <2>2. s \in Steps /\ x.b \in Motors /\ i.arg = "read" /\ answered' = answered /\ sdo.rx = x.b
    BY <1>6, <1>7, <1>12, <1>17 DEF SdoBegin, SdoFill, SdoSend, Runs, x, Steps
  <2>3. PICK y : /\ ctx' = [ctx EXCEPT !["main"] = y] /\ y.proc = "detect" /\ y.b = x.b
                 /\ y.step = s
    BY <1>13, <2>1, <2>2
  <2>4. /\ sdo'.prev = sdo.prev /\ sdo'.txid = sdo.txid /\ sdo'.rx = sdo.rx
        /\ sdo'.new => sdo.new /\ sdo'.data = sdo.data
        /\ sdo'.out \in {"zero", "read", sdo.out}
    <3>1. CASE SdoBegin("main")
      BY <1>4, <3>1, ClientFields DEF SdoBegin, Transfer
    <3>2. CASE SdoFill("main")
      BY <1>3, <1>4, <1>8, <2>2, <3>2, ClientFields DEF SdoFill
    <3>3. CASE SdoSend("main")
      BY <1>4, <3>3, ClientFields DEF SdoSend
    <3>4. QED
      BY <1>17, <3>1, <3>2, <3>3
  <2> DEFINE f == SdoFrame(sdo.txid, sdo.out)
  <2>5. f \in Frames /\ ~IsWord(f)
    BY <1>4, <1>9, SdoFrameType DEF SdoFrame, IsWord
  <2>6. Loaded(tx, tx', f)
    <3>1. CASE SdoSend("main")
      BY <1>4, <2>5, <3>1, SendLoads DEF SdoSend
    <3>2. CASE SdoBegin("main") \/ SdoFill("main")
      <4>1. tx'.box = tx.box
        BY <1>4, <2>5, <3>2, SendLoads DEF SdoBegin, SdoFill
      <4>2. QED
        BY <4>1 DEF Loaded
    <3>3. QED
      BY <1>17, <3>1, <3>2
  <2> HIDE DEF f
  <2>7. sdo.rx = sdo.prev
    BY <1>2, <1>17 DEF MainClient, SdoBegin, SdoFill, SdoSend, Runs, x
  <2>8. MainClient(y)'
    BY <1>2, <2>1, <2>2, <2>3, <2>4, <2>7 DEF MainClient
  <2>9. sdo'.out \notin Words
    BY <1>8, <1>9, <2>4
  <2>10. QED
    BY <1>2, <1>10, <1>11, <2>2, <2>3, <2>4, <2>5, <2>6, <2>8, <2>9
<1>18. CASE PollUpload
  <2> DEFINE r == SDOclientPoll(sdo, tx, "upload")
             f == SdoFrame(sdo.txid, "abort")
             heard == IF r.ret = "communicationEnd" THEN answered \cup {x.b} ELSE answered
  <2>1. /\ sdo' = r.sdo /\ tx' = r.tx /\ answered' = heard /\ sdo.rx = x.b
        /\ \/ heard = Motors /\ ctx' = [ctx EXCEPT !["main"] = Resting("wait")]
           \/ \E m \in Motors : ctx' = [ctx EXCEPT !["main"] = At("detect", m, 1)]
    BY <1>12, <1>18 DEF PollUpload, Runs, x
  <2>2. /\ r.sdo.rx = sdo.rx /\ r.sdo.prev = sdo.prev /\ r.sdo.txid = sdo.txid
        /\ ~r.sdo.new /\ r.sdo.out \in {sdo.out, "abort", "zero"}
        /\ Loaded(tx, r.tx, f)
        /\ r.ret = "communicationEnd" => sdo.new
    BY <1>4, PollEffect
  <2>3. ~IsWord(f)
    BY <1>8 DEF IsWord, SdoFrame
  <2> HIDE DEF r, f
  \* Who is heard is the motor asked, and has voltage.
  <2>4. heard \subseteq power
    BY <1>2, <1>11, <2>1, <2>2 DEF HeardFromPowered
  <2> HIDE DEF heard
  <2>5. CASE heard = Motors /\ ctx' = [ctx EXCEPT !["main"] = Resting("wait")]
    <3>1. ctx'["main"].proc = "wait"
      BY <1>4, <2>5 DEF Resting
    <3>2. QED
      BY <1>1, <1>4, <2>4, <2>5, <3>1
  <2>6. ASSUME NEW m \in Motors, ctx' = [ctx EXCEPT !["main"] = At("detect", m, 1)]
        PROVE  Detecting'
    <3>1. Block("detect", m)[1] = Start_SDO_Communication(m)
      BY DEF Block, DetectMotor
    <3> DEFINE y == At("detect", m, 1)
    <3>2. y.proc = "detect" /\ y.step = "rx"
      BY <3>1 DEF At, FirstStep, Start_SDO_Communication
    <3> HIDE DEF y
    <3>3. sdo'.rx = sdo'.prev
      <4>1. sdo.rx = sdo.prev
        BY <1>2, <1>18 DEF MainClient, PollUpload, Runs, x
      <4>2. QED
        BY <2>1, <2>2, <4>1
    <3>4. MainClient(y)'
      BY <3>2, <3>3 DEF MainClient
    <3>5. sdo'.out \notin Words
      BY <1>8, <1>9, <2>1, <2>2
    <3>6. ctx' = [ctx EXCEPT !["main"] = y]
      BY <2>6 DEF y
    <3>7. QED
      BY <1>2, <1>10, <2>1, <2>2, <2>3, <2>4, <3>2, <3>4, <3>5, <3>6
  <2>7. QED
    BY <2>1, <2>5, <2>6
<1>19. QED
  <2>1. ~NmtCommand("main") /\ ~NmtNode("main") /\ ~NmtSend("main")
    BY <1>6, <1>7 DEF NmtCommand, NmtNode, NmtSend, Runs, x
  <2>2. ~PollDownload("main")
    BY <1>3, <1>6 DEF PollDownload, Runs, x
  <2>3. QED
    BY <1>15, <1>16, <1>17, <1>18, <2>1, <2>2 DEF Step

\* A step of a context moves no other one, and leaves it in its routine or at
\* the end of it.
LEMMA StepProc ==
    ASSUME IInv, NEW c \in Contexts, Step(c)
    PROVE  /\ \A d \in Contexts : d # c => ctx'[d] = ctx[d]
           /\ ctx'[c].proc \in {ctx[c].proc, IF c = "main" THEN "loop" ELSE "idle"}
           /\ ctx[c].proc # "loop" /\ (c = "main" => HandlerRests)
           /\ power' = power
<1>1. ctx \in [Contexts -> CtxRecord]
  BY DEF IInv, TypeOK, CtxRecord
<1>2. /\ ctx[c].step # "none" /\ (c = "main" => HandlerRests) /\ power' = power
      /\ \/ \E s \in Steps : ToStep(c, s)
         \/ ToNextInstr(c)
         \/ ctx' = ctx
  BY DEF Step, NmtCommand, NmtNode, NmtSend, SetupRx, SetupTx, SdoBegin, SdoFill, SdoSend,
     PollDownload, Runs, HandlerRests, Handler, motor, Steps
<1>3. Busy(ctx[c])
  BY <1>2, InstrType
<1>4. CASE \E s \in Steps : ToStep(c, s)
  <2>1. PICK s \in Steps : ctx' = [ctx EXCEPT ![c].step = s]
    BY <1>4 DEF ToStep
  <2>2. ctx'[c].proc = ctx[c].proc
    BY <1>1, <2>1 DEF CtxRecord
  <2>3. \A d \in Contexts : d # c => ctx'[d] = ctx[d]
    BY <1>1, <2>1
  <2>4. QED
    BY <1>2, <1>3, <2>2, <2>3 DEF Busy
<1>5. CASE ToNextInstr(c)
  <2>1. CASE Returns(ctx[c])
    <3>1. ctx' = [ctx EXCEPT ![c] = Resting(IF c = "main" THEN "loop" ELSE "idle")]
      BY <1>5, <2>1 DEF ToNextInstr
    <3>2. QED
      BY <1>1, <1>2, <1>3, <3>1 DEF Resting, Busy
  <2>2. CASE ~Returns(ctx[c])
    <3> DEFINE y == NextInstr(ctx[c])
    <3>1. ctx' = [ctx EXCEPT ![c] = y]
      BY <1>5, <2>2 DEF ToNextInstr
    <3>2. y.proc = ctx[c].proc
      BY <1>1, <1>3, <2>2, NextPlace
    <3> HIDE DEF y
    <3>3. QED
      BY <1>1, <1>2, <1>3, <3>1, <3>2 DEF Busy
  <2>3. QED
    BY <2>1, <2>2
<1>6. CASE ctx' = ctx
  BY <1>2, <1>3, <1>6 DEF Busy
<1>7. QED
  BY <1>2, <1>4, <1>5, <1>6

\* The routines that each context runs; main never returns from its loop, and
\* no motor loses its voltage before main has entered it.
LEMMA ProcsKept ==
    ASSUME IInv, DetectInv, ~Resets, [Next]_vars
    PROVE  /\ ctx'["main"].proc \in {"detect", "wait", "reset", "loop"}
           /\ Handler'.proc \in {"idle", "stop", "reset"}
           /\ ctx["main"].proc = "loop" => ctx'["main"].proc = "loop"
           /\ ctx["main"].proc # "loop" /\ power = Motors => power' = Motors
<1>1. /\ ctx \in [Contexts -> CtxRecord] /\ "main" \in Contexts /\ "tim3" \in Contexts
      /\ power \subseteq Motors
  BY DEF IInv, TypeOK, CtxRecord, Contexts
<1>2. /\ ctx["main"].proc \in {"detect", "wait", "reset", "loop"}
      /\ Handler.proc \in {"idle", "stop", "reset"}
  BY DEF DetectInv
<1>3. CASE Step("main")
  BY <1>1, <1>2, <1>3, StepProc DEF Handler
<1>4. CASE Step("tim3")
  BY <1>1, <1>2, <1>4, StepProc DEF Handler
<1>5. CASE PollUpload
  <2>1. ctx["main"].proc # "loop"
    <3>1. ctx["main"].step # "none"
      BY <1>5 DEF PollUpload, Runs
    <3>2. QED
      BY <1>1, <3>1, InstrType DEF Busy
  <2>2. \/ ctx' = [ctx EXCEPT !["main"] = Resting("wait")]
        \/ \E m \in Motors : ctx' = [ctx EXCEPT !["main"] = At("detect", m, 1)]
    BY <1>5 DEF PollUpload
  <2>3. ctx'["main"].proc \in {"wait", "detect"} /\ Handler' = Handler
    BY <1>1, <2>2 DEF Resting, At, Handler
  <2>4. power' = power
    BY <1>5 DEF PollUpload, motor
  <2>5. QED
    BY <1>2, <2>1, <2>3, <2>4
<1>6. CASE StartMotors
  <2>1. /\ ctx["main"].proc = "wait" /\ ctx' = [ctx EXCEPT !["main"] = At("reset", 0, 1)]
        /\ power' = power
    BY <1>6 DEF StartMotors, motor
  <2>2. ctx'["main"].proc = "reset" /\ Handler' = Handler
    BY <1>1, <2>1 DEF At, Handler
  <2>3. QED
    BY <1>2, <2>1, <2>2
<1>7. CASE TIM3_IRQHandler
  <2>1. PICK p \in {"stop", "reset"} : ctx' = [ctx EXCEPT !["tim3"] = At(p, 0, 1)]
    BY <1>7 DEF TIM3_IRQHandler
  <2>2. ctx'["main"] = ctx["main"] /\ Handler'.proc = p
    BY <1>1, <2>1 DEF At, Handler
  <2>3. power' = power
    BY <1>7 DEF TIM3_IRQHandler, motor
  <2>4. QED
    BY <1>2, <2>2, <2>3
<1>8. CASE Bus \/ CurtainChanges \/ UNCHANGED vars
  <2>1. ctx' = ctx /\ power' = power
    BY <1>8 DEF Bus, NmtDelivered, SdoDelivered, AnswerReceived, CurtainChanges, vars, code, motor
  <2>2. QED
    BY <1>2, <2>1 DEF Handler
<1>9. CASE \E m \in Motors : PowerUp(m) \/ PowerLost(m)
  <2>1. PICK m \in Motors : PowerUp(m) \/ PowerLost(m)
    BY <1>9
  <2>2. ctx' = ctx
    BY <2>1 DEF PowerUp, PowerLost, code
  <2>3. ctx["main"].proc # "loop" => power' = power \cup {m}
    BY <2>1 DEF PowerUp, PowerLost
  <2>4. QED
    BY <1>2, <2>2, <2>3 DEF Handler
<1>10. QED
  BY <1>3, <1>4, <1>5, <1>6, <1>7, <1>8, <1>9 DEF Next, CommunicationReset, Contexts

\* The light curtain's interrupt while motorDetection waits: nothing has been
\* written to any motor yet.
LEMMA EntryDetects ==
    ASSUME IInv, DetectInv, Detecting, TIM3_IRQHandler
    PROVE  Detecting'
<1>1. /\ ctx \in [Contexts -> CtxRecord] /\ "main" \in Contexts /\ "tim3" \in Contexts
  BY DEF IInv, TypeOK, CtxRecord, Contexts
<1>2. PICK p \in {"stop", "reset"} : ctx' = [ctx EXCEPT !["tim3"] = At(p, 0, 1)]
  BY DEF TIM3_IRQHandler
<1>3. HandlerRests /\ UNCHANGED <<answered, sdo, tx, power, reply>>
  BY DEF TIM3_IRQHandler, HandlerRests, Handler, motor
<1>4. /\ Block(p, 0)[1].op = "nmt"
  BY SafetyAssumption DEF Block, Nmt
<1> DEFINE y == At(p, 0, 1)
<1>5. y.proc = p /\ y.b = 0 /\ y.k = 1 /\ y.step = "command"
  BY <1>4 DEF At, FirstStep
<1>6. ctx'["main"] = ctx["main"] /\ Handler' = y
  BY <1>1, <1>2 DEF Handler
<1> HIDE DEF y
<1>7. Written = {} /\ Written' = 1 .. y.b - 1
  BY <1>3, <1>5, <1>6 DEF Written, HandlerRests
<1>8. HeardFromPowered' /\ WordsToWritten'
  <2>1. Loaded(tx, tx', NoFrame) /\ ~IsWord(NoFrame)
    BY <1>3 DEF Loaded, IsWord
  <2>2. sdo'.out \notin Words
    BY <1>3, <1>7 DEF Detecting, WordsToWritten
  <2>3. HeardFromPowered /\ WordsToWritten /\ answered' \subseteq power
    BY <1>3 DEF Detecting, HeardFromPowered
  <2>4. QED
    BY <1>3, <1>7, <2>1, <2>2, <2>3, UnderwayKept
<1>9. HandlerClient' /\ MotorsPassed'
  <2>1. \A m \in Motors : ~(m < 0) /\ m # 0
    BY SafetyAssumption DEF Motors
  <2>2. QED
    BY <1>5, <1>6, <2>1 DEF HandlerClient, MotorsPassed
<1>10. QED
  BY <1>3, <1>5, <1>6, <1>8, <1>9 DEF Detecting, HandlerRests

\* The bus and the motors while motorDetection waits: only a motor with voltage
\* answers, and it acknowledges only what was written to it.
LEMMA BusDetects ==
    ASSUME IInv, DetectInv, Detecting,
           Bus \/ CurtainChanges \/ UNCHANGED vars \/ \E m \in Motors : PowerUp(m)
    PROVE  Detecting'
<1>1. /\ sdo \in SdoRecord /\ tx \in TxRecord(Frames) /\ power \subseteq Motors
      /\ reply \in [Motors -> Answers \cup {"none"}]
  BY DEF IInv, TypeOK
<1>2. UNCHANGED <<ctx, answered>>
  BY DEF Bus, NmtDelivered, SdoDelivered, AnswerReceived, CurtainChanges, PowerUp, vars, code
<1>3. Handler' = Handler /\ Written' = Written /\ (HandlerRests' <=> HandlerRests)
  BY <1>2 DEF Handler, Written, HandlerRests
<1>4. /\ ctx["main"].proc = "detect" /\ HeardFromPowered /\ WordsToWritten
      /\ sdo.prev = sdo.txid /\ (HandlerRests => MainClient(ctx["main"]))
      /\ (~HandlerRests => HandlerClient /\ MotorsPassed)
  BY DEF Detecting
<1>5. power \subseteq power' /\ power' \subseteq Motors
  BY <1>1 DEF Bus, NmtDelivered, SdoDelivered, AnswerReceived, CurtainChanges, PowerUp, vars,
     code, motor
<1>6. SUFFICES /\ sdo'.rx = sdo.rx /\ sdo'.prev = sdo.prev /\ sdo'.txid = sdo.txid
               /\ HeardFromPowered' /\ WordsToWritten'
  <2>1. ASSUME sdo'.rx = sdo.rx, sdo'.prev = sdo.prev, sdo'.txid = sdo.txid
        PROVE  /\ HandlerRests' => MainClient(ctx["main"])'
               /\ ~HandlerRests' => HandlerClient' /\ MotorsPassed'
               /\ sdo'.prev = sdo'.txid /\ ctx'["main"].proc = "detect"
    BY <1>2, <1>3, <1>4, <1>5, <2>1 DEF MainClient, HandlerClient, MotorsPassed
  <2>2. QED
    BY <2>1 DEF Detecting
<1>7. ASSUME NEW box \in Mailboxes, tx' = MailboxDone(tx, box)
      PROVE  \A k \in Mailboxes : IsWord(tx'.box[k]) => tx'.box[k].node \in Written
  <2>1. tx'.box = [tx.box EXCEPT ![box] = NoFrame] /\ tx.box \in [Mailboxes -> Frames \cup {NoFrame}]
    BY <1>1, <1>7 DEF MailboxDone, TxRecord
  <2>2. QED
    BY <1>4, <2>1 DEF IsWord, WordsToWritten
<1>8. ASSUME NEW box \in Mailboxes, NmtDelivered(box)
      PROVE  /\ sdo' = sdo /\ HeardFromPowered' /\ WordsToWritten'
  <2>1. tx' = MailboxDone(tx, box) /\ UNCHANGED <<answered, sdo, power, reply>>
    BY <1>8 DEF NmtDelivered
  <2>2. QED
    BY <1>3, <1>4, <1>7, <2>1 DEF HeardFromPowered, WordsToWritten
<1>9. ASSUME NEW box \in Mailboxes, SdoDelivered(box)
      PROVE  /\ sdo' = sdo /\ HeardFromPowered' /\ WordsToWritten'
  <2> DEFINE f == tx.box[box]
  <2>1. /\ tx' = MailboxDone(tx, box) /\ UNCHANGED <<answered, sdo, power>>
        /\ f # NoFrame /\ \A m \in Motors : reply[m] = "none"
        /\ \/ f.node \in power /\ Serve(f.node, f.what)
           \/ reply' = reply
    BY <1>9 DEF SdoDelivered
  <2>2. f \in Frames
    BY <1>1, <2>1 DEF TxRecord
  <2>3. f.node \in power /\ f.what \in Words => f.node \in Written
    <3>1. ASSUME f.what \in Words PROVE f.kind = "sdo"
      BY <2>2, <3>1, SafetyAssumption DEF Frames, NmtCommands
    <3>2. QED
      BY <1>4, <2>1, <3>1 DEF WordsToWritten, IsWord
  <2> HIDE DEF f
  <2>4. \A m \in Motors : /\ reply'[m] # "none" => m \in power
                          /\ reply'[m] = "ack" => m \in Written
    <3>1. CASE f.node \in power /\ Serve(f.node, f.what)
      <4>1. \/ f.what \in Words /\ reply' = [reply EXCEPT ![f.node] = "ack"]
            \/ reply' = [reply EXCEPT ![f.node] = "value"]
            \/ reply' = [reply EXCEPT ![f.node] = "abort"]
            \/ reply' = reply
        BY <3>1 DEF Serve
      <4>2. QED
        BY <1>1, <2>1, <2>3, <3>1, <4>1
    <3>2. CASE reply' = reply
      BY <2>1, <3>2
    <3>3. QED
      BY <2>1, <3>1, <3>2
  <2>5. QED
    BY <1>3, <1>4, <1>7, <2>1, <2>4 DEF HeardFromPowered, WordsToWritten
<1>10. ASSUME NEW m \in Motors, AnswerReceived(m)
       PROVE  /\ sdo'.rx = sdo.rx /\ sdo'.prev = sdo.prev /\ sdo'.txid = sdo.txid
              /\ HeardFromPowered' /\ WordsToWritten'
  <2>1. /\ reply[m] # "none" /\ reply' = [reply EXCEPT ![m] = "none"]
        /\ sdo' = IF sdo.rx = m THEN SDOclient_receive(sdo, reply[m]) ELSE sdo
        /\ UNCHANGED <<answered, tx, power>>
    BY <1>10 DEF AnswerReceived
  <2>2. /\ sdo'.rx = sdo.rx /\ sdo'.prev = sdo.prev /\ sdo'.txid = sdo.txid /\ sdo'.out = sdo.out
        /\ \/ sdo'.new = sdo.new /\ sdo'.data = sdo.data
           \/ sdo'.new /\ sdo.rx = m /\ sdo'.data = reply[m]
    BY <1>1, <2>1 DEF SDOclient_receive, SdoRecord
  <2>3. m \in power /\ (reply[m] = "ack" => m \in Written)
    BY <1>4, <2>1 DEF HeardFromPowered, WordsToWritten
  <2>4. HeardFromPowered'
    BY <1>1, <1>4, <2>1, <2>2, <2>3 DEF HeardFromPowered
  <2>5. WordsToWritten'
    BY <1>1, <1>3, <1>4, <2>1, <2>2, <2>3 DEF WordsToWritten
  <2>6. QED
    BY <2>2, <2>4, <2>5
<1>11. ASSUME CurtainChanges \/ UNCHANGED vars \/ \E m \in Motors : PowerUp(m)
       PROVE  /\ sdo' = sdo /\ HeardFromPowered' /\ WordsToWritten'
  <2>1. UNCHANGED <<answered, sdo, tx, reply>>
    BY <1>11 DEF CurtainChanges, PowerUp, vars, code, motor
  <2>2. QED
    BY <1>3, <1>4, <1>5, <2>1 DEF HeardFromPowered, WordsToWritten
<1>12. QED
  BY <1>8, <1>9, <1>10, <1>11 DEF Bus

\* No step leaves the invariant, as long as nobody resets the controller.
LEMMA NextDetect == IInv /\ DetectInv /\ ~Resets /\ [Next]_vars => DetectInv'
<1> SUFFICES ASSUME IInv, DetectInv, ~Resets, [Next]_vars PROVE DetectInv'
  OBVIOUS
<1>1. /\ ctx'["main"].proc \in {"detect", "wait", "reset", "loop"}
      /\ Handler'.proc \in {"idle", "stop", "reset"}
      /\ ctx["main"].proc = "loop" => ctx'["main"].proc = "loop"
      /\ ctx["main"].proc # "loop" /\ power = Motors => power' = Motors
  BY ProcsKept
<1>2. SUFFICES ASSUME ctx["main"].proc # "loop", power # Motors
               PROVE  ctx'["main"].proc = "loop" \/ power' = Motors \/ Detecting'
  BY <1>1 DEF DetectInv
<1>3. Detecting /\ ctx["main"].proc = "detect"
  BY <1>2 DEF DetectInv, Detecting
<1>4. CASE Step("main") \/ PollUpload
  <2>1. HandlerRests
    BY <1>4, StepProc DEF PollUpload, Runs, HandlerRests, Handler, Contexts
  <2>2. QED
    BY <1>3, <1>4, <2>1, MainDetects
<1>5. CASE Step("tim3")
  BY <1>3, <1>5, HandlerDetects
<1>6. CASE TIM3_IRQHandler
  BY <1>3, <1>6, EntryDetects
<1>7. CASE Bus \/ CurtainChanges \/ UNCHANGED vars \/ \E m \in Motors : PowerUp(m)
  BY <1>3, <1>7, BusDetects
<1>8. ~StartMotors /\ ~CommunicationReset /\ ~(\E m \in Motors : PowerLost(m))
  BY <1>3 DEF StartMotors, CommunicationReset, PowerLost
<1>9. QED
  BY <1>4, <1>5, <1>6, <1>7, <1>8 DEF Next, Contexts

\* motorDetection ends only when every motor has voltage, also when the light
\* curtain's interrupt breaks into its question to a motor and addresses the SDO
\* client to another one: for any motors that are late or faulty, and whatever
\* the bus does to the time an answer takes.  A communication reset is left out:
\* it keeps in the mailboxes what main and the interrupt have mixed up before.
THEOREM SafetyDetection == ASSUME ~Resets PROVE Spec => []DetectedMeansPowered
<1>1. IInv /\ DetectInv /\ [Next]_vars => (IInv /\ DetectInv)'
  BY NextIInv, NextDetect
<1>2. Init => IInv /\ DetectInv
  BY InitIInv, InitDetect
<1>3. DetectInv => DetectedMeansPowered
  BY DEF DetectInv, Detecting, DetectedMeansPowered
<1>4. QED
  BY <1>1, <1>2, <1>3, PTL DEF Spec
===============================================================================
