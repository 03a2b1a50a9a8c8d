--------------------------- MODULE InterlockProofs ---------------------------
(***************************************************************************)
(* Why the light curtain can be relied on: for any number of motors,       *)
(* mailboxes and polls, with motors that may fail, and with no assumption  *)
(* on how fast the bus is.  What is left out is what the model-checked     *)
(* runs show to be wrong: a curtain that is engaged before main has        *)
(* started the motors, and a communication reset.                          *)
(*                                                                         *)
(* Types are far from inductive here.  The argument is that the context    *)
(* that runs owns the SDO client from its setup to the answer (ClientSet,  *)
(* BuffersOwn), so that at most one controlword is under way and its       *)
(* answer tells that this one was executed (OneWord).                      *)
(***************************************************************************)
EXTENDS SafetyCtrlProofs

\* The context that runs: the handler when it is active, and main otherwise.
Turn == IF ctx["tim3"].proc = "idle" THEN ctx["main"] ELSE ctx["tim3"]

\* The handler comes in only after main has started the motors.
HandlerLast ==
    /\ ctx["main"].proc \in {"detect", "wait", "reset", "loop"}
    /\ ctx["tim3"].proc \in {"idle", "stop", "reset"}
    /\ ctx["main"].proc \in {"wait", "loop"} => ctx["main"] = Resting(ctx["main"].proc)
    /\ ctx["main"].proc # "loop" => ctx["tim3"].proc = "idle" /\ ~Zustand /\ ~pin

\* The SDO client addresses the motor of the block once its setup is done.
ClientSet ==
    /\ IF Turn.step = "tx" THEN sdo.rx = Turn.b
                           ELSE sdo.prev = sdo.rx /\ sdo.txid = sdo.rx
    /\ Turn.b \in Motors /\ Turn.k > 1 => sdo.rx = Turn.b

\* What has been written into the shared buffers is the running instruction's.
BuffersOwn ==
    /\ Turn.step = "go" => sdo.out = Instruction(Turn).arg
    /\ Turn.step \in {"node", "send"} => nmtData.what = Instruction(Turn).arg
    /\ Turn.step = "send" => nmtData.node = Instruction(Turn).node

\* Mailboxes with a request to write a controlword, and where its answer is.
WordBoxes == {box \in Mailboxes : /\ tx.box[box] # NoFrame /\ tx.box[box].kind = "sdo"
                                  /\ tx.box[box].what \in Words}
AckSent(m) == reply[m] = "ack"
AckHeld == sdo.new /\ sdo.data = "ack"

Awaiting == Turn.step = "poll" /\ Instruction(Turn).op = "write"

\* A motor that has lost its voltage since is disabled whatever it executed.
Executed(m, w) == \/ drive[m] = DriveAfter(drive[m], w)
                  \/ m \in Faulty /\ drive[m] = "disabled"

\* At most one controlword is under way, the running instruction's: in one
\* mailbox, or answered and the answer not yet read.
OneWord ==
    /\ ~Awaiting => WordBoxes = {} /\ ~AckHeld /\ \A m \in Motors : ~AckSent(m)
    /\ \A box \in WordBoxes : /\ tx.box[box] = SdoFrame(Turn.b, Instruction(Turn).arg)
                              /\ \A other \in WordBoxes : other = box
                              /\ ~AckHeld /\ \A m \in Motors : ~AckSent(m)
    /\ \A m \in Motors : AckSent(m) => /\ m = Turn.b /\ ~AckHeld
                                       /\ Executed(m, Instruction(Turn).arg)
    /\ AckHeld => Executed(Turn.b, Instruction(Turn).arg)

\* The motors whose shutdown has been answered, or that have not been enabled.
ShutDown(m) ==
    \/ Turn.proc = "stop" /\ (m < Turn.b \/ (m = Turn.b /\ Turn.k = 3))
    \/ Turn.proc = "loop" /\ Zustand
    \/ Turn.proc \in {"detect", "wait"}
    \/ Turn.proc = "reset" /\ (m > Turn.b \/ (m = Turn.b /\ Turn.k < 5))

DrivesOff == \A m \in Motors : ShutDown(m) => drive[m] # "enabled"

\* A frame that stops a motor is sent after the drive has been shut down.
StopFrames ==
    \A box \in Mailboxes :
       tx.box[box] # NoFrame /\ tx.box[box].kind = "nmt" /\ tx.box[box].what = "stopped" =>
          /\ tx.box[box].node # AllNodes
          /\ tx.box[box].node \in Motors => drive[tx.box[box].node] # "enabled"

Shared == ClientSet /\ BuffersOwn
Drives == DrivesOff /\ StopFrames /\ StoppedIsShutDown
LockInv == IInv /\ HandlerLast /\ Shared /\ OneWord /\ Drives

\* What the world outside is assumed to leave alone.
Scope == ~EarlyCurtain /\ ~Resets

-----------------------------------------------------------------------------
(* Whose turn it is. *)

\* The context that has the turn is in a routine, or main waits or loops.
LEMMA TurnType ==
    ASSUME IInv, HandlerLast
    PROVE  /\ Turn \in CtxRecord
           /\ Busy(Turn) \/ Turn \in {Resting("wait"), Resting("loop")}
           /\ Turn.proc # "loop" /\ ctx["tim3"].proc = "idle" => ~Zustand /\ ~pin
           /\ Turn.proc = "stop" => ctx["tim3"].proc # "idle"
           /\ Turn.proc \in {"detect", "wait"} => ctx["tim3"].proc = "idle"
           /\ ctx["tim3"].proc # "idle" => ctx["main"] = Resting("loop")
<1>1. /\ ctx["main"] \in CtxRecord /\ ctx["tim3"] \in CtxRecord
      /\ Busy(ctx["main"]) \/ AtRest(ctx["main"])
      /\ Busy(ctx["tim3"]) \/ AtRest(ctx["tim3"])
  BY DEF IInv, TypeOK, CtxOK, CtxRecord, Contexts
<1>2. QED
  BY <1>1 DEF HandlerLast, Turn, AtRest, Busy, Resting

\* A context that takes a step has the turn.
LEMMA TurnRuns ==
    ASSUME IInv, HandlerLast, NEW c \in Contexts, NEW s, s # "none", Runs(c, s)
    PROVE  /\ ctx[c] = Turn /\ Turn.step = s /\ Busy(Turn) /\ Turn \in CtxRecord
           /\ Instr(c) = Instruction(Turn)
           /\ c = "main" <=> ctx["tim3"].proc = "idle"
<1>1. ctx[c].step = s /\ Busy(ctx[c])
  BY DEF Runs, IInv, CtxOK, AtRest
<1>2. c = "tim3" => ctx["tim3"].proc # "idle"
  BY <1>1 DEF Busy
<1>3. ctx[c] = Turn /\ (c = "main" <=> ctx["tim3"].proc = "idle")
  BY <1>2 DEF Runs, Turn, Contexts
<1>4. Turn \in CtxRecord
  BY TurnType
<1>5. QED
  BY <1>1, <1>3, <1>4 DEF Instr, Instruction

\* The turn after a step within an instruction.
LEMMA TurnToStep ==
    ASSUME IInv, HandlerLast, NEW c \in Contexts, NEW s, s # "none", Runs(c, s),
           NEW t \in Steps, ToStep(c, t), pin' = pin
    PROVE  /\ HandlerLast'
           /\ Turn' = [Turn EXCEPT !.step = t]
           /\ Turn'.proc = Turn.proc /\ Turn'.b = Turn.b /\ Turn'.k = Turn.k /\ Turn'.step = t
           /\ Instruction(Turn') = Instruction(Turn)
           /\ Zustand' = Zustand
<1>1. ctx \in [Contexts -> CtxRecord]
  BY DEF IInv, TypeOK, CtxRecord
<1>2. /\ ctx[c] = Turn /\ Turn \in CtxRecord /\ Busy(Turn)
      /\ c = "main" <=> ctx["tim3"].proc = "idle"
  BY TurnRuns
<1>3. ctx' = [ctx EXCEPT ![c] = [Turn EXCEPT !.step = t]] /\ Zustand' = Zustand
  BY <1>1, <1>2 DEF ToStep
<1> DEFINE y == [Turn EXCEPT !.step = t]
<1>4. y.proc = Turn.proc /\ y.b = Turn.b /\ y.k = Turn.k /\ y.step = t
  BY <1>2 DEF CtxRecord
<1> HIDE DEF y
<1>5. ctx' = [ctx EXCEPT ![c] = y]
  BY <1>3 DEF y
<1>6. Turn.proc \notin {"wait", "loop", "idle"}
  BY <1>2 DEF Busy
<1>7. Turn' = y
  BY <1>1, <1>2, <1>4, <1>5 DEF Turn, Contexts
<1>8. HandlerLast'
  BY <1>1, <1>2, <1>3, <1>4, <1>5, <1>6 DEF HandlerLast, Contexts
<1>9. QED
  BY <1>3, <1>4, <1>7, <1>8 DEF y, Instruction

\* The turn after an instruction: at the next one, or back in the loop of
\* main with Zustand telling which routine it was.
LEMMA TurnToNext ==
    ASSUME IInv, HandlerLast, NEW c \in Contexts, NEW s, s # "none", Runs(c, s),
           Instruction(Turn).op # "read", ToNextInstr(c), pin' = pin
    PROVE  /\ HandlerLast'
           /\ IF Returns(Turn)
              THEN /\ Turn.proc \in {"stop", "reset"}
                   /\ Turn' = Resting("loop") /\ Zustand' = (Turn.proc = "stop")
              ELSE Turn' = NextInstr(Turn) /\ Zustand' = Zustand
<1>1. ctx \in [Contexts -> CtxRecord]
  BY DEF IInv, TypeOK, CtxRecord
<1>2. /\ ctx[c] = Turn /\ Turn \in CtxRecord /\ Busy(Turn)
      /\ c = "main" <=> ctx["tim3"].proc = "idle"
  BY TurnRuns
<1>3. Turn.proc \notin {"wait", "loop", "idle"}
  BY <1>2 DEF Busy
<1>4. CASE Returns(Turn)
  <2>1. Turn.proc # "detect"
    <3>1. Turn.proc = "detect" => Len(Block(Turn.proc, Turn.b)) = 2
      BY DEF Block, DetectMotor
    <3>2. Turn.proc = "detect" => Turn.k = 2
      BY <1>4, <3>1 DEF Returns
    <3>3. Place(Turn, Instruction(Turn), Len(Block(Turn.proc, Turn.b)))
      BY <1>2, BlockTable
    <3>4. Instruction(Turn).op \in {"nmt", "setup", "write", "read"}
      BY <1>2, StepPlace DEF Instructions
    <3>5. QED
      BY <3>2, <3>3, <3>4 DEF Place, NmtPlace, SetupPlace, WritePlace
  <2>2. Turn.proc \in {"stop", "reset"}
    BY <1>2, <2>1 DEF Busy
  <2> DEFINE r == Resting(IF c = "main" THEN "loop" ELSE "idle")
  <2>3. /\ ctx' = [ctx EXCEPT ![c] = r]
        /\ Zustand' = IF c = "tim3" THEN Turn.proc = "stop" ELSE Zustand
    BY <1>2, <1>4 DEF ToNextInstr
  <2>4. CASE c = "main"
    <3>1. Turn.proc = "reset" /\ ~Zustand /\ Zustand' = Zustand
      BY <1>2, <2>2, <2>3, <2>4 DEF HandlerLast
    <3>2. ctx'["main"] = Resting("loop") /\ ctx'["tim3"] = ctx["tim3"]
      BY <1>1, <2>3, <2>4 DEF Contexts
    <3>3. Turn' = Resting("loop")
      BY <1>2, <2>4, <3>2 DEF Turn
    <3>4. HandlerLast'
      BY <2>4, <3>2, <1>2 DEF HandlerLast, Resting
    <3>5. Zustand \in BOOLEAN
      BY DEF IInv, TypeOK
    <3>6. Zustand' = (Turn.proc = "stop")
      BY <3>1, <3>5
    <3>7. QED
      BY <1>4, <2>2, <3>3, <3>4, <3>6
  <2>5. CASE c = "tim3"
    <3>1. ctx["main"].proc = "loop" /\ ctx["main"] = Resting("loop")
      BY <1>2, <2>5 DEF HandlerLast
    <3>2. ctx'["tim3"] = Resting("idle") /\ ctx'["main"] = ctx["main"]
      BY <1>1, <2>3, <2>5 DEF Contexts
    <3>3. Turn' = Resting("loop")
      BY <3>1, <3>2 DEF Turn, Resting
    <3>4. HandlerLast'
      BY <3>1, <3>2 DEF HandlerLast, Resting
    <3>5. QED
      BY <1>4, <2>2, <2>3, <2>5, <3>3, <3>4
  <2>6. QED
    BY <2>4, <2>5 DEF Contexts
<1>5. CASE ~Returns(Turn)
  <2> DEFINE y == NextInstr(Turn)
  <2>1. ctx' = [ctx EXCEPT ![c] = y] /\ Zustand' = Zustand
    BY <1>2, <1>5 DEF ToNextInstr
  <2>2. y.proc = Turn.proc
    BY <1>2, <1>5, NextPlace
  <2> HIDE DEF y
  <2>3. Turn' = y
    BY <1>1, <1>2, <1>3, <2>1, <2>2 DEF Turn, Contexts
  <2>4. HandlerLast'
    BY <1>1, <1>2, <1>3, <2>1, <2>2 DEF HandlerLast, Contexts
  <2>5. QED
    BY <1>5, <2>1, <2>3, <2>4 DEF y
<1>6. QED
  BY <1>4, <1>5

\* After an instruction the shared buffers are nobody's, until the next one
\* fills them.
LEMMA NextTurn ==
    ASSUME IInv, HandlerLast, NEW c \in Contexts, NEW s, s # "none", Runs(c, s),
           Instruction(Turn).op # "read", ToNextInstr(c), pin' = pin
    PROVE  /\ HandlerLast'
           /\ Turn'.step \in {"command", "rx", "begin", "none"}
           /\ Turn'.k > 1 => /\ Turn'.b = Turn.b /\ Turn'.k = Turn.k + 1
                             /\ Turn.k < Len(Block(Turn.proc, Turn.b))
           /\ ~Awaiting' /\ BuffersOwn'
<1>1. Turn \in CtxRecord /\ Busy(Turn)
  BY TurnRuns
<1>2. /\ HandlerLast'
      /\ IF Returns(Turn) THEN Turn' = Resting("loop") ELSE Turn' = NextInstr(Turn)
  BY TurnToNext
<1>3. CASE Returns(Turn)
  BY <1>2, <1>3 DEF Resting, Awaiting, BuffersOwn
<1>4. CASE ~Returns(Turn)
  <2>1. /\ Turn'.step \in {"command", "rx", "begin"}
        /\ \/ /\ Turn'.b = Turn.b /\ Turn'.k = Turn.k + 1
              /\ Turn.k < Len(Block(Turn.proc, Turn.b))
           \/ Turn'.b = Turn.b + 1 /\ Turn'.k = 1
    BY <1>1, <1>2, <1>4, NextPlace
  <2>2. QED
    BY <1>2, <2>1 DEF Awaiting, BuffersOwn
<1>5. QED
  BY <1>3, <1>4

\* The shutdowns that have been answered after an instruction: those before
\* it, and its own if it wrote a controlword.
LEMMA NextShutDown ==
    ASSUME IInv, HandlerLast, DrivesOff,
           NEW c \in Contexts, NEW s, s # "none", Runs(c, s),
           Instruction(Turn).op # "read", ToNextInstr(c), pin' = pin, drive' = drive,
           Instruction(Turn).op = "write" => Executed(Turn.b, Instruction(Turn).arg)
    PROVE  DrivesOff'
<1> DEFINE i == Instruction(Turn)
           n == Len(Block(Turn.proc, Turn.b))
<1>1. /\ Turn \in CtxRecord /\ Busy(Turn) /\ i \in Instructions
      /\ i.op \in {"nmt", "setup", "write", "read"}
  BY TurnRuns, StepPlace DEF Instructions
<1>2. Place(Turn, i, n) /\ n \in 1 .. 5 /\ Turn.k \in 1 .. n
  BY <1>1, BlockTable, BlockType DEF Busy
<1>3. IF Returns(Turn)
      THEN /\ Turn.proc \in {"stop", "reset"}
           /\ Turn' = Resting("loop") /\ Zustand' = (Turn.proc = "stop")
      ELSE Turn' = NextInstr(Turn) /\ Zustand' = Zustand
  BY TurnToNext
<1>4. ASSUME i.op = "write", i.arg = "Shutdown"
      PROVE  drive[Turn.b] # "enabled"
  BY <1>4 DEF Executed, DriveAfter
<1>5. NumMotors \in Nat /\ NumMotors > 0 /\ Turn.b \in 0 .. NumMotors + 1
  BY <1>1, NodeType DEF CtxRecord
<1> HIDE DEF i, n
<1>6. SUFFICES ASSUME NEW m \in Motors, ShutDown(m)' PROVE drive[m] # "enabled"
  BY DEF DrivesOff
<1>7. ShutDown(m) => drive[m] # "enabled"
  BY DEF DrivesOff
<1>8. m \in Nat /\ m > 0 /\ m <= NumMotors
  BY <1>5 DEF Motors
<1>9. CASE Returns(Turn)
  <2>1. Turn.proc = "stop"
    <3>1. Turn' = Resting("loop") /\ Zustand' = (Turn.proc = "stop")
      BY <1>3, <1>9
    <3>2. Zustand'
      BY <1>6, <3>1 DEF ShutDown, Resting
    <3>3. QED
      BY <3>1, <3>2, Zenon
  <2>2. Turn.b = NumMotors /\ Turn.k = n
    BY <1>9, <2>1 DEF Returns, LastBlock, n
  <2>3. Turn.k = 3
    BY <1>1, <1>2, <1>5, <2>1, <2>2
    DEF Place, NmtPlace, SetupPlace, WritePlace, ReadPlace, Motors
  <2>4. QED
    BY <1>5, <1>7, <1>8, <2>1, <2>2, <2>3 DEF ShutDown
<1>10. CASE ~Returns(Turn)
  <2>1. /\ Turn'.proc = Turn.proc /\ Zustand' = Zustand
        /\ IF Turn.k < n THEN Turn'.b = Turn.b /\ Turn'.k = Turn.k + 1
                         ELSE Turn'.b = Turn.b + 1 /\ Turn'.k = 1
    BY <1>1, <1>3, <1>10, NextPlace DEF n
  <2>2. ShutDown(m) \/ (m = Turn.b /\ Turn.proc = "stop" /\ Turn.k = 2)
    BY <1>1, <1>2, <1>5, <1>6, <1>8, <2>1, SMTT(60)
    DEF ShutDown, Place, NmtPlace, SetupPlace, WritePlace, ReadPlace, Busy
  <2>3. Turn.proc = "stop" /\ Turn.k = 2 => i.op = "write" /\ i.arg = "Shutdown"
    BY <1>1, <1>2 DEF Place, NmtPlace, SetupPlace, WritePlace, ReadPlace
  <2>4. QED
    BY <1>4, <1>7, <2>2, <2>3
<1>11. QED
  BY <1>9, <1>10

-----------------------------------------------------------------------------
(* What sending does to the mailboxes. *)

\* Loading anything but a controlword leaves the controlwords under way alone.
LEMMA LoadedWords ==
    ASSUME IInv, NEW f, ~IsWord(f), Loaded(tx, tx', f)
    PROVE  \A box \in WordBoxes' : box \in WordBoxes /\ tx'.box[box] = tx.box[box]
<1>1. tx.box \in [Mailboxes -> Frames \cup {NoFrame}]
  BY DEF IInv, TypeOK, TxRecord
<1>2. QED
  BY <1>1 DEF Loaded, IsWord, WordBoxes

\* Loading a command that stops a motor is safe once its drive is shut down.
LEMMA LoadedStops ==
    ASSUME IInv, StopFrames, drive' = drive, NEW f, Loaded(tx, tx', f),
           IsStop(f) => f.node # AllNodes /\ (f.node \in Motors => drive[f.node] # "enabled")
    PROVE  StopFrames'
<1>1. tx.box \in [Mailboxes -> Frames \cup {NoFrame}]
  BY DEF IInv, TypeOK, TxRecord
<1>2. QED
  BY <1>1 DEF Loaded, IsStop, StopFrames

\* No controlword before the step and none after it.
LEMMA StaysQuiet ==
    ASSUME OneWord, ~Awaiting, WordBoxes' \subseteq WordBoxes, AckHeld' => AckHeld,
           reply' = reply
    PROVE  OneWord'
<1>1. WordBoxes = {} /\ ~AckHeld /\ \A m \in Motors : ~AckSent(m)
  BY DEF OneWord
<1>2. WordBoxes' = {} /\ ~AckHeld' /\ \A m \in Motors : ~AckSent(m)'
  BY <1>1 DEF AckSent
<1>3. QED
  BY <1>2 DEF OneWord

\* Drives and NMT states that do not change, at a step within an instruction.
LEMMA StayDrives ==
    ASSUME DrivesOff, Turn'.proc = Turn.proc, Turn'.b = Turn.b, Turn'.k = Turn.k,
           Zustand' = Zustand, drive' = drive
    PROVE  DrivesOff'
  BY DEF DrivesOff, ShutDown

-----------------------------------------------------------------------------
(* The steps of the routines. *)

\* The three steps of CO_sendNMTcommand keep the invariant.
LEMMA NmtLock ==
    ASSUME LockInv, NEW c \in Contexts, NmtCommand(c) \/ NmtNode(c) \/ NmtSend(c)
    PROVE  HandlerLast' /\ Shared' /\ OneWord' /\ Drives'
<1> USE DEF LockInv, Shared, Drives
<1>1. /\ pin' = pin /\ sdo' = sdo /\ drive' = drive /\ nmt' = nmt /\ reply' = reply
  BY DEF NmtCommand, NmtNode, NmtSend, motor
<1>2. PICK s \in {"command", "node", "send"} : Runs(c, s) /\ s # "none"
  BY DEF NmtCommand, NmtNode, NmtSend
<1>3. /\ ctx[c] = Turn /\ Turn.step = s /\ Busy(Turn) /\ Turn \in CtxRecord
      /\ Instr(c) = Instruction(Turn)
  BY <1>2, TurnRuns
<1>4. Instruction(Turn).op = "nmt"
  BY <1>2, <1>3, StepPlace
<1>5. ~Awaiting /\ Turn.step # "tx"
  BY <1>2, <1>3 DEF Awaiting
<1>6. CASE NmtCommand(c) \/ NmtNode(c)
  <2>1. PICK t \in {"node", "send"} : ToStep(c, t)
    BY <1>6 DEF NmtCommand, NmtNode
  <2>2. /\ HandlerLast' /\ Zustand' = Zustand
        /\ Turn'.proc = Turn.proc /\ Turn'.b = Turn.b /\ Turn'.k = Turn.k /\ Turn'.step = t
        /\ Instruction(Turn') = Instruction(Turn)
    BY <1>1, <1>2, <2>1, TurnToStep DEF Steps
  <2>3. tx' = tx
    BY <1>6 DEF NmtCommand, NmtNode
  <2>4. ClientSet'
    BY <1>1, <1>5, <2>1, <2>2 DEF ClientSet
  <2>5. BuffersOwn'
    <3>1. /\ Turn'.step # "go"
          /\ nmtData'.what = Instruction(Turn).arg
          /\ Turn'.step = "send" => nmtData'.node = Instruction(Turn).node
      <4>1. nmtData \in [what : NmtCommands, node : 0 .. NumMotors + 1]
        BY DEF IInv, TypeOK
      <4>2. CASE NmtCommand(c)
        <5>1. Turn'.step = "node"
          BY <1>1, <1>2, <4>2, TurnToStep DEF NmtCommand, Steps
        <5>2. QED
          BY <1>3, <4>1, <4>2, <5>1 DEF NmtCommand
      <4>3. CASE NmtNode(c)
        <5>1. Turn.step = "node"
          BY <4>3, TurnRuns DEF NmtNode
        <5>2. Turn'.step = "send"
          BY <1>1, <1>2, <4>3, TurnToStep DEF NmtNode, Steps
        <5>3. QED
          BY <1>3, <4>1, <4>3, <5>1, <5>2 DEF NmtNode, BuffersOwn
      <4>4. QED
        BY <1>6, <4>2, <4>3
    <3>2. QED
      BY <2>2, <3>1 DEF BuffersOwn
  <2>6. OneWord'
    BY <1>1, <1>5, <2>3, StaysQuiet DEF WordBoxes, AckHeld
  <2>7. Drives'
    BY <1>1, <2>2, <2>3, StayDrives DEF StopFrames, StoppedIsShutDown
  <2>8. QED
    BY <2>2, <2>4, <2>5, <2>6, <2>7
<1>7. CASE NmtSend(c)
  <2> DEFINE f == NmtFrame(nmtData.node, nmtData.what)
             i == Instruction(Turn)
  <2>1. Turn.step = "send" /\ Runs(c, "send") /\ ToNextInstr(c)
    BY <1>7, TurnRuns DEF NmtSend
  <2>2. HandlerLast' /\ BuffersOwn' /\ ~Awaiting' /\ Turn'.step # "tx"
        /\ (Turn'.k > 1 => Turn.k < Len(Block(Turn.proc, Turn.b)))
    BY <1>1, <1>4, <2>1, NextTurn
  <2>3. nmtData.node = i.node /\ nmtData.what = i.arg
    BY <2>1 DEF BuffersOwn
  <2>4. f \in Frames /\ tx' = CANsend(tx, NmtBuffer, f) /\ tx \in TxRecord(Frames)
    BY <1>7 DEF NmtSend, IInv, TypeOK, NmtFrame, Frames
  <2>5. Loaded(tx, tx', f)
    BY <2>4, SendLoads
  <2>6. ~IsWord(f)
    BY DEF IsWord, NmtFrame
  <2>7. OneWord'
    <3>1. WordBoxes' \subseteq WordBoxes
      BY <2>5, <2>6, LoadedWords
    <3>2. QED
      BY <1>1, <1>5, <3>1, StaysQuiet DEF AckHeld
  <2>8. Place(Turn, i, Len(Block(Turn.proc, Turn.b)))
    BY <1>3, BlockTable
  <2>9. ClientSet'
    <3>1. Turn.k = Len(Block(Turn.proc, Turn.b))
      BY <1>4, <2>8 DEF Place, NmtPlace
    <3>2. ~(Turn'.k > 1)
      <4>1. Turn.k \in 1 .. 5
        BY <1>3 DEF CtxRecord
      <4>2. QED
        BY <2>2, <3>1, <4>1
    <3>3. QED
      BY <1>1, <1>5, <2>2, <3>2 DEF ClientSet
  <2>10. DrivesOff'
    BY <1>1, <1>2, <1>4, <2>1, NextShutDown
  <2>11. StopFrames'
    <3>1. IsStop(f) => i.arg = "stopped" /\ f.node = i.node
      BY <2>3 DEF IsStop, NmtFrame
    <3>2. ASSUME i.arg = "stopped" PROVE i.node # AllNodes /\ (i.node \in Motors => drive[i.node] # "enabled")
      <4>1. \/ i.node = NumMotors + 1
            \/ Turn.proc = "stop" /\ Turn.b \in Motors /\ Turn.k = 3 /\ i.node = Turn.b
        BY <1>4, <2>8, <3>2 DEF Place, NmtPlace
      <4>2. CASE i.node = NumMotors + 1
        BY <4>2, NodeType DEF AllNodes, Motors
      <4>3. CASE Turn.proc = "stop" /\ Turn.b \in Motors /\ Turn.k = 3 /\ i.node = Turn.b
        BY <4>3 DEF DrivesOff, ShutDown, AllNodes, Motors
      <4>4. QED
        BY <4>1, <4>2, <4>3
    <3>3. QED
      BY <1>1, <2>5, <3>1, <3>2, LoadedStops
  <2>12. QED
    BY <1>1, <2>2, <2>7, <2>9, <2>10, <2>11 DEF StoppedIsShutDown
<1>8. QED
  BY <1>6, <1>7

\* CO_SDOclient_setup: afterwards the client addresses the block's motor.
LEMMA SetupLock ==
    ASSUME LockInv, NEW c \in Contexts, SetupRx(c) \/ SetupTx(c)
    PROVE  HandlerLast' /\ Shared' /\ OneWord' /\ Drives'
<1> USE DEF LockInv, Shared, Drives
<1> DEFINE i == Instruction(Turn)
           n == Len(Block(Turn.proc, Turn.b))
<1>1. /\ pin' = pin /\ drive' = drive /\ nmt' = nmt /\ reply' = reply
      /\ nmtData' = nmtData /\ tx'.box = tx.box
  BY DEF SetupRx, SetupTx, motor, TxBufferClear, IInv, TypeOK, TxRecord
<1>2. PICK s \in {"rx", "tx"} : Runs(c, s) /\ s # "none"
  BY DEF SetupRx, SetupTx
<1>3. /\ ctx[c] = Turn /\ Turn.step = s /\ Busy(Turn) /\ Turn \in CtxRecord
      /\ Instr(c) = i
  BY <1>2, TurnRuns
<1>4. i.op = "setup"
  BY <1>2, <1>3, StepPlace
<1>5. Turn.b \in Motors /\ Turn.k = 1 /\ i.node = Turn.b
  BY <1>3, <1>4, BlockTable DEF Place, SetupPlace
<1>6. ~Awaiting
  BY <1>2, <1>3 DEF Awaiting
<1>7. sdo \in SdoRecord
  BY DEF IInv, TypeOK
<1> HIDE DEF i
<1>8. AckHeld' => AckHeld
  <2>1. CASE SetupRx(c)
    BY <1>7, <2>1 DEF SetupRx, SDOclient_setupRx, AckHeld, SdoRecord
  <2>2. CASE SetupTx(c)
    BY <1>7, <2>2 DEF SetupTx, SDOclient_setupTx, AckHeld, SdoRecord
  <2>3. QED
    BY <2>1, <2>2
<1>9. OneWord'
  BY <1>1, <1>6, <1>8, StaysQuiet DEF WordBoxes
<1>10. StopFrames' /\ StoppedIsShutDown'
  BY <1>1 DEF StopFrames, StoppedIsShutDown
<1>11. CASE ToNextInstr(c)
  <2>1. /\ HandlerLast' /\ BuffersOwn' /\ Turn'.step # "tx"
        /\ Turn'.k > 1 => Turn'.b = Turn.b
    BY <1>1, <1>2, <1>4, <1>11, NextTurn DEF i
  <2>2. DrivesOff'
    BY <1>1, <1>2, <1>4, <1>11, NextShutDown DEF i
  <2>3. sdo'.rx = Turn.b /\ sdo'.prev = sdo'.rx /\ sdo'.txid = sdo'.rx
    <3>1. CASE SetupRx(c)
      <4>1. Turn.step = "rx"
        BY <3>1, TurnRuns DEF SetupRx
      <4>2. sdo.prev = sdo.rx /\ sdo.txid = sdo.rx
        BY <4>1 DEF ClientSet
      <4>3. sdo.prev = Turn.b
        <5>1. sdo.prev # Turn.b => ToStep(c, "tx")
          BY <1>3, <1>5, <3>1 DEF SetupRx
        <5>2. ToStep(c, "tx") => Turn'.step = "tx"
          BY <1>1, <1>2, TurnToStep DEF Steps
        <5>3. QED
          BY <2>1, <5>1, <5>2
      <4>4. QED
        BY <1>3, <1>5, <1>7, <3>1, <4>2, <4>3 DEF SetupRx, SDOclient_setupRx, SdoRecord
    <3>2. CASE SetupTx(c)
      <4>1. Turn.step = "tx"
        BY <3>2, TurnRuns DEF SetupTx
      <4>2. sdo.rx = Turn.b
        BY <4>1 DEF ClientSet
      <4>3. QED
        BY <1>3, <1>5, <1>7, <3>2, <4>2 DEF SetupTx, SDOclient_setupTx, SdoRecord
    <3>3. QED
      BY <3>1, <3>2
  <2>4. ClientSet'
    BY <2>1, <2>3 DEF ClientSet
  <2>5. QED
    BY <1>9, <1>10, <2>1, <2>2, <2>4
<1>12. CASE SetupRx(c) /\ sdo.prev # i.node /\ ToStep(c, "tx")
  <2>1. /\ HandlerLast' /\ Zustand' = Zustand
        /\ Turn'.proc = Turn.proc /\ Turn'.b = Turn.b /\ Turn'.k = Turn.k /\ Turn'.step = "tx"
    BY <1>1, <1>2, <1>12, TurnToStep DEF Steps
  <2>2. sdo'.rx = Turn.b
    BY <1>3, <1>5, <1>7, <1>12 DEF SetupRx, SDOclient_setupRx, SdoRecord
  <2>3. ClientSet' /\ BuffersOwn'
    BY <1>5, <2>1, <2>2 DEF ClientSet, BuffersOwn
  <2>4. DrivesOff'
    BY <1>1, <2>1, StayDrives
  <2>5. QED
    BY <1>9, <1>10, <2>1, <2>3, <2>4
<1>13. QED
  BY <1>3, <1>11, <1>12 DEF SetupRx, SetupTx

\* CO_SDOclientDownloadInitiate and CO_SDOclientUploadInitiate: what goes out
\* is the instruction's request, to the block's motor.
LEMMA SdoLock ==
    ASSUME LockInv, NEW c \in Contexts, SdoBegin(c) \/ SdoFill(c) \/ SdoSend(c)
    PROVE  HandlerLast' /\ Shared' /\ OneWord' /\ Drives'
<1> USE DEF LockInv, Shared, Drives
<1> DEFINE i == Instruction(Turn)
<1>1. /\ pin' = pin /\ drive' = drive /\ nmt' = nmt /\ reply' = reply
      /\ nmtData' = nmtData
  BY DEF SdoBegin, SdoFill, SdoSend, motor
<1>2. PICK s \in {"begin", "fill", "go"}, t \in {"fill", "go", "poll"} :
         /\ Runs(c, s) /\ s # "none" /\ ToStep(c, t)
         /\ s = "go" <=> t = "poll"
         /\ s = "fill" <=> t = "go"
  BY DEF SdoBegin, SdoFill, SdoSend
<1>3. /\ ctx[c] = Turn /\ Turn.step = s /\ Busy(Turn) /\ Turn \in CtxRecord
      /\ Instr(c) = i
  BY <1>2, TurnRuns
<1>4. i \in Instructions /\ i.op \in {"write", "read"}
  BY <1>2, <1>3, StepPlace
<1>5. Turn.b \in Motors /\ Turn.k > 1 /\ i.node = Turn.b
  BY <1>3, <1>4, BlockTable DEF Place, WritePlace, ReadPlace
<1>6. ~Awaiting
  BY <1>2, <1>3 DEF Awaiting
<1>7. sdo \in SdoRecord /\ tx \in TxRecord(Frames)
  BY DEF IInv, TypeOK
<1>8. /\ HandlerLast' /\ Zustand' = Zustand
      /\ Turn'.proc = Turn.proc /\ Turn'.b = Turn.b /\ Turn'.k = Turn.k /\ Turn'.step = t
      /\ Instruction(Turn') = i
  BY <1>1, <1>2, TurnToStep DEF Steps
<1> HIDE DEF i
<1>9. sdo'.rx = sdo.rx /\ sdo'.prev = sdo.prev /\ sdo'.txid = sdo.txid
  BY <1>7 DEF SdoBegin, SdoFill, SdoSend, SDOclientBegin, SDOclientFill, SDOclientSend, SdoRecord
<1>10. ClientSet'
  BY <1>2, <1>3, <1>8, <1>9 DEF ClientSet
<1>11. BuffersOwn'
  <2>1. SdoFill(c) => sdo'.out = i.arg
    BY <1>3, <1>7 DEF SdoFill, SDOclientFill, SdoRecord
  <2>2. t = "go" => SdoFill(c)
    <3>1. SdoFill(c) \/ s = "begin" \/ s = "go"
      BY <1>3, TurnRuns DEF SdoBegin, SdoFill, SdoSend
    <3>2. QED
      BY <1>2, <3>1
  <2>3. QED
    BY <1>2, <1>8, <2>1, <2>2 DEF BuffersOwn, i
<1>12. DrivesOff' /\ StoppedIsShutDown'
  BY <1>1, <1>8, StayDrives DEF StoppedIsShutDown
<1>13. CASE SdoBegin(c) \/ SdoFill(c)
  <2>1. tx'.box = tx.box
    BY <1>7, <1>13 DEF SdoBegin, SdoFill, TxBufferClear, TxRecord
  <2>2. AckHeld' => AckHeld
    BY <1>7, <1>13 DEF SdoBegin, SdoFill, SDOclientBegin, SDOclientFill, SdoRecord, AckHeld
  <2>3. OneWord'
    BY <1>1, <1>6, <2>1, <2>2, StaysQuiet DEF WordBoxes
  <2>4. StopFrames'
    BY <1>1, <2>1 DEF StopFrames
  <2>5. QED
    BY <1>8, <1>10, <1>11, <1>12, <2>3, <2>4
<1>14. CASE SdoSend(c)
  <2> DEFINE f == SdoFrame(sdo.txid, sdo.out)
  <2>1. Turn.step = "go"
    BY <1>14, TurnRuns DEF SdoSend
  <2>2. f = SdoFrame(Turn.b, i.arg)
    BY <1>5, <2>1 DEF ClientSet, BuffersOwn, i
  <2>3. f \in Frames /\ tx' = CANsend(tx, SdoBuffer, f)
    BY <1>7, <1>14, SdoFrameType DEF SdoSend
  <2>4. Loaded(tx, tx', f)
    BY <1>7, <2>3, SendLoads
  <2>5. WordBoxes = {} /\ ~AckHeld /\ \A m \in Motors : ~AckSent(m)
    BY <1>6 DEF OneWord
  <2>6. ~AckHeld' /\ \A m \in Motors : ~AckSent(m)'
    BY <1>1, <1>7, <1>14, <2>5 DEF SdoSend, SDOclientSend, SdoRecord, AckHeld, AckSent
  <2>7. StopFrames'
    <3>1. ~IsStop(f)
      BY DEF IsStop, SdoFrame
    <3>2. QED
      BY <1>1, <2>4, <3>1, LoadedStops
  <2> HIDE DEF f
  <2>8. /\ \A box \in WordBoxes' : tx'.box[box] = f /\ \A other \in WordBoxes' : other = box
        /\ WordBoxes' # {} => IsWord(f)
    <3>1. tx.box \in [Mailboxes -> Frames \cup {NoFrame}]
      BY <1>7 DEF TxRecord
    <3>2. QED
      BY <2>4, <2>5, <3>1 DEF Loaded, WordBoxes, IsWord
  <2>9. i.op = "read" => ~IsWord(f)
    <3>1. i.op = "read" => i.arg = "read"
      BY <1>4 DEF Instructions
    <3>2. "read" \notin Words
      BY SdoAssumption
    <3>3. QED
      BY <2>2, <3>1, <3>2 DEF IsWord, SdoFrame
  <2>10. OneWord'
    <3>1. ~Awaiting' => WordBoxes' = {}
      <4>1. t = "poll"
        BY <1>2, <1>3, <2>1
      <4>2. ~Awaiting' => i.op # "write"
        BY <1>8, <4>1 DEF Awaiting
      <4>3. QED
        BY <1>4, <2>8, <2>9, <4>2
    <3>2. \A box \in WordBoxes' : tx'.box[box] = SdoFrame(Turn'.b, Instruction(Turn').arg)
      BY <1>8, <2>2, <2>8
    <3>3. QED
      BY <2>6, <2>8, <3>1, <3>2 DEF OneWord
  <2>11. QED
    BY <1>8, <1>10, <1>11, <1>12, <2>7, <2>10
<1>15. QED
  BY <1>13, <1>14

\* A controlword is left only when its answer is there, so it was executed.
LEMMA PollExecuted ==
    ASSUME LockInv, NEW c \in Contexts, PollDownload(c), ctx' # ctx
    PROVE  /\ AckHeld /\ ToNextInstr(c)
           /\ Executed(Turn.b, Instruction(Turn).arg)
<1>1. SDOclientPoll(sdo, tx, "download").ret = "communicationEnd" /\ ToNextInstr(c)
  BY DEF PollDownload
<1>2. sdo \in SdoRecord /\ tx \in TxRecord(Frames)
  BY DEF LockInv, IInv, TypeOK
<1>3. AckHeld
  BY <1>1, <1>2, PollEffect DEF AckHeld
<1>4. QED
  BY <1>1, <1>3 DEF LockInv, OneWord

\* Send_SDO's loop keeps the invariant, whether or not the answer has come.
LEMMA PollLock ==
    ASSUME LockInv, NEW c \in Contexts, PollDownload(c)
    PROVE  HandlerLast' /\ Shared' /\ OneWord' /\ Drives'
<1> USE DEF LockInv, Shared, Drives
<1> DEFINE i == Instruction(Turn)
           f == SdoFrame(sdo.txid, "abort")
<1>1. /\ pin' = pin /\ drive' = drive /\ nmt' = nmt /\ reply' = reply
      /\ nmtData' = nmtData
  BY DEF PollDownload, motor
<1>2. /\ Runs(c, "poll") /\ Instr(c).op = "write"
      /\ ctx[c] = Turn /\ Turn.step = "poll" /\ Busy(Turn) /\ Turn \in CtxRecord
      /\ Instr(c) = i
  BY TurnRuns DEF PollDownload
<1>3. Turn.b \in Motors /\ Turn.k > 1 /\ i.node = Turn.b
  BY <1>2, BlockTable DEF Place, WritePlace
<1>4. /\ sdo \in SdoRecord /\ tx \in TxRecord(Frames)
      /\ sdo' = SDOclientPoll(sdo, tx, "download").sdo
      /\ tx' = SDOclientPoll(sdo, tx, "download").tx
  BY DEF PollDownload, IInv, TypeOK
<1>5. /\ sdo'.rx = sdo.rx /\ sdo'.prev = sdo.prev /\ sdo'.txid = sdo.txid
      /\ ~sdo'.new /\ Loaded(tx, tx', f)
  BY <1>4, PollEffect
<1>6. ~IsWord(f) /\ ~IsStop(f)
  BY SdoAssumption DEF IsWord, IsStop, SdoFrame
<1> HIDE DEF f, i
<1>7. \A box \in WordBoxes' : box \in WordBoxes /\ tx'.box[box] = tx.box[box]
  BY <1>5, <1>6, LoadedWords
<1>8. StopFrames' /\ StoppedIsShutDown' /\ ~AckHeld'
  BY <1>1, <1>5, <1>6, LoadedStops DEF StoppedIsShutDown, AckHeld
<1>9. sdo'.rx = Turn.b /\ sdo'.prev = sdo'.rx /\ sdo'.txid = sdo'.rx
  BY <1>2, <1>3, <1>5 DEF ClientSet
<1>10. CASE ctx' # ctx
  <2>1. AckHeld /\ ToNextInstr(c) /\ Executed(Turn.b, i.arg)
    BY <1>10, PollExecuted DEF i
  <2>2. /\ HandlerLast' /\ BuffersOwn' /\ Turn'.step # "tx" /\ ~Awaiting'
        /\ Turn'.k > 1 => Turn'.b = Turn.b
    BY <1>1, <1>2, <2>1, NextTurn DEF i
  <2>3. DrivesOff'
    BY <1>1, <1>2, <2>1, NextShutDown DEF i
  <2>4. WordBoxes' = {} /\ \A m \in Motors : ~AckSent(m)'
    <3>1. WordBoxes = {} /\ \A m \in Motors : ~AckSent(m)
      BY <2>1 DEF OneWord
    <3>2. QED
      BY <1>1, <1>7, <3>1 DEF AckSent
  <2>5. OneWord'
    BY <1>8, <2>4 DEF OneWord
  <2>6. ClientSet'
    BY <1>9, <2>2 DEF ClientSet
  <2>7. QED
    BY <1>8, <2>2, <2>3, <2>5, <2>6
<1>11. CASE ctx' = ctx
  <2>1. Zustand' = Zustand
    <3>1. ToNextInstr(c) => FALSE
      <4>1. ASSUME ToNextInstr(c) PROVE FALSE
        <5>1. Turn'.step # "poll"
          BY <1>1, <1>2, <4>1, NextTurn DEF i
        <5>2. Turn' = Turn
          BY <1>11 DEF Turn
        <5>3. QED
          BY <1>2, <5>1, <5>2
      <4>2. QED
        BY <4>1
    <3>2. QED
      BY <3>1 DEF PollDownload
  <2>2. Turn' = Turn
    BY <1>11 DEF Turn
  <2>3. HandlerLast'
    BY <1>1, <1>11, <2>1 DEF HandlerLast
  <2>4. Shared'
    BY <1>1, <1>2, <1>9, <2>2 DEF ClientSet, BuffersOwn
  <2>5. DrivesOff'
    BY <1>1, <2>1, <2>2, StayDrives
  <2>6. OneWord'
    <3>1. Awaiting' /\ Instruction(Turn') = i
      BY <1>2, <2>2 DEF Awaiting, i
    <3>2. \A m \in Motors : AckSent(m)' => AckSent(m) /\ m = Turn.b /\ Executed(m, i.arg)
      BY <1>1 DEF AckSent, OneWord, i
    <3>3. \A box \in WordBoxes' : /\ tx'.box[box] = SdoFrame(Turn'.b, i.arg)
                                  /\ \A other \in WordBoxes' : other = box
                                  /\ \A m \in Motors : ~AckSent(m)'
      BY <1>1, <1>7, <2>2 DEF OneWord, AckSent, i
    <3>4. QED
      BY <1>1, <1>8, <2>2, <3>1, <3>2, <3>3 DEF OneWord, Executed
  <2>7. QED
    BY <1>8, <2>3, <2>4, <2>5, <2>6
<1>12. QED
  BY <1>10, <1>11

-----------------------------------------------------------------------------
(* The steps of main and of the interrupt outside the routines. *)

\* Where the routines begin.
LEMMA FirstPlace ==
    /\ \A p \in {"stop", "reset"} :
         /\ At(p, 0, 1).proc = p /\ At(p, 0, 1).b = 0 /\ At(p, 0, 1).k = 1
         /\ At(p, 0, 1).step = "command"
    /\ \A m \in Motors :
         /\ At("detect", m, 1).proc = "detect" /\ At("detect", m, 1).b = m
         /\ At("detect", m, 1).k = 1 /\ At("detect", m, 1).step = "rx"
<1>1. /\ Block("stop", 0)[1].op = "nmt" /\ Block("reset", 0)[1].op = "nmt"
      /\ \A m \in Motors : Block("detect", m)[1].op = "setup"
  BY DEF Block, Nmt, DetectMotor, Start_SDO_Communication
<1>2. QED
  BY <1>1 DEF At, FirstStep

\* main asks for the next statusword, starts the motors after the detection,
\* and the interrupt begins the routine the pin calls for.
LEMMA MainTurn ==
    ASSUME IInv, HandlerLast
    PROVE  /\ PollUpload =>
                /\ Turn.proc = "detect" /\ Turn.step = "poll" /\ Instruction(Turn).op = "read"
                /\ \/ Turn' = Resting("wait")
                   \/ \E m \in Motors : Turn' = At("detect", m, 1)
           /\ StartMotors => Turn = Resting("wait") /\ Turn' = At("reset", 0, 1)
           /\ TIM3_IRQHandler =>
                /\ Turn = Resting("loop")
                /\ \/ pin /\ ~Zustand /\ Turn' = At("stop", 0, 1)
                   \/ ~pin /\ Zustand /\ Turn' = At("reset", 0, 1)
           /\ PollUpload \/ StartMotors \/ TIM3_IRQHandler => HandlerLast'
<1>1. /\ ctx \in [Contexts -> CtxRecord] /\ "main" \in Contexts /\ "tim3" \in Contexts
      /\ Zustand \in BOOLEAN /\ pin \in BOOLEAN
  BY DEF IInv, TypeOK, CtxRecord, Contexts
<1>2. ASSUME PollUpload
      PROVE  /\ Turn.proc = "detect" /\ Turn.step = "poll" /\ Instruction(Turn).op = "read"
             /\ \/ Turn' = Resting("wait")
                \/ \E m \in Motors : Turn' = At("detect", m, 1)
             /\ HandlerLast'
  <2>1. /\ Runs("main", "poll") /\ Instr("main").op = "read"
        /\ ctx["main"] = Turn /\ Turn.step = "poll" /\ Busy(Turn)
        /\ Instr("main") = Instruction(Turn) /\ ctx["tim3"].proc = "idle"
    BY <1>1, <1>2, TurnRuns DEF PollUpload
  <2>2. Turn.proc = "detect" /\ ~Zustand /\ ~pin
    <3>1. Turn.proc = "detect"
      BY <2>1, BlockTable DEF Place, ReadPlace
    <3>2. QED
      BY <2>1, <3>1 DEF HandlerLast
  <2>3. \/ ctx' = [ctx EXCEPT !["main"] = Resting("wait")]
        \/ \E m \in Motors : ctx' = [ctx EXCEPT !["main"] = At("detect", m, 1)]
    BY <1>2 DEF PollUpload
  <2>4. ctx'["tim3"] = ctx["tim3"] /\ ctx'["main"] = Turn'
    BY <1>1, <2>1, <2>3 DEF Turn
  <2>5. \/ Turn' = Resting("wait")
        \/ \E m \in Motors : Turn' = At("detect", m, 1)
    BY <1>1, <2>3, <2>4
  <2>6. Turn'.proc \in {"detect", "wait"} /\ (Turn'.proc = "wait" => Turn' = Resting("wait"))
    BY <2>5, FirstPlace DEF Resting
  <2>7. pin' = pin /\ Zustand' = Zustand
    BY <1>2 DEF PollUpload
  <2>8. HandlerLast'
    BY <2>1, <2>2, <2>4, <2>6, <2>7 DEF HandlerLast
  <2>9. QED
    BY <2>1, <2>2, <2>5, <2>8
<1>3. ASSUME StartMotors
      PROVE  Turn = Resting("wait") /\ Turn' = At("reset", 0, 1) /\ HandlerLast'
  <2>1. /\ ctx' = [ctx EXCEPT !["main"] = At("reset", 0, 1)]
        /\ ctx["main"].proc = "wait" /\ ctx["tim3"].proc = "idle"
        /\ pin' = pin /\ Zustand' = Zustand
    BY <1>3 DEF StartMotors
  <2>2. Turn' = At("reset", 0, 1) /\ Turn = Resting("wait")
    BY <1>1, <2>1 DEF Turn, HandlerLast
  <2>3. HandlerLast'
    BY <1>1, <2>1, FirstPlace DEF HandlerLast
  <2>4. QED
    BY <2>2, <2>3
<1>4. ASSUME TIM3_IRQHandler
      PROVE  /\ Turn = Resting("loop") /\ HandlerLast'
             /\ \/ pin /\ ~Zustand /\ Turn' = At("stop", 0, 1)
                \/ ~pin /\ Zustand /\ Turn' = At("reset", 0, 1)
  <2> DEFINE q == IF pin THEN "stop" ELSE "reset"
  <2>1. /\ ctx' = [ctx EXCEPT !["tim3"] = At(q, 0, 1)] /\ pin # Zustand
        /\ ctx["tim3"].proc = "idle" /\ pin' = pin /\ Zustand' = Zustand
    BY <1>4 DEF TIM3_IRQHandler
  <2>2. \/ pin /\ ~Zustand /\ q = "stop"
        \/ ~pin /\ Zustand /\ q = "reset"
    BY <1>1, <2>1
  <2> HIDE DEF q
  <2>3. ctx'["tim3"].proc = q /\ ctx'["tim3"] = At(q, 0, 1) /\ ctx'["main"] = ctx["main"]
    BY <1>1, <2>1, <2>2, FirstPlace
  <2>4. Turn' = At(q, 0, 1)
    BY <2>2, <2>3 DEF Turn
  <2>5. ctx["main"].proc = "loop" /\ Turn = Resting("loop")
    BY <1>1, <2>1 DEF HandlerLast, Turn
  <2>6. HandlerLast'
    BY <2>2, <2>3, <2>5 DEF HandlerLast
  <2>7. QED
    BY <2>2, <2>4, <2>5, <2>6
<1>5. QED
  BY <1>2, <1>3, <1>4

\* The steps of main and of the interrupt outside the routines keep the
\* invariant.
LEMMA MainLock ==
    ASSUME LockInv, PollUpload \/ StartMotors \/ TIM3_IRQHandler
    PROVE  HandlerLast' /\ Shared' /\ OneWord' /\ Drives'
<1> USE DEF LockInv, Shared, Drives
<1>1. /\ drive' = drive /\ nmt' = nmt /\ reply' = reply
      /\ nmtData' = nmtData /\ Zustand' = Zustand
  BY DEF PollUpload, StartMotors, TIM3_IRQHandler, motor
<1>2. HandlerLast' /\ sdo \in SdoRecord /\ tx \in TxRecord(Frames)
  BY MainTurn DEF IInv, TypeOK
<1>3. CASE PollUpload
  <2> DEFINE f == SdoFrame(sdo.txid, "abort")
  <2>1. /\ sdo' = SDOclientPoll(sdo, tx, "upload").sdo
        /\ tx' = SDOclientPoll(sdo, tx, "upload").tx
    BY <1>3 DEF PollUpload
  <2>2. /\ sdo'.rx = sdo.rx /\ sdo'.prev = sdo.prev /\ sdo'.txid = sdo.txid
        /\ ~sdo'.new /\ Loaded(tx, tx', f)
    BY <1>2, <2>1, PollEffect
  <2>3. ~IsWord(f) /\ ~IsStop(f)
    BY SdoAssumption DEF IsWord, IsStop, SdoFrame
  <2> HIDE DEF f
  <2>4. /\ Turn.proc = "detect" /\ Turn.step = "poll" /\ Instruction(Turn).op = "read"
        /\ Turn'.step \in {"rx", "none"} /\ Turn'.k = 1
    <3>1. /\ Turn.proc = "detect" /\ Turn.step = "poll" /\ Instruction(Turn).op = "read"
          /\ \/ Turn' = Resting("wait")
             \/ \E m \in Motors : Turn' = At("detect", m, 1)
      BY <1>3, MainTurn
    <3>2. QED
      BY <3>1, FirstPlace DEF Resting
  <2>5. Shared'
    BY <2>2, <2>4 DEF ClientSet, BuffersOwn
  <2>6. OneWord'
    <3>1. ~Awaiting
      BY <2>4 DEF Awaiting
    <3>2. WordBoxes' \subseteq WordBoxes
      BY <2>2, <2>3, LoadedWords
    <3>3. QED
      BY <1>1, <2>2, <3>1, <3>2, StaysQuiet DEF AckHeld
  <2>7. DrivesOff'
    BY <1>1, <2>4 DEF DrivesOff, ShutDown
  <2>8. StopFrames' /\ StoppedIsShutDown'
    BY <1>1, <2>2, <2>3, LoadedStops DEF StoppedIsShutDown
  <2>9. QED
    BY <1>2, <2>5, <2>6, <2>7, <2>8
<1>4. CASE StartMotors \/ TIM3_IRQHandler
  <2>1. sdo' = sdo /\ tx' = tx
    BY <1>4 DEF StartMotors, TIM3_IRQHandler
  <2>2. PICK p \in {"stop", "reset"} :
           /\ Turn' = At(p, 0, 1) /\ Turn \in {Resting("wait"), Resting("loop")}
           /\ p = "reset" => \A m \in Motors : ShutDown(m)
    BY <1>4, MainTurn DEF ShutDown, Resting
  <2>3. Turn.step = "none" /\ Turn.k = 1
    BY <2>2 DEF Resting
  <2>4. Turn'.proc = p /\ Turn'.b = 0 /\ Turn'.k = 1 /\ Turn'.step = "command"
    BY <2>2, FirstPlace
  <2>5. Shared'
    BY <2>1, <2>3, <2>4 DEF ClientSet, BuffersOwn
  <2>6. OneWord'
    <3>1. ~Awaiting
      BY <2>3 DEF Awaiting
    <3>2. QED
      BY <1>1, <2>1, <3>1, StaysQuiet DEF AckHeld, WordBoxes
  <2>7. DrivesOff'
    <3>1. CASE p = "reset"
      BY <1>1, <2>2, <3>1 DEF DrivesOff
    <3>2. CASE p = "stop"
      BY <2>4, <3>2, NodeType DEF DrivesOff, ShutDown, Motors
    <3>3. QED
      BY <3>1, <3>2
  <2>8. StopFrames' /\ StoppedIsShutDown'
    BY <1>1, <2>1 DEF StopFrames, StoppedIsShutDown
  <2>9. QED
    BY <1>2, <2>5, <2>6, <2>7, <2>8
<1>5. QED
  BY <1>3, <1>4

-----------------------------------------------------------------------------
(* The steps of the bus, the motors and the curtain. *)

\* A controlword that is served is the running instruction's, and is answered;
\* any other delivery changes no drive and sends no acknowledgement.
LEMMA WordServed ==
    ASSUME LockInv, NEW box \in Mailboxes, SdoDelivered(box)
    PROVE  LET w == Instruction(Turn).arg IN
           \/ drive' = drive /\ \A m \in Motors : AckSent(m)' => AckSent(m)
           \/ /\ Awaiting /\ Turn.b \in Motors /\ nmt[Turn.b] # "stopped"
              /\ WordBoxes' = {} /\ ~AckHeld
              /\ drive' = [drive EXCEPT ![Turn.b] = DriveAfter(@, w)]
              /\ \A m \in Motors : AckSent(m)' => m = Turn.b
<1> USE DEF LockInv
<1> DEFINE f == tx.box[box]
           w == Instruction(Turn).arg
<1>1. /\ tx \in TxRecord(Frames) /\ tx.box \in [Mailboxes -> Frames \cup {NoFrame}]
      /\ drive \in [Motors -> DriveStates] /\ reply \in [Motors -> Answers \cup {"none"}]
      /\ power \subseteq Motors
  BY DEF IInv, TypeOK, TxRecord
<1>2. /\ f # NoFrame /\ f \in Frames /\ NoNmtWaits
      /\ \A m \in Motors : reply[m] = "none"
      /\ tx' = MailboxDone(tx, box)
      /\ \/ f.node \in power /\ nmt[f.node] # "stopped" /\ Serve(f.node, f.what)
         \/ UNCHANGED <<drive, reply>>
  BY <1>1 DEF SdoDelivered
<1>3. f.kind = "sdo"
  BY <1>2 DEF NoNmtWaits, Frames
<1>4. CASE UNCHANGED <<drive, reply>>
  BY <1>4 DEF AckSent
<1>5. CASE f.node \in power /\ nmt[f.node] # "stopped" /\ Serve(f.node, f.what) /\ f.what \notin Words
  <2>1. drive' = drive /\ (reply' = reply \/ \E a \in {"value", "abort"} : reply' = [reply EXCEPT ![f.node] = a])
    BY <1>5 DEF Serve
  <2>2. QED
    BY <1>1, <2>1 DEF AckSent
<1>6. CASE f.node \in power /\ nmt[f.node] # "stopped" /\ Serve(f.node, f.what) /\ f.what \in Words
  <2>1. box \in WordBoxes
    BY <1>2, <1>3, <1>6 DEF WordBoxes
  <2>2. Awaiting /\ ~AckHeld /\ f = SdoFrame(Turn.b, w) /\ \A other \in WordBoxes : other = box
    BY <2>1 DEF OneWord
  <2>3. f.node = Turn.b /\ f.what = w
    BY <2>2 DEF SdoFrame
  <2>4. WordBoxes' = {}
    <3>1. \A k \in Mailboxes : tx'.box[k] = IF k = box THEN NoFrame ELSE tx.box[k]
      BY <1>1, <1>2 DEF MailboxDone, TxRecord
    <3>2. QED
      BY <2>2, <3>1 DEF WordBoxes
  <2>5. Turn.b \in Motors /\ nmt[Turn.b] # "stopped"
    BY <1>1, <1>6, <2>3
  <2>6. w \in Words /\ Serve(Turn.b, w)
    BY <1>6, <2>3
  <2> HIDE DEF w, f
  <2>7. w # "read" /\ w # "zero" /\ w # "abort"
    BY <2>6, SdoAssumption
  <2>8. \/ /\ drive' = [drive EXCEPT ![Turn.b] = DriveAfter(@, w)]
           /\ reply' = [reply EXCEPT ![Turn.b] = "ack"]
        \/ drive' = drive /\ reply' = [reply EXCEPT ![Turn.b] = "abort"]
    BY <2>6, <2>7 DEF Serve
  <2>9. CASE drive' = drive /\ reply' = [reply EXCEPT ![Turn.b] = "abort"]
    BY <1>1, <2>5, <2>9 DEF AckSent
  <2>10. CASE /\ drive' = [drive EXCEPT ![Turn.b] = DriveAfter(@, w)]
             /\ reply' = [reply EXCEPT ![Turn.b] = "ack"]
    <3>1. \A m \in Motors : AckSent(m)' => m = Turn.b
      BY <1>1, <1>2, <2>10 DEF AckSent
    <3>2. QED
      BY <2>2, <2>4, <2>5, <2>10, <3>1 DEF w
  <2>11. QED
    BY <2>8, <2>9, <2>10
<1>7. QED
  BY <1>2, <1>4, <1>5, <1>6

\* What the instruction that awaits an answer writes.
LEMMA AwaitingPlace ==
    ASSUME IInv, HandlerLast, Awaiting
    PROVE  /\ Turn \in CtxRecord /\ Busy(Turn) /\ Turn.b \in Motors
           /\ Instruction(Turn).node = Turn.b /\ Instruction(Turn).op = "write"
           /\ \/ Turn.proc = "stop" /\ Turn.k = 2 /\ Instruction(Turn).arg = "Shutdown"
              \/ /\ Turn.proc = "reset"
                 /\ \/ Turn.k = 2 /\ Instruction(Turn).arg = "DisableVoltage"
                    \/ Turn.k = 3 /\ Instruction(Turn).arg = "Shutdown"
                    \/ Turn.k = 4 /\ Instruction(Turn).arg = "SwitchOn"
                    \/ Turn.k = 5 /\ Instruction(Turn).arg = "EnableOperation"
<1>1. Turn \in CtxRecord /\ Busy(Turn)
  BY TurnType DEF Awaiting, Resting
<1>2. QED
  BY <1>1, BlockTable DEF Awaiting, Place, WritePlace

\* Executing a controlword a second time changes nothing.
LEMMA DriveAfterTwice ==
    ASSUME NEW d, NEW w \in {"DisableVoltage", "Shutdown", "SwitchOn", "EnableOperation"}
    PROVE  DriveAfter(DriveAfter(d, w), w) = DriveAfter(d, w)
  BY DEF DriveAfter

\* The bus takes a frame.
LEMMA BusLock ==
    ASSUME LockInv, NEW box \in Mailboxes, NmtDelivered(box) \/ SdoDelivered(box)
    PROVE  HandlerLast' /\ Shared' /\ OneWord' /\ Drives'
<1> USE DEF LockInv, Shared, Drives
<1>1. /\ pin' = pin /\ Zustand' = Zustand /\ ctx' = ctx /\ sdo' = sdo /\ nmtData' = nmtData
      /\ tx' = MailboxDone(tx, box)
  BY DEF NmtDelivered, SdoDelivered
<1>2. /\ tx.box \in [Mailboxes -> Frames \cup {NoFrame}] /\ tx \in TxRecord(Frames)
      /\ drive \in [Motors -> DriveStates] /\ nmt \in [Motors -> NmtCommands]
  BY DEF IInv, TypeOK, TxRecord
<1>3. \A k \in Mailboxes : tx'.box[k] = IF k = box THEN NoFrame ELSE tx.box[k]
  BY <1>1, <1>2 DEF MailboxDone, TxRecord
<1>4. Turn' = Turn
  BY <1>1 DEF Turn
<1>5. HandlerLast' /\ Shared'
  BY <1>1, <1>4 DEF HandlerLast, ClientSet, BuffersOwn
<1>6. \A k \in WordBoxes' : k \in WordBoxes /\ tx'.box[k] = tx.box[k]
  BY <1>3 DEF WordBoxes
<1>7. AckHeld' = AckHeld /\ Awaiting' = Awaiting /\ Instruction(Turn') = Instruction(Turn)
  BY <1>1, <1>4 DEF AckHeld, Awaiting
<1>8. CASE NmtDelivered(box)
  <2> DEFINE f == tx.box[box]
  <2>1. /\ drive' = drive /\ reply' = reply /\ f # NoFrame /\ f.kind = "nmt"
        /\ nmt' = [m \in Motors |-> IF m \in power /\ f.node \in {m, AllNodes}
                                    THEN f.what ELSE nmt[m]]
    BY <1>8 DEF NmtDelivered
  <2>2. OneWord'
    BY <1>4, <1>6, <1>7, <2>1 DEF OneWord, AckSent, Executed
  <2>3. DrivesOff' /\ StopFrames'
    BY <1>1, <1>3, <1>4, <2>1 DEF DrivesOff, ShutDown, StopFrames
  <2>4. StoppedIsShutDown'
    <3>1. SUFFICES ASSUME NEW m \in Motors, nmt'[m] = "stopped" PROVE drive[m] # "enabled"
      BY <2>1 DEF StoppedIsShutDown
    <3>2. CASE nmt[m] = "stopped"
      BY <3>2 DEF StoppedIsShutDown
    <3>3. CASE nmt[m] # "stopped"
      <4>1. f.node \in {m, AllNodes} /\ f.what = "stopped"
        BY <2>1, <3>1, <3>3
      <4>2. QED
        BY <2>1, <4>1 DEF StopFrames
    <3>4. QED
      BY <3>2, <3>3
  <2>5. QED
    BY <1>5, <2>2, <2>3, <2>4
<1>9. CASE SdoDelivered(box)
  <2> DEFINE w == Instruction(Turn).arg
  <2>1. nmt' = nmt /\ NoNmtWaits
    BY <1>9 DEF SdoDelivered
  <2>2. StopFrames'
    BY <1>3, <2>1 DEF NoNmtWaits, StopFrames
  <2>3. CASE drive' = drive /\ \A m \in Motors : AckSent(m)' => AckSent(m)
    <3>1. OneWord'
      BY <1>4, <1>6, <1>7, <2>3 DEF OneWord, Executed
    <3>2. DrivesOff' /\ StoppedIsShutDown'
      BY <1>1, <1>4, <2>1, <2>3 DEF DrivesOff, ShutDown, StoppedIsShutDown
    <3>3. QED
      BY <1>5, <2>2, <3>1, <3>2
  <2>4. CASE /\ Awaiting /\ Turn.b \in Motors /\ nmt[Turn.b] # "stopped"
             /\ WordBoxes' = {} /\ ~AckHeld
             /\ drive' = [drive EXCEPT ![Turn.b] = DriveAfter(@, w)]
             /\ \A m \in Motors : AckSent(m)' => m = Turn.b
    <3>1. w \in {"DisableVoltage", "Shutdown", "SwitchOn", "EnableOperation"}
      BY <2>4, AwaitingPlace
    <3>2. drive'[Turn.b] = DriveAfter(drive[Turn.b], w)
          /\ \A m \in Motors : m # Turn.b => drive'[m] = drive[m]
      BY <1>2, <2>4
    <3>3. drive'[Turn.b] = DriveAfter(drive'[Turn.b], w)
      BY <3>1, <3>2, DriveAfterTwice
    <3>4. OneWord'
      BY <1>4, <1>7, <2>4, <3>3 DEF OneWord, Executed
    <3>5. ASSUME w # "EnableOperation" PROVE drive'[Turn.b] # "enabled"
      BY <3>1, <3>2, <3>5 DEF DriveAfter
    <3>6. ShutDown(Turn.b) => w # "EnableOperation"
      BY <2>4, AwaitingPlace DEF ShutDown, CtxRecord
    <3>7. DrivesOff'
      BY <1>1, <1>4, <3>2, <3>5, <3>6 DEF DrivesOff, ShutDown
    <3>8. StoppedIsShutDown'
      BY <2>1, <2>4, <3>2 DEF StoppedIsShutDown
    <3>9. QED
      BY <1>5, <2>2, <3>4, <3>7, <3>8
  <2>5. QED
    BY <1>9, <2>3, <2>4, WordServed
<1>10. QED
  BY <1>8, <1>9

\* Answers, voltage and the curtain keep the invariant.
LEMMA WorldLock ==
    ASSUME LockInv, Scope,
           \/ \E m \in Motors : AnswerReceived(m) \/ PowerUp(m) \/ PowerLost(m)
           \/ CurtainChanges
    PROVE  HandlerLast' /\ Shared' /\ OneWord' /\ Drives'
<1> USE DEF LockInv, Shared, Drives
<1>1. /\ Zustand' = Zustand /\ ctx' = ctx /\ nmtData' = nmtData /\ tx' = tx
  BY DEF AnswerReceived, PowerUp, PowerLost, CurtainChanges, code
<1>2. /\ drive \in [Motors -> DriveStates] /\ nmt \in [Motors -> NmtCommands]
      /\ reply \in [Motors -> Answers \cup {"none"}] /\ sdo \in SdoRecord
  BY DEF IInv, TypeOK
<1>3. Turn' = Turn
  BY <1>1 DEF Turn
<1>4. WordBoxes' = WordBoxes /\ Awaiting' = Awaiting /\ Instruction(Turn') = Instruction(Turn)
  BY <1>1, <1>3 DEF WordBoxes, Awaiting
<1>5. ASSUME NEW m \in Motors, AnswerReceived(m)
      PROVE  HandlerLast' /\ Shared' /\ OneWord' /\ Drives'
  <2>1. /\ pin' = pin /\ drive' = drive /\ nmt' = nmt
        /\ sdo' \in {sdo, SDOclient_receive(sdo, reply[m])}
        /\ reply' = [reply EXCEPT ![m] = "none"]
    BY <1>5 DEF AnswerReceived
  <2>2. sdo'.rx = sdo.rx /\ sdo'.prev = sdo.prev /\ sdo'.txid = sdo.txid /\ sdo'.out = sdo.out
    BY <1>2, <2>1 DEF SDOclient_receive, SdoRecord
  <2>3. AckHeld' => AckHeld \/ AckSent(m)
    BY <1>2, <2>1 DEF SDOclient_receive, SdoRecord, AckHeld, AckSent
  <2>4. \A n \in Motors : AckSent(n)' => AckSent(n) /\ n # m
    BY <1>2, <2>1 DEF AckSent
  <2>5. HandlerLast' /\ Shared'
    BY <1>1, <1>3, <2>1, <2>2 DEF HandlerLast, ClientSet, BuffersOwn
  <2>6. OneWord'
    <3>1. AckHeld' => Awaiting /\ WordBoxes = {} /\ Executed(Turn.b, Instruction(Turn).arg)
                      /\ \A n \in Motors : ~AckSent(n)'
      BY <2>3, <2>4 DEF OneWord
    <3>2. QED
      BY <1>1, <1>3, <1>4, <2>1, <2>4, <3>1 DEF OneWord, Executed
  <2>7. Drives'
    BY <1>1, <1>3, <2>1 DEF DrivesOff, ShutDown, StopFrames, StoppedIsShutDown
  <2>8. QED
    BY <2>5, <2>6, <2>7
<1>6. ASSUME NEW m \in Motors, PowerUp(m) \/ PowerLost(m)
      PROVE  HandlerLast' /\ Shared' /\ OneWord' /\ Drives'
  <2>1. /\ pin' = pin /\ sdo' = sdo
        /\ \A n \in Motors :
              \/ drive'[n] = drive[n] /\ nmt'[n] = nmt[n] /\ reply'[n] = reply[n]
              \/ n \in Faulty /\ drive'[n] = "disabled" /\ nmt'[n] = "preop" /\ reply'[n] = "none"
    BY <1>2, <1>6 DEF PowerUp, PowerLost, code
  <2>2. HandlerLast' /\ Shared'
    BY <1>1, <1>3, <2>1 DEF HandlerLast, ClientSet, BuffersOwn
  <2>3. \A n \in Motors : AckSent(n)' => AckSent(n)
    BY <2>1 DEF AckSent
  <2>4. Awaiting => Turn.b \in Motors
    BY AwaitingPlace
  <2>5. OneWord'
    <3>1. ASSUME NEW n \in Motors, NEW w, Executed(n, w)
          PROVE  drive'[n] = DriveAfter(drive'[n], w) \/ (n \in Faulty /\ drive'[n] = "disabled")
      <4>1. CASE drive'[n] = drive[n]
        BY <3>1, <4>1 DEF Executed
      <4>2. CASE n \in Faulty /\ drive'[n] = "disabled"
        BY <4>2
      <4>3. QED
        BY <2>1, <4>1, <4>2
    <3>2. AckHeld' = AckHeld
      BY <2>1 DEF AckHeld
    <3>3. AckHeld => Awaiting
      BY DEF OneWord
    <3>4. QED
      BY <1>1, <1>3, <1>4, <2>3, <2>4, <3>1, <3>2, <3>3 DEF OneWord, Executed
  <2>6. Drives'
    BY <1>1, <1>3, <2>1 DEF DrivesOff, ShutDown, StopFrames, StoppedIsShutDown
  <2>7. QED
    BY <2>2, <2>5, <2>6
<1>7. ASSUME CurtainChanges
      PROVE  HandlerLast' /\ Shared' /\ OneWord' /\ Drives'
  <2>1. /\ sdo' = sdo /\ drive' = drive /\ nmt' = nmt /\ reply' = reply
        /\ ctx["main"].proc = "loop"
    BY <1>7 DEF CurtainChanges, code, motor, Scope
  <2>2. QED
    BY <1>1, <1>3, <1>4, <2>1
    DEF HandlerLast, ClientSet, BuffersOwn, OneWord, AckHeld, AckSent, Executed,
        DrivesOff, ShutDown, StopFrames, StoppedIsShutDown
<1>8. QED
  BY <1>5, <1>6, <1>7

-----------------------------------------------------------------------------
(* The invariant, and what follows from it. *)

\* The invariant holds when both timers have been started.
LEMMA InitLock == Scope /\ Init => LockInv
<1> SUFFICES ASSUME Scope, Init PROVE LockInv
  OBVIOUS
<1>1. IInv /\ 1 \in Motors
  BY InitIInv, NodeType DEF Motors
<1>2. /\ ctx["main"] = At("detect", 1, 1) /\ ctx["tim3"] = Resting("idle")
      /\ Turn = At("detect", 1, 1)
  BY DEF Init, Turn, Resting
<1>3. Turn.proc = "detect" /\ Turn.b = 1 /\ Turn.k = 1 /\ Turn.step = "rx"
  BY <1>1, <1>2, FirstPlace
<1>4. /\ sdo = SDOclient_init /\ ~Zustand /\ ~pin
      /\ \A box \in Mailboxes : tx.box[box] = NoFrame
      /\ \A m \in Motors : reply[m] = "none" /\ drive[m] = "disabled"
  BY DEF Init, CANmodule_init
<1>5. HandlerLast
  BY <1>2, <1>3, <1>4 DEF HandlerLast, Resting
<1>6. Shared
  BY <1>3, <1>4 DEF Shared, ClientSet, BuffersOwn, SDOclient_init
<1>7. OneWord
  <2>1. WordBoxes = {} /\ ~AckHeld /\ \A m \in Motors : ~AckSent(m)
    BY <1>4 DEF WordBoxes, AckHeld, AckSent, SDOclient_init
  <2>2. QED
    BY <2>1 DEF OneWord
<1>8. Drives
  BY <1>4 DEF Drives, DrivesOff, StopFrames, StoppedIsShutDown
<1>9. QED
  BY <1>1, <1>5, <1>6, <1>7, <1>8 DEF LockInv

\* The steps of the routines keep the invariant.
LEMMA StepLock ==
    ASSUME LockInv, NEW c \in Contexts, Step(c)
    PROVE  HandlerLast' /\ Shared' /\ OneWord' /\ Drives'
<1>1. CASE NmtCommand(c) \/ NmtNode(c) \/ NmtSend(c)
  BY <1>1, NmtLock
<1>2. CASE SetupRx(c) \/ SetupTx(c)
  BY <1>2, SetupLock
<1>3. CASE SdoBegin(c) \/ SdoFill(c) \/ SdoSend(c)
  BY <1>3, SdoLock
<1>4. CASE PollDownload(c)
  BY <1>4, PollLock
<1>5. QED
  BY <1>1, <1>2, <1>3, <1>4 DEF Step

\* With the world as Scope says no step leaves the invariant.
LEMMA NextLock == Scope /\ LockInv /\ [Next]_vars => LockInv'
<1> SUFFICES ASSUME Scope, LockInv, [Next]_vars PROVE LockInv'
  OBVIOUS
<1>1. IInv'
  BY NextIInv DEF LockInv
<1>2. SUFFICES HandlerLast' /\ Shared' /\ OneWord' /\ Drives'
  BY <1>1 DEF LockInv
<1>3. CASE \E c \in Contexts : Step(c)
  BY <1>3, StepLock
<1>4. CASE PollUpload \/ StartMotors \/ TIM3_IRQHandler
  BY <1>4, MainLock
<1>5. CASE CommunicationReset
  BY <1>5 DEF CommunicationReset, Scope
<1>6. CASE Bus
  BY <1>6, BusLock, WorldLock DEF Bus
<1>7. CASE \/ \E m \in Motors : PowerUp(m) \/ PowerLost(m)
           \/ CurtainChanges
  BY <1>7, WorldLock
<1>8. CASE UNCHANGED vars
  BY <1>8
  DEF vars, code, motor, LockInv, HandlerLast, Shared, ClientSet, BuffersOwn, OneWord,
      WordBoxes, Awaiting, AckHeld, AckSent, Executed, Drives, DrivesOff, ShutDown,
      StopFrames, StoppedIsShutDown, Turn
<1>9. QED
  BY <1>3, <1>4, <1>5, <1>6, <1>7, <1>8 DEF Next

\* The invariant holds of every reachable state.
LEMMA LockHolds == Scope => (Spec => []LockInv)
<1> SUFFICES ASSUME Scope PROVE Spec => []LockInv
  OBVIOUS
<1>1. Init => LockInv
  BY InitLock
<1>2. LockInv /\ [Next]_vars => LockInv'
  BY NextLock
<1>3. QED
  BY <1>1, <1>2, PTL DEF Spec

\* No motor is NMT-stopped while its drive is in operation enabled, because no
\* command that stops a motor is on its way before its Shutdown was executed
\* (the order of Stop_Motor), and none that enables a drive after it.
THEOREM LockStopsAfterShutdown == Scope => (Spec => []StoppedIsShutDown)
<1>1. LockInv => StoppedIsShutDown
  BY DEF LockInv, Drives
<1>2. QED
  BY <1>1, LockHolds, PTL

\* Once the handler has set Zustand no drive is in operation enabled, even if
\* motors lose their voltage, come back and refuse controlwords.
THEOREM LockEngaged == Scope => (Spec => []EngagedMeansNotEnabled)
<1>1. LockInv => EngagedMeansNotEnabled
  <2> SUFFICES ASSUME LockInv, ctx["tim3"].proc = "idle", Zustand, NEW m \in Motors
               PROVE  drive[m] # "enabled"
    BY DEF EngagedMeansNotEnabled
  <2>1. Turn.proc = "loop"
    BY DEF LockInv, HandlerLast, Turn
  <2>2. QED
    BY <2>1 DEF LockInv, Drives, DrivesOff, ShutDown
<1>2. QED
  BY <1>1, LockHolds, PTL

-----------------------------------------------------------------------------
(***************************************************************************)
(* Motors that do not fail: each controlword is executed before the        *)
(* controller goes on, so that the drives and the NMT states follow        *)
(* Zustand, and the controller keeps the promise of Interlock.tla.  As     *)
(* before, nothing is assumed of the speed of the bus, of how many motors  *)
(* have no voltage at the start, or of the mailboxes.                      *)
(***************************************************************************)


\* The world of InterlockProofs, and motors that neither lose their voltage
\* nor refuse a request.
Sound == Scope /\ Faulty = {}

\* A context moves on from a controlword only by the poll that finds its answer.
LEMMA LeavesPoll ==
    ASSUME Scope, LockInv, [Next]_vars, NEW c \in Contexts,
           ctx[c].step = "poll", Instr(c).op = "write", ctx'[c] # ctx[c]
    PROVE  PollDownload(c)
<1>1. ctx \in [Contexts -> CtxRecord] /\ Busy(ctx[c])
  BY DEF LockInv, IInv, TypeOK, CtxRecord, CtxOK, AtRest
<1>2. ctx[c].proc \notin {"wait", "loop", "idle"}
  BY <1>1 DEF Busy
<1>3. ASSUME NEW d \in Contexts, Step(d)
      PROVE  PollDownload(c)
  <2>1. d = c
    BY <1>1, <1>3
    DEF Step, NmtCommand, NmtNode, NmtSend, SetupRx, SetupTx, SdoBegin, SdoFill, SdoSend,
        PollDownload, ToStep, ToNextInstr
  <2>2. QED
    BY <1>3, <2>1
    DEF Step, NmtCommand, NmtNode, NmtSend, SetupRx, SetupTx, SdoBegin, SdoFill, SdoSend, Runs
<1>4. ~PollUpload /\ ~StartMotors /\ ~CommunicationReset /\ ~TIM3_IRQHandler
  BY <1>1, <1>2 DEF PollUpload, StartMotors, CommunicationReset, TIM3_IRQHandler, Scope, Contexts
<1>5. ~Bus
  BY DEF Bus, NmtDelivered, SdoDelivered, AnswerReceived
<1>6. ~CurtainChanges /\ \A m \in Motors : ~PowerUp(m) /\ ~PowerLost(m)
  BY DEF CurtainChanges, PowerUp, PowerLost, code
<1>7. ~UNCHANGED vars
  BY DEF vars, code
<1>8. QED
  BY <1>3, <1>4, <1>5, <1>6, <1>7 DEF Next

\* Send_SDO returns only after the motor has executed the controlword: no
\* answer to an earlier request, or of another motor, is taken for its own.
THEOREM LockWordIsExecuted == Sound => (Spec => WordIsExecuted)
<1> SUFFICES ASSUME Sound PROVE Spec => WordIsExecuted
  OBVIOUS
<1> DEFINE Done(c) == ctx[c].step = "poll" /\ Instr(c).op = "write" /\ ctx'[c] # ctx[c] =>
                        drive[Instr(c).node] = DriveAfter(drive[Instr(c).node], Instr(c).arg)
<1>1. LockInv /\ [Next]_vars => [\A c \in Contexts : Done(c)]_vars
  <2> SUFFICES ASSUME LockInv, [Next]_vars, NEW c \in Contexts,
                      ctx[c].step = "poll", Instr(c).op = "write", ctx'[c] # ctx[c]
               PROVE  drive[Instr(c).node] = DriveAfter(drive[Instr(c).node], Instr(c).arg)
    OBVIOUS
  <2>1. PollDownload(c)
    BY LeavesPoll DEF Sound
  <2>2. Executed(Turn.b, Instruction(Turn).arg) /\ Awaiting
    <3>1. AckHeld /\ Executed(Turn.b, Instruction(Turn).arg)
      <4>1. ctx' # ctx
        OBVIOUS
      <4>2. QED
        BY <2>1, <4>1, PollExecuted
    <3>2. QED
      BY <3>1 DEF LockInv, OneWord
  <2>3. Instr(c) = Instruction(Turn) /\ Instruction(Turn).node = Turn.b
    <3>1. Instr(c) = Instruction(Turn)
      BY <2>1, TurnRuns DEF LockInv, PollDownload
    <3>2. QED
      BY <2>2, <3>1, AwaitingPlace DEF LockInv
  <2>4. QED
    BY <2>2, <2>3 DEF Executed, Sound
<1>2. Spec => []LockInv
  BY LockHolds DEF Sound
<1>3. QED
  BY <1>1, <1>2, PTL DEF Spec, WordIsExecuted

\* How far init_motor has brought the drive at its k-th instruction.
Reached(k) == CASE k = 3 -> {"disabled", "ready"}
                [] k = 4 -> {"ready", "on"}
                [] k = 5 -> {"on", "enabled"}
                [] OTHER -> DriveStates

\* The motors communicationReset has enabled and Stop_Nodes has not stopped.
Running(m) ==
    \/ Turn.proc = "reset" /\ m < Turn.b
    \/ Turn.proc = "loop" /\ ~Zustand
    \/ Turn.proc = "stop" /\ m > Turn.b

DrivesOn ==
    /\ \A m \in Motors : Running(m) => drive[m] = "enabled"
    /\ Turn.proc = "reset" /\ Turn.b \in Motors => drive[Turn.b] \in Reached(Turn.k)

\* The next instruction finds the drive where its controlword takes it on.
LEMMA NextDrivesOn ==
    ASSUME Sound, IInv, HandlerLast, DrivesOn,
           NEW c \in Contexts, NEW s, s # "none", Runs(c, s),
           Instruction(Turn).op # "read", ToNextInstr(c), pin' = pin, drive' = drive,
           Instruction(Turn).op = "write" => Executed(Turn.b, Instruction(Turn).arg)
    PROVE  DrivesOn'
<1> DEFINE i == Instruction(Turn)
           n == Len(Block(Turn.proc, Turn.b))
<1>1. /\ Turn \in CtxRecord /\ Busy(Turn) /\ i \in Instructions
      /\ i.op \in {"nmt", "setup", "write"}
  BY TurnRuns, StepPlace DEF Instructions
<1>2. Place(Turn, i, n) /\ n \in 1 .. 5 /\ Turn.k \in 1 .. n
  BY <1>1, BlockTable, BlockType DEF Busy
<1>3. IF Returns(Turn)
      THEN /\ Turn.proc \in {"stop", "reset"}
           /\ Turn' = Resting("loop") /\ Zustand' = (Turn.proc = "stop")
      ELSE Turn' = NextInstr(Turn) /\ Zustand' = Zustand
  BY TurnToNext
<1>4. i.op = "write" => drive[Turn.b] = DriveAfter(drive[Turn.b], i.arg)
  BY DEF Executed, Sound
<1>5. /\ NumMotors \in Nat /\ NumMotors > 0 /\ Turn.b \in 0 .. NumMotors + 1
      /\ drive \in [Motors -> DriveStates]
  BY <1>1, NodeType DEF CtxRecord, IInv, TypeOK
<1> HIDE DEF i, n
<1>6. CASE Returns(Turn)
  <2>1. Turn' = Resting("loop")
    BY <1>3, <1>6
  <2>2. CASE Turn.proc = "reset"
    <3>1. Turn.b = NumMotors + 1
      BY <1>6, <2>2 DEF Returns, LastBlock
    <3>2. \A m \in Motors : drive[m] = "enabled"
      BY <1>5, <2>2, <3>1 DEF DrivesOn, Running, Motors
    <3>3. QED
      BY <2>1, <3>2 DEF DrivesOn, Running, Resting
  <2>3. CASE Turn.proc = "stop"
    <3>1. Zustand'
      <4>1. Zustand' = (Turn.proc = "stop")
        BY <1>3, <1>6
      <4>2. QED
        BY <2>3, <4>1
    <3>2. QED
      BY <2>1, <3>1 DEF DrivesOn, Running, Resting
  <2>4. QED
    BY <1>3, <1>6, <2>2, <2>3
<1>7. CASE ~Returns(Turn)
  <2>1. /\ Turn'.proc = Turn.proc /\ Zustand' = Zustand
        /\ IF Turn.k < n THEN Turn'.b = Turn.b /\ Turn'.k = Turn.k + 1
                         ELSE Turn'.b = Turn.b + 1 /\ Turn'.k = 1
    BY <1>1, <1>3, <1>7, NextPlace DEF n
  <2>2. ASSUME i.op = "write", Turn.proc = "reset"
        PROVE  /\ Turn.k \in 2 .. 5
               /\ Turn.k = 5 <=> Turn.k = n
               /\ Turn.k = 5 => drive[Turn.b] = "enabled"
               /\ Turn.k < 5 => drive[Turn.b] \in Reached(Turn.k + 1)
    <3>1. /\ Turn.b \in Motors /\ n = 5
          /\ \/ Turn.k = 2 /\ i.arg = "DisableVoltage"
             \/ Turn.k = 3 /\ i.arg = "Shutdown"
             \/ Turn.k = 4 /\ i.arg = "SwitchOn"
             \/ Turn.k = 5 /\ i.arg = "EnableOperation"
      BY <1>2, <2>2 DEF Place, WritePlace
    <3>2. drive[Turn.b] \in Reached(Turn.k)
      BY <2>2, <3>1 DEF DrivesOn
    <3>3. CASE Turn.k = 2
      BY <1>4, <2>2, <3>1, <3>3 DEF DriveAfter, Reached
    <3>4. CASE Turn.k = 3
      BY <1>4, <2>2, <3>1, <3>4 DEF DriveAfter, Reached
    <3>5. CASE Turn.k = 4
      BY <1>4, <2>2, <3>1, <3>2, <3>5 DEF DriveAfter, Reached
    <3>6. CASE Turn.k = 5
      BY <1>4, <2>2, <3>1, <3>2, <3>6 DEF DriveAfter, Reached
    <3>7. QED
      BY <3>1, <3>3, <3>4, <3>5, <3>6
  <2>3. ASSUME i.op = "setup", Turn.proc = "reset"
        PROVE  Turn.b \in Motors /\ Turn.k = 1 /\ Turn.k < n
    BY <1>2, <2>3 DEF Place, SetupPlace
  <2>4. ASSUME i.op = "nmt", Turn.proc = "reset"
        PROVE  Turn.b \notin Motors /\ Turn.k = n
    BY <1>2, <1>5, <2>4 DEF Place, NmtPlace, Motors
  <2>5. ASSUME NEW m \in Motors, Running(m)'
        PROVE  drive[m] = "enabled"
    <3>1. Running(m) \/ (Turn.proc = "reset" /\ m = Turn.b /\ Turn.k = n)
      BY <1>1, <1>2, <1>5, <2>1, <2>5 DEF Running, Motors, Busy
    <3>2. CASE Turn.proc = "reset" /\ m = Turn.b /\ Turn.k = n
      BY <1>1, <1>2, <2>2, <2>3, <2>4, <3>2
    <3>3. QED
      BY <3>1, <3>2 DEF DrivesOn
  <2>6. ASSUME Turn.proc = "reset", Turn'.b \in Motors
        PROVE  drive[Turn'.b] \in Reached(Turn'.k)
    <3>1. \A m \in Motors : drive[m] \in Reached(1) /\ drive[m] \in Reached(2)
      BY <1>5 DEF Reached
    <3>2. CASE Turn'.k \in {1, 2}
      BY <2>6, <3>1, <3>2
    <3>3. CASE Turn'.k \notin {1, 2}
      BY <1>1, <1>2, <2>1, <2>2, <2>3, <2>4, <2>6, <3>3
    <3>4. QED
      BY <3>2, <3>3
  <2>7. QED
    BY <2>1, <2>5, <2>6 DEF DrivesOn
<1>8. QED
  BY <1>6, <1>7

\* A step of a routine stays in the instruction or ends it, and ends it only
\* when a controlword it wrote was executed.
LEMMA StepShape ==
    ASSUME LockInv, NEW c \in Contexts, Step(c)
    PROVE  /\ pin' = pin /\ drive' = drive
           /\ \E s \in Steps \ {"none"} :
                /\ Runs(c, s)
                /\ \/ \E t \in Steps : ToStep(c, t)
                   \/ UNCHANGED <<ctx, Zustand>>
                   \/ /\ ToNextInstr(c) /\ Instruction(Turn).op # "read"
                      /\ Instruction(Turn).op = "write" => Executed(Turn.b, Instruction(Turn).arg)
<1> USE DEF LockInv
<1>1. pin' = pin /\ drive' = drive
  BY DEF Step, NmtCommand, NmtNode, NmtSend, SetupRx, SetupTx, SdoBegin, SdoFill, SdoSend,
         PollDownload, motor
<1>2. CASE NmtCommand(c) \/ NmtNode(c)
  BY <1>1, <1>2 DEF NmtCommand, NmtNode, Steps
<1>3. CASE SdoBegin(c) \/ SdoFill(c) \/ SdoSend(c)
  BY <1>1, <1>3 DEF SdoBegin, SdoFill, SdoSend, Steps
<1>4. CASE NmtSend(c) \/ SetupRx(c) \/ SetupTx(c)
  <2>1. PICK s \in {"send", "rx", "tx"} : Runs(c, s) /\ (ToNextInstr(c) \/ ToStep(c, "tx"))
    BY <1>4 DEF NmtSend, SetupRx, SetupTx
  <2>2. Turn.step = s /\ Busy(Turn) /\ Turn \in CtxRecord
    BY <2>1, TurnRuns
  <2>3. Instruction(Turn).op \in {"nmt", "setup"}
    BY <2>2, StepPlace
  <2>4. QED
    BY <1>1, <2>1, <2>3 DEF Steps
<1>5. CASE PollDownload(c)
  <2>1. Runs(c, "poll") /\ Instr(c).op = "write" /\ Instr(c) = Instruction(Turn)
    BY <1>5, TurnRuns DEF PollDownload
  <2>2. SDOclientPoll(sdo, tx, "download").ret = "communicationEnd" => AckHeld
    BY PollEffect DEF AckHeld, IInv, TypeOK
  <2>3. AckHeld => Executed(Turn.b, Instruction(Turn).arg)
    BY DEF OneWord
  <2>4. QED
    BY <1>1, <1>5, <2>1, <2>2, <2>3 DEF PollDownload, Steps
<1>6. QED
  BY <1>2, <1>3, <1>4, <1>5 DEF Step

\* Drive states change only outside, and only a controlword changes them.
LEMMA DriveSteps ==
    ASSUME Sound, LockInv,
           \/ Bus
           \/ \E m \in Motors : PowerUp(m) \/ PowerLost(m)
           \/ CurtainChanges
    PROVE  /\ Turn' = Turn /\ Zustand' = Zustand /\ ctx' = ctx
           /\ \/ drive' = drive
              \/ /\ Awaiting /\ pin' = pin
                 /\ drive' = [drive EXCEPT ![Turn.b] = DriveAfter(@, Instruction(Turn).arg)]
<1>1. Zustand' = Zustand /\ ctx' = ctx
  BY DEF Bus, NmtDelivered, SdoDelivered, AnswerReceived, PowerUp, PowerLost, CurtainChanges, code
<1>2. Turn' = Turn
  BY <1>1 DEF Turn
<1>3. ASSUME NEW box \in Mailboxes, SdoDelivered(box)
      PROVE  \/ drive' = drive
             \/ /\ Awaiting /\ pin' = pin
                /\ drive' = [drive EXCEPT ![Turn.b] = DriveAfter(@, Instruction(Turn).arg)]
  <2>1. pin' = pin
    BY <1>3 DEF SdoDelivered
  <2>2. QED
    BY <1>3, <2>1, WordServed
<1>4. ASSUME NEW box \in Mailboxes, NmtDelivered(box)
      PROVE  drive' = drive
  BY <1>4 DEF NmtDelivered
<1>5. ASSUME NEW m \in Motors, AnswerReceived(m) \/ PowerUp(m) \/ PowerLost(m)
      PROVE  drive' = drive
  BY <1>5 DEF AnswerReceived, PowerUp, PowerLost, Sound
<1>6. CurtainChanges => drive' = drive
  BY DEF CurtainChanges, motor
<1>7. QED
  BY <1>1, <1>2, <1>3, <1>4, <1>5, <1>6 DEF Bus

\* Every step keeps the drives where the routines have brought them.
LEMMA NextDrives ==
    ASSUME Sound, LockInv, DrivesOn, [Next]_vars
    PROVE  DrivesOn'
<1>0. IInv /\ HandlerLast
  BY DEF LockInv
<1>1. ASSUME NEW c \in Contexts, Step(c)
      PROVE  DrivesOn'
  <2>1. pin' = pin /\ drive' = drive
    BY <1>1, StepShape
  <2>2. PICK s \in Steps \ {"none"} :
                /\ Runs(c, s)
                /\ \/ \E t \in Steps : ToStep(c, t)
                   \/ UNCHANGED <<ctx, Zustand>>
                   \/ /\ ToNextInstr(c) /\ Instruction(Turn).op # "read"
                      /\ Instruction(Turn).op = "write" => Executed(Turn.b, Instruction(Turn).arg)
    BY <1>1, StepShape
  <2>3. CASE \E t \in Steps : ToStep(c, t)
    <3>1. Turn'.proc = Turn.proc /\ Turn'.b = Turn.b /\ Turn'.k = Turn.k /\ Zustand' = Zustand
      BY <1>0, <2>1, <2>2, <2>3, TurnToStep
    <3>2. QED
      BY <2>1, <3>1 DEF DrivesOn, Running
  <2>4. CASE UNCHANGED <<ctx, Zustand>>
    BY <2>1, <2>4 DEF DrivesOn, Running, Turn
  <2>5. CASE /\ ToNextInstr(c) /\ Instruction(Turn).op # "read"
             /\ Instruction(Turn).op = "write" => Executed(Turn.b, Instruction(Turn).arg)
    BY <1>0, <2>1, <2>2, <2>5, NextDrivesOn
  <2>6. QED
    BY <2>2, <2>3, <2>4, <2>5
<1>2. CASE PollUpload
  <2>1. Turn'.proc \in {"detect", "wait"}
    BY <1>0, <1>2, MainTurn, FirstPlace DEF Resting
  <2>2. QED
    BY <2>1 DEF DrivesOn, Running
<1>3. CASE StartMotors \/ TIM3_IRQHandler
  <2>1. drive' = drive
    BY <1>3 DEF StartMotors, TIM3_IRQHandler, motor
  <2>2. \/ Turn' = At("reset", 0, 1)
        \/ Turn = Resting("loop") /\ ~Zustand /\ Turn' = At("stop", 0, 1)
    BY <1>0, <1>3, MainTurn
  <2>3. CASE Turn' = At("reset", 0, 1)
    <3>1. Turn'.proc = "reset" /\ Turn'.b = 0
      BY <2>3, FirstPlace
    <3>2. 0 \notin Motors /\ \A m \in Motors : ~(m < 0)
      BY NodeType DEF Motors
    <3>3. QED
      BY <3>1, <3>2 DEF DrivesOn, Running
  <2>4. CASE Turn = Resting("loop") /\ ~Zustand /\ Turn' = At("stop", 0, 1)
    <3>1. \A m \in Motors : drive[m] = "enabled"
      BY <2>4 DEF DrivesOn, Running, Resting
    <3>2. Turn'.proc = "stop"
      BY <2>4, FirstPlace
    <3>3. QED
      BY <2>1, <3>1, <3>2 DEF DrivesOn
  <2>5. QED
    BY <2>2, <2>3, <2>4
<1>4. CASE \/ Bus
           \/ \E m \in Motors : PowerUp(m) \/ PowerLost(m)
           \/ CurtainChanges
  <2>1. /\ Turn' = Turn /\ Zustand' = Zustand /\ ctx' = ctx
        /\ \/ drive' = drive
           \/ /\ Awaiting /\ pin' = pin
              /\ drive' = [drive EXCEPT ![Turn.b] = DriveAfter(@, Instruction(Turn).arg)]
    BY <1>4, DriveSteps
  <2>2. CASE drive' = drive
    BY <2>1, <2>2 DEF DrivesOn, Running
  <2>3. CASE /\ Awaiting /\ pin' = pin
             /\ drive' = [drive EXCEPT ![Turn.b] = DriveAfter(@, Instruction(Turn).arg)]
    <3> DEFINE w == Instruction(Turn).arg
    <3>1. /\ Turn \in CtxRecord /\ Turn.b \in Motors
          /\ \/ Turn.proc = "stop"
             \/ /\ Turn.proc = "reset"
                /\ \/ Turn.k = 2 /\ w = "DisableVoltage"
                   \/ Turn.k = 3 /\ w = "Shutdown"
                   \/ Turn.k = 4 /\ w = "SwitchOn"
                   \/ Turn.k = 5 /\ w = "EnableOperation"
      BY <1>0, <2>3, AwaitingPlace
    <3>2. drive \in [Motors -> DriveStates]
      BY <1>0 DEF IInv, TypeOK
    <3> HIDE DEF w
    <3>3. drive' = [drive EXCEPT ![Turn.b] = DriveAfter(@, w)]
      BY <2>3 DEF w
    <3>4. \A m \in Motors : Running(m)' => Running(m) /\ m # Turn.b
      <4>1. Turn.b \in Nat /\ Motors \subseteq Nat
        BY <3>1 DEF Motors
      <4>2. QED
        BY <2>1, <3>1, <4>1 DEF Running
    <3>5. \A m \in Motors : Running(m)' => drive'[m] = "enabled"
      BY <3>2, <3>3, <3>4 DEF DrivesOn
    <3>6. ASSUME Turn.proc = "reset" PROVE drive'[Turn.b] \in Reached(Turn.k)
      <4>1. drive[Turn.b] \in Reached(Turn.k) /\ drive'[Turn.b] = DriveAfter(drive[Turn.b], w)
        BY <3>1, <3>2, <3>3, <3>6 DEF DrivesOn
      <4>2. Turn.k = 2 => drive'[Turn.b] \in Reached(Turn.k)
        BY <3>1, <3>6, <4>1 DEF Reached, DriveAfter, DriveStates
      <4>3. Turn.k = 3 => drive'[Turn.b] \in Reached(Turn.k)
        BY <3>1, <3>6, <4>1 DEF Reached, DriveAfter
      <4>4. Turn.k = 4 => drive'[Turn.b] \in Reached(Turn.k)
        BY <3>1, <3>6, <4>1 DEF Reached, DriveAfter
      <4>5. Turn.k = 5 => drive'[Turn.b] \in Reached(Turn.k)
        BY <3>1, <3>6, <4>1 DEF Reached, DriveAfter
      <4>6. QED
        BY <3>1, <3>6, <4>2, <4>3, <4>4, <4>5
    <3>7. QED
      BY <2>1, <3>5, <3>6 DEF DrivesOn
  <2>4. QED
    BY <2>1, <2>2, <2>3
<1>5. CASE UNCHANGED vars
  BY <1>5 DEF vars, code, motor, DrivesOn, Running, Turn
<1>6. CASE CommunicationReset
  BY <1>6 DEF CommunicationReset, Sound, Scope
<1>7. QED
  BY <1>1, <1>2, <1>3, <1>4, <1>5, <1>6 DEF Next

\* At the start no motor is claimed to run.
LEMMA InitDrivesOn == Init => DrivesOn
<1>1. Init => Turn = At("detect", 1, 1)
  BY DEF Init, Turn, Resting
<1>2. 1 \in Motors
  BY NodeType DEF Motors
<1>3. QED
  BY <1>1, <1>2, FirstPlace DEF DrivesOn, Running

\* While the controller says so the drives run.
LEMMA DrivesHold == Sound => (Spec => [](LockInv /\ DrivesOn))
<1> SUFFICES ASSUME Sound PROVE Spec => [](LockInv /\ DrivesOn)
  OBVIOUS
<1>1. Init => LockInv /\ DrivesOn
  BY InitLock, InitDrivesOn DEF Sound
<1>2. LockInv /\ DrivesOn /\ [Next]_vars => (LockInv /\ DrivesOn)'
  <2>1. LockInv /\ [Next]_vars => LockInv'
    BY NextLock DEF Sound
  <2>2. LockInv /\ DrivesOn /\ [Next]_vars => DrivesOn'
    BY NextDrives
  <2>3. QED
    BY <2>1, <2>2
<1>3. QED
  BY <1>1, <1>2, PTL DEF Spec

-----------------------------------------------------------------------------
(* The refinement of Interlock.tla. *)

PhaseOf(x, z) == IF x.proc = "stop" THEN "stopping"
                 ELSE IF x.proc # "loop" THEN "starting"
                 ELSE IF z THEN "stopped" ELSE "running"

RunningSet == {m \in Motors : drive[m] = "enabled"}

\* The phase of the interlock is told by the routine that runs, before and
\* after a step.
LEMMA PhaseOfTurn ==
    ASSUME LockInv, LockInv'
    PROVE  Phase = PhaseOf(Turn, Zustand) /\ Phase' = PhaseOf(Turn', Zustand')
<1>1. HandlerLast /\ HandlerLast'
  BY DEF LockInv
<1>2. Phase = PhaseOf(Turn, Zustand)
  BY <1>1 DEF HandlerLast, Phase, PhaseOf, Turn
<1>3. Phase' = PhaseOf(Turn', Zustand')
  BY <1>1 DEF HandlerLast, Phase, PhaseOf, Turn
<1>4. QED
  BY <1>2, <1>3

\* The four controlwords (Send_SDO): only EnableOperation enables.
LEMMA WordsTable ==
    ASSUME NEW d
    PROVE  /\ DriveAfter(d, "DisableVoltage") = "disabled"
           /\ DriveAfter(d, "Shutdown") = "ready"
           /\ DriveAfter(d, "SwitchOn") \in {"disabled", "on"}
           /\ DriveAfter(d, "EnableOperation") \in {d, "enabled"}
  BY DEF DriveAfter

\* A controlword the bus delivers disables a motor of Stop_Nodes, or enables
\* one of communicationReset, or changes nothing the interlock tells apart.
LEMMA WordPromise ==
    ASSUME LockInv, Phase = PhaseOf(Turn, Zustand), Phase' = Phase, pin' = pin, Awaiting,
           drive' = [drive EXCEPT ![Turn.b] = DriveAfter(@, Instruction(Turn).arg)]
    PROVE  [Promise!Next]_(Promise!vars)
<1> DEFINE w == Instruction(Turn).arg
           b == Turn.b
<1>1. /\ b \in Motors
      /\ \/ Turn.proc = "stop" /\ w = "Shutdown"
         \/ /\ Turn.proc = "reset"
            /\ \/ Turn.k = 2 /\ w = "DisableVoltage"
               \/ Turn.k = 3 /\ w = "Shutdown"
               \/ Turn.k = 4 /\ w = "SwitchOn"
               \/ Turn.k = 5 /\ w = "EnableOperation"
  BY AwaitingPlace DEF LockInv
<1>2. drive \in [Motors -> DriveStates]
  BY DEF LockInv, IInv, TypeOK
<1>3. /\ drive'[b] = DriveAfter(drive[b], w)
      /\ \A m \in Motors : m # b => drive'[m] = drive[m]
  BY <1>1, <1>2
<1> HIDE DEF w, b
<1>4. ASSUME Turn.proc = "stop", b \in RunningSet
      PROVE  Promise!Disable(b)
  <2>1. drive'[b] # "enabled"
    BY <1>1, <1>3, <1>4, WordsTable
  <2>2. RunningSet' = RunningSet \ {b}
    BY <1>1, <1>3, <2>1 DEF RunningSet
  <2>3. Phase = "stopping"
    BY <1>4 DEF PhaseOf
  <2>4. QED
    BY <1>4, <2>2, <2>3 DEF Promise!Disable, RunningSet
<1>5. ASSUME Turn.proc = "stop", b \notin RunningSet
      PROVE  RunningSet' = RunningSet
  <2>1. drive[b] # "enabled" /\ drive'[b] # "enabled"
    BY <1>1, <1>3, <1>5, WordsTable DEF RunningSet
  <2>2. QED
    BY <1>3, <2>1 DEF RunningSet
<1>6. ASSUME Turn.proc = "reset", Turn.k < 5
      PROVE  RunningSet' = RunningSet
  <2>1. drive[b] # "enabled"
    BY <1>1, <1>6 DEF LockInv, Drives, DrivesOff, ShutDown, b
  <2>2. drive'[b] # "enabled"
    BY <1>1, <1>3, <1>6, WordsTable
  <2>3. QED
    BY <1>3, <2>1, <2>2 DEF RunningSet
<1>7. ASSUME Turn.proc = "reset", Turn.k = 5
      PROVE  Promise!Enable(b) \/ RunningSet' = RunningSet
  <2>1. drive'[b] = drive[b] \/ drive'[b] = "enabled"
    BY <1>1, <1>3, <1>7, WordsTable
  <2>2. CASE drive'[b] = drive[b]
    BY <1>3, <2>2 DEF RunningSet
  <2>3. CASE drive[b] # "enabled" /\ drive'[b] = "enabled"
    <3>1. b \notin RunningSet /\ RunningSet' = RunningSet \cup {b}
      BY <1>1, <1>3, <2>3 DEF RunningSet
    <3>2. Phase = "starting"
      BY <1>7 DEF PhaseOf
    <3>3. QED
      BY <3>1, <3>2 DEF Promise!Enable, RunningSet
  <2>4. QED
    BY <2>1, <2>2, <2>3
<1>8. RunningSet' = RunningSet => UNCHANGED Promise!vars
  BY DEF Promise!vars, RunningSet
<1>9. Promise!Disable(b) \/ Promise!Enable(b) \/ RunningSet' = RunningSet
  BY <1>1, <1>4, <1>5, <1>6, <1>7
<1>10. Promise!Disable(b) \/ Promise!Enable(b) => Promise!Next
  BY <1>1 DEF Promise!Next, Promise!Controller, Promise!Disable, Promise!Enable
<1>11. QED
  BY <1>8, <1>9, <1>10

\* Every step of the controller, the bus, the motors and the curtain is a step
\* of the interlock, or one it does not see.
LEMMA PromiseStep ==
    ASSUME Sound, LockInv, LockInv', DrivesOn', [Next]_vars
    PROVE  [Promise!Next]_(Promise!vars)
<1>0. IInv /\ HandlerLast
  BY DEF LockInv
<1>1. Phase = PhaseOf(Turn, Zustand) /\ Phase' = PhaseOf(Turn', Zustand')
  BY PhaseOfTurn
<1>2. pin' = pin /\ drive' = drive /\ Phase' = Phase => UNCHANGED Promise!vars
  BY DEF Promise!vars
<1>3. ASSUME NEW c \in Contexts, Step(c)
      PROVE  [Promise!Next]_(Promise!vars)
  <2>1. pin' = pin /\ drive' = drive
    BY <1>3, StepShape
  <2>2. PICK s \in Steps \ {"none"} :
                /\ Runs(c, s)
                /\ \/ \E t \in Steps : ToStep(c, t)
                   \/ UNCHANGED <<ctx, Zustand>>
                   \/ ToNextInstr(c) /\ Instruction(Turn).op # "read"
    BY <1>3, StepShape
  <2>3. CASE \E t \in Steps : ToStep(c, t)
    <3>1. Turn'.proc = Turn.proc /\ Zustand' = Zustand
      BY <1>0, <2>1, <2>2, <2>3, TurnToStep
    <3>2. Phase' = Phase
      BY <1>1, <3>1 DEF PhaseOf
    <3>3. QED
      BY <1>2, <2>1, <3>2
  <2>4. CASE UNCHANGED <<ctx, Zustand>>
    <3>1. Phase' = Phase
      BY <2>4 DEF Phase
    <3>2. QED
      BY <1>2, <2>1, <3>1
  <2>5. CASE ToNextInstr(c) /\ Instruction(Turn).op # "read"
    <3>1. Turn \in CtxRecord /\ Busy(Turn)
      BY <1>0, <2>2, TurnRuns
    <3>2. IF Returns(Turn)
          THEN /\ Turn.proc \in {"stop", "reset"}
               /\ Turn' = Resting("loop") /\ Zustand' = (Turn.proc = "stop")
          ELSE Turn' = NextInstr(Turn) /\ Zustand' = Zustand
      BY <1>0, <2>1, <2>2, <2>5, TurnToNext
    <3>3. CASE ~Returns(Turn)
      <4>1. Turn'.proc = Turn.proc /\ Zustand' = Zustand
        BY <3>1, <3>2, <3>3, NextPlace
      <4>2. Phase' = Phase
        BY <1>1, <4>1 DEF PhaseOf
      <4>3. QED
        BY <1>2, <2>1, <4>2
    <3>4. CASE Returns(Turn) /\ Turn.proc = "stop"
      <4>1. Turn'.proc = "loop" /\ Zustand'
        <5>1. Turn' = Resting("loop") /\ Zustand' = (Turn.proc = "stop")
          BY <3>2, <3>4
        <5>2. Zustand'
          BY <3>4, <5>1
        <5>3. QED
          BY <5>1, <5>2 DEF Resting
      <4>2. Phase = "stopping" /\ Phase' = "stopped"
        BY <1>1, <3>4, <4>1 DEF PhaseOf
      <4>3. RunningSet = {}
        BY <2>1, <4>1 DEF LockInv, Drives, DrivesOff, ShutDown, RunningSet
      <4>4. QED
        BY <2>1, <4>2, <4>3 DEF RunningSet, Promise!EndStop, Promise!Next, Promise!Controller
    <3>5. CASE Returns(Turn) /\ Turn.proc = "reset"
      <4>1. Turn'.proc = "loop" /\ ~Zustand'
        <5>1. Turn' = Resting("loop") /\ Zustand' = (Turn.proc = "stop")
          BY <3>2, <3>5
        <5>2. ~Zustand'
          BY <3>5, <5>1
        <5>3. QED
          BY <5>1, <5>2 DEF Resting
      <4>2. Phase = "starting" /\ Phase' = "running"
        BY <1>1, <3>5, <4>1 DEF PhaseOf
      <4>3. RunningSet = Motors
        BY <2>1, <4>1 DEF DrivesOn, Running, RunningSet
      <4>4. QED
        BY <2>1, <4>2, <4>3 DEF RunningSet, Promise!EndStart, Promise!Next, Promise!Controller
    <3>6. QED
      BY <3>2, <3>3, <3>4, <3>5
  <2>6. QED
    BY <2>2, <2>3, <2>4, <2>5
<1>4. CASE PollUpload \/ StartMotors
  <2>1. pin' = pin /\ drive' = drive
    BY <1>4 DEF PollUpload, StartMotors, motor
  <2>2. Turn.proc \in {"detect", "wait"}
    BY <1>0, <1>4, MainTurn DEF Resting
  <2>3. Turn'.proc \in {"detect", "wait", "reset"}
    BY <1>0, <1>4, MainTurn, FirstPlace DEF Resting
  <2>4. Phase' = Phase
    BY <1>1, <2>2, <2>3 DEF PhaseOf
  <2>5. QED
    BY <1>2, <2>1, <2>4
<1>5. CASE TIM3_IRQHandler
  <2>1. pin' = pin /\ drive' = drive /\ Turn = Resting("loop")
    BY <1>0, <1>5, MainTurn DEF TIM3_IRQHandler, motor
  <2>2. \/ pin /\ ~Zustand /\ Turn'.proc = "stop"
        \/ ~pin /\ Zustand /\ Turn'.proc = "reset"
    BY <1>0, <1>5, MainTurn, FirstPlace
  <2>3. CASE pin /\ ~Zustand /\ Turn'.proc = "stop"
    <3>1. Phase = "running" /\ Phase' = "stopping"
      BY <1>1, <2>1, <2>3 DEF PhaseOf, Resting
    <3>2. QED
      BY <2>1, <2>3, <3>1 DEF Promise!BeginStop, Promise!Next, Promise!Controller
  <2>4. CASE ~pin /\ Zustand /\ Turn'.proc = "reset"
    <3>1. Phase = "stopped" /\ Phase' = "starting"
      BY <1>1, <2>1, <2>4 DEF PhaseOf, Resting
    <3>2. QED
      BY <2>1, <2>4, <3>1 DEF Promise!BeginStart, Promise!Next, Promise!Controller
  <2>5. QED
    BY <2>2, <2>3, <2>4
<1>6. CASE CurtainChanges
  <2>1. pin' = ~pin /\ drive' = drive /\ Phase' = Phase
    BY <1>6 DEF CurtainChanges, code, motor, Phase
  <2>2. QED
    BY <2>1 DEF Promise!CurtainChanges, Promise!Next
<1>7. CASE Bus \/ \E m \in Motors : PowerUp(m) \/ PowerLost(m)
  <2>1. pin' = pin
    BY <1>7 DEF Bus, NmtDelivered, SdoDelivered, AnswerReceived, PowerUp, PowerLost
  <2>2. /\ Turn' = Turn /\ Zustand' = Zustand
        /\ \/ drive' = drive
           \/ /\ Awaiting
              /\ drive' = [drive EXCEPT ![Turn.b] = DriveAfter(@, Instruction(Turn).arg)]
    BY <1>7, DriveSteps
  <2>3. Phase' = Phase
    BY <1>1, <2>2
  <2>4. QED
    BY <1>1, <1>2, <2>1, <2>2, <2>3, WordPromise
<1>8. CASE UNCHANGED vars
  BY <1>2, <1>8 DEF vars, code, motor, Phase
<1>9. CASE CommunicationReset
  BY <1>9 DEF CommunicationReset, Sound, Scope
<1>10. QED
  BY <1>3, <1>4, <1>5, <1>6, <1>7, <1>8, <1>9 DEF Next

\* Whatever the bus and the mailboxes do, each step of main, of the interrupt
\* and of the motors is one the interlock allows: drives are enabled only
\* while it starts, disabled only while it stops, and the routines end only
\* when all of them are.  That it also stops in the end is liveness.
THEOREM LockKeepsPromise ==
    Sound => (Spec => Promise!Init /\ [][Promise!Next]_(Promise!vars))
<1> SUFFICES ASSUME Sound PROVE Spec => Promise!Init /\ [][Promise!Next]_(Promise!vars)
  OBVIOUS
<1>1. Init => Promise!Init
  <2> SUFFICES ASSUME Init PROVE Promise!Init
    OBVIOUS
  <2>1. /\ ctx["main"] = At("detect", 1, 1) /\ ctx["tim3"] = Resting("idle")
        /\ ~Zustand /\ pin = FALSE /\ drive = [m \in Motors |-> "disabled"]
    BY DEF Init
  <2>2. ctx["main"].proc = "detect" /\ ctx["tim3"].proc = "idle"
    BY <2>1 DEF At, Resting
  <2>3. QED
    BY <2>1, <2>2 DEF Promise!Init, Phase
<1>2. LockInv /\ LockInv' /\ DrivesOn /\ DrivesOn' /\ [Next]_vars => [Promise!Next]_(Promise!vars)
  BY PromiseStep
<1>3. Spec => [](LockInv /\ DrivesOn)
  BY DrivesHold
<1>4. QED
  BY <1>1, <1>2, <1>3, PTL DEF Spec

-----------------------------------------------------------------------------
(* The NMT commands: each one that follows a controlword finds a mailbox.    *)

\* While a controlword or its answer is under way, and has not timed out,
\* CANtxCount is zero; once it is answered a mailbox is free.
WordLoaded ==
    sdo.state = "download" =>
       /\ WordBoxes # {} => tx.count = 0
       /\ AckHeld \/ (\E m \in Motors : AckSent(m)) => SendsAtOnce(tx)

\* The answer comes from a motor with voltage, after every NMT command.
WordAnswered ==
    /\ \A m \in Motors : AckSent(m) => m \in power
    /\ AckHeld => NoNmtWaits /\ Turn.b \in power

\* At the NMT commands of Stop_Motor and of the end of communicationReset.
AfterWord == \/ Turn.proc = "stop" /\ Turn.k = 3
             \/ Turn.proc = "reset" /\ Turn.b = NumMotors + 1

\* The motors that have answered the controlwords of init_motor.
Answered(m) == \/ Turn.proc \in {"stop", "loop"}
               \/ Turn.proc = "reset" /\ m < Turn.b

OnlyNmt(what) == \A box \in Mailboxes :
    tx.box[box] # NoFrame /\ tx.box[box].kind = "nmt" => tx.box[box].what = what

\* The motors Stop_Nodes has passed are stopped or about to be.
Stopping == \/ Turn.proc = "stop" /\ (Turn.b > 1 \/ Turn.k = 3)
            \/ Turn.proc = "loop" /\ Zustand
Passed(m) == \/ Turn.proc = "stop" /\ m < Turn.b
             \/ Turn.proc = "loop" /\ Zustand

ReadyToSend == AfterWord => SendsAtOnce(tx) /\ NoNmtWaits
StopsOnly == Stopping => OnlyNmt("stopped")
StopsFollow == \A m \in Motors :
    Passed(m) => nmt[m] = "stopped" \/ NmtPending(m, "stopped")
OpsFollow == Turn.proc = "loop" /\ ~Zustand =>
    /\ OnlyNmt("op")
    /\ \A m \in Motors : nmt[m] = "op" \/ NmtPending(m, "op")

NmtFollows == ReadyToSend /\ StopsOnly /\ StopsFollow /\ OpsFollow

HavePower == \A m \in Motors : Answered(m) => m \in power

FollowInv == LockInv /\ DrivesOn /\ WordLoaded /\ WordAnswered /\ HavePower /\ NmtFollows

\* An NMT command never ends a block early, and a setup never ends one.
LEMMA NextNmt ==
    ASSUME IInv, HandlerLast, NEW c \in Contexts, NEW s, s # "none", Runs(c, s),
           Instruction(Turn).op # "read", ToNextInstr(c), pin' = pin
    PROVE  LET i == Instruction(Turn) IN
           /\ i.op = "setup" =>
                /\ ~AfterWord' /\ Turn'.proc # "loop" /\ (Stopping' => Stopping)
                /\ \A m \in Motors : (Passed(m)' => Passed(m)) /\ (Answered(m)' => Answered(m))
           /\ i.op = "write" =>
                /\ Turn.b \in Motors /\ Turn'.proc # "loop"
                /\ \A m \in Motors : /\ Passed(m)' => Passed(m)
                                     /\ Answered(m)' => Answered(m) \/ m = Turn.b
           /\ i.op = "nmt" =>
                /\ \A m \in Motors : Answered(m)' => Answered(m)
                /\ ~AfterWord'
                /\ \/ /\ ~Stopping' /\ Turn'.proc # "loop" /\ \A m \in Motors : ~Passed(m)'
                   \/ /\ AfterWord /\ Turn.b \in Motors
                      /\ i.arg = "stopped" /\ i.node = Turn.b
                      /\ Turn'.proc = "loop" => Zustand'
                      /\ \A m \in Motors : Passed(m)' => Passed(m) \/ m = Turn.b
                   \/ /\ AfterWord /\ i.arg = "op" /\ i.node = AllNodes
                      /\ Turn'.proc = "loop" /\ ~Zustand'
<1> DEFINE i == Instruction(Turn)
           n == Len(Block(Turn.proc, Turn.b))
<1>1. /\ Turn \in CtxRecord /\ Busy(Turn) /\ i \in Instructions
  BY TurnRuns, StepPlace
<1>2. Place(Turn, i, n) /\ n \in 1 .. 5 /\ Turn.k \in 1 .. n
  BY <1>1, BlockTable, BlockType DEF Busy
<1>3. IF Returns(Turn)
      THEN /\ Turn.proc \in {"stop", "reset"}
           /\ Turn' = Resting("loop") /\ Zustand' = (Turn.proc = "stop")
      ELSE Turn' = NextInstr(Turn) /\ Zustand' = Zustand
  BY TurnToNext
<1>4. NumMotors \in Nat /\ NumMotors > 0 /\ Turn.b \in 0 .. NumMotors + 1
  BY <1>1, NodeType DEF CtxRecord
<1>5. Turn.proc = "reset" /\ Turn.b = NumMotors + 1 =>
         i.arg = "op" /\ i.node = AllNodes /\ n = 1
  <2>1. ASSUME Turn.proc = "reset", Turn.b = NumMotors + 1
        PROVE  Block(Turn.proc, Turn.b) = <<Nmt("op", AllNodes)>>
    BY <1>4, <2>1 DEF Block, Motors
  <2>2. QED
    BY <1>2, <2>1 DEF Instruction, Nmt
<1>6. /\ Turn.proc = "stop" => LastBlock(Turn.proc) = NumMotors
      /\ Turn.proc = "reset" => LastBlock(Turn.proc) = NumMotors + 1
  BY DEF LastBlock
<1>7. Returns(Turn) <=> Turn.b = LastBlock(Turn.proc) /\ Turn.k = n
  BY DEF Returns
<1>8. ~Returns(Turn) =>
        /\ Turn'.proc = Turn.proc /\ Zustand' = Zustand
        /\ IF Turn.k < n THEN Turn'.b = Turn.b /\ Turn'.k = Turn.k + 1
                         ELSE Turn'.b = Turn.b + 1 /\ Turn'.k = 1
  BY <1>1, <1>3, NextPlace
<1>9. Returns(Turn) => /\ Turn.proc \in {"stop", "reset"} /\ Turn'.proc = "loop"
                       /\ Turn.proc = "stop" => Zustand'
                       /\ Turn.proc = "reset" => ~Zustand'
  <2> SUFFICES ASSUME Returns(Turn)
               PROVE  /\ Turn.proc \in {"stop", "reset"} /\ Turn'.proc = "loop"
                      /\ Turn.proc = "stop" => Zustand'
                      /\ Turn.proc = "reset" => ~Zustand'
    OBVIOUS
  <2>1. /\ Turn.proc \in {"stop", "reset"} /\ Turn' = Resting("loop")
        /\ Zustand' = (Turn.proc = "stop")
    BY <1>3
  <2>2. Turn'.proc = "loop"
    BY <2>1 DEF Resting
  <2>3. Turn.proc = "stop" => Zustand'
    BY <2>1
  <2>4. Turn.proc = "reset" => ~Zustand'
    BY <2>1
  <2>5. QED
    BY <2>1, <2>2, <2>3, <2>4
<1>10. Turn.proc \in {"detect", "reset", "stop"}
  BY <1>1 DEF Busy
<1> SUFFICES /\ i.op = "setup" =>
                /\ ~AfterWord' /\ Turn'.proc # "loop" /\ (Stopping' => Stopping)
                /\ \A m \in Motors : (Passed(m)' => Passed(m)) /\ (Answered(m)' => Answered(m))
             /\ i.op = "write" =>
                /\ Turn.b \in Motors /\ Turn'.proc # "loop"
                /\ \A m \in Motors : /\ Passed(m)' => Passed(m)
                                     /\ Answered(m)' => Answered(m) \/ m = Turn.b
             /\ i.op = "nmt" =>
                /\ \A m \in Motors : Answered(m)' => Answered(m)
                /\ ~AfterWord'
                /\ \/ /\ ~Stopping' /\ Turn'.proc # "loop" /\ \A m \in Motors : ~Passed(m)'
                   \/ /\ AfterWord /\ Turn.b \in Motors
                      /\ i.arg = "stopped" /\ i.node = Turn.b
                      /\ Turn'.proc = "loop" => Zustand'
                      /\ \A m \in Motors : Passed(m)' => Passed(m) \/ m = Turn.b
                   \/ /\ AfterWord /\ i.arg = "op" /\ i.node = AllNodes
                      /\ Turn'.proc = "loop" /\ ~Zustand'
  BY DEF i
<1> HIDE DEF i, n
<1>11. ASSUME i.op = "setup"
       PROVE  /\ ~AfterWord' /\ Turn'.proc # "loop" /\ (Stopping' => Stopping)
              /\ \A m \in Motors : (Passed(m)' => Passed(m)) /\ (Answered(m)' => Answered(m))
  <2>1. Turn.b \in Motors /\ Turn.k = 1 /\ n > 1
    BY <1>2, <1>11 DEF Place, SetupPlace
  <2>2. Turn'.proc = Turn.proc /\ Turn'.b = Turn.b /\ Turn'.k = 2
    BY <1>2, <1>7, <1>8, <2>1
  <2>3. Turn.b # NumMotors + 1
    BY <1>4, <2>1 DEF Motors
  <2>4. QED
    BY <1>10, <2>1, <2>2, <2>3 DEF AfterWord, Stopping, Passed, Answered
<1>12. ASSUME i.op = "write"
       PROVE  /\ Turn.b \in Motors /\ Turn'.proc # "loop"
              /\ \A m \in Motors : /\ Passed(m)' => Passed(m)
                                   /\ Answered(m)' => Answered(m) \/ m = Turn.b
  <2>1. /\ Turn.b \in Motors
        /\ \/ Turn.proc = "stop" /\ n = 3 /\ Turn.k = 2
           \/ Turn.proc = "reset" /\ n = 5
    BY <1>2, <1>12 DEF Place, WritePlace
  <2>2. ~Returns(Turn)
    BY <1>4, <1>6, <1>7, <2>1 DEF Motors
  <2>3. Turn.proc = "stop" => Turn'.proc = "stop" /\ Turn'.b = Turn.b
    BY <1>8, <2>1, <2>2
  <2>4. Turn.proc = "reset" => Turn'.proc = "reset" /\ Turn'.b \in {Turn.b, Turn.b + 1}
    BY <1>8, <2>2
  <2>5. ASSUME NEW m \in Motors
        PROVE  (Passed(m)' => Passed(m)) /\ (Answered(m)' => Answered(m) \/ m = Turn.b)
    <3>1. m \in Nat
      BY DEF Motors
    <3>2. QED
      BY <1>4, <2>1, <2>3, <2>4, <3>1 DEF Passed, Answered
  <2>6. QED
    BY <2>1, <2>3, <2>4, <2>5
<1>13. ASSUME i.op = "nmt"
       PROVE  /\ \A m \in Motors : Answered(m)' => Answered(m)
              /\ ~AfterWord'
              /\ \/ /\ ~Stopping' /\ Turn'.proc # "loop" /\ \A m \in Motors : ~Passed(m)'
                 \/ /\ AfterWord /\ Turn.b \in Motors
                    /\ i.arg = "stopped" /\ i.node = Turn.b
                    /\ Turn'.proc = "loop" => Zustand'
                    /\ \A m \in Motors : Passed(m)' => Passed(m) \/ m = Turn.b
                 \/ /\ AfterWord /\ i.arg = "op" /\ i.node = AllNodes
                    /\ Turn'.proc = "loop" /\ ~Zustand'
  <2>1. /\ n = Turn.k
        /\ \/ /\ Turn.proc = "stop" /\ i.arg = "stopped"
              /\ \/ Turn.b = 0 /\ Turn.k = 1
                 \/ Turn.b \in Motors /\ Turn.k = 3 /\ i.node = Turn.b
           \/ Turn.proc = "reset" /\ Turn.b \in {0, NumMotors + 1} /\ Turn.k = 1
    BY <1>2, <1>13 DEF Place, NmtPlace
  <2>2. \A m \in Motors : m \in Nat /\ m > 0 /\ m <= NumMotors
    BY <1>4 DEF Motors
  <2>3. ~Returns(Turn) => /\ Turn'.proc = Turn.proc /\ Turn'.b = Turn.b + 1 /\ Turn'.k = 1
                          /\ Zustand' = Zustand
    BY <1>8, <2>1, <1>2
  <2>4. CASE Turn.b = 0
    <3>1. ~Returns(Turn)
      BY <1>4, <1>6, <1>7, <2>1, <2>4
    <3>2. Turn'.proc = Turn.proc /\ Turn'.b = 1 /\ Turn'.k = 1
      BY <2>3, <2>4, <3>1
    <3>3. ~Stopping' /\ Turn'.proc # "loop" /\ (\A m \in Motors : ~Passed(m)') /\ ~AfterWord'
      BY <1>4, <2>1, <2>2, <3>2 DEF Stopping, Passed, AfterWord
    <3>4. \A m \in Motors : Answered(m)' => Answered(m)
      BY <2>1, <2>2, <3>2 DEF Answered
    <3>5. QED
      BY <3>3, <3>4
  <2>5. CASE Turn.proc = "stop" /\ Turn.b \in Motors
    <3>1. AfterWord /\ i.arg = "stopped" /\ i.node = Turn.b
      BY <2>1, <2>2, <2>5 DEF AfterWord
    <3>2. (Turn'.proc = "loop" => Zustand') /\ ~AfterWord'
      BY <1>9, <2>3, <2>5 DEF AfterWord
    <3>3. ASSUME NEW m \in Motors, Passed(m)' PROVE Passed(m) \/ m = Turn.b
      <4>1. CASE Returns(Turn)
        BY <1>4, <1>6, <1>7, <2>2, <2>5, <4>1 DEF Passed
      <4>2. CASE ~Returns(Turn)
        BY <1>4, <2>2, <2>3, <2>5, <3>3, <4>2 DEF Passed
      <4>3. QED
        BY <4>1, <4>2
    <3>4. \A m \in Motors : Answered(m)
      BY <2>5 DEF Answered
    <3>5. QED
      BY <2>5, <3>1, <3>2, <3>3, <3>4
  <2>6. CASE Turn.proc = "reset" /\ Turn.b = NumMotors + 1
    <3>1. AfterWord /\ i.arg = "op" /\ i.node = AllNodes
      BY <1>5, <2>6 DEF AfterWord
    <3>2. Returns(Turn)
      BY <1>6, <1>7, <2>1, <2>6
    <3>3. Turn'.proc = "loop" /\ ~Zustand' /\ ~AfterWord'
      BY <1>9, <2>6, <3>2 DEF AfterWord
    <3>4. \A m \in Motors : Answered(m)
      BY <1>4, <2>2, <2>6 DEF Answered
    <3>5. QED
      BY <3>1, <3>3, <3>4
  <2>7. QED
    BY <2>1, <2>4, <2>5, <2>6
<1>14. QED
  BY <1>11, <1>12, <1>13

\* The NMT commands in the mailboxes are the same after the step.
SameNmt ==
    \A box \in Mailboxes :
       \/ tx.box[box] # NoFrame /\ tx.box[box].kind = "nmt"
       \/ tx'.box[box] # NoFrame /\ tx'.box[box].kind = "nmt"
       => tx'.box[box] = tx.box[box]

\* Sending an SDO frame leaves the NMT commands in the mailboxes alone.
LEMMA SameBoxes ==
    ASSUME IInv, NEW f, f.kind = "sdo", Loaded(tx, tx', f)
    PROVE  SameNmt
<1>1. tx.box \in [Mailboxes -> Frames \cup {NoFrame}]
  BY DEF IInv, TypeOK, TxRecord
<1>2. QED
  BY <1>1 DEF Loaded, SameNmt

\* An NMT command is a frame, and is addressed and worded as it was built.
LEMMA NmtFrameType ==
    /\ \A m \in Motors \cup {AllNodes}, what \in NmtCommands :
          /\ NmtFrame(m, what) # NoFrame
          /\ NmtFrame(m, what).kind = "nmt" /\ NmtFrame(m, what).what = what
          /\ NmtFrame(m, what).node = m
<1>1. \A m \in Motors \cup {AllNodes} : m \in 0 .. NumMotors + 1
  BY NodeType DEF Motors, AllNodes
<1>2. QED
  BY <1>1, FrameAssumption DEF NmtFrame, Frames

\* A command that is in a mailbox stays there.
LEMMA SamePending ==
    ASSUME SameNmt, NEW m \in Motors, NEW what \in NmtCommands, NmtPending(m, what)
    PROVE  NmtPending(m, what)'
<1>1. PICK box \in Mailboxes : tx.box[box] \in {NmtFrame(m, what), NmtFrame(AllNodes, what)}
  BY DEF NmtPending
<1>2. tx'.box[box] = tx.box[box]
  BY <1>1, NmtFrameType DEF SameNmt
<1>3. QED
  BY <1>1, <1>2 DEF NmtPending

\* A step that sends no NMT command and moves no motor into what is promised.
LEMMA NmtStays ==
    ASSUME NmtFollows, SameNmt, nmt' = nmt,
           AfterWord' => SendsAtOnce(tx') /\ NoNmtWaits',
           Stopping' => Stopping \/ NoNmtWaits',
           \A m \in Motors : Passed(m)' => Passed(m),
           Turn'.proc = "loop" /\ ~Zustand' => Turn.proc = "loop" /\ ~Zustand
    PROVE  NmtFollows'
<1>1. "stopped" \in NmtCommands /\ "op" \in NmtCommands
  BY DEF NmtCommands
<1>2. ReadyToSend'
  BY DEF ReadyToSend, SendsAtOnce, FreeBoxes
<1>3. StopsOnly'
  BY DEF NmtFollows, StopsOnly, SameNmt, OnlyNmt, NoNmtWaits
<1>4. StopsFollow'
  <2> SUFFICES ASSUME NEW m \in Motors, Passed(m)'
               PROVE  nmt[m] = "stopped" \/ NmtPending(m, "stopped")'
    BY DEF StopsFollow
  <2>1. Passed(m)
    OBVIOUS
  <2>2. nmt[m] = "stopped" \/ NmtPending(m, "stopped")
    BY <2>1 DEF NmtFollows, StopsFollow
  <2>3. NmtPending(m, "stopped") => NmtPending(m, "stopped")'
    BY <1>1, SamePending
  <2>4. QED
    BY <2>2, <2>3
<1>5. OpsFollow'
  <2> SUFFICES ASSUME (Turn.proc = "loop" /\ ~Zustand)'
               PROVE  OnlyNmt("op")' /\ \A m \in Motors : (nmt[m] = "op" \/ NmtPending(m, "op"))'
    BY DEF OpsFollow
  <2>1. OnlyNmt("op") /\ \A m \in Motors : nmt[m] = "op" \/ NmtPending(m, "op")
    BY DEF NmtFollows, OpsFollow
  <2>2. OnlyNmt("op")'
    BY <2>1 DEF OnlyNmt, SameNmt
  <2>3. ASSUME NEW m \in Motors PROVE (nmt[m] = "op" \/ NmtPending(m, "op"))'
    <3>1. nmt[m] = "op" \/ NmtPending(m, "op")
      BY <2>1
    <3>2. NmtPending(m, "op") => NmtPending(m, "op")'
      BY <1>1, SamePending
    <3>3. QED
      BY <3>1, <3>2
  <2>4. QED
    BY <1>3, <2>2, <2>3
<1>6. QED
  BY <1>2, <1>3, <1>4, <1>5 DEF NmtFollows

\* No controlword is under way: nothing is claimed of one.
LEMMA NoWord ==
    ASSUME OneWord', ~Awaiting'
    PROVE  WordLoaded' /\ WordAnswered'
<1>1. WordBoxes' = {} /\ ~AckHeld' /\ \A m \in Motors : ~AckSent(m)'
  BY DEF OneWord
<1>2. QED
  BY <1>1 DEF WordLoaded, WordAnswered

\* NMT commands: one that follows a controlword goes into a mailbox at once.
LEMMA FollowNmt ==
    ASSUME FollowInv, OneWord', NEW c \in Contexts, NmtSend(c)
    PROVE  WordLoaded' /\ WordAnswered' /\ HavePower' /\ NmtFollows'
<1> USE DEF FollowInv, LockInv
<1> DEFINE i == Instruction(Turn)
           f == NmtFrame(nmtData.node, nmtData.what)
<1>1. /\ pin' = pin /\ nmt' = nmt /\ power' = power
      /\ Runs(c, "send") /\ ToNextInstr(c)
      /\ tx' = CANsend(tx, NmtBuffer, f)
  BY DEF NmtSend, motor
<1>2. /\ Turn.step = "send" /\ Busy(Turn) /\ Turn \in CtxRecord /\ i.op = "nmt"
  BY <1>1, TurnRuns, StepPlace
<1>3. nmtData.what = i.arg /\ nmtData.node = i.node
  BY <1>2 DEF Shared, BuffersOwn
<1>4. ~Awaiting'
  BY <1>1, <1>2, NextTurn
<1>5. WordLoaded' /\ WordAnswered'
  BY <1>4, NoWord
<1>6. /\ \A m \in Motors : Answered(m)' => Answered(m)
      /\ ~AfterWord'
      /\ \/ /\ ~Stopping' /\ Turn'.proc # "loop" /\ \A m \in Motors : ~Passed(m)'
         \/ /\ AfterWord /\ Turn.b \in Motors
            /\ i.arg = "stopped" /\ i.node = Turn.b
            /\ Turn'.proc = "loop" => Zustand'
            /\ \A m \in Motors : Passed(m)' => Passed(m) \/ m = Turn.b
         \/ /\ AfterWord /\ i.arg = "op" /\ i.node = AllNodes
            /\ Turn'.proc = "loop" /\ ~Zustand'
  BY <1>1, <1>2, NextNmt
<1>7. HavePower'
  BY <1>1, <1>6 DEF HavePower
<1> HIDE DEF i
<1>8. ASSUME AfterWord, f \in Frames, f # NoFrame
      PROVE  /\ \E k \in Mailboxes : tx'.box[k] = f
             /\ \A k \in Mailboxes :
                   tx'.box[k] # NoFrame /\ tx'.box[k].kind = "nmt" => tx'.box[k] = f
  <2>1. SendsAtOnce(tx) /\ NoNmtWaits /\ tx \in TxRecord(Frames)
    BY <1>8 DEF NmtFollows, ReadyToSend, IInv, TypeOK
  <2>2. NmtBuffer \in TxBuffers
    BY SafetyAssumption
  <2> HIDE DEF f
  <2>3. \E k \in Mailboxes : tx'.box = [tx.box EXCEPT ![k] = f]
    BY <1>1, <1>8, <2>1, <2>2, CANsendSpec
  <2>4. tx.box \in [Mailboxes -> Frames \cup {NoFrame}]
    BY <2>1 DEF TxRecord
  <2>5. QED
    BY <2>1, <2>3, <2>4 DEF NoNmtWaits
<1>9. CASE ~Stopping' /\ Turn'.proc # "loop" /\ \A m \in Motors : ~Passed(m)'
  <2>1. ReadyToSend' /\ StopsOnly' /\ StopsFollow' /\ OpsFollow'
    BY <1>6, <1>9 DEF ReadyToSend, StopsOnly, StopsFollow, OpsFollow
  <2>2. QED
    BY <1>5, <1>7, <2>1 DEF NmtFollows
<1>10. CASE /\ AfterWord /\ Turn.b \in Motors
            /\ i.arg = "stopped" /\ i.node = Turn.b
            /\ Turn'.proc = "loop" => Zustand'
            /\ \A m \in Motors : Passed(m)' => Passed(m) \/ m = Turn.b
  <2>1. f = NmtFrame(Turn.b, "stopped")
    BY <1>3, <1>10
  <2>2. /\ f \in Frames /\ f # NoFrame /\ f.what = "stopped"
    <3>1. Turn.b \in 0 .. NumMotors + 1
      BY <1>2 DEF CtxRecord
    <3>2. f \in Frames
      BY <2>1, <3>1 DEF NmtFrame, Frames, NmtCommands
    <3>3. QED
      BY <1>10, <2>1, <3>2, FrameAssumption DEF NmtFrame
  <2> HIDE DEF f
  <2>3. OnlyNmt("stopped")' /\ \A m \in Motors : m = Turn.b => NmtPending(m, "stopped")'
    <3>1. OnlyNmt("stopped")'
      BY <1>8, <1>10, <2>2 DEF OnlyNmt
    <3>2. \E k \in Mailboxes : tx'.box[k] = NmtFrame(Turn.b, "stopped")
      BY <1>8, <1>10, <2>1, <2>2
    <3>3. QED
      BY <3>1, <3>2 DEF NmtPending
  <2>4. ASSUME NEW m \in Motors, Passed(m) PROVE nmt[m] = "stopped"
    <3>1. NoNmtWaits /\ (nmt[m] = "stopped" \/ NmtPending(m, "stopped"))
      BY <1>10, <2>4 DEF NmtFollows, ReadyToSend, StopsFollow
    <3>2. QED
      BY <3>1, NmtFrameType DEF NmtPending, NoNmtWaits, NmtCommands
  <2>5. StopsFollow'
    <3> SUFFICES ASSUME NEW m \in Motors, Passed(m)'
                 PROVE  nmt[m] = "stopped" \/ NmtPending(m, "stopped")'
      BY <1>1 DEF StopsFollow
    <3>1. Passed(m) \/ m = Turn.b
      BY <1>10
    <3>2. QED
      BY <2>3, <2>4, <3>1
  <2>6. ReadyToSend' /\ StopsOnly' /\ OpsFollow'
    BY <1>6, <1>10, <2>3 DEF ReadyToSend, StopsOnly, OpsFollow
  <2>7. QED
    BY <1>5, <1>7, <2>5, <2>6 DEF NmtFollows
<1>11. CASE /\ AfterWord /\ i.arg = "op" /\ i.node = AllNodes
            /\ Turn'.proc = "loop" /\ ~Zustand'
  <2>1. f = NmtFrame(AllNodes, "op")
    BY <1>3, <1>11
  <2>2. /\ f \in Frames /\ f # NoFrame /\ f.what = "op"
    <3>1. f \in Frames
      BY <2>1, NodeType DEF NmtFrame, Frames, NmtCommands, AllNodes
    <3>2. QED
      BY <2>1, <3>1, FrameAssumption DEF NmtFrame
  <2> HIDE DEF f
  <2>3. OnlyNmt("op")' /\ \A m \in Motors : NmtPending(m, "op")'
    <3>1. OnlyNmt("op")'
      BY <1>8, <1>11, <2>2 DEF OnlyNmt
    <3>2. \E k \in Mailboxes : tx'.box[k] = NmtFrame(AllNodes, "op")
      BY <1>8, <1>11, <2>1, <2>2
    <3>3. QED
      BY <3>1, <3>2 DEF NmtPending
  <2>4. ~Stopping' /\ \A m \in Motors : ~Passed(m)'
    BY <1>11 DEF Stopping, Passed
  <2>5. OpsFollow'
    BY <2>3 DEF OpsFollow
  <2>6. ReadyToSend' /\ StopsOnly' /\ StopsFollow'
    BY <1>6, <2>4 DEF ReadyToSend, StopsOnly, StopsFollow
  <2>7. QED
    BY <1>5, <1>7, <2>5, <2>6 DEF NmtFollows
<1>12. QED
  BY <1>5, <1>6, <1>7, <1>9, <1>10, <1>11

\* A step within an instruction.
LEMMA FollowWithin ==
    ASSUME FollowInv, Turn'.proc = Turn.proc, Turn'.b = Turn.b, Turn'.k = Turn.k,
           Zustand' = Zustand, nmt' = nmt, power \subseteq power', SameNmt,
           AfterWord => tx'.box = tx.box /\ tx'.count = tx.count
    PROVE  HavePower' /\ NmtFollows'
<1> USE DEF FollowInv
<1>1. /\ AfterWord' <=> AfterWord
      /\ Stopping' <=> Stopping
      /\ \A m \in Motors : (Passed(m)' <=> Passed(m)) /\ (Answered(m)' <=> Answered(m))
  BY DEF AfterWord, Stopping, Passed, Answered
<1>2. HavePower'
  BY <1>1 DEF HavePower
<1>3. AfterWord' => SendsAtOnce(tx') /\ NoNmtWaits'
  BY <1>1 DEF NmtFollows, ReadyToSend, SendsAtOnce, FreeBoxes, NoNmtWaits
<1>4. NmtFollows'
  BY <1>1, <1>3, NmtStays
<1>5. QED
  BY <1>2, <1>4

\* The steps before a controlword is sent.
LEMMA FollowSetup ==
    ASSUME FollowInv, LockInv', NEW c \in Contexts,
           \/ NmtCommand(c) \/ NmtNode(c)
           \/ SetupRx(c) \/ SetupTx(c)
           \/ SdoBegin(c) \/ SdoFill(c)
    PROVE  WordLoaded' /\ WordAnswered' /\ HavePower' /\ NmtFollows'
<1> USE DEF FollowInv, LockInv
<1>1. /\ pin' = pin /\ nmt' = nmt /\ power' = power
      /\ tx' \in {tx, TxBufferClear(tx, SdoBuffer)}
  BY DEF NmtCommand, NmtNode, SetupRx, SetupTx, SdoBegin, SdoFill, motor
<1>2. tx'.box = tx.box /\ tx'.count = tx.count
  <2>1. tx \in TxRecord(Frames)
    BY DEF IInv, TypeOK
  <2>2. QED
    BY <1>1, <2>1 DEF TxBufferClear, TxRecord
<1>3. SameNmt
  BY <1>2 DEF SameNmt
<1>4. PICK s \in {"command", "node", "rx", "tx", "begin", "fill"} :
         /\ Runs(c, s)
         /\ \/ \E t \in {"node", "send", "tx", "fill", "go"} : ToStep(c, t)
            \/ s \in {"rx", "tx"} /\ ToNextInstr(c)
  BY DEF NmtCommand, NmtNode, SetupRx, SetupTx, SdoBegin, SdoFill
<1>5. Turn.step = s /\ Busy(Turn) /\ Turn \in CtxRecord
  BY <1>4, TurnRuns
<1>6. CASE \E t \in {"node", "send", "tx", "fill", "go"} : ToStep(c, t)
  <2>1. PICK t \in {"node", "send", "tx", "fill", "go"} : ToStep(c, t)
    BY <1>6
  <2>2. /\ Turn'.proc = Turn.proc /\ Turn'.b = Turn.b /\ Turn'.k = Turn.k /\ Turn'.step = t
        /\ Zustand' = Zustand
    BY <1>1, <1>4, <2>1, TurnToStep DEF Steps
  <2>3. WordLoaded' /\ WordAnswered'
    BY <2>2, NoWord DEF Awaiting
  <2>4. HavePower' /\ NmtFollows'
    BY <1>1, <1>2, <1>3, <2>2, FollowWithin
  <2>5. QED
    BY <2>3, <2>4
<1>7. CASE s \in {"rx", "tx"} /\ ToNextInstr(c)
  <2>1. Instruction(Turn).op = "setup"
    BY <1>5, <1>7, StepPlace
  <2>2. WordLoaded' /\ WordAnswered'
    BY <1>1, <1>4, <1>7, <2>1, NextTurn, NoWord
  <2>3. /\ ~AfterWord' /\ Turn'.proc # "loop" /\ (Stopping' => Stopping)
        /\ \A m \in Motors : (Passed(m)' => Passed(m)) /\ (Answered(m)' => Answered(m))
    BY <1>1, <1>4, <1>7, <2>1, NextNmt
  <2>4. NmtFollows'
    BY <1>1, <1>3, <2>3, NmtStays
  <2>5. HavePower'
    BY <1>1, <2>3 DEF HavePower
  <2>6. QED
    BY <2>2, <2>4, <2>5
<1>8. QED
  BY <1>4, <1>6, <1>7

\* An SDO request is sent: a controlword that is not put into a mailbox now is
\* never under way.
LEMMA FollowSend ==
    ASSUME FollowInv, LockInv', NEW c \in Contexts, SdoSend(c)
    PROVE  WordLoaded' /\ WordAnswered' /\ HavePower' /\ NmtFollows'
<1> USE DEF FollowInv, LockInv
<1> DEFINE f == SdoFrame(sdo.txid, sdo.out)
<1>1. /\ pin' = pin /\ nmt' = nmt /\ power' = power /\ reply' = reply
      /\ Runs(c, "go") /\ ToStep(c, "poll")
      /\ sdo' = SDOclientSend(sdo) /\ tx' = CANsend(tx, SdoBuffer, f)
  BY DEF SdoSend, motor
<1>2. sdo \in SdoRecord /\ tx \in TxRecord(Frames)
  BY DEF IInv, TypeOK
<1>3. /\ Turn.step = "go" /\ Busy(Turn) /\ Turn \in CtxRecord
      /\ Instruction(Turn).op \in {"write", "read"}
  BY <1>1, TurnRuns, StepPlace
<1>4. /\ Turn'.proc = Turn.proc /\ Turn'.b = Turn.b /\ Turn'.k = Turn.k
      /\ Zustand' = Zustand
  BY <1>1, TurnToStep DEF Steps
<1>5. WordBoxes = {} /\ ~AckHeld' /\ \A m \in Motors : ~AckSent(m)'
  <2>1. ~Awaiting
    BY <1>3 DEF Awaiting
  <2>2. WordBoxes = {} /\ \A m \in Motors : ~AckSent(m)
    BY <2>1 DEF OneWord
  <2>3. ~sdo'.new
    BY <1>1, <1>2 DEF SDOclientSend, SdoRecord
  <2>4. QED
    BY <1>1, <2>2, <2>3 DEF AckHeld, AckSent
<1>6. f \in Frames /\ f.kind = "sdo"
  BY <1>2, SdoFrameType DEF SdoFrame
<1> HIDE DEF f
<1>7. WordBoxes' # {} => tx'.count = 0
  <2>1. SdoBuffer \in TxBuffers
    BY SdoAssumption
  <2>2. CASE SendsAtOnce(tx)
    BY <1>1, <1>2, <1>6, <2>1, <2>2, CANsendSpec DEF SendsAtOnce
  <2>3. CASE ~SendsAtOnce(tx)
    <3>1. tx'.box = tx.box
      BY <1>1, <1>2, <1>6, <2>1, <2>3, CANsendSpec
    <3>2. QED
      BY <1>5, <3>1 DEF WordBoxes
  <2>4. QED
    BY <2>2, <2>3
<1>8. WordLoaded' /\ WordAnswered'
  BY <1>5, <1>7 DEF WordLoaded, WordAnswered
<1>9. SameNmt
  <2>1. Loaded(tx, tx', f)
    BY <1>1, <1>2, <1>6, SendLoads
  <2>2. QED
    BY <1>6, <2>1, SameBoxes
<1>10. ~AfterWord
  <2>1. Place(Turn, Instruction(Turn), Len(Block(Turn.proc, Turn.b)))
    BY <1>3, BlockTable
  <2>2. Turn.b \in Motors /\ ~(Turn.proc = "stop" /\ Turn.k = 3)
    BY <1>3, <2>1 DEF Place, WritePlace, ReadPlace
  <2>3. QED
    BY <2>2, NodeType DEF AfterWord, Motors
<1>11. HavePower' /\ NmtFollows'
  BY <1>1, <1>4, <1>9, <1>10, FollowWithin
<1>12. QED
  BY <1>8, <1>11

\* A poll that leaves the transfer in the state "download" leaves the driver's
\* counter and the mailboxes alone; one that ends it leaves all of the driver.
LEMMA PollKeeps ==
    ASSUME NEW s \in SdoRecord, NEW t \in TxRecord(Frames)
    PROVE  LET r == SDOclientPoll(s, t, "download") IN
           /\ r.sdo.state = "download" => /\ s.state = "download"
                                          /\ r.tx.box = t.box /\ r.tx.count = t.count
           /\ r.ret = "communicationEnd" => s.state = "download" /\ r.tx = t
<1> DEFINE ended == [s EXCEPT !.state = "idle", !.new = FALSE]
           v == AfterRx(s)
           u == AfterTimer(v)
           cleared == TxBufferClear(t, SdoBuffer)
           Good(r) == r.sdo.state = "download" => /\ s.state = "download"
                                                  /\ r.tx.box = t.box /\ r.tx.count = t.count
<1>1. ended.state = "idle"
  BY DEF SdoRecord
<1>2. u \in SdoRecord /\ (u.state = "download" => s.state = "download")
  <2>1. v \in SdoRecord
    BY SdoOpsType
  <2>2. v.state = "download" => s.state = "download"
    BY DEF AfterRx, SdoRecord
  <2> HIDE DEF v
  <2>3. u \in SdoRecord /\ u.state = v.state
    BY <2>1, SdoOpsType DEF AfterTimer, SdoRecord
  <2>4. QED
    BY <2>2, <2>3
<1>3. cleared.box = t.box /\ cleared.count = t.count
  BY DEF TxBufferClear, TxRecord
<1> HIDE DEF u, v, cleared, ended
<1>4. Aborted(u).state = "idle"
  BY <1>2 DEF Aborted, SdoRecord
<1>5. Good(SDOclientTransmit(u, t)) /\ SDOclientTransmit(u, t).ret # "communicationEnd"
  <2>1. CASE u.state = "abort"
    BY <1>4, <2>1 DEF SDOclientTransmit
  <2>2. CASE u.state # "abort"
    <3> DEFINE z == [u EXCEPT !.out = "zero"]
    <3>1. z.state = u.state
      BY <1>2 DEF SdoRecord
    <3>2. SDOclientTransmit(u, t) = [sdo |-> z, ret |-> "waiting", tx |-> cleared]
      BY <2>2 DEF SDOclientTransmit, cleared
    <3> HIDE DEF z
    <3>3. QED
      BY <1>2, <1>3, <3>1, <3>2
  <2>3. QED
    BY <2>1, <2>2
<1>6. Good(SDOclientContinue(u, t)) /\ SDOclientContinue(u, t).ret # "communicationEnd"
  <2>1. CASE u.timer = SdoPolls
    BY <1>4, <2>1 DEF SDOclientContinue
  <2>2. CASE u.timer # SdoPolls /\ SdoBuffer \in t.full
    BY <1>2, <2>2 DEF SDOclientContinue
  <2>3. CASE u.timer # SdoPolls /\ SdoBuffer \notin t.full
    BY <1>5, <2>3 DEF SDOclientContinue
  <2>4. QED
    BY <2>1, <2>2, <2>3
<1>7. CASE s.new /\ s.data = "abort"
  <2>1. SDOclientPoll(s, t, "download") = [sdo |-> ended, tx |-> t, ret |-> "serverAbort"]
    BY <1>7 DEF SDOclientPoll, ended
  <2>2. QED
    BY <1>1, <2>1
<1>8. CASE ~(s.new /\ s.data = "abort") /\ EndsTransfer(s, "download")
  <2>1. SDOclientPoll(s, t, "download") = [sdo |-> ended, tx |-> t, ret |-> "communicationEnd"]
    BY <1>8 DEF SDOclientPoll, ended
  <2>2. s.state = "download"
    BY <1>8 DEF EndsTransfer
  <2>3. QED
    BY <1>1, <2>1, <2>2
<1>9. CASE ~(s.new /\ s.data = "abort") /\ ~EndsTransfer(s, "download")
  <2>1. SDOclientPoll(s, t, "download") = SDOclientContinue(u, t)
    BY <1>9 DEF SDOclientPoll, u, v
  <2>2. QED
    BY <1>6, <2>1
<1>10. QED
  BY <1>7, <1>8, <1>9

\* Send_SDO waits: it ends when the answer is there, and then the driver is
\* ready for the NMT command that follows.
LEMMA FollowPoll ==
    ASSUME FollowInv, LockInv', NEW c \in Contexts, PollDownload(c)
    PROVE  WordLoaded' /\ WordAnswered' /\ HavePower' /\ NmtFollows'
<1> USE DEF FollowInv, LockInv
<1> DEFINE f == SdoFrame(sdo.txid, "abort")
<1>1. /\ pin' = pin /\ nmt' = nmt /\ power' = power /\ reply' = reply
      /\ Runs(c, "poll") /\ Instr(c).op = "write"
      /\ sdo' = SDOclientPoll(sdo, tx, "download").sdo
      /\ tx' = SDOclientPoll(sdo, tx, "download").tx
      /\ IF SDOclientPoll(sdo, tx, "download").ret = "communicationEnd"
         THEN ToNextInstr(c) ELSE UNCHANGED <<ctx, Zustand>>
  BY DEF PollDownload, motor
<1>2. sdo \in SdoRecord /\ tx \in TxRecord(Frames)
  BY DEF IInv, TypeOK
<1>3. Turn.step = "poll" /\ Instruction(Turn).op = "write" /\ Busy(Turn) /\ Turn \in CtxRecord
  BY <1>1, TurnRuns
<1>4. /\ sdo'.state = "download" =>
            sdo.state = "download" /\ tx'.box = tx.box /\ tx'.count = tx.count
      /\ ~sdo'.new
      /\ SDOclientPoll(sdo, tx, "download").ret = "communicationEnd" =>
            sdo.state = "download" /\ tx' = tx /\ AckHeld
  BY <1>1, <1>2, PollKeeps, PollEffect DEF AckHeld
<1>5. Loaded(tx, tx', f)
  BY <1>1, <1>2, PollEffect
<1>6. SameNmt
  <2>1. f.kind = "sdo"
    BY DEF SdoFrame
  <2>2. QED
    BY <1>5, <2>1, SameBoxes
<1> HIDE DEF f
<1>7. CASE SDOclientPoll(sdo, tx, "download").ret = "communicationEnd"
  <2>1. sdo.state = "download" /\ tx' = tx /\ AckHeld /\ ToNextInstr(c)
    BY <1>1, <1>4, <1>7
  <2>2. SendsAtOnce(tx) /\ NoNmtWaits /\ Turn.b \in power
    BY <2>1 DEF WordLoaded, WordAnswered
  <2>3. WordLoaded' /\ WordAnswered'
    BY <1>1, <1>3, <2>1, NextTurn, NoWord
  <2>4. /\ Turn'.proc # "loop"
        /\ \A m \in Motors : (Passed(m)' => Passed(m)) /\ (Answered(m)' => Answered(m) \/ m = Turn.b)
    BY <1>1, <1>3, <2>1, NextNmt
  <2>5. SendsAtOnce(tx') /\ NoNmtWaits'
    BY <2>1, <2>2 DEF NoNmtWaits
  <2>6. NmtFollows'
    BY <1>1, <1>6, <2>4, <2>5, NmtStays
  <2>7. HavePower'
    BY <1>1, <2>2, <2>4 DEF HavePower
  <2>8. QED
    BY <2>3, <2>6, <2>7
<1>8. CASE SDOclientPoll(sdo, tx, "download").ret # "communicationEnd"
  <2>1. Turn' = Turn /\ Zustand' = Zustand
    BY <1>1, <1>8 DEF Turn
  <2>2. WordLoaded' /\ WordAnswered'
    BY <1>1, <1>4 DEF WordLoaded, WordAnswered, WordBoxes, AckHeld, AckSent, SendsAtOnce, FreeBoxes
  <2>3. ~AfterWord
    <3>1. Place(Turn, Instruction(Turn), Len(Block(Turn.proc, Turn.b)))
      BY <1>3, BlockTable
    <3>2. Turn.b \in Motors /\ ~(Turn.proc = "stop" /\ Turn.k = 3)
      BY <1>3, <3>1 DEF Place, WritePlace
    <3>3. QED
      BY <3>2, NodeType DEF AfterWord, Motors
  <2>4. HavePower' /\ NmtFollows'
    BY <1>1, <1>6, <2>1, <2>3, FollowWithin
  <2>5. QED
    BY <2>2, <2>4
<1>9. QED
  BY <1>7, <1>8

\* The routines begin: nothing is promised of any motor yet.
LEMMA FollowMain ==
    ASSUME FollowInv, LockInv', PollUpload \/ StartMotors \/ TIM3_IRQHandler
    PROVE  WordLoaded' /\ WordAnswered' /\ HavePower' /\ NmtFollows'
<1> USE DEF FollowInv, LockInv
<1>1. \/ Turn' = Resting("wait")
      \/ \E m \in Motors : Turn' = At("detect", m, 1)
      \/ \E p \in {"stop", "reset"} :
            /\ Turn' = At(p, 0, 1)
            /\ p = "stop" => Turn = Resting("loop")
  BY MainTurn
<1>2. /\ Turn'.step \in {"none", "rx", "command"}
      /\ Turn'.k = 1
      /\ \/ Turn'.proc \in {"wait", "detect"}
         \/ /\ Turn'.proc \in {"stop", "reset"} /\ Turn'.b = 0
            /\ Turn'.proc = "stop" => Turn.proc = "loop"
  BY <1>1, FirstPlace DEF Resting
<1>3. WordLoaded' /\ WordAnswered'
  BY <1>2, NoWord DEF Awaiting
<1>4. \A m \in Motors : m \in Nat /\ m > 0
  BY DEF Motors
<1>5. ReadyToSend' /\ StopsOnly' /\ StopsFollow' /\ OpsFollow'
  BY <1>2, <1>4, NodeType DEF ReadyToSend, AfterWord, StopsOnly, Stopping, StopsFollow, Passed, OpsFollow
<1>6. power' = power
  BY DEF PollUpload, StartMotors, TIM3_IRQHandler, motor
<1>7. HavePower'
  BY <1>2, <1>4, <1>6 DEF HavePower, Answered
<1>8. QED
  BY <1>3, <1>5, <1>7 DEF NmtFollows

\* An NMT command arrives: the motors that have voltage obey.
LEMMA FollowNmtBus ==
    ASSUME FollowInv, NEW box \in Mailboxes, NmtDelivered(box)
    PROVE  WordLoaded' /\ WordAnswered' /\ HavePower' /\ NmtFollows'
<1> USE DEF FollowInv, LockInv
<1> DEFINE f == tx.box[box]
<1>1. /\ Zustand' = Zustand /\ ctx' = ctx /\ sdo' = sdo /\ power' = power /\ reply' = reply
      /\ tx' = MailboxDone(tx, box) /\ f # NoFrame /\ f.kind = "nmt"
      /\ nmt' = [m \in Motors |-> IF m \in power /\ f.node \in {m, AllNodes}
                                  THEN f.what ELSE nmt[m]]
  BY DEF NmtDelivered
<1>2. Turn' = Turn
  BY <1>1 DEF Turn
<1>3. tx \in TxRecord(Frames) /\ tx.box \in [Mailboxes -> Frames \cup {NoFrame}]
  BY DEF IInv, TypeOK, TxRecord
<1>4. /\ tx'.count = tx.count
      /\ \A k \in Mailboxes : tx'.box[k] = IF k = box THEN NoFrame ELSE tx.box[k]
  BY <1>1, <1>3 DEF MailboxDone, TxRecord
<1>5. ~NoNmtWaits
  BY <1>1 DEF NoNmtWaits
<1>6. SendsAtOnce(tx) => SendsAtOnce(tx')
  BY <1>4 DEF SendsAtOnce, FreeBoxes
<1>7. /\ WordBoxes' # {} => WordBoxes # {}
      /\ AckHeld' <=> AckHeld
      /\ \A m \in Motors : AckSent(m)' <=> AckSent(m)
  BY <1>1, <1>4 DEF WordBoxes, AckHeld, AckSent
<1>8. WordLoaded' /\ WordAnswered'
  BY <1>1, <1>2, <1>4, <1>5, <1>6, <1>7 DEF WordLoaded, WordAnswered
<1>9. HavePower'
  BY <1>1, <1>2 DEF HavePower, Answered
<1>10. ~AfterWord'
  BY <1>2, <1>5 DEF NmtFollows, ReadyToSend, AfterWord
<1>11. StopsOnly'
  BY <1>1, <1>2, <1>4 DEF NmtFollows, StopsOnly, Stopping, OnlyNmt
<1>12. ASSUME NEW m \in Motors, m \in power, NEW what \in NmtCommands, OnlyNmt(what),
              nmt[m] = what \/ NmtPending(m, what)
       PROVE  nmt'[m] = what \/ NmtPending(m, what)'
  <2>1. f.what = what
    BY <1>1, <1>12 DEF OnlyNmt
  <2>2. CASE f.node \in {m, AllNodes}
    BY <1>1, <1>12, <2>1, <2>2
  <2>3. CASE f.node \notin {m, AllNodes}
    <3>1. nmt'[m] = nmt[m]
      BY <1>1, <2>3
    <3>2. ASSUME NmtPending(m, what) PROVE NmtPending(m, what)'
      <4>1. PICK k \in Mailboxes : tx.box[k] \in {NmtFrame(m, what), NmtFrame(AllNodes, what)}
        BY <3>2 DEF NmtPending
      <4>2. k # box
        BY <2>3, <4>1, <1>12, NmtFrameType
      <4>3. QED
        BY <1>4, <4>1, <4>2 DEF NmtPending
    <3>3. QED
      BY <1>12, <3>1, <3>2
  <2>4. QED
    BY <2>2, <2>3
<1>13. "stopped" \in NmtCommands /\ "op" \in NmtCommands
  BY DEF NmtCommands
<1>14. StopsFollow'
  <2> SUFFICES ASSUME NEW m \in Motors, Passed(m)'
               PROVE  nmt'[m] = "stopped" \/ NmtPending(m, "stopped")'
    BY DEF StopsFollow
  <2>1. Passed(m)
    BY <1>1, <1>2 DEF Passed
  <2>2. m \in power
    BY <2>1 DEF HavePower, Answered, Passed
  <2>3. OnlyNmt("stopped")
    <3>1. NumMotors \in Nat /\ m \in Nat /\ m > 0 /\ (Turn.proc = "stop" => Turn.b \in Nat)
      <4>1. Turn \in CtxRecord
        BY TurnType
      <4>2. QED
        BY <4>1, NodeType DEF CtxRecord, Motors
    <3>2. Stopping
      BY <2>1, <3>1 DEF Passed, Stopping
    <3>3. QED
      BY <3>2 DEF NmtFollows, StopsOnly
  <2>4. nmt[m] = "stopped" \/ NmtPending(m, "stopped")
    BY <2>1 DEF NmtFollows, StopsFollow
  <2>5. QED
    BY <1>12, <1>13, <2>2, <2>3, <2>4
<1>15. OpsFollow'
  <2> SUFFICES ASSUME (Turn.proc = "loop" /\ ~Zustand)'
               PROVE  OnlyNmt("op")' /\ \A m \in Motors : (nmt[m] = "op" \/ NmtPending(m, "op"))'
    BY DEF OpsFollow
  <2>1. Turn.proc = "loop" /\ ~Zustand
    BY <1>1, <1>2
  <2>2. OnlyNmt("op") /\ \A m \in Motors : nmt[m] = "op" \/ NmtPending(m, "op")
    BY <2>1 DEF NmtFollows, OpsFollow
  <2>3. OnlyNmt("op")'
    BY <1>4, <2>2 DEF OnlyNmt
  <2>4. ASSUME NEW m \in Motors PROVE (nmt[m] = "op" \/ NmtPending(m, "op"))'
    <3>1. m \in power
      BY <2>1 DEF HavePower, Answered
    <3>2. nmt[m] = "op" \/ NmtPending(m, "op")
      BY <2>2
    <3>3. QED
      BY <1>12, <1>13, <2>2, <3>1, <3>2
  <2>5. QED
    BY <2>3, <2>4
<1>16. ReadyToSend'
  BY <1>10 DEF ReadyToSend
<1>17. QED
  BY <1>8, <1>9, <1>11, <1>14, <1>15, <1>16 DEF NmtFollows

\* An SDO frame arrives: the mailbox of an answered controlword is free.
LEMMA FollowSdoBus ==
    ASSUME FollowInv, NEW box \in Mailboxes, SdoDelivered(box)
    PROVE  WordLoaded' /\ WordAnswered' /\ HavePower' /\ NmtFollows'
<1> USE DEF FollowInv, LockInv
<1> DEFINE f == tx.box[box]
<1>1. /\ Zustand' = Zustand /\ ctx' = ctx /\ sdo' = sdo /\ power' = power /\ nmt' = nmt
      /\ tx' = MailboxDone(tx, box) /\ f # NoFrame /\ NoNmtWaits
      /\ \A m \in Motors : reply[m] = "none"
      /\ \/ f.node \in power /\ Serve(f.node, f.what)
         \/ UNCHANGED <<drive, reply>>
  BY DEF SdoDelivered
<1>2. Turn' = Turn
  BY <1>1 DEF Turn
<1>3. /\ tx \in TxRecord(Frames) /\ tx.box \in [Mailboxes -> Frames \cup {NoFrame}]
      /\ reply \in [Motors -> Answers \cup {"none"}] /\ power \subseteq Motors
  BY DEF IInv, TypeOK, TxRecord
<1>4. /\ tx'.count = tx.count
      /\ \A k \in Mailboxes : tx'.box[k] = IF k = box THEN NoFrame ELSE tx.box[k]
  BY <1>1, <1>3 DEF MailboxDone, TxRecord
<1>5. f.kind = "sdo" /\ SameNmt
  <2>1. f.kind = "sdo"
    BY <1>1, <1>3 DEF NoNmtWaits, Frames
  <2>2. QED
    BY <1>1, <1>4, <2>1 DEF SameNmt
<1>6. FreeBoxes(tx') # {} /\ NoNmtWaits'
  BY <1>1, <1>4 DEF FreeBoxes, NoNmtWaits
<1>7. ASSUME NEW m \in Motors, AckSent(m)'
      PROVE  m \in power /\ WordBoxes # {}
  <2>1. reply'[m] = "ack" /\ reply' # reply
    BY <1>1, <1>7 DEF AckSent
  <2>2. f.node \in power /\ Serve(f.node, f.what)
    BY <1>1, <2>1
  <2>3. f.what \in Words /\ m = f.node
    BY <1>1, <1>3, <2>1, <2>2 DEF Serve
  <2>4. QED
    BY <1>1, <1>5, <2>2, <2>3 DEF WordBoxes
<1>8. WordBoxes' # {} => WordBoxes # {}
  BY <1>4 DEF WordBoxes
<1>9. AckHeld' <=> AckHeld
  BY <1>1 DEF AckHeld
<1> HIDE DEF f
<1>10. WordLoaded'
  <2>1. sdo'.state = "download" /\ WordBoxes' # {} => tx'.count = 0
    BY <1>1, <1>4, <1>8 DEF WordLoaded
  <2>2. sdo'.state = "download" /\ (AckHeld' \/ \E m \in Motors : AckSent(m)') => tx'.count = 0
    BY <1>1, <1>4, <1>7, <1>9 DEF WordLoaded, SendsAtOnce
  <2>3. QED
    BY <1>6, <2>1, <2>2 DEF WordLoaded, SendsAtOnce
<1>11. WordAnswered'
  BY <1>1, <1>2, <1>6, <1>7, <1>9 DEF WordAnswered
<1>12. HavePower' /\ NmtFollows'
  <2>1. /\ AfterWord' <=> AfterWord
        /\ Stopping' <=> Stopping
        /\ \A m \in Motors : (Passed(m)' <=> Passed(m)) /\ (Answered(m)' <=> Answered(m))
    BY <1>1, <1>2 DEF AfterWord, Stopping, Passed, Answered
  <2>2. AfterWord' => SendsAtOnce(tx') /\ NoNmtWaits'
    BY <1>4, <1>6, <2>1 DEF NmtFollows, ReadyToSend, SendsAtOnce
  <2>3. NmtFollows'
    BY <1>1, <1>2, <1>5, <2>1, <2>2, NmtStays
  <2>4. QED
    BY <1>1, <2>1, <2>3 DEF HavePower
<1>13. QED
  BY <1>10, <1>11, <1>12

\* An answer is received, a motor gets its voltage, or the curtain changes.
LEMMA FollowWorld ==
    ASSUME FollowInv, Sound,
           \/ \E m \in Motors : AnswerReceived(m) \/ PowerUp(m) \/ PowerLost(m)
           \/ CurtainChanges
    PROVE  WordLoaded' /\ WordAnswered' /\ HavePower' /\ NmtFollows'
<1> USE DEF FollowInv, LockInv
<1>1. /\ Zustand' = Zustand /\ ctx' = ctx /\ tx' = tx /\ nmt' = nmt /\ power \subseteq power'
  BY DEF AnswerReceived, PowerUp, PowerLost, CurtainChanges, code, motor, Sound
<1>2. Turn' = Turn /\ SameNmt
  BY <1>1 DEF Turn, SameNmt
<1>3. HavePower' /\ NmtFollows'
  BY <1>1, <1>2, FollowWithin
<1>4. ASSUME NEW m \in Motors, AnswerReceived(m)
      PROVE  WordLoaded' /\ WordAnswered'
  <2>1. /\ power' = power /\ NoNmtWaits
        /\ sdo' \in {sdo, SDOclient_receive(sdo, reply[m])}
        /\ reply' = [reply EXCEPT ![m] = "none"]
    BY <1>4 DEF AnswerReceived
  <2>2. sdo \in SdoRecord /\ reply \in [Motors -> Answers \cup {"none"}]
    BY DEF IInv, TypeOK
  <2>3. sdo'.state = sdo.state /\ (AckHeld' => AckHeld \/ AckSent(m))
    BY <2>1, <2>2 DEF SDOclient_receive, SdoRecord, AckHeld, AckSent
  <2>4. \A n \in Motors : AckSent(n)' => AckSent(n)
    BY <2>1, <2>2 DEF AckSent
  <2>5. AckSent(m) => m = Turn.b
    BY DEF OneWord
  <2>6. WordBoxes' = WordBoxes
    BY <1>1 DEF WordBoxes
  <2>7. WordLoaded'
    BY <1>1, <2>3, <2>4, <2>6 DEF WordLoaded, SendsAtOnce, FreeBoxes
  <2>8. WordAnswered'
    BY <1>1, <1>2, <2>1, <2>3, <2>4, <2>5 DEF WordAnswered, NoNmtWaits
  <2>9. QED
    BY <2>7, <2>8
<1>5. CASE \/ \E m \in Motors : PowerUp(m) \/ PowerLost(m)
           \/ CurtainChanges
  <2>1. sdo' = sdo /\ reply' = reply
    BY <1>5 DEF PowerUp, PowerLost, CurtainChanges, code, motor, Sound
  <2>2. WordLoaded'
    BY <1>1, <2>1 DEF WordLoaded, WordBoxes, AckHeld, AckSent, SendsAtOnce, FreeBoxes
  <2>3. WordAnswered'
    BY <1>1, <1>2, <2>1 DEF WordAnswered, AckHeld, AckSent, NoNmtWaits
  <2>4. QED
    BY <1>3, <2>2, <2>3
<1>6. QED
  BY <1>3, <1>4, <1>5

\* The invariant of motors that follow.
LEMMA FollowHolds == Sound => (Spec => []FollowInv)
<1> SUFFICES ASSUME Sound PROVE Spec => []FollowInv
  OBVIOUS
<1>1. Init => FollowInv
  <2> SUFFICES ASSUME Init PROVE FollowInv
    OBVIOUS
  <2>1. LockInv /\ DrivesOn
    BY InitLock, InitDrivesOn DEF Sound
  <2>2. Turn = At("detect", 1, 1) /\ 1 \in Motors
    BY NodeType DEF Init, Turn, Resting, Motors
  <2>3. Turn.proc = "detect" /\ ~sdo.new /\ \A m \in Motors : reply[m] = "none"
    BY <2>2, FirstPlace DEF Init, SDOclient_init
  <2>4. WordLoaded /\ WordAnswered
    BY <2>3 DEF WordLoaded, WordAnswered, AckHeld, AckSent, Init, SDOclient_init
  <2>5. HavePower /\ NmtFollows
    BY <2>3 DEF HavePower, Answered, NmtFollows, ReadyToSend, AfterWord, StopsOnly, Stopping,
       StopsFollow, Passed, OpsFollow
  <2>6. QED
    BY <2>1, <2>4, <2>5 DEF FollowInv
<1>2. FollowInv /\ [Next]_vars => FollowInv'
  <2> SUFFICES ASSUME FollowInv, [Next]_vars PROVE FollowInv'
    OBVIOUS
  <2>1. LockInv' /\ DrivesOn'
    BY NextLock, NextDrives DEF Sound, FollowInv
  <2>2. SUFFICES WordLoaded' /\ WordAnswered' /\ HavePower' /\ NmtFollows'
    BY <2>1 DEF FollowInv
  <2>3. ASSUME NEW c \in Contexts, Step(c)
        PROVE  WordLoaded' /\ WordAnswered' /\ HavePower' /\ NmtFollows'
    <3>1. LockInv' /\ OneWord'
      BY <2>1 DEF LockInv
    <3>2. CASE NmtSend(c)
      BY <3>1, <3>2, FollowNmt
    <3>3. CASE SdoSend(c)
      BY <3>1, <3>3, FollowSend
    <3>4. CASE PollDownload(c)
      BY <3>1, <3>4, FollowPoll
    <3>5. CASE \/ NmtCommand(c) \/ NmtNode(c)
               \/ SetupRx(c) \/ SetupTx(c)
               \/ SdoBegin(c) \/ SdoFill(c)
      BY <3>1, <3>5, FollowSetup
    <3>6. QED
      BY <2>3, <3>2, <3>3, <3>4, <3>5 DEF Step
  <2>4. CASE PollUpload \/ StartMotors \/ TIM3_IRQHandler
    BY <2>1, <2>4, FollowMain
  <2>5. CASE Bus
    BY <2>5, FollowNmtBus, FollowSdoBus, FollowWorld DEF Bus
  <2>6. CASE \/ \E m \in Motors : PowerUp(m) \/ PowerLost(m)
             \/ CurtainChanges
    BY <2>6, FollowWorld
  <2>7. CASE CommunicationReset
    BY <2>7 DEF CommunicationReset, Sound, Scope
  <2>8. CASE UNCHANGED vars
    BY <2>8
    DEF vars, code, motor, FollowInv, WordLoaded, WordAnswered, WordBoxes, AckHeld, AckSent,
        SendsAtOnce, FreeBoxes, NoNmtWaits, HavePower, Answered, NmtFollows, ReadyToSend, AfterWord,
        StopsOnly, Stopping, StopsFollow, Passed, OpsFollow, OnlyNmt, NmtPending, Turn
  <2>9. QED
    BY <2>3, <2>4, <2>5, <2>6, <2>7, <2>8 DEF Next
<1>3. QED
  BY <1>1, <1>2, PTL DEF Spec

\* Whatever Zustand says, all motors are in it: their drives, and their NMT
\* states but for a command that is in a mailbox.  No NMT command of
\* Stop_Motor or communicationReset waits in the driver for a poll that nobody
\* makes, because the controlword before it left a mailbox free.
THEOREM LockFollowsZustand == Sound => (Spec => []MotorsFollowZustand)
<1>1. FollowInv => MotorsFollowZustand
  <2> SUFFICES ASSUME FollowInv PROVE MotorsFollowZustand
    OBVIOUS
  <2> USE DEF FollowInv, LockInv
  <2>1. EngagedMeansStopped
    <3> SUFFICES ASSUME ctx["tim3"].proc = "idle", Zustand, NEW m \in Motors
                 PROVE  drive[m] # "enabled" /\ (nmt[m] = "stopped" \/ NmtPending(m, "stopped"))
      BY DEF EngagedMeansStopped
    <3>1. Turn.proc = "loop"
      BY DEF HandlerLast, Turn
    <3>2. Passed(m) /\ ShutDown(m)
      BY <3>1 DEF Passed, ShutDown
    <3>3. QED
      BY <3>2 DEF Drives, DrivesOff, NmtFollows, StopsFollow
  <2>2. FreeMeansRunning
    <3> SUFFICES ASSUME ctx["tim3"].proc = "idle", ~Zustand, ctx["main"].proc = "loop",
                        NEW m \in Motors
                 PROVE  drive[m] = "enabled" /\ (nmt[m] = "op" \/ NmtPending(m, "op"))
      BY DEF FreeMeansRunning
    <3>1. Turn.proc = "loop"
      BY DEF Turn
    <3>2. QED
      BY <3>1 DEF DrivesOn, Running, NmtFollows, OpsFollow
  <2>3. QED
    BY <2>1, <2>2 DEF MotorsFollowZustand
<1>2. Sound => (Spec => []FollowInv)
  BY FollowHolds
<1>3. QED
  BY <1>1, <1>2, PTL
=============================================================================
