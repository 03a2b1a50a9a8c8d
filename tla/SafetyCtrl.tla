----------------------------- MODULE SafetyCtrl -----------------------------
(***************************************************************************)
(* The safety controller: main() and the light curtain's timer interrupt   *)
(* TIM3_IRQHandler of safetyctrl/Core/Src/main.c, the motor routines of    *)
(* application.c they both call, and the SDO client, NMT transmit buffer   *)
(* and CAN driver the two share.  TIM3 preempts main between any two       *)
(* steps; the CAN receive interrupt and the bus preempt both.              *)
(*                                                                         *)
(* A routine is a sequence of blocks, a block the instructions for one     *)
(* motor.  A context is the routine it runs, the block and the instruction *)
(* it is at, and the step of that instruction it takes next.               *)
(***************************************************************************)
EXTENDS SdoMasterOps, Sequences

CONSTANTS NumMotors,    \* motors on the bus, 1 .. NumMotors in the order of Stop_Nodes
          NmtBuffer,    \* CO_TXCAN_NMT
          LatePower,    \* motors without voltage when the controller starts
          Faulty,       \* motors that may lose their voltage or refuse a request
          EarlyCurtain, \* may the curtain change before startup is over?
          Prompt,       \* does an answer that is on its way precede the timeout?
          Resets        \* may another master reset the controller?

Motors == 1 .. NumMotors
AllNodes == 0
CanCard == NumMotors + 1  \* node 0x15 of Stop_Nodes

ASSUME SafetyAssumption ==
    /\ NumMotors \in Nat \ {0}
    /\ Nodes = Motors
    /\ NoNode = AllNodes
    /\ Words = {"DisableVoltage", "Shutdown", "SwitchOn", "EnableOperation"}
    /\ NmtBuffer \in TxBuffers /\ NmtBuffer < SdoBuffer
    /\ LatePower \subseteq Motors /\ Faulty \subseteq Motors
    /\ EarlyCurtain \in BOOLEAN /\ Prompt \in BOOLEAN /\ Resets \in BOOLEAN

NmtCommands == {"stopped", "preop", "op"}
NmtFrame(node, what) == [kind |-> "nmt", node |-> node, what |-> what]
Frames == [kind : {"nmt"}, node : 0 .. NumMotors + 1, what : NmtCommands]
            \cup [kind : {"sdo"}, node : 0 .. NumMotors, what : Requests]

\* A mailbox that holds no frame is free.
ASSUME FrameAssumption == NoFrame \notin Frames

-----------------------------------------------------------------------------
(* The routines of application.c. *)

Nmt(command, node) == [op |-> "nmt", node |-> node, arg |-> command]
Start_SDO_Communication(m) == [op |-> "setup", node |-> m, arg |-> "none"]
Send_SDO(m, word) == [op |-> "write", node |-> m, arg |-> word]
ReadStatusword(m) == [op |-> "read", node |-> m, arg |-> "read"]

\* Mutant of Stop_Motor: the node is stopped before its drive is shut down.
StopNodeFirst(m) == <<Start_SDO_Communication(m), Nmt("stopped", m),
                      Send_SDO(m, "Shutdown")>>

Stop_Motor(m) == <<Start_SDO_Communication(m), Send_SDO(m, "Shutdown"),
                   Nmt("stopped", m)>>

init_motor(m) == <<Start_SDO_Communication(m), Send_SDO(m, "DisableVoltage"),
                   Send_SDO(m, "Shutdown"), Send_SDO(m, "SwitchOn"),
                   Send_SDO(m, "EnableOperation")>>

\* One round of motorDetection over one motor.
DetectMotor(m) == <<Start_SDO_Communication(m), ReadStatusword(m)>>

\* The blocks of Stop_Nodes, communicationReset and motorDetection.
Block(proc, b) ==
    CASE proc = "stop" ->
           IF b = 0 THEN <<Nmt("stopped", CanCard)>> ELSE Stop_Motor(b)
      [] proc = "reset" ->
           IF b = 0 THEN <<Nmt("preop", AllNodes)>>
           ELSE IF b \in Motors THEN init_motor(b) ELSE <<Nmt("op", AllNodes)>>
      [] proc = "detect" -> DetectMotor(b)

Blocks(proc) ==
    CASE proc = "stop" -> 0 .. NumMotors
      [] proc = "reset" -> 0 .. NumMotors + 1
      [] proc = "detect" -> Motors

\* Mutant of LastBlock: the last motor is forgotten.
LastBlockShort(proc) == IF proc = "reset" THEN NumMotors + 1 ELSE NumMotors - 1

LastBlock(proc) == IF proc = "reset" THEN NumMotors + 1 ELSE NumMotors

FirstStep(op) == CASE op = "nmt" -> "command"
                   [] op = "setup" -> "rx"
                   [] op \in {"write", "read"} -> "begin"

-----------------------------------------------------------------------------
VARIABLES pin,      \* GPIOC pin 12 reads GPIO_PIN_SET
          Zustand,  \* the interrupt handler's state flag
          ctx,      \* the two contexts, main and tim3
          answered, \* the motors motorDetection has heard
          sdo,      \* CO->SDOclient, see SdoMasterOps
          nmtData,  \* NMTM_txBuff->data
          tx,       \* CO->CANmodule[0], see CanTxOps
          power,    \* the motors that have voltage
          nmt,      \* the motors' NMT states
          drive,    \* the motors' CiA 402 drive states
          reply     \* the answer a motor has not yet put on the bus

code == <<Zustand, ctx, answered, sdo, nmtData, tx>>
motor == <<power, nmt, drive, reply>>
vars == <<pin, code, motor>>

Contexts == {"main", "tim3"}
Procs == {"detect", "wait", "reset", "loop", "idle", "stop"}
Steps == {"none", "command", "node", "send", "rx", "tx", "begin", "fill", "go", "poll"}
DriveStates == {"disabled", "ready", "on", "enabled"}

At(proc, b, k) == [proc |-> proc, b |-> b, k |-> k,
                   step |-> FirstStep(Block(proc, b)[k].op)]
Resting(proc) == [proc |-> proc, b |-> 0, k |-> 1, step |-> "none"]

\* main() up to its call of motorDetection; both timers run.
Init ==
    /\ pin = FALSE /\ Zustand = FALSE
    /\ ctx = [main |-> At("detect", 1, 1), tim3 |-> Resting("idle")]
    /\ answered = {}
    /\ sdo = SDOclient_init
    /\ nmtData = [what |-> "stopped", node |-> AllNodes]
    /\ tx = CANmodule_init
    /\ power = Motors \ LatePower
    /\ nmt = [m \in Motors |-> "preop"]
    /\ drive = [m \in Motors |-> "disabled"]
    /\ reply = [m \in Motors |-> "none"]

-----------------------------------------------------------------------------
(* Contexts. *)

\* The interrupt has priority: main moves only while the handler is not active.
Runs(c, step) ==
    /\ ctx[c].step = step
    /\ c = "main" => ctx["tim3"].proc = "idle"

Instr(c) == Block(ctx[c].proc, ctx[c].b)[ctx[c].k]

\* Mutant of Returns: the routine runs past its last block.
ReturnsLate(x) == x.b > LastBlock(x.proc) /\ x.k = Len(Block(x.proc, x.b))

Returns(x) == x.b = LastBlock(x.proc) /\ x.k = Len(Block(x.proc, x.b))

NextInstr(x) ==
    IF x.k < Len(Block(x.proc, x.b)) THEN At(x.proc, x.b, x.k + 1)
                                     ELSE At(x.proc, x.b + 1, 1)

ToStep(c, step) == ctx' = [ctx EXCEPT ![c].step = step] /\ UNCHANGED Zustand

\* The instruction is done.  With its last one the handler sets Zustand and
\* returns, and main enters its loop.
ToNextInstr(c) ==
    IF Returns(ctx[c])
    THEN /\ ctx' = [ctx EXCEPT ![c] = Resting(IF c = "main" THEN "loop" ELSE "idle")]
         /\ Zustand' = IF c = "tim3" THEN ctx[c].proc = "stop" ELSE Zustand
    ELSE ctx' = [ctx EXCEPT ![c] = NextInstr(@)] /\ UNCHANGED Zustand

\* Identifier arbitration: NMT has identifier 0, an SDO answer 0x580 + node,
\* an SDO request 0x600 + node.
NoNmtWaits == \A box \in Mailboxes :
                 tx.box[box] # NoFrame => tx.box[box].kind # "nmt"

\* With Prompt the handler's xprintf takes longer than an NMT frame, so that no
\* NMT command waits when the handler is entered again.
Settled == Prompt => NoNmtWaits

\* Mutant of TIM3_IRQHandler: the state flag is not tested.
TIM3_WithoutZustand ==
    /\ ctx["tim3"].proc = "idle" /\ Settled
    /\ ctx' = [ctx EXCEPT !["tim3"] = At(IF pin THEN "stop" ELSE "reset", 0, 1)]
    /\ UNCHANGED <<pin, Zustand, answered, sdo, nmtData, tx, motor>>

\* Mutant of TIM3_IRQHandler: the pin's levels are swapped.
TIM3_Inverted ==
    /\ ctx["tim3"].proc = "idle" /\ Settled
    /\ pin = Zustand
    /\ ctx' = [ctx EXCEPT !["tim3"] = At(IF pin THEN "reset" ELSE "stop", 0, 1)]
    /\ UNCHANGED <<pin, Zustand, answered, sdo, nmtData, tx, motor>>

\* TIM3_IRQHandler, when the pin disagrees with Zustand.
TIM3_IRQHandler ==
    /\ ctx["tim3"].proc = "idle" /\ Settled
    /\ pin # Zustand
    /\ ctx' = [ctx EXCEPT !["tim3"] = At(IF pin THEN "stop" ELSE "reset", 0, 1)]
    /\ UNCHANGED <<pin, Zustand, answered, sdo, nmtData, tx, motor>>

\* CO_sendNMTcommand: its two assignments to the shared buffer and CO_CANsend.
NmtCommand(c) ==
    /\ Runs(c, "command")
    /\ nmtData' = [nmtData EXCEPT !.what = Instr(c).arg]
    /\ ToStep(c, "node")
    /\ UNCHANGED <<pin, answered, sdo, tx, motor>>

NmtNode(c) ==
    /\ Runs(c, "node")
    /\ nmtData' = [nmtData EXCEPT !.node = Instr(c).node]
    /\ ToStep(c, "send")
    /\ UNCHANGED <<pin, answered, sdo, tx, motor>>

NmtSend(c) ==
    /\ Runs(c, "send")
    /\ tx' = CANsend(tx, NmtBuffer, NmtFrame(nmtData.node, nmtData.what))
    /\ ToNextInstr(c)
    /\ UNCHANGED <<pin, answered, sdo, nmtData, motor>>

\* CO_SDOclient_setup: the buffers are configured only when the node differs
\* from the one of the last call.
SetupRx(c) ==
    /\ Runs(c, "rx")
    /\ sdo' = SDOclient_setupRx(sdo, Instr(c).node)
    /\ IF sdo.prev = Instr(c).node THEN ToNextInstr(c) ELSE ToStep(c, "tx")
    /\ UNCHANGED <<pin, answered, nmtData, tx, motor>>

SetupTx(c) ==
    /\ Runs(c, "tx")
    /\ sdo' = SDOclient_setupTx(sdo, Instr(c).node)
    /\ tx' = TxBufferClear(tx, SdoBuffer)
    /\ ToNextInstr(c)
    /\ UNCHANGED <<pin, answered, nmtData, motor>>

\* CO_SDOclientDownloadInitiate and CO_SDOclientUploadInitiate.
Transfer(c) == IF Instr(c).op = "read" THEN "upload" ELSE "download"

SdoBegin(c) ==
    /\ Runs(c, "begin")
    /\ sdo' = SDOclientBegin(sdo, Transfer(c))
    /\ tx' = TxBufferClear(tx, SdoBuffer)
    /\ ToStep(c, "fill")
    /\ UNCHANGED <<pin, answered, nmtData, motor>>

SdoFill(c) ==
    /\ Runs(c, "fill")
    /\ sdo' = SDOclientFill(sdo, Instr(c).arg)
    /\ ToStep(c, "go")
    /\ UNCHANGED <<pin, answered, nmtData, tx, motor>>

SdoSend(c) ==
    /\ Runs(c, "go")
    /\ sdo' = SDOclientSend(sdo)
    /\ tx' = CANsend(tx, SdoBuffer, SdoFrame(sdo.txid, sdo.out))
    /\ ToStep(c, "poll")
    /\ UNCHANGED <<pin, answered, nmtData, motor>>
\* An NMT command, a request some motor will serve or an answer is under way.
\* With Prompt it gets there before the client's timer runs out.
Underway ==
    \/ ~NoNmtWaits
    \/ \E m \in Motors : reply[m] # "none"
    \/ \E box \in Mailboxes :
         LET f == tx.box[box]
         IN  /\ f # NoFrame
             /\ f.kind = "sdo" /\ f.what # "abort"
             /\ f.node \in power /\ nmt[f.node] # "stopped"

InTime == Prompt /\ Underway => sdo.timer < SdoPolls - 1

\* The loop of Send_SDO: CO_SDOclientDownload until it returns 0.
PollDownload(c) ==
    /\ Runs(c, "poll") /\ Instr(c).op = "write"
    /\ InTime
    /\ LET r == SDOclientPoll(sdo, tx, "download")
       IN  /\ sdo' = r.sdo /\ tx' = r.tx
           /\ IF r.ret = "communicationEnd" THEN ToNextInstr(c)
                                            ELSE UNCHANGED <<ctx, Zustand>>
    /\ UNCHANGED <<pin, answered, nmtData, motor>>

\* Does motorDetection ask motor m after motor b?  It is the next one of the
\* round that has not answered, or the first one of the next round.
AsksNext(m, b, heard) ==
    LET later == {o \in Motors \ heard : o > b}
        asked == IF later # {} THEN later ELSE Motors \ heard
    IN  m \in asked /\ \A o \in asked : m <= o

\* motorDetection looks once for the answer, a millisecond after the request:
\* with Prompt it is there.
PollUpload ==
    /\ Runs("main", "poll") /\ Instr("main").op = "read"
    /\ Prompt => ~Underway
    /\ LET r == SDOclientPoll(sdo, tx, "upload")
           heard == IF r.ret = "communicationEnd"
                    THEN answered \cup {ctx["main"].b} ELSE answered
       IN  /\ sdo' = r.sdo /\ tx' = r.tx /\ answered' = heard
           /\ \/ /\ heard = Motors
                 /\ ctx' = [ctx EXCEPT !["main"] = Resting("wait")]
              \/ \E m \in Motors :
                    /\ AsksNext(m, ctx["main"].b, heard)
                    /\ ctx' = [ctx EXCEPT !["main"] = At("detect", m, 1)]
    /\ UNCHANGED <<pin, Zustand, nmtData, motor>>

\* With Prompt no message is under way after half a minute.
Quiet == Prompt => ~Underway

\* HAL_Delay(30000) is over: main calls communicationReset.
StartMotors ==
    /\ ctx["main"].proc = "wait" /\ ctx["tim3"].proc = "idle" /\ Quiet
    /\ ctx' = [ctx EXCEPT !["main"] = At("reset", 0, 1)]
    /\ UNCHANGED <<pin, Zustand, answered, sdo, nmtData, tx, motor>>

\* CO_process returned CO_RESET_COMM: main runs CO_init and starts again.  The
\* timer interrupt stays enabled, Zustand keeps its value, and a frame already
\* in a mailbox stays there.
CommunicationReset ==
    /\ Resets
    /\ ctx["main"].proc = "loop" /\ ctx["tim3"].proc = "idle"
    /\ ctx' = [ctx EXCEPT !["main"] = At("detect", 1, 1)]
    /\ answered' = {}
    /\ sdo' = SDOclient_init
    /\ tx' = [CANmodule_init EXCEPT !.box = tx.box]
    /\ UNCHANGED <<pin, Zustand, nmtData, motor>>

Step(c) == \/ NmtCommand(c) \/ NmtNode(c) \/ NmtSend(c)
           \/ SetupRx(c) \/ SetupTx(c)
           \/ SdoBegin(c) \/ SdoFill(c) \/ SdoSend(c) \/ PollDownload(c)

-----------------------------------------------------------------------------
(* The bus and the motors (external). *)

\* The CiA 402 drive state a controlword leads to.
DriveAfter(state, word) ==
    CASE word = "DisableVoltage" -> "disabled"
      [] word = "Shutdown" -> "ready"
      [] word = "SwitchOn" -> IF state = "disabled" THEN state ELSE "on"
      [] word = "EnableOperation" -> IF state \in {"on", "enabled"} THEN "enabled"
                                     ELSE state

\* A node with voltage acknowledges the frame; the addressed motors obey.
NmtDelivered(box) ==
    /\ tx.box[box] # NoFrame /\ power # {}
    /\ LET f == tx.box[box]
       IN  /\ f.kind = "nmt"
           /\ nmt' = [m \in Motors |-> IF m \in power /\ f.node \in {m, AllNodes}
                                       THEN f.what ELSE nmt[m]]
    /\ tx' = MailboxDone(tx, box)
    /\ UNCHANGED <<pin, Zustand, ctx, answered, sdo, nmtData, power, drive, reply>>

\* A motor with voltage that is not NMT-stopped serves the request.
Serve(m, what) ==
    \/ /\ what \in Words
       /\ drive' = [drive EXCEPT ![m] = DriveAfter(@, what)]
       /\ reply' = [reply EXCEPT ![m] = "ack"]
    \/ /\ what = "read"
       /\ reply' = [reply EXCEPT ![m] = "value"]
       /\ UNCHANGED drive
    \/ /\ what = "zero" \/ (m \in Faulty /\ what # "abort")
       /\ reply' = [reply EXCEPT ![m] = "abort"]
       /\ UNCHANGED drive
    \/ what = "abort" /\ UNCHANGED <<drive, reply>>

SdoDelivered(box) ==
    /\ tx.box[box] # NoFrame /\ power # {}
    /\ NoNmtWaits /\ \A m \in Motors : reply[m] = "none"
    /\ LET f == tx.box[box]
       IN  IF f.node \in power /\ nmt[f.node] # "stopped"
           THEN Serve(f.node, f.what)
           ELSE UNCHANGED <<drive, reply>>
    /\ tx' = MailboxDone(tx, box)
    /\ UNCHANGED <<pin, Zustand, ctx, answered, sdo, nmtData, power, nmt>>

\* The CAN receive interrupt, with the answer of motor m.
AnswerReceived(m) ==
    /\ reply[m] # "none" /\ NoNmtWaits
    /\ sdo' = IF sdo.rx = m THEN SDOclient_receive(sdo, reply[m]) ELSE sdo
    /\ reply' = [reply EXCEPT ![m] = "none"]
    /\ UNCHANGED <<pin, Zustand, ctx, answered, nmtData, tx, power, nmt, drive>>

PowerUp(m) ==
    /\ m \in LatePower \ power
    /\ power' = power \cup {m}
    /\ UNCHANGED <<pin, code, nmt, drive, reply>>

\* A motor that loses its voltage comes back, if at all, as it started.
PowerLost(m) ==
    /\ m \in Faulty \cap power /\ ctx["main"].proc = "loop"
    /\ power' = power \ {m}
    /\ nmt' = [nmt EXCEPT ![m] = "preop"]
    /\ drive' = [drive EXCEPT ![m] = "disabled"]
    /\ reply' = [reply EXCEPT ![m] = "none"]
    /\ UNCHANGED <<pin, code>>

CurtainChanges ==
    /\ EarlyCurtain \/ ctx["main"].proc = "loop"
    /\ pin' = ~pin
    /\ UNCHANGED <<code, motor>>

Bus == \/ \E box \in Mailboxes : NmtDelivered(box) \/ SdoDelivered(box)
       \/ \E m \in Motors : AnswerReceived(m)

Next == \/ \E c \in Contexts : Step(c)
        \/ PollUpload \/ StartMotors \/ CommunicationReset
        \/ TIM3_IRQHandler
        \/ Bus
        \/ \E m \in Motors : PowerUp(m) \/ PowerLost(m)
        \/ CurtainChanges

Spec == Init /\ [][Next]_vars

\* The processor executes, the timer fires every millisecond, and a bus with a
\* node on it delivers.
Fairness ==
    /\ \A c \in Contexts : WF_vars(Step(c))
    /\ WF_vars(PollUpload \/ StartMotors)
    /\ WF_vars(TIM3_IRQHandler)
    /\ WF_vars(Bus)

FairSpec == Spec /\ Fairness

-----------------------------------------------------------------------------
(* Properties. *)

\* Every variable has its type: in particular the bytes of a preempted call
\* never make up a request or an NMT command that nobody wrote.
TypeOK ==
    /\ pin \in BOOLEAN /\ Zustand \in BOOLEAN
    /\ ctx \in [Contexts -> [proc : Procs, b : 0 .. NumMotors + 1, k : 1 .. 5,
                             step : Steps]]
    /\ answered \subseteq Motors
    /\ sdo \in SdoRecord
    /\ nmtData \in [what : NmtCommands, node : 0 .. NumMotors + 1]
    /\ tx \in TxRecord(Frames)
    /\ power \subseteq Motors
    /\ nmt \in [Motors -> NmtCommands]
    /\ drive \in [Motors -> DriveStates]
    /\ reply \in [Motors -> Answers \cup {"none"}]

NmtPending(m, what) ==
    \E box \in Mailboxes : tx.box[box] \in {NmtFrame(m, what), NmtFrame(AllNodes, what)}

\* When the handler has set Zustand, every drive has left operation enabled
\* and every motor is NMT-stopped or its stop command is in a mailbox
\* (Stop_Nodes: "switch all motors and the can card to NMT-Stop").
EngagedMeansStopped ==
    ctx["tim3"].proc = "idle" /\ Zustand =>
        \A m \in Motors : /\ drive[m] # "enabled"
                          /\ nmt[m] = "stopped" \/ NmtPending(m, "stopped")

\* When the handler has cleared Zustand again, or main has started the motors,
\* every drive is in operation enabled and every motor NMT-operational or
\* about to be (communicationReset).
FreeMeansRunning ==
    ctx["tim3"].proc = "idle" /\ ~Zustand /\ ctx["main"].proc = "loop" =>
        \A m \in Motors : /\ drive[m] = "enabled"
                          /\ nmt[m] = "op" \/ NmtPending(m, "op")

\* Whichever of them Zustand says, the motors are in it: neither a stop nor a
\* restart that the handler has reported to itself was done by halves.
MotorsFollowZustand == EngagedMeansStopped /\ FreeMeansRunning

\* A motor that is NMT-stopped no longer listens to controlwords, so it must
\* have been shut down before: in no interleaving of main and the interrupt is
\* a motor stopped while its drive runs (the order of Stop_Motor).
StoppedIsShutDown ==
    \A m \in Motors : nmt[m] = "stopped" => drive[m] # "enabled"

\* Send_SDO returns only after the addressed motor's drive has executed the
\* controlword: the answer it takes is the one to its own request.
WordIsExecuted ==
    [][\A c \in Contexts :
         ctx[c].step = "poll" /\ Instr(c).op = "write" /\ ctx'[c] # ctx[c] =>
            drive[Instr(c).node] = DriveAfter(drive[Instr(c).node], Instr(c).arg)]_vars

\* motorDetection ends only when every motor has voltage, although the timer
\* interrupt redirects the SDO client it waits on (in the loop after it a motor
\* may lose its voltage again).
DetectedMeansPowered ==
    ctx["main"].proc \in {"wait", "reset"} => power = Motors

\* A curtain that stays engaged stops every drive for good.
CurtainStops == <>[]pin => <>[](\A m \in Motors : drive[m] # "enabled")

\* A curtain that stays free lets every drive run again.
CurtainReleases == <>[]~pin => <>[](\A m \in Motors : drive[m] = "enabled")

\* The drives follow the curtain in both directions, again and again.
DrivesFollowCurtain == CurtainStops /\ CurtainReleases

\* A motor that does not answer does not keep the others running: once the
\* curtain stays engaged, every motor that is not Faulty stops.
SoundMotorsStop ==
    <>[]pin => <>[](\A m \in Motors \ Faulty : drive[m] # "enabled")

\* With the handler done and Zustand set no drive is in operation enabled, also
\* when a motor loses its voltage, comes back or refuses a controlword.
EngagedMeansNotEnabled ==
    ctx["tim3"].proc = "idle" /\ Zustand => \A m \in Motors : drive[m] # "enabled"

\* The controller is an interlock: the routine the handler runs and Zustand
\* tell its phase, the drive states the motors that run.
Phase ==
    CASE ctx["tim3"].proc = "stop" -> "stopping"
      [] ctx["tim3"].proc = "reset" -> "starting"
      [] ctx["tim3"].proc = "idle" /\ Zustand -> "stopped"
      [] ctx["tim3"].proc = "idle" /\ ~Zustand ->
           IF ctx["main"].proc = "loop" THEN "running" ELSE "starting"

Promise == INSTANCE Interlock WITH
             engaged <- pin, phase <- Phase,
             running <- {m \in Motors : drive[m] = "enabled"}

\* The safety controller keeps the promise of the interlock.
ImplementsInterlock == Promise!Spec
=============================================================================
