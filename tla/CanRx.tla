-------------------------------- MODULE CanRx --------------------------------
(***************************************************************************)
(* The receive path of the CAN driver: the objects of the stack configure  *)
(* one receive buffer each, the hardware queues what comes by, and         *)
(* CO_CANinterrupt_Rx hands one frame after the other to the first buffer  *)
(* that matches.  Buffer 0 is NMT's, whose identifier is 0; an object that *)
(* is not used configures its buffer with identifier 0, too.               *)
(***************************************************************************)
EXTENDS Integers, Sequences

CONSTANTS RxSize,    \* receive buffers
          CobIds,    \* identifiers other than 0
          FifoDepth  \* frames the hardware queues

ASSUME RxAssumption ==
    /\ RxSize \in Nat \ {0} /\ FifoDepth \in Nat \ {0}
    /\ CobIds \subseteq Nat \ {0}

VARIABLES rx,      \* rxArray: identifier, and whether a function is there to be called
          cobId,   \* history: what each object has been told to listen to; 0: nothing
          normal,  \* CANnormal
          fifo,    \* the receive FIFO of the peripheral
          stdId,   \* RxHeader.StdId of the static CANmessage
          taken,   \* history: the frame of the latest interrupt, and the buffer that took it
          newest   \* history: the latest frame on the bus

rxVars == <<rx, cobId, normal, fifo, stdId, taken, newest>>

Buffers == 0 .. RxSize - 1
CanFrames == [id : CobIds \cup {0}, remote : BOOLEAN, extended : BOOLEAN]
NoFrameYet == [id |-> 0, remote |-> TRUE, extended |-> FALSE]
Nobody == -1

Unconfigured == [ident |-> 0, function |-> FALSE]

\* CO_CANmodule_init.
CanRxInit ==
    /\ rx = [i \in Buffers |-> Unconfigured]
    /\ cobId = [i \in Buffers |-> 0]
    /\ normal = FALSE
    /\ fifo = <<>> /\ stdId = 0
    /\ taken = [frame |-> NoFrameYet, by |-> Nobody] /\ newest = NoFrameYet

-----------------------------------------------------------------------------
\* CO_CANrxBufferInit, by one of the objects; NMT always listens to 0.
CANrxBufferInit(i, id) ==
    /\ i = 0 => id = 0
    /\ rx' = [rx EXCEPT ![i] = [ident |-> id, function |-> TRUE]]
    /\ cobId' = [cobId EXCEPT ![i] = id]
    /\ UNCHANGED <<normal, fifo, stdId, taken, newest>>

\* main gets here when every part of the stack has been initialised.
CANsetNormalMode ==
    /\ ~normal
    /\ \A i \in Buffers : rx[i].function
    /\ normal' = TRUE
    /\ UNCHANGED <<rx, cobId, fifo, stdId, taken, newest>>

\* A communication reset: the driver is initialised again, and the objects
\* after it.
CANmodule_disable ==
    /\ normal
    /\ normal' = FALSE
    /\ rx' = [i \in Buffers |-> Unconfigured]
    /\ cobId' = [i \in Buffers |-> 0]
    /\ fifo' = <<>> /\ newest' = taken.frame
    /\ UNCHANGED <<stdId, taken>>

\* Mutant of Queued: a full FIFO is locked.
QueuedLocked(frame) == IF Len(fifo) < FifoDepth THEN Append(fifo, frame) ELSE fifo

\* A full FIFO that is not locked replaces its latest frame.
Queued(frame) ==
    IF Len(fifo) < FifoDepth THEN Append(fifo, frame)
    ELSE [fifo EXCEPT ![FifoDepth] = frame]

Arrive(frame) ==
    /\ normal
    /\ fifo' = Queued(frame)
    /\ newest' = frame
    /\ UNCHANGED <<rx, cobId, normal, stdId, taken>>

-----------------------------------------------------------------------------
\* HAL_CAN_GetRxMessage writes StdId only for a frame with a standard identifier.
StdIdOf(frame) == IF frame.extended THEN stdId ELSE frame.id

\* Every buffer is configured for data frames and compares all bits.
Matches(i, frame) == rx[i].ident = StdIdOf(frame) /\ ~frame.remote

\* Mutant of FirstMatch: the search starts at the other end.
LastMatch(i, frame) ==
    Matches(i, frame) /\ \A j \in Buffers : j > i => ~Matches(j, frame)

FirstMatch(i, frame) ==
    Matches(i, frame) /\ \A j \in Buffers : j < i => ~Matches(j, frame)

CANinterrupt_Rx ==
    /\ normal /\ fifo # <<>>
    /\ LET frame == Head(fifo)
       IN  /\ \/ \E i \in Buffers :
                   /\ FirstMatch(i, frame)
                   /\ taken' = [frame |-> frame, by |-> IF rx[i].function THEN i ELSE Nobody]
              \/ /\ \A i \in Buffers : ~Matches(i, frame)
                 /\ taken' = [frame |-> frame, by |-> Nobody]
           /\ stdId' = StdIdOf(frame)
    /\ fifo' = Tail(fifo)
    /\ UNCHANGED <<rx, cobId, normal, newest>>

CanRxNext ==
    \/ \E i \in Buffers, id \in CobIds \cup {0} : CANrxBufferInit(i, id)
    \/ CANsetNormalMode \/ CANmodule_disable
    \/ \E frame \in CanFrames : Arrive(frame)
    \/ CANinterrupt_Rx

CanRxSpec == CanRxInit /\ [][CanRxNext]_rxVars

-----------------------------------------------------------------------------
CanRxTypeOK ==
    /\ rx \in [Buffers -> [ident : CobIds \cup {0}, function : BOOLEAN]]
    /\ cobId \in [Buffers -> CobIds \cup {0}]
    /\ normal \in BOOLEAN
    /\ fifo \in Seq(CanFrames) /\ Len(fifo) <= FifoDepth
    /\ stdId \in CobIds \cup {0}
    /\ taken \in [frame : CanFrames, by : Buffers \cup {Nobody}]
    /\ newest \in CanFrames

\* The buffer that should get a frame: of those whose object listens to its
\* identifier the first, and no other.  No object that listens to nothing is ever
\* called, though its buffer has NMT's identifier, and none for a remote frame.
ListensFirst(i, frame) ==
    /\ ~frame.remote /\ cobId[i] = frame.id
    /\ i # 0 => cobId[i] # 0
    /\ \A j \in Buffers : j < i => cobId[j] # frame.id

\* Every interrupt hands a standard frame to the object that listens to it, also
\* while main configures buffers, and to nobody when there is none.
RightReceiver ==
    [][fifo # <<>> /\ fifo' = Tail(fifo) /\ ~Head(fifo).extended /\ normal' =>
          /\ taken'.by # Nobody => ListensFirst(taken'.by, Head(fifo))
          /\ taken'.by = Nobody => \A i \in Buffers : ~ListensFirst(i, Head(fifo))]_rxVars

\* However many frames an overrun loses, the latest is not among them: it is in
\* the FIFO until it has been handed over.
NewestSurvives ==
    IF fifo = <<>> THEN taken.frame = newest ELSE fifo[Len(fifo)] = newest
=============================================================================
