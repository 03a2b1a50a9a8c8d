----------------------------- MODULE StackProofs -----------------------------
(***************************************************************************)
(* Proofs about the CANopen stack.  Emergency messages: whoever reads them *)
(* knows the errors that are present, for every size of the ring.  The     *)
(* receive path: every frame goes to the object that listens to it, and an *)
(* overrun never loses the latest, for every number of buffers.  SYNC and  *)
(* the receive PDOs: an object is copied whole, each SYNC finds the frame  *)
(* that came last before it, and no synchronous TPDO outlives the window,  *)
(* for all frames, periods, windows and timer widths.  Last, the stack is  *)
(* each of its parts (SDO transfers: SdoProofs), so that all of it carries *)
(* over.                                                                   *)
(***************************************************************************)
EXTENDS MCStack, SdoProofs

-----------------------------------------------------------------------------
(* Emergency messages. *)

\* A call that does not withdraw the report of the overflow of the ring.
Orderly == {c \in Calls : c.err = BUFFER_FULL => c.on}

EmRecord == [bits : SUBSET Errors, buf : [0 .. Size - 1 -> Calls],
             w : 0 .. Size - 1, r : 0 .. Size, full : 0 .. 2]
MainRecord == [at : CallSteps \cup ProcessSteps, todo : Seq(Orderly),
               then : {"register", "history"}, byte : SUBSET Errors]
PrRecord == [register : SUBSET {"generic", "communication"}, timer : Nat, errors : 0 .. HistSize]

\* The types, with those of the steps of main.
EmShape ==
    /\ em \in EmRecord
    /\ em.r = Size => At("wrap")
    /\ pr \in PrRecord
    /\ txFull \in BOOLEAN
    /\ errCode \in [now : SUBSET HalErrors, old : SUBSET HalErrors]
    /\ told \subseteq Errors
    /\ dropped \in BOOLEAN
    /\ main \in MainRecord
    /\ main.at \in CallSteps => main.todo # <<>>

\* A message has been taken out of the ring, and bufFull still tells of before.
Taking == main.at \in {"wrap", "overflow", "report", "clear"}

\* Where the oldest message is, and how far behind it another position is.
ReadAt == IF em.r = Size THEN 0 ELSE em.r
Behind(i) == IF ReadAt <= i THEN i - ReadAt ELSE i + Size - ReadAt
InRing(i) == (em.full # 0 /\ ~Taking) \/ Behind(i) < Behind(em.w)
NewestInRing(i) ==
    InRing(i) /\ \A j \in 0 .. Size - 1 :
                    InRing(j) /\ em.buf[j].err = em.buf[i].err => Behind(j) <= Behind(i)

\* The errors the ring is to tell of: those of the status bits, but for the
\* call of which the message is not yet queued.
Shown == IF main.at \in {"full", "queue"}
         THEN Changed(em.bits, [Call EXCEPT !.on = ~@])
         ELSE em.bits

CallState ==
    /\ main.at \in {"read", "write"} => ~AlreadySo(em.bits, Call)
    /\ main.at = "write" => main.byte = {e \in em.bits : Byte(e) = Byte(Call.err)}
    /\ main.at \in {"full", "queue"} => AlreadySo(em.bits, Call)
    /\ main.at = "queue" => em.full = 0

RingState ==
    /\ em.full # 0 /\ ~Taking => em.r = em.w
    /\ main.at = "clear" => em.full # 2

RingTells ==
    ~dropped =>
      /\ \A i \in 0 .. Size - 1 : NewestInRing(i) => AlreadySo(Shown, em.buf[i])
      /\ \A e \in Errors : (\A i \in 0 .. Size - 1 : InRing(i) => em.buf[i].err # e)
                             => (e \in told <=> e \in Shown)

LossTold ==
    dropped => \/ em.full = 2
               \/ BUFFER_FULL \in em.bits
               \/ main.at \in {"test", "read", "write"} /\ Call = Report(BUFFER_FULL)

EmTells == CallState /\ RingState /\ RingTells /\ LossTold
EmInv == EmShape /\ EmTells

-----------------------------------------------------------------------------
\* Calls about the errors of this module, and sequences of them.
LEMMA CallsAreTyped ==
    /\ BUS_OFF \in Errors /\ WARNING \in Errors /\ PASSIVE \in Errors
    /\ RXB_OVERFLOW \in Errors /\ TX_OVERFLOW \in Errors /\ BUFFER_FULL \in Errors
    /\ \A e \in Errors : Report(e) \in Orderly /\ Report(e) \in Calls
    /\ \A e \in Errors : e # BUFFER_FULL => Reset(e) \in Orderly
    /\ \A e \in IsrErrors : e \in Errors
    /\ BUS_OFF # BUFFER_FULL /\ PASSIVE # BUFFER_FULL /\ TX_OVERFLOW # BUFFER_FULL
<1>1. BUS_OFF # BUFFER_FULL /\ PASSIVE # BUFFER_FULL /\ TX_OVERFLOW # BUFFER_FULL
  BY DEF BUS_OFF, BUFFER_FULL, PASSIVE, TX_OVERFLOW
<1>2. QED
  BY <1>1 DEF Errors, Report, Reset, Orderly, Calls

\* What an orderly sequence of calls is made of.
LEMMA OrderlyCalls ==
    ASSUME NEW s \in Seq(Orderly)
    PROVE  /\ s \in Seq(Calls)
           /\ s # <<>> => /\ Head(s) \in Orderly /\ Head(s) \in Calls
                          /\ Head(s).err \in Errors /\ Head(s).on \in BOOLEAN
                          /\ Tail(s) \in Seq(Orderly)
<1>1. Orderly \subseteq Calls
  BY DEF Orderly
<1>2. s \in Seq(Calls)
  BY <1>1
<1>3. ASSUME s # <<>>
      PROVE  Head(s) \in Orderly /\ Tail(s) \in Seq(Orderly)
  BY <1>3
<1>4. QED
  BY <1>1, <1>2, <1>3 DEF Calls

\* CO_CANverifyErrors makes orderly calls only.
LEMMA VerifyIsOrderly ==
    ASSUME NEW code, NEW sent \in BOOLEAN
    PROVE  VerifyCalls(code, sent) \in Seq(Orderly)
<1> DEFINE off == IF "BOF" \in code THEN <<Report(BUS_OFF)>> ELSE <<Reset(BUS_OFF)>>
           warning == IF "EWG" \in code THEN <<Report(WARNING)>> ELSE <<>>
           passive == IF "EPV" \in code THEN IF sent THEN <<Report(PASSIVE)>> ELSE <<>>
                      ELSE IF PASSIVE \in em.bits THEN <<Reset(PASSIVE), Reset(TX_OVERFLOW)>>
                      ELSE <<>>
           overflow == IF "FOV" \in code THEN <<Report(RXB_OVERFLOW)>> ELSE <<>>
           middle == IF "BOF" \in code THEN <<>> ELSE warning \o passive
<1>1. /\ Report(BUS_OFF) \in Orderly /\ Reset(BUS_OFF) \in Orderly
      /\ Report(WARNING) \in Orderly /\ Report(PASSIVE) \in Orderly
      /\ Reset(PASSIVE) \in Orderly /\ Reset(TX_OVERFLOW) \in Orderly
      /\ Report(RXB_OVERFLOW) \in Orderly
  BY CallsAreTyped
<1>2. off \in Seq(Orderly) /\ warning \in Seq(Orderly) /\ overflow \in Seq(Orderly)
  BY <1>1
<1>3. passive \in Seq(Orderly)
  BY <1>1
<1>4. VerifyCalls(code, sent) = off \o middle \o overflow
  BY DEF VerifyCalls
<1> HIDE DEF off, warning, passive, overflow
<1>5. middle \in Seq(Orderly)
  BY <1>2, <1>3, ConcatProperties
<1> HIDE DEF middle
<1>6. QED
  BY <1>2, <1>4, <1>5, ConcatProperties

\* The fields of the objects, and what a step of main finds there.
LEMMA EmFields ==
    ASSUME EmShape
    PROVE  /\ em = [bits |-> em.bits, buf |-> em.buf, w |-> em.w, r |-> em.r, full |-> em.full]
           /\ em.bits \in SUBSET Errors /\ em.buf \in [0 .. Size - 1 -> Calls]
           /\ em.w \in 0 .. Size - 1 /\ em.r \in 0 .. Size /\ em.full \in 0 .. 2
           /\ main = [at |-> main.at, todo |-> main.todo, then |-> main.then, byte |-> main.byte]
           /\ main.at \in CallSteps \cup ProcessSteps /\ main.todo \in Seq(Orderly)
           /\ main.then \in {"register", "history"} /\ main.byte \in SUBSET Errors
           /\ pr = [register |-> pr.register, timer |-> pr.timer, errors |-> pr.errors]
           /\ pr.register \in SUBSET {"generic", "communication"}
           /\ pr.timer \in Nat /\ pr.errors \in 0 .. HistSize
<1>1. em \in EmRecord /\ main \in MainRecord /\ pr \in PrRecord
  BY DEF EmShape
<1>2. QED
  BY <1>1 DEF EmRecord, MainRecord, PrRecord

\* The call main is executing.
LEMMA CallIsTyped ==
    ASSUME EmShape, main.at \in CallSteps
    PROVE  /\ Call \in Calls /\ Call.err \in Errors /\ Call.on \in BOOLEAN
           /\ Call.err = BUFFER_FULL => Call.on
           /\ Tail(main.todo) \in Seq(Orderly)
<1>1. main.todo \in Seq(Orderly) /\ main.todo # <<>>
  BY EmFields DEF EmShape
<1>2. QED
  BY <1>1, OrderlyCalls DEF Call, Orderly

\* Where main is after a call, and when it begins one.
LEMMA CallingIs ==
    ASSUME EmShape, NEW todo \in Seq(Orderly), NEW then \in {"register", "history"},
           Calling(todo, then)
    PROVE  /\ main' \in MainRecord
           /\ main'.todo = todo /\ main'.then = then
           /\ main'.at = IF todo = <<>> THEN then ELSE "test"
           /\ main'.at \in CallSteps => main'.todo # <<>>
<1> DEFINE at == IF todo = <<>> THEN then ELSE "test"
<1>1. main' = [at |-> at, todo |-> todo, then |-> then, byte |-> {}]
  BY EmFields DEF Calling
<1>2. at \in CallSteps \cup ProcessSteps /\ (at \in CallSteps => todo # <<>>)
  BY DEF CallSteps, ProcessSteps
<1> HIDE DEF at
<1>3. QED
  BY <1>1, <1>2 DEF MainRecord, at

\* A step inside a routine.
LEMMA GotoIs ==
    ASSUME EmShape, NEW step \in CallSteps \cup ProcessSteps, Goto(step),
           step \in CallSteps => main.at \in CallSteps
    PROVE  /\ main' \in MainRecord
           /\ main'.at = step /\ main'.todo = main.todo /\ main'.then = main.then
           /\ main'.byte = main.byte
           /\ main'.at \in CallSteps => main'.todo # <<>>
<1>1. main' = [at |-> step, todo |-> main.todo, then |-> main.then, byte |-> main.byte]
  BY EmFields DEF Goto
<1>2. QED
  BY <1>1, EmFields DEF MainRecord, EmShape

-----------------------------------------------------------------------------
(* Types. *)

\* The critical section writes one message and moves the write pointer.
LEMMA EnqueuedIs ==
    ASSUME NEW m \in EmRecord, NEW call \in Calls
    PROVE  LET e == Enqueued(m, call)
               w == IF m.w + 1 = Size THEN 0 ELSE m.w + 1
           IN  /\ e \in EmRecord
               /\ e.bits = m.bits /\ e.r = m.r /\ e.w = w
               /\ e.buf = [m.buf EXCEPT ![m.w] = call]
               /\ e.full = IF w = m.r THEN 1 ELSE m.full
<1> DEFINE w == IF m.w + 1 = Size THEN 0 ELSE m.w + 1
           buf == [m.buf EXCEPT ![m.w] = call]
           full == IF w = m.r THEN 1 ELSE m.full
<1>1. /\ m = [bits |-> m.bits, buf |-> m.buf, w |-> m.w, r |-> m.r, full |-> m.full]
      /\ m.bits \in SUBSET Errors /\ m.buf \in [0 .. Size - 1 -> Calls]
      /\ m.w \in 0 .. Size - 1 /\ m.r \in 0 .. Size /\ m.full \in 0 .. 2
  BY DEF EmRecord
<1>2. w \in 0 .. Size - 1 /\ buf \in [0 .. Size - 1 -> Calls] /\ full \in 0 .. 2
  BY <1>1, EmergencyAssumption
<1>3. Enqueued(m, call) = [m EXCEPT !.buf = buf, !.w = w, !.full = full]
  BY <1>1 DEF Enqueued
<1> HIDE DEF w, buf, full
<1>4. Enqueued(m, call) = [bits |-> m.bits, buf |-> buf, w |-> w, r |-> m.r, full |-> full]
  BY <1>1, <1>3
<1>5. Enqueued(m, call) \in EmRecord
  BY <1>1, <1>2, <1>4 DEF EmRecord
<1>6. QED
  BY <1>4, <1>5 DEF w, buf, full

\* A ring found full stays as it is, but for the mark that it has overflowed.
LEMMA OverflowedIs ==
    ASSUME NEW m \in EmRecord
    PROVE  /\ Overflowed(m) \in EmRecord /\ Overflowed(m).full = 2
           /\ Overflowed(m).bits = m.bits /\ Overflowed(m).r = m.r
           /\ Overflowed(m).w = m.w /\ Overflowed(m).buf = m.buf
  BY DEF Overflowed, EmRecord

\* What a report of the interrupt starts from.
LEMMA BitSet ==
    ASSUME EmShape, NEW e \in Errors
    PROVE  LET m == [em EXCEPT !.bits = @ \cup {e}]
           IN  /\ m \in EmRecord /\ m.bits = em.bits \cup {e} /\ m.buf = em.buf
               /\ m.w = em.w /\ m.r = em.r /\ m.full = em.full
  BY EmFields DEF EmRecord

\* The objects are as CO_EM_init makes them.
LEMMA EmInitShape == EmInit => EmShape
<1> SUFFICES ASSUME EmInit PROVE EmShape
  OBVIOUS
<1>1. Report(BUS_OFF) \in Calls
  BY CallsAreTyped
<1>2. em \in EmRecord /\ em.r = 0
  BY <1>1, EmergencyAssumption DEF EmInit, EmRecord
<1>3. main \in MainRecord /\ main.at = "idle"
  BY DEF EmInit, MainRecord, ProcessSteps
<1>4. pr \in PrRecord /\ errCode \in [now : SUBSET HalErrors, old : SUBSET HalErrors]
  BY EmergencyAssumption DEF EmInit, PrRecord
<1>5. QED
  BY <1>2, <1>3, <1>4, EmergencyAssumption DEF EmInit, EmShape, CallSteps

\* A report of the interrupt keeps the types, wherever main is.
LEMMA IsrShape == ASSUME EmShape, NEW e \in IsrErrors, Isr(e) PROVE EmShape'
<1> DEFINE m == [em EXCEPT !.bits = @ \cup {e}]
<1>1. /\ m \in EmRecord /\ m.r = em.r /\ Report(e) \in Calls
  BY BitSet, CallsAreTyped
<1>2. em' = NewMessage(m, Report(e))
  BY DEF Isr
<1> HIDE DEF m
<1>3. em' \in EmRecord /\ em'.r = em.r
  BY <1>1, <1>2, EnqueuedIs, OverflowedIs DEF NewMessage
<1>4. dropped' \in BOOLEAN
  BY DEF Isr, EmShape
<1>5. QED
  BY <1>3, <1>4 DEF Isr, EmShape, At

\* A step of main inside a call keeps the types.
LEMMA CallShape ==
    ASSUME EmShape, CallTest \/ CallRead \/ CallWrite \/ CallFull \/ CallQueue
    PROVE  EmShape'
<1>0. /\ main.at \in CallSteps /\ main.at # "wrap" /\ em.r # Size
      /\ em \in EmRecord /\ main \in MainRecord
  BY DEF CallTest, CallRead, CallWrite, CallFull, CallQueue, At, CallSteps, EmShape
<1>1. /\ Call \in Calls /\ Call.err \in Errors /\ Tail(main.todo) \in Seq(Orderly)
      /\ main.then \in {"register", "history"}
  BY <1>0, CallIsTyped, EmFields
<1>2. ASSUME CallDone
      PROVE  /\ main' \in MainRecord /\ main'.at # "wrap"
             /\ main'.at \in CallSteps => main'.todo # <<>>
  BY <1>1, <1>2, CallingIs DEF CallDone
<1>3. ASSUME NEW step \in CallSteps, Goto(step)
      PROVE  /\ main' \in MainRecord /\ main'.at # "wrap"
             /\ main'.at \in CallSteps => main'.todo # <<>>
  BY <1>0, <1>3, GotoIs DEF CallSteps
<1>4. ASSUME CallTest PROVE EmShape'
  <2>1. CallDone \/ Goto("read")
    BY <1>4 DEF CallTest
  <2>2. /\ main' \in MainRecord /\ main'.at # "wrap"
        /\ main'.at \in CallSteps => main'.todo # <<>>
    BY <2>1, <1>2, <1>3 DEF CallSteps
  <2>3. QED
    BY <1>0, <1>4, <2>2 DEF CallTest, EmShape, At
<1>5. ASSUME CallRead PROVE EmShape'
  <2> DEFINE byte == {e \in em.bits : Byte(e) = Byte(Call.err)}
  <2>1. main' = [main EXCEPT !.at = "write", !.byte = byte]
    BY <1>5 DEF CallRead
  <2>2. byte \in SUBSET Errors
    BY EmFields
  <2> HIDE DEF byte
  <2>3. /\ main' \in MainRecord /\ main'.at = "write" /\ main'.todo = main.todo
    BY <2>1, <2>2, <1>0 DEF MainRecord, CallSteps
  <2>4. QED
    BY <1>0, <1>5, <2>3 DEF CallRead, EmShape, At
<1>6. ASSUME CallWrite PROVE EmShape'
  <2> DEFINE bits == {e \in em.bits : Byte(e) # Byte(Call.err)} \cup Changed(main.byte, Call)
  <2>1. em' = [em EXCEPT !.bits = bits]
    BY <1>6 DEF CallWrite
  <2>2. bits \in SUBSET Errors
    BY <1>1, EmFields DEF Changed
  <2> HIDE DEF bits
  <2>3. em' \in EmRecord /\ em'.r = em.r
    BY <2>1, <2>2, <1>0 DEF EmRecord
  <2>4. /\ main' \in MainRecord /\ main'.at # "wrap"
        /\ main'.at \in CallSteps => main'.todo # <<>>
    BY <1>3, <1>6 DEF CallWrite, CallSteps
  <2>5. QED
    BY <1>0, <1>6, <2>3, <2>4 DEF CallWrite, EmShape, At
<1>7. ASSUME CallFull PROVE EmShape'
  <2>1. em' \in EmRecord /\ em'.r = em.r /\ dropped' \in BOOLEAN
    BY <1>0, <1>7, OverflowedIs DEF CallFull, EmShape
  <2>2. CallDone \/ Goto("queue")
    BY <1>7 DEF CallFull
  <2>3. /\ main' \in MainRecord /\ main'.at # "wrap"
        /\ main'.at \in CallSteps => main'.todo # <<>>
    BY <2>2, <1>2, <1>3 DEF CallSteps
  <2>4. QED
    BY <1>0, <1>7, <2>1, <2>3 DEF CallFull, EmShape, At
<1>8. ASSUME CallQueue PROVE EmShape'
  <2>1. em' \in EmRecord /\ em'.r = em.r
    BY <1>0, <1>1, <1>8, EnqueuedIs DEF CallQueue
  <2>2. /\ main' \in MainRecord /\ main'.at # "wrap"
        /\ main'.at \in CallSteps => main'.todo # <<>>
    BY <1>2, <1>8 DEF CallQueue
  <2>3. QED
    BY <1>0, <1>8, <2>1, <2>2 DEF CallQueue, EmShape, At
<1>9. QED
  BY <1>4, <1>5, <1>6, <1>7, <1>8

\* CO_CANverifyErrors and the start of its calls keep the types.
LEMMA VerifyShape == ASSUME EmShape, CANverifyErrors PROVE EmShape'
<1>1. PICK sent \in BOOLEAN :
         Calling(IF errCode.now = errCode.old THEN <<>> ELSE VerifyCalls(errCode.now, sent),
                 "register")
  BY DEF CANverifyErrors
<1> DEFINE todo == IF errCode.now = errCode.old THEN <<>> ELSE VerifyCalls(errCode.now, sent)
<1>2. todo \in Seq(Orderly)
  BY VerifyIsOrderly
<1> HIDE DEF todo
<1>3. /\ main' \in MainRecord /\ main'.at # "wrap"
      /\ main'.at \in CallSteps => main'.todo # <<>>
  BY <1>1, <1>2, CallingIs DEF todo
<1>4. errCode' \in [now : SUBSET HalErrors, old : SUBSET HalErrors]
  BY DEF CANverifyErrors, EmShape
<1>5. QED
  BY <1>3, <1>4 DEF CANverifyErrors, EmShape, At

\* What Register does when no message may go, and when one does.
LEMMA RegisterIs ==
    ASSUME EmShape, Register
    PROVE  /\ pr' \in PrRecord /\ UNCHANGED <<txFull, errCode, dropped>>
           /\ main.at = "register"
           /\ \/ Goto("idle") /\ UNCHANGED <<em, told>>
              \/ /\ Goto("wrap") /\ Pending
                 /\ told' = Changed(told, em.buf[em.r])
                 /\ em' = [em EXCEPT !.r = @ + 1]
<1>1. PICK dt \in Ticks, NMTisPreOrOperational \in BOOLEAN :
         LET timer == IF pr.timer < Inhibit THEN pr.timer + dt ELSE pr.timer
             bytes == {Byte(e) : e \in em.bits}
             register == {x \in {"generic", "communication"} :
                             bytes \cap (IF x = "generic" THEN {5} ELSE {2, 3}) # {}}
         IN  IF NMTisPreOrOperational /\ MaySend(timer)
             THEN /\ told' = Changed(told, em.buf[em.r])
                  /\ em' = [em EXCEPT !.r = @ + 1]
                  /\ pr' = [pr EXCEPT !.register = register, !.timer = timer]
                  /\ Goto("wrap")
             ELSE /\ pr' = [pr EXCEPT !.register = register, !.timer = timer]
                  /\ Goto("idle")
                  /\ UNCHANGED <<em, told>>
  BY DEF Register
<1> DEFINE timer == IF pr.timer < Inhibit THEN pr.timer + dt ELSE pr.timer
           bytes == {Byte(e) : e \in em.bits}
           register == {x \in {"generic", "communication"} :
                           bytes \cap (IF x = "generic" THEN {5} ELSE {2, 3}) # {}}
<1>2. timer \in Nat
  BY EmFields, EmergencyAssumption
<1>3. register \in SUBSET {"generic", "communication"}
  OBVIOUS
<1>4. /\ pr' = [pr EXCEPT !.register = register, !.timer = timer]
      /\ \/ Goto("idle") /\ UNCHANGED <<em, told>>
         \/ /\ Goto("wrap") /\ MaySend(timer)
            /\ told' = Changed(told, em.buf[em.r])
            /\ em' = [em EXCEPT !.r = @ + 1]
  BY <1>1
<1> HIDE DEF timer, bytes, register
<1>5. pr' \in PrRecord
  BY <1>2, <1>3, <1>4, EmFields DEF PrRecord
<1>6. QED
  BY <1>4, <1>5 DEF Register, At, MaySend

\* CO_EM_process keeps the types.
LEMMA RegisterShape == ASSUME EmShape, Register PROVE EmShape'
<1>0. em \in EmRecord /\ em.r # Size /\ main.at = "register"
  BY RegisterIs DEF EmShape, At
<1>1. CASE Goto("idle") /\ UNCHANGED <<em, told>>
  BY <1>0, <1>1, RegisterIs, GotoIs DEF EmShape, At, CallSteps, ProcessSteps
<1>2. CASE /\ Goto("wrap") /\ Pending
           /\ told' = Changed(told, em.buf[em.r])
           /\ em' = [em EXCEPT !.r = @ + 1]
  <2>1. em.r \in 0 .. Size - 1 /\ em.r + 1 \in 0 .. Size
    BY <1>0, EmFields, EmergencyAssumption
  <2>2. em' \in EmRecord
    BY <1>2, <2>1, EmFields DEF EmRecord
  <2>3. em.buf[em.r] \in Calls
    BY <2>1, EmFields
  <2>4. told' \subseteq Errors
    BY <1>2, <2>3 DEF Changed, Calls, EmShape
  <2>5. main' \in MainRecord /\ main'.at = "wrap"
    BY <1>2, GotoIs DEF CallSteps, ProcessSteps
  <2>6. QED
    BY <2>2, <2>4, <2>5, RegisterIs DEF EmShape, At, CallSteps
<1>3. QED
  BY <1>1, <1>2, RegisterIs

\* What the other steps of CO_EM_process do to the ring.
LEMMA WrapIs ==
    ASSUME EmShape, Wrap
    PROVE  /\ em' \in EmRecord /\ em'.r = ReadAt /\ em'.r \in 0 .. Size - 1
           /\ em'.bits = em.bits /\ em'.buf = em.buf /\ em'.w = em.w /\ em'.full = em.full
<1>1. em' = [em EXCEPT !.r = ReadAt]
  BY EmFields DEF Wrap, ReadAt
<1>2. ReadAt \in 0 .. Size - 1
  BY EmFields, EmergencyAssumption DEF ReadAt
<1>3. em' = [bits |-> em.bits, buf |-> em.buf, w |-> em.w, r |-> ReadAt, full |-> em.full]
  BY <1>1, EmFields
<1>4. ReadAt \in 0 .. Size
  BY <1>2, EmergencyAssumption
<1>5. em' \in EmRecord
  BY <1>3, <1>4, EmFields DEF EmRecord
<1>6. QED
  BY <1>2, <1>3, <1>5

\* Where bufFull is cleared.
LEMMA EmptiedIs ==
    ASSUME EmShape, em' = [em EXCEPT !.full = 0]
    PROVE  /\ em' \in EmRecord /\ em'.r = em.r /\ em'.full = 0
           /\ em'.bits = em.bits /\ em'.buf = em.buf /\ em'.w = em.w
  BY EmFields DEF EmRecord

\* The rest of CO_EM_process keeps the types.
LEMMA ProcessShape ==
    ASSUME EmShape, Wrap \/ Overflow \/ ReportOverflow \/ ClearFull \/ HistoryAndSend
    PROVE  EmShape'
<1>0. ASSUME NEW step \in ProcessSteps \ {"wrap"}, Goto(step)
      PROVE  main' \in MainRecord /\ main'.at # "wrap" /\ main'.at \notin CallSteps
  <2>1. main' \in MainRecord /\ main'.at = step
    BY <1>0, GotoIs DEF ProcessSteps, CallSteps
  <2>2. QED
    BY <2>1 DEF ProcessSteps, CallSteps
<1>1. ASSUME Wrap PROVE EmShape'
  <2>1. em' \in EmRecord /\ em'.r # Size
    BY <1>1, WrapIs, EmergencyAssumption
  <2>2. pr' \in PrRecord
    BY <1>1, EmFields DEF Wrap, PrRecord
  <2>3. main' \in MainRecord /\ main'.at # "wrap" /\ main'.at \notin CallSteps
    BY <1>0, <1>1 DEF Wrap, ProcessSteps
  <2>4. QED
    BY <1>1, <2>1, <2>2, <2>3 DEF Wrap, EmShape
<1>2. ASSUME Overflow PROVE EmShape'
  <2>1. main' \in MainRecord /\ main'.at # "wrap" /\ main'.at \notin CallSteps
    BY <1>0, <1>2 DEF Overflow, ProcessSteps
  <2>2. QED
    BY <1>2, <2>1 DEF Overflow, EmShape, At
<1>3. ASSUME ReportOverflow PROVE EmShape'
  <2>1. em' \in EmRecord /\ em'.r = em.r
    BY <1>3, EmptiedIs DEF ReportOverflow
  <2>2. <<Report(BUFFER_FULL)>> \in Seq(Orderly)
    BY CallsAreTyped
  <2>3. /\ main' \in MainRecord /\ main'.at # "wrap"
        /\ main'.at \in CallSteps => main'.todo # <<>>
    BY <1>3, <2>2, CallingIs DEF ReportOverflow
  <2>4. QED
    BY <1>3, <2>1, <2>3 DEF ReportOverflow, EmShape, At
<1>4. ASSUME ClearFull PROVE EmShape'
  <2>1. em' \in EmRecord /\ em'.r = em.r
    BY <1>4, EmptiedIs DEF ClearFull
  <2>2. main' \in MainRecord /\ main'.at # "wrap" /\ main'.at \notin CallSteps
    BY <1>0, <1>4 DEF ClearFull, ProcessSteps
  <2>3. QED
    BY <1>4, <2>1, <2>2 DEF ClearFull, EmShape, At
<1>5. ASSUME HistoryAndSend PROVE EmShape'
  <2> DEFINE n == IF pr.errors < HistSize THEN pr.errors + 1 ELSE pr.errors
  <2>1. n \in 0 .. HistSize /\ pr' = [pr EXCEPT !.errors = n]
    BY <1>5, EmFields, EmergencyAssumption DEF HistoryAndSend
  <2> HIDE DEF n
  <2>2. pr' \in PrRecord
    BY <2>1, EmFields DEF PrRecord
  <2>3. main' \in MainRecord /\ main'.at # "wrap" /\ main'.at \notin CallSteps
    BY <1>0, <1>5 DEF HistoryAndSend, ProcessSteps
  <2>4. QED
    BY <1>5, <2>2, <2>3 DEF HistoryAndSend, EmShape, At
<1>6. QED
  BY <1>1, <1>2, <1>3, <1>4, <1>5

\* The steps of others than main and the interrupt keep the types.
LEMMA OutsideShape ==
    ASSUME EmShape, ClearHistory \/ MessageLeaves \/ BusState
    PROVE  EmShape'
<1>1. CASE ClearHistory
  <2>0. pr' = [register |-> pr.register, timer |-> pr.timer, errors |-> 0]
    BY <1>1, EmFields DEF ClearHistory
  <2>1. pr' \in PrRecord
    BY <2>0, EmFields, EmergencyAssumption DEF PrRecord
  <2>2. QED
    BY <1>1, <2>1 DEF ClearHistory, EmShape, At
<1>2. CASE MessageLeaves
  BY <1>2 DEF MessageLeaves, EmShape, At
<1>3. CASE BusState
  <2>1. errCode' \in [now : SUBSET HalErrors, old : SUBSET HalErrors]
    BY <1>3, EmergencyAssumption DEF BusState, EmShape
  <2>2. QED
    BY <1>3, <2>1 DEF BusState, EmShape, At
<1>4. QED
  BY <1>1, <1>2, <1>3

\* Every step keeps the types, also when the interrupt preempts main.
LEMMA EmShapeStep == EmShape /\ [EmNext]_emVars => EmShape'
<1> SUFFICES ASSUME EmShape, [EmNext]_emVars PROVE EmShape'
  OBVIOUS
<1>1. CASE EmNext
  BY <1>1, IsrShape, CallShape, VerifyShape, RegisterShape, ProcessShape, OutsideShape
     DEF EmNext, MainStep
<1>2. CASE UNCHANGED emVars
  BY <1>2 DEF emVars, EmShape, At
<1>3. QED
  BY <1>1, <1>2

\* The shape holds in every state that can be reached.
LEMMA EmShapeHolds == EmSpec => []EmShape
  BY EmInitShape, EmShapeStep, PTL DEF EmSpec

\* The record of each object keeps the shape of CO_EM_t and CO_EMpr_t, the
\* pointers and the counters stay in range, also with preemption.
THEOREM EmTypeCorrect == EmSpec => []EmTypeOK
<1>1. EmShape => EmTypeOK
  <2> SUFFICES ASSUME EmShape PROVE EmTypeOK
    OBVIOUS
  <2>1. main.todo \in Seq(Calls)
    BY EmFields, OrderlyCalls
  <2>2. QED
    BY <2>1, EmFields DEF EmTypeOK, EmShape, EmRecord
<1>2. QED
  BY <1>1, EmShapeHolds, PTL

-----------------------------------------------------------------------------
(* What the ring tells.  From here on the interrupt does not preempt main    *)
(* inside a call: the run emergency_preempt shows what happens when it does. *)

\* Positions are told apart by how far they are behind the oldest message.
LEMMA BehindIs ==
    ASSUME EmShape
    PROVE  /\ ReadAt \in 0 .. Size - 1
           /\ ~Taking => ReadAt = em.r
           /\ \A i \in 0 .. Size - 1 : /\ Behind(i) \in 0 .. Size - 1
                                       /\ Behind(i) = 0 <=> i = ReadAt
           /\ \A i, j \in 0 .. Size - 1 : Behind(i) = Behind(j) => i = j
<1>1. ReadAt \in 0 .. Size - 1
  BY EmFields, EmergencyAssumption DEF ReadAt
<1>2. ~Taking => ReadAt = em.r
  BY DEF EmShape, At, Taking, ReadAt
<1>3. QED
  BY <1>1, <1>2, EmergencyAssumption DEF Behind

\* A step that moves no pointer and changes no message tells what was told.
LEMMA SameTells ==
    ASSUME RingTells, em'.buf = em.buf, em'.w = em.w, ReadAt' = ReadAt,
           told' = told, dropped' = dropped, Shown' = Shown,
           (em'.full # 0 /\ ~Taking') <=> (em.full # 0 /\ ~Taking)
    PROVE  RingTells'
<1>1. \A i : Behind(i)' = Behind(i)
  BY DEF Behind
<1>2. \A i : InRing(i)' <=> InRing(i)
  BY <1>1 DEF InRing
<1>3. \A i \in 0 .. Size - 1 : NewestInRing(i)' <=> NewestInRing(i)
  BY <1>1, <1>2 DEF NewestInRing
<1>4. QED
  BY <1>2, <1>3 DEF RingTells

\* A message queued where there is room is the newest about its error.
LEMMA QueuedTells ==
    ASSUME EmShape, RingState, RingTells, em.full = 0, ~Taking, ~Taking', NEW c \in Calls,
           em'.buf = [em.buf EXCEPT ![em.w] = c], em'.r = em.r,
           em'.w = IF em.w + 1 = Size THEN 0 ELSE em.w + 1,
           em'.full = IF em'.w = em.r THEN 1 ELSE 0,
           Shown' = Changed(Shown, c), told' = told, dropped' = dropped
    PROVE  RingTells'
<1>0. PICK w \in 0 .. Size - 1 : w = em.w
  BY EmFields
<1>00. PICK v \in 0 .. Size - 1 : v = em'.w
  BY EmFields, EmergencyAssumption, SMTT(60)
<1>1. /\ v = (IF w + 1 = Size THEN 0 ELSE w + 1) /\ em.r \in 0 .. Size - 1
      /\ em.buf \in [0 .. Size - 1 -> Calls]
      /\ ReadAt = em.r /\ ReadAt' = em.r
  <2>1. ReadAt = em.r /\ ReadAt \in 0 .. Size - 1
    BY BehindIs
  <2>2. em'.r # Size
    BY <2>1, EmergencyAssumption
  <2>3. ReadAt' = em.r
    BY <2>2 DEF ReadAt
  <2>4. QED
    BY <1>0, <1>00, <2>1, <2>3, EmFields
<1>2. \A i \in 0 .. Size - 1 : Behind(i)' = Behind(i)
  BY <1>1 DEF Behind
<1>3. \A i \in 0 .. Size - 1 : InRing(i) <=> Behind(i) < Behind(w)
  BY <1>0 DEF InRing
<1>4. \A i \in 0 .. Size - 1 : InRing(i)' <=> Behind(i) <= Behind(w)
  <2>1. CASE v = em.r
    <3>1. Behind(w) = Size - 1
      BY <1>1, <2>1, EmergencyAssumption DEF Behind
    <3>2. \A i \in 0 .. Size - 1 : Behind(i) <= Size - 1
      BY BehindIs, EmergencyAssumption
    <3>3. \A i \in 0 .. Size - 1 : InRing(i)'
      BY <2>1, <1>00, <1>1 DEF InRing
    <3>4. QED
      BY <3>1, <3>2, <3>3
  <2>2. CASE v # em.r
    <3>1. Behind(v) = Behind(w) + 1
      <4>1. /\ Behind(v) = (IF em.r <= v THEN v - em.r ELSE v + Size - em.r)
            /\ Behind(w) = (IF em.r <= w THEN w - em.r ELSE w + Size - em.r)
        BY <1>1 DEF Behind
      <4>2. v = (IF w + 1 = Size THEN 0 ELSE w + 1) /\ em.r \in 0 .. Size - 1
        BY <1>1
      <4>3. QED
        BY <4>1, <4>2, <2>2, EmergencyAssumption
    <3>2. \A i \in 0 .. Size - 1 : InRing(i)' <=> Behind(i)' < Behind(v)'
      BY <2>2, <1>00 DEF InRing
    <3>3. \A i \in 0 .. Size - 1 : InRing(i)' <=> Behind(i) < Behind(v)
      BY <1>2, <3>2
    <3>4. \A i \in 0 .. Size - 1 : Behind(i) \in Int
      BY BehindIs
    <3>5. QED
      BY <3>1, <3>3, <3>4
  <2>3. QED
    BY <2>1, <2>2
<1>5. \A i \in 0 .. Size - 1 : InRing(i)' <=> InRing(i) \/ i = w
  <2>1. \A i \in 0 .. Size - 1 : Behind(i) \in Int /\ (Behind(i) = Behind(w) => i = w)
    BY BehindIs
  <2>2. QED
    BY <2>1, <1>3, <1>4
<1>6. /\ \A i \in 0 .. Size - 1 : i # w => em'.buf[i] = em.buf[i]
      /\ em'.buf[w] = c
  BY <1>0, <1>1
<1>7. c.err \in Errors /\ c.on \in BOOLEAN
  BY DEF Calls
<1>8. \A i \in 0 .. Size - 1 : em.buf[i].err \in Errors /\ em.buf[i].on \in BOOLEAN
  BY <1>1 DEF Calls
<1>9. AlreadySo(Shown', c) /\ \A e : e # c.err => (e \in Shown' <=> e \in Shown)
  BY <1>7 DEF AlreadySo, Changed
<1>10. ASSUME ~dropped, NEW i \in 0 .. Size - 1, NewestInRing(i)'
       PROVE  AlreadySo(Shown', em'.buf[i])
  <2>1. CASE i = w
    BY <2>1, <1>6, <1>9
  <2>2. CASE i # w
    <3>1. InRing(i) /\ em'.buf[i] = em.buf[i]
      BY <1>5, <1>6, <1>10, <2>2 DEF NewestInRing
    <3>2. Behind(i) < Behind(w)
      BY <3>1, <1>3
    <3>3. em.buf[i].err # c.err
      <4>1. SUFFICES ASSUME em.buf[i].err = c.err PROVE FALSE
        OBVIOUS
      <4>2. Behind(w)' <= Behind(i)'
        BY <1>1, <1>5, <1>6, <1>10, <3>1, <4>1 DEF NewestInRing
      <4>3. Behind(w) \in Int /\ Behind(i) \in Int
        BY <1>1, BehindIs
      <4>4. QED
        BY <1>1, <1>2, <3>2, <4>2, <4>3
    <3>4. ASSUME NEW j \in 0 .. Size - 1, InRing(j), em.buf[j].err = em.buf[i].err
          PROVE  Behind(j) <= Behind(i)
      <4>1. j # w
        BY <1>1, <1>3, <3>4, BehindIs
      <4>2. em'.buf[j] = em.buf[j] /\ InRing(j)'
        BY <4>1, <1>5, <1>6, <3>4
      <4>3. Behind(j)' <= Behind(i)'
        BY <4>2, <3>1, <3>4, <1>10 DEF NewestInRing
      <4>4. QED
        BY <4>3, <1>2
    <3>5. NewestInRing(i)
      BY <3>1, <3>4 DEF NewestInRing
    <3>6. AlreadySo(Shown, em.buf[i])
      BY <3>5, <1>10 DEF RingTells
    <3>7. QED
      BY <3>1, <3>3, <3>6, <1>9, <1>8 DEF AlreadySo
  <2>3. QED
    BY <2>1, <2>2
<1>11. ASSUME ~dropped, NEW e \in Errors,
              \A i \in 0 .. Size - 1 : InRing(i)' => em'.buf[i].err # e
       PROVE  e \in told <=> e \in Shown'
  <2>1. e # c.err
    BY <1>1, <1>5, <1>6, <1>11
  <2>2. \A i \in 0 .. Size - 1 : InRing(i) => em.buf[i].err # e
    <3>1. TAKE i \in 0 .. Size - 1
    <3>2. HAVE InRing(i)
    <3>3. i # w
      BY <3>2, <1>1, <1>3, BehindIs
    <3>4. QED
      BY <3>2, <3>3, <1>5, <1>6, <1>11
  <2>3. e \in told <=> e \in Shown
    BY <2>2, <1>11 DEF RingTells
  <2>4. QED
    BY <2>1, <2>3, <1>9
<1>12. QED
  BY <1>10, <1>11 DEF RingTells

\* Taking the oldest message out of the ring tells what it tells.
LEMMA TakenTells ==
    ASSUME EmShape, RingState, RingTells, ~Taking, Taking', Pending,
           em' = [em EXCEPT !.r = @ + 1], told' = Changed(told, em.buf[em.r]),
           Shown' = Shown, dropped' = dropped
    PROVE  RingTells'
<1>0. PICK w \in 0 .. Size - 1 : w = em.w
  BY EmFields
<1>00. PICK r \in 0 .. Size - 1 : r = em.r /\ r = ReadAt
  BY BehindIs
<1>1. /\ em'.w = w /\ em'.r = r + 1
      /\ em.buf \in [0 .. Size - 1 -> Calls]
      /\ em'.buf = em.buf /\ em'.full = em.full
  BY <1>0, <1>00, EmFields
<1>2. ReadAt' = IF r + 1 = Size THEN 0 ELSE r + 1
  BY <1>1, EmergencyAssumption DEF ReadAt
<1>3. \A i \in 0 .. Size - 1 : i # r => Behind(i)' = Behind(i) - 1
  BY <1>00, <1>1, <1>2, EmergencyAssumption DEF Behind
<1>4. Behind(r)' = Size - 1 /\ Behind(r) = 0
  <2>1. Behind(r)' = IF ReadAt' <= r THEN r - ReadAt' ELSE r + Size - ReadAt'
    BY DEF Behind
  <2>2. Behind(r) = r - r
    BY <1>00 DEF Behind
  <2>3. QED
    BY <2>1, <2>2, <1>2, EmergencyAssumption
<1>5. \A i \in 0 .. Size - 1 : InRing(i)' <=> Behind(i)' < Behind(w)'
  BY <1>1 DEF InRing
<1>6. \A i \in 0 .. Size - 1 : InRing(i)' <=> InRing(i) /\ i # r
  <2>1. CASE em.full # 0
    <3>1. w = r /\ \A i \in 0 .. Size - 1 : InRing(i)
      BY <2>1, <1>0, <1>00 DEF RingState, InRing
    <3>2. QED
      BY <1>1, <1>3, <1>4, <1>5, <3>1, BehindIs, EmergencyAssumption
  <2>2. CASE em.full = 0
    <3>1. w # r
      BY <2>2, <1>0, <1>00 DEF Pending
    <3>2. \A i \in 0 .. Size - 1 : InRing(i) <=> Behind(i) < Behind(w)
      BY <2>2, <1>0 DEF InRing
    <3>3. Behind(w) \in 0 .. Size - 1 /\ Behind(w)' = Behind(w) - 1
      BY <1>3, <3>1, BehindIs
    <3>4. ASSUME NEW i \in 0 .. Size - 1, i # r
          PROVE  InRing(i)' <=> InRing(i)
      <4>1. Behind(i) \in 0 .. Size - 1 /\ Behind(i)' = Behind(i) - 1
        BY <1>3, <3>4, BehindIs
      <4>2. Behind(i) - 1 < Behind(w) - 1 <=> Behind(i) < Behind(w)
        BY <3>3, <4>1, EmergencyAssumption
      <4>3. QED
        BY <1>5, <3>2, <3>3, <4>1, <4>2
    <3>5. ~InRing(r)'
      <4>1. Size - 1 >= Behind(w) - 1
        BY <3>3, EmergencyAssumption
      <4>2. ~(Behind(r)' < Behind(w)')
        BY <1>4, <3>3, <4>1, EmergencyAssumption
      <4>3. QED
        BY <1>5, <4>2
    <3>6. QED
      BY <3>4, <3>5
  <2>3. QED
    BY <2>1, <2>2
<1>7. InRing(r)
  <2>1. CASE em.full # 0
    BY <2>1 DEF InRing
  <2>2. CASE em.full = 0
    BY <1>0, <1>00, <2>2, <1>4, BehindIs, EmergencyAssumption DEF InRing, Pending
  <2>3. QED
    BY <2>1, <2>2
<1>8. \A i \in 0 .. Size - 1 : em.buf[i].err \in Errors /\ em.buf[i].on \in BOOLEAN
  BY <1>1 DEF Calls
<1>9. ASSUME ~dropped, NEW i \in 0 .. Size - 1, NewestInRing(i)'
      PROVE  AlreadySo(Shown', em'.buf[i])
  <2>1. InRing(i) /\ i # r
    BY <1>6, <1>9 DEF NewestInRing
  <2>2. ASSUME NEW j \in 0 .. Size - 1, InRing(j), em.buf[j].err = em.buf[i].err
        PROVE  Behind(j) <= Behind(i)
    <3>1. Behind(i) \in Nat /\ Behind(j) \in Nat
      BY BehindIs, EmergencyAssumption
    <3>2. CASE j = r
      BY <1>4, <3>1, <3>2
    <3>3. CASE j # r
      <4>1. Behind(j)' <= Behind(i)'
        BY <1>1, <1>6, <1>9, <2>2, <3>3 DEF NewestInRing
      <4>2. QED
        BY <4>1, <3>1, <3>3, <2>1, <1>3
    <3>4. QED
      BY <3>2, <3>3
  <2>3. AlreadySo(Shown, em.buf[i])
    BY <2>1, <2>2, <1>9 DEF NewestInRing, RingTells
  <2>4. QED
    BY <2>3, <1>1
<1>10. ASSUME ~dropped, NEW e \in Errors,
              \A i \in 0 .. Size - 1 : InRing(i)' => em'.buf[i].err # e
       PROVE  e \in told' <=> e \in Shown
  <2>1. \A i \in 0 .. Size - 1 : InRing(i) /\ i # r => em.buf[i].err # e
    BY <1>1, <1>6, <1>10
  <2>2. CASE em.buf[r].err = e
    <3>1. NewestInRing(r)
      <4>1. ASSUME NEW j \in 0 .. Size - 1, InRing(j), em.buf[j].err = em.buf[r].err
            PROVE  Behind(j) <= Behind(r)
        <5>1. j = r
          BY <2>1, <2>2, <4>1
        <5>2. QED
          BY <5>1, <1>4
      <4>2. QED
        BY <1>1, <1>7, <4>1 DEF NewestInRing
    <3>2. AlreadySo(Shown, em.buf[r])
      BY <1>1, <3>1, <1>10 DEF RingTells
    <3>3. QED
      BY <3>2, <2>2, <1>8, <1>00 DEF AlreadySo, Changed
  <2>3. CASE em.buf[r].err # e
    <3>1. e \in told <=> e \in Shown
      BY <2>1, <2>3, <1>10 DEF RingTells
    <3>2. QED
      BY <3>1, <2>3, <1>00 DEF Changed
  <2>4. QED
    BY <2>2, <2>3
<1>11. QED
  BY <1>9, <1>10 DEF RingTells

\* Outside a call, and in one before the status bits change, the ring is to
\* tell of the status bits.
LEMMA ShownIsBits ==
    /\ main.at \notin {"full", "queue"} => Shown = em.bits
    /\ main'.at \notin {"full", "queue"} => Shown' = em'.bits
  BY DEF Shown

\* Before the message is queued, it is to tell of the bits as they were.
LEMMA ShownIsBefore ==
    ASSUME EmShape, main.at \in {"full", "queue"}, AlreadySo(em.bits, Call)
    PROVE  Changed(Shown, Call) = em.bits
<1>1. Call.on \in BOOLEAN /\ Call \in Calls
  BY CallIsTyped DEF CallSteps
<1>2. [Call EXCEPT !.on = ~@] = [err |-> Call.err, on |-> ~Call.on]
  BY <1>1 DEF Calls
<1>3. Shown = IF Call.on THEN em.bits \ {Call.err} ELSE em.bits \cup {Call.err}
  BY <1>1, <1>2 DEF Shown, Changed
<1>4. CASE Call.on
  <2>1. Call.err \in em.bits
    BY <1>4 DEF AlreadySo
  <2>2. QED
    BY <1>3, <1>4, <2>1 DEF Changed
<1>5. CASE ~Call.on
  <2>1. Call.err \notin em.bits
    BY <1>5 DEF AlreadySo
  <2>2. QED
    BY <1>3, <1>5, <2>1 DEF Changed
<1>6. QED
  BY <1>4, <1>5

\* When the status bits change, what the ring is to tell of stays.
LEMMA ShownStays ==
    ASSUME EmShape, main.at = "write", ~AlreadySo(em.bits, Call),
           main'.at = "full", main'.todo = main.todo, em'.bits = Changed(em.bits, Call)
    PROVE  Shown' = em.bits
<1>1. Call.on \in BOOLEAN /\ Call \in Calls /\ Call' = Call
  BY CallIsTyped DEF CallSteps, Call
<1>2. [Call EXCEPT !.on = ~@] = [err |-> Call.err, on |-> ~Call.on]
  BY <1>1 DEF Calls
<1>3. Shown' = IF Call.on THEN em'.bits \ {Call.err} ELSE em'.bits \cup {Call.err}
  BY <1>1, <1>2 DEF Shown, Changed
<1>4. CASE Call.on
  <2>1. Call.err \notin em.bits
    BY <1>1, <1>4 DEF AlreadySo
  <2>2. QED
    BY <1>3, <1>4, <2>1 DEF Changed
<1>5. CASE ~Call.on
  <2>1. Call.err \in em.bits
    BY <1>1, <1>5 DEF AlreadySo
  <2>2. QED
    BY <1>3, <1>5, <2>1 DEF Changed
<1>6. QED
  BY <1>4, <1>5

\* A step after which main is at none of the places that promise something.
LEMMA CallStateElsewhere ==
    /\ main.at \notin {"read", "write", "full", "queue"} => CallState
    /\ main'.at \notin {"read", "write", "full", "queue"} => CallState'
  BY DEF CallState

\* Nothing is present and nothing waits.
LEMMA EmInitInv == EmInit => EmInv
<1> SUFFICES ASSUME EmInit PROVE EmInv
  OBVIOUS
<1>1. /\ em.bits = {} /\ em.w = 0 /\ em.r = 0 /\ em.full = 0
      /\ main.at = "idle" /\ told = {} /\ dropped = FALSE
  BY DEF EmInit
<1>2. EmShape
  BY EmInitShape
<1>3. \A i \in 0 .. Size - 1 : ~InRing(i)
  <2>1. ReadAt = 0
    BY <1>1, EmergencyAssumption DEF ReadAt
  <2>2. Behind(em.w) = 0
    BY <1>1, <2>1 DEF Behind
  <2>3. QED
    BY <1>1, <1>2, <2>2, BehindIs DEF InRing
<1>4. RingTells
  BY <1>1, <1>3, ShownIsBits DEF RingTells, NewestInRing
<1>5. QED
  BY <1>1, <1>2, <1>4, CallStateElsewhere DEF EmInv, EmTells, RingState, LossTold

\* A report of the interrupt, while main is outside every call.
LEMMA IsrTells == ASSUME EmInv, ~Preempt, NEW e \in IsrErrors, Isr(e) PROVE EmTells'
<1>0. /\ EmShape /\ CallState /\ RingState /\ RingTells /\ LossTold
      /\ main.at = "idle" /\ main' = main /\ told' = told
      /\ ~Taking /\ ~Taking'
  BY DEF EmInv, EmTells, Isr, Taking
<1> DEFINE m == [em EXCEPT !.bits = @ \cup {e}]
<1>1. /\ m \in EmRecord /\ m.bits = em.bits \cup {e} /\ m.buf = em.buf
      /\ m.w = em.w /\ m.r = em.r /\ m.full = em.full /\ Report(e) \in Calls
  BY <1>0, BitSet, CallsAreTyped
<1>2. em' = NewMessage(m, Report(e)) /\ e \notin em.bits
  BY DEF Isr, AlreadySo, Report
<1>3. /\ dropped' = (dropped \/ em.full # 0)
      /\ Shown = em.bits /\ Shown' = em'.bits /\ CallState'
  BY <1>0, ShownIsBits, CallStateElsewhere DEF Isr
<1> HIDE DEF m
<1>4. CASE em.full = 0
  <2>1. em' = Enqueued(m, Report(e))
    BY <1>1, <1>2, <1>4 DEF NewMessage
  <2>2. /\ em'.bits = em.bits \cup {e} /\ em'.r = em.r
        /\ em'.w = IF em.w + 1 = Size THEN 0 ELSE em.w + 1
        /\ em'.buf = [em.buf EXCEPT ![em.w] = Report(e)]
        /\ em'.full = IF em'.w = em.r THEN 1 ELSE 0
    BY <1>1, <1>4, <2>1, EnqueuedIs
  <2>3. Shown' = Changed(Shown, Report(e))
    BY <1>3, <2>2 DEF Changed, Report
  <2>4. dropped' = dropped
    BY <1>0, <1>3, <1>4 DEF EmShape
  <2>5. RingTells'
    BY <1>0, <1>1, <1>4, <2>2, <2>3, <2>4, QueuedTells
  <2>6. RingState'
    BY <1>0, <2>2 DEF RingState
  <2>7. LossTold'
    BY <1>0, <1>4, <2>2, <2>4 DEF LossTold
  <2>8. QED
    BY <1>3, <2>5, <2>6, <2>7 DEF EmTells
<1>5. CASE em.full # 0
  <2>1. em' = Overflowed(m)
    BY <1>1, <1>2, <1>5 DEF NewMessage
  <2>2. em'.full = 2 /\ em'.r = em.r /\ em'.w = em.w
    BY <1>1, <2>1, OverflowedIs
  <2>3. dropped' = TRUE
    BY <1>3, <1>5
  <2>4. QED
    BY <1>0, <1>3, <1>5, <2>2, <2>3 DEF EmTells, RingTells, RingState, LossTold
<1>6. QED
  BY <1>4, <1>5

\* Where main goes when a call is done.
LEMMA DoneIs ==
    ASSUME EmShape, main.at \in CallSteps, CallDone
    PROVE  main'.at \in {"test", "register", "history"}
<1>1. main'.at = IF Tail(main.todo) = <<>> THEN main.then ELSE "test"
  BY CallIsTyped, EmFields, CallingIs DEF CallDone
<1>2. QED
  BY <1>1, EmFields

\* The steps of a call.
LEMMA CallTells ==
    ASSUME EmInv, EmShape',
           CallTest \/ CallRead \/ CallWrite \/ CallFull \/ CallQueue
    PROVE  EmTells'
<1>0. /\ EmShape /\ CallState /\ RingState /\ RingTells /\ LossTold
      /\ main.at \in CallSteps /\ ~Taking
      /\ told' = told
  BY DEF EmInv, EmTells, CallTest, CallRead, CallWrite, CallFull, CallQueue, At, CallSteps, Taking
<1>1. Call \in Calls /\ Call.err \in Errors /\ Call.on \in BOOLEAN
      /\ (Call.err = BUFFER_FULL => Call.on)
  BY <1>0, CallIsTyped
<1>2. ASSUME em' = em, dropped' = dropped, ~Taking', Shown' = Shown
      PROVE  RingTells' /\ RingState'
  <2>1. ReadAt' = ReadAt
    BY <1>2 DEF ReadAt
  <2>2. RingTells'
    BY <1>0, <1>2, <2>1, SameTells
  <2>3. main'.at # "clear"
    BY <1>2 DEF Taking
  <2>4. QED
    BY <1>0, <1>2, <2>2, <2>3 DEF RingState
<1>3. ASSUME CallTest PROVE EmTells'
  <2>0. main.at = "test" /\ em' = em /\ dropped' = dropped
    BY <1>3 DEF CallTest, At
  <2>1. CASE AlreadySo(em.bits, Call)
    <3>1. main'.at \in {"test", "register", "history"}
      BY <1>0, <1>3, <2>1, DoneIs DEF CallTest
    <3>2. ~Taking' /\ Shown' = Shown /\ CallState'
      BY <2>0, <3>1, ShownIsBits, CallStateElsewhere DEF Taking
    <3>3. dropped => em.full = 2 \/ BUFFER_FULL \in em.bits
      <4>1. ASSUME Call = Report(BUFFER_FULL) PROVE BUFFER_FULL \in em.bits
        <5>1. Call.err = BUFFER_FULL /\ Call.on = TRUE
          BY <4>1 DEF Report
        <5>2. QED
          BY <2>1, <5>1 DEF AlreadySo
      <4>2. QED
        BY <1>0, <4>1 DEF LossTold
    <3>4. QED
      BY <1>2, <2>0, <3>2, <3>3 DEF EmTells, LossTold
  <2>2. CASE ~AlreadySo(em.bits, Call)
    <3>1. main'.at = "read" /\ main'.todo = main.todo
      BY <1>0, <1>3, <2>2, GotoIs DEF CallTest, CallSteps
    <3>2. Call' = Call
      BY <3>1 DEF Call
    <3>3. ~Taking' /\ Shown' = Shown
      BY <2>0, <3>1, ShownIsBits DEF Taking
    <3>4. CallState'
      BY <2>0, <2>2, <3>1, <3>2 DEF CallState
    <3>5. QED
      BY <1>0, <1>2, <2>0, <3>1, <3>2, <3>3, <3>4 DEF EmTells, LossTold
  <2>3. QED
    BY <2>1, <2>2
<1>4. ASSUME CallRead PROVE EmTells'
  <2>1. /\ main.at = "read" /\ em' = em /\ dropped' = dropped
        /\ main'.at = "write" /\ main'.todo = main.todo
        /\ main'.byte = {e \in em.bits : Byte(e) = Byte(Call.err)}
    BY <1>0, <1>4, EmFields DEF CallRead, At
  <2>2. Call' = Call /\ ~Taking' /\ Shown' = Shown
    BY <2>1, ShownIsBits DEF Call, Taking
  <2>3. CallState'
    BY <1>0, <2>1, <2>2 DEF CallState
  <2>4. QED
    BY <1>0, <1>2, <2>1, <2>2, <2>3 DEF EmTells, LossTold
<1>5. ASSUME CallWrite PROVE EmTells'
  <2>0. /\ main.at = "write" /\ dropped' = dropped
        /\ main'.at = "full" /\ main'.todo = main.todo
    BY <1>0, <1>5, GotoIs DEF CallWrite, At, CallSteps
  <2>1. /\ em'.w = em.w /\ em'.r = em.r /\ em'.full = em.full /\ em'.buf = em.buf
        /\ em'.bits = {e \in em.bits : Byte(e) # Byte(Call.err)} \cup Changed(main.byte, Call)
    BY <1>0, <1>5, EmFields DEF CallWrite
  <2>2. ~AlreadySo(em.bits, Call) /\ main.byte = {e \in em.bits : Byte(e) = Byte(Call.err)}
    BY <1>0, <2>0 DEF CallState
  <2>3. em'.bits = Changed(em.bits, Call)
    BY <2>1, <2>2 DEF Changed
  <2>4. Shown' = Shown
    BY <1>0, <2>0, <2>2, <2>3, ShownStays, ShownIsBits
  <2>5. Call' = Call /\ ~Taking' /\ ReadAt' = ReadAt
    BY <2>0, <2>1 DEF Call, Taking, ReadAt
  <2>6. RingTells'
    BY <1>0, <2>0, <2>1, <2>4, <2>5, SameTells
  <2>7. RingState'
    BY <1>0, <2>0, <2>1 DEF RingState
  <2>8. AlreadySo(em'.bits, Call)
    BY <1>1, <2>3 DEF Changed, AlreadySo
  <2>9. CallState'
    BY <2>0, <2>5, <2>8 DEF CallState
  <2>10. LossTold'
    BY <1>0, <1>1, <2>0, <2>1, <2>3 DEF LossTold, Changed, Report
  <2>11. QED
    BY <2>6, <2>7, <2>9, <2>10 DEF EmTells
<1>6. ASSUME CallFull PROVE EmTells'
  <2>0. main.at = "full" /\ AlreadySo(em.bits, Call)
    BY <1>0, <1>6 DEF CallFull, At, CallState
  <2>1. CASE em.full # 0
    <3>1. main'.at \in {"test", "register", "history"}
      BY <1>0, <1>6, <2>1, DoneIs DEF CallFull
    <3>2. em' = Overflowed(em) /\ dropped' = TRUE
      BY <1>6, <2>1 DEF CallFull
    <3>3. em'.full = 2 /\ em'.r = em.r /\ em'.w = em.w
      BY <1>0, <3>2, OverflowedIs DEF EmShape
    <3>4. CallState'
      BY <3>1, CallStateElsewhere
    <3>5. QED
      BY <1>0, <2>1, <3>1, <3>2, <3>3, <3>4 DEF EmTells, RingTells, RingState, LossTold
  <2>2. CASE em.full = 0
    <3>1. main'.at = "queue" /\ main'.todo = main.todo /\ em' = em /\ dropped' = dropped
      BY <1>0, <1>6, <2>2, GotoIs DEF CallFull, CallSteps
    <3>2. Call' = Call /\ ~Taking'
      BY <3>1 DEF Call, Taking
    <3>3. Shown' = Shown
      BY <2>0, <3>1, <3>2 DEF Shown
    <3>4. CallState'
      BY <2>0, <2>2, <3>1, <3>2 DEF CallState
    <3>5. LossTold'
      BY <1>0, <2>0, <2>2, <3>1 DEF LossTold
    <3>6. QED
      BY <1>2, <3>1, <3>2, <3>3, <3>4, <3>5 DEF EmTells
  <2>3. QED
    BY <2>1, <2>2
<1>7. ASSUME CallQueue PROVE EmTells'
  <2>0. main.at = "queue" /\ AlreadySo(em.bits, Call) /\ em.full = 0
    BY <1>0, <1>7 DEF CallQueue, At, CallState
  <2>1. main'.at \in {"test", "register", "history"}
    BY <1>0, <1>7, DoneIs DEF CallQueue
  <2>2. em' = Enqueued(em, Call) /\ dropped' = dropped
    BY <1>7 DEF CallQueue
  <2>3. /\ em'.bits = em.bits /\ em'.r = em.r
        /\ em'.w = IF em.w + 1 = Size THEN 0 ELSE em.w + 1
        /\ em'.buf = [em.buf EXCEPT ![em.w] = Call]
        /\ em'.full = IF em'.w = em.r THEN 1 ELSE 0
    BY <1>0, <1>1, <2>0, <2>2, EnqueuedIs DEF EmShape
  <2>4. ~Taking' /\ Shown' = em.bits /\ CallState'
    BY <2>1, <2>3, ShownIsBits, CallStateElsewhere DEF Taking
  <2>5. Shown' = Changed(Shown, Call)
    BY <1>0, <2>0, <2>4, ShownIsBefore
  <2> DEFINE c == Call
  <2>6. c \in Calls /\ em'.buf = [em.buf EXCEPT ![em.w] = c] /\ Shown' = Changed(Shown, c)
    BY <1>1, <2>3, <2>5
  <2> HIDE DEF c
  <2>7. RingTells'
    BY <1>0, <2>0, <2>2, <2>3, <2>4, <2>6, QueuedTells
  <2>8. RingState'
    BY <2>1, <2>3 DEF RingState
  <2>9. LossTold'
    BY <1>0, <2>0, <2>2, <2>3 DEF LossTold
  <2>10. QED
    BY <2>4, <2>7, <2>8, <2>9 DEF EmTells
<1>8. QED
  BY <1>3, <1>4, <1>5, <1>6, <1>7

\* A step that changes neither the ring nor the status bits, and after which
\* main is at no place that promises something.
LEMMA QuietTells ==
    ASSUME EmInv, em' = em, told' = told, dropped' = dropped, Taking' <=> Taking,
           main.at \notin CallSteps, main'.at \notin {"read", "write", "full", "queue"},
           main'.at = "clear" => em.full # 2
    PROVE  EmTells'
<1>1. /\ CallState /\ RingState /\ RingTells /\ LossTold
      /\ main.at \notin {"test", "read", "write", "full", "queue"}
  BY DEF EmInv, EmTells, CallSteps
<1>2. Shown' = Shown /\ CallState' /\ ReadAt' = ReadAt
  BY <1>1, ShownIsBits, CallStateElsewhere DEF ReadAt
<1>3. RingTells'
  BY <1>1, <1>2, SameTells
<1>4. RingState'
  BY <1>1 DEF RingState
<1>5. LossTold'
  BY <1>1 DEF LossTold
<1>6. QED
  BY <1>2, <1>3, <1>4, <1>5 DEF EmTells

\* CO_CANverifyErrors begins its calls.
LEMMA VerifyTells == ASSUME EmInv, CANverifyErrors PROVE EmTells'
<1>1. PICK sent \in BOOLEAN :
         Calling(IF errCode.now = errCode.old THEN <<>> ELSE VerifyCalls(errCode.now, sent),
                 "register")
  BY DEF CANverifyErrors
<1> DEFINE todo == IF errCode.now = errCode.old THEN <<>> ELSE VerifyCalls(errCode.now, sent)
<1>2. todo \in Seq(Orderly)
  BY VerifyIsOrderly
<1> HIDE DEF todo
<1>3. main'.at \in {"test", "register"}
  BY <1>1, <1>2, CallingIs DEF EmInv, todo
<1>4. main.at = "idle" /\ UNCHANGED <<em, told, dropped>>
  BY DEF CANverifyErrors, At
<1>5. QED
  BY <1>3, <1>4, QuietTells DEF CallSteps, Taking

\* CO_EM_process takes a message, or finds none that may go.
LEMMA RegisterTells == ASSUME EmInv, Register PROVE EmTells'
<1>0. /\ EmShape /\ CallState /\ RingState /\ RingTells /\ LossTold
      /\ main.at = "register" /\ dropped' = dropped /\ ~Taking
  BY RegisterIs DEF EmInv, EmTells, Taking
<1>1. CASE Goto("idle") /\ UNCHANGED <<em, told>>
  <2>1. main'.at = "idle"
    BY <1>0, <1>1, GotoIs DEF ProcessSteps, CallSteps
  <2>2. QED
    BY <1>0, <1>1, <2>1, QuietTells DEF CallSteps, Taking
<1>2. CASE /\ Goto("wrap") /\ Pending
           /\ told' = Changed(told, em.buf[em.r])
           /\ em' = [em EXCEPT !.r = @ + 1]
  <2>1. main'.at = "wrap"
    BY <1>0, <1>2, GotoIs DEF ProcessSteps, CallSteps
  <2>2. em'.bits = em.bits /\ em'.full = em.full
    BY <1>0, <1>2, EmFields
  <2>3. Taking' /\ Shown' = Shown /\ CallState'
    BY <1>0, <2>1, <2>2, ShownIsBits, CallStateElsewhere DEF Taking
  <2>4. RingTells'
    BY <1>0, <1>2, <2>3, TakenTells
  <2>5. RingState' /\ LossTold'
    BY <1>0, <2>1, <2>2, <2>3 DEF RingState, LossTold
  <2>6. QED
    BY <2>3, <2>4, <2>5 DEF EmTells
<1>3. QED
  BY <1>0, <1>1, <1>2, RegisterIs

\* The rest of CO_EM_process: the overflow is reported before it is forgotten.
LEMMA ProcessTells ==
    ASSUME EmInv, EmShape', Wrap \/ Overflow \/ ReportOverflow \/ ClearFull \/ HistoryAndSend
    PROVE  EmTells'
<1>0. EmShape /\ CallState /\ RingState /\ RingTells /\ LossTold
  BY DEF EmInv, EmTells
<1>00. ASSUME NEW step \in ProcessSteps, Goto(step) PROVE main'.at = step
  BY <1>0, <1>00, GotoIs DEF ProcessSteps, CallSteps
<1>1. ASSUME Wrap PROVE EmTells'
  <2>1. main.at = "wrap" /\ main'.at = "overflow" /\ told' = told /\ dropped' = dropped
    BY <1>00, <1>1 DEF Wrap, At, ProcessSteps
  <2>2. /\ em'.r = ReadAt /\ em'.r \in 0 .. Size - 1
        /\ em'.bits = em.bits /\ em'.buf = em.buf /\ em'.w = em.w /\ em'.full = em.full
    BY <1>0, <1>1, WrapIs
  <2>3. em'.r # Size
    BY <2>2, EmergencyAssumption
  <2>4. ReadAt' = ReadAt /\ Taking /\ Taking'
    BY <2>1, <2>2, <2>3 DEF ReadAt, Taking
  <2>5. Shown' = Shown /\ CallState'
    BY <2>1, <2>2, ShownIsBits, CallStateElsewhere
  <2>6. RingTells'
    BY <1>0, <2>1, <2>2, <2>4, <2>5, SameTells
  <2>7. RingState' /\ LossTold'
    BY <1>0, <2>1, <2>2, <2>4 DEF RingState, LossTold
  <2>8. QED
    BY <2>5, <2>6, <2>7 DEF EmTells
<1>2. ASSUME Overflow PROVE EmTells'
  <2>1. /\ main.at = "overflow" /\ em' = em /\ told' = told /\ dropped' = dropped
        /\ main'.at = IF em.full = 2 THEN "report" ELSE "clear"
    BY <1>00, <1>2 DEF Overflow, At, ProcessSteps
  <2>2. QED
    BY <2>1, QuietTells DEF CallSteps, Taking
<1>3. ASSUME ReportOverflow PROVE EmTells'
  <2>1. main.at = "report" /\ told' = told /\ dropped' = dropped
    BY <1>3 DEF ReportOverflow, At
  <2>2. /\ em'.r = em.r /\ em'.bits = em.bits /\ em'.buf = em.buf /\ em'.w = em.w
        /\ em'.full = 0
    BY <1>0, <1>3, EmptiedIs DEF ReportOverflow
  <2> DEFINE todo == <<Report(BUFFER_FULL)>>
  <2>3. todo \in Seq(Orderly) /\ todo # <<>> /\ Head(todo) = Report(BUFFER_FULL)
    BY CallsAreTyped
  <2>4. Calling(todo, "history")
    BY <1>3 DEF ReportOverflow
  <2> HIDE DEF todo
  <2>5. main'.at = "test" /\ Call' = Report(BUFFER_FULL)
    BY <1>0, <2>3, <2>4, CallingIs DEF Call
  <2>6. Taking /\ ~Taking' /\ ReadAt' = ReadAt
    BY <2>1, <2>2, <2>5 DEF Taking, ReadAt
  <2>7. Shown' = Shown /\ CallState'
    BY <2>1, <2>2, <2>5, ShownIsBits, CallStateElsewhere
  <2>8. RingTells'
    BY <1>0, <2>1, <2>2, <2>6, <2>7, SameTells
  <2>9. RingState'
    BY <2>2, <2>5 DEF RingState
  <2>10. Report(BUFFER_FULL)' = Report(BUFFER_FULL)
    BY DEF Report, BUFFER_FULL
  <2>11. LossTold'
    BY <2>5, <2>10 DEF LossTold
  <2>12. QED
    BY <2>7, <2>8, <2>9, <2>11 DEF EmTells
<1>4. ASSUME ClearFull PROVE EmTells'
  <2>1. /\ main.at = "clear" /\ told' = told /\ dropped' = dropped /\ main'.at = "history"
    BY <1>00, <1>4 DEF ClearFull, At, ProcessSteps
  <2>2. /\ em'.r = em.r /\ em'.bits = em.bits /\ em'.buf = em.buf /\ em'.w = em.w
        /\ em'.full = 0
    BY <1>0, <1>4, EmptiedIs DEF ClearFull
  <2>3. Taking /\ ~Taking' /\ ReadAt' = ReadAt
    BY <2>1, <2>2 DEF Taking, ReadAt
  <2>4. Shown' = Shown /\ CallState'
    BY <2>1, <2>2, ShownIsBits, CallStateElsewhere
  <2>5. RingTells'
    BY <1>0, <2>1, <2>2, <2>3, <2>4, SameTells
  <2>6. dropped => BUFFER_FULL \in em.bits
    BY <1>0, <2>1 DEF RingState, LossTold
  <2>7. RingState' /\ LossTold'
    BY <2>1, <2>2, <2>6 DEF RingState, LossTold
  <2>8. QED
    BY <2>4, <2>5, <2>7 DEF EmTells
<1>5. ASSUME HistoryAndSend PROVE EmTells'
  <2>1. /\ main.at = "history" /\ em' = em /\ told' = told /\ dropped' = dropped
        /\ main'.at = "idle"
    BY <1>00, <1>5 DEF HistoryAndSend, At, ProcessSteps
  <2>2. QED
    BY <2>1, QuietTells DEF CallSteps, Taking
<1>6. QED
  BY <1>1, <1>2, <1>3, <1>4, <1>5

\* Steps that leave main, the ring and the history alone.
LEMMA OutsideTells ==
    ASSUME EmInv, UNCHANGED <<em, told, dropped, main>>
    PROVE  EmTells'
<1>1. /\ CallState' <=> CallState
      /\ RingState' <=> RingState
      /\ LossTold' <=> LossTold
  BY DEF CallState, RingState, LossTold, Taking, Call, Report
<1>2. ReadAt' = ReadAt /\ Shown' = Shown /\ (Taking' <=> Taking)
  BY DEF ReadAt, Shown, Taking, Call
<1>3. RingTells'
  BY <1>2, SameTells DEF EmInv, EmTells
<1>4. QED
  BY <1>1, <1>3 DEF EmInv, EmTells

\* Every step keeps what the ring tells, unless the interrupt preempts main.
LEMMA EmStep == ~Preempt /\ EmInv /\ [EmNext]_emVars => EmInv'
<1> SUFFICES ASSUME ~Preempt, EmInv, [EmNext]_emVars PROVE EmInv'
  OBVIOUS
<1>1. EmShape'
  BY EmShapeStep DEF EmInv
<1>2. CASE EmNext
  <2>1. CASE MainStep
    BY <1>1, <2>1, CallTells, VerifyTells, RegisterTells, ProcessTells DEF MainStep, EmInv
  <2>2. CASE \E e \in IsrErrors : Isr(e)
    BY <1>1, <2>2, IsrTells DEF EmInv
  <2>3. CASE ClearHistory \/ MessageLeaves \/ BusState
    <3>1. UNCHANGED <<em, told, dropped>>
      BY <2>3 DEF ClearHistory, MessageLeaves, BusState
    <3>2. UNCHANGED main
      BY <2>3 DEF ClearHistory, MessageLeaves, BusState
    <3>3. QED
      BY <1>1, <3>1, <3>2, OutsideTells DEF EmInv
  <2>4. QED
    BY <1>2, <2>1, <2>2, <2>3 DEF EmNext
<1>3. CASE UNCHANGED emVars
  BY <1>1, <1>3, OutsideTells DEF emVars, EmInv
<1>4. QED
  BY <1>2, <1>3

\* The inductive invariant holds when main is not preempted inside a call.
THEOREM EmInvariant == ASSUME ~Preempt PROVE EmSpec => []EmInv
<1>1. EmInv /\ [EmNext]_emVars => EmInv'
  BY EmStep
<1>2. QED
  BY <1>1, EmInitInv, PTL DEF EmSpec

\* Whoever reads the emergency messages knows the errors that are present, or
\* is told that a message was lost: for every size of the ring, every inhibit
\* time and every set of errors, when no interrupt reports inside a call of main.
THEOREM EmListenerKnows == ASSUME ~Preempt PROVE EmSpec => []ListenerKnows
<1>1. EmInv => ListenerKnows
  <2> SUFFICES ASSUME EmInv, main.at = "idle" PROVE ListenerKnows
    BY DEF ListenerKnows, BusLearnsState, LossIsReported, At
  <2>1. EmShape /\ RingState /\ RingTells /\ LossTold /\ ~Taking
    BY DEF EmInv, EmTells, Taking
  <2>2. ReadAt = em.r /\ Shown = em.bits
    BY <2>1, BehindIs, ShownIsBits
  <2>3. \A i : Distance(i) = Behind(i)
    BY <2>2 DEF Distance, Behind
  <2>4. \A i \in 0 .. Size - 1 : i \in Waiting <=> InRing(i)
    BY <2>1, <2>3 DEF Waiting, InRing
  <2>5. \A i \in 0 .. Size - 1 : Newest(i) => NewestInRing(i)
    BY <2>3, <2>4 DEF Newest, NewestInRing
  <2>6. BusLearnsState
    BY <2>1, <2>2, <2>4, <2>5 DEF BusLearnsState, RingTells
  <2>7. LossIsReported
    BY <2>1 DEF LossIsReported, LossTold
  <2>8. QED
    BY <2>6, <2>7 DEF ListenerKnows
<1>2. QED
  BY <1>1, EmInvariant, PTL
-----------------------------------------------------------------------------
(* The receive path. *)

\* Between two steps every buffer has the identifier its object listens to, and
\* once the driver runs all of them are configured, buffer 0 for NMT.
Configured ==
    /\ \A i \in Buffers : rx[i].ident = cobId[i]
    /\ 0 \in Buffers /\ cobId[0] = 0
    /\ normal => \A i \in Buffers : rx[i].function

RxInv == CanRxTypeOK /\ Configured /\ NewestSurvives

\* No step of the driver changes the types or leaves a buffer behind its object.
LEMMA TypeStep == RxInv /\ [CanRxNext]_rxVars => CanRxTypeOK' /\ Configured'
<1> SUFFICES ASSUME RxInv, [CanRxNext]_rxVars PROVE CanRxTypeOK' /\ Configured'
  OBVIOUS
<1> USE RxAssumption DEF RxInv, CanRxTypeOK, Configured, Buffers
<1>1. ASSUME NEW i \in Buffers, NEW id \in CobIds \cup {0}, CANrxBufferInit(i, id)
      PROVE  CanRxTypeOK' /\ Configured'
  BY <1>1 DEF CANrxBufferInit
<1>2. CASE CANsetNormalMode
  BY <1>2 DEF CANsetNormalMode
<1>3. CASE CANmodule_disable
  <2>1. fifo' = <<>> /\ fifo' \in Seq(CanFrames) /\ Len(fifo') = 0
    BY <1>3 DEF CANmodule_disable
  <2>2. /\ rx' = [i \in Buffers |-> Unconfigured]
        /\ cobId' = [i \in Buffers |-> 0]
        /\ Unconfigured \in [ident : CobIds \cup {0}, function : BOOLEAN]
        /\ normal' = FALSE /\ stdId' = stdId /\ taken' = taken
    BY <1>3 DEF CANmodule_disable, Unconfigured
  <2>3. newest' \in CanFrames
    BY <1>3 DEF CANmodule_disable
  <2>4. CanRxTypeOK'
    <3>1. rx' \in [Buffers -> [ident : CobIds \cup {0}, function : BOOLEAN]]
      BY <2>2
    <3>2. cobId' \in [Buffers -> CobIds \cup {0}] /\ normal' \in BOOLEAN
      BY <2>2
    <3>3. Len(fifo') <= FifoDepth
      BY <2>1
    <3>4. stdId' \in CobIds \cup {0} /\ taken' \in [frame : CanFrames, by : Buffers \cup {Nobody}]
      BY <2>2
    <3> QED
      BY <2>1, <2>3, <3>1, <3>2, <3>3, <3>4
  <2>5. Configured'
    BY <2>2 DEF Unconfigured
  <2> QED
    BY <2>4, <2>5
<1>4. ASSUME NEW frame \in CanFrames, Arrive(frame)
      PROVE  CanRxTypeOK' /\ Configured'
  <2>1. Queued(frame) \in Seq(CanFrames) /\ Len(Queued(frame)) <= FifoDepth
    <3>1. CASE Len(fifo) < FifoDepth
      BY <3>1 DEF Queued
    <3>2. CASE ~(Len(fifo) < FifoDepth)
      <4>1. Queued(frame) = [fifo EXCEPT ![FifoDepth] = frame]
        BY <3>2 DEF Queued
      <4>2. Len(fifo) = FifoDepth
        BY <3>2
      <4> QED
        BY <4>1, <4>2
    <3> QED
      BY <3>1, <3>2
  <2> QED
    BY <1>4, <2>1 DEF Arrive
<1>5. CASE CANinterrupt_Rx
  <2>1. Head(fifo) \in CanFrames /\ Tail(fifo) \in Seq(CanFrames) /\ Len(Tail(fifo)) <= FifoDepth
    BY <1>5 DEF CANinterrupt_Rx
  <2>2. StdIdOf(Head(fifo)) \in CobIds \cup {0}
    BY <2>1 DEF StdIdOf, CanFrames
  <2>3. taken' \in [frame : CanFrames, by : Buffers \cup {Nobody}]
    BY <1>5, <2>1 DEF CANinterrupt_Rx
  <2> QED
    BY <1>5, <2>1, <2>2, <2>3 DEF CANinterrupt_Rx
<1>6. CASE UNCHANGED rxVars
  BY <1>6 DEF rxVars
<1> QED
  BY <1>1, <1>2, <1>3, <1>4, <1>5, <1>6 DEF CanRxNext

\* No step loses the latest frame.
LEMMA NewestStep == RxInv /\ [CanRxNext]_rxVars => NewestSurvives'
<1> SUFFICES ASSUME RxInv, [CanRxNext]_rxVars PROVE NewestSurvives'
  OBVIOUS
<1> USE RxAssumption DEF RxInv, NewestSurvives
<1>1. ASSUME NEW i \in Buffers, NEW id \in CobIds \cup {0}, CANrxBufferInit(i, id)
      PROVE  NewestSurvives'
  BY <1>1 DEF CANrxBufferInit
<1>2. CASE CANsetNormalMode
  BY <1>2 DEF CANsetNormalMode
<1>3. CASE CANmodule_disable
  BY <1>3 DEF CANmodule_disable
<1>4. ASSUME NEW frame \in CanFrames, Arrive(frame)
      PROVE  NewestSurvives'
  <2>0. fifo \in Seq(CanFrames) /\ Len(fifo) \in Nat /\ Len(fifo) <= FifoDepth
    BY DEF CanRxTypeOK
  <2>1. Queued(frame) # <<>> /\ Queued(frame)[Len(Queued(frame))] = frame
    <3>1. CASE Len(fifo) < FifoDepth
      <4>1. Queued(frame) = Append(fifo, frame)
        BY <3>1 DEF Queued
      <4>2. /\ Append(fifo, frame) \in Seq(CanFrames)
            /\ Len(Append(fifo, frame)) = Len(fifo) + 1
            /\ Append(fifo, frame)[Len(fifo) + 1] = frame
        BY <2>0, AppendProperties
      <4> QED
        BY <2>0, <4>1, <4>2, EmptySeq
    <3>2. CASE ~(Len(fifo) < FifoDepth)
      <4>1. Queued(frame) = [fifo EXCEPT ![FifoDepth] = frame]
        BY <3>2 DEF Queued
      <4>2. Len(fifo) = FifoDepth
        BY <2>0, <3>2
      <4> QED
        BY <2>0, <4>1, <4>2
    <3> QED
      BY <3>1, <3>2
  <2> QED
    BY <1>4, <2>1 DEF Arrive
<1>5. CASE CANinterrupt_Rx
  <2>0. fifo \in Seq(CanFrames) /\ fifo # <<>>
    BY <1>5 DEF CanRxTypeOK, CANinterrupt_Rx
  <2>1. taken'.frame = Head(fifo) /\ fifo' = Tail(fifo) /\ newest' = newest
    BY <1>5 DEF CANinterrupt_Rx
  <2>2. CASE Tail(fifo) = <<>>
    <3>1. Len(fifo) = 1
      <4>1. Len(Tail(fifo)) = Len(fifo) - 1 /\ Len(fifo) \in Nat
        BY <2>0, HeadTailProperties, LenProperties
      <4>2. Len(Tail(fifo)) = 0
        BY <2>2, EmptySeq
      <4> QED
        BY <4>1, <4>2
    <3>2. Head(fifo) = fifo[Len(fifo)]
      BY <2>0, <3>1
    <3> QED
      BY <2>0, <2>1, <2>2, <3>2
  <2>3. CASE Tail(fifo) # <<>>
    <3>1. Tail(fifo)[Len(Tail(fifo))] = fifo[Len(fifo)]
      BY <2>0, <2>3
    <3> QED
      BY <2>0, <2>1, <2>3, <3>1
  <2> QED
    BY <2>2, <2>3
<1>6. CASE UNCHANGED rxVars
  BY <1>6 DEF rxVars
<1> QED
  BY <1>1, <1>2, <1>3, <1>4, <1>5, <1>6 DEF CanRxNext

\* The strengthening holds in every state.
LEMMA RxInvariant == CanRxSpec => []RxInv
<1>1. CanRxInit => RxInv
  <2> SUFFICES ASSUME CanRxInit PROVE RxInv
    OBVIOUS
  <2>1. fifo \in Seq(CanFrames) /\ Len(fifo) = 0
    BY DEF CanRxInit
  <2>2. NoFrameYet \in CanFrames /\ 0 \in Buffers
    BY RxAssumption DEF NoFrameYet, CanFrames, Buffers
  <2>3. Unconfigured \in [ident : CobIds \cup {0}, function : BOOLEAN]
    BY DEF Unconfigured
  <2>4. /\ taken \in [frame : CanFrames, by : Buffers \cup {Nobody}]
        /\ taken.frame = NoFrameYet /\ newest = NoFrameYet
    BY <2>2 DEF CanRxInit
  <2>5. CanRxTypeOK
    <3>1. rx \in [Buffers -> [ident : CobIds \cup {0}, function : BOOLEAN]]
      BY <2>3 DEF CanRxInit
    <3>2. cobId \in [Buffers -> CobIds \cup {0}]
      BY DEF CanRxInit
    <3>3. /\ normal \in BOOLEAN /\ stdId \in CobIds \cup {0}
          /\ newest \in CanFrames
      BY <2>2 DEF CanRxInit
    <3>4. Len(fifo) <= FifoDepth
      BY <2>1, RxAssumption
    <3> QED
      BY <2>1, <2>4, <3>1, <3>2, <3>3, <3>4 DEF CanRxTypeOK
  <2>6. Configured
    BY <2>2 DEF CanRxInit, Configured, Unconfigured
  <2>7. NewestSurvives
    BY <2>4 DEF CanRxInit, NewestSurvives
  <2> QED
    BY <2>5, <2>6, <2>7 DEF RxInv
<1>2. RxInv /\ [CanRxNext]_rxVars => RxInv'
  BY TypeStep, NewestStep DEF RxInv
<1> QED
  BY <1>1, <1>2, PTL DEF CanRxSpec

\* CO_CANmodule_init, CO_CANrxBufferInit and CO_CANinterrupt_Rx keep the types of
\* the driver's state, and the FIFO within its depth.
THEOREM RxTypeCorrect == CanRxSpec => []CanRxTypeOK
BY RxInvariant, PTL DEF RxInv

\* The latest frame on the bus is in the FIFO or has been handed over, whatever
\* an overrun has lost.
THEOREM RxNewestSurvives == CanRxSpec => []NewestSurvives
BY RxInvariant, PTL DEF RxInv

\* CO_CANinterrupt_Rx hands every standard frame to the object that listens to
\* its identifier: a buffer that is not in use cannot take it, because the frames
\* with identifier 0 find NMT's buffer first.
THEOREM RxRightReceiver == CanRxSpec => RightReceiver
<1> DEFINE Right ==
      fifo # <<>> /\ fifo' = Tail(fifo) /\ ~Head(fifo).extended /\ normal' =>
          /\ taken'.by # Nobody => ListensFirst(taken'.by, Head(fifo))
          /\ taken'.by = Nobody => \A i \in Buffers : ~ListensFirst(i, Head(fifo))
<1>1. ASSUME RxInv, CANinterrupt_Rx, ~Head(fifo).extended PROVE Right
  <2> USE <1>1 DEF RxInv, Configured
  <2>1. StdIdOf(Head(fifo)) = Head(fifo).id
    BY DEF StdIdOf
  <2>2. \A i \in Buffers : Matches(i, Head(fifo))
                             <=> cobId[i] = Head(fifo).id /\ ~Head(fifo).remote
    BY <2>1 DEF Matches
  <2>3. CASE \A i \in Buffers : ~Matches(i, Head(fifo))
    <3>1. \A i \in Buffers : ~ListensFirst(i, Head(fifo))
      BY <2>2, <2>3 DEF ListensFirst
    <3>2. taken'.by = Nobody
      BY <2>3 DEF CANinterrupt_Rx, FirstMatch
    <3> QED
      BY <3>1, <3>2
  <2>4. ASSUME NEW i \in Buffers, FirstMatch(i, Head(fifo)),
               taken' = [frame |-> Head(fifo), by |-> IF rx[i].function THEN i ELSE Nobody]
        PROVE  Right
    <3>1. taken'.by = i /\ i # Nobody
      BY <2>4 DEF CANinterrupt_Rx, Nobody, Buffers
    <3>2. ~Head(fifo).remote /\ cobId[i] = Head(fifo).id
      BY <2>2, <2>4 DEF FirstMatch
    <3>3. \A j \in Buffers : j < i => cobId[j] # Head(fifo).id
      BY <2>2, <2>4, <3>2 DEF FirstMatch
    <3>4. i # 0 => cobId[i] # 0
      BY <3>2, <3>3 DEF Buffers
    <3> QED
      BY <3>1, <3>2, <3>3, <3>4 DEF ListensFirst
  <2> QED
    BY <2>3, <2>4 DEF CANinterrupt_Rx
<1>2. ASSUME RxInv, CanRxNext, ~CANinterrupt_Rx,
             fifo # <<>>, fifo' = Tail(fifo), normal'
      PROVE  FALSE
  <2>0. fifo \in Seq(CanFrames) /\ Len(fifo) \in Nat /\ Len(fifo) <= FifoDepth
    BY <1>2 DEF RxInv, CanRxTypeOK
  <2>1. Len(fifo') = Len(fifo) - 1
    BY <1>2, <2>0
  <2>2. ASSUME NEW frame \in CanFrames, Arrive(frame) PROVE FALSE
    <3>1. Len(Queued(frame)) >= Len(fifo)
      BY <2>0 DEF Queued
    <3> QED
      BY <2>0, <2>1, <2>2, <3>1 DEF Arrive
  <2>3. fifo' # fifo
    BY <2>0, <2>1
  <2> QED
    BY <1>2, <2>2, <2>3 DEF CanRxNext, CANrxBufferInit, CANsetNormalMode, CANmodule_disable
<1>3. RxInv /\ [CanRxNext]_rxVars => [Right]_rxVars
  BY <1>1, <1>2
<1>4. CanRxSpec => [][Right]_rxVars
  BY <1>3, RxInvariant, PTL DEF CanRxSpec
<1> QED
  BY <1>4 DEF RightReceiver

-----------------------------------------------------------------------------
(* SYNC and the receive PDOs. *)

\* The types, with those of the tick's position and of the history.
TickSteps == {"idle", "clear", "produce", "window", "rpdo", "test", "first", "second", "tpdo"}
PdoData == Frames \cup {NoData}
SyncRecord == [new : BOOLEAN, toggle : BOOLEAN, timer : 0 .. SyncTimerMax, inside : BOOLEAN,
               producer : BOOLEAN, period : SyncPeriods \cup {0}]
RpdoRecord == [valid : BOOLEAN, synchronous : BOOLEAN, new : BOOLEAN \X BOOLEAN, data : PdoData \X PdoData]
TickRecord == [at : TickSteps, ret : 0 .. 2, buf : 1 .. 2]

SyncShape ==
    /\ sync \in SyncRecord /\ rpdo \in RpdoRecord /\ tick \in TickRecord
    /\ mapped \in PdoData \X PdoData /\ latest \in PdoData /\ due \in PdoData
    /\ mixed \in BOOLEAN /\ unclear \in BOOLEAN

\* Between its steps the tick's result and buffer are those of where it is.
TickShape ==
    /\ tick.at \in {"idle", "clear"} => tick.ret = IF TickAt("clear") THEN 1 ELSE 0
    /\ tick.at \in {"produce", "window"} => tick.ret # 2
    /\ TickAt("clear") => sync.new
    /\ tick.at \in {"test", "first", "second"} =>
         IF rpdo.synchronous THEN tick.ret = 1 /\ (mixed \/ tick.buf = ReadBuffer) ELSE tick.buf = 1

\* While the bytes are copied, they are those of the buffer or it has a new message.
Copied ==
    LET new == rpdo.new[tick.buf]
        data == rpdo.data[tick.buf]
    IN  /\ TickAt("second") => new \/ mapped[1] = data
        /\ TickAt("test") => new \/ mapped[1] = mapped[2]
        /\ tick.at \notin {"first", "second", "test"} => mapped[1] = mapped[2]

\* Synchronous TPDOs are sent inside the window, and the timer is beyond it only
\* when the window has been left.
WindowLeft ==
    /\ tick.at \in {"clear", "produce", "window"} /\ tick.ret = 1 => sync.timer = 0
    /\ tick.at \notin {"clear", "produce", "window"} =>
         /\ tick.ret = 1 => sync.inside
         /\ SyncWindow # 0 /\ sync.timer > SyncWindow => ~sync.inside
    /\ unclear => sync.inside

\* A frame is in the object, or the tick is about to put it there.
InObject(frame) ==
    CASE TickAt("first") -> rpdo.data[tick.buf] = frame
      [] TickAt("second") -> rpdo.data[tick.buf] = frame /\ mapped[1] = frame
      [] OTHER -> mapped = <<frame, frame>>

\* A buffer's message is the frame, or the frame is no longer in the buffer.
Holds(buf, frame) == IF rpdo.new[buf] THEN rpdo.data[buf] = frame ELSE InObject(frame)

\* A SYNC has been taken whose frames the tick has not dealt with.
Undealt == sync.new \/ (tick.ret = 1 /\ tick.at # "tpdo")

\* A second SYNC within the tick that deals with one is what mixed speaks of.
SyncOnce ==
    tick.ret = 1 /\ sync.new /\ ~mixed => \/ TickAt("clear")
                                          \/ TickAt("tpdo") /\ due = NoData

\* A synchronous PDO: until a SYNC is dealt with, the buffer being read holds what
\* is due, then nothing.  What came last waits in the other buffer; if nothing
\* does, it is what is due, or is in the object already.
CycleInv ==
    rpdo.synchronous /\ ~mixed =>
        /\ Undealt => (due # NoData => Holds(ReadBuffer, due))
        /\ ~Undealt => ~rpdo.new[ReadBuffer]
        /\ TickAt("tpdo") /\ tick.ret = 1 =>
             ~rpdo.new[ReadBuffer] /\ (due # NoData => mapped = <<due, due>>)
        /\ latest # NoData =>
             IF rpdo.new[FillBuffer] THEN rpdo.data[FillBuffer] = latest
             ELSE IF Undealt \/ tick.ret = 1 THEN latest = due ELSE mapped = <<latest, latest>>

\* Any other PDO has one buffer, which holds what came last until it is copied.
AsyncInv ==
    ~rpdo.synchronous =>
        /\ ~rpdo.new[2]
        /\ ~mixed /\ latest # NoData => Holds(1, latest)

SyncInv == SyncShape /\ TickShape /\ Copied /\ WindowLeft /\ SyncOnce /\ CycleInv /\ AsyncInv

\* Changing one of two buffers, or bytes.
LEMMA Pairs ==
    ASSUME NEW S, NEW s \in S \X S, NEW i \in 1 .. 2, NEW v \in S
    PROVE  /\ [s EXCEPT ![i] = v] \in S \X S /\ [s EXCEPT ![i] = v][i] = v
           /\ \A j \in 1 .. 2 : j # i => [s EXCEPT ![i] = v][j] = s[j]
<1>1. CASE i = 1
  <2>1. [s EXCEPT ![1] = v] = <<v, s[2]>>  OBVIOUS
  <2> QED  BY <1>1, <2>1
<1>2. CASE i = 2
  <2>1. [s EXCEPT ![2] = v] = <<s[1], v>>  OBVIOUS
  <2> QED  BY <1>2, <2>1
<1> QED  BY <1>1, <1>2

\* Changing one of two flags.
LEMMA Flags ==
    ASSUME NEW s \in BOOLEAN \X BOOLEAN, NEW i \in 1 .. 2, NEW v \in BOOLEAN
    PROVE  /\ [s EXCEPT ![i] = v] \in BOOLEAN \X BOOLEAN /\ [s EXCEPT ![i] = v][i] = v
           /\ \A j \in 1 .. 2 : j # i => [s EXCEPT ![i] = v][j] = s[j]
BY Pairs

\* A pair has two equal components exactly if both are that value.
LEMMA PairIs ==
    ASSUME NEW S, NEW s \in S \X S
    PROVE  /\ s[1] \in S /\ s[2] \in S
           /\ \A v : (s = <<v, v>>) <=> (s[1] = v /\ s[2] = v)
OBVIOUS

\* The shape is the types the run checks, and those of the history.
LEMMA ShapeIsTyped == SyncShape => SyncTypeOK
BY DEF SyncShape, SyncTypeOK, SyncRecord, RpdoRecord, TickRecord, PdoData

\* The types, field by field.
LEMMA SyncFields ==
    ASSUME SyncShape
    PROVE  /\ sync.new \in BOOLEAN /\ sync.toggle \in BOOLEAN /\ sync.inside \in BOOLEAN
           /\ sync.producer \in BOOLEAN /\ sync.timer \in 0 .. SyncTimerMax /\ sync.period \in Nat
           /\ rpdo.valid \in BOOLEAN /\ rpdo.synchronous \in BOOLEAN
           /\ rpdo.new \in BOOLEAN \X BOOLEAN /\ rpdo.new[1] \in BOOLEAN /\ rpdo.new[2] \in BOOLEAN
           /\ rpdo.data \in PdoData \X PdoData /\ rpdo.data[1] \in PdoData /\ rpdo.data[2] \in PdoData
           /\ mapped \in PdoData \X PdoData
           /\ tick.at \in TickSteps /\ tick.ret \in 0 .. 2 /\ tick.buf \in 1 .. 2
<1>1. sync \in SyncRecord /\ rpdo \in RpdoRecord /\ tick \in TickRecord /\ mapped \in PdoData \X PdoData
  BY DEF SyncShape
<1>2. rpdo.new \in BOOLEAN \X BOOLEAN /\ rpdo.data \in PdoData \X PdoData  BY <1>1 DEF RpdoRecord
<1>3. /\ rpdo.new[1] \in BOOLEAN /\ rpdo.new[2] \in BOOLEAN
      /\ rpdo.data[1] \in PdoData /\ rpdo.data[2] \in PdoData
  BY <1>2, PairIs
<1>4. /\ sync.new \in BOOLEAN /\ sync.toggle \in BOOLEAN /\ sync.inside \in BOOLEAN
      /\ sync.producer \in BOOLEAN /\ sync.timer \in 0 .. SyncTimerMax /\ sync.period \in Nat
  <2>1. /\ sync.new \in BOOLEAN /\ sync.toggle \in BOOLEAN /\ sync.inside \in BOOLEAN
        /\ sync.producer \in BOOLEAN
    BY <1>1 DEF SyncRecord
  <2>2. sync.timer \in 0 .. SyncTimerMax /\ sync.period \in SyncPeriods \cup {0}  BY <1>1 DEF SyncRecord
  <2>3. sync.period \in Nat
    <3>1. SyncPeriods \cup {0} \subseteq Nat  BY SyncRpdoAssumption
    <3> QED  BY <2>2, <3>1
  <2> QED  BY <2>1, <2>2, <2>3
<1>5. rpdo.valid \in BOOLEAN /\ rpdo.synchronous \in BOOLEAN  BY <1>1 DEF RpdoRecord
<1>6. tick.at \in TickSteps /\ tick.ret \in 0 .. 2 /\ tick.buf \in 1 .. 2  BY <1>1 DEF TickRecord
<1> QED  BY <1>1, <1>2, <1>3, <1>4, <1>5, <1>6

\* A synchronous PDO is read from one buffer and filled into the other, any other PDO read from
\* and filled into the first.
LEMMA RpdoBuffers ==
    ASSUME SyncShape
    PROVE  /\ ReadBuffer \in 1 .. 2 /\ FillBuffer \in 1 .. 2
           /\ rpdo.synchronous => ReadBuffer # FillBuffer
           /\ ~rpdo.synchronous => ReadBuffer = 1 /\ FillBuffer = 1
BY SyncFields DEF ReadBuffer, FillBuffer

\* CO_SYNC_init and CO_RPDO_init.
LEMMA SyncInitInv == SyncInit => SyncInv
<1> SUFFICES ASSUME SyncInit PROVE SyncInv  OBVIOUS
<1> USE SyncRpdoAssumption DEF SyncInit, TickIdle
<1>1. sync \in SyncRecord  BY DEF SyncRecord
<1>2. rpdo \in RpdoRecord  BY DEF RpdoRecord, PdoData
<1>3. tick \in TickRecord  BY DEF TickRecord, TickSteps
<1>4. SyncShape  BY <1>1, <1>2, <1>3 DEF SyncShape, PdoData
<1>5. /\ tick.at = "idle" /\ tick.ret = 0 /\ sync.inside = TRUE /\ sync.timer = 0 /\ sync.new = FALSE
      /\ rpdo.synchronous = TRUE /\ rpdo.new[1] = FALSE /\ rpdo.new[2] = FALSE
      /\ mapped[1] = NoData /\ mapped[2] = NoData /\ unclear = FALSE /\ latest = NoData
  OBVIOUS
<1> HIDE DEF SyncInit
<1>6. ReadBuffer \in 1 .. 2 /\ FillBuffer \in 1 .. 2  BY <1>4, RpdoBuffers
<1> QED  BY <1>4, <1>5, <1>6 DEF SyncInv, TickShape, Copied, WindowLeft, SyncOnce, CycleInv, AsyncInv,
            TickAt, Undealt

\* CO_SYNC_receive interrupts the tick anywhere: the buffers swap, and what came is due.
LEMMA SyncReceived == ASSUME SyncInv, NEW right \in BOOLEAN, SYNC_receive(right) PROVE SyncInv'
<1>1. SyncShape  BY DEF SyncInv
<1>2. /\ sync'.new = (sync.new \/ right) /\ sync'.toggle = (IF sync'.new THEN ~sync.toggle ELSE sync.toggle)
      /\ sync'.timer = sync.timer /\ sync'.inside = sync.inside /\ sync' \in SyncRecord
  BY <1>1 DEF SyncShape, SyncRecord, SYNC_receive
<1>3. /\ due' = IF right THEN latest ELSE due
      /\ mixed' = (mixed \/ sync.new \/ (right /\ tick.ret = 1))
  BY DEF SYNC_receive, Due, SyncPending
<1>4. UNCHANGED <<rpdo, mapped, tick, latest, unclear>>  BY DEF SYNC_receive
<1>5. SyncShape'
  BY <1>1, <1>2, <1>3, <1>4, SyncFields, RpdoBuffers DEF SyncShape
<1>6. TickShape'
  BY <1>1, <1>2, <1>3, <1>4, SyncFields, RpdoBuffers DEF SyncInv, TickShape, TickAt, ReadBuffer
<1>7. Copied'
  BY <1>1, <1>2, <1>3, <1>4, SyncFields, RpdoBuffers DEF SyncInv, Copied, TickAt
<1>8. WindowLeft'
  BY <1>1, <1>2, <1>3, <1>4, SyncFields, RpdoBuffers DEF SyncInv, WindowLeft
<1>9. SyncOnce'
  BY <1>1, <1>2, <1>3, <1>4, SyncFields, RpdoBuffers DEF SyncInv, SyncOnce, TickAt
<1>10. CycleInv'
  BY <1>1, <1>2, <1>3, <1>4, SyncFields, RpdoBuffers
    DEF SyncInv, CycleInv, TickAt, ReadBuffer, FillBuffer, Undealt, Holds, InObject, TickShape, Copied,
      SyncOnce, AsyncInv
<1>11. AsyncInv'
  BY <1>1, <1>2, <1>3, <1>4, SyncFields, RpdoBuffers
    DEF SyncInv, AsyncInv, TickAt, ReadBuffer, FillBuffer, Undealt, Holds, InObject, TickShape, CycleInv
<1> QED  BY <1>5, <1>6, <1>7, <1>8, <1>9, <1>10, <1>11 DEF SyncInv

\* CO_PDO_receive interrupts the tick anywhere: the frame goes into the buffer being filled.
LEMMA PdoReceived == ASSUME SyncInv, NEW frame \in Frames, PDO_receive(frame) PROVE SyncInv'
<1>1. SyncShape  BY DEF SyncInv
<1>2. /\ rpdo' \in RpdoRecord /\ rpdo'.synchronous = rpdo.synchronous
      /\ rpdo'.new[FillBuffer] = TRUE /\ rpdo'.data[FillBuffer] = frame
      /\ \A j \in 1 .. 2 : j # FillBuffer => rpdo'.new[j] = rpdo.new[j] /\ rpdo'.data[j] = rpdo.data[j]
  <2> DEFINE n == [rpdo.new EXCEPT ![FillBuffer] = TRUE]
             d == [rpdo.data EXCEPT ![FillBuffer] = frame]
  <2>1. n \in BOOLEAN \X BOOLEAN /\ n[FillBuffer] = TRUE /\ \A j \in 1 .. 2 : j # FillBuffer
        => n[j] = rpdo.new[j]
    BY <1>1, SyncFields, RpdoBuffers, Flags
  <2>2. /\ d \in PdoData \X PdoData /\ d[FillBuffer] = frame
        /\ \A j \in 1 .. 2 : j # FillBuffer => d[j] = rpdo.data[j]
    <3>1. frame \in PdoData  BY DEF PdoData
    <3> QED  BY <1>1, <3>1, SyncFields, RpdoBuffers, Pairs
  <2>3. rpdo' = [rpdo EXCEPT !.new = n, !.data = d]  BY <1>1 DEF SyncShape, PDO_receive, RpdoRecord
  <2>4. rpdo \in RpdoRecord  BY <1>1 DEF SyncShape
  <2> HIDE DEF n, d
  <2>5. rpdo' \in RpdoRecord /\ rpdo'.synchronous = rpdo.synchronous /\ rpdo'.new = n /\ rpdo'.data = d
    BY <2>1, <2>2, <2>3, <2>4 DEF RpdoRecord
  <2> QED  BY <2>1, <2>2, <2>5
<1>3. latest' = frame /\ frame # NoData /\ frame \in PdoData  BY SyncRpdoAssumption DEF PDO_receive, PdoData
<1>4. UNCHANGED <<sync, mapped, tick, due, mixed, unclear>>  BY DEF PDO_receive
<1>5. SyncShape'
  BY <1>1, <1>2, <1>3, <1>4, SyncFields, RpdoBuffers DEF SyncShape
<1>6. TickShape'
  BY <1>1, <1>2, <1>3, <1>4, SyncFields, RpdoBuffers DEF SyncInv, TickShape, TickAt, ReadBuffer
<1>7. Copied'
  BY <1>1, <1>2, <1>3, <1>4, SyncFields, RpdoBuffers DEF SyncInv, Copied, TickAt
<1>8. WindowLeft'
  BY <1>1, <1>2, <1>3, <1>4, SyncFields, RpdoBuffers DEF SyncInv, WindowLeft
<1>9. SyncOnce'
  BY <1>1, <1>2, <1>3, <1>4, SyncFields, RpdoBuffers DEF SyncInv, SyncOnce, TickAt
<1>10. CycleInv'
  BY <1>1, <1>2, <1>3, <1>4, SyncFields, RpdoBuffers
    DEF SyncInv, CycleInv, TickAt, ReadBuffer, FillBuffer, Undealt, Holds, InObject, TickShape, Copied,
      SyncOnce, AsyncInv
<1>11. AsyncInv'
  BY <1>1, <1>2, <1>3, <1>4, SyncFields, RpdoBuffers
    DEF SyncInv, AsyncInv, TickAt, ReadBuffer, FillBuffer, Undealt, Holds, InObject, TickShape, CycleInv
<1> QED  BY <1>5, <1>6, <1>7, <1>8, <1>9, <1>10, <1>11 DEF SyncInv

\* A tick begins and sees a SYNC that came, or not, or is stopped and forgets it.
LEMMA TickBegun == ASSUME SyncInv, TickBegins PROVE SyncInv'
<1>1. SyncShape  BY DEF SyncInv
<1>2. /\ tick.at = "idle" /\ tick.ret = 0 /\ tick'.buf = tick.buf
      /\ tick'.at = IF ~Awake THEN "rpdo" ELSE IF sync.new THEN "clear" ELSE "produce"
      /\ tick'.ret = IF Awake /\ sync.new THEN 1 ELSE 0
      /\ tick' \in TickRecord
  <2>1. tick \in TickRecord /\ tick.at = "idle" /\ tick.ret = 0
    BY <1>1 DEF SyncShape, SyncInv, TickShape, TickAt, TickBegins
  <2>2. CASE Awake /\ sync.new
    <3>1. tick' = [tick EXCEPT !.at = "clear", !.ret = 1]  BY <2>2 DEF TickBegins
    <3>2. 1 \in 0 .. 2 /\ "clear" \in TickSteps  BY DEF TickSteps
    <3>3. tick' \in TickRecord /\ tick'.at = "clear" /\ tick'.ret = 1 /\ tick'.buf = tick.buf
      BY <2>1, <3>1, <3>2 DEF TickRecord
    <3> QED  BY <2>1, <2>2, <3>3
  <2>3. CASE Awake /\ ~sync.new
    <3>1. tick' = [tick EXCEPT !.at = "produce"]  BY <2>3 DEF TickBegins, TickGoto
    <3> QED  BY <2>1, <2>3, <3>1 DEF TickRecord, TickSteps
  <2>4. CASE ~Awake
    <3>1. tick' = [tick EXCEPT !.at = "rpdo"]  BY <2>4 DEF TickBegins, TickGoto
    <3> QED  BY <2>1, <2>4, <3>1 DEF TickRecord, TickSteps
  <2> QED  BY <2>2, <2>3, <2>4
<1>3. /\ sync'.new = (Awake /\ sync.new) /\ sync'.toggle = sync.toggle /\ sync'.inside = sync.inside
      /\ sync' \in SyncRecord
      /\ sync'.timer = IF ~Awake THEN sync.timer ELSE IF sync.new THEN 0 ELSE SyncElapsed
  <2>1. sync \in SyncRecord /\ sync.new \in BOOLEAN /\ 0 \in 0 .. SyncTimerMax
        /\ SyncElapsed \in 0 .. SyncTimerMax
    BY <1>1, SyncRpdoAssumption, SyncFields DEF SyncShape, SyncElapsed
  <2>2. CASE Awake /\ sync.new
    <3>1. sync' = [sync EXCEPT !.timer = 0]  BY <2>2 DEF TickBegins
    <3> QED  BY <2>1, <2>2, <3>1 DEF SyncRecord
  <2>3. CASE Awake /\ ~sync.new
    <3>1. sync' = [sync EXCEPT !.timer = SyncElapsed]  BY <2>3 DEF TickBegins
    <3> QED  BY <2>1, <2>3, <3>1 DEF SyncRecord
  <2>4. CASE ~Awake
    <3>1. sync' = [sync EXCEPT !.new = FALSE]  BY <2>4 DEF TickBegins
    <3> QED  BY <2>1, <2>4, <3>1 DEF SyncRecord
  <2> QED  BY <2>2, <2>3, <2>4
<1>4. mixed' = (mixed \/ (~Awake /\ sync.new))  BY DEF TickBegins
<1>5. UNCHANGED <<rpdo, mapped, latest, due, unclear>>  BY DEF TickBegins
<1>6. SyncShape'
  BY <1>1, <1>2, <1>3, <1>4, <1>5, SyncFields, RpdoBuffers DEF SyncShape
<1>7. TickShape'
  BY <1>1, <1>2, <1>3, <1>4, <1>5, SyncFields, RpdoBuffers DEF SyncInv, TickShape, TickAt, ReadBuffer
<1>8. Copied'
  BY <1>1, <1>2, <1>3, <1>4, <1>5, SyncFields, RpdoBuffers DEF SyncInv, Copied, TickAt
<1>9. WindowLeft'
  BY <1>1, <1>2, <1>3, <1>4, <1>5, SyncFields, RpdoBuffers DEF SyncInv, WindowLeft
<1>10. SyncOnce'
  BY <1>1, <1>2, <1>3, <1>4, <1>5, SyncFields, RpdoBuffers DEF SyncInv, SyncOnce, TickAt
<1>11. CycleInv'
  BY <1>1, <1>2, <1>3, <1>4, <1>5, SyncFields, RpdoBuffers
    DEF SyncInv, CycleInv, TickAt, ReadBuffer, FillBuffer, Undealt, Holds, InObject, TickShape, Copied,
      SyncOnce, AsyncInv
<1>12. AsyncInv'
  BY <1>1, <1>2, <1>3, <1>4, <1>5, SyncFields, RpdoBuffers
    DEF SyncInv, AsyncInv, TickAt, ReadBuffer, FillBuffer, Undealt, Holds, InObject, TickShape, CycleInv
<1> QED  BY <1>6, <1>7, <1>8, <1>9, <1>10, <1>11, <1>12 DEF SyncInv

\* The flag is cleared; a SYNC that came since is lost, which is what mixed says.
LEMMA SyncCleared == ASSUME SyncInv, SyncClear PROVE SyncInv'
<1>1. SyncShape  BY DEF SyncInv
<1>2. /\ tick.at = "clear" /\ tick'.at = "produce" /\ tick'.ret = tick.ret /\ tick'.buf = tick.buf
      /\ tick' \in TickRecord
  BY <1>1 DEF SyncShape, TickAt, TickGoto, SyncClear, TickRecord, TickSteps
<1>3. /\ sync'.new = FALSE /\ sync'.toggle = sync.toggle /\ sync'.inside = sync.inside
      /\ sync'.timer = sync.timer /\ sync' \in SyncRecord
  BY <1>1 DEF SyncShape, SyncRecord, SyncClear
<1>4. UNCHANGED <<rpdo, mapped, latest, due, mixed, unclear>>  BY DEF SyncClear
<1>5. SyncShape'
  BY <1>1, <1>2, <1>3, <1>4, SyncFields, RpdoBuffers DEF SyncShape
<1>6. TickShape'
  BY <1>1, <1>2, <1>3, <1>4, SyncFields, RpdoBuffers DEF SyncInv, TickShape, TickAt, ReadBuffer
<1>7. Copied'
  BY <1>1, <1>2, <1>3, <1>4, SyncFields, RpdoBuffers DEF SyncInv, Copied, TickAt
<1>8. WindowLeft'
  BY <1>1, <1>2, <1>3, <1>4, SyncFields, RpdoBuffers DEF SyncInv, WindowLeft
<1>9. SyncOnce'
  BY <1>1, <1>2, <1>3, <1>4, SyncFields, RpdoBuffers DEF SyncInv, SyncOnce, TickAt
<1>10. CycleInv'
  BY <1>1, <1>2, <1>3, <1>4, SyncFields, RpdoBuffers
    DEF SyncInv, CycleInv, TickAt, ReadBuffer, FillBuffer, Undealt, Holds, InObject, TickShape, Copied,
      SyncOnce, AsyncInv
<1>11. AsyncInv'
  BY <1>1, <1>2, <1>3, <1>4, SyncFields, RpdoBuffers
    DEF SyncInv, AsyncInv, TickAt, ReadBuffer, FillBuffer, Undealt, Holds, InObject, TickShape, CycleInv
<1> QED  BY <1>5, <1>6, <1>7, <1>8, <1>9, <1>10, <1>11 DEF SyncInv

\* The producer sends a SYNC of its own, and the buffers swap as with a received one.
LEMMA SyncProduced == ASSUME SyncInv, SyncProduce PROVE SyncInv'
<1>1. SyncShape  BY DEF SyncInv
<1>2. /\ tick.at = "produce" /\ tick \in TickRecord /\ sync \in SyncRecord /\ 0 \in 0 .. SyncTimerMax
  BY <1>1, SyncRpdoAssumption DEF SyncShape, SyncProduce, TickAt
<1>3. /\ tick'.at = "window" /\ tick'.buf = tick.buf /\ tick' \in TickRecord
      /\ sync'.new = sync.new /\ sync'.inside = sync.inside /\ sync' \in SyncRecord
      /\ \/ /\ sync'.toggle = ~sync.toggle /\ sync'.timer = 0 /\ tick'.ret = 1
            /\ due' = latest /\ mixed' = (mixed \/ sync.new \/ tick.ret = 1)
         \/ /\ sync'.toggle = sync.toggle /\ sync'.timer = sync.timer /\ tick'.ret = tick.ret
            /\ UNCHANGED <<due, mixed>>
  <2> DEFINE sends == sync.producer /\ sync.period # 0 /\ sync.timer >= sync.period
  <2>1. CASE sends
    <3>1. /\ sync' = [sync EXCEPT !.timer = 0, !.toggle = ~@]
          /\ tick' = [tick EXCEPT !.at = "window", !.ret = 1]
          /\ due' = latest /\ mixed' = (mixed \/ sync.new \/ tick.ret = 1)
      BY <2>1 DEF SyncProduce, Due, SyncPending
    <3>2. 1 \in 0 .. 2 /\ "window" \in TickSteps  BY DEF TickSteps
    <3>4. /\ tick'.at = "window" /\ tick'.buf = tick.buf /\ tick' \in TickRecord /\ tick'.ret = 1
      <4>1. tick \in TickRecord /\ tick' = [tick EXCEPT !.at = "window", !.ret = 1]  BY <1>2, <3>1
      <4> QED  BY <3>2, <4>1 DEF TickRecord
    <3>3. /\ sync'.new = sync.new /\ sync'.inside = sync.inside /\ sync' \in SyncRecord
          /\ sync'.toggle = ~sync.toggle /\ sync'.timer = 0
      BY <1>2, <3>1 DEF SyncRecord
    <3> QED  BY <3>1, <3>3, <3>4
  <2>2. CASE ~sends
    <3>1. tick' = [tick EXCEPT !.at = "window"] /\ UNCHANGED <<sync, due, mixed>>
      BY <2>2 DEF SyncProduce, TickGoto
    <3>2. tick'.at = "window" /\ tick'.buf = tick.buf /\ tick' \in TickRecord /\ tick'.ret = tick.ret
      BY <1>2, <3>1 DEF TickRecord, TickSteps
    <3> QED  BY <1>2, <3>1, <3>2
  <2> QED  BY <2>1, <2>2
<1>4. UNCHANGED <<rpdo, mapped, latest, unclear>>  BY DEF SyncProduce
<1>5. SyncShape'
  BY <1>1, <1>2, <1>3, <1>4, SyncFields, RpdoBuffers DEF SyncShape
<1>6. TickShape'
  BY <1>1, <1>2, <1>3, <1>4, SyncFields, RpdoBuffers DEF SyncInv, TickShape, TickAt, ReadBuffer
<1>7. Copied'
  BY <1>1, <1>2, <1>3, <1>4, SyncFields, RpdoBuffers DEF SyncInv, Copied, TickAt
<1>8. WindowLeft'
  BY <1>1, <1>2, <1>3, <1>4, SyncFields, RpdoBuffers DEF SyncInv, WindowLeft
<1>9. SyncOnce'
  <2> SUFFICES ASSUME tick'.ret = 1, sync'.new, ~mixed' PROVE FALSE  BY DEF SyncOnce
  <2>1. sync.new  BY <1>3
  <2>2. tick'.ret = tick.ret
    <3>1. CASE mixed' = (mixed \/ sync.new \/ tick.ret = 1)  BY <2>1, <3>1, Zenon
    <3> QED  BY <1>3, <3>1
  <2>3. ~mixed
    <3>1. CASE mixed' = (mixed \/ sync.new \/ tick.ret = 1)  BY <2>1, <3>1, Zenon
    <3> QED  BY <1>3, <3>1
  <2> QED  BY <1>2, <2>1, <2>2, <2>3 DEF SyncInv, SyncOnce, TickAt
<1>10. CycleInv'
  <2>1. CASE mixed' \/ ~rpdo.synchronous  BY <1>4, <2>1 DEF CycleInv
  <2>2. CASE ~mixed' /\ rpdo.synchronous /\ due' = due /\ sync'.toggle = sync.toggle /\ tick'.ret = tick.ret
    BY <1>1, <1>2, <1>3, <1>4, <2>2, SyncFields, RpdoBuffers
      DEF SyncInv, CycleInv, TickAt, ReadBuffer, FillBuffer, Undealt, Holds, InObject
  <2>3. CASE /\ ~mixed' /\ rpdo.synchronous /\ sync'.toggle = ~sync.toggle /\ tick'.ret = 1
             /\ due' = latest /\ ~sync.new /\ tick.ret # 1
    <3>1. ReadBuffer' = FillBuffer /\ FillBuffer' = ReadBuffer
      BY <1>1, <1>3, <1>4, <2>3, SyncFields DEF ReadBuffer, FillBuffer
    <3>2. ~mixed  BY <1>3, <2>3
    <3> QED  BY <1>1, <1>2, <1>3, <1>4, <2>3, <3>1, <3>2, SyncFields, RpdoBuffers
         DEF SyncInv, CycleInv, TickAt, Undealt, Holds, InObject
  <2> QED  BY <1>1, <1>3, <2>1, <2>2, <2>3, SyncFields
<1>11. AsyncInv'
  <2> SUFFICES ASSUME ~rpdo.synchronous
               PROVE  ~rpdo.new[2] /\ (~mixed' /\ latest # NoData => Holds(1, latest)')
    BY <1>4 DEF AsyncInv
  <2>1. ~rpdo.new[2] /\ (~mixed /\ latest # NoData => Holds(1, latest))  BY DEF SyncInv, AsyncInv
  <2>2. ~mixed' => ~mixed  BY <1>3
  <2>3. Holds(1, latest)' = Holds(1, latest)  BY <1>2, <1>3, <1>4 DEF Holds, InObject, TickAt
  <2> QED  BY <2>1, <2>2, <2>3
<1> QED  BY <1>5, <1>6, <1>7, <1>8, <1>9, <1>10, <1>11 DEF SyncInv

\* The window is left, and the synchronous TPDOs are cleared if it was open.
LEMMA SyncEnded == ASSUME SyncInv, SyncEnds PROVE SyncInv'
<1>1. SyncShape  BY DEF SyncInv
<1>2. /\ tick.at = "window" /\ tick \in TickRecord /\ sync \in SyncRecord
  BY <1>1 DEF SyncShape, SyncEnds, TickAt
<1>3. /\ sync'.new = sync.new /\ sync'.toggle = sync.toggle /\ sync'.timer = sync.timer
      /\ sync'.inside = ~(SyncWindow # 0 /\ sync.timer > SyncWindow)
      /\ sync' \in SyncRecord
  BY <1>2 DEF SyncRecord, SyncEnds
<1>4. /\ tick'.at = "rpdo" /\ tick'.buf = tick.buf /\ tick' \in TickRecord
      /\ tick'.ret = IF SyncWindow # 0 /\ sync.timer > SyncWindow /\ sync.inside THEN 2 ELSE tick.ret
  <2> DEFINE r == IF SyncWindow # 0 /\ sync.timer > SyncWindow /\ sync.inside THEN 2 ELSE tick.ret
  <2>1. r \in 0 .. 2  BY <1>1, SyncFields
  <2>2. tick' = [tick EXCEPT !.at = "rpdo", !.ret = r]  BY <1>2 DEF SyncEnds, TickRecord
  <2> HIDE DEF r
  <2>3. tick'.at = "rpdo" /\ tick'.buf = tick.buf /\ tick' \in TickRecord /\ tick'.ret = r
    BY <1>2, <2>1, <2>2 DEF TickRecord, TickSteps
  <2> QED  BY <2>3 DEF r
<1>5. tick'.ret = 1 <=> tick.ret = 1
  <2>1. ~(0 > SyncWindow)  BY SyncRpdoAssumption
  <2> QED  BY <1>2, <1>4, <2>1 DEF SyncInv, WindowLeft
<1>6. unclear' = (unclear /\ ~(SyncWindow # 0 /\ sync.timer > SyncWindow /\ sync.inside))  BY DEF SyncEnds
<1>7. UNCHANGED <<rpdo, mapped, latest, due, mixed>>  BY DEF SyncEnds
<1>8. SyncShape'
  BY <1>1, <1>2, <1>3, <1>4, <1>5, <1>6, <1>7, SyncFields, RpdoBuffers DEF SyncShape
<1>9. TickShape'
  BY <1>1, <1>2, <1>3, <1>4, <1>5, <1>6, <1>7, SyncFields, RpdoBuffers
    DEF SyncInv, TickShape, TickAt, ReadBuffer
<1>10. Copied'
  BY <1>1, <1>2, <1>3, <1>4, <1>5, <1>6, <1>7, SyncFields, RpdoBuffers DEF SyncInv, Copied, TickAt
<1>11. WindowLeft'
  <2>1. ~(0 > SyncWindow)  BY SyncRpdoAssumption
  <2>2. tick'.ret = 1 => sync'.inside  BY <1>2, <1>3, <1>5, <2>1 DEF SyncInv, WindowLeft
  <2>3. unclear' => sync'.inside  BY <1>2, <1>3, <1>6 DEF SyncInv, WindowLeft
  <2> QED  BY <1>2, <1>3, <1>4, <2>2, <2>3 DEF WindowLeft
<1>12. SyncOnce'
  BY <1>1, <1>2, <1>3, <1>4, <1>5, <1>6, <1>7, SyncFields, RpdoBuffers DEF SyncInv, SyncOnce, TickAt
<1>13. CycleInv'
  <2>1. ReadBuffer' = ReadBuffer /\ FillBuffer' = FillBuffer /\ Undealt' = Undealt
    BY <1>2, <1>3, <1>4, <1>5, <1>7 DEF ReadBuffer, FillBuffer, Undealt
  <2> QED  BY <1>2, <1>4, <1>5, <1>7, <2>1 DEF SyncInv, CycleInv, TickAt, Holds, InObject
<1>14. AsyncInv'
  BY <1>1, <1>2, <1>3, <1>4, <1>5, <1>6, <1>7, SyncFields, RpdoBuffers
    DEF SyncInv, AsyncInv, TickAt, ReadBuffer, FillBuffer, Undealt, Holds, InObject, TickShape, CycleInv
<1> QED  BY <1>8, <1>9, <1>10, <1>11, <1>12, <1>13, <1>14 DEF SyncInv

\* A PDO that is not used forgets its frames, and with them what could not be sorted out.
LEMMA RpdoForgot == ASSUME SyncInv, RpdoForgets PROVE SyncInv'
<1>1. SyncShape  BY DEF SyncInv
<1>2. /\ tick.at = "rpdo" /\ tick'.at = "tpdo" /\ tick'.ret = tick.ret /\ tick'.buf = tick.buf
      /\ tick' \in TickRecord
  BY <1>1 DEF SyncShape, TickAt, TickGoto, RpdoForgets, TickRecord, TickSteps
<1>3. /\ rpdo' \in RpdoRecord /\ rpdo'.synchronous = rpdo.synchronous
      /\ rpdo'.new[1] = FALSE /\ rpdo'.new[2] = FALSE /\ rpdo'.data = rpdo.data
  <2>1. rpdo \in RpdoRecord  BY <1>1 DEF SyncShape
  <2>2. PICK v \in BOOLEAN : rpdo' = [rpdo EXCEPT !.valid = v, !.new = <<FALSE, FALSE>>]
    BY <2>1 DEF RpdoRecord, RpdoForgets
  <2>3. <<FALSE, FALSE>> \in BOOLEAN \X BOOLEAN  OBVIOUS
  <2>4. rpdo' \in RpdoRecord /\ rpdo'.synchronous = rpdo.synchronous
        /\ rpdo'.new = <<FALSE, FALSE>> /\ rpdo'.data = rpdo.data
    BY <2>1, <2>2, <2>3 DEF RpdoRecord
  <2> QED  BY <2>4
<1>4. latest' = NoData /\ due' = NoData /\ mixed' = FALSE /\ NoData \in PdoData  BY DEF RpdoForgets, PdoData
<1>5. UNCHANGED <<sync, mapped, unclear>>  BY DEF RpdoForgets
<1>6. SyncShape'
  BY <1>1, <1>2, <1>3, <1>4, <1>5, SyncFields, RpdoBuffers DEF SyncShape
<1>7. TickShape'
  BY <1>1, <1>2, <1>3, <1>4, <1>5, SyncFields, RpdoBuffers DEF SyncInv, TickShape, TickAt, ReadBuffer
<1>8. Copied'
  BY <1>1, <1>2, <1>3, <1>4, <1>5, SyncFields, RpdoBuffers DEF SyncInv, Copied, TickAt
<1>9. WindowLeft'
  BY <1>1, <1>2, <1>3, <1>4, <1>5, SyncFields, RpdoBuffers DEF SyncInv, WindowLeft
<1>10. SyncOnce'
  BY <1>1, <1>2, <1>3, <1>4, <1>5, SyncFields, RpdoBuffers DEF SyncInv, SyncOnce, TickAt
<1>11. CycleInv'
  BY <1>1, <1>2, <1>3, <1>4, <1>5, SyncFields, RpdoBuffers
    DEF SyncInv, CycleInv, TickAt, ReadBuffer, FillBuffer, Undealt, Holds, InObject, TickShape, Copied,
      SyncOnce, AsyncInv
<1>12. AsyncInv'
  BY <1>1, <1>2, <1>3, <1>4, <1>5, SyncFields, RpdoBuffers
    DEF SyncInv, AsyncInv, TickAt, ReadBuffer, FillBuffer, Undealt, Holds, InObject, TickShape, CycleInv
<1> QED  BY <1>6, <1>7, <1>8, <1>9, <1>10, <1>11, <1>12 DEF SyncInv

\* The buffer is chosen: the one that was filled before the SYNC.
LEMMA RpdoSelected == ASSUME SyncInv, RpdoSelects PROVE SyncInv'
<1>1. SyncShape  BY DEF SyncInv
<1>2. /\ tick.at = "rpdo" /\ tick'.ret = tick.ret /\ tick' \in TickRecord
      /\ \/ tick'.at = "tpdo" /\ rpdo.synchronous /\ tick.ret # 1
         \/ tick'.at = "test" /\ (rpdo.synchronous => tick.ret = 1) /\ tick'.buf = ReadBuffer
  BY <1>1, SyncFields, RpdoBuffers DEF SyncShape, TickAt, TickGoto, RpdoSelects, TickRecord, TickSteps
<1>3. UNCHANGED <<sync, rpdo, mapped, latest, due, mixed, unclear>>  BY DEF RpdoSelects
<1>4. SyncShape'
  BY <1>1, <1>2, <1>3, SyncFields, RpdoBuffers DEF SyncShape
<1>5. TickShape'
  BY <1>1, <1>2, <1>3, SyncFields, RpdoBuffers DEF SyncInv, TickShape, TickAt, ReadBuffer
<1>6. Copied'
  BY <1>1, <1>2, <1>3, SyncFields, RpdoBuffers DEF SyncInv, Copied, TickAt
<1>7. WindowLeft'
  BY <1>1, <1>2, <1>3, SyncFields, RpdoBuffers DEF SyncInv, WindowLeft
<1>8. SyncOnce'
  BY <1>1, <1>2, <1>3, SyncFields, RpdoBuffers DEF SyncInv, SyncOnce, TickAt
<1>9. CycleInv'
  BY <1>1, <1>2, <1>3, SyncFields, RpdoBuffers
    DEF SyncInv, CycleInv, TickAt, ReadBuffer, FillBuffer, Undealt, Holds, InObject, TickShape, Copied,
      SyncOnce, AsyncInv
<1>10. AsyncInv'
  BY <1>1, <1>2, <1>3, SyncFields, RpdoBuffers
    DEF SyncInv, AsyncInv, TickAt, ReadBuffer, FillBuffer, Undealt, Holds, InObject, TickShape, CycleInv
<1> QED  BY <1>4, <1>5, <1>6, <1>7, <1>8, <1>9, <1>10 DEF SyncInv

\* The message is marked as read before it is copied.
LEMMA RpdoTested == ASSUME SyncInv, RpdoTests PROVE SyncInv'
<1>1. SyncShape  BY DEF SyncInv
<1>2. /\ tick.at = "test" /\ tick'.ret = tick.ret /\ tick'.buf = tick.buf /\ tick' \in TickRecord
      /\ tick'.at = IF rpdo.new[tick.buf] THEN "first" ELSE "tpdo"
  BY <1>1 DEF SyncShape, TickAt, TickGoto, RpdoTests, TickRecord, TickSteps
<1>3. /\ rpdo' \in RpdoRecord /\ rpdo'.synchronous = rpdo.synchronous /\ rpdo'.data = rpdo.data
      /\ rpdo'.new[tick.buf] = FALSE
      /\ \A j \in 1 .. 2 : j # tick.buf => rpdo'.new[j] = rpdo.new[j]
  <2>1. CASE rpdo.new[tick.buf]
    <3> DEFINE n == [rpdo.new EXCEPT ![tick.buf] = FALSE]
    <3>1. n \in BOOLEAN \X BOOLEAN /\ n[tick.buf] = FALSE /\ \A j \in 1 .. 2 : j # tick.buf
          => n[j] = rpdo.new[j]
      BY <1>1, SyncFields, Flags, ZenonT(60)
    <3>2. rpdo' = [rpdo EXCEPT !.new = n] /\ rpdo \in RpdoRecord
      BY <1>1, <2>1 DEF SyncShape, RpdoTests, RpdoRecord
    <3> HIDE DEF n
    <3>3. rpdo' \in RpdoRecord /\ rpdo'.synchronous = rpdo.synchronous /\ rpdo'.data = rpdo.data
          /\ rpdo'.new = n
      BY <3>1, <3>2 DEF RpdoRecord
    <3> QED  BY <3>1, <3>3
  <2>2. CASE ~rpdo.new[tick.buf]
    <3>1. rpdo' = rpdo  BY <2>2 DEF RpdoTests
    <3>2. tick.buf \in 1 .. 2 /\ rpdo.new[tick.buf] = FALSE /\ rpdo \in RpdoRecord
      BY <1>1, <2>2, SyncFields DEF SyncShape
    <3> QED  BY <3>1, <3>2
  <2> QED  BY <2>1, <2>2
<1>4. UNCHANGED <<sync, mapped, latest, due, mixed, unclear>>  BY DEF RpdoTests
<1>5. SyncShape'
  BY <1>1, <1>2, <1>3, <1>4, SyncFields, RpdoBuffers DEF SyncShape
<1>6. TickShape'
  BY <1>1, <1>2, <1>3, <1>4, SyncFields, RpdoBuffers DEF SyncInv, TickShape, TickAt, ReadBuffer
<1>7. Copied'
  BY <1>1, <1>2, <1>3, <1>4, SyncFields, RpdoBuffers DEF SyncInv, Copied, TickAt
<1>8. WindowLeft'
  BY <1>1, <1>2, <1>3, <1>4, SyncFields, RpdoBuffers DEF SyncInv, WindowLeft
<1>9. SyncOnce'
  BY <1>1, <1>2, <1>3, <1>4, SyncFields, RpdoBuffers DEF SyncInv, SyncOnce, TickAt
<1>10. CycleInv'
  BY <1>1, <1>2, <1>3, <1>4, SyncFields, RpdoBuffers
    DEF SyncInv, CycleInv, TickAt, ReadBuffer, FillBuffer, Undealt, Holds, InObject, TickShape, Copied,
      SyncOnce, AsyncInv
<1>11. AsyncInv'
  BY <1>1, <1>2, <1>3, <1>4, SyncFields, RpdoBuffers
    DEF SyncInv, AsyncInv, TickAt, ReadBuffer, FillBuffer, Undealt, Holds, InObject, TickShape, CycleInv
<1> QED  BY <1>5, <1>6, <1>7, <1>8, <1>9, <1>10, <1>11 DEF SyncInv

\* A byte is copied.
LEMMA RpdoCopied == ASSUME SyncInv, NEW i \in 1 .. 2, RpdoCopies(i) PROVE SyncInv'
<1>1. SyncShape  BY DEF SyncInv
<1>2. /\ tick'.ret = tick.ret /\ tick'.buf = tick.buf /\ tick' \in TickRecord
      /\ \/ i = 1 /\ tick.at = "first" /\ tick'.at = "second"
         \/ i = 2 /\ tick.at = "second" /\ tick'.at = "test"
  BY <1>1 DEF SyncShape, TickAt, TickGoto, RpdoCopies, TickRecord, TickSteps
<1>3. /\ mapped' \in PdoData \X PdoData /\ mapped'[i] = rpdo.data[tick.buf]
      /\ \A j \in 1 .. 2 : j # i => mapped'[j] = mapped[j]
  <2>1. rpdo.data[tick.buf] \in PdoData  BY <1>1, SyncFields
  <2> QED  BY <1>1, <2>1, SyncFields, Pairs DEF RpdoCopies
<1>4. /\ \A v : (mapped = <<v, v>>) <=> (mapped[1] = v /\ mapped[2] = v)
      /\ \A v : (mapped' = <<v, v>>) <=> (mapped'[1] = v /\ mapped'[2] = v)
  BY <1>1, <1>3, SyncFields, PairIs
<1>5. UNCHANGED <<sync, rpdo, latest, due, mixed, unclear>>  BY DEF RpdoCopies
<1>6. SyncShape'
  BY <1>1, <1>2, <1>3, <1>4, <1>5, SyncFields, RpdoBuffers DEF SyncShape
<1>7. TickShape'
  BY <1>1, <1>2, <1>3, <1>4, <1>5, SyncFields, RpdoBuffers DEF SyncInv, TickShape, TickAt, ReadBuffer
<1>8. Copied'
  BY <1>1, <1>2, <1>3, <1>4, <1>5, SyncFields, RpdoBuffers DEF SyncInv, Copied, TickAt
<1>9. WindowLeft'
  BY <1>1, <1>2, <1>3, <1>4, <1>5, SyncFields, RpdoBuffers DEF SyncInv, WindowLeft
<1>10. SyncOnce'
  BY <1>1, <1>2, <1>3, <1>4, <1>5, SyncFields, RpdoBuffers DEF SyncInv, SyncOnce, TickAt
<1>11. CycleInv'
  BY <1>1, <1>2, <1>3, <1>4, <1>5, SyncFields, RpdoBuffers
    DEF SyncInv, CycleInv, TickAt, ReadBuffer, FillBuffer, Undealt, Holds, InObject, TickShape, Copied,
      SyncOnce, AsyncInv
<1>12. AsyncInv'
  BY <1>1, <1>2, <1>3, <1>4, <1>5, SyncFields, RpdoBuffers
    DEF SyncInv, AsyncInv, TickAt, ReadBuffer, FillBuffer, Undealt, Holds, InObject, TickShape, CycleInv
<1> QED  BY <1>6, <1>7, <1>8, <1>9, <1>10, <1>11, <1>12 DEF SyncInv

\* The tick ends: what was due is in the object, and so is what came last if nothing is new.
LEMMA TickEnded == ASSUME SyncInv, TickEnds PROVE SyncInv'
<1>1. SyncShape  BY DEF SyncInv
<1>2. tick.at = "tpdo" /\ tick'.at = "idle" /\ tick'.ret = 0 /\ tick' \in TickRecord
  BY DEF TickAt, TickIdle, TickEnds, TickRecord, TickSteps
<1>3. unclear' = (unclear \/ tick.ret = 1)  BY DEF TickEnds
<1>4. UNCHANGED <<sync, rpdo, mapped, latest, due, mixed>>  BY DEF TickEnds
<1>5. SyncShape'
  BY <1>1, <1>2, <1>3, <1>4, SyncFields, RpdoBuffers DEF SyncShape
<1>6. TickShape'
  BY <1>1, <1>2, <1>3, <1>4, SyncFields, RpdoBuffers DEF SyncInv, TickShape, TickAt, ReadBuffer
<1>7. Copied'
  BY <1>1, <1>2, <1>3, <1>4, SyncFields, RpdoBuffers DEF SyncInv, Copied, TickAt
<1>8. WindowLeft'
  BY <1>1, <1>2, <1>3, <1>4, SyncFields, RpdoBuffers DEF SyncInv, WindowLeft
<1>9. SyncOnce'
  BY <1>1, <1>2, <1>3, <1>4, SyncFields, RpdoBuffers DEF SyncInv, SyncOnce, TickAt
<1>10. CycleInv'
  BY <1>1, <1>2, <1>3, <1>4, SyncFields, RpdoBuffers
    DEF SyncInv, CycleInv, TickAt, ReadBuffer, FillBuffer, Undealt, Holds, InObject, TickShape, Copied,
      SyncOnce, AsyncInv
<1>11. AsyncInv'
  BY <1>1, <1>2, <1>3, <1>4, SyncFields, RpdoBuffers
    DEF SyncInv, AsyncInv, TickAt, ReadBuffer, FillBuffer, Undealt, Holds, InObject, TickShape, CycleInv
<1> QED  BY <1>5, <1>6, <1>7, <1>8, <1>9, <1>10, <1>11 DEF SyncInv

\* Writes of 0x1005 and 0x1006, of which the latter restarts the timer.
LEMMA SyncConfigured == ASSUME SyncInv,
  (\E b \in BOOLEAN : ODF_1005(b)) \/ (\E p \in SyncPeriods : ODF_1006(p)) PROVE SyncInv'
<1>1. SyncShape  BY DEF SyncInv
<1>2. /\ sync'.new = sync.new /\ sync'.toggle = sync.toggle /\ sync'.inside = sync.inside
      /\ sync'.timer \in {sync.timer, 0} /\ sync' \in SyncRecord
  <2>1. sync \in SyncRecord /\ 0 \in 0 .. SyncTimerMax  BY <1>1, SyncRpdoAssumption DEF SyncShape
  <2>2. ASSUME NEW b \in BOOLEAN, sync' = [sync EXCEPT !.producer = b]
        PROVE  /\ sync'.new = sync.new /\ sync'.toggle = sync.toggle /\ sync'.inside = sync.inside
               /\ sync'.timer = sync.timer /\ sync' \in SyncRecord
    BY <2>1, <2>2 DEF SyncRecord
  <2>3. ASSUME NEW p \in SyncPeriods, sync' = [sync EXCEPT !.period = p, !.timer = 0]
        PROVE  /\ sync'.new = sync.new /\ sync'.toggle = sync.toggle /\ sync'.inside = sync.inside
               /\ sync'.timer = 0 /\ sync' \in SyncRecord
    BY <2>1, <2>3 DEF SyncRecord
  <2>4. CASE \E b \in BOOLEAN : ODF_1005(b)  BY <2>2, <2>4 DEF ODF_1005
  <2>5. CASE \E p \in SyncPeriods : ODF_1006(p)  BY <2>3, <2>5 DEF ODF_1006
  <2> QED  BY <2>4, <2>5
<1>3. tick.at = "idle" /\ UNCHANGED <<rpdo, mapped, tick, latest, due, mixed, unclear>>
  BY DEF ODF_1005, ODF_1006, TickAt
<1>4. SyncShape'
  BY <1>1, <1>2, <1>3, SyncFields, RpdoBuffers DEF SyncShape
<1>5. TickShape'
  BY <1>1, <1>2, <1>3, SyncFields, RpdoBuffers DEF SyncInv, TickShape, TickAt, ReadBuffer
<1>6. Copied'
  BY <1>1, <1>2, <1>3, SyncFields, RpdoBuffers DEF SyncInv, Copied, TickAt
<1>7. WindowLeft'
  <2>1. ~(0 > SyncWindow)  BY SyncRpdoAssumption
  <2> QED  BY <1>1, <1>2, <1>3, <2>1, SyncFields DEF SyncInv, WindowLeft
<1>8. SyncOnce'
  BY <1>1, <1>2, <1>3, SyncFields, RpdoBuffers DEF SyncInv, SyncOnce, TickAt
<1>9. CycleInv'
  BY <1>1, <1>2, <1>3, SyncFields, RpdoBuffers
    DEF SyncInv, CycleInv, TickAt, ReadBuffer, FillBuffer, Undealt, Holds, InObject, TickShape, Copied,
      SyncOnce, AsyncInv
<1>10. AsyncInv'
  BY <1>1, <1>2, <1>3, SyncFields, RpdoBuffers
    DEF SyncInv, AsyncInv, TickAt, ReadBuffer, FillBuffer, Undealt, Holds, InObject, TickShape, CycleInv
<1> QED  BY <1>4, <1>5, <1>6, <1>7, <1>8, <1>9, <1>10 DEF SyncInv

\* The PDO is made invalid and forgets its frames.
LEMMA RpdoConfigured == ASSUME SyncInv, ConfigCom(FALSE) PROVE SyncInv'
<1>1. SyncShape  BY DEF SyncInv
<1>2. /\ rpdo' \in RpdoRecord /\ rpdo'.synchronous = rpdo.synchronous
      /\ rpdo'.new[1] = FALSE /\ rpdo'.new[2] = FALSE /\ rpdo'.data = rpdo.data
  <2>1. rpdo \in RpdoRecord  BY <1>1 DEF SyncShape
  <2>2. PICK v \in BOOLEAN : rpdo' = [rpdo EXCEPT !.valid = v, !.new = <<FALSE, FALSE>>]
    BY <2>1 DEF RpdoRecord, ConfigCom
  <2>3. <<FALSE, FALSE>> \in BOOLEAN \X BOOLEAN  OBVIOUS
  <2>4. rpdo' \in RpdoRecord /\ rpdo'.synchronous = rpdo.synchronous
        /\ rpdo'.new = <<FALSE, FALSE>> /\ rpdo'.data = rpdo.data
    BY <2>1, <2>2, <2>3 DEF RpdoRecord
  <2> QED  BY <2>4
<1>3. latest' = NoData /\ due' = NoData /\ mixed' = FALSE /\ NoData \in PdoData  BY DEF ConfigCom, PdoData
<1>4. tick.at = "idle" /\ tick.ret = 0 /\ UNCHANGED <<sync, mapped, tick, unclear>>
  BY DEF SyncInv, TickShape, ConfigCom, TickAt
<1>5. SyncShape'
  BY <1>1, <1>2, <1>3, <1>4, SyncFields, RpdoBuffers DEF SyncShape
<1>6. TickShape'
  BY <1>1, <1>2, <1>3, <1>4, SyncFields, RpdoBuffers DEF SyncInv, TickShape, TickAt, ReadBuffer
<1>7. Copied'
  BY <1>1, <1>2, <1>3, <1>4, SyncFields, RpdoBuffers DEF SyncInv, Copied, TickAt
<1>8. WindowLeft'
  BY <1>1, <1>2, <1>3, <1>4, SyncFields, RpdoBuffers DEF SyncInv, WindowLeft
<1>9. SyncOnce'
  BY <1>1, <1>2, <1>3, <1>4, SyncFields, RpdoBuffers DEF SyncInv, SyncOnce, TickAt
<1>10. CycleInv'
  BY <1>1, <1>2, <1>3, <1>4, SyncFields, RpdoBuffers
    DEF SyncInv, CycleInv, TickAt, ReadBuffer, FillBuffer, Undealt, Holds, InObject, TickShape, Copied,
      SyncOnce, AsyncInv
<1>11. AsyncInv'
  BY <1>1, <1>2, <1>3, <1>4, SyncFields, RpdoBuffers
    DEF SyncInv, AsyncInv, TickAt, ReadBuffer, FillBuffer, Undealt, Holds, InObject, TickShape, CycleInv
<1> QED  BY <1>5, <1>6, <1>7, <1>8, <1>9, <1>10, <1>11 DEF SyncInv

\* The transmission type changes between synchronous and not.
LEMMA TypeChanged == ASSUME SyncInv, NEW b \in BOOLEAN, TransmissionType(b) PROVE SyncInv'
<1>1. SyncShape  BY DEF SyncInv
<1>2. /\ rpdo' \in RpdoRecord /\ rpdo'.synchronous = b /\ b # rpdo.synchronous /\ rpdo'.data = rpdo.data
      /\ rpdo'.new[1] = rpdo.new[1] /\ rpdo'.new[2] = FALSE
  <2> DEFINE n == [rpdo.new EXCEPT ![2] = FALSE]
  <2>1. n \in BOOLEAN \X BOOLEAN /\ n[2] = FALSE /\ n[1] = rpdo.new[1]
    <3>1. rpdo.new \in BOOLEAN \X BOOLEAN /\ 2 \in 1 .. 2 /\ 1 \in 1 .. 2 /\ 1 # 2 /\ FALSE \in BOOLEAN
      BY <1>1, SyncFields
    <3> HIDE <1>1
    <3>2. \A j \in 1 .. 2 : j # 2 => n[j] = rpdo.new[j]  BY <3>1, Flags
    <3>3. n \in BOOLEAN \X BOOLEAN /\ n[2] = FALSE  BY <3>1, Flags
    <3> QED  BY <3>1, <3>2, <3>3
  <2>2. rpdo' = [rpdo EXCEPT !.synchronous = b, !.new = n] /\ rpdo \in RpdoRecord
    BY <1>1 DEF SyncShape, TransmissionType, RpdoRecord
  <2>3. b # rpdo.synchronous  BY DEF TransmissionType
  <2> HIDE DEF n
  <2>4. rpdo' \in RpdoRecord /\ rpdo'.synchronous = b /\ rpdo'.data = rpdo.data /\ rpdo'.new = n
    BY <2>1, <2>2 DEF RpdoRecord
  <2> QED  BY <2>1, <2>3, <2>4
<1>3. /\ tick.at = "idle" /\ tick.ret = 0
      /\ mixed' = (mixed \/ rpdo.new[1] \/ rpdo.new[2] \/ sync.new \/ tick.ret = 1)
  BY DEF SyncInv, TickShape, TransmissionType, TickAt, SyncPending
<1>4. UNCHANGED <<sync, mapped, tick, latest, due, unclear>>  BY DEF TransmissionType
<1>5. SyncShape'
  BY <1>1, <1>2, <1>3, <1>4, SyncFields, RpdoBuffers DEF SyncShape
<1>6. TickShape'
  BY <1>1, <1>2, <1>3, <1>4, SyncFields, RpdoBuffers DEF SyncInv, TickShape, TickAt, ReadBuffer
<1>7. Copied'
  BY <1>1, <1>2, <1>3, <1>4, SyncFields, RpdoBuffers DEF SyncInv, Copied, TickAt
<1>8. WindowLeft'
  BY <1>1, <1>2, <1>3, <1>4, SyncFields, RpdoBuffers DEF SyncInv, WindowLeft
<1>9. SyncOnce'
  BY <1>1, <1>2, <1>3, <1>4, SyncFields, RpdoBuffers DEF SyncInv, SyncOnce, TickAt
<1>10. CycleInv'
  BY <1>1, <1>2, <1>3, <1>4, SyncFields, RpdoBuffers
    DEF SyncInv, CycleInv, TickAt, ReadBuffer, FillBuffer, Undealt, Holds, InObject, TickShape, Copied,
      SyncOnce, AsyncInv
<1>11. AsyncInv'
  BY <1>1, <1>2, <1>3, <1>4, SyncFields, RpdoBuffers
    DEF SyncInv, AsyncInv, TickAt, ReadBuffer, FillBuffer, Undealt, Holds, InObject, TickShape, CycleInv
<1> QED  BY <1>5, <1>6, <1>7, <1>8, <1>9, <1>10, <1>11 DEF SyncInv

\* Other changes of the PDO or of the operating state.
LEMMA SyncElsewhere ==
    ASSUME SyncInv, UNCHANGED <<sync, mapped, tick, latest, due, mixed, unclear>>,
           rpdo' \in RpdoRecord, UNCHANGED <<rpdo.synchronous, rpdo.new, rpdo.data>>
    PROVE  SyncInv'
<1>1. SyncShape'  BY DEF SyncInv, SyncShape
<1> QED  BY <1>1 DEF SyncInv, TickShape, Copied, WindowLeft, SyncOnce, CycleInv, AsyncInv, TickAt,
            ReadBuffer, FillBuffer, Undealt, Holds, InObject

\* Every step keeps the invariant.
LEMMA SyncNextInv == ASSUME SyncInv, [SyncNext]_syncVars PROVE SyncInv'
<1>1. CASE (\E right \in BOOLEAN : SYNC_receive(right)) \/ \E frame \in Frames : PDO_receive(frame)
  BY <1>1, SyncReceived, PdoReceived
<1>2. CASE TickBegins \/ SyncClear \/ SyncProduce \/ SyncEnds
  BY <1>2, TickBegun, SyncCleared, SyncProduced, SyncEnded
<1>3. CASE RpdoForgets \/ RpdoSelects \/ RpdoTests \/ (\E i \in 1 .. 2 : RpdoCopies(i)) \/ TickEnds
  BY <1>3, RpdoForgot, RpdoSelected, RpdoTested, RpdoCopied, TickEnded
<1>4. CASE (\E b \in BOOLEAN : ODF_1005(b) \/ TransmissionType(b)) \/ \E p \in SyncPeriods : ODF_1006(p)
  BY <1>4, SyncConfigured, TypeChanged
<1>5. ASSUME NEW b \in BOOLEAN, ConfigCom(b) PROVE SyncInv'
  <2>1. CASE b
    <3>1. rpdo \in RpdoRecord  BY DEF SyncInv, SyncShape
    <3>2. rpdo' \in RpdoRecord /\ UNCHANGED <<rpdo.synchronous, rpdo.new, rpdo.data>>
      BY <1>5, <2>1, <3>1 DEF ConfigCom, RpdoRecord
    <3> QED  BY <1>5, <2>1, <3>2, SyncElsewhere DEF ConfigCom
  <2>2. CASE ~b
    <3>1. ConfigCom(FALSE)  BY <1>5, <2>2 DEF ConfigCom
    <3> QED  BY <3>1, RpdoConfigured
  <2> QED  BY <2>1, <2>2
<1>6. CASE UNCHANGED syncVars \/ \E s \in {"operational", "pre", "stopped"} : SyncStateChanges(s)
  <2>1. UNCHANGED <<sync, rpdo, mapped, tick, latest, due, mixed, unclear>>
    BY <1>6 DEF syncVars, SyncStateChanges
  <2>2. rpdo \in RpdoRecord  BY DEF SyncInv, SyncShape
  <2> QED  BY <2>1, <2>2, SyncElsewhere
<1> QED  BY <1>1, <1>2, <1>3, <1>4, <1>5, <1>6 DEF SyncNext

\* The invariant holds throughout, for any frames, periods, window and timer.
THEOREM SyncInvariant == SyncSpec => []SyncInv
BY SyncInitInv, SyncNextInv, PTL DEF SyncSpec

\* Flags, buffers and timer have their types.
THEOREM SyncTypeCorrect == SyncSpec => []SyncTypeOK
<1>1. SyncInv => SyncTypeOK  BY ShapeIsTyped DEF SyncInv
<1> QED  BY <1>1, SyncInvariant, PTL

\* Outside the copy loop the mapped object is of one frame, wherever CO_PDO_receive interrupts
\* the copy.
THEOREM SyncObjectIsWhole == SyncSpec => []ObjectIsWhole
<1>1. SyncInv => ObjectIsWhole  BY DEF SyncInv, Copied, ObjectIsWhole
<1> QED  BY <1>1, SyncInvariant, PTL

\* The object has the last frame received before the SYNC, and no frame of one cycle is left for
\* the next.
THEOREM SyncCycleIsKept == SyncSpec => []CycleIsKept
<1>1. SyncInv => CycleIsKept
  BY DEF SyncInv, TickShape, CycleInv, CycleIsKept, SyncImage, NothingLeftBehind, TickAt, Undealt
<1> QED  BY <1>1, SyncInvariant, PTL

\* When the synchronous window is over, the synchronous TPDOs sent in it have been cleared.
THEOREM SyncWindowKept == SyncSpec => []SyncPdosLeaveWindow
<1>1. SyncInv => SyncPdosLeaveWindow
  BY DEF SyncInv, WindowLeft, SyncPdosLeaveWindow, TickAt
<1> QED  BY <1>1, SyncInvariant, PTL

-----------------------------------------------------------------------------
(* The stack. *)

\* A behaviour of the stack is one of each of its parts: the one that runs makes its
\* own steps, and the others stand still.
THEOREM StackIsItsParts == StackSpec => EmSpec /\ CanRxSpec /\ SyncSpec /\ SdoSpec
<1>1. StackInit => EmInit /\ CanRxInit /\ SyncInit /\ SdoInit  BY DEF StackInit
<1>2. [StackNext]_<<part, emVars, rxVars, syncVars, sdoVars>>
        => [EmNext]_emVars /\ [CanRxNext]_rxVars /\ [SyncNext]_syncVars /\ [SdoNext]_sdoVars
  BY DEF StackNext
<1> QED  BY <1>1, <1>2, PTL DEF StackSpec, EmSpec, CanRxSpec, SyncSpec, SdoSpec

\* Every part that runs has its types: no ring, FIFO, buffer or counter of the stack
\* leaves its range.
THEOREM StackTypeCorrect == StackSpec => []StackTypeOK
<1>1. EmTypeOK /\ CanRxTypeOK /\ SyncTypeOK /\ SdoTypeOK
        /\ part \in {"emergency", "receive", "sync", "sdo"} => StackTypeOK
  BY DEF StackTypeOK
<1>2. StackInit => part \in {"emergency", "receive", "sync", "sdo"}  BY DEF StackInit
<1>3. part \in {"emergency", "receive", "sync", "sdo"}
        /\ [StackNext]_<<part, emVars, rxVars, syncVars, sdoVars>>
        => (part \in {"emergency", "receive", "sync", "sdo"})'
  BY DEF StackNext
<1>4. StackSpec => [](part \in {"emergency", "receive", "sync", "sdo"})
  BY <1>2, <1>3, PTL DEF StackSpec
<1> QED
  BY <1>1, <1>4, StackIsItsParts, EmTypeCorrect, RxTypeCorrect, SyncTypeCorrect, SdoTypeCorrect, PTL
=============================================================================
