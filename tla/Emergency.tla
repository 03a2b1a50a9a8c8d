------------------------------ MODULE Emergency ------------------------------
(***************************************************************************)
(* Emergency messages: CO_errorReport and CO_errorReset, called by main    *)
(* and by the timer interrupt, CO_EM_process, called by main, which empties *)
(* their ring, and CO_CANverifyErrors, which it calls first.  The interrupt *)
(* runs its calls to the end; main may be preempted between any two of its *)
(* steps except in the critical section that writes to the ring.           *)
(* wrongErrorReport is left out: every error of this firmware has a byte.  *)
(***************************************************************************)
EXTENDS Integers, Sequences

CONSTANTS Size,      \* CO_EM_INTERNAL_BUFFER_SIZE
          HistSize,  \* preDefErrSize
          IsrErrors, \* the errors an interrupt reports
          Codes,     \* what the CAN peripheral's error code may be
          Inhibit,   \* OD_inhibitTimeEMCY
          Ticks,     \* the time that may pass between two calls of CO_EM_process
          Preempt    \* may the interrupt report while main is inside a call?

BUS_OFF == "CAN_TX_BUS_OFF"
WARNING == "CAN_BUS_WARNING"
PASSIVE == "CAN_TX_BUS_PASSIVE"
RXB_OVERFLOW == "CAN_RXB_OVERFLOW"
TX_OVERFLOW == "CAN_TX_OVERFLOW"
BUFFER_FULL == "EMERGENCY_BUFFER_FULL"

\* The byte of errorStatusBits an error belongs to.
Byte(e) ==
    CASE e \in {WARNING, PASSIVE} -> 0
      [] e \in {BUS_OFF, RXB_OVERFLOW, TX_OVERFLOW, "TPDO_OUTSIDE_WINDOW"} -> 2
      [] e \in {"SYNC_TIME_OUT", "SYNC_LENGTH"} -> 3
      [] e = BUFFER_FULL -> 4
      [] e = "ISR_TIMER_OVERFLOW" -> 5

Errors == {BUS_OFF, WARNING, PASSIVE, RXB_OVERFLOW, TX_OVERFLOW, BUFFER_FULL} \cup IsrErrors
HalErrors == {"BOF", "EWG", "EPV", "FOV"}

ASSUME EmergencyAssumption ==
    /\ Size \in Nat \ {0} /\ HistSize \in Nat \ {0} /\ Inhibit \in Nat /\ Ticks \subseteq Nat
    /\ IsrErrors \subseteq {TX_OVERFLOW, "TPDO_OUTSIDE_WINDOW", "SYNC_TIME_OUT",
                            "SYNC_LENGTH", "ISR_TIMER_OVERFLOW"}
    /\ Codes \subseteq SUBSET HalErrors
    /\ Preempt \in BOOLEAN

VARIABLES em,      \* CO_EM_t: status bits, ring and its pointers
          pr,      \* CO_EMpr_t: error register, inhibit timer, number of errors kept
          txFull,  \* CANtxBuff->bufferFull
          errCode, \* ErrorCode of the CAN peripheral, and errOld
          main,    \* where main is: step, calls to do, step after them, byte read
          told,    \* history: the errors the last messages sent say are present
          dropped  \* history: a message found the ring full

emVars == <<em, pr, txFull, errCode, main, told, dropped>>

Calls == [err : Errors, on : BOOLEAN]
Report(e) == [err |-> e, on |-> TRUE]
Reset(e) == [err |-> e, on |-> FALSE]
CallSteps == {"test", "read", "write", "full", "queue"}
ProcessSteps == {"idle", "register", "wrap", "overflow", "report", "clear", "history"}

\* CO_EM_init.
EmInit ==
    /\ em = [bits |-> {}, buf |-> [i \in 0 .. Size - 1 |-> Report(BUS_OFF)],
             w |-> 0, r |-> 0, full |-> 0]
    /\ pr = [register |-> {}, timer |-> 0, errors |-> 0]
    /\ txFull = FALSE
    /\ errCode = [now |-> {}, old |-> {}]
    /\ main = [at |-> "idle", todo |-> <<>>, then |-> "register", byte |-> {}]
    /\ told = {} /\ dropped = FALSE

-----------------------------------------------------------------------------
(* The pieces of CO_errorReport and CO_errorReset. *)

AlreadySo(bits, call) == (call.err \in bits) = call.on

Changed(bits, call) == IF call.on THEN bits \cup {call.err} ELSE bits \ {call.err}

\* Mutant of Enqueued: nobody notices that the ring has become full.
EnqueuedNeverFull(m, call) ==
    [m EXCEPT !.buf[m.w] = call, !.w = IF @ + 1 = Size THEN 0 ELSE @ + 1]

\* The critical section: copy the message, advance the pointer, verify full.
Enqueued(m, call) ==
    LET w == IF m.w + 1 = Size THEN 0 ELSE m.w + 1
    IN  [m EXCEPT !.buf[m.w] = call, !.w = w, !.full = IF w = m.r THEN 1 ELSE @]

Overflowed(m) == [m EXCEPT !.full = 2]

NewMessage(m, call) == IF m.full # 0 THEN Overflowed(m) ELSE Enqueued(m, call)

\* A whole call, in an interrupt.
Isr(e) ==
    /\ Preempt \/ main.at = "idle"
    /\ ~AlreadySo(em.bits, Report(e))
    /\ em' = NewMessage([em EXCEPT !.bits = @ \cup {e}], Report(e))
    /\ dropped' = (dropped \/ em.full # 0)
    /\ UNCHANGED <<pr, txFull, errCode, main, told>>

At(step) == main.at = step
Goto(step) == main' = [main EXCEPT !.at = step]
Call == Head(main.todo)

\* Main's calls, one after the other, and what comes after them.
Calling(todo, then) ==
    main' = [main EXCEPT !.todo = todo, !.then = then, !.byte = {},
                         !.at = IF todo = <<>> THEN then ELSE "test"]
CallDone == Calling(Tail(main.todo), main.then)

CallTest ==
    /\ At("test")
    /\ IF AlreadySo(em.bits, Call) THEN CallDone ELSE Goto("read")
    /\ UNCHANGED <<em, pr, txFull, errCode, told, dropped>>

\* |= and &= are a read and a write of the byte.
CallRead ==
    /\ At("read")
    /\ main' = [main EXCEPT !.at = "write",
                            !.byte = {e \in em.bits : Byte(e) = Byte(Call.err)}]
    /\ UNCHANGED <<em, pr, txFull, errCode, told, dropped>>

CallWrite ==
    /\ At("write")
    /\ em' = [em EXCEPT !.bits = {e \in @ : Byte(e) # Byte(Call.err)}
                                   \cup Changed(main.byte, Call)]
    /\ Goto("full")
    /\ UNCHANGED <<pr, txFull, errCode, told, dropped>>

\* bufFull is tested before the critical section.
CallFull ==
    /\ At("full")
    /\ IF em.full # 0 THEN em' = Overflowed(em) /\ dropped' = TRUE /\ CallDone
                      ELSE Goto("queue") /\ UNCHANGED <<em, dropped>>
    /\ UNCHANGED <<pr, txFull, errCode, told>>

CallQueue ==
    /\ At("queue")
    /\ em' = Enqueued(em, Call)
    /\ CallDone
    /\ UNCHANGED <<pr, txFull, errCode, told, dropped>>

-----------------------------------------------------------------------------
(* CO_EM_process. *)

\* The calls of CO_CANverifyErrors; sent: a poll has seen the first message
\* leave, which firstCANtxMessage says.  The warning is never reset: the code tests
\* for "no error" with a mask that is zero.
VerifyCalls(code, sent) ==
    LET off == IF "BOF" \in code THEN <<Report(BUS_OFF)>> ELSE <<Reset(BUS_OFF)>>
        warning == IF "EWG" \in code THEN <<Report(WARNING)>> ELSE <<>>
        passive == IF "EPV" \in code THEN IF sent THEN <<Report(PASSIVE)>> ELSE <<>>
                   ELSE IF PASSIVE \in em.bits THEN <<Reset(PASSIVE), Reset(TX_OVERFLOW)>>
                   ELSE <<>>
        overflow == IF "FOV" \in code THEN <<Report(RXB_OVERFLOW)>> ELSE <<>>
    IN  off \o (IF "BOF" \in code THEN <<>> ELSE warning \o passive) \o overflow

CANverifyErrors ==
    /\ At("idle")
    /\ errCode' = [errCode EXCEPT !.old = errCode.now]
    /\ \E sent \in BOOLEAN :
         Calling(IF errCode.now = errCode.old THEN <<>>
                                              ELSE VerifyCalls(errCode.now, sent),
                 "register")
    /\ UNCHANGED <<em, pr, txFull, told, dropped>>

Pending == em.r # em.w \/ em.full # 0

\* What lets a message go in an NMT state that allows it.
MaySend(timer) == ~txFull /\ timer >= Inhibit /\ Pending

\* The error register and the inhibit time, then the oldest message, if any may
\* be sent, goes to the transmit buffer.
Register ==
    /\ At("register")
    /\ \E tick \in Ticks, NMTisPreOrOperational \in BOOLEAN :
         LET timer == IF pr.timer < Inhibit THEN pr.timer + tick ELSE pr.timer
             bytes == {Byte(e) : e \in em.bits}
             register == {x \in {"generic", "communication"} :
                             bytes \cap (IF x = "generic" THEN {5} ELSE {2, 3}) # {}}
         IN  IF NMTisPreOrOperational /\ MaySend(timer)
             THEN /\ told' = Changed(told, em.buf[em.r])
                  /\ em' = [em EXCEPT !.r = @ + 1]
                  /\ pr' = [pr EXCEPT !.register = register, !.timer = timer]
                  /\ Goto("wrap")
             ELSE /\ pr' = [pr EXCEPT !.register = register, !.timer = timer]
                  /\ Goto("idle")
                  /\ UNCHANGED <<em, told>>
    /\ UNCHANGED <<txFull, errCode, dropped>>

Wrap ==
    /\ At("wrap")
    /\ em' = [em EXCEPT !.r = IF @ = Size THEN 0 ELSE @]
    /\ pr' = [pr EXCEPT !.timer = 0]
    /\ Goto("overflow")
    /\ UNCHANGED <<txFull, errCode, told, dropped>>

Overflow ==
    /\ At("overflow")
    /\ Goto(IF em.full = 2 THEN "report" ELSE "clear")
    /\ UNCHANGED <<em, pr, txFull, errCode, told, dropped>>

ReportOverflow ==
    /\ At("report")
    /\ em' = [em EXCEPT !.full = 0]
    /\ Calling(<<Report(BUFFER_FULL)>>, "history")
    /\ UNCHANGED <<pr, txFull, errCode, told, dropped>>

ClearFull ==
    /\ At("clear")
    /\ em' = [em EXCEPT !.full = 0]
    /\ Goto("history")
    /\ UNCHANGED <<pr, txFull, errCode, told, dropped>>

\* Mutant of HistoryAndSend: the size of the field is off by one.
HistoryOneMore ==
    /\ At("history")
    /\ pr' = [pr EXCEPT !.errors = IF @ <= HistSize THEN @ + 1 ELSE @]
    /\ txFull' \in BOOLEAN
    /\ Goto("idle")
    /\ UNCHANGED <<em, errCode, told, dropped>>

\* The pre-defined error field, of which the number of entries is kept here,
\* and CO_CANsend, after which the message may still wait.
HistoryAndSend ==
    /\ At("history")
    /\ pr' = [pr EXCEPT !.errors = IF @ < HistSize THEN @ + 1 ELSE @]
    /\ txFull' \in BOOLEAN
    /\ Goto("idle")
    /\ UNCHANGED <<em, errCode, told, dropped>>

\* CO_ODF_1003: a client writes 0 to the number of errors.
ClearHistory ==
    /\ At("idle")
    /\ pr' = [pr EXCEPT !.errors = 0]
    /\ UNCHANGED <<em, txFull, errCode, main, told, dropped>>

(* External: the driver's poll and the CAN peripheral, whose error code matters *)
(* only where it is read. *)
MessageLeaves ==
    /\ txFull /\ txFull' = FALSE
    /\ UNCHANGED <<em, pr, errCode, main, told, dropped>>

BusState ==
    /\ At("idle")
    /\ \E code \in Codes : errCode' = [errCode EXCEPT !.now = code]
    /\ UNCHANGED <<em, pr, txFull, main, told, dropped>>

-----------------------------------------------------------------------------
MainStep == \/ CANverifyErrors
            \/ CallTest \/ CallRead \/ CallWrite \/ CallFull \/ CallQueue
            \/ Register \/ Wrap \/ Overflow \/ ReportOverflow \/ ClearFull
            \/ HistoryAndSend

EmNext == \/ MainStep \/ ClearHistory
        \/ \E e \in IsrErrors : Isr(e)
        \/ MessageLeaves \/ BusState

EmSpec == EmInit /\ [][EmNext]_emVars

-----------------------------------------------------------------------------
\* The objects have the shape of CO_EM_t and CO_EMpr_t; bufReadPtr is past the
\* end only where CO_EM_process has advanced and not yet wrapped it, and the
\* pre-defined error field is never indexed past its size.
EmTypeOK ==
    /\ em \in [bits : SUBSET Errors, buf : [0 .. Size - 1 -> Calls],
               w : 0 .. Size - 1, r : 0 .. Size, full : 0 .. 2]
    /\ em.r = Size => At("wrap")
    /\ pr.register \subseteq {"generic", "communication"}
    /\ pr.timer \in Nat /\ pr.errors \in 0 .. HistSize
    /\ txFull \in BOOLEAN
    /\ errCode \in [now : SUBSET HalErrors, old : SUBSET HalErrors]
    /\ main.at \in CallSteps \cup ProcessSteps
    /\ main.todo \in Seq(Calls) /\ main.byte \subseteq Errors
    /\ told \subseteq Errors /\ dropped \in BOOLEAN

\* How far position i of the ring is behind the read pointer, going round.
Distance(i) == IF em.r <= i THEN i - em.r ELSE i + Size - em.r

\* The positions of the ring that hold a message not yet sent.
Waiting == {i \in 0 .. Size - 1 : em.full # 0 \/ Distance(i) < Distance(em.w)}

\* Position i holds the newest waiting message about its error.
Newest(i) ==
    /\ i \in Waiting
    /\ \A j \in Waiting : em.buf[j].err = em.buf[i].err => Distance(j) <= Distance(i)

\* As long as no message found the ring full, whoever reads the emergency
\* messages sent and those that wait knows exactly the errors that are present:
\* the newest waiting message about an error, or if none waits the last one sent,
\* says whether it is present.  No report and no reset is lost, doubled, torn or
\* reordered in the ring.
BusLearnsState ==
    At("idle") /\ ~dropped =>
      /\ \A i \in 0 .. Size - 1 : Newest(i) => AlreadySo(em.bits, em.buf[i])
      /\ \A e \in Errors : (\A i \in Waiting : em.buf[i].err # e) => (e \in told <=> e \in em.bits)

\* A message that found the ring full leads to a report of its own: until that
\* one is made the ring says that it has overflowed.
LossIsReported == At("idle") /\ dropped => em.full = 2 \/ BUFFER_FULL \in em.bits

\* A listener knows the errors that are present, or is told that it may not.
ListenerKnows == BusLearnsState /\ LossIsReported
=============================================================================
