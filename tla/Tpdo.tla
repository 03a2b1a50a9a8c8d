-------------------------------- MODULE Tpdo --------------------------------
(***************************************************************************)
(* A transmit PDO: every millisecond timer TIM2 looks for a change of the  *)
(* mapped object (CO_TPDOisCOS) and runs CO_TPDO_process; main serves      *)
(* writes of the communication parameters, whose new value reaches the     *)
(* object dictionary only after the object's function has run, so that the *)
(* timer may come between.  Times are in ms.  Left out: COB-IDs, mapping.  *)
(***************************************************************************)
EXTENDS Naturals

CONSTANTS PdoValues,   \* values of the mapped object
          PdoTypes,    \* transmission types a client writes; 254 and 255 are event driven
          InhibitTimes, EventTimes, \* inhibitTime and eventTimer a client writes
          StartValues, \* SYNCStartValue, as the PDO is configured
          SyncOverflow,\* counterOverflowValue of the SYNC counter, 0: no counter
          PdoCap       \* bound of the history clocks

ASSUME TpdoAssumption ==
    /\ PdoTypes \subseteq 0 .. 240 \cup {254, 255} /\ PdoTypes # {}
    /\ InhibitTimes \subseteq Nat /\ EventTimes \subseteq Nat /\ {0} \subseteq InhibitTimes \cap EventTimes
    /\ StartValues \subseteq 0 .. 240 /\ SyncOverflow \in 0 .. 240 /\ PdoCap \in Nat
    /\ \A n \in InhibitTimes \cup EventTimes \cup (PdoTypes \cap 1 .. 240) : n < PdoCap

VARIABLES tpdo,    \* CO_TPDO_t: valid, sendRequest, inhibitTimer, eventTimer, syncCounter
          com,     \* CO_TPDOCommPar_t: transmissionType, inhibitTime, eventTimer,
                   \* SYNCStartValue
          writing, \* the type whose write is between its function and the OD, or NoType
          value,   \* the mapped object
          txData,  \* the transmit buffer's data, and its bufferFull
          syncNo,  \* the counter of the last SYNC
          pdoOper, \* operating state is "operational"
          did,     \* history: what the last tick sent, whether the driver took it, and how
                   \* many SYNCs after the cyclic PDO before
          since,   \* history: ticks from the last event driven PDO taken to the last tick
          quietFor,\* history: ticks an event driven PDO has not been handed over
          lag,     \* history: ticks the value has not been handed over
          nth      \* history: SYNCs up to the next one since a cyclic PDO, 0 before the first

pdoVars == <<tpdo, com, writing, value, txData, syncNo, pdoOper, did, since, quietFor, lag, nth>>

NoType == 256
EventDriven == com.type >= 253
Cyclic == com.type \in 1 .. 240
Active == tpdo.valid /\ pdoOper
Nothing == [kind |-> "nothing", taken |-> FALSE, gap |-> 0]
Capped(n) == IF n > PdoCap THEN PdoCap ELSE n

\* CO_TPDO_init, with an event driven PDO.
PdoInit ==
    /\ tpdo = [valid |-> TRUE, request |-> TRUE, inhibit |-> 0, event |-> 0, count |-> 255]
    /\ com \in [type : {255}, inhibit : {0}, event : {0}, start : StartValues]
    /\ writing = NoType
    /\ value \in PdoValues
    /\ txData = [value |-> CHOOSE v \in PdoValues : TRUE, full |-> FALSE]
    /\ syncNo = 0
    /\ pdoOper = FALSE
    /\ did = Nothing
    /\ since = PdoCap /\ quietFor = 0 /\ lag = 0 /\ nth = 0

-----------------------------------------------------------------------------
\* Mutant of Requested: CO_TPDOisCOS is not called.
RequestedByFlag == tpdo.request

\* CO_TPDOisCOS, asked unless a request waits.
Requested == tpdo.request \/ value # txData.value

EventDue == tpdo.inhibit = 0 /\ (Requested \/ (com.event # 0 /\ tpdo.event = 0))

\* The SYNC counter a cyclic PDO starts with.
Started == IF tpdo.count # 255 THEN tpdo.count
           ELSE IF SyncOverflow # 0 /\ com.start # 0 THEN 254 ELSE com.type

\* Mutant of CyclicDue: the counter is decremented after it is tested.
CyclicDueLate(no) == IF Started = 254 THEN no = com.start ELSE Started = 0

\* A cyclic PDO is sent with this SYNC.
CyclicDue(no) == IF Started = 254 THEN no = com.start ELSE Started = 1

\* What a tick sends: CO_TPDO_process up to CO_TPDOsend.
ToSend(syncWas, no) ==
    IF ~Active THEN "nothing"
    ELSE IF EventDriven THEN IF EventDue THEN "event" ELSE "nothing"
    ELSE IF ~syncWas THEN "nothing"
    ELSE IF com.type = 0 THEN IF Requested THEN "acyclic" ELSE "nothing"
    ELSE IF CyclicDue(no) THEN "cyclic" ELSE "nothing"

\* syncCounter after the tick.
CountAfter(kind, syncWas) ==
    IF ~(Active /\ Cyclic /\ syncWas) THEN tpdo.count
    ELSE IF kind = "cyclic" THEN com.type
    ELSE IF Started = 254 THEN 254 ELSE Started - 1

\* A timer after one more millisecond.
Minus(timer) == IF timer > 1 THEN timer - 1 ELSE 0

\* sendRequest after the tick.
RequestAfter(kind) ==
    IF ~Active THEN com.type >= 254
    ELSE IF kind = "nothing" THEN Requested
    ELSE FALSE

\* CO_process_TPDO for one PDO; CO_CANsend refuses a buffer that is still full,
\* and when no mailbox is free the buffer becomes full.
PdoTick(syncWas) ==
    /\ \E no \in IF ~syncWas THEN {syncNo} ELSE IF SyncOverflow = 0 THEN {0}
                 ELSE {(syncNo % SyncOverflow) + 1} :
       LET kind == ToSend(syncWas, no)
           taken == kind # "nothing" /\ ~txData.full
           accepted == kind = "event" /\ taken
       IN  /\ syncNo' = no
           /\ tpdo' = [tpdo EXCEPT
                  !.request = RequestAfter(kind),
                  !.count = CountAfter(kind, syncWas),
                  !.inhibit = Minus(IF accepted THEN com.inhibit ELSE @),
                  !.event = Minus(IF accepted THEN com.event ELSE @)]
           /\ IF kind = "nothing" THEN UNCHANGED txData
              ELSE \E full \in {txData.full, TRUE} : txData' = [value |-> value, full |-> full]
           /\ did' = [kind |-> kind, taken |-> taken, gap |-> IF kind = "cyclic" THEN nth ELSE 0]
           /\ since' = IF did.kind = "event" /\ did.taken THEN 1 ELSE Capped(since + 1)
           /\ quietFor' = IF kind = "event" \/ ~(Active /\ EventDriven) THEN 0 ELSE Capped(quietFor + 1)
           /\ lag' = IF Active /\ EventDriven /\ value # txData'.value THEN Capped(lag + 1) ELSE 0
           /\ nth' = IF ~(Active /\ Cyclic /\ syncWas) THEN nth
                     ELSE IF kind = "cyclic" THEN 1
                     ELSE IF nth # 0 THEN Capped(nth + 1) ELSE 0
    /\ UNCHANGED <<com, writing, value, pdoOper>>

\* The driver's poll sends the waiting buffer, or the SYNC window drops it.
BufferEmpties ==
    /\ txData.full
    /\ txData' = [txData EXCEPT !.full = FALSE]
    /\ UNCHANGED <<tpdo, com, writing, value, syncNo, pdoOper, did, since, quietFor, lag, nth>>

\* The application, an RPDO or a client writes the mapped object.
ValueChanges ==
    /\ \E v \in PdoValues \ {value} : value' = v
    /\ UNCHANGED <<tpdo, com, writing, txData, syncNo, pdoOper, did, since, quietFor, lag, nth>>

PdoStateChanges ==
    /\ pdoOper' = ~pdoOper
    /\ UNCHANGED <<tpdo, com, writing, value, txData, syncNo, did, since, quietFor, lag, nth>>

-----------------------------------------------------------------------------
\* CO_ODF_TPDOcom, subindex 1: CO_TPDOconfigCom initialises the transmit buffer.
PdoConfigCom(valid) ==
    /\ writing = NoType
    /\ tpdo' = [tpdo EXCEPT !.valid = valid, !.count = 255]
    /\ txData' = [txData EXCEPT !.full = FALSE]
    /\ nth' = 0 /\ lag' = 0
    /\ UNCHANGED <<com, writing, value, syncNo, pdoOper, did, since, quietFor>>

\* Subindex 2, in two steps: the function, then the object dictionary.
WriteType(type) ==
    /\ writing = NoType
    /\ tpdo' = [tpdo EXCEPT !.count = 255]
    /\ writing' = type
    /\ nth' = 0
    /\ UNCHANGED <<com, value, txData, syncNo, pdoOper, did, since, quietFor, lag>>

TypeWritten ==
    /\ writing # NoType
    /\ com' = [com EXCEPT !.type = writing]
    /\ writing' = NoType
    /\ did' = Nothing /\ since' = PdoCap /\ quietFor' = 0 /\ lag' = 0 /\ nth' = 0
    /\ UNCHANGED <<tpdo, value, txData, syncNo, pdoOper>>

\* Subindex 3: only for a PDO that is not valid.
WriteInhibit(time) ==
    /\ writing = NoType /\ ~tpdo.valid
    /\ tpdo' = [tpdo EXCEPT !.inhibit = 0]
    /\ com' = [com EXCEPT !.inhibit = time]
    /\ did' = Nothing /\ since' = PdoCap /\ quietFor' = 0
    /\ UNCHANGED <<writing, value, txData, syncNo, pdoOper, lag, nth>>

\* Subindex 5.
WriteEvent(time) ==
    /\ writing = NoType
    /\ tpdo' = [tpdo EXCEPT !.event = time]
    /\ com' = [com EXCEPT !.event = time]
    /\ quietFor' = 0
    /\ UNCHANGED <<writing, value, txData, syncNo, pdoOper, did, since, lag, nth>>

PdoNext ==
    \/ \E b \in BOOLEAN : PdoTick(b) \/ PdoConfigCom(b)
    \/ BufferEmpties \/ ValueChanges \/ PdoStateChanges
    \/ (\E t \in PdoTypes : WriteType(t)) \/ TypeWritten
    \/ (\E t \in InhibitTimes : WriteInhibit(t)) \/ \E t \in EventTimes : WriteEvent(t)

PdoSpec == PdoInit /\ [][PdoNext]_pdoVars

-----------------------------------------------------------------------------
\* The counters stay in the range of their types; a cyclic count never runs
\* through zero to 255 or up to 254, which have a meaning of their own.
PdoTypeOK ==
    /\ tpdo.count \in 1 .. 240 \cup {254, 255}
    /\ tpdo.inhibit \in Nat /\ tpdo.event \in Nat
    /\ com.type \in PdoTypes \cup {255} /\ com.inhibit \in InhibitTimes /\ com.event \in EventTimes
    /\ value \in PdoValues /\ txData \in [value : PdoValues, full : BOOLEAN]

\* Inhibit time: between two event driven PDOs that the driver has taken lies the
\* inhibit time, whatever refused sends, state changes and writes come between.
InhibitKept == did.kind = "event" /\ did.taken => since >= com.inhibit

\* A change of the value is handed to the driver within the inhibit time: it is
\* neither lost while sending is inhibited nor when the driver refuses.
ChangeIsSent == lag # 0 => lag < com.inhibit

\* With an event timer, an operational PDO is never quiet for longer than that,
\* or than the inhibit time if it is longer.
EventTimerKept ==
    com.event # 0 => quietFor <= com.event \/ quietFor <= com.inhibit

\* An event driven PDO is sent neither too early nor too late: not within the
\* inhibit time, but at its end if the value has changed, and at the latest when
\* the event timer has run down.
TimersKept == InhibitKept /\ ChangeIsSent /\ EventTimerKept

\* A cyclic PDO is sent with every n-th SYNC the operational node receives, n
\* being its transmission type, from its first on: not with one too many or too
\* few after stops, refused sends or other writes.
EveryNthSync ==
    Cyclic /\ writing = NoType => nth <= com.type /\ did.gap \in {0, com.type}
=============================================================================
