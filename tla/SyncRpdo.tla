------------------------------ MODULE SyncRpdo ------------------------------
(***************************************************************************)
(* SYNC and a receive PDO with its double buffer.  Timer TIM2 runs         *)
(* CO_process_SYNC_RPDO every millisecond; the CAN receive interrupt, which *)
(* is of higher priority, calls CO_SYNC_receive, CO_PDO_receive and (from  *)
(* NMT commands) changes the operating state between any two of its steps; *)
(* main serves writes of the objects when neither runs.  A PDO is two      *)
(* bytes that carry the number of the frame they came in.  Left out: the   *)
(* SYNC counter and the COB-IDs, of which a frame is right or wrong, and   *)
(* the reports of a wrong length and of a SYNC that fails to come.         *)
(***************************************************************************)
EXTENDS Naturals, Sequences

CONSTANTS Frames,      \* numbers of PDO frames, to tell neighbours apart
          NoData,      \* the object's value before any frame
          SyncPeriods, \* values a client may write to 0x1006, in ms; 0 is "no period"
          SyncWindow,  \* 0x1007
          SyncTimerMax \* the timer does not run over this

ASSUME SyncRpdoAssumption ==
    /\ NoData \notin Frames /\ SyncPeriods \subseteq Nat
    /\ SyncWindow \in Nat /\ SyncTimerMax \in Nat

VARIABLES sync,  \* CO_SYNC_t: CANrxNew, CANrxToggle, timer, window, isProducer, periodTime
          rpdo,  \* CO_RPDO_t: valid, synchronous, CANrxNew and CANrxData of both buffers
          mapped, \* the mapped bytes in the object dictionary
          syncState, \* operating state: "operational", "pre" or "stopped"
          tick,  \* where TIM2 is: step, what CO_SYNC_process returns, bufNo
          latest, \* history: the last frame accepted
          due,   \* history: the last frame accepted before the last SYNC
          mixed, \* history: something has happened that a double buffer cannot sort out
          unclear \* history: synchronous TPDOs sent and not cleared since

syncVars == <<sync, rpdo, mapped, syncState, tick, latest, due, mixed, unclear>>

TickIdle == [at |-> "idle", ret |-> 0, buf |-> 1]

\* CO_SYNC_init and CO_RPDO_init; of the two buffers, 1 is the default one.
SyncInit ==
    /\ sync = [new |-> FALSE, toggle |-> FALSE, timer |-> 0, inside |-> TRUE,
               producer |-> FALSE, period |-> 0]
    /\ rpdo = [valid |-> TRUE, synchronous |-> TRUE, new |-> <<FALSE, FALSE>>,
               data |-> <<NoData, NoData>>]
    /\ mapped = <<NoData, NoData>>
    /\ syncState = "pre"
    /\ tick = TickIdle
    /\ latest = NoData /\ due = NoData
    /\ mixed = FALSE /\ unclear = FALSE

TickAt(step) == tick.at = step
TickGoto(step) == tick' = [tick EXCEPT !.at = step]
Awake == syncState # "stopped"

\* A SYNC has been taken and its PDOs are not yet copied.
SyncPending == sync.new \/ tick.ret = 1

\* History: everything received so far is due, unless the last SYNC was not over.
Due == /\ due' = latest
       /\ mixed' = (mixed \/ SyncPending)

-----------------------------------------------------------------------------
\* CO_SYNC_receive, with a frame of the right length or another.
SYNC_receive(right) ==
    /\ Awake
    /\ LET new == sync.new \/ right
       IN  sync' = [sync EXCEPT !.new = new, !.toggle = IF new THEN ~@ ELSE @]
    /\ IF right THEN Due ELSE mixed' = (mixed \/ sync.new) /\ UNCHANGED due
    /\ UNCHANGED <<rpdo, mapped, syncState, tick, latest, unclear>>

\* Mutant of FillBuffer: the buffer that is being processed.
FillOther == IF rpdo.synchronous /\ ~sync.toggle THEN 2 ELSE 1

\* The buffer that is being filled, and the one that is being processed.
FillBuffer == IF rpdo.synchronous /\ sync.toggle THEN 2 ELSE 1
ReadBuffer == IF rpdo.synchronous /\ ~sync.toggle THEN 2 ELSE 1

\* CO_PDO_receive.
PDO_receive(frame) ==
    /\ rpdo.valid /\ syncState = "operational" /\ frame # latest
    /\ rpdo' = [rpdo EXCEPT !.new[FillBuffer] = TRUE, !.data[FillBuffer] = frame]
    /\ latest' = frame
    /\ UNCHANGED <<sync, mapped, syncState, tick, due, mixed, unclear>>

\* CO_NMT_receive, or an error behaviour.
SyncStateChanges(s) ==
    /\ syncState' = s
    /\ UNCHANGED <<sync, rpdo, mapped, tick, latest, due, mixed, unclear>>

-----------------------------------------------------------------------------
\* A millisecond more, without an overflow.
SyncElapsed == IF sync.timer < SyncTimerMax THEN sync.timer + 1 ELSE sync.timer

\* CO_SYNC_process: the timer, and the test of CANrxNew.
TickBegins ==
    /\ TickAt("idle")
    /\ IF Awake
       THEN IF sync.new
            THEN /\ sync' = [sync EXCEPT !.timer = 0]
                 /\ tick' = [tick EXCEPT !.at = "clear", !.ret = 1]
            ELSE /\ sync' = [sync EXCEPT !.timer = SyncElapsed]
                 /\ TickGoto("produce")
       ELSE /\ sync' = [sync EXCEPT !.new = FALSE]
            /\ TickGoto("rpdo")
    /\ mixed' = (mixed \/ (~Awake /\ sync.new))
    /\ UNCHANGED <<rpdo, mapped, syncState, latest, due, unclear>>

SyncClear ==
    /\ TickAt("clear")
    /\ sync' = [sync EXCEPT !.new = FALSE]
    /\ TickGoto("produce")
    /\ UNCHANGED <<rpdo, mapped, syncState, latest, due, mixed, unclear>>

\* Mutant of SyncProduce: only a received SYNC toggles the buffers.
SyncProduceUntoggled ==
    /\ TickAt("produce")
    /\ IF sync.producer /\ sync.period # 0 /\ sync.timer >= sync.period
       THEN /\ sync' = [sync EXCEPT !.timer = 0]
            /\ tick' = [tick EXCEPT !.at = "window", !.ret = 1]
            /\ Due
       ELSE TickGoto("window") /\ UNCHANGED <<sync, due, mixed>>
    /\ UNCHANGED <<rpdo, mapped, syncState, latest, unclear>>

\* The SYNC producer.
SyncProduce ==
    /\ TickAt("produce")
    /\ IF sync.producer /\ sync.period # 0 /\ sync.timer >= sync.period
       THEN /\ sync' = [sync EXCEPT !.timer = 0, !.toggle = ~@]
            /\ tick' = [tick EXCEPT !.at = "window", !.ret = 1]
            /\ Due
       ELSE TickGoto("window") /\ UNCHANGED <<sync, due, mixed>>
    /\ UNCHANGED <<rpdo, mapped, syncState, latest, unclear>>

\* Mutant of SyncEnds: the window is never entered again.
SyncEndsOnce ==
    /\ TickAt("window")
    /\ LET outside == SyncWindow # 0 /\ sync.timer > SyncWindow
           closes == outside /\ sync.inside
       IN  /\ tick' = [tick EXCEPT !.at = "rpdo", !.ret = IF closes THEN 2 ELSE @]
           /\ unclear' = (unclear /\ ~closes)
           /\ sync' = [sync EXCEPT !.inside = @ /\ ~outside]
    /\ UNCHANGED <<rpdo, mapped, syncState, latest, due, mixed>>

\* The window; when it ends,
\* CO_CANclearPendingSyncPDOs.
SyncEnds ==
    /\ TickAt("window")
    /\ LET outside == SyncWindow # 0 /\ sync.timer > SyncWindow
           closes == outside /\ sync.inside
       IN  /\ tick' = [tick EXCEPT !.at = "rpdo", !.ret = IF closes THEN 2 ELSE @]
           /\ unclear' = (unclear /\ ~closes)
           /\ sync' = [sync EXCEPT !.inside = ~outside]
    /\ UNCHANGED <<rpdo, mapped, syncState, latest, due, mixed>>

\* CO_RPDO_process: an unused or idle PDO forgets its frames.
RpdoForgets ==
    /\ TickAt("rpdo") /\ ~(rpdo.valid /\ syncState = "operational")
    /\ rpdo' = [rpdo EXCEPT !.new = <<FALSE, FALSE>>]
    /\ latest' = NoData /\ due' = NoData
    /\ mixed' = FALSE
    /\ TickGoto("tpdo")
    /\ UNCHANGED <<sync, mapped, syncState, unclear>>

\* Otherwise the buffer is chosen, for a synchronous PDO after a SYNC only.
RpdoSelects ==
    /\ TickAt("rpdo") /\ rpdo.valid /\ syncState = "operational"
    /\ IF rpdo.synchronous /\ tick.ret # 1 THEN TickGoto("tpdo")
       ELSE tick' = [tick EXCEPT !.at = "test", !.buf = ReadBuffer]
    /\ UNCHANGED <<sync, rpdo, mapped, syncState, latest, due, mixed, unclear>>

RpdoTests ==
    /\ TickAt("test")
    /\ IF rpdo.new[tick.buf]
       THEN TickGoto("first") /\ rpdo' = [rpdo EXCEPT !.new[tick.buf] = FALSE]
       ELSE TickGoto("tpdo") /\ UNCHANGED rpdo
    /\ UNCHANGED <<sync, mapped, syncState, latest, due, mixed, unclear>>

\* Mutant of RpdoCopies: the message is marked as read when it has been copied.
RpdoCopiesOnce(i) ==
    /\ \/ i = 1 /\ TickAt("first") /\ TickGoto("second") /\ UNCHANGED rpdo
       \/ /\ i = 2 /\ TickAt("second") /\ TickGoto("test")
          /\ rpdo' = [rpdo EXCEPT !.new[tick.buf] = FALSE]
    /\ mapped' = [mapped EXCEPT ![i] = rpdo.data[tick.buf]]
    /\ UNCHANGED <<sync, syncState, latest, due, mixed, unclear>>

\* The bytes are copied one by one; back to the test after the last.
RpdoCopies(i) ==
    /\ \/ i = 1 /\ TickAt("first") /\ TickGoto("second")
       \/ i = 2 /\ TickAt("second") /\ TickGoto("test")
    /\ mapped' = [mapped EXCEPT ![i] = rpdo.data[tick.buf]]
    /\ UNCHANGED <<sync, rpdo, syncState, latest, due, mixed, unclear>>

\* The rest of the tick sends the synchronous TPDOs after a SYNC.
TickEnds ==
    /\ TickAt("tpdo")
    /\ tick' = TickIdle
    /\ unclear' = (unclear \/ tick.ret = 1)
    /\ UNCHANGED <<sync, rpdo, mapped, syncState, latest, due, mixed>>

-----------------------------------------------------------------------------
\* CO_ODF_1005 (without a counter) and CO_ODF_1006: becoming a producer, and a
\* period.
ODF_1005(generate) ==
    /\ TickAt("idle") /\ ~(generate /\ sync.producer)
    /\ sync' = [sync EXCEPT !.producer = generate]
    /\ UNCHANGED <<rpdo, mapped, syncState, tick, latest, due, mixed, unclear>>

ODF_1006(period) ==
    /\ TickAt("idle")
    /\ sync' = [sync EXCEPT !.period = period, !.timer = 0]
    /\ UNCHANGED <<rpdo, mapped, syncState, tick, latest, due, mixed, unclear>>

\* CO_RPDOconfigCom, from CO_ODF_RPDOcom subindex 1.
ConfigCom(valid) ==
    /\ TickAt("idle")
    /\ IF valid THEN /\ rpdo' = [rpdo EXCEPT !.valid = TRUE]
                     /\ UNCHANGED <<latest, due, mixed>>
       ELSE /\ rpdo' = [rpdo EXCEPT !.valid = FALSE, !.new = <<FALSE, FALSE>>]
            /\ latest' = NoData /\ due' = NoData /\ mixed' = FALSE
    /\ UNCHANGED <<sync, mapped, syncState, tick, unclear>>

\* CO_ODF_RPDOcom subindex 2: a change of type removes the message of the second
\* buffer only.
TransmissionType(synchronous) ==
    /\ TickAt("idle") /\ synchronous # rpdo.synchronous
    /\ rpdo' = [rpdo EXCEPT !.synchronous = synchronous, !.new[2] = FALSE]
    /\ mixed' = (mixed \/ rpdo.new[1] \/ rpdo.new[2] \/ SyncPending)
    /\ UNCHANGED <<sync, mapped, syncState, tick, latest, due, unclear>>

SyncNext ==
    \/ \E right \in BOOLEAN : SYNC_receive(right)
    \/ \E frame \in Frames : PDO_receive(frame)
    \/ \E s \in {"operational", "pre", "stopped"} : SyncStateChanges(s)
    \/ TickBegins \/ SyncClear \/ SyncProduce \/ SyncEnds
    \/ RpdoForgets \/ RpdoSelects \/ RpdoTests \/ (\E i \in 1 .. 2 : RpdoCopies(i)) \/ TickEnds
    \/ \E b \in BOOLEAN : ODF_1005(b) \/ ConfigCom(b) \/ TransmissionType(b)
    \/ \E p \in SyncPeriods : ODF_1006(p)

SyncSpec == SyncInit /\ [][SyncNext]_syncVars

-----------------------------------------------------------------------------
\* Flags, buffers and timer have their shape; the timer stays in its range.
SyncTypeOK ==
    /\ sync \in [new : BOOLEAN, toggle : BOOLEAN, timer : 0 .. SyncTimerMax, inside : BOOLEAN,
                 producer : BOOLEAN, period : SyncPeriods \cup {0}]
    /\ rpdo \in [valid : BOOLEAN, synchronous : BOOLEAN, new : BOOLEAN \X BOOLEAN,
                 data : (Frames \cup {NoData}) \X (Frames \cup {NoData})]
    /\ mapped \in (Frames \cup {NoData}) \X (Frames \cup {NoData})
    /\ tick.ret \in 0 .. 2 /\ tick.buf \in 1 .. 2

\* "If between the copy operation CANrxNew is set to true by receive thread, then
\* copy the latest data again": outside the copy the object is of one frame.
ObjectIsWhole == tick.at \notin {"first", "second", "test"} => mapped[1] = mapped[2]

\* "Synchronous RPDOs must be processed after reception of the next SYNC": when a
\* tick has dealt with a SYNC, the object holds the last frame that was received
\* before that SYNC, neither one of the cycle that has begun nor an older one.
\* Not so when two SYNCs (or a SYNC and one of a wrong length) fall into the time
\* of one tick, the type changes while frames or a SYNC are pending, or the node is
\* stopped and started again within one tick.
SyncImage ==
    TickAt("tpdo") /\ tick.ret = 1 /\ rpdo.synchronous /\ ~mixed /\ due # NoData
      => mapped = <<due, due>>

\* Nothing is left that could be copied before the next SYNC: whatever waits in
\* the buffer to be read when no SYNC is pending was put there before it.
NothingLeftBehind ==
    TickAt("idle") /\ rpdo.synchronous /\ ~mixed /\ ~sync.new /\ syncState = "operational"
      => ~rpdo.new[ReadBuffer]

\* Each cycle has its own frame, and none is left for a cycle it does not belong to.
CycleIsKept == SyncImage /\ NothingLeftBehind

\* When the synchronous window is over, the synchronous TPDOs sent in it have
\* been cleared, also after the node was stopped in between.
SyncPdosLeaveWindow ==
    TickAt("tpdo") /\ SyncWindow # 0 /\ sync.timer > SyncWindow /\ Awake => ~unclear
=============================================================================
