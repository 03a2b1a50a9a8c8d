----------------------------- MODULE HbConsumer -----------------------------
(***************************************************************************)
(* Heartbeat consumer: main calls CO_HBconsumer_process, the CAN receive   *)
(* interrupt calls CO_HBcons_receive between any two of its steps.  An     *)
(* entry stands for its node: no two entries may monitor the same one.     *)
(***************************************************************************)
EXTENDS Naturals

CONSTANTS HbNodes,    \* numberOfMonitoredNodes
          HbConsTime, \* the consumer time a client writes to 0x1016, in ms
          HbTicks,    \* milliseconds that may pass between two calls
          HbCap       \* bound of the history clocks

HbMessages == {"bootup", "preoperational", "operational"}
HbEntries == 1 .. HbNodes

ASSUME HbConsumerAssumption ==
    /\ HbNodes \in Nat \ {0} /\ HbConsTime \in Nat \ {0}
    /\ HbTicks \subseteq Nat \ {0} /\ \E t \in HbTicks : \A u \in HbTicks : u <= t
    /\ HbCap \in Nat /\ \A t \in HbTicks : HbConsTime + t <= HbCap

VARIABLES cons,    \* monitoredNodes: time, NMTstate, CANrxNew, monStarted, timeoutTimer
          allOper, \* allMonitoredOperational
          consPc,  \* where CO_HBconsumer_process is: step, entry, its
                   \* timeDifference_ms and AllMonitoredOperationalCopy
          alarms,  \* errors reported to the emergency object in this call
          silence, \* history: ms since the node's last heartbeat
          booted,  \* history: a boot-up message, or a late report (which writes the state of
                   \* one), since the last heartbeat consumed
          lastMsg  \* history: the node's last message

hbVars == <<cons, allOper, consPc, alarms, silence, booted, lastMsg>>

HbMaxTick == CHOOSE t \in HbTicks : \A u \in HbTicks : u <= t

\* CO_HBcons_monitoredNodeConfig: a new message and the timer are left alone.
Configured(node, time) ==
    [node EXCEPT !.time = time, !.state = "bootup", !.started = FALSE]

HbIdle == [at |-> "idle", entry |-> 1, diff |-> 0, all |-> FALSE]

HbInit ==
    /\ cons = [i \in HbEntries |-> [time |-> 0, state |-> "bootup", new |-> FALSE,
                                    started |-> FALSE, timer |-> 0]]
    /\ allOper = FALSE
    /\ consPc = HbIdle
    /\ alarms = {}
    /\ silence = [i \in HbEntries |-> 0]
    /\ booted = [i \in HbEntries |-> FALSE]
    /\ lastMsg = [i \in HbEntries |-> "bootup"]

-----------------------------------------------------------------------------
\* The interrupt: a heartbeat of a monitored node (an unused buffer has no
\* identifier).
HBcons_receive(i, message) ==
    /\ cons[i].time # 0
    /\ cons' = [cons EXCEPT ![i].state = message, ![i].new = TRUE]
    /\ silence' = IF message = "bootup" THEN silence ELSE [silence EXCEPT ![i] = 0]
    /\ booted' = IF message = "bootup" THEN [booted EXCEPT ![i] = TRUE] ELSE booted
    /\ lastMsg' = [lastMsg EXCEPT ![i] = message]
    /\ UNCHANGED <<allOper, consPc, alarms>>

HbAt(step) == consPc.at = step

\* The entry after entry i, or the end of the loop.
After(pc, i) == IF i = HbNodes THEN [pc EXCEPT !.at = "end"]
                ELSE [pc EXCEPT !.at = "message", !.entry = i + 1]

HbBegins ==
    /\ HbAt("idle")
    /\ \E diff \in HbTicks :
         /\ consPc' = [at |-> "message", entry |-> 1, diff |-> diff, all |-> TRUE]
         /\ silence' = [i \in HbEntries |->
                IF silence[i] + diff > HbCap THEN HbCap ELSE silence[i] + diff]
    /\ alarms' = {}
    /\ UNCHANGED <<cons, allOper, booted, lastMsg>>

\* The node itself is neither operational nor pre-operational.
ConsumeNothing ==
    /\ HbAt("idle")
    /\ cons' = [i \in HbEntries |-> [cons[i] EXCEPT !.state = "bootup", !.new = FALSE,
                                                    !.started = FALSE]]
    /\ allOper' = FALSE
    /\ alarms' = {}
    /\ UNCHANGED <<consPc, silence, booted, lastMsg>>

\* Mutant of ConsumeMessage: a boot-up message does not differ from a heartbeat,
\* but the timer is left alone.
ConsumeUntimed(i) ==
    /\ HbAt("message") /\ consPc.entry = i /\ cons[i].time # 0 /\ cons[i].new
    /\ cons' = [cons EXCEPT ![i].started = TRUE]
    /\ consPc' = [consPc EXCEPT !.at = "clear", !.diff = 0]
    /\ booted' = [booted EXCEPT ![i] = FALSE]
    /\ UNCHANGED <<allOper, alarms, silence, lastMsg>>

\* A new message that is a heartbeat restarts the timer.
ConsumeMessage(i) ==
    /\ HbAt("message") /\ consPc.entry = i /\ cons[i].time # 0 /\ cons[i].new
    /\ LET heartbeat == cons[i].state # "bootup"
       IN  /\ cons' = IF heartbeat THEN [cons EXCEPT ![i].started = TRUE, ![i].timer = 0] ELSE cons
           /\ consPc' = IF heartbeat THEN [consPc EXCEPT !.at = "clear", !.diff = 0]
                        ELSE [consPc EXCEPT !.at = "clear"]
           /\ booted' = IF heartbeat THEN [booted EXCEPT ![i] = FALSE] ELSE booted
    /\ UNCHANGED <<allOper, alarms, silence, lastMsg>>

ConsumeClear(i) ==
    /\ HbAt("clear") /\ consPc.entry = i
    /\ cons' = [cons EXCEPT ![i].new = FALSE]
    /\ consPc' = [consPc EXCEPT !.at = "timeout"]
    /\ UNCHANGED <<allOper, alarms, silence, booted, lastMsg>>

NoMessage(i) ==
    /\ HbAt("message") /\ consPc.entry = i
    /\ ~(cons[i].time # 0 /\ cons[i].new)
    /\ consPc' = IF cons[i].time = 0 THEN After(consPc, i) ELSE [consPc EXCEPT !.at = "timeout"]
    /\ UNCHANGED <<cons, allOper, alarms, silence, booted, lastMsg>>

\* The timer runs up to the node's time.
Counted(i) == IF cons[i].timer < cons[i].time THEN cons[i].timer + consPc.diff ELSE cons[i].timer

\* Mutant of ConsumeTimeout: a node is reported once, when its time runs out.
ConsumeOnce(i) ==
    /\ HbAt("timeout") /\ consPc.entry = i
    /\ cons' = [cons EXCEPT ![i].timer = Counted(i)]
    /\ IF cons[i].started /\ Counted(i) >= cons[i].time /\ cons[i].timer < cons[i].time
       THEN consPc' = [consPc EXCEPT !.at = "late"] /\ alarms' = alarms \cup {<<i, "late">>}
       ELSE consPc' = [consPc EXCEPT !.at = "state"] /\ UNCHANGED alarms
    /\ UNCHANGED <<allOper, silence, booted, lastMsg>>

ConsumeTimeout(i) ==
    /\ HbAt("timeout") /\ consPc.entry = i
    /\ cons' = [cons EXCEPT ![i].timer = Counted(i)]
    /\ IF cons[i].started /\ Counted(i) >= cons[i].time
       THEN consPc' = [consPc EXCEPT !.at = "late"] /\ alarms' = alarms \cup {<<i, "late">>}
       ELSE /\ consPc' = [consPc EXCEPT !.at = "state"]
            /\ alarms' = IF cons[i].started /\ cons[i].state = "bootup"
                         THEN alarms \cup {<<i, "reset">>} ELSE alarms
    /\ UNCHANGED <<allOper, silence, booted, lastMsg>>

\* After the report, the state is that of a boot-up message.
ConsumeLate(i) ==
    /\ HbAt("late") /\ consPc.entry = i
    /\ cons' = [cons EXCEPT ![i].state = "bootup"]
    /\ booted' = [booted EXCEPT ![i] = TRUE]
    /\ consPc' = [consPc EXCEPT !.at = "state"]
    /\ UNCHANGED <<allOper, alarms, silence, lastMsg>>

ConsumeState(i) ==
    /\ HbAt("state") /\ consPc.entry = i
    /\ consPc' = After([consPc EXCEPT !.all = @ /\ cons[i].state = "operational"], i)
    /\ UNCHANGED <<cons, allOper, alarms, silence, booted, lastMsg>>

HbEnds ==
    /\ HbAt("end")
    /\ allOper' = consPc.all
    /\ consPc' = HbIdle
    /\ UNCHANGED <<cons, alarms, silence, booted, lastMsg>>

\* CO_ODF_1016: a client writes an entry; main serves SDOs between two calls.
ODF_1016(i, time) ==
    /\ HbAt("idle")
    /\ cons' = [cons EXCEPT ![i] = Configured(cons[i], time)]
    /\ UNCHANGED <<allOper, consPc, alarms, silence, booted, lastMsg>>

HbNext ==
    \/ HbBegins \/ ConsumeNothing \/ HbEnds
    \/ \E i \in HbEntries :
         \/ ConsumeMessage(i) \/ ConsumeClear(i) \/ NoMessage(i) \/ ConsumeTimeout(i)
         \/ ConsumeLate(i) \/ ConsumeState(i)
         \/ \E time \in {0, HbConsTime} : ODF_1016(i, time)
         \/ \E m \in HbMessages : HBcons_receive(i, m)

HbSpec == HbInit /\ [][HbNext]_hbVars

-----------------------------------------------------------------------------
\* The timer never runs further than one call beyond its time.
HbTypeOK ==
    /\ cons \in [HbEntries -> [time : {0, HbConsTime}, state : HbMessages, new : BOOLEAN,
                               started : BOOLEAN, timer : 0 .. HbConsTime + HbMaxTick - 1]]
    /\ allOper \in BOOLEAN /\ consPc.entry \in HbEntries /\ consPc.diff \in HbTicks \cup {0}
    /\ alarms \subseteq HbEntries \X {"late", "reset"}
    /\ silence \in [HbEntries -> 0 .. HbCap]

\* Between two calls, a node whose monitoring has started and whose last message
\* has been consumed is either still in time or was reported by the last call.
Watched(i) ==
    HbAt("idle") /\ cons[i].started /\ ~cons[i].new /\ silence[i] >= HbConsTime + HbMaxTick
      => <<i, "late">> \in alarms

\* The first monitored node is never late without a report, whatever the other
\* nodes send and whenever its messages come.
FirstNodeIsWatched == Watched(1)

\* "If any monitored node don't send his Heartbeat in specified time, Heartbeat
\* consumer sends emergency message": every node is watched like the first.
EveryNodeIsWatched == \A i \in HbEntries : Watched(i)

\* A node is reported late only when it has been silent for its time, unless its
\* heartbeat came when the consumer was already past it or was hidden by a
\* boot-up message: never because of another node's messages or of a
\* configuration that leaves the old timer running.
NoFalseAlarm ==
    [][\A i \in HbEntries :
         (<<i, "late">> \in alarms' \ alarms) => silence[i] >= cons[i].time \/ cons[i].new \/ booted[i]]_hbVars

\* allMonitoredOperational is true only when every node whose monitoring runs was
\* "operational" in its last message or has a message still to be consumed, and
\* the first, whose silence is noticed, has sent it in time.
AllOperationalIsTrue ==
    HbAt("idle") /\ allOper =>
        /\ \A i \in HbEntries :
             cons[i].started => cons[i].new \/ lastMsg[i] = "operational"
        /\ cons[1].started /\ ~cons[1].new => silence[1] < HbConsTime + HbMaxTick

\* The first node's silence is noticed, by a report and by what the rest of the
\* stack is told of all the nodes.
ConsumerSeesSilence == FirstNodeIsWatched /\ AllOperationalIsTrue
=============================================================================
