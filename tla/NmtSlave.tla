------------------------------ MODULE NmtSlave ------------------------------
(***************************************************************************)
(* NMT slave and heartbeat producer: main calls CO_NMT_process, the CAN    *)
(* receive interrupt calls CO_NMT_receive between any two of main's steps. *)
(* CO_EM_process, which main calls before, turns the errors present into   *)
(* the error register both of them test.  Left out: the LEDs, the callback *)
(* (nobody registers one), timerNext_ms (main passes NULL).                *)
(***************************************************************************)
EXTENDS Naturals

CONSTANTS HbTimes,    \* producer heartbeat times a client may write to 0x1017
          HbFirst,    \* firstHBTime
          HbTimerMod, \* uint16_t: HBproducerTimer is modulo this
          NmtTicks,   \* milliseconds that may pass between two calls of CO_process
          NmtBehaviors, \* error behaviours a client may write to 0x1029
          NmtErrors,  \* the errors the rest of the stack reports and resets
          NmtCap      \* bound of the history clock

NmtStates == {"INITIALIZING", "PRE_OPERATIONAL", "OPERATIONAL", "STOPPED"}

\* Errors with an error behaviour: the consumer's are severe communication
\* errors; CAN passive has a behaviour of its own; one generic error.
SevereErrors == {"HEARTBEAT_CONSUMER", "HB_CONSUMER_REMOTE_RESET", "CAN_TX_BUS_OFF"}
CommErrors == SevereErrors \cup {"SYNC_LENGTH"}
PassiveErrors == {"CAN_TX_BUS_PASSIVE", "CAN_RX_BUS_PASSIVE"}
GenericErrors == {"ISR_TIMER_OVERFLOW"}

\* errorBehavior: 0 pre-operational, 1 no change, 2 stopped.
BehaviorIndices == {"severe", "communication", "passive", "generic"}

ASSUME NmtSlaveAssumption ==
    /\ HbFirst \in Nat /\ HbTimerMod \in Nat \ {0}
    /\ HbTimes \subseteq 0 .. HbTimerMod - 1 /\ HbTimes # {}
    /\ NmtTicks \subseteq Nat /\ \E t \in NmtTicks : \A u \in NmtTicks : u <= t
    /\ NmtCap \in Nat /\ HbTimerMod <= NmtCap
    /\ NmtBehaviors \subseteq [BehaviorIndices -> 0 .. 2] /\ NmtBehaviors # {}
    /\ NmtErrors \subseteq CommErrors \cup PassiveErrors \cup GenericErrors

VARIABLES coNmt,     \* CO_NMT_t: operatingState, HBproducerTimer, resetCommand
          nmtOd,   \* OD_producerHeartbeatTime, OD_errorBehavior
          nodeErr, \* errors present, and the error register made of them
          nmtMain, \* where main is in CO_process, timeDifference_ms, the state an
                   \* error behaviour leads to
          quiet,   \* history: ms since our last heartbeat
          unsaid   \* history: operational was left and no heartbeat has said so

nmtVars == <<coNmt, nmtOd, nodeErr, nmtMain, quiet, unsaid>>

NmtMaxTick == CHOOSE t \in NmtTicks : \A u \in NmtTicks : u <= t

\* CO_NMT_init.
NMT_init == [state |-> "INITIALIZING", timer |-> HbTimerMod - 1, reset |-> FALSE]
NmtIdle == [at |-> "idle", diff |-> 0, target |-> "OPERATIONAL"]

NmtInit ==
    /\ coNmt = NMT_init
    /\ nmtOd = [time |-> CHOOSE x \in HbTimes : TRUE, behavior |-> CHOOSE b \in NmtBehaviors : TRUE]
    /\ nodeErr = [present |-> {}, register |-> {}]
    /\ nmtMain = NmtIdle
    /\ quiet = 0
    /\ unsaid = FALSE

-----------------------------------------------------------------------------
\* Mutant of Allowed: the error register is not looked at.
AllowedAlways(command) == TRUE

\* ENTER_OPERATIONAL is ignored while the error register is not zero.
Allowed(command) == command = "OPERATIONAL" => nodeErr.register = {}

\* CO_NMT_receive, in the interrupt, with a command for this node.
NMT_receive(command) ==
    /\ coNmt' = IF command = "RESET_COMMUNICATION" THEN [coNmt EXCEPT !.reset = TRUE]
              ELSE IF Allowed(command) THEN [coNmt EXCEPT !.state = command] ELSE coNmt
    /\ unsaid' = (unsaid /\ (command \notin NmtStates \/ ~Allowed(command)))
    /\ UNCHANGED <<nmtOd, nodeErr, nmtMain, quiet>>

NmtAt(step) == nmtMain.at = step
NmtGoto(step) == nmtMain' = [nmtMain EXCEPT !.at = step]

\* CO_process, as far as CO_EM_process: the error register follows the errors.
NmtBegins ==
    /\ NmtAt("idle") /\ ~coNmt.reset
    /\ \E diff \in NmtTicks :
         /\ nmtMain' = [nmtMain EXCEPT !.at = "produce", !.diff = diff]
         /\ quiet' = IF quiet + diff > NmtCap THEN NmtCap ELSE quiet + diff
    /\ nodeErr' = [nodeErr EXCEPT !.register =
           {r \in {"communication", "generic"} :
               nodeErr.present \cap (IF r = "generic" THEN GenericErrors ELSE CommErrors) # {}}]
    /\ UNCHANGED <<coNmt, nmtOd, unsaid>>

\* Mutant of Produce: the timer is wider than the times compared with it.
ProduceWide ==
    /\ NmtAt("produce")
    /\ LET timer == coNmt.timer + nmtMain.diff
           due == nmtOd.time # 0 /\ timer >= nmtOd.time
       IN  IF due \/ coNmt.state = "INITIALIZING"
           THEN coNmt' = [coNmt EXCEPT !.timer = 0] /\ quiet' = 0 /\ unsaid' = FALSE
           ELSE coNmt' = [coNmt EXCEPT !.timer = timer] /\ UNCHANGED <<quiet, unsaid>>
    /\ NmtGoto("boot")
    /\ UNCHANGED <<nmtOd, nodeErr>>

\* Heartbeat or boot-up message; HBproducerTimer wraps around.
Produce ==
    /\ NmtAt("produce")
    /\ LET timer == (coNmt.timer + nmtMain.diff) % HbTimerMod
           due == nmtOd.time # 0 /\ timer >= nmtOd.time
       IN  IF due \/ coNmt.state = "INITIALIZING"
           THEN coNmt' = [coNmt EXCEPT !.timer = 0] /\ quiet' = 0 /\ unsaid' = FALSE
           ELSE coNmt' = [coNmt EXCEPT !.timer = timer] /\ UNCHANGED <<quiet, unsaid>>
    /\ NmtGoto("boot")
    /\ UNCHANGED <<nmtOd, nodeErr>>

\* After the boot-up message.  The state is read again: a command may have come.
BootTest ==
    /\ NmtAt("boot")
    /\ IF coNmt.state # "INITIALIZING" THEN NmtGoto("error") /\ UNCHANGED coNmt
       ELSE /\ NmtGoto("boots")
            /\ coNmt' = [coNmt EXCEPT !.timer =
                   IF nmtOd.time > HbFirst THEN nmtOd.time - HbFirst ELSE 0]
    /\ UNCHANGED <<nmtOd, nodeErr, quiet, unsaid>>

\* An NMTstartup of zero starts the node, whatever command has come since the test.
Boot ==
    /\ NmtAt("boots")
    /\ coNmt' = [coNmt EXCEPT !.state = "OPERATIONAL"]
    /\ NmtGoto("error")
    /\ UNCHANGED <<nmtOd, nodeErr, quiet, unsaid>>

\* The state an error behaviour asks for; 1 leaves it as it is.
Wanted(behavior, otherwise) ==
    CASE behavior = 0 -> "PRE_OPERATIONAL" [] behavior = 2 -> "STOPPED" [] OTHER -> otherwise

\* Where the errors take an operational node.
ErrorTarget ==
    LET b == nmtOd.behavior
        passive == PassiveErrors \cap nodeErr.present # {} /\ b["passive"] # 1
        comm == Wanted(b["communication"],
                       IF SevereErrors \cap nodeErr.present # {}
                       THEN Wanted(b["severe"], "OPERATIONAL") ELSE "OPERATIONAL")
        afterComm == IF passive \/ "communication" \in nodeErr.register
                     THEN comm ELSE "OPERATIONAL"
    IN  IF "generic" \in nodeErr.register THEN Wanted(b["generic"], afterComm) ELSE afterComm

ErrorBehavior ==
    /\ NmtAt("error")
    /\ IF coNmt.state = "OPERATIONAL" /\ ErrorTarget # "OPERATIONAL"
       THEN nmtMain' = [nmtMain EXCEPT !.at = "degrade", !.target = ErrorTarget]
       ELSE NmtGoto("tested")
    /\ UNCHANGED <<coNmt, nmtOd, nodeErr, quiet, unsaid>>

\* Mutant of Degrade: the next heartbeat comes when it is due.
DegradeQuietly ==
    /\ NmtAt("degrade")
    /\ coNmt' = [coNmt EXCEPT !.state = nmtMain.target]
    /\ unsaid' = TRUE
    /\ NmtGoto("tested")
    /\ UNCHANGED <<nmtOd, nodeErr, quiet>>

\* Operational is left, and the timer set so that a heartbeat is sent at once.
Degrade ==
    /\ NmtAt("degrade")
    /\ coNmt' = [coNmt EXCEPT !.state = nmtMain.target, !.timer = nmtOd.time]
    /\ unsaid' = TRUE
    /\ NmtGoto("tested")
    /\ UNCHANGED <<nmtOd, nodeErr, quiet>>

NmtReturns ==
    /\ NmtAt("tested")
    /\ nmtMain' = NmtIdle
    /\ UNCHANGED <<coNmt, nmtOd, nodeErr, quiet, unsaid>>

-----------------------------------------------------------------------------
\* RESET_COMMUNICATION ends main's loop, and everything is initialised again.
\* The objects written by clients keep their values.
NmtCommunicationReset ==
    /\ NmtAt("idle") /\ coNmt.reset
    /\ coNmt' = NMT_init
    /\ nodeErr' = [present |-> {}, register |-> {}]
    /\ quiet' = 0
    /\ unsaid' = FALSE
    /\ UNCHANGED <<nmtOd, nmtMain>>

\* A client writes 0x1017 or 0x1029, which have no function of their own.
WriteNmtObject ==
    /\ NmtAt("idle")
    /\ \E t \in HbTimes, b \in NmtBehaviors :
         /\ nmtOd' = [time |-> t, behavior |-> b]
         /\ unsaid' = (unsaid /\ t = nmtOd.time)
         /\ quiet' = IF t = nmtOd.time THEN quiet ELSE 0
    /\ UNCHANGED <<coNmt, nodeErr, nmtMain>>

\* External: the rest of the stack reports and resets errors, in main's calls
\* and in the timer interrupt.
NodeError(e) ==
    /\ nodeErr' = [nodeErr EXCEPT !.present = IF e \in @ THEN @ \ {e} ELSE @ \cup {e}]
    /\ UNCHANGED <<coNmt, nmtOd, nmtMain, quiet, unsaid>>

NmtNext ==
    \/ NmtBegins \/ Produce \/ BootTest \/ Boot \/ ErrorBehavior \/ Degrade \/ NmtReturns
    \/ NmtCommunicationReset \/ WriteNmtObject
    \/ \E e \in NmtErrors : NodeError(e)
    \/ \E c \in (NmtStates \ {"INITIALIZING"}) \cup {"RESET_COMMUNICATION"} : NMT_receive(c)

NmtSpec == NmtInit /\ [][NmtNext]_nmtVars

-----------------------------------------------------------------------------
\* CO_NMT_t, the objects and the error register have their shape.
NmtTypeOK ==
    /\ coNmt \in [state : NmtStates, timer : 0 .. HbTimerMod - 1, reset : BOOLEAN]
    /\ nmtOd \in [time : HbTimes, behavior : NmtBehaviors]
    /\ nodeErr.present \subseteq NmtErrors /\ nodeErr.register \subseteq {"communication", "generic"}
    /\ quiet \in 0 .. NmtCap /\ unsaid \in BOOLEAN

\* When main has tested the error register, the node is not operational with
\* errors whose behaviour says that it leaves that state: neither an NMT command
\* that came in between nor the boot-up has brought it back.
ErrorLeavesOperational ==
    NmtAt("tested") /\ (\E r \in nodeErr.register : nmtOd.behavior[r] # 1)
      => coNmt.state # "OPERATIONAL"

\* The producer time leaves room for one call before the 16-bit timer wraps.
TimeFits == nmtOd.time \in 1 .. HbTimerMod - 1 - NmtMaxTick

\* "if operational state is lost, send HB immediately": the next call of
\* CO_NMT_process does, unless a client wrote 0x1017 or a master gave a
\* command in between, or the time is so long that one call wraps the timer.
LossIsTold == NmtAt("boot") /\ TimeFits => ~unsaid

\* Such a time is kept: when CO_NMT_process has run, the last heartbeat (or
\* initialisation, or write of 0x1017) is less than that time and one call ago.
\* The call is what a timer that ran freely while the time was 0 loses when it
\* wraps.  With a longer time, the timer that the loss of the operational state
\* sets to that time can wrap at the next call instead of being due.
HeartbeatInTime == NmtAt("boot") /\ TimeFits => quiet < nmtOd.time + NmtMaxTick

\* Whoever listens to our heartbeats hears them in time, and at once when the
\* operational state is lost.
HeartbeatTells == LossIsTold /\ HeartbeatInTime
=============================================================================
