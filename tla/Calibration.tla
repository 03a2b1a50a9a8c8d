----------------------------- MODULE Calibration -----------------------------
(***************************************************************************)
(* The calibration of one bar by the player's computer: start_calibration, *)
(* which lets Telemecanique::Calibrate find the ends of the bar's way, and *)
(* then Faulhaber::Calibrate turn it upright.  Both are lists of requests  *)
(* to a motor; RequestSdo sends one and takes whatever answer comes next,  *)
(* looking neither at its index nor at its command, and sends the request  *)
(* again after many vain looks.  Every motor has a CAN handle of its own   *)
(* with its queue of answers, in which those to the safety controller's    *)
(* requests arrive as well.  Answers are the numbers                       *)
(* ExtractDataFromMessage makes of them; the answer to a write gives 0.    *)
(***************************************************************************)
EXTENDS Integers, Sequences

CONSTANTS Left, Right, \* the ends of the bar's way, as the motor counts at first
          BarStep,     \* TELEMECANIQUE_STEP_WIDTH
          GoBack,      \* TELEMECANIQUE_GO_BACK_DISTANCE
          MinBuffer, MaxBuffer, \* 1850 and 1000
          LoadReads,   \* TELEMECANIQUE_REQUIRED_CYCLES_FOR_MOTOR_LOAD
          Repeats,     \* how often a request is repeated although it is not lost
          Losses       \* how often a motor does not hear a request

ASSUME CalibrationAssumption ==
    /\ Left \in Nat \ {0} /\ Right \in Nat /\ BarStep \in Nat \ {0}
    /\ Left < Right /\ GoBack \in 1 .. Right - Left
    /\ MinBuffer \in Nat \ {0} /\ MaxBuffer \in Nat \ {0} /\ MinBuffer + MaxBuffer < Right - Left
    /\ LoadReads \in Nat /\ Repeats \in Nat /\ Losses \in Nat

VARIABLES motorId,  \* "tm" while the Telemecanique is calibrated, then "fh", then "none"
          cal,      \* where Calibrate is: instruction, whether its request has been sent,
                    \* loadCounter and the local variables
          drive,    \* the motor (external)
          requests, \* requests on their way to the motor
          answers,  \* the receive queue of the motor's handle
          faultsLeft, \* how many repeats and losses may still occur
          late      \* history: an answer that is not to the request waited for has been queued

calVars == <<motorId, cal, drive, requests, answers, faultsLeft, late>>

-----------------------------------------------------------------------------
(* Control and status words. *)

Bit(word, k) == (word \div 2 ^ k) % 2

\* Mutant of Cleared: the bit stays.
ClearedNothing(word) == word

\* word without the new-setpoint bit.
Cleared(word) == word - 16 * Bit(word, 4)

\* word with the new-setpoint bit, relative or absolute.
Applied(word, method) ==
    word - 16 * Bit(word, 4) - 32 * Bit(word, 5) - 64 * Bit(word, 6)
         + 16 + IF method = "Relative" THEN 64 ELSE 0

\* GetOperationState, as far as Calibrate waits for its results.
OperationState(word) ==
    LET bits == {k \in {0, 1, 2, 3, 6} : Bit(word, k) = 1}
    IN  CASE bits = {6} -> "SwitchOnDisabled"
          [] bits = {0} /\ Bit(word, 5) = 1 -> "Ready"
          [] bits = {0, 1} /\ Bit(word, 5) = 1 -> "OperationSwitchedOn"
          [] bits = {0, 1, 2} /\ Bit(word, 5) = 1 -> "OperationEnabled"
          [] OTHER -> "another"

PointToPoint == 1
Referencing == 6
FaulhaberMode == 255
Rpdo2Enabled == 768
SetDimensions == 35
LoadLimit == 2

-----------------------------------------------------------------------------
(* Calibrate, one instruction per request. *)

Instruction(do, obj, val) == [do |-> do, obj |-> obj, val |-> val]

Put(obj, val) == <<Instruction("put", obj, val)>>
Get(obj, into) == <<Instruction("get", obj, into)>>
\* while (Get...() != ...), with a number or with what Means makes of one.
Await(obj, val) == <<Instruction("await", obj, val)>>
AwaitState(obj, what) == <<Instruction("state", obj, what)>>
PutAwait(obj, val) == Put(obj, val) \o Await(obj, val)
\* A write of something calculated, see Calculated.
Calc(obj, what) == <<Instruction("calc", obj, what)>>

SetPositioningMethod(method) ==
    Get("control", "word")
      \o <<Instruction("clear", "control", 0),
           Instruction("apply", "control", method)>>

\* The loop that waits until the load has gone down, and the one that pushes
\* the bar on until it goes up.
Unload == <<Instruction("unload", "load", 0)>>
Push == SetPositioningMethod("Relative") \o <<Instruction("push", "load", 0)>>

Reached == AwaitState("status", "TargetReached")
Voltage(word, state) == Put("control", word) \o AwaitState("status", state)

\* The six writes of scale, acceleration and velocity are one.
TelemecaniqueCalibrate ==
    PutAwait("mode", Referencing)
      \o Put("rpdo2", Rpdo2Enabled) \o AwaitState("rpdo2", "Rpdo2Enabled")
      \o Voltage(0, "Ready")
      \o PutAwait("limitState", 0)
      \o Put("velocity", 8000)
      \o Voltage(15, "OperationEnabled")
      \o Get("position", "start")
      \o PutAwait("mode", PointToPoint)
      \o Unload
      \o Put("target", 0 - BarStep) \o Push \o Reached \o Get("position", "min")
      \o Calc("target", "back") \o SetPositioningMethod("Absolute")
      \o Unload
      \o Put("target", BarStep) \o Push \o Reached \o Get("position", "max")
      \o Calc("target", "rest") \o SetPositioningMethod("Absolute") \o Reached
      \o PutAwait("mode", Referencing)
      \o Put("dimension", 0)
      \o PutAwait("homing", SetDimensions)
      \o SetPositioningMethod("Absolute")
      \o Voltage(0, "Ready")
      \o Calc("minLimit", "minLimit") \o Calc("maxLimit", "maxLimit")
      \o Voltage(15, "OperationEnabled")
      \o PutAwait("limitState", 3)
      \o PutAwait("mode", PointToPoint)
      \o Calc("target", "middle") \o SetPositioningMethod("Absolute")

\* Scale numerator and feed constant are one; StartRemoteNode has no answer.
FaulhaberCalibrate ==
    Voltage(0, "SwitchOnDisabled") \o Voltage(6, "Ready")
      \o Voltage(7, "OperationSwitchedOn") \o Voltage(15, "OperationEnabled")
      \o PutAwait("mode", PointToPoint)
      \o PutAwait("scale", 360)
      \o Put("target", 360) \o SetPositioningMethod("Relative") \o Reached
      \o Put("target", 0) \o SetPositioningMethod("Absolute") \o Reached
      \o PutAwait("mode", FaulhaberMode)

Script(m) == IF m = "tm" THEN TelemecaniqueCalibrate ELSE FaulhaberCalibrate

Instr == Script(motorId)[cal.k]
Done == motorId # "none" /\ cal.k > Len(Script(motorId))

\* What is written, from the local variables.
Calculated(what) ==
    CASE what = "back" -> cal.min + GoBack
      [] what = "rest" -> cal.min + MinBuffer
      [] what = "minLimit" -> 0 - MinBuffer
      [] what = "maxLimit" -> cal.max - cal.min - MinBuffer
      [] what = "middle" -> (cal.max - cal.min - MinBuffer - MaxBuffer) \div 2

Request ==
    LET i == Instr
        Write(val) == [put |-> TRUE, obj |-> i.obj, val |-> val]
    IN  CASE i.do = "put" -> Write(i.val)
          [] i.do = "calc" -> Write(Calculated(i.val))
          [] i.do = "clear" -> Write(Cleared(cal.word))
          [] i.do = "apply" -> Write(Applied(cal.word, i.val))
          [] OTHER -> [put |-> FALSE, obj |-> i.obj, val |-> 0]

Means(answer, what) ==
    CASE what = "Rpdo2Enabled" -> answer - (answer % 128) = Rpdo2Enabled
      [] what = "TargetReached" -> Bit(answer, 10) = 1
      [] OTHER -> OperationState(answer) = what

-----------------------------------------------------------------------------
\* What the handle has queued when Calibrate starts: nothing, or an answer to
\* the safety controller.
OldAnswers == {<<>>, <<0>>}

CalStart == [k |-> 1, sent |-> FALSE, n |-> 0, start |-> 0, min |-> 0, max |-> 0, word |-> 0]

Telemecanique(pos, limitState) ==
    [word |-> 15, state |-> "enabled", becomes |-> "enabled", mode |-> 0, display |-> 0,
     rpdo2 |-> 0, limitState |-> limitState, minLimit |-> Left, maxLimit |-> Left,
     target |-> 0, pos |-> pos, goal |-> pos, load |-> 0, zero |-> 0, homing |-> 0, scale |-> 0]

Faulhaber(angle) ==
    [Telemecanique(angle, 0) EXCEPT !.word = 0, !.state = "disabled", !.becomes = "disabled"]

\* Without a CAN interface nothing is calibrated.
CalInit ==
    /\ motorId \in {"tm", "none"}
    /\ cal = CalStart
    /\ drive \in {Telemecanique(pos, l) : pos \in {Left, Right}, l \in {0, 3}}
    /\ requests = <<>> /\ answers \in OldAnswers
    /\ faultsLeft = [repeats |-> Repeats, losses |-> Losses]
    /\ late = (answers # <<>>)

-----------------------------------------------------------------------------
(* RequestSdo. *)

SendRequest ==
    /\ motorId # "none" /\ ~Done /\ ~cal.sent
    /\ requests' = Append(requests, Request)
    /\ cal' = [cal EXCEPT !.sent = TRUE]
    /\ UNCHANGED <<motorId, drive, answers, faultsLeft, late>>

\* After 10000 vain looks.
Resend ==
    /\ cal.sent /\ answers = <<>>
    /\ requests # <<>> => faultsLeft.repeats > 0
    /\ faultsLeft' = IF requests = <<>> THEN faultsLeft
                     ELSE [faultsLeft EXCEPT !.repeats = @ - 1]
    /\ requests' = Append(requests, Request)
    /\ late' = (late \/ requests # <<>>)
    /\ UNCHANGED <<motorId, cal, drive, answers>>

\* Calibrate goes on with the next instruction, or repeats some.
Then(k, locals) == cal' = [locals EXCEPT !.k = k, !.sent = FALSE]

\* Mutant of TakeWait: the result is taken for granted.
TakeAnything(answer) ==
    /\ Instr.do \in {"await", "state"}
    /\ Then(cal.k + 1, cal)

TakeWait(answer) ==
    /\ Instr.do \in {"await", "state"}
    /\ LET so == IF Instr.do = "await" THEN answer = Instr.val ELSE Means(answer, Instr.val)
       IN  Then(IF so THEN cal.k + 1 ELSE cal.k, cal)

TakeResult(answer) ==
    /\ Instr.do \notin {"await", "state", "unload", "push"}
    /\ Then(cal.k + 1, IF Instr.do = "get" THEN [cal EXCEPT ![Instr.val] = answer] ELSE cal)

\* Mutant of TakeUnload: whatever the load.
TakeUnloadAny(answer) ==
    /\ Instr.do = "unload"
    /\ IF cal.n < LoadReads THEN Then(cal.k, [cal EXCEPT !.n = @ + 1])
                             ELSE Then(cal.k + 1, [cal EXCEPT !.n = 0])

\* The low loads need not come one after the other.
TakeUnload(answer) ==
    /\ Instr.do = "unload"
    /\ LET n == IF answer < LoadLimit THEN cal.n + 1 ELSE cal.n
       IN  IF n <= LoadReads THEN Then(cal.k, [cal EXCEPT !.n = n])
                             ELSE Then(cal.k + 1, [cal EXCEPT !.n = 0])

\* SetPositioningMethod again while the load is low.
TakePush(answer) ==
    /\ Instr.do = "push"
    /\ Then(IF answer < LoadLimit THEN cal.k - 3 ELSE cal.k + 1, cal)

Take ==
    /\ cal.sent /\ answers # <<>>
    /\ LET answer == Head(answers)
       IN  TakeWait(answer) \/ TakeResult(answer) \/ TakeUnload(answer) \/ TakePush(answer)
    /\ answers' = Tail(answers)
    /\ UNCHANGED <<motorId, drive, requests, faultsLeft, late>>

\* start_calibration joins the Telemecaniques' threads before it starts the
\* Faulhabers', and those before it calls done_callback.
Join ==
    /\ Done
    /\ motorId' = IF motorId = "tm" THEN "fh" ELSE "none"
    /\ cal' = CalStart
    /\ IF motorId = "tm"
       THEN /\ drive' = Faulhaber(90)
            /\ requests' = <<>> /\ answers' \in OldAnswers
            /\ late' = (answers' # <<>>)
       ELSE UNCHANGED <<drive, requests, answers, late>>
    /\ UNCHANGED faultsLeft

-----------------------------------------------------------------------------
(* The motors (external). *)

StatusWord ==
    (CASE drive.state = "disabled" -> 64 [] drive.state = "ready" -> 33
       [] drive.state = "on" -> 35 [] drive.state = "enabled" -> 39)
      + IF drive.goal = drive.pos THEN 1024 ELSE 0

\* The drive state a control word leads to; a Telemecanique takes the steps
\* between ready and enabled by itself.
StateAfter(state, word) ==
    CASE word % 16 = 15 -> IF motorId = "tm" \/ state \in {"on", "enabled"} THEN "enabled"
                           ELSE state
      [] word % 16 = 7 -> IF motorId = "tm" \/ state # "disabled" THEN "on" ELSE state
      [] word % 16 = 6 -> "ready"
      [] OTHER -> IF motorId = "tm" THEN "ready" ELSE "disabled"

\* A new set point: where to, unless a position limit forbids it; or homing.
SetPoint(d, word) ==
    LET goal == IF Bit(word, 6) = 1 THEN d.pos + d.target ELSE d.zero + d.target
    IN  IF Bit(word, 4) = 0 \/ Bit(d.word, 4) = 1 \/ d.state # "enabled" THEN d
        ELSE IF d.display = Referencing
        THEN IF d.homing = SetDimensions THEN [d EXCEPT !.zero = d.pos] ELSE d
        ELSE IF d.limitState = 3 /\ goal - d.zero \notin d.minLimit .. d.maxLimit THEN d
        ELSE [d EXCEPT !.goal = goal]

\* Position limits are refused with an abort code while there is voltage.
Written(obj, val) ==
    CASE obj = "control" ->
           [SetPoint(drive, val) EXCEPT !.word = val,
                                        !.becomes = StateAfter(drive.becomes, val)]
      [] obj \in {"minLimit", "maxLimit"} ->
           IF drive.state = "ready" THEN [drive EXCEPT ![obj] = val] ELSE drive
      [] obj \in {"velocity", "dimension"} -> drive
      [] OTHER -> [drive EXCEPT ![obj] = val]

Value(obj) ==
    CASE obj = "control" -> drive.word
      [] obj = "status" -> StatusWord
      [] obj = "mode" -> drive.display
      [] obj = "position" -> drive.pos - drive.zero
      [] OTHER -> drive[obj]

Serve ==
    /\ requests # <<>>
    /\ LET r == Head(requests)
       IN  IF r.put THEN drive' = Written(r.obj, r.val) /\ answers' = Append(answers, 0)
                    ELSE answers' = Append(answers, Value(r.obj)) /\ UNCHANGED drive
    /\ requests' = Tail(requests)
    /\ UNCHANGED <<motorId, cal, faultsLeft, late>>

\* The motor does not hear: it has no voltage yet, or is NMT-stopped.
Lose ==
    /\ requests # <<>> /\ faultsLeft.losses > 0
    /\ requests' = Tail(requests)
    /\ faultsLeft' = [faultsLeft EXCEPT !.losses = @ - 1]
    /\ UNCHANGED <<motorId, cal, drive, answers, late>>

Changes(d) == drive' = d /\ drive' # drive /\ UNCHANGED <<motorId, cal, requests, answers, faultsLeft, late>>

StateChanges == Changes([drive EXCEPT !.state = drive.becomes])
ModeChanges == Changes([drive EXCEPT !.display = drive.mode])

\* The bar arrives, or it pushes against an end and the load goes up.
Arrive ==
    LET end == IF motorId # "tm" THEN drive.goal
               ELSE IF drive.goal < Left THEN Left ELSE IF drive.goal > Right THEN Right
               ELSE drive.goal
    IN  drive.goal # drive.pos
          /\ Changes([drive EXCEPT !.pos = end, !.goal = end,
                                   !.load = IF end = drive.goal THEN 0 ELSE 3])

Motor == Serve \/ StateChanges \/ ModeChanges \/ Arrive

CalNext == SendRequest \/ Resend \/ Take \/ Join \/ Motor \/ Lose

CalSpec == CalInit /\ [][CalNext]_calVars

\* The program runs, the motor serves and reaches what it was told; what is lost
\* is repeated.
CalFairness ==
    /\ WF_calVars(SendRequest) /\ WF_calVars(Take) /\ WF_calVars(Join)
    /\ WF_calVars(Resend /\ requests = <<>>)
    /\ WF_calVars(Serve) /\ WF_calVars(StateChanges) /\ WF_calVars(ModeChanges)
    /\ WF_calVars(Arrive)

CalFairSpec == CalSpec /\ CalFairness

-----------------------------------------------------------------------------
\* The loop counter and the local variables are numbers, and as long as every
\* answer is to the request waited for, at most one request is under way.
CalTypeOK ==
    /\ motorId \in {"tm", "fh", "none"}
    /\ cal.n \in 0 .. LoadReads
    /\ cal.sent \in BOOLEAN
    /\ ~late => Len(requests) + Len(answers) <= (IF cal.sent THEN 1 ELSE 0)

\* "Otherwise no position limits can be set": when a position limit reaches the
\* motor its voltage is off, also with answers that came late.
LimitsNeedNoVoltage ==
    [][motorId = "tm" /\ requests # <<>> /\ requests' = Tail(requests)
         /\ Head(requests).obj \in {"minLimit", "maxLimit"} => drive.state = "ready"]_calVars

\* When Telemecanique::Calibrate returns, and every answer was to the request
\* waited for, the position limits are the ends of the way, both active, and the
\* motor is in operation.
BarIsMeasured ==
    motorId = "tm" /\ Done /\ ~late =>
        /\ drive.zero + drive.minLimit = Left /\ drive.zero + drive.maxLimit = Right
        /\ drive.limitState = 3
        /\ drive.state = "enabled" /\ drive.display = PointToPoint

\* When Faulhaber::Calibrate returns the figures hang down and the motor obeys
\* the angles that come by PDO.
FiguresHang ==
    motorId = "fh" /\ Done /\ ~late => drive.pos = 0 /\ drive.display = FaulhaberMode

\* What a bar's two motors have when Calibrate has returned for each of them.
MotorsAreCalibrated == BarIsMeasured /\ FiguresHang

\* A calibration that has begun comes to its end, unless an answer comes late.
CalibrationEnds == cal.sent ~> (motorId = "none" \/ late)
=============================================================================
