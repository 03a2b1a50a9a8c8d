----------------------------- MODULE NodeProofs -----------------------------
(***************************************************************************)
(* Proofs about three parts of the safety controller's CANopen stack, each *)
(* for all values of its constants: the NMT slave and heartbeat producer,  *)
(* the heartbeat consumer, and a transmit PDO.  For each, an inductive     *)
(* invariant that ties the code's timers and flags to the history the      *)
(* properties speak of, one lemma per step, and the theorems.  At the end, *)
(* what holds of the parts holds of the node they run in.                  *)
(***************************************************************************)
EXTENDS MCNode, TLAPS

-----------------------------------------------------------------------------
NmtSteps == {"idle", "produce", "boot", "boots", "error", "degrade", "tested"}

\* The types, with those of main's position.
NmtShape ==
    /\ NmtTypeOK
    /\ nodeErr \in [present : SUBSET NmtErrors, register : SUBSET {"communication", "generic"}]
    /\ nmtMain \in [at : NmtSteps, diff : NmtTicks \cup {0}, target : NmtStates]

\* What CO_NMT_process is about to add to the timer.
Added == IF nmtMain.at = "produce" THEN nmtMain.diff ELSE 0

\* An error behaviour that is about to act leads out of the operational state.
TargetLeaves == nmtMain.at = "degrade" => nmtMain.target # "OPERATIONAL"

\* Loss that has not been told waits for the next call with the timer at its time.
UnsaidIsDue ==
    unsaid /\ TimeFits => coNmt.timer = nmtOd.time /\ nmtMain.at \in {"tested", "idle", "produce"}

\* Silence is at most a call ahead of the timer, and a timer beyond its time is
\* one that was never compared with it: then the silence has just begun.
QuietIsTimed ==
    /\ TimeFits => /\ quiet <= coNmt.timer + Added + NmtMaxTick
                   /\ coNmt.timer <= nmtOd.time \/ quiet <= Added
    /\ nmtMain.at = "boot" /\ coNmt.state = "INITIALIZING" => quiet = 0

NmtInv ==
    NmtShape /\ TargetLeaves /\ ErrorLeavesOperational /\ UnsaidIsDue /\ QuietIsTimed /\ HeartbeatInTime

\* The longest time between two calls of CO_NMT_process is one of those times.
LEMMA NmtMaxTickIs == NmtMaxTick \in NmtTicks /\ \A t \in NmtTicks : t <= NmtMaxTick
<1>1. PICK t \in NmtTicks : \A u \in NmtTicks : u <= t  BY NmtSlaveAssumption
<1> QED  BY <1>1 DEF NmtMaxTick

\* What the assumption says of the constants, as numbers.
LEMMA NmtNumbers ==
    /\ HbFirst \in Nat /\ HbTimerMod \in Nat \ {0} /\ NmtCap \in Nat /\ NmtMaxTick \in Nat
    /\ \A t \in NmtTicks : t \in Nat /\ t <= NmtMaxTick
    /\ \A t \in HbTimes : t \in Nat /\ t < HbTimerMod
BY NmtSlaveAssumption, NmtMaxTickIs

\* The types, field by field.
LEMMA NmtFields ==
    ASSUME NmtShape
    PROVE  /\ coNmt.state \in NmtStates /\ coNmt.reset \in BOOLEAN
           /\ coNmt.timer \in Nat /\ coNmt.timer < HbTimerMod
           /\ nmtOd.time \in Nat /\ nmtOd.time < HbTimerMod
           /\ nmtOd.behavior \in [BehaviorIndices -> 0 .. 2]
           /\ nmtMain.at \in NmtSteps /\ nmtMain.target \in NmtStates
           /\ nmtMain.diff \in Nat /\ nmtMain.diff <= NmtMaxTick
           /\ Added \in Nat /\ Added <= NmtMaxTick
           /\ nodeErr.register \subseteq {"communication", "generic"}
           /\ quiet \in Nat /\ quiet <= NmtCap /\ unsaid \in BOOLEAN
<1> USE NmtNumbers
<1>1. coNmt \in [state : NmtStates, timer : 0 .. HbTimerMod - 1, reset : BOOLEAN]
  BY DEF NmtShape, NmtTypeOK
<1>2. nmtOd \in [time : HbTimes, behavior : NmtBehaviors]  BY DEF NmtShape, NmtTypeOK
<1>3. nmtOd.behavior \in [BehaviorIndices -> 0 .. 2]  BY <1>2, NmtSlaveAssumption
<1>4. nmtMain \in [at : NmtSteps, diff : NmtTicks \cup {0}, target : NmtStates]  BY DEF NmtShape
<1>5. nmtMain.diff \in Nat /\ nmtMain.diff <= NmtMaxTick
  <2>1. CASE nmtMain.diff \in NmtTicks  BY <2>1
  <2>2. CASE nmtMain.diff = 0  BY <2>2
  <2> QED  BY <1>4, <2>1, <2>2
<1>6. Added \in Nat /\ Added <= NmtMaxTick  BY <1>5 DEF Added
<1>7. nodeErr.register \subseteq {"communication", "generic"} /\ unsaid \in BOOLEAN /\ quiet \in 0 .. NmtCap
  BY DEF NmtShape, NmtTypeOK
<1> QED  BY <1>1, <1>2, <1>3, <1>4, <1>5, <1>6, <1>7

\* Errors that leave the operational state as it is have a behaviour of 1.
LEMMA TargetHeedsErrors ==
    ASSUME NmtShape, ErrorTarget = "OPERATIONAL", NEW r \in nodeErr.register
    PROVE  nmtOd.behavior[r] = 1
<1>1. nmtOd.behavior \in [BehaviorIndices -> 0 .. 2] /\ r \in {"communication", "generic"}
  BY NmtFields
<1>2. nmtOd.behavior["communication"] \in 0 .. 2 /\ nmtOd.behavior["generic"] \in 0 .. 2
  BY <1>1 DEF BehaviorIndices
<1> QED  BY <1>1, <1>2 DEF ErrorTarget, Wanted

\* What an error behaviour changes to is an operating state.
LEMMA TargetIsState == ErrorTarget \in NmtStates
BY DEF ErrorTarget, Wanted, NmtStates

\* CO_NMT_init, with the first heartbeat due when it has been configured.
LEMMA NmtInitInv == NmtInit => NmtInv
<1> SUFFICES ASSUME NmtInit PROVE NmtInv  OBVIOUS
<1> USE NmtNumbers DEF NmtInit, NmtIdle, NMT_init
<1>1. nmtOd.time \in HbTimes /\ nmtOd.behavior \in NmtBehaviors  BY NmtSlaveAssumption
<1>2. coNmt \in [state : NmtStates, timer : 0 .. HbTimerMod - 1, reset : BOOLEAN]  BY DEF NmtStates
<1>3. NmtTypeOK
  <2>1. nmtOd \in [time : HbTimes, behavior : NmtBehaviors]  BY <1>1
  <2>2. /\ nodeErr.present \subseteq NmtErrors
        /\ nodeErr.register \subseteq {"communication", "generic"}
    OBVIOUS
  <2>3. quiet \in 0 .. NmtCap  OBVIOUS
  <2>4. unsaid \in BOOLEAN  OBVIOUS
  <2> HIDE DEF NmtInit
  <2> QED  BY <1>2, <2>1, <2>2, <2>3, <2>4 DEF NmtTypeOK
<1>4. NmtShape  BY <1>3 DEF NmtShape, NmtSteps, NmtStates
<1>5. coNmt.timer = HbTimerMod - 1 /\ quiet = 0 /\ ~unsaid /\ nmtMain.at = "idle"  OBVIOUS
<1>6. UnsaidIsDue /\ QuietIsTimed
  BY <1>4, <1>5, NmtFields DEF UnsaidIsDue, QuietIsTimed, Added
<1> QED  BY <1>4, <1>5, <1>6 DEF NmtInv, TargetLeaves, ErrorLeavesOperational, HeartbeatInTime, NmtAt

\* CO_NMT_process is called with the time since the last call.
LEMMA NmtBegin ==
    ASSUME NmtInv, NmtBegins
    PROVE  NmtInv'
<1> USE NmtNumbers
<1>1. NmtShape  BY DEF NmtInv
<1>2. /\ coNmt' = coNmt
      /\ coNmt' \in [state : NmtStates, timer : 0 .. HbTimerMod - 1, reset : BOOLEAN]
  BY <1>1, NmtFields DEF NmtShape, NmtTypeOK, NmtStates, NMT_init, NmtAt, NmtBegins
<1>3. /\ nmtMain.at = "idle" /\ nmtMain'.at = "produce"
      /\ nmtMain'.diff \in Nat
      /\ nmtMain' \in [at : NmtSteps, diff : NmtTicks \cup {0}, target : NmtStates]
  BY <1>1, NmtFields DEF NmtShape, NmtSteps, NmtStates, NmtIdle, NmtAt, NmtGoto, NmtBegins
<1>4. /\ nmtOd' = nmtOd /\ unsaid' = unsaid
      /\ quiet' \in 0 .. NmtCap /\ quiet' <= quiet + nmtMain'.diff
      /\ nodeErr' \in [present : SUBSET NmtErrors, register : SUBSET {"communication", "generic"}]
  <2>1. nodeErr' = [nodeErr EXCEPT !.register =
             {r \in {"communication", "generic"} :
                nodeErr.present \cap (IF r = "generic" THEN GenericErrors ELSE CommErrors) # {}}]
    BY DEF NmtBegins
  <2>2. nodeErr' \in [present : SUBSET NmtErrors, register : SUBSET {"communication", "generic"}]
    BY <1>1, <2>1 DEF NmtShape
  <2>3. quiet' \in 0 .. NmtCap /\ quiet' <= quiet + nmtMain'.diff
    BY <1>1, NmtFields DEF NmtBegins, NmtShape
  <2> QED  BY <2>2, <2>3 DEF NmtBegins
<1>5. NmtShape'
  BY <1>1, <1>2, <1>3, <1>4, NmtFields DEF NmtShape, NmtTypeOK
<1>6. TargetLeaves'
  BY <1>1, <1>2, <1>3, <1>4, NmtFields DEF NmtInv, TargetLeaves
<1>7. ErrorLeavesOperational'
  BY <1>1, <1>2, <1>3, <1>4, NmtFields DEF NmtInv, ErrorLeavesOperational, NmtAt
<1>8. UnsaidIsDue'
  BY <1>1, <1>2, <1>3, <1>4, NmtFields DEF NmtInv, UnsaidIsDue, TimeFits
<1>9. QuietIsTimed'
  BY <1>1, <1>2, <1>3, <1>4, NmtFields DEF NmtInv, QuietIsTimed, TimeFits, Added
<1>10. HeartbeatInTime'
  BY <1>1, <1>2, <1>3, <1>4, NmtFields DEF NmtInv, HeartbeatInTime, TimeFits, NmtAt, QuietIsTimed, Added
<1> QED  BY <1>5, <1>6, <1>7, <1>8, <1>9, <1>10 DEF NmtInv

\* The heartbeat timer counts; when it has reached its time a heartbeat is sent.
LEMMA NmtProduce ==
    ASSUME NmtInv, Produce
    PROVE  NmtInv'
<1> USE NmtNumbers
<1>1. NmtShape  BY DEF NmtInv
<1>2. /\ coNmt'.state = coNmt.state /\ coNmt'.timer \in Nat
      /\ \/ coNmt'.timer = 0 /\ quiet' = 0 /\ ~unsaid'
         \/ /\ coNmt.state # "INITIALIZING" /\ quiet' = quiet /\ unsaid' = unsaid
            /\ coNmt'.timer = (coNmt.timer + nmtMain.diff) % HbTimerMod
            /\ nmtOd.time # 0 => coNmt'.timer < nmtOd.time
      /\ coNmt' \in [state : NmtStates, timer : 0 .. HbTimerMod - 1, reset : BOOLEAN]
  BY <1>1, NmtFields DEF NmtShape, NmtTypeOK, NmtStates, NMT_init, NmtAt, Produce
<1>3. /\ nmtMain.at = "produce" /\ nmtMain'.at = "boot"
      /\ nmtMain'.diff = nmtMain.diff /\ nmtMain'.target = nmtMain.target
      /\ nmtMain' \in [at : NmtSteps, diff : NmtTicks \cup {0}, target : NmtStates]
  BY <1>1, NmtFields DEF NmtShape, NmtSteps, NmtStates, NmtIdle, NmtAt, NmtGoto, Produce
<1>4. /\ nmtOd' = nmtOd /\ nodeErr' = nodeErr
      /\ quiet' \in 0 .. NmtCap /\ unsaid' \in BOOLEAN
  <2>1. quiet' \in {0, quiet} /\ unsaid' \in {FALSE, unsaid}  BY DEF Produce
  <2>2. 0 \in 0 .. NmtCap /\ quiet \in 0 .. NmtCap /\ unsaid \in BOOLEAN  BY <1>1, NmtFields
  <2> QED  BY <2>1, <2>2 DEF Produce
<1>5. NmtShape'
  BY <1>1, <1>2, <1>3, <1>4, NmtFields DEF NmtShape, NmtTypeOK
<1>6. TargetLeaves'
  BY <1>1, <1>2, <1>3, <1>4, NmtFields DEF NmtInv, TargetLeaves
<1>7. ErrorLeavesOperational'
  BY <1>1, <1>2, <1>3, <1>4, NmtFields DEF NmtInv, ErrorLeavesOperational, NmtAt
<1>8. UnsaidIsDue'
  <2>1. CASE coNmt'.timer = 0 /\ quiet' = 0 /\ ~unsaid'  BY <2>1 DEF UnsaidIsDue
  <2>2. CASE unsaid' = unsaid /\ coNmt'.timer = (coNmt.timer + nmtMain.diff) % HbTimerMod
    <3> SUFFICES ASSUME unsaid', TimeFits' PROVE FALSE  BY DEF UnsaidIsDue
    <3>1. TimeFits /\ coNmt.timer = nmtOd.time  BY <1>4, <2>2 DEF NmtInv, UnsaidIsDue, TimeFits
    <3>2. nmtOd.time + nmtMain.diff < HbTimerMod  BY <1>1, <3>1, NmtFields DEF TimeFits
    <3>3. coNmt'.timer = nmtOd.time + nmtMain.diff  BY <1>1, <2>2, <3>1, <3>2, NmtFields
    <3> QED  BY <1>1, <1>2, <3>1, <3>3, NmtFields DEF TimeFits
  <2> QED  BY <1>2, <2>1, <2>2
<1>9. QuietIsTimed'
  BY <1>1, <1>2, <1>3, <1>4, NmtFields DEF NmtInv, QuietIsTimed, TimeFits, Added
<1>10. HeartbeatInTime'
  BY <1>1, <1>2, <1>3, <1>4, NmtFields DEF NmtInv, HeartbeatInTime, TimeFits, NmtAt, QuietIsTimed, Added
<1> QED  BY <1>5, <1>6, <1>7, <1>8, <1>9, <1>10 DEF NmtInv

\* The boot-up message, after which the timer starts over.
LEMMA NmtBootTest ==
    ASSUME NmtInv, BootTest
    PROVE  NmtInv'
<1> USE NmtNumbers
<1>1. NmtShape  BY DEF NmtInv
<1>2. /\ coNmt'.state = coNmt.state
      /\ IF coNmt.state = "INITIALIZING"
         THEN nmtMain'.at = "boots" /\ (nmtOd.time # 0 => coNmt'.timer <= nmtOd.time)
         ELSE nmtMain'.at = "error" /\ coNmt' = coNmt
      /\ coNmt' \in [state : NmtStates, timer : 0 .. HbTimerMod - 1, reset : BOOLEAN]
  <2> USE <1>1, NmtFields DEF BootTest, NmtAt, NmtGoto, NmtStates
  <2>1. CASE coNmt.state # "INITIALIZING"  BY <2>1 DEF NmtShape, NmtTypeOK
  <2>2. CASE coNmt.state = "INITIALIZING"
    <3> DEFINE t == IF nmtOd.time > HbFirst THEN nmtOd.time - HbFirst ELSE 0
    <3>1. t \in 0 .. HbTimerMod - 1 /\ (nmtOd.time # 0 => t <= nmtOd.time)  OBVIOUS
    <3>2. coNmt' = [coNmt EXCEPT !.timer = t] /\ nmtMain' = [nmtMain EXCEPT !.at = "boots"]
      BY <2>2
    <3> HIDE DEF t
    <3> QED  BY <2>2, <3>1, <3>2 DEF NmtShape, NmtTypeOK
  <2> QED  BY <2>1, <2>2
<1>3. /\ nmtMain.at = "boot" /\ nmtMain'.at \in {"boots", "error"}
      /\ nmtMain'.diff = nmtMain.diff /\ nmtMain'.target = nmtMain.target
      /\ nmtMain' \in [at : NmtSteps, diff : NmtTicks \cup {0}, target : NmtStates]
  BY <1>1, NmtFields DEF NmtShape, NmtSteps, NmtStates, NmtAt, NmtGoto, BootTest
<1>4. /\ nmtOd' = nmtOd /\ nodeErr' = nodeErr /\ quiet' = quiet /\ unsaid' = unsaid
  BY DEF BootTest
<1>5. NmtShape'
  BY <1>1, <1>2, <1>3, <1>4, NmtFields DEF NmtShape, NmtTypeOK
<1>6. TargetLeaves'
  BY <1>1, <1>2, <1>3, <1>4, NmtFields DEF NmtInv, TargetLeaves
<1>7. ErrorLeavesOperational'
  BY <1>1, <1>2, <1>3, <1>4, NmtFields DEF NmtInv, ErrorLeavesOperational, NmtAt
<1>8. UnsaidIsDue'
  BY <1>1, <1>2, <1>3, <1>4, NmtFields DEF NmtInv, UnsaidIsDue, TimeFits
<1>9. QuietIsTimed'
  BY <1>1, <1>2, <1>3, <1>4, NmtFields DEF NmtInv, QuietIsTimed, TimeFits, Added
<1>10. HeartbeatInTime'
  BY <1>1, <1>2, <1>3, <1>4, NmtFields DEF NmtInv, HeartbeatInTime, TimeFits, NmtAt, QuietIsTimed, Added
<1> QED  BY <1>5, <1>6, <1>7, <1>8, <1>9, <1>10 DEF NmtInv

\* The node starts.
LEMMA NmtBoot ==
    ASSUME NmtInv, Boot
    PROVE  NmtInv'
<1> USE NmtNumbers
<1>1. NmtShape  BY DEF NmtInv
<1>2. /\ coNmt'.state = "OPERATIONAL" /\ coNmt'.timer = coNmt.timer
      /\ coNmt' \in [state : NmtStates, timer : 0 .. HbTimerMod - 1, reset : BOOLEAN]
  BY <1>1, NmtFields DEF NmtShape, NmtTypeOK, NmtStates, Boot
<1>3. /\ nmtMain.at = "boots" /\ nmtMain'.at = "error"
      /\ nmtMain'.diff = nmtMain.diff /\ nmtMain'.target = nmtMain.target
      /\ nmtMain' \in [at : NmtSteps, diff : NmtTicks \cup {0}, target : NmtStates]
  BY <1>1, NmtFields DEF NmtShape, NmtSteps, NmtStates, NmtAt, NmtGoto, Boot
<1>4. /\ nmtOd' = nmtOd /\ nodeErr' = nodeErr /\ quiet' = quiet /\ unsaid' = unsaid
  BY DEF Boot
<1>5. NmtShape'
  BY <1>1, <1>2, <1>3, <1>4, NmtFields DEF NmtShape, NmtTypeOK
<1>6. TargetLeaves'
  BY <1>1, <1>2, <1>3, <1>4, NmtFields DEF NmtInv, TargetLeaves
<1>7. ErrorLeavesOperational'
  BY <1>1, <1>2, <1>3, <1>4, NmtFields DEF NmtInv, ErrorLeavesOperational, NmtAt
<1>8. UnsaidIsDue'
  BY <1>1, <1>2, <1>3, <1>4, NmtFields DEF NmtInv, UnsaidIsDue, TimeFits
<1>9. QuietIsTimed'
  BY <1>1, <1>2, <1>3, <1>4, NmtFields DEF NmtInv, QuietIsTimed, TimeFits, Added
<1>10. HeartbeatInTime'
  BY <1>1, <1>2, <1>3, <1>4, NmtFields DEF NmtInv, HeartbeatInTime, TimeFits, NmtAt, QuietIsTimed, Added
<1> QED  BY <1>5, <1>6, <1>7, <1>8, <1>9, <1>10 DEF NmtInv

\* The error register is tested in the operational state.
LEMMA NmtErrorTest ==
    ASSUME NmtInv, ErrorBehavior
    PROVE  NmtInv'
<1> USE NmtNumbers
<1>1. NmtShape  BY DEF NmtInv
<1>2. /\ coNmt' = coNmt
      /\ coNmt' \in [state : NmtStates, timer : 0 .. HbTimerMod - 1, reset : BOOLEAN]
  BY <1>1, NmtFields DEF NmtShape, NmtTypeOK, NmtStates, NMT_init, NmtAt, ErrorBehavior
<1>3. /\ nmtMain.at = "error" /\ nmtMain'.at \in {"degrade", "tested"}
      /\ IF nmtMain'.at = "degrade" THEN nmtMain'.target # "OPERATIONAL" ELSE TRUE
      /\ nmtMain' \in [at : NmtSteps, diff : NmtTicks \cup {0}, target : NmtStates]
  <2> USE <1>1, NmtFields DEF ErrorBehavior, NmtAt, NmtSteps
  <2>1. CASE coNmt.state = "OPERATIONAL" /\ ErrorTarget # "OPERATIONAL"
    <3>1. nmtMain' = [nmtMain EXCEPT !.at = "degrade", !.target = ErrorTarget]  BY <2>1
    <3> HIDE DEF ErrorBehavior
    <3> QED  BY <2>1, <3>1, TargetIsState DEF NmtShape, ErrorBehavior
  <2>2. CASE ~(coNmt.state = "OPERATIONAL" /\ ErrorTarget # "OPERATIONAL")
    BY <2>2 DEF NmtShape, NmtGoto
  <2> QED  BY <2>1, <2>2
<1>4. /\ nmtOd' = nmtOd /\ nodeErr' = nodeErr /\ quiet' = quiet /\ unsaid' = unsaid
  BY <1>1, NmtFields DEF ErrorBehavior
<1>5. NmtShape'
  BY <1>1, <1>2, <1>3, <1>4, NmtFields DEF NmtShape, NmtTypeOK
<1>6. TargetLeaves'
  BY <1>1, <1>2, <1>3, <1>4, NmtFields DEF NmtInv, TargetLeaves
<1>7. ErrorLeavesOperational'
  <2>1. CASE coNmt.state = "OPERATIONAL" /\ ErrorTarget # "OPERATIONAL"
    BY <1>1, <2>1 DEF ErrorBehavior, NmtShape, ErrorLeavesOperational, NmtAt
  <2>2. CASE coNmt.state = "OPERATIONAL" /\ ErrorTarget = "OPERATIONAL"
    BY <1>1, <1>2, <1>4, <2>2, TargetHeedsErrors DEF ErrorLeavesOperational
  <2>3. CASE coNmt.state # "OPERATIONAL"  BY <1>2, <2>3 DEF ErrorLeavesOperational
  <2> QED  BY <2>1, <2>2, <2>3
<1>8. UnsaidIsDue'
  BY <1>1, <1>2, <1>3, <1>4, NmtFields DEF NmtInv, UnsaidIsDue, TimeFits
<1>9. QuietIsTimed'
  BY <1>1, <1>2, <1>3, <1>4, NmtFields DEF NmtInv, QuietIsTimed, TimeFits, Added
<1>10. HeartbeatInTime'
  BY <1>1, <1>2, <1>3, <1>4, NmtFields DEF NmtInv, HeartbeatInTime, TimeFits, NmtAt, QuietIsTimed, Added
<1> QED  BY <1>5, <1>6, <1>7, <1>8, <1>9, <1>10 DEF NmtInv

\* An error behaviour changes the state, and the timer makes the next call tell it.
LEMMA NmtDegrade ==
    ASSUME NmtInv, Degrade
    PROVE  NmtInv'
<1> USE NmtNumbers
<1>1. NmtShape  BY DEF NmtInv
<1>2. /\ coNmt'.state = nmtMain.target /\ coNmt'.timer = nmtOd.time
      /\ coNmt' \in [state : NmtStates, timer : 0 .. HbTimerMod - 1, reset : BOOLEAN]
  <2>1. coNmt' = [coNmt EXCEPT !.state = nmtMain.target, !.timer = nmtOd.time]  BY DEF Degrade
  <2>2. nmtMain.target \in NmtStates /\ nmtOd.time \in 0 .. HbTimerMod - 1  BY <1>1, NmtFields
  <2>3. coNmt \in [state : NmtStates, timer : 0 .. HbTimerMod - 1, reset : BOOLEAN]
    BY <1>1 DEF NmtShape, NmtTypeOK
  <2> QED  BY <2>1, <2>2, <2>3
<1>3. /\ nmtMain.at = "degrade" /\ nmtMain'.at = "tested"
      /\ nmtMain'.diff = nmtMain.diff /\ nmtMain'.target = nmtMain.target
      /\ nmtMain' \in [at : NmtSteps, diff : NmtTicks \cup {0}, target : NmtStates]
  BY <1>1, NmtFields DEF NmtShape, NmtSteps, NmtStates, NmtIdle, NmtAt, NmtGoto, Degrade
<1>4. /\ nmtOd' = nmtOd /\ nodeErr' = nodeErr /\ quiet' = quiet
      /\ unsaid' = TRUE
  BY <1>1, NmtFields DEF Degrade
<1>5. NmtShape'
  BY <1>1, <1>2, <1>3, <1>4, NmtFields DEF NmtShape, NmtTypeOK
<1>6. TargetLeaves'
  BY <1>1, <1>2, <1>3, <1>4, NmtFields DEF NmtInv, TargetLeaves
<1>7. ErrorLeavesOperational'
  BY <1>2, <1>3 DEF NmtInv, TargetLeaves, ErrorLeavesOperational
<1>8. UnsaidIsDue'
  BY <1>1, <1>2, <1>3, <1>4, NmtFields DEF NmtInv, UnsaidIsDue, TimeFits
<1>9. QuietIsTimed'
  BY <1>1, <1>2, <1>3, <1>4, NmtFields DEF NmtInv, QuietIsTimed, TimeFits, Added
<1>10. HeartbeatInTime'
  BY <1>1, <1>2, <1>3, <1>4, NmtFields DEF NmtInv, HeartbeatInTime, TimeFits, NmtAt, QuietIsTimed, Added
<1> QED  BY <1>5, <1>6, <1>7, <1>8, <1>9, <1>10 DEF NmtInv

\* The call returns.
LEMMA NmtReturn ==
    ASSUME NmtInv, NmtReturns
    PROVE  NmtInv'
<1> USE NmtNumbers
<1>1. NmtShape  BY DEF NmtInv
<1>2. /\ coNmt' = coNmt
      /\ coNmt' \in [state : NmtStates, timer : 0 .. HbTimerMod - 1, reset : BOOLEAN]
  BY <1>1, NmtFields DEF NmtShape, NmtTypeOK, NmtStates, NMT_init, NmtAt, NmtReturns
<1>3. /\ nmtMain.at = "tested" /\ nmtMain'.at = "idle"
      /\ nmtMain' \in [at : NmtSteps, diff : NmtTicks \cup {0}, target : NmtStates]
  BY <1>1, NmtFields DEF NmtShape, NmtSteps, NmtStates, NmtIdle, NmtAt, NmtGoto, NmtReturns
<1>4. /\ nmtOd' = nmtOd /\ nodeErr' = nodeErr /\ quiet' = quiet /\ unsaid' = unsaid
  BY <1>1, NmtFields DEF NmtReturns
<1>5. NmtShape'
  BY <1>1, <1>2, <1>3, <1>4, NmtFields DEF NmtShape, NmtTypeOK
<1>6. TargetLeaves'
  BY <1>1, <1>2, <1>3, <1>4, NmtFields DEF NmtInv, TargetLeaves
<1>7. ErrorLeavesOperational'
  BY <1>1, <1>2, <1>3, <1>4, NmtFields DEF NmtInv, ErrorLeavesOperational, NmtAt
<1>8. UnsaidIsDue'
  BY <1>1, <1>2, <1>3, <1>4, NmtFields DEF NmtInv, UnsaidIsDue, TimeFits
<1>9. QuietIsTimed'
  BY <1>1, <1>2, <1>3, <1>4, NmtFields DEF NmtInv, QuietIsTimed, TimeFits, Added
<1>10. HeartbeatInTime'
  BY <1>1, <1>2, <1>3, <1>4, NmtFields DEF NmtInv, HeartbeatInTime, TimeFits, NmtAt, QuietIsTimed, Added
<1> QED  BY <1>5, <1>6, <1>7, <1>8, <1>9, <1>10 DEF NmtInv

\* A communication reset initialises the slave again.
LEMMA NmtReset ==
    ASSUME NmtInv, NmtCommunicationReset
    PROVE  NmtInv'
<1> USE NmtNumbers
<1>1. NmtShape  BY DEF NmtInv
<1>2. /\ coNmt'.timer = HbTimerMod - 1
      /\ coNmt' \in [state : NmtStates, timer : 0 .. HbTimerMod - 1, reset : BOOLEAN]
  BY <1>1, NmtFields DEF NmtShape, NmtTypeOK, NmtStates, NMT_init, NmtAt, NmtCommunicationReset
<1>3. /\ nmtMain.at = "idle" /\ nmtMain' = nmtMain
      /\ nmtMain' \in [at : NmtSteps, diff : NmtTicks \cup {0}, target : NmtStates]
  BY <1>1, NmtFields DEF NmtShape, NmtSteps, NmtStates, NmtIdle, NmtAt, NmtGoto, NmtCommunicationReset
<1>4. /\ nmtOd' = nmtOd
      /\ quiet' = 0 /\ unsaid' = FALSE
      /\ nodeErr' \in [present : SUBSET NmtErrors, register : SUBSET {"communication", "generic"}]
  BY <1>1, NmtFields DEF NmtCommunicationReset
<1>5. NmtShape'
  <2>1. nmtOd' \in [time : HbTimes, behavior : NmtBehaviors]
    BY <1>1, <1>4 DEF NmtShape, NmtTypeOK
  <2>2. /\ nodeErr'.present \subseteq NmtErrors
        /\ nodeErr'.register \subseteq {"communication", "generic"}
    BY <1>4
  <2>3. quiet' \in 0 .. NmtCap  BY <1>4
  <2>4. unsaid' \in BOOLEAN  BY <1>4
  <2>5. NmtTypeOK'  BY <1>2, <2>1, <2>2, <2>3, <2>4 DEF NmtTypeOK
  <2> QED  BY <2>5, <1>3, <1>4 DEF NmtShape
<1>6. TargetLeaves'
  BY <1>1, <1>2, <1>3, <1>4, NmtFields DEF NmtInv, TargetLeaves
<1>7. ErrorLeavesOperational'
  BY <1>1, <1>2, <1>3, <1>4, NmtFields DEF NmtInv, ErrorLeavesOperational, NmtAt
<1>8. UnsaidIsDue'
  BY <1>1, <1>2, <1>3, <1>4, NmtFields DEF NmtInv, UnsaidIsDue, TimeFits
<1>9. QuietIsTimed'
  BY <1>1, <1>2, <1>3, <1>4, NmtFields DEF NmtInv, QuietIsTimed, TimeFits, Added
<1>10. HeartbeatInTime'
  BY <1>1, <1>2, <1>3, <1>4, NmtFields DEF NmtInv, HeartbeatInTime, TimeFits, NmtAt, QuietIsTimed, Added
<1> QED  BY <1>5, <1>6, <1>7, <1>8, <1>9, <1>10 DEF NmtInv

\* A client writes the producer time or an error behaviour.
LEMMA NmtWrite ==
    ASSUME NmtInv, WriteNmtObject
    PROVE  NmtInv'
<1> USE NmtNumbers
<1>1. NmtShape  BY DEF NmtInv
<1>2. /\ coNmt' = coNmt
      /\ coNmt' \in [state : NmtStates, timer : 0 .. HbTimerMod - 1, reset : BOOLEAN]
  BY <1>1, NmtFields DEF NmtShape, NmtTypeOK, NmtStates, NMT_init, NmtAt, WriteNmtObject
<1>3. /\ nmtMain.at = "idle" /\ nmtMain' = nmtMain
      /\ nmtMain' \in [at : NmtSteps, diff : NmtTicks \cup {0}, target : NmtStates]
  BY <1>1, NmtFields DEF NmtShape, NmtSteps, NmtStates, NmtIdle, NmtAt, NmtGoto, WriteNmtObject
<1>4. /\ nodeErr' = nodeErr
      /\ nmtOd' \in [time : HbTimes, behavior : NmtBehaviors]
      /\ nmtOd'.time = nmtOd.time => quiet' = quiet /\ unsaid' = unsaid
      /\ nmtOd'.time # nmtOd.time => quiet' = 0 /\ ~unsaid'
      /\ unsaid' \in BOOLEAN
  <2>1. PICK t \in HbTimes, b \in NmtBehaviors :
          /\ nmtOd' = [time |-> t, behavior |-> b]
          /\ unsaid' = (unsaid /\ t = nmtOd.time)
          /\ quiet' = IF t = nmtOd.time THEN quiet ELSE 0
    BY DEF WriteNmtObject
  <2>2. nmtOd'.time = t /\ unsaid \in BOOLEAN  BY <1>1, <2>1, NmtFields
  <2>3. nodeErr' = nodeErr  BY DEF WriteNmtObject
  <2> QED  BY <2>1, <2>2, <2>3
<1>5. NmtShape'
  BY <1>1, <1>2, <1>3, <1>4, NmtFields DEF NmtShape, NmtTypeOK
<1>6. TargetLeaves'
  BY <1>1, <1>2, <1>3, <1>4, NmtFields DEF NmtInv, TargetLeaves
<1>7. ErrorLeavesOperational'
  BY <1>1, <1>2, <1>3, <1>4, NmtFields DEF NmtInv, ErrorLeavesOperational, NmtAt
<1>8. UnsaidIsDue'
  BY <1>1, <1>2, <1>3, <1>4, NmtFields DEF NmtInv, UnsaidIsDue, TimeFits
<1>9. QuietIsTimed'
  BY <1>1, <1>2, <1>3, <1>4, NmtFields DEF NmtInv, QuietIsTimed, TimeFits, Added
<1>10. HeartbeatInTime'
  BY <1>1, <1>2, <1>3, <1>4, NmtFields DEF NmtInv, HeartbeatInTime, TimeFits, NmtAt, QuietIsTimed, Added
<1> QED  BY <1>5, <1>6, <1>7, <1>8, <1>9, <1>10 DEF NmtInv

\* An error is reported or its cause goes away, between any two steps.
LEMMA NmtErrorComes ==
    ASSUME NmtInv, NEW e \in NmtErrors, NodeError(e)
    PROVE  NmtInv'
<1> USE NmtNumbers
<1>1. NmtShape  BY DEF NmtInv
<1>2. /\ coNmt' = coNmt
      /\ coNmt' \in [state : NmtStates, timer : 0 .. HbTimerMod - 1, reset : BOOLEAN]
  BY <1>1, NmtFields DEF NmtShape, NmtTypeOK, NmtStates, NMT_init, NmtAt, NodeError
<1>3. /\ nmtMain' = nmtMain
      /\ nmtMain' \in [at : NmtSteps, diff : NmtTicks \cup {0}, target : NmtStates]
  BY <1>1, NmtFields DEF NmtShape, NmtSteps, NmtStates, NmtIdle, NmtAt, NmtGoto, NodeError
<1>4. /\ nmtOd' = nmtOd /\ quiet' = quiet /\ unsaid' = unsaid
      /\ nodeErr' \in [present : SUBSET NmtErrors, register : SUBSET {"communication", "generic"}]
      /\ nodeErr'.register = nodeErr.register
  <2> DEFINE now == IF e \in nodeErr.present THEN nodeErr.present \ {e} ELSE nodeErr.present \cup {e}
  <2>1. nodeErr' = [nodeErr EXCEPT !.present = now]  BY DEF NodeError
  <2>2. now \in SUBSET NmtErrors  BY <1>1 DEF NmtShape, NmtTypeOK
  <2> HIDE DEF now
  <2> QED  BY <1>1, <2>1, <2>2 DEF NmtShape, NodeError
<1>5. NmtShape'
  BY <1>1, <1>2, <1>3, <1>4, NmtFields DEF NmtShape, NmtTypeOK
<1>6. TargetLeaves'
  BY <1>1, <1>2, <1>3, <1>4, NmtFields DEF NmtInv, TargetLeaves
<1>7. ErrorLeavesOperational'
  BY <1>1, <1>2, <1>3, <1>4, NmtFields DEF NmtInv, ErrorLeavesOperational, NmtAt
<1>8. UnsaidIsDue'
  BY <1>1, <1>2, <1>3, <1>4, NmtFields DEF NmtInv, UnsaidIsDue, TimeFits
<1>9. QuietIsTimed'
  BY <1>1, <1>2, <1>3, <1>4, NmtFields DEF NmtInv, QuietIsTimed, TimeFits, Added
<1>10. HeartbeatInTime'
  BY <1>1, <1>2, <1>3, <1>4, NmtFields DEF NmtInv, HeartbeatInTime, TimeFits, NmtAt, QuietIsTimed, Added
<1> QED  BY <1>5, <1>6, <1>7, <1>8, <1>9, <1>10 DEF NmtInv

\* An NMT command comes in the receive interrupt, between any two steps.
LEMMA NmtCommanded ==
    ASSUME NmtInv, NEW c \in (NmtStates \ {"INITIALIZING"}) \cup {"RESET_COMMUNICATION"}, NMT_receive(c)
    PROVE  NmtInv'
<1> USE NmtNumbers
<1>1. NmtShape  BY DEF NmtInv
<1>2. /\ coNmt'.timer = coNmt.timer
      /\ coNmt'.state = "INITIALIZING" => coNmt.state = "INITIALIZING"
      /\ coNmt'.state = "OPERATIONAL" => coNmt.state = "OPERATIONAL" \/ nodeErr.register = {}
      /\ coNmt' \in [state : NmtStates, timer : 0 .. HbTimerMod - 1, reset : BOOLEAN]
  <2>1. CASE c = "RESET_COMMUNICATION" \/ ~Allowed(c)
    BY <1>1, <2>1, NmtFields DEF NMT_receive, NmtShape, NmtTypeOK
  <2>2. CASE c # "RESET_COMMUNICATION" /\ Allowed(c)
    <3>1. coNmt' = [coNmt EXCEPT !.state = c] /\ c \in NmtStates /\ c # "INITIALIZING"
      BY <2>2 DEF NMT_receive
    <3> QED  BY <1>1, <2>2, <3>1 DEF Allowed, NmtShape, NmtTypeOK
  <2> QED  BY <2>1, <2>2
<1>3. /\ nmtMain' = nmtMain
      /\ nmtMain' \in [at : NmtSteps, diff : NmtTicks \cup {0}, target : NmtStates]
  BY <1>1, NmtFields DEF NmtShape, NmtSteps, NmtStates, NmtIdle, NmtAt, NmtGoto, NMT_receive
<1>4. /\ nmtOd' = nmtOd /\ nodeErr' = nodeErr /\ quiet' = quiet
      /\ unsaid' \in BOOLEAN /\ (unsaid' => unsaid)
  BY <1>1, NmtFields DEF NMT_receive
<1>5. NmtShape'
  BY <1>1, <1>2, <1>3, <1>4, NmtFields DEF NmtShape, NmtTypeOK
<1>6. TargetLeaves'
  BY <1>1, <1>2, <1>3, <1>4, NmtFields DEF NmtInv, TargetLeaves
<1>7. ErrorLeavesOperational'
  BY <1>1, <1>2, <1>3, <1>4, NmtFields DEF NmtInv, ErrorLeavesOperational, NmtAt
<1>8. UnsaidIsDue'
  BY <1>1, <1>2, <1>3, <1>4, NmtFields DEF NmtInv, UnsaidIsDue, TimeFits
<1>9. QuietIsTimed'
  BY <1>1, <1>2, <1>3, <1>4, NmtFields DEF NmtInv, QuietIsTimed, TimeFits, Added
<1>10. HeartbeatInTime'
  BY <1>1, <1>2, <1>3, <1>4, NmtFields DEF NmtInv, HeartbeatInTime, TimeFits, NmtAt, QuietIsTimed, Added
<1> QED  BY <1>5, <1>6, <1>7, <1>8, <1>9, <1>10 DEF NmtInv

\* A step of something else.
LEMMA NmtStutter == ASSUME NmtInv, UNCHANGED nmtVars PROVE NmtInv'
<1> USE DEF NmtInv, nmtVars
<1>1. NmtShape'  BY DEF NmtShape, NmtTypeOK
<1>2. TargetLeaves' /\ ErrorLeavesOperational'  BY DEF TargetLeaves, ErrorLeavesOperational, NmtAt
<1>3. UnsaidIsDue' /\ QuietIsTimed'  BY DEF UnsaidIsDue, QuietIsTimed, TimeFits, Added
<1>4. HeartbeatInTime'  BY DEF HeartbeatInTime, TimeFits, NmtAt
<1> QED  BY <1>1, <1>2, <1>3, <1>4

\* Every step of the slave keeps the invariant.
LEMMA NmtNextInv == NmtInv /\ [NmtNext]_nmtVars => NmtInv'
<1> SUFFICES ASSUME NmtInv, [NmtNext]_nmtVars PROVE NmtInv'  OBVIOUS
<1>1. CASE NmtBegins \/ Produce \/ BootTest \/ Boot \/ ErrorBehavior \/ Degrade \/ NmtReturns
  BY <1>1, NmtBegin, NmtProduce, NmtBootTest, NmtBoot, NmtErrorTest, NmtDegrade, NmtReturn
<1>2. CASE NmtCommunicationReset \/ WriteNmtObject  BY <1>2, NmtReset, NmtWrite
<1>3. ASSUME NEW e \in NmtErrors, NodeError(e) PROVE NmtInv'  BY <1>3, NmtErrorComes
<1>4. ASSUME NEW c \in (NmtStates \ {"INITIALIZING"}) \cup {"RESET_COMMUNICATION"}, NMT_receive(c)
      PROVE  NmtInv'
  BY <1>4, NmtCommanded
<1>5. CASE UNCHANGED nmtVars  BY <1>5, NmtStutter
<1> QED  BY <1>1, <1>2, <1>3, <1>4, <1>5 DEF NmtNext

\* The invariant holds throughout, for any width of the timer and any calling times.
THEOREM NmtInvariant == NmtSpec => []NmtInv
BY NmtInitInv, NmtNextInv, PTL DEF NmtSpec

\* The slave's variables keep their types, the heartbeat timer its width.
THEOREM NmtTypeCorrect == NmtSpec => []NmtTypeOK
<1>1. NmtInv => NmtTypeOK  BY DEF NmtInv, NmtShape
<1> QED  BY <1>1, NmtInvariant, PTL

\* When a call has found an error that 0x1029 tells it to act on, the node has left the
\* operational state unless a command came meanwhile.
THEOREM NmtErrorsAreHeeded == NmtSpec => []ErrorLeavesOperational
<1>1. NmtInv => ErrorLeavesOperational  BY DEF NmtInv
<1> QED  BY <1>1, NmtInvariant, PTL

\* The operational state is not lost silently: the next call after an error behaviour has acted
\* sends a heartbeat, and heartbeats come in time, for every producer time that the timer can
\* hold together with one call.
THEOREM NmtHeartbeatTells == NmtSpec => []HeartbeatTells
<1>1. NmtInv => HeartbeatTells  BY DEF NmtInv, UnsaidIsDue, HeartbeatTells, LossIsTold, NmtAt
<1> QED  BY <1>1, NmtInvariant, PTL

-----------------------------------------------------------------------------
HbSteps == {"idle", "message", "clear", "timeout", "late", "state", "end"}

Entry == [time : {0, HbConsTime}, state : HbMessages, new : BOOLEAN, started : BOOLEAN,
          timer : 0 .. HbConsTime + HbMaxTick - 1]

\* The types, with those of main's position in its loop and of the history.
HbShape ==
    /\ HbTypeOK
    /\ consPc \in [at : HbSteps, entry : HbEntries, diff : HbTicks \cup {0}, all : BOOLEAN]
    /\ booted \in [HbEntries -> BOOLEAN] /\ lastMsg \in [HbEntries -> HbMessages]

\* What this call has still to add to the timer of an entry.
Pending(i) ==
    IF \/ consPc.at \in {"message", "clear", "timeout"} /\ consPc.entry <= i
       \/ consPc.at \in {"late", "state"} /\ consPc.entry < i
    THEN consPc.diff ELSE 0

\* This call is past the entry, or has tested its timer (or the last one has).
Passed(i) == consPc.at = "end" \/ (consPc.at # "idle" /\ i < consPc.entry)
Tested(i) == \/ consPc.at = "idle" \/ Passed(i)
             \/ consPc.at \in {"late", "state"} /\ i = consPc.entry

\* allMonitoredOperational, or what it is going to be, speaks of the entry.
SaysOperational(i) == (consPc.all /\ Passed(i)) \/ (allOper /\ consPc.at = "idle")

\* An unused entry has no state; a monitored one has the consumer time; one whose message is a boot-up, or
\* overwritten by a report, is marked; a consumed heartbeat restarts the timer.
Marked ==
    \A i \in HbEntries :
        /\ cons[i].time = 0 => cons[i].state = "bootup"
        /\ cons[i].started =>
             /\ cons[i].time = HbConsTime
             /\ cons[i].new /\ cons[i].state = "bootup" => booted[i]
             /\ consPc.at = "clear" /\ consPc.entry = i /\ ~booted[i] =>
                  cons[i].timer = 0 /\ consPc.diff = 0

\* The timer never counts more than the node has been silent.
NeverAhead ==
    \A i \in HbEntries : cons[i].started /\ ~cons[i].new /\ ~booted[i] =>
        cons[i].timer + Pending(i) <= silence[i] \/ HbConsTime <= silence[i]

\* The first entry's timer is at most one call behind the silence of its node:
\* a heartbeat that waits to be consumed came after the call before.
NeverBehind ==
    /\ cons[1].new /\ cons[1].state # "bootup" =>
         silence[1] <= IF consPc.at \in {"message", "clear"} /\ consPc.entry = 1 THEN HbMaxTick ELSE 0
    /\ cons[1].started => \/ HbConsTime <= cons[1].timer
                          \/ silence[1] <= cons[1].timer + Pending(1) + HbMaxTick

\* Its timer that has run out is reported in every call, and then the node is
\* not said to be operational.
FirstReported ==
    cons[1].started /\ HbConsTime <= cons[1].timer =>
        /\ Tested(1) => <<1, "late">> \in alarms
        /\ consPc.at = "state" /\ consPc.entry = 1 /\ ~cons[1].new => cons[1].state # "operational"
        /\ SaysOperational(1) => cons[1].new

\* The state of an entry is its last message, unless it was reset since.
SaidOperational ==
    \A i \in HbEntries :
        /\ cons[i].state \in {"bootup", lastMsg[i]}
        /\ SaysOperational(i) /\ cons[i].started => cons[i].new \/ lastMsg[i] = "operational"

HbInv == HbShape /\ Marked /\ NeverAhead /\ NeverBehind /\ FirstReported /\ SaidOperational

\* The longest time between two calls of CO_HBcons_process is one of those times.
LEMMA HbMaxTickIs == HbMaxTick \in HbTicks /\ \A t \in HbTicks : t <= HbMaxTick
<1>1. PICK t \in HbTicks : \A u \in HbTicks : u <= t  BY HbConsumerAssumption
<1> QED  BY <1>1 DEF HbMaxTick

\* What the assumption says of the constants, as numbers.
LEMMA HbNumbers ==
    /\ HbNodes \in Nat \ {0} /\ HbConsTime \in Nat \ {0} /\ HbCap \in Nat
    /\ HbTicks \subseteq Nat \ {0} /\ HbMaxTick \in Nat \ {0}
    /\ \A t \in HbTicks : t <= HbMaxTick /\ t \in Nat \ {0} /\ HbConsTime + t <= HbCap
    /\ 1 \in HbEntries
BY HbConsumerAssumption, HbMaxTickIs DEF HbEntries

\* The types, field by field.
\* The types, field by field.
LEMMA Messages == "bootup" \in HbMessages  BY DEF HbMessages

\* The types of the consumer, field by field.
LEMMA HbFields ==
    ASSUME HbShape
    PROVE  /\ cons \in [HbEntries -> Entry]
           /\ \A i \in HbEntries :
                /\ cons[i].time \in {0, HbConsTime} /\ cons[i].state \in HbMessages
                /\ cons[i].new \in BOOLEAN /\ cons[i].started \in BOOLEAN
                /\ cons[i].timer \in Nat /\ cons[i].timer <= HbConsTime + HbMaxTick - 1
                /\ silence[i] \in Nat /\ silence[i] <= HbCap
                /\ booted[i] \in BOOLEAN /\ lastMsg[i] \in HbMessages
           /\ consPc.at \in HbSteps /\ consPc.entry \in HbEntries /\ consPc.all \in BOOLEAN
           /\ consPc.diff \in Nat /\ consPc.diff <= HbMaxTick
<1> USE HbNumbers
<1>1. cons \in [HbEntries -> Entry]  BY DEF HbShape, HbTypeOK, Entry
<1>2. ASSUME NEW i \in HbEntries
      PROVE  /\ cons[i].time \in {0, HbConsTime} /\ cons[i].state \in HbMessages
             /\ cons[i].new \in BOOLEAN /\ cons[i].started \in BOOLEAN
             /\ cons[i].timer \in Nat /\ cons[i].timer <= HbConsTime + HbMaxTick - 1
  <2>1. cons[i] \in Entry BY <1>1
  <2> QED BY <2>1 DEF Entry
<1>3. ASSUME NEW i \in HbEntries
      PROVE  /\ silence[i] \in Nat /\ silence[i] <= HbCap
             /\ booted[i] \in BOOLEAN /\ lastMsg[i] \in HbMessages
  BY DEF HbShape, HbTypeOK
<1>4. consPc.diff \in Nat /\ consPc.diff <= HbMaxTick
  <2>1. consPc.diff = 0 \/ consPc.diff \in HbTicks  BY DEF HbShape
  <2>2. CASE consPc.diff \in HbTicks  BY <2>2
  <2>3. CASE consPc.diff = 0  BY <2>3
  <2> QED  BY <2>1, <2>2, <2>3
<1>5. consPc.at \in HbSteps /\ consPc.entry \in HbEntries /\ consPc.all \in BOOLEAN  BY DEF HbShape
<1> QED  BY <1>1, <1>2, <1>3, <1>4, <1>5

\* Where main is in the loop over the nodes is kept by a call that goes nowhere.
LEMMA HbPosition ==
    HbShape => consPc \in [at : HbSteps, entry : HbEntries, diff : HbTicks \cup {0}, all : BOOLEAN]
BY DEF HbShape

\* CO_HBconsumer_init: nothing is monitored yet, and the invariant holds.
LEMMA HbInitInv == HbInit => HbInv
<1> SUFFICES ASSUME HbInit PROVE HbInv  OBVIOUS
<1> USE HbNumbers DEF HbInit, HbIdle
<1>1. cons \in [HbEntries -> Entry]  BY DEF Entry, HbMessages
<1>2. HbTypeOK
  <2>1. consPc.entry \in HbEntries /\ consPc.diff = 0 /\ silence \in [HbEntries -> 0 .. HbCap] OBVIOUS
  <2> QED BY <1>1, <2>1 DEF HbTypeOK, Entry
<1>3. HbShape  BY <1>2 DEF HbShape, HbSteps, HbMessages
<1>4. \A i \in HbEntries : ~cons[i].started /\ ~cons[i].new /\ cons[i].state = "bootup"
  OBVIOUS
<1> QED  BY <1>3, <1>4 DEF HbInv, Marked, NeverAhead, NeverBehind, FirstReported, SaidOperational,
            SaysOperational, Passed

\* A new value of one entry.
LEMMA HbOneEntry ==
    ASSUME HbShape, NEW j \in HbEntries, NEW e \in Entry, cons' = [cons EXCEPT ![j] = e]
    PROVE  /\ cons' \in [HbEntries -> Entry] /\ cons'[j] = e
           /\ \A i \in HbEntries : i # j => cons'[i] = cons[i]
BY HbFields

\* CO_HBcons_process is called: the time since the last call is still to be added
\* to every timer, and every node's silence has grown by it.
LEMMA HbBegin ==
    ASSUME HbInv, HbBegins
    PROVE  HbInv'
<1> USE HbNumbers
<1>1. HbShape  BY DEF HbInv
<1>2. cons' = cons /\ cons \in [HbEntries -> Entry]  BY <1>1, HbFields DEF HbBegins
<1>3. /\ consPc.at = "idle" /\ consPc'.at = "message" /\ consPc'.entry = 1
      /\ consPc'.diff \in Nat /\ consPc'.diff <= HbMaxTick /\ HbConsTime + consPc'.diff <= HbCap
      /\ consPc'.all = TRUE
      /\ consPc' \in [at : HbSteps, entry : HbEntries, diff : HbTicks \cup {0}, all : BOOLEAN]
  BY <1>1 DEF HbShape, HbSteps, HbEntries, HbAt, After, HbIdle, HbBegins
<1>4. /\ allOper' = allOper /\ booted' = booted /\ lastMsg' = lastMsg
      /\ alarms' = {}
      /\ silence' \in [HbEntries -> 0 .. HbCap]
      /\ \A i \in HbEntries : /\ silence'[i] = HbCap \/ silence'[i] = silence[i] + consPc'.diff
                             /\ silence'[i] <= silence[i] + consPc'.diff
  BY <1>1, HbFields DEF HbShape, HbTypeOK, HbBegins
<1>5. HbShape'
  <2>1. HbTypeOK'  BY <1>1, <1>2, <1>3, <1>4 DEF HbShape, HbTypeOK, Entry
  <2> QED  BY <2>1, <1>1, <1>3, <1>4 DEF HbShape
<1>6. Marked'
  BY <1>1, <1>2, <1>3, <1>4, HbFields DEF HbInv, Marked
<1>7. NeverAhead'
  <2> SUFFICES ASSUME NEW i \in HbEntries, cons[i].started, ~cons[i].new, ~booted[i]
               PROVE  (cons[i].timer + Pending(i) <= silence[i] \/ HbConsTime <= silence[i])'
    BY <1>2, <1>4 DEF NeverAhead
  <2>1. cons[i].timer <= silence[i] \/ HbConsTime <= silence[i]
    BY <1>1, <1>3, HbFields DEF HbInv, NeverAhead, Pending
  <2>2. Pending(i)' = consPc'.diff
    <3>1. 1 <= i  BY DEF HbEntries
    <3> QED  BY <1>3, <3>1 DEF Pending
  <2> QED  BY <2>1, <2>2, <1>1, <1>2, <1>3, <1>4, HbFields
<1>8. NeverBehind'
  <2>1. /\ cons[1].new /\ cons[1].state # "bootup" => silence[1] = 0
        /\ cons[1].started => \/ HbConsTime <= cons[1].timer
                              \/ silence[1] <= cons[1].timer + HbMaxTick
    BY <1>1, <1>3, HbFields DEF HbInv, NeverBehind, Pending
  <2>2. Pending(1)' = consPc'.diff  BY <1>3 DEF Pending
  <2> QED  BY <2>1, <2>2, <1>1, <1>2, <1>3, <1>4, HbFields DEF NeverBehind
<1>9. FirstReported'
  BY <1>1, <1>2, <1>3, <1>4, HbFields
    DEF HbInv, FirstReported, Tested, Passed, SaysOperational, NeverBehind, HbEntries
<1>10. SaidOperational'
  BY <1>1, <1>2, <1>3, <1>4, HbFields DEF HbInv, SaidOperational, Passed, SaysOperational, HbEntries
<1> QED  BY <1>5, <1>6, <1>7, <1>8, <1>9, <1>10 DEF HbInv

\* The call leaves out a node that is not monitored.
LEMMA HbNothing ==
    ASSUME HbInv, ConsumeNothing
    PROVE  HbInv'
<1> USE HbNumbers
<1>1. HbShape  BY DEF HbInv
<1>2. /\ cons' \in [HbEntries -> Entry]
      /\ \A i \in HbEntries : /\ cons'[i].time = cons[i].time /\ cons'[i].timer = cons[i].timer
                             /\ cons'[i].state = "bootup" /\ ~cons'[i].new /\ ~cons'[i].started
  <2> DEFINE e(i) == [cons[i] EXCEPT !.state = "bootup", !.new = FALSE, !.started = FALSE]
  <2>1. ASSUME NEW i \in HbEntries
        PROVE  /\ e(i) \in Entry /\ e(i).time = cons[i].time /\ e(i).timer = cons[i].timer
               /\ e(i).state = "bootup" /\ ~e(i).new /\ ~e(i).started
    BY <1>1, Messages, HbFields, ZenonT(60) DEF Entry
  <2>2. cons' = [i \in HbEntries |-> e(i)]  BY DEF ConsumeNothing
  <2> HIDE DEF e
  <2> QED  BY <2>1, <2>2
<1>3. /\ consPc.at = "idle" /\ consPc' = consPc
      /\ consPc' \in [at : HbSteps, entry : HbEntries, diff : HbTicks \cup {0}, all : BOOLEAN]
  BY <1>1 DEF HbShape, HbSteps, HbEntries, HbAt, After, HbIdle, ConsumeNothing
<1>4. /\ allOper' = FALSE /\ alarms' = {}
      /\ silence' = silence /\ booted' = booted /\ lastMsg' = lastMsg
  BY <1>1, HbFields DEF HbShape, HbTypeOK, ConsumeNothing
<1>5. HbShape'
  <2>1. HbTypeOK'  BY <1>1, <1>2, <1>3, <1>4 DEF HbShape, HbTypeOK, Entry
  <2> QED  BY <2>1, <1>1, <1>3, <1>4 DEF HbShape
<1>6. Marked'
  BY <1>1, <1>2, <1>3, <1>4, HbFields DEF HbInv, Marked
<1>7. NeverAhead'
  BY <1>1, <1>2, <1>3, <1>4, HbFields DEF HbInv, NeverAhead, Pending, HbEntries, Marked
<1>8. NeverBehind'
  BY <1>1, <1>2, <1>3, <1>4, HbFields DEF HbInv, NeverBehind, Pending, HbEntries, Marked
<1>9. FirstReported'
  BY <1>1, <1>2, <1>3, <1>4, HbFields
    DEF HbInv, FirstReported, Tested, Passed, SaysOperational, NeverBehind, HbEntries
<1>10. SaidOperational'
  BY <1>1, <1>2, <1>3, <1>4, HbFields DEF HbInv, SaidOperational, Passed, SaysOperational, HbEntries
<1> QED  BY <1>5, <1>6, <1>7, <1>8, <1>9, <1>10 DEF HbInv

\* The call ends: allMonitoredOperational is what it has found.
LEMMA HbEnd ==
    ASSUME HbInv, HbEnds
    PROVE  HbInv'
<1> USE HbNumbers
<1>1. HbShape  BY DEF HbInv
<1>2. cons' = cons /\ cons \in [HbEntries -> Entry]  BY <1>1, HbFields DEF HbEnds
<1>3. /\ consPc.at = "end" /\ consPc'.at = "idle" /\ consPc'.entry = 1 /\ consPc'.diff = 0
      /\ consPc' \in [at : HbSteps, entry : HbEntries, diff : HbTicks \cup {0}, all : BOOLEAN]
  BY <1>1 DEF HbShape, HbSteps, HbEntries, HbAt, After, HbIdle, HbEnds
<1>4. /\ allOper' = consPc.all
      /\ alarms' = alarms /\ silence' = silence /\ booted' = booted /\ lastMsg' = lastMsg
  BY <1>1, HbFields DEF HbShape, HbTypeOK, HbEnds
<1>5. HbShape'
  <2>1. HbTypeOK'  BY <1>1, <1>2, <1>3, <1>4 DEF HbShape, HbTypeOK, Entry
  <2> QED  BY <2>1, <1>1, <1>3, <1>4 DEF HbShape
<1>6. Marked'
  BY <1>1, <1>2, <1>3, <1>4, HbFields DEF HbInv, Marked
<1>7. NeverAhead'
  BY <1>1, <1>2, <1>3, <1>4, HbFields DEF HbInv, NeverAhead, Pending, HbEntries, Marked
<1>8. NeverBehind'
  BY <1>1, <1>2, <1>3, <1>4, HbFields DEF HbInv, NeverBehind, Pending, HbEntries, Marked
<1>9. FirstReported'
  BY <1>1, <1>2, <1>3, <1>4, HbFields
    DEF HbInv, FirstReported, Tested, Passed, SaysOperational, NeverBehind, HbEntries
<1>10. SaidOperational'
  BY <1>1, <1>2, <1>3, <1>4, HbFields DEF HbInv, SaidOperational, Passed, SaysOperational, HbEntries
<1> QED  BY <1>5, <1>6, <1>7, <1>8, <1>9, <1>10 DEF HbInv

\* A heartbeat is consumed and the timer restarted; the message still to be cleared.
LEMMA HbHeartbeat ==
    ASSUME HbInv, NEW j \in HbEntries, cons[j].state # "bootup", ConsumeMessage(j)
    PROVE  HbInv'
<1> USE HbNumbers
<1> DEFINE e == [cons[j] EXCEPT !.started = TRUE, !.timer = 0]
<1>1. HbShape  BY DEF HbInv
<1>2. e \in Entry
  <2>1. 0 \in 0 .. HbConsTime + HbMaxTick - 1  OBVIOUS
  <2> QED  BY <1>1, <2>1, HbFields DEF Entry
<1>3. e.time = cons[j].time /\ e.state = cons[j].state /\ e.new = cons[j].new
      /\ e.started = TRUE /\ e.timer = 0
  BY <1>1, HbFields DEF Entry, Configured
<1>4. cons' = [cons EXCEPT ![j] = e]  BY DEF ConsumeMessage
<1> HIDE DEF e
<1>5. /\ cons' \in [HbEntries -> Entry] /\ cons'[j] = e
      /\ \A i \in HbEntries : i # j => cons'[i] = cons[i]
  BY <1>1, <1>2, <1>4, HbOneEntry
<1>6. /\ consPc.at = "message" /\ consPc.entry = j /\ consPc'.at = "clear"
      /\ consPc'.entry = j /\ consPc'.diff = 0 /\ consPc'.all = consPc.all
      /\ cons[j].time # 0 /\ cons[j].new
      /\ consPc' \in [at : HbSteps, entry : HbEntries, diff : HbTicks \cup {0}, all : BOOLEAN]
  BY <1>1 DEF HbShape, HbSteps, HbEntries, HbAt, After, HbIdle, ConsumeMessage
<1>7. /\ allOper' = allOper /\ alarms' = alarms /\ silence' = silence /\ lastMsg' = lastMsg
      /\ booted' \in [HbEntries -> BOOLEAN] /\ ~booted'[j]
      /\ \A i \in HbEntries : i # j => booted'[i] = booted[i]
  BY <1>1, HbFields DEF HbShape, HbTypeOK, ConsumeMessage
<1>8. HbShape'
  <2>1. HbTypeOK'  BY <1>1, <1>5, <1>6, <1>7 DEF HbShape, HbTypeOK, Entry
  <2> QED  BY <2>1, <1>1, <1>6, <1>7 DEF HbShape
<1>9. Marked'
  BY <1>1, <1>3, <1>5, <1>6, <1>7, HbFields DEF HbInv, Marked
<1>10. NeverAhead'
  <2> SUFFICES ASSUME NEW i \in HbEntries, (cons[i].started /\ ~cons[i].new /\ ~booted[i])'
               PROVE  (cons[i].timer + Pending(i) <= silence[i] \/ HbConsTime <= silence[i])'
    BY DEF NeverAhead
  <2>1. CASE i = j
        BY <1>1, <1>3, <1>5, <1>6, <1>7, HbFields, <2>1 DEF HbInv, NeverAhead, Marked, Pending, HbEntries
  <2>2. CASE i # j
        BY <1>1, <1>3, <1>5, <1>6, <1>7, HbFields, <2>2, SMTT(60) DEF HbInv, NeverAhead, Pending, HbEntries
  <2> QED  BY <2>1, <2>2
<1>11. NeverBehind'
  BY <1>1, <1>3, <1>5, <1>6, <1>7, HbFields DEF HbInv, NeverBehind, Pending, HbEntries, Marked
<1>12. FirstReported'
  BY <1>1, <1>3, <1>5, <1>6, <1>7, HbFields
    DEF HbInv, FirstReported, Tested, Passed, SaysOperational, NeverBehind, HbEntries
<1>13. SaidOperational'
  BY <1>1, <1>3, <1>5, <1>6, <1>7, HbFields DEF HbInv, SaidOperational, Passed, SaysOperational, HbEntries
<1> QED  BY <1>8, <1>9, <1>10, <1>11, <1>12, <1>13 DEF HbInv

\* A boot-up message is consumed: the node is no longer monitored.
LEMMA HbBootup ==
    ASSUME HbInv, NEW j \in HbEntries, cons[j].state = "bootup", ConsumeMessage(j)
    PROVE  HbInv'
<1> USE HbNumbers
<1>1. HbShape  BY DEF HbInv
<1>2. cons' = cons /\ cons \in [HbEntries -> Entry]  BY <1>1, HbFields DEF ConsumeMessage
<1>3. /\ consPc.at = "message" /\ consPc.entry = j /\ consPc'.at = "clear"
      /\ consPc'.entry = j /\ consPc'.diff = consPc.diff /\ consPc'.all = consPc.all
      /\ cons[j].time # 0 /\ cons[j].new
      /\ consPc' \in [at : HbSteps, entry : HbEntries, diff : HbTicks \cup {0}, all : BOOLEAN]
  BY <1>1 DEF HbShape, HbSteps, HbEntries, HbAt, After, HbIdle, ConsumeMessage
<1>4. /\ allOper' = allOper /\ alarms' = alarms
      /\ silence' = silence /\ booted' = booted /\ lastMsg' = lastMsg
  BY <1>1, HbFields DEF HbShape, HbTypeOK, ConsumeMessage
<1>5. HbShape'
  <2>1. HbTypeOK'  BY <1>1, <1>2, <1>3, <1>4 DEF HbShape, HbTypeOK, Entry
  <2> QED  BY <2>1, <1>1, <1>3, <1>4 DEF HbShape
<1>6. Marked'
  BY <1>1, <1>2, <1>3, <1>4, HbFields DEF HbInv, Marked
<1>7. NeverAhead'
  BY <1>1, <1>2, <1>3, <1>4, HbFields DEF HbInv, NeverAhead, Pending, HbEntries, Marked
<1>8. NeverBehind'
  BY <1>1, <1>2, <1>3, <1>4, HbFields DEF HbInv, NeverBehind, Pending, HbEntries, Marked
<1>9. FirstReported'
  BY <1>1, <1>2, <1>3, <1>4, HbFields
    DEF HbInv, FirstReported, Tested, Passed, SaysOperational, NeverBehind, HbEntries
<1>10. SaidOperational'
  BY <1>1, <1>2, <1>3, <1>4, HbFields DEF HbInv, SaidOperational, Passed, SaysOperational, HbEntries
<1> QED  BY <1>5, <1>6, <1>7, <1>8, <1>9, <1>10 DEF HbInv

\* CANrxNew is cleared, whether or not another heartbeat has come in between.
LEMMA HbClear ==
    ASSUME HbInv, NEW j \in HbEntries, ConsumeClear(j)
    PROVE  HbInv'
<1> USE HbNumbers
<1> DEFINE e == [cons[j] EXCEPT !.new = FALSE]
<1>1. HbShape  BY DEF HbInv
<1>2. e \in Entry  BY <1>1, Messages, HbFields DEF Entry, Configured
<1>3. e.time = cons[j].time /\ e.state = cons[j].state /\ e.new = FALSE
      /\ e.started = cons[j].started /\ e.timer = cons[j].timer
  BY <1>1, HbFields DEF Entry, Configured
<1>4. cons' = [cons EXCEPT ![j] = e]  BY DEF ConsumeClear
<1> HIDE DEF e
<1>5. /\ cons' \in [HbEntries -> Entry] /\ cons'[j] = e
      /\ \A i \in HbEntries : i # j => cons'[i] = cons[i]
  BY <1>1, <1>2, <1>4, HbOneEntry
<1>6. /\ consPc.at = "clear" /\ consPc.entry = j /\ consPc'.at = "timeout"
      /\ consPc'.entry = j /\ consPc'.diff = consPc.diff /\ consPc'.all = consPc.all
      /\ consPc' \in [at : HbSteps, entry : HbEntries, diff : HbTicks \cup {0}, all : BOOLEAN]
  BY <1>1 DEF HbShape, HbSteps, HbEntries, HbAt, After, HbIdle, ConsumeClear
<1>7. /\ allOper' = allOper /\ alarms' = alarms
      /\ silence' = silence /\ booted' = booted /\ lastMsg' = lastMsg
  BY <1>1, HbFields DEF HbShape, HbTypeOK, ConsumeClear
<1>8. HbShape'
  <2>1. HbTypeOK'  BY <1>1, <1>5, <1>6, <1>7 DEF HbShape, HbTypeOK, Entry
  <2> QED  BY <2>1, <1>1, <1>6, <1>7 DEF HbShape
<1>9. Marked'
  BY <1>1, <1>3, <1>5, <1>6, <1>7, HbFields DEF HbInv, Marked
<1>10. NeverAhead'
  <2> SUFFICES ASSUME NEW i \in HbEntries, (cons[i].started /\ ~cons[i].new /\ ~booted[i])'
               PROVE  (cons[i].timer + Pending(i) <= silence[i] \/ HbConsTime <= silence[i])'
    BY DEF NeverAhead
  <2>1. CASE i = j
        BY <1>1, <1>3, <1>5, <1>6, <1>7, HbFields, <2>1 DEF HbInv, NeverAhead, Marked, Pending, HbEntries
  <2>2. CASE i # j
        BY <1>1, <1>3, <1>5, <1>6, <1>7, HbFields, <2>2 DEF HbInv, NeverAhead, Pending, HbEntries
  <2> QED  BY <2>1, <2>2
<1>11. NeverBehind'
  BY <1>1, <1>3, <1>5, <1>6, <1>7, HbFields DEF HbInv, NeverBehind, Pending, HbEntries, Marked
<1>12. FirstReported'
  BY <1>1, <1>3, <1>5, <1>6, <1>7, HbFields
    DEF HbInv, FirstReported, Tested, Passed, SaysOperational, NeverBehind, HbEntries
<1>13. SaidOperational'
  <2> SUFFICES ASSUME NEW i \in HbEntries
               PROVE  (/\ cons[i].state \in {"bootup", lastMsg[i]}
                       /\ SaysOperational(i) /\ cons[i].started =>
                            cons[i].new \/ lastMsg[i] = "operational")'
    BY DEF SaidOperational
  <2>1. /\ cons[i].state \in {"bootup", lastMsg[i]}
        /\ SaysOperational(i) /\ cons[i].started => cons[i].new \/ lastMsg[i] = "operational"
    BY DEF HbInv, SaidOperational
  <2>2. ~SaysOperational(j)'  BY <1>6 DEF SaysOperational, Passed, HbEntries
  <2>3. SaysOperational(i)' => SaysOperational(i)  BY <1>6, <1>7 DEF SaysOperational, Passed
  <2>4. CASE i = j  BY <1>3, <1>5, <1>7, <2>1, <2>2, <2>4
  <2>5. CASE i # j  BY <1>5, <1>7, <2>1, <2>3, <2>5
  <2> QED  BY <2>4, <2>5
<1> QED  BY <1>8, <1>9, <1>10, <1>11, <1>12, <1>13 DEF HbInv

\* No message waits: a node whose monitoring has not started is left alone.
LEMMA HbNoMessage ==
    ASSUME HbInv, NEW j \in HbEntries, NoMessage(j)
    PROVE  HbInv'
<1> USE HbNumbers
<1>1. HbShape  BY DEF HbInv
<1>2. cons' = cons /\ cons \in [HbEntries -> Entry]  BY <1>1, HbFields DEF NoMessage
<1>3. /\ consPc.at = "message" /\ consPc.entry = j /\ ~(cons[j].time # 0 /\ cons[j].new)
      /\ IF cons[j].time # 0 THEN consPc'.at = "timeout" /\ consPc'.entry = j
         ELSE IF j = HbNodes THEN consPc'.at = "end" /\ consPc'.entry = j
              ELSE consPc'.at = "message" /\ consPc'.entry = j + 1
      /\ consPc'.diff = consPc.diff /\ consPc'.all = consPc.all
      /\ consPc' \in [at : HbSteps, entry : HbEntries, diff : HbTicks \cup {0}, all : BOOLEAN]
  <2> USE HbPosition DEF HbAt, After, NoMessage
  <2>1. CASE j = HbNodes  BY <1>1, <2>1 DEF HbSteps
  <2>2. CASE j # HbNodes
    <3>1. j + 1 \in HbEntries  BY <2>2 DEF HbEntries
    <3> QED  BY <1>1, <2>2, <3>1 DEF HbSteps
  <2> QED  BY <2>1, <2>2
<1>4. /\ allOper' = allOper /\ alarms' = alarms
      /\ silence' = silence /\ booted' = booted /\ lastMsg' = lastMsg
  BY <1>1, HbFields DEF HbShape, HbTypeOK, NoMessage
<1>5. HbShape'
  <2>1. HbTypeOK'  BY <1>1, <1>2, <1>3, <1>4 DEF HbShape, HbTypeOK, Entry
  <2> QED  BY <2>1, <1>1, <1>3, <1>4 DEF HbShape
<1>6. Marked'
  BY <1>1, <1>2, <1>3, <1>4, HbFields DEF HbInv, Marked
<1>7. NeverAhead'
  BY <1>1, <1>2, <1>3, <1>4, HbFields DEF HbInv, NeverAhead, Pending, HbEntries, Marked
<1>8. NeverBehind'
  <2> USE <1>1, <1>2, <1>3, <1>4, HbFields DEF HbInv
  <2>1. (cons[1].new /\ cons[1].state # "bootup" =>
           silence[1] <= IF consPc.at \in {"message", "clear"} /\ consPc.entry = 1 THEN HbMaxTick ELSE 0)'
    BY DEF NeverBehind, Marked, HbEntries
  <2>2. (cons[1].started => \/ HbConsTime <= cons[1].timer
                            \/ silence[1] <= cons[1].timer + Pending(1) + HbMaxTick)'
    BY DEF NeverBehind, Pending, Marked, Counted, HbEntries
  <2> QED  BY <2>1, <2>2 DEF NeverBehind
<1>9. FirstReported'
  BY <1>1, <1>2, <1>3, <1>4, HbFields
    DEF HbInv, FirstReported, Marked, Tested, Passed, SaysOperational, NeverBehind, HbEntries
<1>10. SaidOperational'
  BY <1>1, <1>2, <1>3, <1>4, HbFields DEF HbInv, SaidOperational, Marked, Passed, SaysOperational, HbEntries
<1> QED  BY <1>5, <1>6, <1>7, <1>8, <1>9, <1>10 DEF HbInv

\* The timer of a node is tested: when it has run out the loss is reported.
LEMMA HbConsumeTimeout ==
    ASSUME HbInv, NEW j \in HbEntries, ConsumeTimeout(j)
    PROVE  HbInv'
<1> USE HbNumbers
<1> DEFINE e == [cons[j] EXCEPT !.timer = Counted(j)]
<1>1. HbShape  BY DEF HbInv
<1>2. Counted(j) \in 0 .. HbConsTime + HbMaxTick - 1
   BY <1>1, HbFields DEF Counted
<1>3. e \in Entry BY <1>1, <1>2, HbFields DEF Entry
<1>4. e.time = cons[j].time /\ e.state = cons[j].state /\ e.new = cons[j].new /\ e.started = cons[j].started
      /\ e.timer = Counted(j)  BY <1>1, HbFields DEF Entry
<1>5. cons' = [cons EXCEPT ![j] = e]  BY DEF ConsumeTimeout
<1> HIDE DEF e
<1>6. cons' \in [HbEntries -> Entry] /\ cons'[j] = e /\ \A i \in HbEntries : i # j => cons'[i] = cons[i]
   BY <1>1, <1>3, <1>5, HbOneEntry
<1>7. /\ consPc.at = "timeout" /\ consPc.entry = j
      /\ consPc'.at = IF cons[j].started /\ Counted(j) >= cons[j].time THEN "late" ELSE "state"
      /\ consPc'.entry = j /\ consPc'.diff = consPc.diff /\ consPc'.all = consPc.all
      /\ consPc' \in [at : HbSteps, entry : HbEntries, diff : HbTicks \cup {0}, all : BOOLEAN]
  BY <1>1 DEF HbShape, HbSteps, HbAt, ConsumeTimeout
<1>8. /\ silence' = silence /\ booted' = booted /\ lastMsg' = lastMsg /\ allOper' = allOper
      /\ alarms \subseteq alarms' /\ alarms' \subseteq HbEntries \X {"late", "reset"}
      /\ cons[j].started /\ Counted(j) >= cons[j].time => <<j, "late">> \in alarms'
  BY <1>1 DEF HbShape, HbTypeOK, ConsumeTimeout
<1>9. HbShape'  
  <2>1. HbTypeOK'  BY <1>1, <1>6, <1>7, <1>8 DEF HbShape, HbTypeOK, Entry
  <2> QED BY <2>1, <1>1, <1>7, <1>8 DEF HbShape
<1>10. Marked'
  BY <1>1, <1>4, <1>6, <1>7, <1>8, HbFields DEF HbInv, Marked
<1>11. NeverAhead'
  <2> SUFFICES ASSUME NEW i \in HbEntries, (cons[i].started /\ ~cons[i].new /\ ~booted[i])'
      PROVE (cons[i].timer + Pending(i) <= silence[i] \/ HbConsTime <= silence[i])'
     BY DEF NeverAhead
  <2>1. cons[i].started /\ ~cons[i].new /\ ~booted[i] BY <1>4, <1>6, <1>8
  <2>2. cons[i].timer + Pending(i) <= silence[i] \/ HbConsTime <= silence[i] BY <2>1 DEF HbInv, NeverAhead
  <2>3. CASE i = j BY <1>1, <1>4, <1>6, <1>7, <1>8, <2>2, <2>3, HbFields DEF Pending, HbEntries, Counted
  <2>4. CASE i # j BY <1>1, <1>4, <1>6, <1>7, <1>8, <2>2, <2>4, HbFields DEF Pending, HbEntries
  <2> QED BY <2>3, <2>4
<1>12. NeverBehind'
  <2> USE <1>1, <1>4, <1>6, <1>7, <1>8, HbFields DEF HbInv
  <2>1. (cons[1].new /\ cons[1].state # "bootup" =>
           silence[1] <= IF consPc.at \in {"message", "clear"} /\ consPc.entry = 1 THEN HbMaxTick ELSE 0)'
    BY DEF NeverBehind, Marked, HbEntries
  <2>2. (cons[1].started => \/ HbConsTime <= cons[1].timer
                            \/ silence[1] <= cons[1].timer + Pending(1) + HbMaxTick)'
    BY SMTT(60) DEF NeverBehind, Pending, Marked, Counted, HbEntries
  <2> QED  BY <2>1, <2>2 DEF NeverBehind
<1>13. FirstReported'
  <2> SUFFICES ASSUME cons'[1].started, HbConsTime <= cons'[1].timer
               PROVE  (/\ Tested(1) => <<1, "late">> \in alarms
                       /\ consPc.at = "state" /\ consPc.entry = 1 /\ ~cons[1].new
                         => cons[1].state # "operational"
                       /\ SaysOperational(1) => cons[1].new)'
    BY DEF FirstReported
  <2>1. CASE j = 1  BY <1>1, <1>4, <1>6, <1>7, <1>8, <2>1, HbFields
                    DEF HbInv, Marked, Tested, Passed, SaysOperational
  <2>2. CASE j # 1  BY <1>1, <1>6, <1>7, <1>8, <2>2, HbFields
                    DEF HbInv, FirstReported, Tested, Passed, SaysOperational, HbEntries
  <2> QED  BY <2>1, <2>2
<1>14. SaidOperational'
  BY <1>1, <1>4, <1>6, <1>7, <1>8, HbFields DEF HbInv, SaidOperational, Passed, SaysOperational
<1> QED  BY <1>9, <1>10, <1>11, <1>12, <1>13, <1>14 DEF HbInv

\* A late node is said to be in an unknown state, over whatever has come in between.
LEMMA HbLate ==
    ASSUME HbInv, NEW j \in HbEntries, ConsumeLate(j)
    PROVE  HbInv'
<1> USE HbNumbers
<1> DEFINE e == [cons[j] EXCEPT !.state = "bootup"]
<1>1. HbShape  BY DEF HbInv
<1>2. e \in Entry  BY <1>1, Messages, HbFields DEF Entry, Configured
<1>3. e.time = cons[j].time /\ e.state = "bootup" /\ e.new = cons[j].new
      /\ e.started = cons[j].started /\ e.timer = cons[j].timer
  BY <1>1, HbFields DEF Entry, Configured
<1>4. cons' = [cons EXCEPT ![j] = e]  BY DEF ConsumeLate
<1> HIDE DEF e
<1>5. /\ cons' \in [HbEntries -> Entry] /\ cons'[j] = e
      /\ \A i \in HbEntries : i # j => cons'[i] = cons[i]
  BY <1>1, <1>2, <1>4, HbOneEntry
<1>6. /\ consPc.at = "late" /\ consPc.entry = j /\ consPc'.at = "state"
      /\ consPc'.entry = j /\ consPc'.diff = consPc.diff /\ consPc'.all = consPc.all
      /\ consPc' \in [at : HbSteps, entry : HbEntries, diff : HbTicks \cup {0}, all : BOOLEAN]
  BY <1>1 DEF HbShape, HbSteps, HbEntries, HbAt, After, HbIdle, ConsumeLate
<1>7. /\ allOper' = allOper /\ alarms' = alarms /\ silence' = silence /\ lastMsg' = lastMsg
      /\ booted' \in [HbEntries -> BOOLEAN] /\ booted'[j]
      /\ \A i \in HbEntries : i # j => booted'[i] = booted[i]
  BY <1>1, HbFields DEF HbShape, HbTypeOK, ConsumeLate
<1>8. HbShape'
  <2>1. HbTypeOK'  BY <1>1, <1>5, <1>6, <1>7 DEF HbShape, HbTypeOK, Entry
  <2> QED  BY <2>1, <1>1, <1>6, <1>7 DEF HbShape
<1>9. Marked'
  BY <1>1, <1>3, <1>5, <1>6, <1>7, HbFields DEF HbInv, Marked
<1>10. NeverAhead'
  <2> SUFFICES ASSUME NEW i \in HbEntries, (cons[i].started /\ ~cons[i].new /\ ~booted[i])'
               PROVE  (cons[i].timer + Pending(i) <= silence[i] \/ HbConsTime <= silence[i])'
    BY DEF NeverAhead
  <2>1. CASE i = j
        BY <1>1, <1>3, <1>5, <1>6, <1>7, HbFields, <2>1 DEF HbInv, NeverAhead, Marked, Pending, HbEntries
  <2>2. CASE i # j
        BY <1>1, <1>3, <1>5, <1>6, <1>7, HbFields, <2>2 DEF HbInv, NeverAhead, Pending, HbEntries
  <2> QED  BY <2>1, <2>2
<1>11. NeverBehind'
  BY <1>1, <1>3, <1>5, <1>6, <1>7, HbFields, SMTT(60) DEF HbInv, NeverBehind, Pending, HbEntries, Marked
<1>12. FirstReported'
  BY <1>1, <1>3, <1>5, <1>6, <1>7, HbFields
    DEF HbInv, FirstReported, Tested, Passed, SaysOperational, NeverBehind, HbEntries
<1>13. SaidOperational'
  BY <1>1, <1>3, <1>5, <1>6, <1>7, HbFields DEF HbInv, SaidOperational, Passed, SaysOperational, HbEntries
<1> QED  BY <1>8, <1>9, <1>10, <1>11, <1>12, <1>13 DEF HbInv

\* The node's state goes into allMonitoredOperational.
LEMMA HbState ==
    ASSUME HbInv, NEW j \in HbEntries, ConsumeState(j)
    PROVE  HbInv'
<1> USE HbNumbers
<1>1. HbShape  BY DEF HbInv
<1>2. cons' = cons /\ cons \in [HbEntries -> Entry]  BY <1>1, HbFields DEF ConsumeState
<1>3. /\ consPc.at = "state" /\ consPc.entry = j /\ consPc'.diff = consPc.diff
      /\ IF j = HbNodes THEN consPc'.at = "end" /\ consPc'.entry = j
         ELSE consPc'.at = "message" /\ consPc'.entry = j + 1
      /\ consPc'.all => consPc.all /\ cons[j].state = "operational"
      /\ consPc' \in [at : HbSteps, entry : HbEntries, diff : HbTicks \cup {0}, all : BOOLEAN]
  <2> USE HbPosition DEF HbAt, After, ConsumeState
  <2>1. CASE j = HbNodes  BY <1>1, <2>1 DEF HbSteps
  <2>2. CASE j # HbNodes
    <3>1. j + 1 \in HbEntries  BY <2>2 DEF HbEntries
    <3> QED  BY <1>1, <2>2, <3>1 DEF HbSteps
  <2> QED  BY <2>1, <2>2
<1>4. /\ allOper' = allOper /\ alarms' = alarms
      /\ silence' = silence /\ booted' = booted /\ lastMsg' = lastMsg
  BY <1>1, HbFields DEF HbShape, HbTypeOK, ConsumeState
<1>5. HbShape'
  <2>1. HbTypeOK'  BY <1>1, <1>2, <1>3, <1>4 DEF HbShape, HbTypeOK, Entry
  <2> QED  BY <2>1, <1>1, <1>3, <1>4 DEF HbShape
<1>6. Marked'
  BY <1>1, <1>2, <1>3, <1>4, HbFields DEF HbInv, Marked
<1>7. NeverAhead'
  <2> SUFFICES ASSUME NEW i \in HbEntries, (cons[i].started /\ ~cons[i].new /\ ~booted[i])'
               PROVE  (cons[i].timer + Pending(i) <= silence[i] \/ HbConsTime <= silence[i])'
    BY DEF NeverAhead
  <2>1. CASE i = j
        BY <1>1, <1>2, <1>3, <1>4, HbFields, <2>1 DEF HbInv, NeverAhead, Marked, Pending, HbEntries
  <2>2. CASE i # j  BY <1>1, <1>2, <1>3, <1>4, HbFields, <2>2 DEF HbInv, NeverAhead, Pending, HbEntries
  <2> QED  BY <2>1, <2>2
<1>8. NeverBehind'
  BY <1>1, <1>2, <1>3, <1>4, HbFields DEF HbInv, NeverBehind, Pending, HbEntries, Marked
<1>9. FirstReported'
  BY <1>1, <1>2, <1>3, <1>4, HbFields
    DEF HbInv, FirstReported, Tested, Passed, SaysOperational, NeverBehind, HbEntries
<1>10. SaidOperational'
  BY <1>1, <1>2, <1>3, <1>4, HbFields DEF HbInv, SaidOperational, Passed, SaysOperational, HbEntries
<1> QED  BY <1>5, <1>6, <1>7, <1>8, <1>9, <1>10 DEF HbInv

\* A write of 0x1016 stops the monitoring of the node it is about.
LEMMA HbConfigured ==
    ASSUME HbInv, NEW j \in HbEntries, NEW time \in {0, HbConsTime}, ODF_1016(j, time)
    PROVE  HbInv'
<1> USE HbNumbers
<1> DEFINE e == Configured(cons[j], time)
<1>1. HbShape  BY DEF HbInv
<1>2. e \in Entry  BY <1>1, Messages, HbFields, ZenonT(60) DEF Entry, Configured
<1>3. e.time = time /\ e.state = "bootup" /\ e.new = cons[j].new
      /\ e.started = FALSE /\ e.timer = cons[j].timer
  BY <1>1, HbFields DEF Entry, Configured
<1>4. cons' = [cons EXCEPT ![j] = e]  BY DEF ODF_1016
<1> HIDE DEF e
<1>5. /\ cons' \in [HbEntries -> Entry] /\ cons'[j] = e
      /\ \A i \in HbEntries : i # j => cons'[i] = cons[i]
  BY <1>1, <1>2, <1>4, HbOneEntry
<1>6. /\ consPc.at = "idle" /\ consPc' = consPc
      /\ consPc' \in [at : HbSteps, entry : HbEntries, diff : HbTicks \cup {0}, all : BOOLEAN]
  BY <1>1 DEF HbShape, HbSteps, HbEntries, HbAt, After, HbIdle, ODF_1016
<1>7. /\ allOper' = allOper /\ alarms' = alarms
      /\ silence' = silence /\ booted' = booted /\ lastMsg' = lastMsg
  BY <1>1, HbFields DEF HbShape, HbTypeOK, ODF_1016
<1>8. HbShape'
  <2>1. HbTypeOK'  BY <1>1, <1>5, <1>6, <1>7 DEF HbShape, HbTypeOK, Entry
  <2> QED  BY <2>1, <1>1, <1>6, <1>7 DEF HbShape
<1>9. Marked'
  BY <1>1, <1>3, <1>5, <1>6, <1>7, HbFields DEF HbInv, Marked
<1>10. NeverAhead'
  <2> SUFFICES ASSUME NEW i \in HbEntries, (cons[i].started /\ ~cons[i].new /\ ~booted[i])'
               PROVE  (cons[i].timer + Pending(i) <= silence[i] \/ HbConsTime <= silence[i])'
    BY DEF NeverAhead
  <2>1. CASE i = j
        BY <1>1, <1>3, <1>5, <1>6, <1>7, HbFields, <2>1 DEF HbInv, NeverAhead, Marked, Pending, HbEntries
  <2>2. CASE i # j
        BY <1>1, <1>3, <1>5, <1>6, <1>7, HbFields, <2>2 DEF HbInv, NeverAhead, Pending, HbEntries
  <2> QED  BY <2>1, <2>2
<1>11. NeverBehind'
  BY <1>1, <1>3, <1>5, <1>6, <1>7, HbFields DEF HbInv, NeverBehind, Pending, HbEntries, Marked
<1>12. FirstReported'
  BY <1>1, <1>3, <1>5, <1>6, <1>7, HbFields
    DEF HbInv, FirstReported, Tested, Passed, SaysOperational, NeverBehind, HbEntries
<1>13. SaidOperational'
  BY <1>1, <1>3, <1>5, <1>6, <1>7, HbFields DEF HbInv, SaidOperational, Passed, SaysOperational, HbEntries
<1> QED  BY <1>8, <1>9, <1>10, <1>11, <1>12, <1>13 DEF HbInv

\* A heartbeat is received, between any two steps of the call.
LEMMA HbReceive ==
    ASSUME HbInv, NEW j \in HbEntries, NEW m \in HbMessages, HBcons_receive(j, m)
    PROVE  HbInv'
<1> USE HbNumbers
<1> DEFINE e == [cons[j] EXCEPT !.state = m, !.new = TRUE]
<1>1. HbShape  BY DEF HbInv
<1>2. e \in Entry  BY <1>1, Messages, HbFields, ZenonT(60) DEF Entry, Configured
<1>3. e.time = cons[j].time /\ e.state = m /\ e.new = TRUE
      /\ e.started = cons[j].started /\ e.timer = cons[j].timer
  BY <1>1, HbFields DEF Entry, Configured
<1>4. cons' = [cons EXCEPT ![j] = e]  BY DEF HBcons_receive
<1> HIDE DEF e
<1>5. /\ cons' \in [HbEntries -> Entry] /\ cons'[j] = e
      /\ \A i \in HbEntries : i # j => cons'[i] = cons[i]
  BY <1>1, <1>2, <1>4, HbOneEntry
<1>6. /\ consPc' = consPc
      /\ consPc' \in [at : HbSteps, entry : HbEntries, diff : HbTicks \cup {0}, all : BOOLEAN]
  BY <1>1 DEF HbShape, HbSteps, HbEntries, HbAt, After, HbIdle, HBcons_receive
<1>7. /\ allOper' = allOper /\ alarms' = alarms /\ cons[j].time # 0
      /\ silence' \in [HbEntries -> 0 .. HbCap] /\ booted' \in [HbEntries -> BOOLEAN]
        /\ lastMsg' \in [HbEntries -> HbMessages]
      /\ lastMsg'[j] = m
      /\ m # "bootup" => silence'[j] = 0 /\ booted'[j] = booted[j]
      /\ m = "bootup" => silence'[j] = silence[j] /\ booted'[j]
      /\ \A i \in HbEntries \ {j} : /\ silence'[i] = silence[i] /\ booted'[i] = booted[i]
                                   /\ lastMsg'[i] = lastMsg[i]
  <2>1. allOper' = allOper /\ alarms' = alarms /\ cons[j].time # 0  BY DEF HBcons_receive
  <2>2. lastMsg' = [lastMsg EXCEPT ![j] = m]  BY DEF HBcons_receive
  <2>3. silence' = IF m = "bootup" THEN silence ELSE [silence EXCEPT ![j] = 0]  BY DEF HBcons_receive
  <2>4. booted' = IF m = "bootup" THEN [booted EXCEPT ![j] = TRUE] ELSE booted  BY DEF HBcons_receive
  <2>5. silence \in [HbEntries -> 0 .. HbCap] /\ booted \in [HbEntries -> BOOLEAN]
        /\ lastMsg \in [HbEntries -> HbMessages]
    BY <1>1 DEF HbShape, HbTypeOK
  <2>6. CASE m = "bootup"  BY <2>1, <2>2, <2>3, <2>4, <2>5, <2>6
  <2>7. CASE m # "bootup"  BY <2>1, <2>2, <2>3, <2>4, <2>5, <2>7
  <2> QED  BY <2>6, <2>7
<1>8. HbShape'
  <2>1. HbTypeOK'  BY <1>1, <1>5, <1>6, <1>7 DEF HbShape, HbTypeOK, Entry
  <2> QED  BY <2>1, <1>1, <1>6, <1>7 DEF HbShape
<1>9. Marked'
  BY <1>1, <1>3, <1>5, <1>6, <1>7, HbFields DEF HbInv, Marked
<1>10. NeverAhead'
  <2> SUFFICES ASSUME NEW i \in HbEntries, (cons[i].started /\ ~cons[i].new /\ ~booted[i])'
               PROVE  (cons[i].timer + Pending(i) <= silence[i] \/ HbConsTime <= silence[i])'
    BY DEF NeverAhead
  <2>1. CASE i = j
        BY <1>1, <1>3, <1>5, <1>6, <1>7, HbFields, <2>1 DEF HbInv, NeverAhead, Marked, Pending, HbEntries
  <2>2. CASE i # j
        BY <1>1, <1>3, <1>5, <1>6, <1>7, HbFields, <2>2 DEF HbInv, NeverAhead, Pending, HbEntries
  <2> QED  BY <2>1, <2>2
<1>11. NeverBehind'
  <2>1. CASE j = 1
    <3>1. cons'[1].timer = cons[1].timer /\ cons'[1].started = cons[1].started /\ cons'[1].state = m
      BY <1>3, <1>5, <2>1
    <3>2. silence'[1] = 0 \/ (m = "bootup" /\ silence'[1] = silence[1])  BY <1>7, <2>1
    <3>3. Pending(1)' = Pending(1) /\ Pending(1) \in Nat  BY <1>1, <1>6, HbFields DEF Pending
    <3> QED  BY <1>1, <3>1, <3>2, <3>3, HbFields DEF HbInv, NeverBehind
  <2>2. CASE j # 1  BY <1>1, <1>5, <1>6, <1>7, <2>2, HbFields DEF HbInv, NeverBehind, Pending
  <2> QED  BY <2>1, <2>2
<1>12. FirstReported'
  BY <1>1, <1>3, <1>5, <1>6, <1>7, HbFields, ZenonT(60)
    DEF HbInv, FirstReported, Tested, Passed, SaysOperational, NeverBehind, HbEntries
<1>13. SaidOperational'
  <2> SUFFICES ASSUME NEW i \in HbEntries
               PROVE  (/\ cons[i].state \in {"bootup", lastMsg[i]}
                       /\ SaysOperational(i) /\ cons[i].started
                         => cons[i].new \/ lastMsg[i] = "operational")'
    BY DEF SaidOperational
  <2>1. CASE i = j  BY <1>3, <1>5, <1>7, <2>1
  <2>2. CASE i # j  BY <1>5, <1>6, <1>7, <2>2 DEF HbInv, SaidOperational, SaysOperational, Passed
  <2> QED  BY <2>1, <2>2
<1> QED  BY <1>8, <1>9, <1>10, <1>11, <1>12, <1>13 DEF HbInv

\* A step of something else.
LEMMA HbStutter == ASSUME HbInv, UNCHANGED hbVars PROVE HbInv'
<1> USE DEF HbInv, hbVars
<1>1. HbShape'  BY DEF HbShape, HbTypeOK
<1>2. Marked'  BY DEF Marked
<1>3. NeverAhead'  BY DEF NeverAhead, Pending
<1>4. NeverBehind'  BY DEF NeverBehind, Pending
<1>5. FirstReported'  BY DEF FirstReported, Tested, Passed, SaysOperational
<1>6. SaidOperational'  BY DEF SaidOperational, Passed, SaysOperational
<1> QED  BY <1>1, <1>2, <1>3, <1>4, <1>5, <1>6

\* A message that waits is consumed, whatever its kind.
LEMMA HbMessage == ASSUME HbInv, NEW j \in HbEntries, ConsumeMessage(j) PROVE HbInv'
BY HbHeartbeat, HbBootup

\* Every step of the consumer keeps the invariant.
LEMMA HbNextInv == HbInv /\ [HbNext]_hbVars => HbInv'
<1> SUFFICES ASSUME HbInv, [HbNext]_hbVars PROVE HbInv'  OBVIOUS
<1>1. CASE HbBegins  BY <1>1, HbBegin
<1>2. CASE ConsumeNothing  BY <1>2, HbNothing
<1>3. CASE HbEnds  BY <1>3, HbEnd
<1>4. ASSUME NEW i \in HbEntries,
             \/ ConsumeMessage(i) \/ ConsumeClear(i) \/ NoMessage(i) \/ ConsumeTimeout(i)
             \/ ConsumeLate(i) \/ ConsumeState(i)
      PROVE  HbInv'
  BY <1>4, HbMessage, HbClear, HbNoMessage, HbConsumeTimeout, HbLate, HbState
<1>5. ASSUME NEW i \in HbEntries, NEW time \in {0, HbConsTime}, ODF_1016(i, time) PROVE HbInv'
  BY <1>5, HbConfigured
<1>6. ASSUME NEW i \in HbEntries, NEW m \in HbMessages, HBcons_receive(i, m) PROVE HbInv'
  BY <1>6, HbReceive
<1>7. CASE UNCHANGED hbVars  BY <1>7, HbStutter
<1> QED  BY <1>1, <1>2, <1>3, <1>4, <1>5, <1>6, <1>7 DEF HbNext

\* The invariant holds throughout, for any number of nodes and any calling times.
THEOREM HbInvariant == HbSpec => []HbInv
BY HbInitInv, HbNextInv, PTL DEF HbSpec

\* The consumer's variables keep their types: the timer of a node never runs over the
\* consumer time and one call, so that its 16 bits do not wrap.
THEOREM HbTypeCorrect == HbSpec => []HbTypeOK
<1>1. HbInv => HbTypeOK  BY DEF HbInv, HbShape
<1> QED  BY <1>1, HbInvariant, PTL

\* The first monitored node, when it falls silent for the consumer time, is reported by the
\* next call, and allMonitoredOperational is withdrawn; of no node is it claimed whose last
\* message said otherwise, wherever in the call CO_HBcons_receive interrupts.  The nodes
\* after the first may be silent unreported: the run hb_second shows it.
THEOREM HbSilenceSeen == HbSpec => []ConsumerSeesSilence
<1>1. HbInv => ConsumerSeesSilence
  <2> SUFFICES ASSUME HbInv PROVE ConsumerSeesSilence  OBVIOUS
  <2>1. HbShape /\ 1 \in HbEntries /\ HbMaxTick \in Nat  BY HbNumbers DEF HbInv
  <2>2. HbAt("idle") /\ cons[1].started =>
          HbConsTime <= cons[1].timer \/ silence[1] <= cons[1].timer + HbMaxTick
    BY <2>1, HbFields DEF HbInv, NeverBehind, Pending, HbAt
  <2>3. HbAt("idle") /\ cons[1].started /\ HbConsTime <= cons[1].timer =>
          <<1, "late">> \in alarms /\ (allOper => cons[1].new)
    BY DEF HbInv, FirstReported, Tested, SaysOperational, HbAt
  <2>4. FirstNodeIsWatched
    BY <2>1, <2>2, <2>3, HbNumbers, HbFields DEF FirstNodeIsWatched, Watched
  <2>5. HbAt("idle") /\ allOper /\ cons[1].started /\ ~cons[1].new => silence[1] < HbConsTime + HbMaxTick
    BY <2>1, <2>2, <2>3, HbNumbers, HbFields
  <2>6. HbAt("idle") /\ allOper => \A i \in HbEntries : cons[i].started
        => cons[i].new \/ lastMsg[i] = "operational"
    BY DEF HbInv, SaidOperational, SaysOperational, HbAt
  <2> QED  BY <2>4, <2>5, <2>6 DEF ConsumerSeesSilence, AllOperationalIsTrue
<1> QED  BY <1>1, HbInvariant, PTL

\* A node is reported late only if it was silent for the consumer time, a heartbeat has come
\* since the test for one, or a boot-up was overwritten.
THEOREM HbAlarmsAreTrue == HbSpec => NoFalseAlarm
<1> DEFINE True == \A i \in HbEntries :
             (<<i, "late">> \in alarms' \ alarms) => silence[i] >= cons[i].time \/ cons[i].new \/ booted[i]
<1>1. HbInv /\ [HbNext]_hbVars => [True]_hbVars
  <2> SUFFICES ASSUME HbInv, HbNext, NEW i \in HbEntries, <<i, "late">> \in alarms' \ alarms
               PROVE  silence[i] >= cons[i].time \/ cons[i].new \/ booted[i]
    OBVIOUS
  <2>1. ConsumeTimeout(i)
    <3>1. ~(alarms' \subseteq alarms)  BY SMTT(60)
    <3>2. PICK j \in HbEntries : ConsumeTimeout(j)
      BY <3>1 DEF HbNext, HbBegins, ConsumeNothing, HbEnds, ConsumeMessage, ConsumeClear, NoMessage,
             ConsumeLate, ConsumeState, ODF_1016, HBcons_receive
    <3>3. j = i  BY <3>2 DEF ConsumeTimeout
    <3> QED  BY <3>2, <3>3
  <2>2. HbShape  BY DEF HbInv
  <2>3. cons[i].started /\ Counted(i) >= cons[i].time  BY <2>1 DEF ConsumeTimeout
  <2>4. HbAt("timeout") /\ consPc.entry = i  BY <2>1 DEF ConsumeTimeout
  <2>5. cons[i].time = HbConsTime  BY <2>3 DEF HbInv, Marked
  <2>6. Pending(i) = consPc.diff /\ consPc.diff \in Nat
        BY <2>2, <2>4, HbNumbers, HbFields DEF Pending, HbAt, HbEntries
  <2> QED  BY <2>2, <2>3, <2>5, <2>6, HbNumbers, HbFields DEF HbInv, NeverAhead, Counted
<1> QED  BY <1>1, HbInvariant, PTL DEF HbSpec, NoFalseAlarm

-----------------------------------------------------------------------------
Counts == 1 .. 240 \cup {254, 255}
Kinds == {"nothing", "event", "acyclic", "cyclic"}

\* The types, with those of the write under way and of the history.
PdoShape ==
    /\ PdoTypeOK
    /\ tpdo \in [valid : BOOLEAN, request : BOOLEAN, inhibit : Nat, event : Nat, count : Counts]
    /\ com \in [type : PdoTypes \cup {255}, inhibit : InhibitTimes, event : EventTimes,
                start : StartValues]
    /\ writing \in PdoTypes \cup {NoType}
    /\ did \in [kind : Kinds, taken : BOOLEAN, gap : Nat]
    /\ since \in 0 .. PdoCap /\ quietFor \in 0 .. PdoCap /\ lag \in 0 .. PdoCap /\ nth \in 0 .. PdoCap

\* What since will be at the next tick.
SinceNext == IF did.kind = "event" /\ did.taken THEN 1 ELSE Capped(since + 1)

\* The inhibit timer holds what is left of the inhibit time.
InhibitTimed ==
    tpdo.inhibit <= Minus(com.inhibit) /\ com.inhibit <= tpdo.inhibit + SinceNext

\* While a change waits, the PDO is inhibited, and has been from before it.
LagTimed == lag # 0 => tpdo.valid /\ lag + tpdo.inhibit < com.inhibit

\* The event timer holds what is left of its time since the last event driven
\* PDO, unless it ran down while the PDO was inhibited.
QuietTimed ==
    /\ tpdo.event <= com.event
    /\ tpdo.inhibit # 0 => quietFor + tpdo.inhibit < com.inhibit
    /\ com.event # 0 => \/ quietFor + tpdo.event <= com.event
                        \/ tpdo.event = 0 /\ quietFor + tpdo.inhibit < com.inhibit

\* After the first cyclic PDO, syncCounter holds the SYNCs up to the next one.
SyncsCounted ==
    Cyclic => /\ nth # 0 => tpdo.count \in 1 .. 240 /\ nth + tpdo.count = com.type + 1
              /\ did.gap \in {0, com.type}

PdoInv == PdoShape /\ InhibitKept /\ InhibitTimed /\ LagTimed /\ QuietTimed /\ SyncsCounted

\* What the assumption says of the constants, as numbers.
LEMMA PdoNumbers ==
    /\ PdoCap \in Nat /\ SyncOverflow \in Nat
    /\ \A t \in PdoTypes \cup {255} : t \in 0 .. 240 \cup {254, 255}
    /\ \A t \in PdoTypes : t \in 1 .. 240 => t < PdoCap
    /\ \A t \in InhibitTimes \cup EventTimes : t \in Nat /\ t < PdoCap
    /\ 0 \in InhibitTimes /\ 0 \in EventTimes
BY TpdoAssumption

\* The types, field by field.
LEMMA PdoFields ==
    ASSUME PdoShape
    PROVE  /\ tpdo.valid \in BOOLEAN /\ tpdo.request \in BOOLEAN
           /\ tpdo.inhibit \in Nat /\ tpdo.event \in Nat
           /\ tpdo.count \in Counts /\ tpdo.count \in Nat
           /\ com.type \in 0 .. 240 \cup {254, 255} /\ (Cyclic => com.type < PdoCap)
           /\ com.inhibit \in Nat /\ com.inhibit < PdoCap /\ com.event \in Nat /\ com.event < PdoCap
           /\ did.kind \in Kinds /\ did.taken \in BOOLEAN /\ did.gap \in Nat
           /\ since \in Nat /\ since <= PdoCap /\ quietFor \in Nat /\ quietFor <= PdoCap
           /\ lag \in Nat /\ lag <= PdoCap /\ nth \in Nat /\ nth <= PdoCap
           /\ SinceNext \in Nat
<1> USE PdoNumbers
<1>1. tpdo \in [valid : BOOLEAN, request : BOOLEAN, inhibit : Nat, event : Nat, count : Counts]
  BY DEF PdoShape
<1>2. tpdo.count \in Counts /\ tpdo.count \in Nat  BY <1>1 DEF Counts
<1>3. /\ com.type \in PdoTypes \cup {255} /\ com.inhibit \in InhibitTimes /\ com.event \in EventTimes
  BY DEF PdoShape
<1>4. /\ com.type \in 0 .. 240 \cup {254, 255} /\ (Cyclic => com.type < PdoCap)
      /\ com.inhibit \in Nat /\ com.inhibit < PdoCap /\ com.event \in Nat /\ com.event < PdoCap
  BY <1>3 DEF Cyclic
<1>5. did \in [kind : Kinds, taken : BOOLEAN, gap : Nat]  BY DEF PdoShape
<1>6. /\ since \in Nat /\ since <= PdoCap /\ quietFor \in Nat /\ quietFor <= PdoCap
      /\ lag \in Nat /\ lag <= PdoCap /\ nth \in Nat /\ nth <= PdoCap
  BY DEF PdoShape
<1>7. SinceNext \in Nat  BY <1>6 DEF SinceNext, Capped
<1> QED  BY <1>1, <1>2, <1>4, <1>5, <1>6, <1>7

\* CO_TPDO_init: the timers are zero and nothing has been sent.
LEMMA PdoInitInv == PdoInit => PdoInv
<1> SUFFICES ASSUME PdoInit PROVE PdoInv  OBVIOUS
<1> USE PdoNumbers DEF PdoInit, Nothing
<1>1. tpdo \in [valid : BOOLEAN, request : BOOLEAN, inhibit : Nat, event : Nat, count : Counts]
  BY DEF Counts
<1>2. com \in [type : PdoTypes \cup {255}, inhibit : InhibitTimes, event : EventTimes,
               start : StartValues]
      /\ com.type = 255 /\ com.inhibit = 0 /\ com.event = 0
  OBVIOUS
<1>3. did \in [kind : Kinds, taken : BOOLEAN, gap : Nat]  BY DEF Kinds
<1>4. txData \in [value : PdoValues, full : BOOLEAN] /\ value \in PdoValues  OBVIOUS
<1>5. PdoTypeOK  BY <1>1, <1>2, <1>4 DEF PdoTypeOK, Counts
<1>6. PdoShape  BY <1>1, <1>2, <1>3, <1>5 DEF PdoShape
<1>7. tpdo.inhibit = 0 /\ tpdo.event = 0 /\ lag = 0 /\ did.kind = "nothing" /\ ~Cyclic
  BY <1>2 DEF Cyclic
<1> HIDE DEF PdoInit
<1> QED  BY <1>2, <1>6, <1>7, PdoFields DEF PdoInv, InhibitKept, InhibitTimed, LagTimed, QuietTimed,
            SyncsCounted, Minus

\* What a tick sends, by the transmission type.
LEMMA ActsAreTyped ==
    ASSUME PdoInv, NEW b \in BOOLEAN, NEW no
    PROVE  /\ ToSend(b, no) \in Kinds
           /\ ToSend(b, no) = "event" <=> Active /\ EventDriven /\ EventDue
           /\ ToSend(b, no) = "cyclic" => Active /\ Cyclic /\ b /\ CyclicDue(no)
           /\ Active /\ Cyclic /\ b /\ CyclicDue(no) => ToSend(b, no) = "cyclic"
<1>1. com.type \in 0 .. 240 \cup {254, 255}  BY PdoFields DEF PdoInv
<1> QED  BY <1>1 DEF ToSend, Kinds, EventDriven, Cyclic

\* The SYNC counter after a tick that has sent a PDO of a kind.
CountGoesOn(kind, b) ==
    /\ CountAfter(kind, b) \in Counts
    /\ Active /\ Cyclic /\ b =>
         IF kind = "cyclic"
         THEN CountAfter(kind, b) = com.type /\ (nth # 0 => nth = com.type)
         ELSE nth # 0 => CountAfter(kind, b) = tpdo.count - 1 /\ tpdo.count # 1
    /\ ~(Active /\ Cyclic /\ b) => CountAfter(kind, b) = tpdo.count

\* syncCounter goes on by one with a SYNC, and restarts with a PDO.
LEMMA CountTimed ==
    ASSUME PdoInv, NEW b \in BOOLEAN, NEW no
    PROVE  CountGoesOn(ToSend(b, no), b)
<1> USE ActsAreTyped, PdoNumbers DEF CountGoesOn
<1>1. PdoShape /\ tpdo.count \in Counts /\ com.type \in 0 .. 240 \cup {254, 255}
  BY PdoFields DEF PdoInv
<1>2. CASE ~(Active /\ Cyclic /\ b)  BY <1>1, <1>2 DEF CountAfter
<1>3. CASE Active /\ Cyclic /\ b
  <2>1. Started \in 1 .. 240 \cup {254} /\ (tpdo.count # 255 => Started = tpdo.count)
    BY <1>1, <1>3 DEF Started, Cyclic, Counts
  <2>2. nth # 0 => tpdo.count \in 1 .. 240 /\ nth + tpdo.count = com.type + 1
    BY <1>3 DEF PdoInv, SyncsCounted
  <2>3. ToSend(b, no) = "cyclic" <=> CyclicDue(no)  BY <1>3
  <2>4. CountAfter(ToSend(b, no), b) = IF CyclicDue(no) THEN com.type
                                       ELSE IF Started = 254 THEN 254 ELSE Started - 1
    BY <1>3, <2>3 DEF CountAfter
  <2>5. CyclicDue(no) => com.type \in 1 .. 240 /\ (nth # 0 => tpdo.count = 1)
    BY <1>3, <2>1, <2>2 DEF CyclicDue, Cyclic
  <2>6. ~CyclicDue(no) => /\ Started = 254 \/ Started - 1 \in 1 .. 240
                          /\ nth # 0 => Started = tpdo.count /\ Started # 1
    BY <2>1, <2>2 DEF CyclicDue
  <2>7. nth \in Nat  BY <1>1, PdoFields
  <2>8. CASE CyclicDue(no)
    <3>1. CountAfter(ToSend(b, no), b) = com.type /\ com.type \in Counts  BY <2>4, <2>5, <2>8 DEF Counts
    <3>2. nth # 0 => nth = com.type  BY <1>1, <2>2, <2>5, <2>7, <2>8
    <3> QED  BY <1>3, <2>3, <2>8, <3>1, <3>2, Zenon
  <2>9. CASE ~CyclicDue(no)
    <3>1. CountAfter(ToSend(b, no), b) \in Counts  BY <2>1, <2>4, <2>6, <2>9 DEF Counts
    <3>2. nth # 0 => CountAfter(ToSend(b, no), b) = tpdo.count - 1 /\ tpdo.count # 1
      BY <2>2, <2>4, <2>6, <2>9
    <3> QED  BY <1>3, <2>3, <2>9, <3>1, <3>2, Zenon
  <2> QED  BY <2>8, <2>9
<1> QED  BY <1>2, <1>3

\* The millisecond timer: CO_TPDO_process, whatever it sends and whether or not the driver
\* takes it.
LEMMA PdoTicks == ASSUME PdoInv, NEW b \in BOOLEAN, PdoTick(b) PROVE PdoInv'
<1> DEFINE k(no) == ToSend(b, no)
           took(no) == k(no) # "nothing" /\ ~txData.full
<1>1. PICK no :
        /\ tpdo' = [tpdo EXCEPT
               !.request = RequestAfter(k(no)),
               !.count = CountAfter(k(no), b),
               !.inhibit = Minus(IF k(no) = "event" /\ took(no) THEN com.inhibit ELSE @),
               !.event = Minus(IF k(no) = "event" /\ took(no) THEN com.event ELSE @)]
        /\ IF k(no) = "nothing" THEN txData' = txData
           ELSE \E full \in {txData.full, TRUE} : txData' = [value |-> value, full |-> full]
        /\ did' = [kind |-> k(no), taken |-> took(no), gap |-> IF k(no) = "cyclic" THEN nth ELSE 0]
        /\ since' = SinceNext
        /\ quietFor' = IF k(no) = "event" \/ ~(Active /\ EventDriven) THEN 0 ELSE Capped(quietFor + 1)
        /\ lag' = IF Active /\ EventDriven /\ value # txData'.value THEN Capped(lag + 1) ELSE 0
        /\ nth' = IF ~(Active /\ Cyclic /\ b) THEN nth
                  ELSE IF k(no) = "cyclic" THEN 1
                  ELSE IF nth # 0 THEN Capped(nth + 1) ELSE 0
  BY DEF PdoTick, SinceNext
<1>2. com' = com /\ writing' = writing /\ value' = value /\ pdoOper' = pdoOper  BY DEF PdoTick
<1> DEFINE kind == ToSend(b, no)
           accepted == kind = "event" /\ ~txData.full
<1>3. PdoShape  BY DEF PdoInv
<1>4. /\ kind \in Kinds
      /\ kind = "event" <=> Active /\ EventDriven /\ EventDue
      /\ kind = "cyclic" => Active /\ Cyclic
  BY ActsAreTyped
<1>5. CountGoesOn(kind, b)  BY CountTimed
<1>6. RequestAfter(kind) \in BOOLEAN
  <2>1. CASE ~Active
    <3>1. CASE com.type >= 254  BY <2>1, <3>1 DEF RequestAfter
    <3>2. CASE ~(com.type >= 254)  BY <2>1, <3>2 DEF RequestAfter
    <3> QED  BY <3>1, <3>2
  <2>2. CASE Active
    <3>1. tpdo.request \in BOOLEAN  BY <1>3, PdoFields
    <3>2. Requested \in BOOLEAN  BY <3>1 DEF Requested
    <3> QED  BY <2>2, <3>2 DEF RequestAfter
  <2> QED  BY <2>1, <2>2
<1>7. \A n \in Nat : Minus(n) \in Nat /\ Minus(n) <= n /\ n <= Minus(n) + 1 /\ (n # 0 => Minus(n) < n)
  BY DEF Minus
<1>8. \A n \in Nat : Capped(n) \in Nat /\ Capped(n) <= n /\ Capped(n) <= PdoCap
                       /\ (Capped(n) = n \/ Capped(n) = PdoCap)
  BY PdoNumbers DEF Capped
<1>9. /\ tpdo' \in [valid : BOOLEAN, request : BOOLEAN, inhibit : Nat, event : Nat, count : Counts]
      /\ tpdo'.valid = tpdo.valid /\ tpdo'.count = CountAfter(kind, b)
      /\ tpdo'.inhibit = Minus(IF accepted THEN com.inhibit ELSE tpdo.inhibit)
      /\ tpdo'.event = Minus(IF accepted THEN com.event ELSE tpdo.event)
  <2> DEFINE i == Minus(IF accepted THEN com.inhibit ELSE tpdo.inhibit)
             e == Minus(IF accepted THEN com.event ELSE tpdo.event)
             c == CountAfter(kind, b)
             r == RequestAfter(kind)
  <2>1. i \in Nat /\ e \in Nat  BY <1>3, <1>7, PdoFields
  <2>2. tpdo' = [tpdo EXCEPT !.request = r, !.count = c, !.inhibit = i, !.event = e]  BY <1>1
  <2>3. r \in BOOLEAN /\ c \in Counts  BY <1>5, <1>6 DEF CountGoesOn
  <2> HIDE DEF i, e, c, r, accepted, kind
  <2>4. tpdo \in [valid : BOOLEAN, request : BOOLEAN, inhibit : Nat, event : Nat, count : Counts]
    BY <1>3 DEF PdoShape
  <2>5. /\ tpdo' \in [valid : BOOLEAN, request : BOOLEAN, inhibit : Nat, event : Nat, count : Counts]
        /\ tpdo'.valid = tpdo.valid /\ tpdo'.count = c /\ tpdo'.inhibit = i /\ tpdo'.event = e
    BY <2>1, <2>2, <2>3, <2>4
  <2> QED  BY <2>5 DEF i, e, c, accepted, kind
<1>10. did'.kind = kind /\ did'.taken = (kind # "nothing" /\ ~txData.full)
       /\ did'.gap = (IF kind = "cyclic" THEN nth ELSE 0)
       /\ did' \in [kind : Kinds, taken : BOOLEAN, gap : Nat]
  BY <1>1, <1>3, <1>4, PdoFields
<1>11. /\ txData' \in [value : PdoValues, full : BOOLEAN]
       /\ IF kind = "nothing" THEN txData' = txData ELSE txData'.value = value
  <2>1. value \in PdoValues /\ txData \in [value : PdoValues, full : BOOLEAN] /\ txData.full \in BOOLEAN
    BY <1>3 DEF PdoShape, PdoTypeOK
  <2>2. CASE kind = "nothing"  BY <1>1, <2>1, <2>2
  <2>3. CASE kind # "nothing"
    <3>1. PICK full \in {txData.full, TRUE} : txData' = [value |-> value, full |-> full]  BY <1>1, <2>3
    <3>2. full \in BOOLEAN  BY <2>1, <3>1
    <3> QED  BY <2>1, <2>3, <3>1, <3>2
  <2> QED  BY <2>2, <2>3
<1>12. /\ since' = SinceNext
       /\ quietFor' = IF kind = "event" \/ ~(Active /\ EventDriven) THEN 0 ELSE Capped(quietFor + 1)
       /\ lag' = IF Active /\ EventDriven /\ value # txData'.value THEN Capped(lag + 1) ELSE 0
       /\ nth' = IF ~(Active /\ Cyclic /\ b) THEN nth
                 ELSE IF kind = "cyclic" THEN 1
                 ELSE IF nth # 0 THEN Capped(nth + 1) ELSE 0
  BY <1>1
<1> HIDE DEF kind, k, took
<1>13. PdoShape'
  <2>1. tpdo'.count \in Counts /\ tpdo'.inhibit \in Nat /\ tpdo'.event \in Nat  BY <1>9
  <2>2. PdoTypeOK'  BY <1>2, <1>3, <1>11, <2>1 DEF PdoShape, PdoTypeOK, Counts
  <2>3. since' \in 0 .. PdoCap /\ quietFor' \in 0 .. PdoCap /\ lag' \in 0 .. PdoCap
    BY <1>3, <1>8, <1>12, PdoNumbers, PdoFields DEF SinceNext
  <2>4. nth' \in 0 .. PdoCap
    <3>1. Cyclic => 1 \in 0 .. PdoCap  BY <1>3, PdoNumbers, PdoFields DEF Cyclic
    <3>2. 0 \in 0 .. PdoCap /\ nth \in 0 .. PdoCap /\ Capped(nth + 1) \in 0 .. PdoCap
      BY <1>3, <1>8, PdoNumbers, PdoFields
    <3> QED  BY <1>12, <3>1, <3>2, Zenon
  <2> QED  BY <1>2, <1>3, <1>9, <1>10, <2>2, <2>3, <2>4 DEF PdoShape
<1>14. InhibitKept'
  BY <1>2, <1>3, <1>4, <1>10, <1>12, PdoFields DEF PdoInv, InhibitKept, InhibitTimed, EventDue
<1>15. InhibitTimed'
  <2>1. CASE accepted
    BY <1>2, <1>3, <1>4, <1>7, <1>9, <1>10, <2>1, PdoFields DEF InhibitTimed, SinceNext
  <2>2. CASE ~accepted
    <3>1. SinceNext' = Capped(SinceNext + 1)  BY <1>10, <1>12, <2>2 DEF SinceNext
    <3> QED  BY <1>2, <1>3, <1>7, <1>8, <1>9, <2>2, <3>1, PdoFields, SMTT(60) DEF PdoInv, InhibitTimed
  <2> QED  BY <2>1, <2>2
<1>16. LagTimed'
  <2> SUFFICES ASSUME lag' # 0 PROVE tpdo'.valid /\ lag' + tpdo'.inhibit < com.inhibit
    BY <1>2 DEF LagTimed
  <2>1. Active /\ EventDriven /\ value # txData'.value /\ lag' = Capped(lag + 1)  BY <1>12
  <2>2. kind = "nothing" /\ txData' = txData  BY <1>11, <2>1
  <2>3. tpdo.inhibit # 0  BY <1>4, <2>1, <2>2 DEF EventDue, Requested
  <2>4. tpdo'.inhibit = tpdo.inhibit - 1  BY <1>3, <1>7, <1>9, <2>2, <2>3, PdoFields
  <2>5. lag' <= lag + 1 /\ lag' \in Nat /\ lag \in Nat  BY <1>3, <1>8, <2>1, PdoFields
  <2>8. tpdo.inhibit \in Nat /\ com.inhibit \in Nat  BY <1>3, PdoFields
  <2>6. ASSUME lag = 0 PROVE lag' + tpdo'.inhibit < com.inhibit
    <3>1. tpdo.inhibit <= Minus(com.inhibit)  BY DEF PdoInv, InhibitTimed
    <3>2. Minus(com.inhibit) < com.inhibit  BY <1>3, <1>7, <2>3, <3>1, PdoFields
    <3>3. Minus(com.inhibit) \in Nat /\ Minus(com.inhibit) + 1 <= com.inhibit  BY <1>7, <2>8, <3>2
    <3>4. lag' <= 1 /\ tpdo'.inhibit + 1 <= Minus(com.inhibit)  BY <2>3, <2>4, <2>5, <2>6, <2>8, <3>1, <3>3
    <3> QED  BY <2>4, <2>5, <2>8, <3>3, <3>4
  <2>7. ASSUME lag # 0 PROVE lag' + tpdo'.inhibit < com.inhibit
    <3>1. lag + tpdo.inhibit < com.inhibit  BY <2>7 DEF PdoInv, LagTimed
    <3> QED  BY <2>3, <2>4, <2>5, <2>8, <3>1
  <2> QED  BY <1>9, <2>1, <2>6, <2>7 DEF Active
<1>17. QuietTimed'
  <2>1. tpdo'.event <= com.event
    <3>1. tpdo.event <= com.event  BY DEF PdoInv, QuietTimed
    <3> QED  BY <1>3, <1>7, <1>9, <3>1, PdoFields
  <2>2. CASE accepted
    <3>1. quietFor' = 0 /\ tpdo'.inhibit = Minus(com.inhibit)  BY <1>9, <1>12, <2>2
    <3> QED  BY <1>2, <1>3, <1>7, <1>9, <2>1, <3>1, PdoFields DEF QuietTimed
  <2>3. CASE ~accepted /\ quietFor' = 0
    <3>1. tpdo.inhibit # 0 => quietFor + tpdo.inhibit < com.inhibit  BY DEF PdoInv, QuietTimed
    <3>2. tpdo'.inhibit = Minus(tpdo.inhibit)  BY <1>9, <2>3
    <3>3. tpdo'.inhibit # 0 => tpdo'.inhibit < com.inhibit
      BY <1>3, <1>7, <3>1, <3>2, PdoFields
    <3> QED  BY <1>2, <1>3, <1>7, <1>9, <2>1, <2>3, <3>3, PdoFields DEF QuietTimed
  <2>4. CASE ~accepted /\ quietFor' # 0
    <3>1. Active /\ EventDriven /\ kind # "event" /\ quietFor' <= quietFor + 1 /\ quietFor' \in Nat
      BY <1>3, <1>8, <1>12, <2>4, PdoFields
    <3>2. tpdo.inhibit # 0 \/ (com.event # 0 => tpdo.event # 0)  BY <1>4, <3>1 DEF EventDue
    <3>3. tpdo'.inhibit = Minus(tpdo.inhibit) /\ tpdo'.event = Minus(tpdo.event)  BY <1>9, <2>4
    <3>4. \A n \in Nat : Minus(n) = IF n = 0 THEN 0 ELSE n - 1  BY DEF Minus
    <3>5. /\ tpdo.inhibit # 0 => quietFor + tpdo.inhibit < com.inhibit
          /\ com.event # 0 => \/ quietFor + tpdo.event <= com.event
                              \/ tpdo.event = 0 /\ quietFor + tpdo.inhibit < com.inhibit
      BY DEF PdoInv, QuietTimed
    <3>6. (tpdo.inhibit # 0 => quietFor + tpdo.inhibit < com.inhibit)'
      BY <1>2, <1>3, <3>1, <3>3, <3>4, <3>5, PdoFields
    <3>7. (com.event # 0 => \/ quietFor + tpdo.event <= com.event
                            \/ tpdo.event = 0 /\ quietFor + tpdo.inhibit < com.inhibit)'
      BY <1>2, <1>3, <3>1, <3>2, <3>3, <3>4, <3>5, PdoFields
    <3> QED  BY <1>2, <2>1, <3>6, <3>7 DEF QuietTimed
  <2> QED  BY <2>2, <2>3, <2>4
<1>18. SyncsCounted'
  <2> SUFFICES ASSUME Cyclic
               PROVE  /\ nth' # 0 => tpdo'.count \in 1 .. 240 /\ nth' + tpdo'.count = com.type + 1
                      /\ did'.gap \in {0, com.type}
    BY <1>2 DEF SyncsCounted, Cyclic
  <2>1. nth # 0 => tpdo.count \in 1 .. 240 /\ nth + tpdo.count = com.type + 1
    BY DEF PdoInv, SyncsCounted
  <2>2. com.type \in 1 .. 240 /\ com.type < PdoCap  BY <1>3, PdoFields DEF Cyclic
  <2>3. CASE ~(Active /\ b)
    <3>1. nth' = nth  BY <1>12, <2>3, Zenon
    <3>2. tpdo'.count = tpdo.count  BY <1>5, <1>9, <2>3, Zenon DEF CountGoesOn
    <3>3. kind # "cyclic"  BY <2>3, ActsAreTyped, Zenon DEF kind
    <3>4. did'.gap = 0  BY <1>10, <3>3
    <3> QED  BY <2>1, <3>1, <3>2, <3>4
  <2>4. CASE Active /\ b /\ kind = "cyclic"
    <3>1. nth' = 1 /\ tpdo'.count = com.type /\ did'.gap = nth /\ (nth # 0 => nth = com.type)
      BY <1>5, <1>9, <1>10, <1>12, <2>4 DEF CountGoesOn
    <3> QED  BY <2>2, <3>1
  <2>5. CASE Active /\ b /\ kind # "cyclic"
    <3>1. nth' = (IF nth # 0 THEN Capped(nth + 1) ELSE 0) /\ did'.gap = 0
      BY <1>10, <1>12, <2>5
    <3>2. nth # 0 => tpdo'.count = tpdo.count - 1 /\ tpdo.count # 1
      BY <1>5, <1>9, <2>5, ZenonT(60) DEF CountGoesOn
    <3>3. nth \in Nat /\ PdoCap \in Nat  BY <1>3, PdoNumbers, PdoFields
    <3>4. nth # 0 => nth + 1 <= com.type
      <4>1. ASSUME nth # 0
            PROVE  tpdo.count \in 1 .. 240 /\ tpdo.count # 1 /\ nth + tpdo.count = com.type + 1
        BY <2>1, <3>2, <4>1
      <4>2. ASSUME NEW n \in Nat, NEW c \in 1 .. 240, NEW t \in 1 .. 240, c # 1, n + c = t + 1
            PROVE  n + 1 <= t
        BY <4>2
      <4> QED  BY <2>2, <3>3, <4>1, <4>2, ZenonT(60)
    <3>5. nth # 0 => Capped(nth + 1) = nth + 1  BY <2>2, <3>3, <3>4 DEF Capped
    <3>6. nth' # 0 => nth # 0 /\ nth' = nth + 1  BY <3>1, <3>5
    <3>7. ASSUME nth' # 0 PROVE tpdo'.count \in 1 .. 240 /\ nth' + tpdo'.count = com.type + 1
      BY <2>1, <2>2, <3>2, <3>3, <3>6, <3>7
    <3> QED  BY <3>1, <3>7
  <2> QED  BY <2>3, <2>4, <2>5
<1> QED  BY <1>13, <1>14, <1>15, <1>16, <1>17, <1>18 DEF PdoInv

\* The invariant is not about the object's value, the driver's buffer or the node's state.
LEMMA PdoQuiet ==
    ASSUME PdoInv, UNCHANGED <<com, writing, tpdo, did, since, quietFor, lag, nth>>, value' \in PdoValues,
           txData' \in [value : PdoValues, full : BOOLEAN]
    PROVE  PdoInv'
BY DEF PdoInv, PdoShape, PdoTypeOK, InhibitKept, InhibitTimed, SinceNext, LagTimed, QuietTimed,
  SyncsCounted,
       Cyclic

\* The driver empties its buffer, the value or the operating state changes.
LEMMA PdoBuffer == ASSUME PdoInv, BufferEmpties \/ ValueChanges \/ PdoStateChanges PROVE PdoInv'
<1> USE DEF PdoInv, PdoShape, PdoTypeOK
<1>1. CASE BufferEmpties
  <2>1. txData' \in [value : PdoValues, full : BOOLEAN]  BY <1>1, ZenonT(60) DEF BufferEmpties
  <2> QED  BY <1>1, <2>1, PdoQuiet DEF BufferEmpties
<1>2. CASE ValueChanges  BY <1>2, PdoQuiet DEF ValueChanges
<1>3. CASE PdoStateChanges  BY <1>3, PdoQuiet DEF PdoStateChanges
<1> QED  BY <1>1, <1>2, <1>3

\* A write of the COB-ID: CO_TPDOconfigCom starts the SYNC counter over.
LEMMA PdoConfigured == ASSUME PdoInv, NEW b \in BOOLEAN, PdoConfigCom(b) PROVE PdoInv'
<1> USE DEF PdoConfigCom
<1>1. /\ tpdo' \in [valid : BOOLEAN, request : BOOLEAN, inhibit : Nat, event : Nat, count : Counts]
      /\ tpdo'.inhibit = tpdo.inhibit /\ tpdo'.event = tpdo.event /\ tpdo'.count = 255
  <2>1. 255 \in Counts  BY DEF Counts
  <2>2. tpdo \in [valid : BOOLEAN, request : BOOLEAN, inhibit : Nat, event : Nat, count : Counts]
    BY DEF PdoInv, PdoShape
  <2>3. tpdo' = [tpdo EXCEPT !.valid = b, !.count = 255]  OBVIOUS
  <2> HIDE DEF PdoConfigCom
  <2> QED  BY <2>1, <2>2, <2>3, ZenonT(60)
<1>2. txData' \in [value : PdoValues, full : BOOLEAN]  BY ZenonT(60) DEF PdoInv, PdoShape, PdoTypeOK
<1>3. PdoTypeOK'  BY <1>1, <1>2 DEF PdoInv, PdoShape, PdoTypeOK
<1>4. PdoShape'  BY <1>1, <1>3, PdoNumbers DEF PdoInv, PdoShape
<1>5. InhibitKept' /\ InhibitTimed' /\ QuietTimed'
  BY <1>1 DEF PdoInv, InhibitKept, InhibitTimed, SinceNext, QuietTimed
<1>6. LagTimed' /\ SyncsCounted'  BY DEF PdoInv, LagTimed, SyncsCounted, Cyclic
<1> QED  BY <1>4, <1>5, <1>6 DEF PdoInv

\* A write of the transmission type, with the timer between its two steps.
LEMMA PdoWritten ==
    ASSUME PdoInv, (\E t \in PdoTypes : WriteType(t)) \/ TypeWritten PROVE PdoInv'
<1>1. CASE \E t \in PdoTypes : WriteType(t)
  <2> PICK t \in PdoTypes : WriteType(t)  BY <1>1
  <2> USE DEF WriteType
  <2>1. /\ tpdo' \in [valid : BOOLEAN, request : BOOLEAN, inhibit : Nat, event : Nat, count : Counts]
        /\ tpdo'.inhibit = tpdo.inhibit /\ tpdo'.event = tpdo.event /\ tpdo'.count = 255
        /\ tpdo'.valid = tpdo.valid
    BY DEF PdoInv, PdoShape, Counts
  <2>2. PdoTypeOK'  BY <2>1 DEF PdoInv, PdoShape, PdoTypeOK
  <2>3. PdoShape'  BY <2>1, <2>2, PdoNumbers DEF PdoInv, PdoShape
  <2>4. InhibitKept' /\ InhibitTimed' /\ QuietTimed'
    BY <2>1 DEF PdoInv, InhibitKept, InhibitTimed, SinceNext, QuietTimed
  <2>5. LagTimed' /\ SyncsCounted'  BY <2>1 DEF PdoInv, LagTimed, SyncsCounted, Cyclic
  <2> QED  BY <2>3, <2>4, <2>5 DEF PdoInv
<1>2. CASE TypeWritten
  <2> USE <1>2 DEF TypeWritten
  <2>1. /\ com' \in [type : PdoTypes \cup {255}, inhibit : InhibitTimes, event : EventTimes,
                      start : StartValues]
        /\ com'.inhibit = com.inhibit /\ com'.event = com.event
    BY DEF PdoInv, PdoShape
  <2>2. PdoTypeOK'  BY <2>1 DEF PdoInv, PdoShape, PdoTypeOK
  <2>3. did' \in [kind : Kinds, taken : BOOLEAN, gap : Nat] /\ did'.kind = "nothing" /\ did'.gap = 0
    BY DEF Nothing, Kinds
  <2>4. PdoShape'  BY <2>1, <2>2, <2>3, PdoNumbers DEF PdoInv, PdoShape
  <2>5. /\ tpdo.inhibit \in Nat /\ com.inhibit \in Nat /\ com.event \in Nat /\ tpdo.event \in Nat
        /\ PdoCap \in Nat /\ com.inhibit < PdoCap
    BY PdoNumbers, PdoFields DEF PdoInv
  <2>6. SinceNext' = PdoCap  BY <2>3, PdoNumbers DEF SinceNext, Capped
  <2>7. InhibitKept'  BY <2>3 DEF InhibitKept
  <2>8. InhibitTimed'
    <3>1. tpdo.inhibit <= Minus(com.inhibit)  BY DEF PdoInv, InhibitTimed
    <3> QED  BY <2>1, <2>5, <2>6, <3>1 DEF InhibitTimed
  <2>9. QuietTimed'
    <3>1. tpdo.event <= com.event  BY DEF PdoInv, QuietTimed
    <3>2. tpdo.inhibit # 0 => tpdo.inhibit < com.inhibit
      <4>1. quietFor \in Nat  BY PdoFields DEF PdoInv
      <4> QED  BY <2>5, <4>1 DEF PdoInv, QuietTimed
    <3>3. quietFor' = 0 /\ tpdo' = tpdo  OBVIOUS
    <3> QED  BY <2>1, <2>5, <3>1, <3>2, <3>3 DEF QuietTimed
  <2>10. LagTimed' /\ SyncsCounted'  BY <2>3 DEF LagTimed, SyncsCounted, Cyclic
  <2> QED  BY <2>4, <2>7, <2>8, <2>9, <2>10 DEF PdoInv
<1> QED  BY <1>1, <1>2

\* Writes of the inhibit time, for a PDO that is not valid, and of the event timer.
LEMMA PdoTimesWritten ==
    ASSUME PdoInv, (\E t \in InhibitTimes : WriteInhibit(t)) \/ (\E t \in EventTimes : WriteEvent(t))
    PROVE  PdoInv'
<1>1. CASE \E t \in InhibitTimes : WriteInhibit(t)
  <2> PICK t \in InhibitTimes : WriteInhibit(t)  BY <1>1
  <2> USE DEF WriteInhibit
  <2>1. /\ tpdo' \in [valid : BOOLEAN, request : BOOLEAN, inhibit : Nat, event : Nat, count : Counts]
        /\ tpdo'.inhibit = 0 /\ tpdo'.event = tpdo.event /\ tpdo'.count = tpdo.count
    BY DEF PdoInv, PdoShape
  <2>2. /\ com' \in [type : PdoTypes \cup {255}, inhibit : InhibitTimes, event : EventTimes,
                      start : StartValues]
        /\ com'.inhibit = t /\ com'.event = com.event /\ com'.type = com.type
    BY DEF PdoInv, PdoShape
  <2>3. did' \in [kind : Kinds, taken : BOOLEAN, gap : Nat] /\ did'.kind = "nothing" /\ did'.gap = 0
    BY DEF Nothing, Kinds
  <2>4. PdoTypeOK'  BY <2>1, <2>2 DEF PdoInv, PdoShape, PdoTypeOK
  <2>5. PdoShape'  BY <2>1, <2>2, <2>3, <2>4, PdoNumbers DEF PdoInv, PdoShape
  <2>6. t \in Nat /\ t < PdoCap /\ PdoCap \in Nat /\ SinceNext' = PdoCap
    BY <2>3, PdoNumbers DEF SinceNext, Capped
  <2>7. InhibitKept' /\ InhibitTimed'  BY <2>1, <2>2, <2>3, <2>6 DEF InhibitKept, InhibitTimed, Minus
  <2>8. QuietTimed'
    <3>1. tpdo.event <= com.event /\ tpdo.event \in Nat /\ com.event \in Nat
      BY PdoFields DEF PdoInv, QuietTimed
    <3>2. quietFor' = 0  OBVIOUS
    <3> QED  BY <2>1, <2>2, <3>1, <3>2 DEF QuietTimed
  <2>9. LagTimed'
    <3>1. lag = 0  BY DEF PdoInv, LagTimed
    <3> QED  BY <3>1 DEF LagTimed
  <2>10. SyncsCounted'  BY <2>1, <2>2, <2>3 DEF PdoInv, SyncsCounted, Cyclic
  <2> QED  BY <2>5, <2>7, <2>8, <2>9, <2>10 DEF PdoInv
<1>2. CASE \E t \in EventTimes : WriteEvent(t)
  <2> PICK t \in EventTimes : WriteEvent(t)  BY <1>2
  <2> USE DEF WriteEvent
  <2>0. t \in Nat  BY PdoNumbers
  <2>1. /\ tpdo' \in [valid : BOOLEAN, request : BOOLEAN, inhibit : Nat, event : Nat, count : Counts]
        /\ tpdo'.inhibit = tpdo.inhibit /\ tpdo'.event = t /\ tpdo'.count = tpdo.count
        /\ tpdo'.valid = tpdo.valid
    BY <2>0 DEF PdoInv, PdoShape
  <2>2. /\ com' \in [type : PdoTypes \cup {255}, inhibit : InhibitTimes, event : EventTimes,
                      start : StartValues]
        /\ com'.inhibit = com.inhibit /\ com'.event = t /\ com'.type = com.type
    BY DEF PdoInv, PdoShape
  <2>3. PdoTypeOK'  BY <2>1, <2>2 DEF PdoInv, PdoShape, PdoTypeOK
  <2>4. PdoShape'  BY <2>1, <2>2, <2>3, PdoNumbers DEF PdoInv, PdoShape
  <2>5. InhibitKept' /\ InhibitTimed' /\ LagTimed' /\ SyncsCounted'
    BY <2>1, <2>2 DEF PdoInv, InhibitKept, InhibitTimed, SinceNext, LagTimed, SyncsCounted, Cyclic
  <2>6. QuietTimed'
    <3>1. tpdo.inhibit # 0 => tpdo.inhibit < com.inhibit
      <4>1. quietFor \in Nat /\ tpdo.inhibit \in Nat /\ com.inhibit \in Nat  BY PdoFields DEF PdoInv
      <4> QED  BY <4>1 DEF PdoInv, QuietTimed
    <3>2. quietFor' = 0 /\ tpdo.inhibit \in Nat  BY PdoFields DEF PdoInv
    <3> QED  BY <2>0, <2>1, <2>2, <3>1, <3>2 DEF QuietTimed
  <2> QED  BY <2>4, <2>5, <2>6 DEF PdoInv
<1> QED  BY <1>1, <1>2

\* Every step of the PDO keeps the invariant.
LEMMA PdoNextInv == ASSUME PdoInv, [PdoNext]_pdoVars PROVE PdoInv'
<1>1. CASE UNCHANGED pdoVars
  <2>1. value \in PdoValues /\ txData \in [value : PdoValues, full : BOOLEAN]
    BY DEF PdoInv, PdoShape, PdoTypeOK
  <2> QED  BY <1>1, <2>1, PdoQuiet DEF pdoVars
<1>2. CASE PdoNext  BY <1>2, PdoTicks, PdoConfigured, PdoBuffer, PdoWritten, PdoTimesWritten DEF PdoNext
<1> QED  BY <1>1, <1>2

\* The invariant holds throughout, for any times and types that may be written.
THEOREM PdoInvariant == PdoSpec => []PdoInv
BY PdoInitInv, PdoNextInv, PTL DEF PdoSpec

\* The PDO's variables keep their types: syncCounter never runs through 0 to 255 or up to
\* 254, which have a meaning of their own.
THEOREM PdoTypeCorrect == PdoSpec => []PdoTypeOK
<1>1. PdoInv => PdoTypeOK  BY DEF PdoInv, PdoShape
<1> QED  BY <1>1, PdoInvariant, PTL

\* Event driven PDOs keep the inhibit time and the event timer, and a change waits for the
\* inhibit time at most.
THEOREM PdoTimersKept == PdoSpec => []TimersKept
<1>1. ASSUME PdoInv PROVE TimersKept
  <2>1. /\ tpdo.inhibit \in Nat /\ com.inhibit \in Nat /\ com.event \in Nat /\ tpdo.event \in Nat
        /\ lag \in Nat /\ quietFor \in Nat
    BY <1>1, PdoFields DEF PdoInv
  <2>2. ChangeIsSent  BY <1>1, <2>1 DEF PdoInv, LagTimed, ChangeIsSent
  <2>3. EventTimerKept  BY <1>1, <2>1 DEF PdoInv, QuietTimed, EventTimerKept
  <2> QED  BY <1>1, <2>2, <2>3 DEF PdoInv, TimersKept
<1> QED  BY <1>1, PdoInvariant, PTL

\* A cyclic PDO is sent with every n-th SYNC exactly.
THEOREM PdoEveryNthSync == PdoSpec => []EveryNthSync
<1>1. ASSUME PdoInv PROVE EveryNthSync
  <2>1. nth \in Nat /\ com.type \in 0 .. 240 \cup {254, 255}  BY <1>1, PdoFields DEF PdoInv
  <2>2. Cyclic => nth <= com.type
    <3>1. ASSUME Cyclic, nth # 0 PROVE tpdo.count \in 1 .. 240 /\ nth + tpdo.count = com.type + 1
      BY <1>1, <3>1 DEF PdoInv, SyncsCounted
    <3>2. Cyclic => com.type \in 1 .. 240  BY DEF Cyclic
    <3>3. ASSUME NEW n \in Nat, NEW c \in 1 .. 240, NEW t \in 1 .. 240, n + c = t + 1
          PROVE  n <= t
      BY <3>3, SMTT(60)
    <3>4. ASSUME Cyclic, nth # 0 PROVE nth <= com.type
      <4>1. tpdo.count \in 1 .. 240 /\ nth + tpdo.count = com.type + 1  BY <3>1, <3>4
      <4>2. com.type \in 1 .. 240  BY <3>2, <3>4
      <4>3. nth \in Nat  BY <2>1
      <4> HIDE <2>1
      <4> QED  BY <3>3, <4>1, <4>2, <4>3, ZenonT(60)
    <3>5. ASSUME Cyclic, nth = 0 PROVE nth <= com.type  BY <3>2, <3>5
    <3> QED  BY <3>4, <3>5
  <2> QED  BY <1>1, <2>2 DEF PdoInv, SyncsCounted, EveryNthSync
<1> QED  BY <1>1, PdoInvariant, PTL

-----------------------------------------------------------------------------
\* In the node, which runs one of its parts in a behaviour, each behaves as it does alone.
THEOREM NodeRunsParts == NodeSpec => NmtSpec /\ HbSpec /\ PdoSpec
<1>1. NodeInit => NmtInit /\ HbInit /\ PdoInit  BY DEF NodeInit
<1>2. [NodeNext]_<<part, vars, nmtVars, hbVars, pdoVars>>
        => [NmtNext]_nmtVars /\ [HbNext]_hbVars /\ [PdoNext]_pdoVars
  BY Zenon DEF NodeNext
<1> QED  BY <1>1, <1>2, PTL DEF NodeSpec, NmtSpec, HbSpec, PdoSpec

\* The types and ranges of the node's parts.
THEOREM NodeTypeCorrect == NodeSpec => []NodeTypeOK
<1>1. NmtTypeOK /\ HbTypeOK /\ PdoTypeOK => NodeTypeOK  BY DEF NodeTypeOK
<1> QED  BY <1>1, NodeRunsParts, NmtTypeCorrect, HbTypeCorrect, PdoTypeCorrect, PTL
=============================================================================
