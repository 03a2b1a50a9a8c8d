---------------------------- MODULE DriversProofs ----------------------------
(***************************************************************************)
(* Proofs about the parts of MCDrivers that run on the player's computer:  *)
(* the mock camera, the settings, the camera with its observers, and the   *)
(* calibration of a bar, each for every value of its constants.            *)
(***************************************************************************)
EXTENDS MCDrivers, CanTxProofs, TLAPS

-----------------------------------------------------------------------------
(* The mock camera. *)

CallerSteps2 == {"idle", "source", "token", "run"}
LoopSteps == {"none", "queued", "test", "delay", "ended"}

\* Token sources are numbered by their starts, and what is cancelled has been made.
MockShape ==
    /\ caller \in CallerSteps2 /\ acquiring \in BOOLEAN
    /\ tokenSource \in 0 .. MaxStarts /\ ct \in 0 .. MaxStarts
    /\ cancelled \subseteq 1 .. tokenSource
    /\ loops \in [Starts -> LoopSteps]

\* Where the call is, and what it has done of the start.
StartGoesOn ==
    /\ caller # "idle" => acquiring
    /\ caller = "source" => tokenSource < MaxStarts
    /\ caller \in {"token", "run"} => tokenSource # 0 /\ tokenSource \notin cancelled
    /\ caller = "run" => ct = tokenSource
    /\ acquiring /\ caller = "idle" =>
         tokenSource # 0 /\ ct = tokenSource /\ tokenSource \notin cancelled
           /\ loops[tokenSource] \notin Ended

MockInv == MockShape /\ StartGoesOn

\* A call of Subscribe or Dispose keeps the mock camera's invariant: the token that
\* Task.Run's loop gets is that of the newest source, which nobody has cancelled yet.
LEMMA MockCalls ==
    ASSUME MockInv, FirstObserver \/ NewTokenSource \/ TakeToken \/ TaskRun \/ LastObserver
    PROVE  MockInv'
<1> USE MockAssumption DEF MockInv, MockShape, StartGoesOn, CallerSteps2
<1>1. CASE FirstObserver  BY <1>1 DEF FirstObserver
<1>2. CASE NewTokenSource  BY <1>2 DEF NewTokenSource
<1>3. CASE TakeToken  BY <1>3 DEF TakeToken
<1>4. CASE TaskRun
  <2>1. tokenSource \in Starts  BY <1>4 DEF TaskRun, Starts
  <2>2. loops' \in [Starts -> LoopSteps] /\ loops'[tokenSource] = "queued"
    BY <1>4, <2>1 DEF TaskRun, LoopSteps
  <2>3. caller' = "idle" /\ caller = "run" /\ UNCHANGED <<acquiring, tokenSource, ct, cancelled>>
    BY <1>4 DEF TaskRun
  <2>4. "queued" \notin Ended  BY DEF Ended
  <2>5. loops'[tokenSource'] \notin Ended  BY <2>2, <2>3, <2>4
  <2> HIDE DEF StartGoesOn
  <2>6. StartGoesOn'
    <3>1. tokenSource # 0 /\ tokenSource \notin cancelled /\ ct = tokenSource  BY <2>3 DEF StartGoesOn
    <3> QED  BY <2>3, <2>5, <3>1 DEF StartGoesOn
  <2> QED  BY <2>2, <2>3, <2>6
<1>5. CASE LastObserver
  <2>1. tokenSource \in 1 .. tokenSource  BY <1>5 DEF LastObserver
  <2>2. (cancelled \cup {tokenSource}) \subseteq 1 .. tokenSource  BY <2>1
  <2>3. cancelled' \subseteq 1 .. tokenSource'  BY <1>5, <2>2 DEF LastObserver
  <2> QED  BY <1>5, <2>3 DEF LastObserver
<1> QED  BY <1>1, <1>2, <1>3, <1>4, <1>5

\* So does a step of a loop: it ends only after its own token or the newest one has been
\* cancelled, so that the loop of the running acquisition does not.
LEMMA MockLoops == ASSUME MockInv, NEW i \in Starts, Loop(i) PROVE MockInv'
<1> USE DEF MockInv, MockShape
<1>1. UNCHANGED <<caller, acquiring, tokenSource, ct, cancelled>>
  BY DEF Loop, TaskBegins, LoopTests, LoopPushes, Becomes
<1>2. PICK at \in LoopSteps :
        /\ loops' = [loops EXCEPT ![i] = at]
        /\ at = "ended" => i \in cancelled \/ ct \in cancelled
        /\ at # "none"
  BY DEF Loop, TaskBegins, LoopTests, LoopPushes, Becomes, LoopSteps
<1>3. loops' \in [Starts -> LoopSteps] /\ loops'[i] = at
        /\ \A j \in Starts : j # i => loops'[j] = loops[j]
  BY <1>2
<1>4. ASSUME acquiring, caller = "idle"
      PROVE  loops'[tokenSource] \notin Ended
  <2>1. /\ tokenSource \in Starts /\ ct = tokenSource /\ tokenSource \notin cancelled
        /\ loops[tokenSource] \notin Ended
    BY <1>4 DEF StartGoesOn, Starts
  <2> QED  BY <1>2, <1>3, <2>1 DEF Ended
<1> QED  BY <1>1, <1>3, <1>4 DEF StartGoesOn

\* In every behaviour of the mock camera the running acquisition has a loop of its own,
\* however many starts there are and however late the loops of earlier ones end.
THEOREM MockInvariant == MockSpec => []MockInv
<1>1. MockInit => MockInv
  <2> SUFFICES ASSUME MockInit PROVE MockInv  OBVIOUS
  <2>1. loops \in [Starts -> LoopSteps]  BY DEF MockInit, LoopSteps
  <2>2. 0 \in 0 .. MaxStarts  BY MockAssumption
  <2> QED  BY <2>1, <2>2 DEF MockInit, MockInv, MockShape, StartGoesOn, CallerSteps2
<1>2. MockInv /\ [MockNext]_mockVars => MockInv'
  <2> SUFFICES ASSUME MockInv, [MockNext]_mockVars PROVE MockInv'  OBVIOUS
  <2>1. CASE UNCHANGED mockVars  BY <2>1 DEF mockVars, MockInv, MockShape, StartGoesOn
  <2> QED  BY <2>1, MockCalls, MockLoops DEF MockNext
<1> QED  BY <1>1, <1>2, PTL DEF MockSpec

\* While somebody observes the mock camera, frames are pushed to him.
THEOREM MockIsServing == MockSpec => []MockServes
<1>1. MockInv => MockServes  BY DEF MockInv, StartGoesOn, MockServes
<1> QED  BY <1>1, MockInvariant, PTL

-----------------------------------------------------------------------------
(* The settings. *)

RequestSteps == {"idle", "exists", "create", "read", "apply", "serialize", "write", "notify", "set"}
Values == {Missing, 0, 1}

\* A section of the file is whole.
Texts == {t \in [Params -> Values] : t["TestNumber"] = Missing <=> t["TestNumber2"] = Missing}

RequestRecord ==
    [at : RequestSteps, param : Params \cup {""}, value : {OutOfRange, 0, 1}, text : Texts,
     brightness : {0, 1}]

\* The types, with those of what a request carries.
SettingsShape ==
    /\ request \in [Requests -> RequestRecord]
    /\ memory \in [Params -> {0, 1}]
    /\ file \in [made : BOOLEAN, text : Texts] /\ (file.text # EmptyFile => file.made)
    /\ camera \in [state : {"Ready", "NotConnected"}, brightness : {0, 1}]
    /\ alone \subseteq Busy /\ settled \subseteq Sections

\* What a request has done of its work.
RequestGoesOn ==
    \A r \in Requests :
        /\ ~At(r, "idle") => request[r].param \in Params
        /\ request[r].at \in {"read", "apply", "serialize", "write", "notify", "set"} => file.made
        /\ request[r].at \in {"serialize", "write", "notify", "set"} => request[r].value # OutOfRange
        /\ At(r, "set") => SectionOf(r) = "GenieNano"

\* A request that is alone is the only one.
AloneIsOnly == \A r \in alone : Busy = {r}

\* A text or the file has a section as it is in memory.
Current(text, s) == \A p \in Params : Section(p) = s => text[p] = memory[p]

\* What a request that is alone writes, and has written, is its section as it is in memory.
OwnIsCurrent ==
    \A r \in alone :
        /\ At(r, "write") => Current(request[r].text, SectionOf(r))
        /\ request[r].at \in {"notify", "set"} => Current(file.text, SectionOf(r))
        /\ At(r, "set") => request[r].brightness = memory["Brightness"]

\* The file has a settled section as it is in memory, and every text that may still
\* be written; nobody is about to change it or to make the file again.
SettledIsKept ==
    \A s \in settled :
        /\ file.made /\ Current(file.text, s)
        /\ \A r \in Requests :
             /\ ~At(r, "create")
             /\ ~At(r, "idle") /\ SectionOf(r) = s => request[r].value = OutOfRange
             /\ request[r].at \in {"apply", "serialize", "write"} => Current(request[r].text, s)

\* So has the camera.
CameraIsKept ==
    camera.state = "Ready" /\ "GenieNano" \in settled => camera.brightness = memory["Brightness"]

SettingsInv ==
    /\ SettingsShape /\ RequestGoesOn /\ AloneIsOnly
    /\ OwnIsCurrent /\ SettledIsKept /\ CameraIsKept

\* Brightness is the only parameter of its section; the other two share theirs.
LEMMA SectionIs ==
    /\ Params = {"Brightness", "TestNumber", "TestNumber2"}
    /\ \A p \in Params : Section(p) \in Sections
    /\ Section("Brightness") = "GenieNano"
    /\ Section("TestNumber") = Section("TestNumber2")
    /\ \A p \in Params : Section(p) = "GenieNano" => p = "Brightness"
    /\ EmptyFile \in Texts
BY DEF Params, Section, Sections, EmptyFile, Texts, Values, Missing

\* What the record of a request holds.
LEMMA SettingsFields ==
    ASSUME SettingsShape, NEW r \in Requests
    PROVE  /\ request[r] \in RequestRecord /\ request[r].at \in RequestSteps
           /\ request[r].param \in Params \cup {""} /\ request[r].value \in {OutOfRange, 0, 1}
           /\ request[r].text \in Texts /\ request[r].brightness \in {0, 1}
           /\ r \in Busy <=> request[r].at # "idle"
           /\ request[r].param \in Params => SectionOf(r) \in Sections
BY SectionIs DEF SettingsShape, RequestRecord, Busy, SectionOf

\* When a request takes a step the others stay where they were.
LEMMA OneRequest ==
    ASSUME SettingsShape, NEW r \in Requests, NEW q \in RequestRecord, request' = [request EXCEPT ![r] = q]
    PROVE  /\ request' \in [Requests -> RequestRecord] /\ request'[r] = q
           /\ \A o \in Requests : o # r => request'[o] = request[o]
           /\ q.at # "idle" => Busy' = Busy \cup {r}
           /\ q.at = "idle" => Busy' = Busy \ {r}
BY DEF SettingsShape, Busy

\* What a step of a request leaves alone, as far as it goes on with its own section.
\* A request that goes on with its section: the set of running requests is the same,
\* and if one is alone it is this one.
LEMMA RequestContinues ==
    ASSUME SettingsInv, NEW r \in Requests, request[r].at # "idle",
           NEW q \in RequestRecord, request' = [request EXCEPT ![r] = q], q.at # "idle",
           q.param = request[r].param, UNCHANGED <<alone, settled>>
    PROVE  /\ request' \in [Requests -> RequestRecord] /\ request'[r] = q
           /\ \A o \in Requests : o # r => request'[o] = request[o]
           /\ Busy' = Busy /\ alone' \subseteq Busy' /\ AloneIsOnly'
           /\ request[r].param \in Params /\ SectionOf(r) \in Sections /\ SectionOf(r)' = SectionOf(r)
           /\ \A o \in alone : o = r
<1>1. SettingsShape  BY DEF SettingsInv
<1>2. /\ request' \in [Requests -> RequestRecord] /\ request'[r] = q
      /\ \A o \in Requests : o # r => request'[o] = request[o]
      /\ r \in Busy /\ Busy' = Busy
  <2>1. r \in Busy  BY <1>1, SettingsFields
  <2>2. Busy' = Busy \cup {r}  BY <1>1, OneRequest
  <2>3. Busy' = Busy  BY <2>1, <2>2
  <2> QED  BY <1>1, <2>1, <2>3, OneRequest
<1>3. alone \subseteq Busy /\ alone \subseteq Requests  BY <1>1 DEF SettingsShape, Busy
<1>4. \A o \in alone : Busy = {o} /\ o = r  BY <1>2 DEF SettingsInv, AloneIsOnly
<1>5. request[r].param \in Params  BY DEF SettingsInv, RequestGoesOn, At
<1>6. SectionOf(r) \in Sections /\ SectionOf(r)' = SectionOf(r)  BY <1>2, <1>5, SectionIs DEF SectionOf
<1> QED  BY <1>2, <1>3, <1>4, <1>5, <1>6 DEF AloneIsOnly

\* UpdateParameter finds the file made or not; when a section is settled the file is made.
LEMMA FileExistsKeeps == ASSUME SettingsInv, NEW r \in Requests, FileExists(r) PROVE SettingsInv'
<1> DEFINE q == [request[r] EXCEPT !.at = IF file.made THEN "read" ELSE "create"]
<1>1. SettingsShape /\ RequestGoesOn  BY DEF SettingsInv
<1>2. request[r].at = "exists"  BY DEF FileExists, At
<1>3. q \in RequestRecord
  BY <1>1, SettingsFields DEF RequestRecord, RequestSteps
<1>4. request' = [request EXCEPT ![r] = q]
  BY <1>1, SettingsFields DEF FileExists, Goes, SettingsShape, RequestRecord
<1>5. /\ q.at = (IF file.made THEN "read" ELSE "create") /\ q.param = request[r].param
      /\ q.value = request[r].value /\ q.at # "idle"
  BY <1>1, SettingsFields DEF RequestRecord
<1>6. UNCHANGED <<alone, settled>>  BY DEF FileExists
<1>7. UNCHANGED <<memory, file, camera>>  BY DEF FileExists
<1> HIDE DEF q
<1>8. /\ request' \in [Requests -> RequestRecord] /\ request'[r] = q
      /\ \A o \in Requests : o # r => request'[o] = request[o]
      /\ Busy' = Busy /\ alone' \subseteq Busy' /\ AloneIsOnly'
      /\ request[r].param \in Params /\ SectionOf(r) \in Sections /\ SectionOf(r)' = SectionOf(r)
      /\ \A o \in alone : o = r
  BY <1>2, <1>3, <1>4, <1>5, <1>6, RequestContinues
<1>9. SettingsShape'
  BY <1>1, <1>6, <1>7, <1>8 DEF SettingsShape
<1>10. RequestGoesOn'
  BY <1>1, <1>2, <1>5, <1>7, <1>8 DEF RequestGoesOn, At, SectionOf
<1>11. OwnIsCurrent'
  BY <1>2, <1>5, <1>6, <1>7, <1>8 DEF SettingsInv, OwnIsCurrent, At, SectionOf, Current
<1>12. SettledIsKept'
  BY <1>2, <1>5, <1>6, <1>7, <1>8 DEF SettingsInv, SettledIsKept, At, SectionOf, Current
<1>13. CameraIsKept'
  BY <1>6, <1>7 DEF SettingsInv, CameraIsKept
<1> QED  BY <1>8, <1>9, <1>10, <1>11, <1>12, <1>13 DEF SettingsInv

\* File.CreateText empties the file; nobody does so once a section is settled.
LEMMA CreateTextKeeps == ASSUME SettingsInv, NEW r \in Requests, CreateText(r) PROVE SettingsInv'
<1> DEFINE q == [request[r] EXCEPT !.at = "read"]
<1>1. SettingsShape /\ RequestGoesOn  BY DEF SettingsInv
<1>2. request[r].at = "create"  BY DEF CreateText, At
<1>3. q \in RequestRecord
  BY <1>1, SettingsFields DEF RequestRecord, RequestSteps
<1>4. request' = [request EXCEPT ![r] = q]
  BY <1>1, SettingsFields DEF CreateText, Goes, SettingsShape, RequestRecord
<1>5. /\ q.at = "read" /\ q.param = request[r].param
      /\ q.value = request[r].value /\ q.at # "idle"
  BY <1>1, SettingsFields DEF RequestRecord
<1>6. UNCHANGED <<alone, settled>>  BY DEF CreateText
<1>7. UNCHANGED <<memory, camera>> /\ file' = [made |-> TRUE, text |-> EmptyFile]  BY DEF CreateText
<1> HIDE DEF q
<1>8. /\ request' \in [Requests -> RequestRecord] /\ request'[r] = q
      /\ \A o \in Requests : o # r => request'[o] = request[o]
      /\ Busy' = Busy /\ alone' \subseteq Busy' /\ AloneIsOnly'
      /\ request[r].param \in Params /\ SectionOf(r) \in Sections /\ SectionOf(r)' = SectionOf(r)
      /\ \A o \in alone : o = r
  BY <1>2, <1>3, <1>4, <1>5, <1>6, RequestContinues
<1>9. SettingsShape'
  BY <1>1, <1>6, <1>7, <1>8, SectionIs DEF SettingsShape
<1>10. RequestGoesOn'
  BY <1>1, <1>2, <1>5, <1>7, <1>8 DEF RequestGoesOn, At, SectionOf
<1>11. OwnIsCurrent'
  BY <1>2, <1>5, <1>6, <1>7, <1>8 DEF SettingsInv, OwnIsCurrent, At, SectionOf, Current
<1>12. SettledIsKept'
  BY <1>2, <1>6 DEF SettingsInv, SettledIsKept, At
<1>13. CameraIsKept'
  BY <1>6, <1>7 DEF SettingsInv, CameraIsKept
<1> QED  BY <1>8, <1>9, <1>10, <1>11, <1>12, <1>13 DEF SettingsInv

\* The text read has every settled section as it is in memory, as the file has.
LEMMA ReadAllTextKeeps == ASSUME SettingsInv, NEW r \in Requests, ReadAllText(r) PROVE SettingsInv'
<1> DEFINE q == [request[r] EXCEPT !.at = "apply", !.text = file.text]
<1>1. SettingsShape /\ RequestGoesOn  BY DEF SettingsInv
<1>2. request[r].at = "read"  BY DEF ReadAllText, At
<1>3. q \in RequestRecord
  <2>1. request[r] \in RequestRecord  BY <1>1, SettingsFields
  <2>2. "apply" \in RequestSteps  BY DEF RequestSteps
  <2>3. file.text \in Texts  BY <1>1 DEF SettingsShape
  <2> QED  BY <2>1, <2>2, <2>3 DEF RequestRecord
<1>4. request' = [request EXCEPT ![r] = q]
  BY <1>1, SettingsFields DEF ReadAllText, SettingsShape, RequestRecord
<1>5. /\ q.at = "apply" /\ q.param = request[r].param /\ q.text = file.text
      /\ q.value = request[r].value /\ q.at # "idle"
  BY <1>1, SettingsFields DEF RequestRecord
<1>6. UNCHANGED <<alone, settled>>  BY DEF ReadAllText
<1>7. UNCHANGED <<memory, file, camera>>  BY DEF ReadAllText
<1> HIDE DEF q
<1>8. /\ request' \in [Requests -> RequestRecord] /\ request'[r] = q
      /\ \A o \in Requests : o # r => request'[o] = request[o]
      /\ Busy' = Busy /\ alone' \subseteq Busy' /\ AloneIsOnly'
      /\ request[r].param \in Params /\ SectionOf(r) \in Sections /\ SectionOf(r)' = SectionOf(r)
      /\ \A o \in alone : o = r
  BY <1>2, <1>3, <1>4, <1>5, <1>6, RequestContinues
<1>9. SettingsShape'
  BY <1>1, <1>6, <1>7, <1>8 DEF SettingsShape
<1>10. RequestGoesOn'
  BY <1>1, <1>2, <1>5, <1>7, <1>8 DEF RequestGoesOn, At, SectionOf
<1>11. OwnIsCurrent'
  BY <1>2, <1>5, <1>6, <1>7, <1>8 DEF SettingsInv, OwnIsCurrent, At, SectionOf, Current
<1>12. SettledIsKept'
  BY <1>2, <1>5, <1>6, <1>7, <1>8 DEF SettingsInv, SettledIsKept, At, SectionOf, Current
<1>13. CameraIsKept'
  BY <1>6, <1>7 DEF SettingsInv, CameraIsKept
<1> QED  BY <1>8, <1>9, <1>10, <1>11, <1>12, <1>13 DEF SettingsInv

\* An option changes in memory; its section is not settled.
LEMMA ApplyChangesKeeps == ASSUME SettingsInv, NEW r \in Requests, ApplyChanges(r) PROVE SettingsInv'
<1> DEFINE q == [request[r] EXCEPT !.at = "serialize", !.value = 0]
<1>1. SettingsShape /\ RequestGoesOn  BY DEF SettingsInv
<1>2. request[r].at = "apply" /\ request[r].value # OutOfRange  BY DEF ApplyChanges, At
<1>3. q \in RequestRecord
  <2>1. request[r] \in RequestRecord  BY <1>1, SettingsFields
  <2>2. "serialize" \in RequestSteps  BY DEF RequestSteps
  <2>3. 0 \in {OutOfRange, 0, 1}  OBVIOUS
  <2> QED  BY <2>1, <2>2, <2>3 DEF RequestRecord
<1>4. request' = [request EXCEPT ![r] = q]
  BY <1>1, SettingsFields DEF ApplyChanges, SettingsShape, RequestRecord
<1>5. /\ q.at = "serialize" /\ q.param = request[r].param /\ q.text = request[r].text
      /\ q.value = 0 /\ q.at # "idle"
  BY <1>1, SettingsFields DEF RequestRecord
<1>6. UNCHANGED <<alone, settled>>  BY DEF ApplyChanges
<1>7. UNCHANGED <<file, camera>> /\ memory' = [memory EXCEPT ![request[r].param] = request[r].value]
  BY DEF ApplyChanges
<1> HIDE DEF q
<1>8. /\ request' \in [Requests -> RequestRecord] /\ request'[r] = q
      /\ \A o \in Requests : o # r => request'[o] = request[o]
      /\ Busy' = Busy /\ alone' \subseteq Busy' /\ AloneIsOnly'
      /\ request[r].param \in Params /\ SectionOf(r) \in Sections /\ SectionOf(r)' = SectionOf(r)
      /\ \A o \in alone : o = r
  BY <1>2, <1>3, <1>4, <1>5, <1>6, RequestContinues
<1>9. SettingsShape'
  <2>1. request[r].param \in Params /\ request[r].value \in {0, 1}
    BY <1>1, <1>2, <1>8, SettingsFields
  <2>2. memory' \in [Params -> {0, 1}]  BY <1>1, <1>7, <2>1 DEF SettingsShape
  <2> QED  BY <1>1, <1>6, <1>7, <1>8, <2>2 DEF SettingsShape
<1>10. RequestGoesOn'
  BY <1>1, <1>2, <1>5, <1>7, <1>8 DEF RequestGoesOn, At, SectionOf, OutOfRange
<1>11. OwnIsCurrent'
  BY <1>2, <1>5, <1>6, <1>7, <1>8 DEF SettingsInv, OwnIsCurrent, At, SectionOf, Current
<1>12. SettledIsKept'
  <2>1. SectionOf(r) \notin settled  BY <1>2 DEF SettingsInv, SettledIsKept, At
  <2>2. \A p \in Params : Section(p) # SectionOf(r) => memory'[p] = memory[p]
    BY <1>1, <1>7, <1>8 DEF SettingsShape, SectionOf
  <2> QED
    BY <1>2, <1>5, <1>6, <1>7, <1>8, <2>1, <2>2 DEF SettingsInv, SettledIsKept, At, SectionOf, Current
<1>13. CameraIsKept'
  <2>1. SectionOf(r) \notin settled  BY <1>2 DEF SettingsInv, SettledIsKept, At
  <2>2. \A p \in Params : Section(p) # SectionOf(r) => memory'[p] = memory[p]
    BY <1>1, <1>7, <1>8 DEF SettingsShape, SectionOf
  <2> QED  BY <1>6, <1>7, <2>1, <2>2, SectionIs DEF SettingsInv, CameraIsKept
<1> QED  BY <1>8, <1>9, <1>10, <1>11, <1>12, <1>13 DEF SettingsInv

\* The text to write takes the request's section from memory and keeps the others.
LEMMA SerializeKeeps == ASSUME SettingsInv, NEW r \in Requests, Serialize(r) PROVE SettingsInv'
<1> DEFINE q == [request[r] EXCEPT !.at = "write", !.text = Merged(request[r].text, SectionOf(r))]
<1>1. SettingsShape /\ RequestGoesOn  BY DEF SettingsInv
<1>2. request[r].at = "serialize"  BY DEF Serialize, At
<1>3. q \in RequestRecord
  <2>1. request[r] \in RequestRecord  BY <1>1, SettingsFields
  <2>2. "write" \in RequestSteps  BY DEF RequestSteps
  <2>3. Merged(request[r].text, SectionOf(r)) \in Texts
    <3>1. request[r].text \in Texts  BY <1>1, SettingsFields
    <3>2. Merged(request[r].text, SectionOf(r)) \in [Params -> Values]
      BY <1>1, <3>1 DEF Merged, Texts, Values, SettingsShape
    <3>3. memory["TestNumber"] # Missing /\ memory["TestNumber2"] # Missing
      BY <1>1, SectionIs DEF SettingsShape, Missing
    <3>4. CASE Section("TestNumber") = SectionOf(r)  BY <3>2, <3>3, <3>4, SectionIs DEF Merged, Texts
    <3>5. CASE Section("TestNumber") # SectionOf(r)  BY <3>1, <3>2, <3>5, SectionIs DEF Merged, Texts
    <3> QED  BY <3>4, <3>5
  <2> QED  BY <2>1, <2>2, <2>3 DEF RequestRecord
<1>4. request' = [request EXCEPT ![r] = q]
  BY <1>1, SettingsFields DEF Serialize, SettingsShape, RequestRecord
<1>5. /\ q.at = "write" /\ q.param = request[r].param /\ q.text = Merged(request[r].text, SectionOf(r))
      /\ q.value = request[r].value /\ q.at # "idle"
  BY <1>1, SettingsFields DEF RequestRecord
<1>6. UNCHANGED <<alone, settled>>  BY DEF Serialize
<1>7. UNCHANGED <<memory, file, camera>>  BY DEF Serialize
<1> HIDE DEF q
<1>8. /\ request' \in [Requests -> RequestRecord] /\ request'[r] = q
      /\ \A o \in Requests : o # r => request'[o] = request[o]
      /\ Busy' = Busy /\ alone' \subseteq Busy' /\ AloneIsOnly'
      /\ request[r].param \in Params /\ SectionOf(r) \in Sections /\ SectionOf(r)' = SectionOf(r)
      /\ \A o \in alone : o = r
  BY <1>2, <1>3, <1>4, <1>5, <1>6, RequestContinues
<1>9. SettingsShape'
  BY <1>1, <1>6, <1>7, <1>8 DEF SettingsShape
<1>10. RequestGoesOn'
  BY <1>1, <1>2, <1>5, <1>7, <1>8 DEF RequestGoesOn, At, SectionOf
<1>11. OwnIsCurrent'
  <2>1. \A p \in Params : Section(p) = SectionOf(r) => Merged(request[r].text, SectionOf(r))[p] = memory[p]
    BY DEF Merged
  <2> QED  BY <1>2, <1>5, <1>6, <1>7, <1>8, <2>1 DEF OwnIsCurrent, At, Current
<1>12. SettledIsKept'
  <2> SUFFICES ASSUME NEW t \in settled
               PROVE  (/\ file.made /\ Current(file.text, t)
                       /\ \A o \in Requests :
                            /\ ~At(o, "create")
                            /\ ~At(o, "idle") /\ SectionOf(o) = t => request[o].value = OutOfRange
                            /\ request[o].at \in {"apply", "serialize", "write"} =>
                                 Current(request[o].text, t))'
    BY <1>6 DEF SettledIsKept
  <2>1. Current(request[r].text, t)  BY <1>2 DEF SettingsInv, SettledIsKept
  <2>2. Current(Merged(request[r].text, SectionOf(r)), t)  BY <2>1 DEF Current, Merged
  <2> QED  BY <1>2, <1>5, <1>7, <1>8, <2>2 DEF SettingsInv, SettledIsKept, At, SectionOf, Current
<1>13. CameraIsKept'
  BY <1>6, <1>7 DEF SettingsInv, CameraIsKept
<1> QED  BY <1>8, <1>9, <1>10, <1>11, <1>12, <1>13 DEF SettingsInv

\* The file gets a text that has every settled section as it is in memory.
LEMMA WriteAllTextKeeps == ASSUME SettingsInv, NEW r \in Requests, WriteAllText(r) PROVE SettingsInv'
<1> DEFINE q == [request[r] EXCEPT !.at = "notify", !.text = EmptyFile]
<1>1. SettingsShape /\ RequestGoesOn  BY DEF SettingsInv
<1>2. request[r].at = "write"  BY DEF WriteAllText, At
<1>3. q \in RequestRecord
  <2>1. request[r] \in RequestRecord  BY <1>1, SettingsFields
  <2>2. "notify" \in RequestSteps  BY DEF RequestSteps
  <2>3. EmptyFile \in Texts  BY SectionIs
  <2> QED  BY <2>1, <2>2, <2>3 DEF RequestRecord
<1>4. request' = [request EXCEPT ![r] = q]
  BY <1>1, SettingsFields DEF WriteAllText, SettingsShape, RequestRecord
<1>5. /\ q.at = "notify" /\ q.param = request[r].param
      /\ q.value = request[r].value /\ q.at # "idle"
  BY <1>1, SettingsFields DEF RequestRecord
<1>6. UNCHANGED <<alone, settled>>  BY DEF WriteAllText
<1>7. UNCHANGED <<memory, camera>> /\ file' = [file EXCEPT !.text = request[r].text]  BY DEF WriteAllText
<1> HIDE DEF q
<1>8. /\ request' \in [Requests -> RequestRecord] /\ request'[r] = q
      /\ \A o \in Requests : o # r => request'[o] = request[o]
      /\ Busy' = Busy /\ alone' \subseteq Busy' /\ AloneIsOnly'
      /\ request[r].param \in Params /\ SectionOf(r) \in Sections /\ SectionOf(r)' = SectionOf(r)
      /\ \A o \in alone : o = r
  BY <1>2, <1>3, <1>4, <1>5, <1>6, RequestContinues
<1>9. SettingsShape'
  <2>1. request[r].text \in Texts /\ file.made  BY <1>1, <1>2, SettingsFields DEF RequestGoesOn
  <2>2. file' \in [made : BOOLEAN, text : Texts] /\ file'.made = file.made
    BY <1>1, <1>7, <2>1 DEF SettingsShape
  <2> QED  BY <1>1, <1>6, <1>7, <1>8, <2>1, <2>2 DEF SettingsShape
<1>10. RequestGoesOn'
  BY <1>1, <1>2, <1>5, <1>7, <1>8 DEF RequestGoesOn, At, SectionOf
<1>11. OwnIsCurrent'
  BY <1>2, <1>5, <1>6, <1>7, <1>8 DEF SettingsInv, OwnIsCurrent, At, SectionOf, Current
<1>12. SettledIsKept'
  BY <1>2, <1>5, <1>6, <1>7, <1>8 DEF SettingsInv, SettledIsKept, At, SectionOf, Current
<1>13. CameraIsKept'
  BY <1>6, <1>7 DEF SettingsInv, CameraIsKept
<1> QED  BY <1>8, <1>9, <1>10, <1>11, <1>12, <1>13 DEF SettingsInv

\* The camera's driver takes the brightness from memory.
LEMMA ApplyOptionsKeeps == ASSUME SettingsInv, NEW r \in Requests, ApplyOptions(r) PROVE SettingsInv'
<1> DEFINE q == [request[r] EXCEPT !.at = "set", !.brightness = memory["Brightness"]]
<1>1. SettingsShape /\ RequestGoesOn  BY DEF SettingsInv
<1>2. request[r].at = "notify" /\ SectionOf(r) = "GenieNano"  BY DEF ApplyOptions, At
<1>3. q \in RequestRecord
  <2>1. request[r] \in RequestRecord  BY <1>1, SettingsFields
  <2>2. "set" \in RequestSteps  BY DEF RequestSteps
  <2>3. memory["Brightness"] \in {0, 1}  BY <1>1, SectionIs DEF SettingsShape
  <2> QED  BY <2>1, <2>2, <2>3 DEF RequestRecord
<1>4. request' = [request EXCEPT ![r] = q]
  BY <1>1, SettingsFields DEF ApplyOptions, SettingsShape, RequestRecord
<1>5. /\ q.at = "set" /\ q.param = request[r].param /\ q.brightness = memory["Brightness"]
      /\ q.value = request[r].value /\ q.at # "idle"
  BY <1>1, SettingsFields DEF RequestRecord
<1>6. UNCHANGED <<alone, settled>>  BY DEF ApplyOptions
<1>7. UNCHANGED <<memory, file, camera>>  BY DEF ApplyOptions
<1> HIDE DEF q
<1>8. /\ request' \in [Requests -> RequestRecord] /\ request'[r] = q
      /\ \A o \in Requests : o # r => request'[o] = request[o]
      /\ Busy' = Busy /\ alone' \subseteq Busy' /\ AloneIsOnly'
      /\ request[r].param \in Params /\ SectionOf(r) \in Sections /\ SectionOf(r)' = SectionOf(r)
      /\ \A o \in alone : o = r
  BY <1>2, <1>3, <1>4, <1>5, <1>6, RequestContinues
<1>9. SettingsShape'
  BY <1>1, <1>6, <1>7, <1>8 DEF SettingsShape
<1>10. RequestGoesOn'
  BY <1>1, <1>2, <1>5, <1>7, <1>8 DEF RequestGoesOn, At, SectionOf
<1>11. OwnIsCurrent'
  BY <1>2, <1>5, <1>6, <1>7, <1>8 DEF SettingsInv, OwnIsCurrent, At, SectionOf, Current
<1>12. SettledIsKept'
  BY <1>2, <1>5, <1>6, <1>7, <1>8 DEF SettingsInv, SettledIsKept, At, SectionOf, Current
<1>13. CameraIsKept'
  BY <1>6, <1>7 DEF SettingsInv, CameraIsKept
<1> QED  BY <1>8, <1>9, <1>10, <1>11, <1>12, <1>13 DEF SettingsInv


\* A request starts: with another beside it none is alone, and its section is no longer
\* settled unless the setter will throw.
LEMMA UpdateParameterKeeps ==
    ASSUME SettingsInv, NEW r \in Requests, UpdateParameter(r)
    PROVE  SettingsInv'
<1>1. SettingsShape /\ RequestGoesOn  BY DEF SettingsInv
<1>2. request[r].at = "idle" /\ UNCHANGED <<memory, file, camera>>  BY DEF UpdateParameter, At
<1>3. PICK p \in Params, v \in {OutOfRange, 0, 1} :
        /\ request' = [request EXCEPT ![r] = [Idle EXCEPT !.at = "exists", !.param = p, !.value = v]]
        /\ settled' = settled \ IF v = OutOfRange THEN {} ELSE {Section(p)}
  BY DEF UpdateParameter, Offered, OutOfRange
<1> DEFINE q == [Idle EXCEPT !.at = "exists", !.param = p, !.value = v]
<1>4. q \in RequestRecord
  <2>1. "exists" \in RequestSteps  BY DEF RequestSteps
  <2> QED  BY <2>1, SectionIs DEF Idle, RequestRecord
<1>5. q.at = "exists" /\ q.param = p /\ q.value = v  BY DEF Idle
<1>6. request' = [request EXCEPT ![r] = q]  BY <1>3
<1> HIDE DEF q
<1>7. /\ request' \in [Requests -> RequestRecord] /\ request'[r] = q
      /\ \A o \in Requests : o # r => request'[o] = request[o]
      /\ Busy' = Busy \cup {r}
  BY <1>1, <1>4, <1>5, <1>6, OneRequest
<1>8. alone' \subseteq Busy' /\ AloneIsOnly' /\ \A o \in alone' : o = r
  BY <1>7 DEF UpdateParameter, AloneIsOnly
<1>9. settled' \subseteq settled /\ \A s \in settled' : s = Section(p) => v = OutOfRange
  BY <1>3
<1>10. SettingsShape'
  BY <1>1, <1>2, <1>7, <1>8, <1>9 DEF SettingsShape
<1>11. RequestGoesOn'
  BY <1>1, <1>2, <1>5, <1>7 DEF RequestGoesOn, At, SectionOf
<1>12. OwnIsCurrent'
  BY <1>5, <1>7, <1>8 DEF OwnIsCurrent, At
<1>13. SettledIsKept'
  BY <1>2, <1>5, <1>7, <1>9 DEF SettingsInv, SettledIsKept, At, SectionOf, Current
<1>14. CameraIsKept'
  BY <1>2, <1>9 DEF SettingsInv, CameraIsKept
<1> QED  BY <1>8, <1>10, <1>11, <1>12, <1>13, <1>14 DEF SettingsInv

\* A request ends: a section becomes settled only when the request was alone and had
\* written the file.
LEMMA RequestEnds ==
    ASSUME SettingsInv, NEW r \in Requests, request[r].at # "idle",
           request' = [request EXCEPT ![r] = Idle], alone' = alone \ {r},
           UNCHANGED <<memory, file>>, camera' \in [state : {"Ready", "NotConnected"}, brightness : {0, 1}],
           \A s \in settled' :
               \/ s \in settled
               \/ s = SectionOf(r) /\ r \in alone /\ request[r].at \in {"notify", "set"}
    PROVE  /\ SettingsShape' /\ RequestGoesOn' /\ AloneIsOnly'
           /\ OwnIsCurrent' /\ SettledIsKept'
<1>1. SettingsShape /\ RequestGoesOn  BY DEF SettingsInv
<1>2. Idle \in RequestRecord /\ Idle.at = "idle"
  <2>1. "idle" \in RequestSteps  BY DEF RequestSteps
  <2> QED  BY <2>1, SectionIs DEF Idle, RequestRecord
<1>3. /\ request' \in [Requests -> RequestRecord] /\ request'[r] = Idle
      /\ \A o \in Requests : o # r => request'[o] = request[o]
      /\ Busy' = Busy \ {r}
  BY <1>1, <1>2, OneRequest
<1>4. r \in Busy  BY <1>1, SettingsFields
<1>5. \A o \in alone : Busy = {o} /\ o = r  BY <1>4 DEF SettingsInv, AloneIsOnly
<1>6. alone' = {}  BY <1>5
<1>7. SectionOf(r) \in Sections  BY <1>1, SettingsFields DEF RequestGoesOn, At
<1>8. SettingsShape'
  BY <1>1, <1>3, <1>6, <1>7 DEF SettingsShape
<1>9. RequestGoesOn'
  BY <1>1, <1>2, <1>3 DEF RequestGoesOn, At, SectionOf
<1>10. AloneIsOnly' /\ OwnIsCurrent'  BY <1>6 DEF AloneIsOnly, OwnIsCurrent
<1>11. SettledIsKept'
  <2> SUFFICES ASSUME NEW s \in settled'
               PROVE  (/\ file.made /\ Current(file.text, s)
                       /\ \A o \in Requests :
                            /\ ~At(o, "create")
                            /\ ~At(o, "idle") /\ SectionOf(o) = s => request[o].value = OutOfRange
                            /\ request[o].at \in {"apply", "serialize", "write"} =>
                                 Current(request[o].text, s))'
    BY DEF SettledIsKept
  <2>1. CASE s \in settled
    BY <1>2, <1>3, <2>1 DEF SettingsInv, SettledIsKept, At, SectionOf, Current
  <2>2. CASE s = SectionOf(r) /\ r \in alone /\ request[r].at \in {"notify", "set"}
    <3>1. file.made /\ Current(file.text, s)
      BY <1>1, <2>2 DEF SettingsInv, OwnIsCurrent, RequestGoesOn
    <3>2. \A o \in Requests : o # r => request[o].at = "idle"  BY <1>5, <2>2 DEF Busy
    <3>3. \A o \in Requests : request'[o].at = "idle"  BY <1>2, <1>3, <3>2
    <3> QED  BY <3>1, <3>3 DEF At, Current
  <2> QED  BY <2>1, <2>2
<1> QED  BY <1>8, <1>9, <1>10, <1>11

\* Every end of a request: the setter's exception, the IOException, and the answers of
\* the camera's driver.
LEMMA SettlingKeeps ==
    ASSUME SettingsInv, NEW r \in Requests,
           \/ SetterThrows(r) \/ Conflict(r) \/ NobodyApplies(r) \/ SetFeatureValue(r) \/ FeatureRefused(r)
    PROVE  SettingsInv'
<1>1. SettingsShape /\ RequestGoesOn  BY DEF SettingsInv
<1>2. /\ request[r].at # "idle" /\ request' = [request EXCEPT ![r] = Idle]
      /\ alone' = alone \ {r} /\ UNCHANGED <<memory, file>>
  BY DEF SetterThrows, Conflict, NobodyApplies, SetFeatureValue, FeatureRefused, Settles, At
<1>3. camera' \in [state : {"Ready", "NotConnected"}, brightness : {0, 1}]
  <2>1. camera \in [state : {"Ready", "NotConnected"}, brightness : {0, 1}]  BY <1>1 DEF SettingsShape
  <2>2. request[r].brightness \in {0, 1}  BY <1>1, SettingsFields
  <2>3. camera' = camera \/ camera' = [camera EXCEPT !.brightness = request[r].brightness]
    BY DEF SetterThrows, Conflict, NobodyApplies, SetFeatureValue, FeatureRefused
  <2> QED  BY <2>1, <2>2, <2>3
<1>4. CASE SetterThrows(r) \/ Conflict(r) \/ FeatureRefused(r)
  <2>1. settled' \subseteq settled /\ camera' = camera
    BY <1>4 DEF SetterThrows, Conflict, FeatureRefused, Settles
  <2>2. CameraIsKept'  BY <1>2, <2>1 DEF SettingsInv, CameraIsKept
  <2> QED  BY <1>2, <1>3, <2>1, <2>2, RequestEnds DEF SettingsInv
<1>5. CASE NobodyApplies(r) \/ SetFeatureValue(r)
  <2>1. /\ settled' = IF r \in alone THEN settled \cup {SectionOf(r)} ELSE settled \ {SectionOf(r)}
        /\ request[r].at \in {"notify", "set"}
    BY <1>5 DEF NobodyApplies, SetFeatureValue, Settles, At
  <2>2. \A s \in settled' :
           \/ s \in settled
           \/ s = SectionOf(r) /\ r \in alone /\ request[r].at \in {"notify", "set"}
    BY <2>1
  <2>3. CASE NobodyApplies(r)
    <3>1. camera' = camera /\ (SectionOf(r) # "GenieNano" \/ camera.state # "Ready")
      BY <2>3 DEF NobodyApplies
    <3>2. camera.state = "Ready" /\ "GenieNano" \in settled' => "GenieNano" \in settled
      BY <2>1, <3>1
    <3>3. CameraIsKept'  BY <1>2, <3>1, <3>2 DEF SettingsInv, CameraIsKept
    <3> QED  BY <1>2, <1>3, <2>2, <3>3, RequestEnds DEF SettingsInv
  <2>4. CASE SetFeatureValue(r)
    <3>1. request[r].at = "set" /\ camera' = [camera EXCEPT !.brightness = request[r].brightness]
      BY <2>4 DEF SetFeatureValue, At
    <3>2. SectionOf(r) = "GenieNano"  BY <1>1, <3>1 DEF RequestGoesOn, At
    <3>3. camera'.brightness = request[r].brightness  BY <1>1, <3>1 DEF SettingsShape
    <3>4. r \in alone => request[r].brightness = memory["Brightness"]
      BY <3>1 DEF SettingsInv, OwnIsCurrent, At
    <3>5. CameraIsKept'  BY <1>2, <2>1, <3>2, <3>3, <3>4 DEF CameraIsKept
    <3> QED  BY <1>2, <1>3, <2>2, <3>5, RequestEnds DEF SettingsInv
  <2> QED  BY <1>5, <2>3, <2>4
<1> QED  BY <1>4, <1>5

\* The camera's cable is pulled, or the program starts again with its default options.
LEMMA PowerKeeps == ASSUME SettingsInv, Unplugged \/ Restart PROVE SettingsInv'
<1>1. SettingsShape  BY DEF SettingsInv
<1>2. CASE Unplugged
  <2>1. /\ camera' = [camera EXCEPT !.state = "NotConnected"]
        /\ UNCHANGED <<request, memory, file, alone, settled>>
    BY <1>2 DEF Unplugged
  <2>2. camera' \in [state : {"Ready", "NotConnected"}, brightness : {0, 1}] /\ camera'.state # "Ready"
    BY <1>1, <2>1 DEF SettingsShape
  <2>3. SettingsShape'  BY <1>1, <2>1, <2>2 DEF SettingsShape, Busy
  <2>4. RequestGoesOn' /\ AloneIsOnly' /\ OwnIsCurrent' /\ SettledIsKept'
    BY <2>1 DEF SettingsInv, RequestGoesOn, AloneIsOnly, OwnIsCurrent, SettledIsKept, At, SectionOf,
                Busy, Current
  <2> QED  BY <2>2, <2>3, <2>4 DEF SettingsInv, CameraIsKept
<1>3. CASE Restart
  <2>1. /\ request' = [r \in Requests |-> Idle] /\ memory' = Default /\ file' = file
        /\ camera' \in [state : {"Ready", "NotConnected"}, brightness : {Default["Brightness"]}]
        /\ alone' = {} /\ settled' = {}
    BY <1>3 DEF Restart
  <2>2. Idle \in RequestRecord /\ Idle.at = "idle"
    <3>1. "idle" \in RequestSteps  BY DEF RequestSteps
    <3> QED  BY <3>1, SectionIs DEF Idle, RequestRecord
  <2>3. Default \in [Params -> {0, 1}] /\ Default["Brightness"] = 0  BY SectionIs DEF Default
  <2>4. SettingsShape'  BY <1>1, <2>1, <2>2, <2>3 DEF SettingsShape
  <2>5. RequestGoesOn'  BY <2>1, <2>2 DEF RequestGoesOn, At
  <2> QED  BY <2>1, <2>4, <2>5 DEF SettingsInv, AloneIsOnly, OwnIsCurrent, SettledIsKept, CameraIsKept
<1> QED  BY <1>2, <1>3

\* In every behaviour of the settings, for any number of requests, the file and the camera
\* have a settled section as it is in memory, and so has every text still to be written.
THEOREM SettingsInvariant == SettingsSpec => []SettingsInv
<1>1. SettingsInit => SettingsInv
  <2> SUFFICES ASSUME SettingsInit PROVE SettingsInv  OBVIOUS
  <2>1. Idle \in RequestRecord /\ Idle.at = "idle"
    <3>1. "idle" \in RequestSteps  BY DEF RequestSteps
    <3> QED  BY <3>1, SectionIs DEF Idle, RequestRecord
  <2>2. Default \in [Params -> {0, 1}] /\ Default["Brightness"] = 0  BY SectionIs DEF Default
  <2>3. SettingsShape  BY <2>1, <2>2, SectionIs DEF SettingsInit, SettingsShape
  <2>4. RequestGoesOn  BY <2>1 DEF SettingsInit, RequestGoesOn, At
  <2> QED
    BY <2>3, <2>4 DEF SettingsInit, SettingsInv, AloneIsOnly, OwnIsCurrent, SettledIsKept, CameraIsKept
<1>2. SettingsInv /\ [SettingsNext]_settingsVars => SettingsInv'
  <2> SUFFICES ASSUME SettingsInv, [SettingsNext]_settingsVars PROVE SettingsInv'  OBVIOUS
  <2>1. CASE UNCHANGED settingsVars
    <3>1. UNCHANGED <<request, memory, file, camera, alone, settled>>  BY <2>1 DEF settingsVars
    <3> QED
      BY <3>1 DEF SettingsInv, SettingsShape, RequestGoesOn, AloneIsOnly, OwnIsCurrent, SettledIsKept,
                  CameraIsKept, At, SectionOf, Busy, Current
  <2>2. ASSUME NEW r \in Requests, Handle(r) PROVE SettingsInv'
    BY <2>2, UpdateParameterKeeps, FileExistsKeeps, CreateTextKeeps, ReadAllTextKeeps, ApplyChangesKeeps,
       SerializeKeeps, WriteAllTextKeeps, ApplyOptionsKeeps, SettlingKeeps DEF Handle
  <2> QED  BY <2>1, <2>2, PowerKeeps DEF SettingsNext
<1> QED  BY <1>1, <1>2, PTL DEF SettingsSpec

\* Options are numbers and the sections of the file are whole.
THEOREM SettingsTypeCorrect == SettingsSpec => []SettingsTypeOK
<1>1. SettingsInv => SettingsTypeOK
  <2> SUFFICES ASSUME SettingsInv PROVE SettingsTypeOK  OBVIOUS
  <2>1. SettingsShape  BY DEF SettingsInv
  <2>2. file.text \in [Params -> {Missing, 0, 1}]  BY <2>1 DEF SettingsShape, Texts, Values
  <2>3. file.text["TestNumber"] = Missing <=> file.text["TestNumber2"] = Missing
    BY <2>1 DEF SettingsShape, Texts
  <2> QED  BY <2>1, <2>2, <2>3 DEF SettingsShape, SettingsTypeOK
<1> QED  BY <1>1, SettingsInvariant, PTL

\* A setting whose request has succeeded alone is the one in memory, in the file and in
\* the camera, whatever overlapping requests did to the file before.
THEOREM SettingsAreKept == SettingsSpec => []SettingsTakeEffect
<1>1. SettingsInv => SettingsTakeEffect
  BY DEF SettingsInv, SettledIsKept, CameraIsKept, Current, SettingsTakeEffect, StoredIsCurrent,
     CameraFollows
<1> QED  BY <1>1, SettingsInvariant, PTL

-----------------------------------------------------------------------------
(* The camera and its observers. *)

PcIn(t, steps) == pc[t] \in steps

\* No event of the SDK is waiting and the camera is there.
Quiet == linked /\ events = <<>>

\* The types, as a record of each thread's step.
VideoShape ==
    /\ observers \subseteq Callers
    /\ running \in BOOLEAN /\ native \in BOOLEAN /\ linked \in BOOLEAN /\ apart \in BOOLEAN
    /\ grabbing \in Grabbing
    /\ unplugs \in 0 .. MaxUnplugs
    /\ events \in Seq({"connected", "disconnected"})
    /\ state \in {"Ready", "NotConnected"}
    /\ game \in [state : {"NoGame", "IsRunning"}, player : BOOLEAN]
    /\ pc \in [Threads -> CallerSteps \cup ServerSteps]
    /\ pc[Server] \in ServerSteps /\ \A c \in Callers : pc[c] \in CallerSteps

\* What the SDK says last of the camera is how it is.
LastEventIsTrue ==
    events # <<>> => events[Len(events)] = IF linked THEN "connected" ELSE "disconnected"

\* The camera has not been lost, or the program has not been told, or State says so.
LossIsKnown ==
    /\ unplugs = 0 => linked /\ events = <<>> /\ state = "Ready"
    /\ unplugs # 0 /\ state = "Ready" => events # <<>> /\ Head(events) = "disconnected"

\* One caller at a time is inside a call, and none while the SDK's thread starts the
\* acquisition; while that thread stops it one may be.
AloneInside ==
    /\ \A c, o \in Callers : pc[c] \in Resting \/ pc[o] \in Resting \/ c = o
    /\ PcIn(Server, {"start", "grab", "grabbed", "crashed"}) => \A c \in Callers : pc[c] \in Resting

\* Nothing runs below the managed flag when it is down.
FlagsFollow == native \/ grabbing # "no" => running

\* What a caller has seen is still so, although the SDK's thread may stop the acquisition.
CallersFit ==
    \A c \in Callers :
        /\ PcIn(c, {"added", "claim", "start", "grab", "grabbed"}) => c \in observers
        /\ PcIn(c, {"emptied", "stop", "freeze", "frozen", "unfrozen", "unset"}) => observers = {}
        /\ pc[c] = "removed" => c \notin observers
        /\ pc[c] = "claim" => ~running
        /\ PcIn(c, {"start", "grab", "grabbed", "unset"}) => ~native
        /\ PcIn(c, {"frozen", "unset"}) => grabbing = "no"
        /\ PcIn(c, {"stop", "freeze", "frozen", "unfrozen"}) => running
        /\ pc[c] = "in" /\ c \in observers => running
        /\ Quiet /\ PcIn(c, {"start", "grab"}) => grabbing = "no"
        /\ Quiet => pc[c] # "unfrozen"

\* So is what a thread has seen that starts the acquisition.
AcquisitionFits ==
    \A t \in Threads :
        /\ PcIn(t, {"start", "grab", "grabbed"}) => running
        /\ PcIn(t, {"grab", "grabbed"}) => ~native
        /\ Quiet /\ pc[t] = "grabbed" => grabbing = "yes"

\* While the camera is there and the SDK's thread has handled its return, an acquisition
\* that is said to run does, unless a thread is starting or stopping it.
RunsWhenQuiet ==
    Quiet => /\ ~PcIn(Server, Stopping)
             /\ running => \/ native /\ grabbing = "yes"
                           \/ \E t \in Threads : PcIn(t, {"start", "grab", "grabbed", "frozen", "unset"})
                           \/ pc[Server] = "crashed"

\* As long as the camera has always been there nothing fails.
NeverLost ==
    unplugs = 0 =>
        /\ pc[Server] = "idle"
        /\ observers = {} =>
             \/ ~running
             \/ \E c \in Callers : PcIn(c, {"removed", "emptied", "stop", "freeze", "frozen", "unset"})
        /\ \A c \in Callers : /\ pc[c] \notin {"failed", "kept"}
                              /\ pc[c] = "out" => c \notin observers
                              /\ pc[c] = "in" => c \in observers

\* What holds while the calls keep apart.
CallsFit ==
    AloneInside /\ FlagsFollow /\ CallersFit /\ AcquisitionFits /\ RunsWhenQuiet /\ NeverLost

VideoInv == VideoShape /\ LastEventIsTrue /\ LossIsKnown /\ (apart => CallsFit)

-----------------------------------------------------------------------------
\* The SDK's thread is none of the callers.
LEMMA ThreadsDiffer ==
    /\ Server \in Threads /\ Server \notin Callers /\ Player \in Callers
    /\ \A t \in Threads : t = Server \/ t \in Callers
    /\ \A c \in Callers : c \in Threads /\ c # Server
BY VideoAssumption DEF Threads, Callers

\* While a caller is inside a call no other one is, and the SDK's thread only stops.
LEMMA OthersRest ==
    ASSUME VideoShape, AloneInside, NEW c \in Callers, pc[c] \notin Resting
    PROVE  /\ \A o \in Callers : o # c => pc[o] \in Resting
           /\ pc[Server] \in Stopping \cup {"idle"}
<1>1. \A o \in Callers : o # c => pc[o] \in Resting  BY DEF AloneInside
<1>2. pc[Server] \notin {"start", "grab", "grabbed", "crashed"}  BY DEF AloneInside, PcIn
<1>3. pc[Server] \in ServerSteps  BY DEF VideoShape
<1> QED  BY <1>1, <1>2, <1>3 DEF ServerSteps, AcquisitionSteps, Stopping

\* Nor when it begins a call and the calls still keep apart.
LEMMA EntersAlone ==
    ASSUME VideoShape, NEW c \in Callers, NEW step, Enters(c, step), apart'
    PROVE  /\ \A o \in Callers : o # c => pc[o] \in Resting
           /\ pc[Server] \in Stopping \cup {"idle"}
<1>1. \A o \in Threads \ {c} : pc[o] \in Resting \/ (o = Server /\ pc[o] \in Stopping)
  BY DEF Enters
<1>2. pc[Server] \in ServerSteps  BY DEF VideoShape
<1>3. \A o \in Callers : o # c => pc[o] \in Resting  BY <1>1, ThreadsDiffer
<1>4. pc[Server] \in Resting \cup Stopping  BY <1>1, ThreadsDiffer
<1> QED  BY <1>2, <1>3, <1>4 DEF ServerSteps, AcquisitionSteps, Resting, Stopping

\* When a thread takes a step the others stay where they were.
LEMMA OneGoes ==
    ASSUME VideoShape, NEW t \in Threads, NEW step,
           step \in IF t = Server THEN ServerSteps ELSE CallerSteps, Goto(t, step)
    PROVE  /\ pc' \in [Threads -> CallerSteps \cup ServerSteps]
           /\ pc'[Server] \in ServerSteps /\ \A c \in Callers : pc'[c] \in CallerSteps
           /\ pc'[t] = step /\ \A o \in Threads : o # t => pc'[o] = pc[o]
BY ThreadsDiffer DEF VideoShape, Goto

\* And when the other callers rest and the SDK's thread only stops, this stays so.
LEMMA CallerMoves ==
    ASSUME VideoShape, NEW c \in Callers, NEW step, step \in CallerSteps, Goto(c, step),
           \A o \in Callers : o # c => pc[o] \in Resting, pc[Server] \in Stopping \cup {"idle"}
    PROVE  /\ pc'[c] = step /\ pc'[Server] = pc[Server]
           /\ \A o \in Threads : o # c => pc'[o] = pc[o]
           /\ AloneInside'
<1>1. pc'[c] = step /\ \A o \in Threads : o # c => pc'[o] = pc[o]  BY OneGoes, ThreadsDiffer
<1>2. pc'[Server] = pc[Server]  BY <1>1, ThreadsDiffer
<1>3. \A o \in Callers : o # c => pc'[o] \in Resting  BY <1>1, ThreadsDiffer
<1>4. pc'[Server] \notin {"start", "grab", "grabbed", "crashed"}  BY <1>2 DEF Stopping
<1> QED  BY <1>1, <1>2, <1>3, <1>4 DEF AloneInside, PcIn

\* So does the SDK's thread, when it only stops or every caller rests.
LEMMA ServerMoves ==
    ASSUME VideoShape, AloneInside, NEW step \in ServerSteps, Goto(Server, step),
           step \in {"start", "grab", "grabbed", "crashed"} => \A c \in Callers : pc[c] \in Resting
    PROVE  /\ pc'[Server] = step /\ \A c \in Callers : pc'[c] = pc[c]
           /\ AloneInside'
<1>1. pc'[Server] = step /\ \A c \in Callers : pc'[c] = pc[c]  BY OneGoes, ThreadsDiffer
<1> QED  BY <1>1 DEF AloneInside, PcIn

\* The SDK's events after one more: the last is the new one, the first is the same.
LEMMA EventAppended ==
    ASSUME events \in Seq({"connected", "disconnected"}), NEW what \in {"connected", "disconnected"}
    PROVE  /\ Append(events, what) \in Seq({"connected", "disconnected"}) /\ Append(events, what) # <<>>
           /\ Append(events, what)[Len(Append(events, what))] = what
           /\ events # <<>> => Head(Append(events, what)) = Head(events)
           /\ events = <<>> => Head(Append(events, what)) = what
<1> DEFINE more == Append(events, what)
<1>1. more \in Seq({"connected", "disconnected"}) /\ Len(more) = Len(events) + 1 /\ Len(events) \in Nat
  OBVIOUS
<1>2. more # <<>> /\ more[Len(more)] = what  BY <1>1
<1>3. Head(more) = more[1]  BY <1>1, <1>2
<1>4. CASE events = <<>>  BY <1>1, <1>2, <1>3, <1>4
<1>5. CASE events # <<>>
  <2>1. Len(events) >= 1 /\ Head(events) = events[1]  BY <1>5
  <2>2. more[1] = events[1]  BY <2>1
  <2> QED  BY <1>1, <1>2, <1>3, <1>5, <2>1, <2>2
<1> QED  BY <1>4, <1>5

\* The SDK's events after the first is taken: the last is the same.
LEMMA EventTaken ==
    ASSUME events \in Seq({"connected", "disconnected"}), events # <<>>
    PROVE  /\ Tail(events) \in Seq({"connected", "disconnected"})
           /\ Tail(events) # <<>> => Tail(events)[Len(Tail(events))] = events[Len(events)]
           /\ Tail(events) = <<>> => events[Len(events)] = Head(events)
<1> DEFINE rest == Tail(events)
<1>1. /\ rest \in Seq({"connected", "disconnected"}) /\ Len(rest) = Len(events) - 1
      /\ Len(events) \in Nat /\ Len(events) >= 1 /\ Head(events) = events[1]
      /\ \A i \in 1 .. Len(rest) : rest[i] = events[i + 1]
  OBVIOUS
<1> HIDE DEF rest
<1>2. rest = <<>> => Len(rest) = 0  OBVIOUS
<1>3. rest = <<>> => events[Len(events)] = Head(events)
  <2>1. Len(rest) = 0 => Len(events) = 1  BY <1>1
  <2> QED  BY <1>1, <1>2, <2>1
<1>4. rest # <<>> => rest[Len(rest)] = events[Len(events)]
  <2>1. rest # <<>> => Len(rest) \in 1 .. Len(rest) /\ Len(rest) + 1 = Len(events)  BY <1>1
  <2> QED  BY <1>1, <2>1
<1> QED  BY <1>1, <1>3, <1>4 DEF rest

\* What the game service makes of its record is one.
LEMMA GameRecords ==
    ASSUME game \in [state : {"NoGame", "IsRunning"}, player : BOOLEAN]
    PROVE  /\ [game EXCEPT !.player = TRUE] \in [state : {"NoGame", "IsRunning"}, player : BOOLEAN]
           /\ [game EXCEPT !.state = "IsRunning"] \in [state : {"NoGame", "IsRunning"}, player : BOOLEAN]
           /\ [state |-> "NoGame", player |-> FALSE] \in [state : {"NoGame", "IsRunning"}, player : BOOLEAN]
OBVIOUS

\* The camera and its callers have their types when the program starts.
LEMMA VideoStarts == ASSUME VideoInit PROVE VideoShape
<1>1. pc = [t \in Threads |-> IF t = Server THEN "idle" ELSE "out"]  BY DEF VideoInit
<1>2. pc[Server] = "idle" /\ \A c \in Callers : pc[c] = "out"  BY <1>1, ThreadsDiffer
<1>3. "idle" \in ServerSteps /\ "out" \in CallerSteps  BY DEF ServerSteps, CallerSteps
<1>4. 0 \in 0 .. MaxUnplugs  BY VideoAssumption
<1>5. "no" \in Grabbing  BY DEF Grabbing
<1>6. events \in Seq({"connected", "disconnected"})  BY DEF VideoInit
<1>7. game \in [state : {"NoGame", "IsRunning"}, player : BOOLEAN]  BY DEF VideoInit
<1>8. apart \in BOOLEAN /\ pc \in [Threads -> CallerSteps \cup ServerSteps]
  BY <1>1, <1>3 DEF VideoInit
<1>9. pc[Server] \in ServerSteps /\ \A c \in Callers : pc[c] \in CallerSteps  BY <1>2, <1>3
<1> QED  BY <1>4, <1>5, <1>6, <1>7, <1>8, <1>9 DEF VideoInit, VideoShape

\* Every step of Subscribe and Dispose keeps the types.
LEMMA CallerShape == ASSUME VideoShape, NEW c \in Callers, Caller(c) PROVE VideoShape'
<1>1. c \in Threads /\ c # Server  BY ThreadsDiffer
<1>2. PICK step \in CallerSteps : Goto(c, step)
  <2>1. {"added", "in", "claim", "start", "removed", "emptied", "out", "stop"} \subseteq CallerSteps
    BY DEF CallerSteps, AcquisitionSteps
  <2>2. \E step \in {"added", "in", "claim", "start", "removed", "emptied", "out", "stop"} : Goto(c, step)
    BY DEF Caller, Subscribe, SubscribeTest, Claim, Dispose, DisposeTest, DisposeTestRunning, Unset,
           Enters
  <2> QED  BY <2>1, <2>2
<1>3. /\ pc' \in [Threads -> CallerSteps \cup ServerSteps]
      /\ pc'[Server] \in ServerSteps /\ \A o \in Callers : pc'[o] \in CallerSteps
  BY <1>1, <1>2, OneGoes
<1>4. game' \in [state : {"NoGame", "IsRunning"}, player : BOOLEAN]
  <2>1. \/ UNCHANGED game \/ game' = [game EXCEPT !.player = TRUE]
        \/ game' = [game EXCEPT !.state = "IsRunning"] \/ game' = [state |-> "NoGame", player |-> FALSE]
    BY DEF Caller, Subscribe, SubscribeTest, Claim, Dispose, DisposeTest, DisposeTestRunning, Unset,
           StartGame, GameStarted, GameStopped
  <2> QED  BY <2>1, GameRecords DEF VideoShape
<1>5. /\ observers' \subseteq Callers /\ running' \in BOOLEAN /\ apart' \in BOOLEAN
      /\ UNCHANGED <<native, grabbing, linked, unplugs, events, state>>
  BY DEF VideoShape, sdk, Caller, Subscribe, SubscribeTest, Claim, Dispose, DisposeTest, DisposeTestRunning,
         Unset, Enters
<1> QED  BY <1>3, <1>4, <1>5 DEF VideoShape

\* So does every step of StartAcquisition and StopAcquisition.
LEMMA AcquisitionShape == ASSUME VideoShape, NEW t \in Threads, Acquisition(t) PROVE VideoShape'
<1>1. PICK step : step \in (IF t = Server THEN ServerSteps ELSE CallerSteps) /\ Goto(t, step)
  <2>1. CASE t = Server
    <3>1. {"grab", "grabbed", "crashed", "idle", "freeze", "frozen", "unfrozen"} \subseteq ServerSteps
      BY DEF ServerSteps, AcquisitionSteps
    <3>2. \E step \in {"grab", "grabbed", "crashed", "idle", "freeze", "frozen", "unfrozen"} : Goto(t, step)
      BY <2>1 DEF Acquisition, StartTest, Grab, StartDone, StopTest, Freeze, StopDone, Refused, StopFailed
    <3> QED  BY <2>1, <3>1, <3>2
  <2>2. CASE t # Server
    <3>1. {"grab", "grabbed", "failed", "in", "kept", "out", "unset", "freeze", "frozen", "unfrozen"}
            \subseteq CallerSteps
      BY DEF CallerSteps, AcquisitionSteps
    <3>2. \E step \in {"grab", "grabbed", "failed", "in", "kept", "out", "unset", "freeze", "frozen", "unfrozen"} :
             Goto(t, step)
      BY <2>2 DEF Acquisition, StartTest, Grab, StartDone, StopTest, Freeze, StopDone, Refused, StopFailed
    <3> QED  BY <2>2, <3>1, <3>2
  <2> QED  BY <2>1, <2>2
<1>2. /\ pc' \in [Threads -> CallerSteps \cup ServerSteps]
      /\ pc'[Server] \in ServerSteps /\ \A o \in Callers : pc'[o] \in CallerSteps
  BY <1>1, OneGoes
<1>3. game' \in [state : {"NoGame", "IsRunning"}, player : BOOLEAN]
  <2>1. UNCHANGED game \/ game' = [game EXCEPT !.state = "IsRunning"]
    BY DEF Acquisition, StartTest, Grab, StartDone, StopTest, Freeze, StopDone, Refused, StopFailed,
           GameStarted
  <2> QED  BY <2>1, GameRecords DEF VideoShape
<1>4. /\ native' \in BOOLEAN /\ grabbing' \in Grabbing
      /\ UNCHANGED <<observers, running, linked, unplugs, events, state, apart>>
  BY DEF VideoShape, Grabbing, sdk, Acquisition, StartTest, Grab, StartDone, StopTest, Freeze, StopDone
<1> QED  BY <1>2, <1>3, <1>4 DEF VideoShape

\* So does ServerCallback.
LEMMA EventShape == ASSUME VideoShape, CameraDisconnected \/ CameraConnected PROVE VideoShape'
<1>1. PICK step \in ServerSteps : Goto(Server, step)
  <2>1. {"stop", "start", "idle"} \subseteq ServerSteps  BY DEF ServerSteps, AcquisitionSteps
  <2>2. \E step \in {"stop", "start", "idle"} : Goto(Server, step)
    BY DEF CameraDisconnected, CameraConnected
  <2> QED  BY <2>1, <2>2
<1>2. /\ pc' \in [Threads -> CallerSteps \cup ServerSteps]
      /\ pc'[Server] \in ServerSteps /\ \A o \in Callers : pc'[o] \in CallerSteps
  BY <1>1, OneGoes, ThreadsDiffer
<1>3. events # <<>> /\ events' = Tail(events)  BY DEF CameraDisconnected, CameraConnected, NextEvent
<1>4. events' \in Seq({"connected", "disconnected"})  BY <1>3, EventTaken DEF VideoShape
<1>5. /\ state' \in {"Ready", "NotConnected"} /\ apart' \in BOOLEAN
      /\ UNCHANGED <<observers, running, native, grabbing, linked, unplugs, game>>
  BY DEF VideoShape, CameraDisconnected, CameraConnected
<1> QED  BY <1>2, <1>4, <1>5 DEF VideoShape

\* So does the camera's cable.
LEMMA CableShape == ASSUME VideoShape, Unplug \/ Plug PROVE VideoShape'
<1>1. events' \in Seq({"connected", "disconnected"})  BY EventAppended DEF Unplug, Plug, VideoShape
<1>2. grabbing' \in Grabbing  BY DEF Unplug, Plug, VideoShape, Grabbing
<1>3. unplugs' \in 0 .. MaxUnplugs  BY VideoAssumption DEF Unplug, Plug, VideoShape
<1>4. linked' \in BOOLEAN /\ UNCHANGED <<observers, running, native, state, game, pc, apart>>
  BY DEF Unplug, Plug
<1> QED  BY <1>1, <1>2, <1>3, <1>4 DEF VideoShape

\* The types hold in every behaviour.
LEMMA VideoShapeHolds == VideoSpec => []VideoShape
<1>1. VideoInit => VideoShape  BY VideoStarts
<1>2. VideoShape /\ [VideoNext]_videoVars => VideoShape'
  <2> SUFFICES ASSUME VideoShape, [VideoNext]_videoVars PROVE VideoShape'  OBVIOUS
  <2>1. CASE UNCHANGED videoVars  BY <2>1 DEF videoVars, sdk, VideoShape
  <2> QED
    BY <2>1, CallerShape, AcquisitionShape, EventShape, CableShape DEF VideoNext, Environment
<1> QED  BY <1>1, <1>2, PTL DEF VideoSpec

\* Every variable of the camera and its callers keeps its type.
THEOREM VideoTypeCorrect == VideoSpec => []VideoTypeOK
<1>1. VideoShape => VideoTypeOK  BY DEF VideoShape, VideoTypeOK
<1> QED  BY <1>1, VideoShapeHolds, PTL

-----------------------------------------------------------------------------
\* Subscribe adds its observer, while every other caller is outside.
LEMMA SubscribeKeeps ==
    ASSUME VideoInv, apart, apart', NEW c \in Callers, Subscribe(c)
    PROVE  CallsFit'
<1> DEFINE step == "added"
<1>1. /\ VideoShape /\ CallsFit /\ LossIsKnown
      /\ c \in Threads /\ c # Server
  BY ThreadsDiffer DEF VideoInv
<1>2. pc[c] \in {"out", "failed"}  BY DEF Subscribe
<1>3. /\ \A o \in Callers : o # c => pc[o] \in Resting
      /\ pc[Server] \in Stopping \cup {"idle"}
  BY <1>1, EntersAlone DEF Subscribe
<1>4. Goto(c, step)  BY DEF Subscribe, Enters
<1>5. step \in CallerSteps  BY DEF CallerSteps, AcquisitionSteps
<1> HIDE DEF step
<1>6. /\ pc'[c] = step /\ pc'[Server] = pc[Server]
      /\ \A o \in Threads : o # c => pc'[o] = pc[o]
      /\ AloneInside'
  BY <1>1, <1>3, <1>4, <1>5, CallerMoves
<1>7. UNCHANGED <<running, native, grabbing, linked, unplugs, events>>  BY DEF Subscribe, sdk
<1>8. FlagsFollow'
  BY <1>1, <1>2, <1>3, <1>6, <1>7, ThreadsDiffer
  DEF Subscribe, step, CallsFit, FlagsFollow, CallersFit, AcquisitionFits, PcIn
<1>9. CallersFit'
  BY <1>1, <1>2, <1>3, <1>6, <1>7, ThreadsDiffer
  DEF Subscribe, step, CallsFit, CallersFit, FlagsFollow, AcquisitionFits, RunsWhenQuiet, PcIn,
      Quiet, Resting, Stopping
<1>10. AcquisitionFits'
  BY <1>1, <1>2, <1>3, <1>6, <1>7, ThreadsDiffer
  DEF Subscribe, step, CallsFit, AcquisitionFits, CallersFit, FlagsFollow, PcIn, Quiet, Resting,
      Stopping
<1>11. RunsWhenQuiet'
  BY <1>1, <1>2, <1>3, <1>6, <1>7, ThreadsDiffer
  DEF Subscribe, step, CallsFit, RunsWhenQuiet, AcquisitionFits, CallersFit, FlagsFollow, PcIn,
      Quiet, Resting, Stopping
<1>12. NeverLost'
  BY <1>1, <1>2, <1>3, <1>6, <1>7, ThreadsDiffer
  DEF Subscribe, step, CallsFit, NeverLost, RunsWhenQuiet, CallersFit, AcquisitionFits,
      FlagsFollow, LossIsKnown, PcIn, Quiet, Resting, Stopping
<1> QED  BY <1>6, <1>8, <1>9, <1>10, <1>11, <1>12 DEF CallsFit

\* It reads the flag; no caller changes it meanwhile, and the SDK's thread never does.
LEMMA SubscribeTestKeeps ==
    ASSUME VideoInv, apart, apart', NEW c \in Callers, SubscribeTest(c)
    PROVE  CallsFit'
<1> DEFINE step == IF running THEN "in" ELSE "claim"
<1>1. /\ VideoShape /\ CallsFit /\ LossIsKnown
      /\ c \in Threads /\ c # Server
  BY ThreadsDiffer DEF VideoInv
<1>2. pc[c] = "added"  BY DEF SubscribeTest
<1>3. /\ \A o \in Callers : o # c => pc[o] \in Resting
      /\ pc[Server] \in Stopping \cup {"idle"}
  BY <1>1, <1>2, OthersRest DEF CallsFit, Resting
<1>4. Goto(c, step)  BY DEF SubscribeTest
<1>5. step \in CallerSteps  BY DEF CallerSteps, AcquisitionSteps
<1> HIDE DEF step
<1>6. /\ pc'[c] = step /\ pc'[Server] = pc[Server]
      /\ \A o \in Threads : o # c => pc'[o] = pc[o]
      /\ AloneInside'
  BY <1>1, <1>3, <1>4, <1>5, CallerMoves
<1>7. UNCHANGED <<observers, running, native, grabbing, linked, unplugs, events>>  BY DEF SubscribeTest, sdk
<1>8. FlagsFollow'
  BY <1>1, <1>2, <1>3, <1>6, <1>7, ThreadsDiffer
  DEF SubscribeTest, step, CallsFit, FlagsFollow, CallersFit, AcquisitionFits, PcIn
<1>9. CallersFit'
  BY <1>1, <1>2, <1>3, <1>6, <1>7, ThreadsDiffer
  DEF SubscribeTest, step, CallsFit, CallersFit, FlagsFollow, AcquisitionFits, RunsWhenQuiet,
      PcIn, Quiet, Resting, Stopping
<1>10. AcquisitionFits'
  BY <1>1, <1>2, <1>3, <1>6, <1>7, ThreadsDiffer
  DEF SubscribeTest, step, CallsFit, AcquisitionFits, CallersFit, FlagsFollow, PcIn, Quiet,
      Resting, Stopping
<1>11. RunsWhenQuiet'
  BY <1>1, <1>2, <1>3, <1>6, <1>7, ThreadsDiffer
  DEF SubscribeTest, step, CallsFit, RunsWhenQuiet, AcquisitionFits, CallersFit, FlagsFollow,
      PcIn, Quiet, Resting, Stopping
<1>12. NeverLost'
  BY <1>1, <1>2, <1>3, <1>6, <1>7, ThreadsDiffer
  DEF SubscribeTest, step, CallsFit, NeverLost, RunsWhenQuiet, CallersFit, AcquisitionFits,
      FlagsFollow, LossIsKnown, PcIn, Quiet, Resting, Stopping
<1> QED  BY <1>6, <1>8, <1>9, <1>10, <1>11, <1>12 DEF CallsFit

\* It sets the flag and starts an acquisition that does not run.
LEMMA ClaimKeeps == ASSUME VideoInv, apart, apart', NEW c \in Callers, Claim(c) PROVE CallsFit'
<1> DEFINE step == "start"
<1>1. /\ VideoShape /\ CallsFit /\ LossIsKnown
      /\ c \in Threads /\ c # Server
  BY ThreadsDiffer DEF VideoInv
<1>2. pc[c] = "claim"  BY DEF Claim
<1>3. /\ \A o \in Callers : o # c => pc[o] \in Resting
      /\ pc[Server] \in Stopping \cup {"idle"}
  BY <1>1, <1>2, OthersRest DEF CallsFit, Resting
<1>4. Goto(c, step)  BY DEF Claim
<1>5. step \in CallerSteps  BY DEF CallerSteps, AcquisitionSteps
<1> HIDE DEF step
<1>6. /\ pc'[c] = step /\ pc'[Server] = pc[Server]
      /\ \A o \in Threads : o # c => pc'[o] = pc[o]
      /\ AloneInside'
  BY <1>1, <1>3, <1>4, <1>5, CallerMoves
<1>7. UNCHANGED <<observers, native, grabbing, linked, unplugs, events>>  BY DEF Claim, sdk
<1>8. FlagsFollow'
  BY <1>1, <1>2, <1>3, <1>6, <1>7, ThreadsDiffer
  DEF Claim, step, CallsFit, FlagsFollow, CallersFit, AcquisitionFits, PcIn
<1>9. CallersFit'
  BY <1>1, <1>2, <1>3, <1>6, <1>7, ThreadsDiffer
  DEF Claim, step, CallsFit, CallersFit, FlagsFollow, AcquisitionFits, RunsWhenQuiet, PcIn, Quiet,
      Resting, Stopping
<1>10. AcquisitionFits'
  BY <1>1, <1>2, <1>3, <1>6, <1>7, ThreadsDiffer
  DEF Claim, step, CallsFit, AcquisitionFits, CallersFit, FlagsFollow, PcIn, Quiet, Resting,
      Stopping
<1>11. RunsWhenQuiet'
  BY <1>1, <1>2, <1>3, <1>6, <1>7, ThreadsDiffer
  DEF Claim, step, CallsFit, RunsWhenQuiet, AcquisitionFits, CallersFit, FlagsFollow, PcIn, Quiet,
      Resting, Stopping
<1>12. NeverLost'
  BY <1>1, <1>2, <1>3, <1>6, <1>7, ThreadsDiffer
  DEF Claim, step, CallsFit, NeverLost, RunsWhenQuiet, CallersFit, AcquisitionFits, FlagsFollow,
      LossIsKnown, PcIn, Quiet, Resting, Stopping
<1> QED  BY <1>6, <1>8, <1>9, <1>10, <1>11, <1>12 DEF CallsFit

\* Dispose removes its observer.
LEMMA DisposeKeeps ==
    ASSUME VideoInv, apart, apart', NEW c \in Callers, Dispose(c)
    PROVE  CallsFit'
<1> DEFINE step == "removed"
<1>1. /\ VideoShape /\ CallsFit /\ LossIsKnown
      /\ c \in Threads /\ c # Server
  BY ThreadsDiffer DEF VideoInv
<1>2. pc[c] \in {"in", "kept"}  BY DEF Dispose
<1>3. /\ \A o \in Callers : o # c => pc[o] \in Resting
      /\ pc[Server] \in Stopping \cup {"idle"}
  BY <1>1, EntersAlone DEF Dispose
<1>4. Goto(c, step)  BY DEF Dispose, Enters
<1>5. step \in CallerSteps  BY DEF CallerSteps, AcquisitionSteps
<1> HIDE DEF step
<1>6. /\ pc'[c] = step /\ pc'[Server] = pc[Server]
      /\ \A o \in Threads : o # c => pc'[o] = pc[o]
      /\ AloneInside'
  BY <1>1, <1>3, <1>4, <1>5, CallerMoves
<1>7. UNCHANGED <<running, native, grabbing, linked, unplugs, events>>  BY DEF Dispose, sdk
<1>8. FlagsFollow'
  BY <1>1, <1>2, <1>3, <1>6, <1>7, ThreadsDiffer
  DEF Dispose, step, CallsFit, FlagsFollow, CallersFit, AcquisitionFits, PcIn
<1>9. CallersFit'
  BY <1>1, <1>2, <1>3, <1>6, <1>7, ThreadsDiffer
  DEF Dispose, step, CallsFit, CallersFit, FlagsFollow, AcquisitionFits, RunsWhenQuiet, PcIn,
      Quiet, Resting, Stopping
<1>10. AcquisitionFits'
  BY <1>1, <1>2, <1>3, <1>6, <1>7, ThreadsDiffer
  DEF Dispose, step, CallsFit, AcquisitionFits, CallersFit, FlagsFollow, PcIn, Quiet, Resting,
      Stopping
<1>11. RunsWhenQuiet'
  BY <1>1, <1>2, <1>3, <1>6, <1>7, ThreadsDiffer
  DEF Dispose, step, CallsFit, RunsWhenQuiet, AcquisitionFits, CallersFit, FlagsFollow, PcIn,
      Quiet, Resting, Stopping
<1>12. NeverLost'
  BY <1>1, <1>2, <1>3, <1>6, <1>7, ThreadsDiffer
  DEF Dispose, step, CallsFit, NeverLost, RunsWhenQuiet, CallersFit, AcquisitionFits, FlagsFollow,
      LossIsKnown, PcIn, Quiet, Resting, Stopping
<1> QED  BY <1>6, <1>8, <1>9, <1>10, <1>11, <1>12 DEF CallsFit

\* It has been the last, or not.
LEMMA DisposeTestKeeps ==
    ASSUME VideoInv, apart, apart', NEW c \in Callers, DisposeTest(c)
    PROVE  CallsFit'
<1> DEFINE step == IF observers = {} THEN "emptied" ELSE "out"
<1>1. /\ VideoShape /\ CallsFit /\ LossIsKnown
      /\ c \in Threads /\ c # Server
  BY ThreadsDiffer DEF VideoInv
<1>2. pc[c] = "removed"  BY DEF DisposeTest
<1>3. /\ \A o \in Callers : o # c => pc[o] \in Resting
      /\ pc[Server] \in Stopping \cup {"idle"}
  BY <1>1, <1>2, OthersRest DEF CallsFit, Resting
<1>4. Goto(c, step)  BY DEF DisposeTest
<1>5. step \in CallerSteps  BY DEF CallerSteps, AcquisitionSteps
<1> HIDE DEF step
<1>6. /\ pc'[c] = step /\ pc'[Server] = pc[Server]
      /\ \A o \in Threads : o # c => pc'[o] = pc[o]
      /\ AloneInside'
  BY <1>1, <1>3, <1>4, <1>5, CallerMoves
<1>7. UNCHANGED <<observers, running, native, grabbing, linked, unplugs, events>>  BY DEF DisposeTest, sdk
<1>8. FlagsFollow'
  BY <1>1, <1>2, <1>3, <1>6, <1>7, ThreadsDiffer
  DEF DisposeTest, step, CallsFit, FlagsFollow, CallersFit, AcquisitionFits, PcIn
<1>9. CallersFit'
  BY <1>1, <1>2, <1>3, <1>6, <1>7, ThreadsDiffer
  DEF DisposeTest, step, CallsFit, CallersFit, FlagsFollow, AcquisitionFits, RunsWhenQuiet, PcIn,
      Quiet, Resting, Stopping
<1>10. AcquisitionFits'
  BY <1>1, <1>2, <1>3, <1>6, <1>7, ThreadsDiffer
  DEF DisposeTest, step, CallsFit, AcquisitionFits, CallersFit, FlagsFollow, PcIn, Quiet, Resting,
      Stopping
<1>11. RunsWhenQuiet'
  BY <1>1, <1>2, <1>3, <1>6, <1>7, ThreadsDiffer
  DEF DisposeTest, step, CallsFit, RunsWhenQuiet, AcquisitionFits, CallersFit, FlagsFollow, PcIn,
      Quiet, Resting, Stopping
<1>12. NeverLost'
  BY <1>1, <1>2, <1>3, <1>6, <1>7, ThreadsDiffer
  DEF DisposeTest, step, CallsFit, NeverLost, RunsWhenQuiet, CallersFit, AcquisitionFits,
      FlagsFollow, LossIsKnown, PcIn, Quiet, Resting, Stopping
<1> QED  BY <1>6, <1>8, <1>9, <1>10, <1>11, <1>12 DEF CallsFit

\* The last stops an acquisition that runs.
LEMMA DisposeTestRunningKeeps ==
    ASSUME VideoInv, apart, apart', NEW c \in Callers, DisposeTestRunning(c)
    PROVE  CallsFit'
<1> DEFINE step == IF running THEN "stop" ELSE "out"
<1>1. /\ VideoShape /\ CallsFit /\ LossIsKnown
      /\ c \in Threads /\ c # Server
  BY ThreadsDiffer DEF VideoInv
<1>2. pc[c] = "emptied"  BY DEF DisposeTestRunning
<1>3. /\ \A o \in Callers : o # c => pc[o] \in Resting
      /\ pc[Server] \in Stopping \cup {"idle"}
  BY <1>1, <1>2, OthersRest DEF CallsFit, Resting
<1>4. Goto(c, step)  BY DEF DisposeTestRunning
<1>5. step \in CallerSteps  BY DEF CallerSteps, AcquisitionSteps
<1> HIDE DEF step
<1>6. /\ pc'[c] = step /\ pc'[Server] = pc[Server]
      /\ \A o \in Threads : o # c => pc'[o] = pc[o]
      /\ AloneInside'
  BY <1>1, <1>3, <1>4, <1>5, CallerMoves
<1>7. UNCHANGED <<observers, running, native, grabbing, linked, unplugs, events>>  BY DEF DisposeTestRunning, sdk
<1>8. FlagsFollow'
  BY <1>1, <1>2, <1>3, <1>6, <1>7, ThreadsDiffer
  DEF DisposeTestRunning, step, CallsFit, FlagsFollow, CallersFit, AcquisitionFits, PcIn
<1>9. CallersFit'
  BY <1>1, <1>2, <1>3, <1>6, <1>7, ThreadsDiffer
  DEF DisposeTestRunning, step, CallsFit, CallersFit, FlagsFollow, AcquisitionFits, RunsWhenQuiet,
      PcIn, Quiet, Resting, Stopping
<1>10. AcquisitionFits'
  BY <1>1, <1>2, <1>3, <1>6, <1>7, ThreadsDiffer
  DEF DisposeTestRunning, step, CallsFit, AcquisitionFits, CallersFit, FlagsFollow, PcIn, Quiet,
      Resting, Stopping
<1>11. RunsWhenQuiet'
  BY <1>1, <1>2, <1>3, <1>6, <1>7, ThreadsDiffer
  DEF DisposeTestRunning, step, CallsFit, RunsWhenQuiet, AcquisitionFits, CallersFit, FlagsFollow,
      PcIn, Quiet, Resting, Stopping
<1>12. NeverLost'
  BY <1>1, <1>2, <1>3, <1>6, <1>7, ThreadsDiffer
  DEF DisposeTestRunning, step, CallsFit, NeverLost, RunsWhenQuiet, CallersFit, AcquisitionFits,
      FlagsFollow, LossIsKnown, PcIn, Quiet, Resting, Stopping
<1> QED  BY <1>6, <1>8, <1>9, <1>10, <1>11, <1>12 DEF CallsFit

\* The flag goes down after the native acquisition has.
LEMMA UnsetKeeps == ASSUME VideoInv, apart, apart', NEW c \in Callers, Unset(c) PROVE CallsFit'
<1> DEFINE step == "out"
<1>1. /\ VideoShape /\ CallsFit /\ LossIsKnown
      /\ c \in Threads /\ c # Server
  BY ThreadsDiffer DEF VideoInv
<1>2. pc[c] = "unset"  BY DEF Unset
<1>3. /\ \A o \in Callers : o # c => pc[o] \in Resting
      /\ pc[Server] \in Stopping \cup {"idle"}
  BY <1>1, <1>2, OthersRest DEF CallsFit, Resting
<1>4. Goto(c, step)  BY DEF Unset
<1>5. step \in CallerSteps  BY DEF CallerSteps, AcquisitionSteps
<1> HIDE DEF step
<1>6. /\ pc'[c] = step /\ pc'[Server] = pc[Server]
      /\ \A o \in Threads : o # c => pc'[o] = pc[o]
      /\ AloneInside'
  BY <1>1, <1>3, <1>4, <1>5, CallerMoves
<1>7. UNCHANGED <<observers, native, grabbing, linked, unplugs, events>>  BY DEF Unset, sdk
<1>8. FlagsFollow'
  BY <1>1, <1>2, <1>3, <1>6, <1>7, ThreadsDiffer
  DEF Unset, step, CallsFit, FlagsFollow, CallersFit, AcquisitionFits, PcIn
<1>9. CallersFit'
  BY <1>1, <1>2, <1>3, <1>6, <1>7, ThreadsDiffer
  DEF Unset, step, CallsFit, CallersFit, FlagsFollow, AcquisitionFits, RunsWhenQuiet, PcIn, Quiet,
      Resting, Stopping
<1>10. AcquisitionFits'
  BY <1>1, <1>2, <1>3, <1>6, <1>7, ThreadsDiffer
  DEF Unset, step, CallsFit, AcquisitionFits, CallersFit, FlagsFollow, PcIn, Quiet, Resting,
      Stopping
<1>11. RunsWhenQuiet'
  BY <1>1, <1>2, <1>3, <1>6, <1>7, ThreadsDiffer
  DEF Unset, step, CallsFit, RunsWhenQuiet, AcquisitionFits, CallersFit, FlagsFollow, PcIn, Quiet,
      Resting, Stopping
<1>12. NeverLost'
  BY <1>1, <1>2, <1>3, <1>6, <1>7, ThreadsDiffer
  DEF Unset, step, CallsFit, NeverLost, RunsWhenQuiet, CallersFit, AcquisitionFits, FlagsFollow,
      LossIsKnown, PcIn, Quiet, Resting, Stopping
<1> QED  BY <1>6, <1>8, <1>9, <1>10, <1>11, <1>12 DEF CallsFit

\* A caller that starts has found the acquisition down: it is not refused.
LEMMA CallerStartTestKeeps ==
    ASSUME VideoInv, apart, apart', NEW c \in Callers, StartTest(c)
    PROVE  CallsFit'
<1> DEFINE step == IF native THEN "failed" ELSE "grab"
<1>1. /\ VideoShape /\ CallsFit /\ LossIsKnown
      /\ c \in Threads /\ c # Server
  BY ThreadsDiffer DEF VideoInv
<1>2. pc[c] = "start"  BY DEF StartTest
<1>3. /\ \A o \in Callers : o # c => pc[o] \in Resting
      /\ pc[Server] \in Stopping \cup {"idle"}
  BY <1>1, <1>2, OthersRest DEF CallsFit, Resting
<1>4. Goto(c, step)  BY <1>1, <1>2 DEF StartTest, Refused, StopFailed
<1>5. step \in CallerSteps  BY DEF CallerSteps, AcquisitionSteps
<1> HIDE DEF step
<1>6. /\ pc'[c] = step /\ pc'[Server] = pc[Server]
      /\ \A o \in Threads : o # c => pc'[o] = pc[o]
      /\ AloneInside'
  BY <1>1, <1>3, <1>4, <1>5, CallerMoves
<1>7. UNCHANGED <<observers, running, linked, unplugs, events, native, grabbing>>  BY DEF StartTest, sdk
<1>8. FlagsFollow'
  BY <1>1, <1>2, <1>3, <1>6, <1>7, ThreadsDiffer
  DEF StartTest, step, CallsFit, FlagsFollow, CallersFit, AcquisitionFits, PcIn
<1>9. CallersFit'
  BY <1>1, <1>2, <1>3, <1>6, <1>7, ThreadsDiffer
  DEF StartTest, step, CallsFit, CallersFit, FlagsFollow, AcquisitionFits, RunsWhenQuiet, PcIn,
      Quiet, Resting, Stopping
<1>10. AcquisitionFits'
  BY <1>1, <1>2, <1>3, <1>6, <1>7, ThreadsDiffer
  DEF StartTest, step, CallsFit, AcquisitionFits, CallersFit, FlagsFollow, PcIn, Quiet, Resting,
      Stopping
<1>11. RunsWhenQuiet'
  BY <1>1, <1>2, <1>3, <1>6, <1>7, ThreadsDiffer
  DEF StartTest, step, CallsFit, RunsWhenQuiet, AcquisitionFits, CallersFit, FlagsFollow, PcIn,
      Quiet, Resting, Stopping
<1>12. NeverLost'
  BY <1>1, <1>2, <1>3, <1>6, <1>7, ThreadsDiffer
  DEF StartTest, step, CallsFit, NeverLost, RunsWhenQuiet, CallersFit, AcquisitionFits,
      FlagsFollow, LossIsKnown, PcIn, Quiet, Resting, Stopping
<1> QED  BY <1>6, <1>8, <1>9, <1>10, <1>11, <1>12 DEF CallsFit

\* Grab succeeds for a caller as long as the camera is there and its events are handled.
LEMMA CallerGrabKeeps == ASSUME VideoInv, apart, apart', NEW c \in Callers, Grab(c) PROVE CallsFit'
<1>1. /\ VideoShape /\ CallsFit /\ LossIsKnown
      /\ c \in Threads /\ c # Server
  BY ThreadsDiffer DEF VideoInv
<1>2. pc[c] = "grab"  BY DEF Grab
<1>3. /\ \A o \in Callers : o # c => pc[o] \in Resting
      /\ pc[Server] \in Stopping \cup {"idle"}
  BY <1>1, <1>2, OthersRest DEF CallsFit, Resting
<1>4. PICK step \in {"grabbed", "failed"} :
        /\ Goto(c, step)
        /\ step = "grabbed" => linked /\ grabbing' = "yes"
        /\ step # "grabbed" => (~linked \/ grabbing # "no") /\ UNCHANGED grabbing
  BY <1>1, <1>2 DEF Grab, Refused
<1>5. step \in CallerSteps  BY <1>4 DEF CallerSteps, AcquisitionSteps
<1>6. /\ pc'[c] = step /\ pc'[Server] = pc[Server]
      /\ \A o \in Threads : o # c => pc'[o] = pc[o]
      /\ AloneInside'
  BY <1>1, <1>3, <1>4, <1>5, CallerMoves
<1>7. UNCHANGED <<observers, running, linked, unplugs, events, native>>  BY DEF Grab, sdk
<1>8. FlagsFollow'
  BY <1>1, <1>2, <1>3, <1>4, <1>6, <1>7, ThreadsDiffer
  DEF CallsFit, FlagsFollow, CallersFit, AcquisitionFits, PcIn
<1>9. CallersFit'
  BY <1>1, <1>2, <1>3, <1>4, <1>6, <1>7, ThreadsDiffer
  DEF CallsFit, CallersFit, FlagsFollow, AcquisitionFits, RunsWhenQuiet, PcIn, Quiet, Resting,
      Stopping
<1>10. AcquisitionFits'
  BY <1>1, <1>2, <1>3, <1>4, <1>6, <1>7, ThreadsDiffer
  DEF CallsFit, AcquisitionFits, CallersFit, FlagsFollow, PcIn, Quiet, Resting, Stopping
<1>11. RunsWhenQuiet'
  BY <1>1, <1>2, <1>3, <1>4, <1>6, <1>7, ThreadsDiffer
  DEF CallsFit, RunsWhenQuiet, AcquisitionFits, CallersFit, FlagsFollow, PcIn, Quiet, Resting,
      Stopping
<1>12. NeverLost'
  BY <1>1, <1>2, <1>3, <1>4, <1>6, <1>7, ThreadsDiffer
  DEF CallsFit, NeverLost, RunsWhenQuiet, CallersFit, AcquisitionFits, FlagsFollow, LossIsKnown,
      PcIn, Quiet, Resting, Stopping
<1> QED  BY <1>6, <1>8, <1>9, <1>10, <1>11, <1>12 DEF CallsFit

\* The native flag goes up after the transfer grabs.
LEMMA CallerStartDoneKeeps ==
    ASSUME VideoInv, apart, apart', NEW c \in Callers, StartDone(c)
    PROVE  CallsFit'
<1> DEFINE step == "in"
<1>1. /\ VideoShape /\ CallsFit /\ LossIsKnown
      /\ c \in Threads /\ c # Server
  BY ThreadsDiffer DEF VideoInv
<1>2. pc[c] = "grabbed"  BY DEF StartDone
<1>3. /\ \A o \in Callers : o # c => pc[o] \in Resting
      /\ pc[Server] \in Stopping \cup {"idle"}
  BY <1>1, <1>2, OthersRest DEF CallsFit, Resting
<1>4. Goto(c, step)  BY <1>1, <1>2 DEF StartDone, Refused, StopFailed
<1>5. step \in CallerSteps  BY DEF CallerSteps, AcquisitionSteps
<1> HIDE DEF step
<1>6. /\ pc'[c] = step /\ pc'[Server] = pc[Server]
      /\ \A o \in Threads : o # c => pc'[o] = pc[o]
      /\ AloneInside'
  BY <1>1, <1>3, <1>4, <1>5, CallerMoves
<1>7. UNCHANGED <<observers, running, linked, unplugs, events, grabbing>>  BY DEF StartDone, sdk
<1>8. FlagsFollow'
  BY <1>1, <1>2, <1>3, <1>6, <1>7, ThreadsDiffer
  DEF StartDone, step, CallsFit, FlagsFollow, CallersFit, AcquisitionFits, PcIn
<1>9. CallersFit'
  BY <1>1, <1>2, <1>3, <1>6, <1>7, ThreadsDiffer
  DEF StartDone, step, CallsFit, CallersFit, FlagsFollow, AcquisitionFits, RunsWhenQuiet, PcIn,
      Quiet, Resting, Stopping
<1>10. AcquisitionFits'
  BY <1>1, <1>2, <1>3, <1>6, <1>7, ThreadsDiffer
  DEF StartDone, step, CallsFit, AcquisitionFits, CallersFit, FlagsFollow, PcIn, Quiet, Resting,
      Stopping
<1>11. RunsWhenQuiet'
  BY <1>1, <1>2, <1>3, <1>6, <1>7, ThreadsDiffer
  DEF StartDone, step, CallsFit, RunsWhenQuiet, AcquisitionFits, CallersFit, FlagsFollow, PcIn,
      Quiet, Resting, Stopping
<1>12. NeverLost'
  BY <1>1, <1>2, <1>3, <1>6, <1>7, ThreadsDiffer
  DEF StartDone, step, CallsFit, NeverLost, RunsWhenQuiet, CallersFit, AcquisitionFits,
      FlagsFollow, LossIsKnown, PcIn, Quiet, Resting, Stopping
<1> QED  BY <1>6, <1>8, <1>9, <1>10, <1>11, <1>12 DEF CallsFit

\* A stop finds the native flag down only after the camera was lost.
LEMMA CallerStopTestKeeps ==
    ASSUME VideoInv, apart, apart', NEW c \in Callers, StopTest(c)
    PROVE  CallsFit'
<1> DEFINE step == IF native THEN "freeze" ELSE IF c = Player THEN "kept" ELSE "out"
<1>1. /\ VideoShape /\ CallsFit /\ LossIsKnown
      /\ c \in Threads /\ c # Server
  BY ThreadsDiffer DEF VideoInv
<1>2. pc[c] = "stop"  BY DEF StopTest
<1>3. /\ \A o \in Callers : o # c => pc[o] \in Resting
      /\ pc[Server] \in Stopping \cup {"idle"}
  BY <1>1, <1>2, OthersRest DEF CallsFit, Resting
<1>4. Goto(c, step)  BY <1>1, <1>2 DEF StopTest, Refused, StopFailed
<1>5. step \in CallerSteps  BY DEF CallerSteps, AcquisitionSteps
<1> HIDE DEF step
<1>6. /\ pc'[c] = step /\ pc'[Server] = pc[Server]
      /\ \A o \in Threads : o # c => pc'[o] = pc[o]
      /\ AloneInside'
  BY <1>1, <1>3, <1>4, <1>5, CallerMoves
<1>7. UNCHANGED <<observers, running, linked, unplugs, events, native, grabbing>>  BY DEF StopTest, sdk
<1>8. FlagsFollow'
  BY <1>1, <1>2, <1>3, <1>6, <1>7, ThreadsDiffer
  DEF StopTest, step, CallsFit, FlagsFollow, CallersFit, AcquisitionFits, PcIn
<1>9. CallersFit'
  BY <1>1, <1>2, <1>3, <1>6, <1>7, ThreadsDiffer
  DEF StopTest, step, CallsFit, CallersFit, FlagsFollow, AcquisitionFits, RunsWhenQuiet, PcIn,
      Quiet, Resting, Stopping
<1>10. AcquisitionFits'
  BY <1>1, <1>2, <1>3, <1>6, <1>7, ThreadsDiffer
  DEF StopTest, step, CallsFit, AcquisitionFits, CallersFit, FlagsFollow, PcIn, Quiet, Resting,
      Stopping
<1>11. RunsWhenQuiet'
  BY <1>1, <1>2, <1>3, <1>6, <1>7, ThreadsDiffer
  DEF StopTest, step, CallsFit, RunsWhenQuiet, AcquisitionFits, CallersFit, FlagsFollow, PcIn,
      Quiet, Resting, Stopping
<1>12. NeverLost'
  BY <1>1, <1>2, <1>3, <1>6, <1>7, ThreadsDiffer
  DEF StopTest, step, CallsFit, NeverLost, RunsWhenQuiet, CallersFit, AcquisitionFits,
      FlagsFollow, LossIsKnown, PcIn, Quiet, Resting, Stopping
<1> QED  BY <1>6, <1>8, <1>9, <1>10, <1>11, <1>12 DEF CallsFit

\* Freeze ends the transfer; while the camera is there it did grab.
LEMMA CallerFreezeKeeps == ASSUME VideoInv, apart, apart', NEW c \in Callers, Freeze(c) PROVE CallsFit'
<1> DEFINE step == IF grabbing = "no" THEN "unfrozen" ELSE "frozen"
<1>1. /\ VideoShape /\ CallsFit /\ LossIsKnown
      /\ c \in Threads /\ c # Server
  BY ThreadsDiffer DEF VideoInv
<1>2. pc[c] = "freeze"  BY DEF Freeze
<1>3. /\ \A o \in Callers : o # c => pc[o] \in Resting
      /\ pc[Server] \in Stopping \cup {"idle"}
  BY <1>1, <1>2, OthersRest DEF CallsFit, Resting
<1>4. Goto(c, step)  BY <1>1, <1>2 DEF Freeze, Refused, StopFailed
<1>5. step \in CallerSteps  BY DEF CallerSteps, AcquisitionSteps
<1> HIDE DEF step
<1>6. /\ pc'[c] = step /\ pc'[Server] = pc[Server]
      /\ \A o \in Threads : o # c => pc'[o] = pc[o]
      /\ AloneInside'
  BY <1>1, <1>3, <1>4, <1>5, CallerMoves
<1>7. UNCHANGED <<observers, running, linked, unplugs, events, native>>  BY DEF Freeze, sdk
<1>8. FlagsFollow'
  BY <1>1, <1>2, <1>3, <1>6, <1>7, ThreadsDiffer
  DEF Freeze, step, CallsFit, FlagsFollow, CallersFit, AcquisitionFits, PcIn
<1>9. CallersFit'
  BY <1>1, <1>2, <1>3, <1>6, <1>7, ThreadsDiffer
  DEF Freeze, step, CallsFit, CallersFit, FlagsFollow, AcquisitionFits, RunsWhenQuiet, PcIn,
      Quiet, Resting, Stopping
<1>10. AcquisitionFits'
  BY <1>1, <1>2, <1>3, <1>6, <1>7, ThreadsDiffer
  DEF Freeze, step, CallsFit, AcquisitionFits, CallersFit, FlagsFollow, PcIn, Quiet, Resting,
      Stopping
<1>11. RunsWhenQuiet'
  BY <1>1, <1>2, <1>3, <1>6, <1>7, ThreadsDiffer
  DEF Freeze, step, CallsFit, RunsWhenQuiet, AcquisitionFits, CallersFit, FlagsFollow, PcIn,
      Quiet, Resting, Stopping
<1>12. NeverLost'
  BY <1>1, <1>2, <1>3, <1>6, <1>7, ThreadsDiffer
  DEF Freeze, step, CallsFit, NeverLost, RunsWhenQuiet, CallersFit, AcquisitionFits, FlagsFollow,
      LossIsKnown, PcIn, Quiet, Resting, Stopping
<1> QED  BY <1>6, <1>8, <1>9, <1>10, <1>11, <1>12 DEF CallsFit

\* The native flag goes down after the transfer has ended.
LEMMA CallerStopDoneKeeps ==
    ASSUME VideoInv, apart, apart', NEW c \in Callers, StopDone(c)
    PROVE  CallsFit'
<1> DEFINE step == IF pc[c] = "frozen" THEN "unset" ELSE IF c = Player THEN "kept" ELSE "out"
<1>1. /\ VideoShape /\ CallsFit /\ LossIsKnown
      /\ c \in Threads /\ c # Server
  BY ThreadsDiffer DEF VideoInv
<1>2. pc[c] \in {"frozen", "unfrozen"}  BY DEF StopDone
<1>3. /\ \A o \in Callers : o # c => pc[o] \in Resting
      /\ pc[Server] \in Stopping \cup {"idle"}
  BY <1>1, <1>2, OthersRest DEF CallsFit, Resting
<1>4. Goto(c, step)  BY <1>1, <1>2 DEF StopDone, Refused, StopFailed
<1>5. step \in CallerSteps  BY DEF CallerSteps, AcquisitionSteps
<1> HIDE DEF step
<1>6. /\ pc'[c] = step /\ pc'[Server] = pc[Server]
      /\ \A o \in Threads : o # c => pc'[o] = pc[o]
      /\ AloneInside'
  BY <1>1, <1>3, <1>4, <1>5, CallerMoves
<1>7. UNCHANGED <<observers, running, linked, unplugs, events, grabbing>>  BY DEF StopDone, sdk
<1>8. FlagsFollow'
  BY <1>1, <1>2, <1>3, <1>6, <1>7, ThreadsDiffer
  DEF StopDone, step, CallsFit, FlagsFollow, CallersFit, AcquisitionFits, PcIn
<1>9. CallersFit'
  BY <1>1, <1>2, <1>3, <1>6, <1>7, ThreadsDiffer
  DEF StopDone, step, CallsFit, CallersFit, FlagsFollow, AcquisitionFits, RunsWhenQuiet, PcIn,
      Quiet, Resting, Stopping
<1>10. AcquisitionFits'
  BY <1>1, <1>2, <1>3, <1>6, <1>7, ThreadsDiffer
  DEF StopDone, step, CallsFit, AcquisitionFits, CallersFit, FlagsFollow, PcIn, Quiet, Resting,
      Stopping
<1>11. RunsWhenQuiet'
  BY <1>1, <1>2, <1>3, <1>6, <1>7, ThreadsDiffer
  DEF StopDone, step, CallsFit, RunsWhenQuiet, AcquisitionFits, CallersFit, FlagsFollow, PcIn,
      Quiet, Resting, Stopping
<1>12. NeverLost'
  BY <1>1, <1>2, <1>3, <1>6, <1>7, ThreadsDiffer
  DEF StopDone, step, CallsFit, NeverLost, RunsWhenQuiet, CallersFit, AcquisitionFits,
      FlagsFollow, LossIsKnown, PcIn, Quiet, Resting, Stopping
<1> QED  BY <1>6, <1>8, <1>9, <1>10, <1>11, <1>12 DEF CallsFit

\* The camera is back and the SDK's thread starts the acquisition, while every caller is
\* outside; it is refused where a caller has started it before, which ends the program.
LEMMA ServerStartTestKeeps == ASSUME VideoInv, apart, apart', StartTest(Server) PROVE CallsFit'
<1>1. VideoShape /\ CallsFit /\ LossIsKnown /\ Server \in Threads  BY ThreadsDiffer DEF VideoInv
<1>2. pc[Server] = "start"  BY DEF StartTest
<1>3. PICK step \in {"grab", "crashed"} :
        /\ Goto(Server, step)
        /\ step = "crashed" <=> native
  BY <1>2 DEF StartTest, Refused, StopFailed
<1>4. step \in ServerSteps  BY <1>3 DEF ServerSteps, AcquisitionSteps
<1>5. \A c \in Callers : pc[c] \in Resting  BY <1>1, <1>2 DEF CallsFit, AloneInside, PcIn
<1>6. pc'[Server] = step /\ (\A c \in Callers : pc'[c] = pc[c]) /\ AloneInside'
  BY <1>1, <1>3, <1>4, <1>5, ServerMoves DEF CallsFit
<1>7. UNCHANGED <<observers, running, linked, unplugs, events, native, grabbing>>  BY DEF StartTest, sdk
<1>8. FlagsFollow'
  BY <1>1, <1>2, <1>3, <1>5, <1>6, <1>7, ThreadsDiffer
  DEF CallsFit, FlagsFollow, CallersFit, AcquisitionFits, PcIn
<1>9. CallersFit'
  BY <1>1, <1>2, <1>3, <1>5, <1>6, <1>7, ThreadsDiffer
  DEF CallsFit, CallersFit, FlagsFollow, AcquisitionFits, RunsWhenQuiet, PcIn, Quiet, Resting,
      Stopping
<1>10. AcquisitionFits'
  BY <1>1, <1>2, <1>3, <1>5, <1>6, <1>7, ThreadsDiffer
  DEF CallsFit, AcquisitionFits, CallersFit, FlagsFollow, PcIn, Quiet, Resting, Stopping
<1>11. RunsWhenQuiet'
  BY <1>1, <1>2, <1>3, <1>5, <1>6, <1>7, ThreadsDiffer
  DEF CallsFit, RunsWhenQuiet, AcquisitionFits, CallersFit, FlagsFollow, PcIn, Quiet, Resting,
      Stopping
<1>12. NeverLost'
  BY <1>1, <1>2, <1>3, <1>5, <1>6, <1>7, ThreadsDiffer
  DEF CallsFit, NeverLost, RunsWhenQuiet, CallersFit, AcquisitionFits, FlagsFollow, LossIsKnown,
      PcIn, Quiet, Resting, Stopping
<1> QED  BY <1>6, <1>8, <1>9, <1>10, <1>11, <1>12 DEF CallsFit

\* It is refused where the camera has gone, or grabs already.
LEMMA ServerGrabKeeps == ASSUME VideoInv, apart, apart', Grab(Server) PROVE CallsFit'
<1>1. VideoShape /\ CallsFit /\ LossIsKnown /\ Server \in Threads  BY ThreadsDiffer DEF VideoInv
<1>2. pc[Server] = "grab"  BY DEF Grab
<1>3. PICK step \in {"grabbed", "crashed"} :
        /\ Goto(Server, step)
        /\ step = "grabbed" => grabbing' = "yes"
        /\ step = "crashed" => UNCHANGED grabbing
  BY <1>2 DEF Grab, Refused, StopFailed
<1>4. step \in ServerSteps  BY <1>3 DEF ServerSteps, AcquisitionSteps
<1>5. \A c \in Callers : pc[c] \in Resting  BY <1>1, <1>2 DEF CallsFit, AloneInside, PcIn
<1>6. pc'[Server] = step /\ (\A c \in Callers : pc'[c] = pc[c]) /\ AloneInside'
  BY <1>1, <1>3, <1>4, <1>5, ServerMoves DEF CallsFit
<1>7. UNCHANGED <<observers, running, linked, unplugs, events, native>>  BY DEF Grab, sdk
<1>8. FlagsFollow'
  BY <1>1, <1>2, <1>3, <1>5, <1>6, <1>7, ThreadsDiffer
  DEF CallsFit, FlagsFollow, CallersFit, AcquisitionFits, PcIn
<1>9. CallersFit'
  BY <1>1, <1>2, <1>3, <1>5, <1>6, <1>7, ThreadsDiffer
  DEF CallsFit, CallersFit, FlagsFollow, AcquisitionFits, RunsWhenQuiet, PcIn, Quiet, Resting,
      Stopping
<1>10. AcquisitionFits'
  BY <1>1, <1>2, <1>3, <1>5, <1>6, <1>7, ThreadsDiffer
  DEF CallsFit, AcquisitionFits, CallersFit, FlagsFollow, PcIn, Quiet, Resting, Stopping
<1>11. RunsWhenQuiet'
  BY <1>1, <1>2, <1>3, <1>5, <1>6, <1>7, ThreadsDiffer
  DEF CallsFit, RunsWhenQuiet, AcquisitionFits, CallersFit, FlagsFollow, PcIn, Quiet, Resting,
      Stopping
<1>12. NeverLost'
  BY <1>1, <1>2, <1>3, <1>5, <1>6, <1>7, ThreadsDiffer
  DEF CallsFit, NeverLost, RunsWhenQuiet, CallersFit, AcquisitionFits, FlagsFollow, LossIsKnown,
      PcIn, Quiet, Resting, Stopping
<1> QED  BY <1>6, <1>8, <1>9, <1>10, <1>11, <1>12 DEF CallsFit

\* Its native flag goes up.
LEMMA ServerStartDoneKeeps == ASSUME VideoInv, apart, apart', StartDone(Server) PROVE CallsFit'
<1>1. VideoShape /\ CallsFit /\ LossIsKnown /\ Server \in Threads  BY ThreadsDiffer DEF VideoInv
<1>2. pc[Server] = "grabbed"  BY DEF StartDone
<1>3. PICK step \in {"idle"} :
        /\ Goto(Server, step)
        /\ native' = TRUE
  BY <1>2 DEF StartDone, Refused, StopFailed
<1>4. step \in ServerSteps  BY <1>3 DEF ServerSteps, AcquisitionSteps
<1>5. \A c \in Callers : pc[c] \in Resting  BY <1>1, <1>2 DEF CallsFit, AloneInside, PcIn
<1>6. pc'[Server] = step /\ (\A c \in Callers : pc'[c] = pc[c]) /\ AloneInside'
  BY <1>1, <1>3, <1>4, <1>5, ServerMoves DEF CallsFit
<1>7. UNCHANGED <<observers, running, linked, unplugs, events, grabbing>>  BY DEF StartDone, sdk
<1>8. FlagsFollow'
  BY <1>1, <1>2, <1>3, <1>5, <1>6, <1>7, ThreadsDiffer
  DEF CallsFit, FlagsFollow, CallersFit, AcquisitionFits, PcIn
<1>9. CallersFit'
  BY <1>1, <1>2, <1>3, <1>5, <1>6, <1>7, ThreadsDiffer
  DEF CallsFit, CallersFit, FlagsFollow, AcquisitionFits, RunsWhenQuiet, PcIn, Quiet, Resting,
      Stopping
<1>10. AcquisitionFits'
  BY <1>1, <1>2, <1>3, <1>5, <1>6, <1>7, ThreadsDiffer
  DEF CallsFit, AcquisitionFits, CallersFit, FlagsFollow, PcIn, Quiet, Resting, Stopping
<1>11. RunsWhenQuiet'
  BY <1>1, <1>2, <1>3, <1>5, <1>6, <1>7, ThreadsDiffer
  DEF CallsFit, RunsWhenQuiet, AcquisitionFits, CallersFit, FlagsFollow, PcIn, Quiet, Resting,
      Stopping
<1>12. NeverLost'
  BY <1>1, <1>2, <1>3, <1>5, <1>6, <1>7, ThreadsDiffer
  DEF CallsFit, NeverLost, RunsWhenQuiet, CallersFit, AcquisitionFits, FlagsFollow, LossIsKnown,
      PcIn, Quiet, Resting, Stopping
<1> QED  BY <1>6, <1>8, <1>9, <1>10, <1>11, <1>12 DEF CallsFit

\* The camera has gone and the SDK's thread stops the acquisition, whatever the callers do.
LEMMA ServerStopTestKeeps == ASSUME VideoInv, apart, apart', StopTest(Server) PROVE CallsFit'
<1>1. VideoShape /\ CallsFit /\ LossIsKnown /\ Server \in Threads  BY ThreadsDiffer DEF VideoInv
<1>2. pc[Server] = "stop"  BY DEF StopTest
<1>3. PICK step \in {"freeze", "idle"} :
        /\ Goto(Server, step)
  BY <1>2 DEF StopTest, Refused, StopFailed
<1>4. step \in ServerSteps  BY <1>3 DEF ServerSteps, AcquisitionSteps
<1>5. step \notin {"start", "grab", "grabbed", "crashed"}  BY <1>3
<1>6. pc'[Server] = step /\ (\A c \in Callers : pc'[c] = pc[c]) /\ AloneInside'
  BY <1>1, <1>3, <1>4, <1>5, ServerMoves DEF CallsFit
<1>7. UNCHANGED <<observers, running, linked, unplugs, events, native, grabbing>>  BY DEF StopTest, sdk
<1>8. FlagsFollow'
  BY <1>1, <1>2, <1>3, <1>6, <1>7, ThreadsDiffer
  DEF CallsFit, FlagsFollow, CallersFit, AcquisitionFits, PcIn
<1>9. CallersFit'
  BY <1>1, <1>2, <1>3, <1>6, <1>7, ThreadsDiffer
  DEF CallsFit, CallersFit, FlagsFollow, AcquisitionFits, RunsWhenQuiet, PcIn, Quiet, Resting,
      Stopping
<1>10. AcquisitionFits'
  BY <1>1, <1>2, <1>3, <1>6, <1>7, ThreadsDiffer
  DEF CallsFit, AcquisitionFits, CallersFit, FlagsFollow, PcIn, Quiet, Resting, Stopping
<1>11. RunsWhenQuiet'
  BY <1>1, <1>2, <1>3, <1>6, <1>7, ThreadsDiffer
  DEF CallsFit, RunsWhenQuiet, AcquisitionFits, CallersFit, FlagsFollow, PcIn, Quiet, Resting,
      Stopping
<1>12. NeverLost'
  BY <1>1, <1>2, <1>3, <1>6, <1>7, ThreadsDiffer
  DEF CallsFit, NeverLost, RunsWhenQuiet, CallersFit, AcquisitionFits, FlagsFollow, LossIsKnown,
      PcIn, Quiet, Resting, Stopping
<1> QED  BY <1>6, <1>8, <1>9, <1>10, <1>11, <1>12 DEF CallsFit

\* It ends the transfer.
LEMMA ServerFreezeKeeps == ASSUME VideoInv, apart, apart', Freeze(Server) PROVE CallsFit'
<1>1. VideoShape /\ CallsFit /\ LossIsKnown /\ Server \in Threads  BY ThreadsDiffer DEF VideoInv
<1>2. pc[Server] = "freeze"  BY DEF Freeze
<1>3. PICK step \in {"frozen", "unfrozen"} :
        /\ Goto(Server, step)
        /\ grabbing' = "no"
  BY <1>2 DEF Freeze, Refused, StopFailed
<1>4. step \in ServerSteps  BY <1>3 DEF ServerSteps, AcquisitionSteps
<1>5. step \notin {"start", "grab", "grabbed", "crashed"}  BY <1>3
<1>6. pc'[Server] = step /\ (\A c \in Callers : pc'[c] = pc[c]) /\ AloneInside'
  BY <1>1, <1>3, <1>4, <1>5, ServerMoves DEF CallsFit
<1>7. UNCHANGED <<observers, running, linked, unplugs, events, native>>  BY DEF Freeze, sdk
<1>8. FlagsFollow'
  BY <1>1, <1>2, <1>3, <1>6, <1>7, ThreadsDiffer
  DEF CallsFit, FlagsFollow, CallersFit, AcquisitionFits, PcIn
<1>9. CallersFit'
  BY <1>1, <1>2, <1>3, <1>6, <1>7, ThreadsDiffer
  DEF CallsFit, CallersFit, FlagsFollow, AcquisitionFits, RunsWhenQuiet, PcIn, Quiet, Resting,
      Stopping
<1>10. AcquisitionFits'
  BY <1>1, <1>2, <1>3, <1>6, <1>7, ThreadsDiffer
  DEF CallsFit, AcquisitionFits, CallersFit, FlagsFollow, PcIn, Quiet, Resting, Stopping,
      RunsWhenQuiet
<1>11. RunsWhenQuiet'
  BY <1>1, <1>2, <1>3, <1>6, <1>7, ThreadsDiffer
  DEF CallsFit, RunsWhenQuiet, AcquisitionFits, CallersFit, FlagsFollow, PcIn, Quiet, Resting,
      Stopping
<1>12. NeverLost'
  BY <1>1, <1>2, <1>3, <1>6, <1>7, ThreadsDiffer
  DEF CallsFit, NeverLost, RunsWhenQuiet, CallersFit, AcquisitionFits, FlagsFollow, LossIsKnown,
      PcIn, Quiet, Resting, Stopping
<1> QED  BY <1>6, <1>8, <1>9, <1>10, <1>11, <1>12 DEF CallsFit

\* Its native flag goes down.
LEMMA ServerStopDoneKeeps == ASSUME VideoInv, apart, apart', StopDone(Server) PROVE CallsFit'
<1>1. VideoShape /\ CallsFit /\ LossIsKnown /\ Server \in Threads  BY ThreadsDiffer DEF VideoInv
<1>2. pc[Server] \in {"frozen", "unfrozen"}  BY DEF StopDone
<1>3. PICK step \in {"idle"} :
        /\ Goto(Server, step)
        /\ native' = FALSE
  BY <1>2 DEF StopDone, Refused, StopFailed
<1>4. step \in ServerSteps  BY <1>3 DEF ServerSteps, AcquisitionSteps
<1>5. step \notin {"start", "grab", "grabbed", "crashed"}  BY <1>3
<1>6. pc'[Server] = step /\ (\A c \in Callers : pc'[c] = pc[c]) /\ AloneInside'
  BY <1>1, <1>3, <1>4, <1>5, ServerMoves DEF CallsFit
<1>7. UNCHANGED <<observers, running, linked, unplugs, events, grabbing>>  BY DEF StopDone, sdk
<1>8. FlagsFollow'
  BY <1>1, <1>2, <1>3, <1>6, <1>7, ThreadsDiffer
  DEF CallsFit, FlagsFollow, CallersFit, AcquisitionFits, PcIn
<1>9. CallersFit'
  BY <1>1, <1>2, <1>3, <1>6, <1>7, ThreadsDiffer
  DEF CallsFit, CallersFit, FlagsFollow, AcquisitionFits, RunsWhenQuiet, PcIn, Quiet, Resting,
      Stopping
<1>10. AcquisitionFits'
  BY <1>1, <1>2, <1>3, <1>6, <1>7, ThreadsDiffer
  DEF CallsFit, AcquisitionFits, CallersFit, FlagsFollow, PcIn, Quiet, Resting, Stopping
<1>11. RunsWhenQuiet'
  BY <1>1, <1>2, <1>3, <1>6, <1>7, ThreadsDiffer
  DEF CallsFit, RunsWhenQuiet, AcquisitionFits, CallersFit, FlagsFollow, PcIn, Quiet, Resting,
      Stopping
<1>12. NeverLost'
  BY <1>1, <1>2, <1>3, <1>6, <1>7, ThreadsDiffer
  DEF CallsFit, NeverLost, RunsWhenQuiet, CallersFit, AcquisitionFits, FlagsFollow, LossIsKnown,
      PcIn, Quiet, Resting, Stopping
<1> QED  BY <1>6, <1>8, <1>9, <1>10, <1>11, <1>12 DEF CallsFit

\* What ServerCallback and the cable do to the SDK's events.
LEMMA EventsAreTold ==
    ASSUME VideoInv, CameraDisconnected \/ CameraConnected \/ Unplug \/ Plug
    PROVE  /\ LastEventIsTrue' /\ LossIsKnown' /\ unplugs' # 0
           /\ Quiet' => CameraConnected
<1>1. VideoShape /\ LastEventIsTrue /\ LossIsKnown  BY DEF VideoInv
<1>2. ASSUME NEW what, what \in {"connected", "disconnected"}, NextEvent(what),
             UNCHANGED <<linked, unplugs>>, what = "disconnected" => state' = "NotConnected",
             what = "connected" => UNCHANGED state
      PROVE  /\ LastEventIsTrue' /\ LossIsKnown' /\ unplugs' # 0
             /\ Quiet' => what = "connected"
  <2>1. events # <<>> /\ Head(events) = what /\ events' = Tail(events)  BY <1>2 DEF NextEvent
  <2>2. /\ events' # <<>> => events'[Len(events')] = events[Len(events)]
        /\ events' = <<>> => events[Len(events)] = what
    BY <1>1, <2>1, EventTaken DEF VideoShape
  <2>3. LastEventIsTrue'  BY <1>1, <1>2, <2>1, <2>2 DEF LastEventIsTrue
  <2>4. unplugs # 0  BY <1>1, <2>1 DEF LossIsKnown
  <2>5. what = "connected" => state # "Ready"  BY <1>1, <2>1, <2>4 DEF LossIsKnown
  <2>6. LossIsKnown'  BY <1>2, <2>4, <2>5 DEF LossIsKnown
  <2>7. Quiet' => what = "connected"  BY <1>1, <1>2, <2>1, <2>2 DEF Quiet, LastEventIsTrue
  <2> QED  BY <1>2, <2>3, <2>4, <2>6, <2>7
<1>3. CASE CameraDisconnected
  BY <1>2, <1>3 DEF CameraDisconnected
<1>4. CASE CameraConnected
  BY <1>2, <1>4 DEF CameraConnected
<1>5. ASSUME NEW what \in {"connected", "disconnected"}, events' = Append(events, what),
             linked' <=> what = "connected", unplugs' # 0, UNCHANGED state,
             unplugs = 0 => what = "disconnected"
      PROVE  LastEventIsTrue' /\ LossIsKnown' /\ unplugs' # 0 /\ ~Quiet'
  <2>1. /\ events' # <<>> /\ events'[Len(events')] = what
        /\ events # <<>> => Head(events') = Head(events)
        /\ events = <<>> => Head(events') = what
    BY <1>1, <1>5, EventAppended DEF VideoShape
  <2>2. LastEventIsTrue' /\ ~Quiet'  BY <1>5, <2>1 DEF LastEventIsTrue, Quiet
  <2>3. LossIsKnown'  BY <1>1, <1>5, <2>1 DEF LossIsKnown
  <2> QED  BY <1>5, <2>2, <2>3
<1>6. CASE Unplug
  <2>1. /\ events' = Append(events, "disconnected") /\ linked' = FALSE /\ unplugs' = unplugs + 1
        /\ UNCHANGED state
    BY <1>6 DEF Unplug
  <2>2. unplugs' # 0  BY <1>1, <2>1, VideoAssumption DEF VideoShape
  <2> QED  BY <1>5, <2>1, <2>2
<1>7. CASE Plug
  <2>1. /\ events' = Append(events, "connected") /\ linked' = TRUE /\ ~linked
        /\ UNCHANGED <<state, unplugs>>
    BY <1>7 DEF Plug
  <2>2. unplugs # 0  BY <1>1, <2>1 DEF LossIsKnown
  <2> QED  BY <1>5, <2>1, <2>2
<1> QED  BY <1>3, <1>4, <1>6, <1>7

\* The loss of the camera is told, perhaps while a caller is inside a call.
LEMMA CameraDisconnectedKeeps ==
    ASSUME VideoInv, apart, apart', CameraDisconnected
    PROVE  CallsFit'
<1>1. VideoShape /\ CallsFit  BY DEF VideoInv
<1>2. pc[Server] = "idle" /\ Goto(Server, "stop")  BY DEF CameraDisconnected, NextEvent
<1>3. "stop" \in ServerSteps  BY DEF ServerSteps, AcquisitionSteps
<1>4. pc'[Server] = "stop" /\ (\A c \in Callers : pc'[c] = pc[c]) /\ AloneInside'
  BY <1>1, <1>2, <1>3, ServerMoves DEF CallsFit
<1>5. UNCHANGED <<observers, running, native, grabbing>>  BY DEF CameraDisconnected
<1>6. unplugs' # 0 /\ ~Quiet'
  BY <1>2, EventsAreTold DEF CameraDisconnected, CameraConnected, NextEvent
<1>7. FlagsFollow'  BY <1>1, <1>5 DEF CallsFit, FlagsFollow
<1>8. CallersFit'  BY <1>1, <1>4, <1>5, <1>6 DEF CallsFit, CallersFit, PcIn
<1>9. AcquisitionFits'
  BY <1>1, <1>4, <1>5, <1>6, ThreadsDiffer DEF CallsFit, AcquisitionFits, PcIn
<1>10. RunsWhenQuiet' /\ NeverLost'  BY <1>6 DEF RunsWhenQuiet, NeverLost
<1> QED  BY <1>4, <1>7, <1>8, <1>9, <1>10 DEF CallsFit

\* The camera is back: an acquisition that is said to run is started again.
LEMMA CameraConnectedKeeps ==
    ASSUME VideoInv, apart, apart', CameraConnected
    PROVE  CallsFit'
<1> DEFINE step == IF running THEN "start" ELSE "idle"
<1>1. VideoShape /\ CallsFit  BY DEF VideoInv
<1>2. \A c \in Callers : pc[c] \in Resting  BY DEF CameraConnected
<1>3. Goto(Server, step)  BY DEF CameraConnected
<1>4. step \in ServerSteps  BY DEF ServerSteps, AcquisitionSteps
<1>5. step = IF running THEN "start" ELSE "idle"  OBVIOUS
<1> HIDE DEF step
<1>6. pc'[Server] = step /\ (\A c \in Callers : pc'[c] = pc[c]) /\ AloneInside'
  BY <1>1, <1>2, <1>3, <1>4, ServerMoves DEF CallsFit
<1>7. UNCHANGED <<observers, running, native, grabbing>>  BY DEF CameraConnected
<1>8. unplugs' # 0  BY EventsAreTold
<1>9. FlagsFollow'  BY <1>1, <1>7 DEF CallsFit, FlagsFollow
<1>10. CallersFit'
  BY <1>1, <1>2, <1>6, <1>7 DEF CallsFit, CallersFit, PcIn, Resting
<1>11. AcquisitionFits'
  BY <1>1, <1>2, <1>5, <1>6, <1>7, ThreadsDiffer DEF CallsFit, AcquisitionFits, PcIn, Resting
<1>12. RunsWhenQuiet'
  BY <1>1, <1>5, <1>6, <1>7, ThreadsDiffer DEF VideoShape, RunsWhenQuiet, PcIn, Stopping
<1>13. NeverLost'  BY <1>8 DEF NeverLost
<1> QED  BY <1>6, <1>9, <1>10, <1>11, <1>12, <1>13 DEF CallsFit

\* The cable is pulled, or back: what holds of the flags still does, and the SDK has
\* something to tell.
LEMMA CableKeeps == ASSUME VideoInv, apart, apart', Unplug \/ Plug PROVE CallsFit'
<1>1. VideoShape /\ CallsFit  BY DEF VideoInv
<1>2. /\ UNCHANGED <<observers, running, native, pc>>
      /\ grabbing = "no" => grabbing' = "no"
  BY DEF Unplug, Plug
<1>3. unplugs' # 0 /\ ~Quiet'
  <2>1. events' # <<>>  BY <1>1, EventAppended DEF VideoShape, Unplug, Plug
  <2> QED  BY <2>1, EventsAreTold DEF Quiet
<1>4. AloneInside'  BY <1>1, <1>2 DEF CallsFit, AloneInside, PcIn
<1>5. FlagsFollow'  BY <1>1, <1>2 DEF CallsFit, FlagsFollow
<1>6. CallersFit'  BY <1>1, <1>2, <1>3 DEF CallsFit, CallersFit, PcIn
<1>7. AcquisitionFits'  BY <1>1, <1>2, <1>3 DEF CallsFit, AcquisitionFits, PcIn
<1>8. RunsWhenQuiet' /\ NeverLost'  BY <1>3 DEF RunsWhenQuiet, NeverLost
<1> QED  BY <1>4, <1>5, <1>6, <1>7, <1>8 DEF CallsFit

\* The calls do not touch the SDK's events, nor do they come to keep apart again.
LEMMA CallsAlone ==
    ASSUME VideoShape, (\E c \in Callers : Caller(c)) \/ \E t \in Threads : Acquisition(t)
    PROVE  UNCHANGED <<linked, unplugs, events, state>> /\ (apart' => apart)
<1>1. ASSUME NEW c \in Callers, Caller(c)
      PROVE  UNCHANGED <<linked, unplugs, events, state>> /\ (apart' => apart)
  BY <1>1 DEF VideoShape, sdk, Caller, Subscribe, SubscribeTest, Claim, Dispose, DisposeTest,
              DisposeTestRunning, Unset, Enters
<1>2. ASSUME NEW t \in Threads, Acquisition(t)
      PROVE  UNCHANGED <<linked, unplugs, events, state>> /\ (apart' => apart)
  BY <1>2 DEF sdk, Acquisition, StartTest, Grab, StartDone, StopTest, Freeze, StopDone
<1> QED  BY <1>1, <1>2

\* In every behaviour, the flags of the three layers agree as VideoInv says as long as the
\* calls keep apart.  When they do not the flags may disagree: the run video_overlap shows it.
THEOREM VideoInvariant == VideoSpec => []VideoInv
<1>1. VideoInit => VideoInv
  <2> SUFFICES ASSUME VideoInit PROVE VideoInv  OBVIOUS
  <2>1. pc = [t \in Threads |-> IF t = Server THEN "idle" ELSE "out"]  BY DEF VideoInit
  <2>2. pc[Server] = "idle" /\ (\A c \in Callers : pc[c] = "out")
        /\ \A t \in Threads : pc[t] \in {"idle", "out"}
    BY <2>1, ThreadsDiffer
  <2>3. VideoShape  BY VideoStarts
  <2>4. AloneInside  BY <2>2 DEF AloneInside, Resting
  <2>5. LastEventIsTrue /\ LossIsKnown /\ FlagsFollow
    BY DEF VideoInit, LastEventIsTrue, LossIsKnown, FlagsFollow
  <2>6. CallersFit  BY <2>2 DEF CallersFit, PcIn
  <2>7. AcquisitionFits  BY <2>2 DEF AcquisitionFits, PcIn
  <2>8. RunsWhenQuiet /\ NeverLost
    BY <2>2, ThreadsDiffer DEF VideoInit, RunsWhenQuiet, NeverLost, PcIn, Stopping
  <2> QED  BY <2>3, <2>4, <2>5, <2>6, <2>7, <2>8 DEF VideoInv, CallsFit
<1>2. VideoInv /\ [VideoNext]_videoVars => VideoInv'
  <2> SUFFICES ASSUME VideoInv, [VideoNext]_videoVars PROVE VideoInv'  OBVIOUS
  <2>1. CASE UNCHANGED videoVars
    BY <2>1 DEF videoVars, sdk, VideoInv, VideoShape, LastEventIsTrue, LossIsKnown, CallsFit, AloneInside,
                FlagsFollow, CallersFit, AcquisitionFits, RunsWhenQuiet, NeverLost, PcIn, Quiet
  <2>2. CASE VideoNext
    <3> VideoShape  BY DEF VideoInv
    <3>1. VideoShape'
      BY <2>2, CallerShape, AcquisitionShape, EventShape, CableShape DEF VideoInv, VideoNext, Environment
    <3>2. ASSUME NEW c \in Callers, Caller(c) PROVE apart' => CallsFit'
      BY <3>2, CallsAlone, SubscribeKeeps, SubscribeTestKeeps, ClaimKeeps, DisposeKeeps, DisposeTestKeeps,
         DisposeTestRunningKeeps, UnsetKeeps DEF Caller
    <3>3. ASSUME NEW c \in Callers, Acquisition(c) PROVE apart' => CallsFit'
      BY <3>3, CallsAlone, ThreadsDiffer, CallerStartTestKeeps, CallerGrabKeeps, CallerStartDoneKeeps,
         CallerStopTestKeeps, CallerFreezeKeeps, CallerStopDoneKeeps DEF Acquisition
    <3>4. ASSUME Acquisition(Server) PROVE apart' => CallsFit'
      BY <3>4, CallsAlone, ThreadsDiffer, ServerStartTestKeeps, ServerGrabKeeps, ServerStartDoneKeeps,
         ServerStopTestKeeps, ServerFreezeKeeps, ServerStopDoneKeeps DEF Acquisition
    <3>5. ASSUME CameraDisconnected \/ CameraConnected \/ Environment PROVE apart' => CallsFit'
      <4>1. apart' => apart  BY <3>5 DEF CameraDisconnected, CameraConnected, Environment, Unplug, Plug
      <4> QED  BY <3>5, <4>1, CameraDisconnectedKeeps, CameraConnectedKeeps, CableKeeps DEF Environment
    <3>6. LastEventIsTrue' /\ LossIsKnown'
      <4>1. CASE (\E c \in Callers : Caller(c)) \/ \E t \in Threads : Acquisition(t)
        BY <4>1, CallsAlone DEF VideoInv, LastEventIsTrue, LossIsKnown
      <4>2. CASE CameraDisconnected \/ CameraConnected \/ Environment
        BY <4>2, EventsAreTold DEF Environment
      <4> QED  BY <2>2, <4>1, <4>2 DEF VideoNext
    <3>7. apart' => CallsFit'  BY <2>2, <3>2, <3>3, <3>4, <3>5, ThreadsDiffer DEF VideoNext
    <3> QED  BY <3>1, <3>6, <3>7 DEF VideoInv
  <2> QED  BY <2>1, <2>2
<1> QED  BY <1>1, <1>2, PTL DEF VideoSpec

\* While the calls keep apart whoever has subscribed gets frames while the camera is there,
\* and the camera that nobody observes is stopped unless it was lost.
THEOREM CameraIsServing == VideoSpec => []CameraServesObservers
<1>1. ASSUME VideoInv PROVE CameraServesObservers
  <2> SUFFICES ASSUME apart PROVE ObserversAreServed /\ UnobservedMeansStopped
    BY DEF CameraServesObservers
  <2> VideoShape /\ LossIsKnown /\ CallsFit  BY <1>1 DEF VideoInv
  <2>1. ASSUME AtRest, linked, Watching # {} PROVE grabbing = "yes"
    <3>1. Quiet /\ running
      BY <2>1 DEF AtRest, Quiet, Watching, VideoShape, CallsFit, CallersFit, PcIn
    <3>2. \A t \in Threads : ~PcIn(t, {"start", "grab", "grabbed", "frozen", "unset"})
            /\ pc[t] # "crashed"
      BY <2>1 DEF AtRest, Resting, PcIn
    <3> QED  BY <3>1, <3>2, ThreadsDiffer DEF CallsFit, RunsWhenQuiet
  <2>2. ASSUME AtRest, state = "Ready", observers = {} PROVE grabbing = "no" /\ ~running
    <3>1. unplugs = 0  BY <2>2 DEF AtRest, LossIsKnown
    <3>2. \A c \in Callers : ~PcIn(c, {"removed", "emptied", "stop", "freeze", "frozen", "unset"})
      BY <2>2, ThreadsDiffer DEF AtRest, Resting, PcIn
    <3>3. ~running  BY <2>2, <3>1, <3>2 DEF CallsFit, NeverLost
    <3> QED  BY <3>3 DEF CallsFit, FlagsFollow
  <2> QED  BY <2>1, <2>2 DEF ObserversAreServed, UnobservedMeansStopped
<1> QED  BY <1>1, VideoInvariant, PTL

\* While the calls keep apart no subscription is refused by a native flag left behind,
\* although the SDK's thread may stop the acquisition between any two steps of the call.
THEOREM NoFlagIsLeft == VideoSpec => []NoStaleRefusal
<1>1. VideoInv => NoStaleRefusal
  BY DEF VideoInv, CallsFit, CallersFit, PcIn, NoStaleRefusal
<1> QED  BY <1>1, VideoInvariant, PTL

-----------------------------------------------------------------------------
(* The game service, whatever the other callers and the SDK's thread do. *)

\* Where the player's request is decides what StartGame and StopGame have done so far.
PlayerPlace ==
    LET p == pc[Player] IN
    /\ game.state = "IsRunning" <=>
         p \in {"in", "kept", "removed", "emptied", "stop", "freeze", "frozen", "unfrozen", "unset"}
    /\ game.player <=> p # "out"
    /\ Player \in observers <=> p \in {"added", "claim", "start", "grab", "grabbed", "in", "failed"}

\* A step of another thread touches neither the player nor the game.
LEMMA PlayerUntouched ==
    ASSUME VideoShape, NEW t \in Threads, t # Player,
           Acquisition(t) \/ (t \in Callers /\ Caller(t))
    PROVE  UNCHANGED <<game, pc[Player]>> /\ (Player \in observers' <=> Player \in observers)
<1>1. UNCHANGED game
  BY DEF Acquisition, StartTest, Grab, StartDone, StopTest, Freeze, StopDone, Refused, StopFailed,
         Caller, Subscribe, SubscribeTest, Claim, Dispose, DisposeTest, DisposeTestRunning, Unset,
         StartGame, GameStarted, GameStopped
<1>2. \E step : Goto(t, step)
  BY DEF Acquisition, StartTest, Grab, StartDone, StopTest, Freeze, StopDone, Refused, StopFailed,
         Caller, Subscribe, SubscribeTest, Claim, Dispose, DisposeTest, DisposeTestRunning, Unset, Enters
<1>3. UNCHANGED pc[Player]  BY <1>2, ThreadsDiffer DEF Goto, VideoShape
<1>4. Player \in observers' <=> Player \in observers
  BY DEF Acquisition, StartTest, Grab, StartDone, StopTest, Freeze, StopDone,
         Caller, Subscribe, SubscribeTest, Claim, Dispose, DisposeTest, DisposeTestRunning, Unset
<1> QED  BY <1>1, <1>3, <1>4

\* A step of the player's request takes the game to the next place.
LEMMA PlayerGoes ==
    ASSUME VideoShape, PlayerPlace, Acquisition(Player) \/ Caller(Player)
    PROVE  PlayerPlace'
<1> DEFINE p == pc[Player]
           q == pc'[Player]
           shape == game \in [state : {"NoGame", "IsRunning"}, player : BOOLEAN]
<1>1. /\ Player \in Threads /\ Player # Server
      /\ pc \in [Threads -> CallerSteps \cup ServerSteps] /\ shape
  BY ThreadsDiffer DEF VideoShape
<1>2. ASSUME NEW step, Goto(Player, step) PROVE q = step  BY <1>1, <1>2 DEF Goto
<1>3. CASE Caller(Player)
  <2>1. CASE Subscribe(Player)
    <3>1. q = "added"  BY <1>2, <2>1 DEF Subscribe, Enters
    <3> QED  BY <1>1, <2>1, <3>1 DEF Subscribe, StartGame, PlayerPlace
  <2>2. CASE SubscribeTest(Player)
    <3>1. q = IF running THEN "in" ELSE "claim"  BY <1>2, <2>2 DEF SubscribeTest
    <3> QED  BY <1>1, <2>2, <3>1 DEF SubscribeTest, GameStarted, PlayerPlace
  <2>3. CASE Claim(Player)
    <3>1. q = "start"  BY <1>2, <2>3 DEF Claim
    <3> QED  BY <2>3, <3>1 DEF Claim, PlayerPlace
  <2>4. CASE Dispose(Player)
    <3>1. q = "removed"  BY <1>2, <2>4 DEF Dispose, Enters
    <3> QED  BY <2>4, <3>1 DEF Dispose, PlayerPlace
  <2>5. CASE DisposeTest(Player)
    <3>1. q = IF observers = {} THEN "emptied" ELSE "out"  BY <1>2, <2>5 DEF DisposeTest
    <3> QED  BY <1>1, <2>5, <3>1 DEF DisposeTest, GameStopped, PlayerPlace
  <2>6. CASE DisposeTestRunning(Player)
    <3>1. q = IF running THEN "stop" ELSE "out"  BY <1>2, <2>6 DEF DisposeTestRunning
    <3> QED  BY <1>1, <2>6, <3>1 DEF DisposeTestRunning, GameStopped, PlayerPlace
  <2>7. CASE Unset(Player)
    <3>1. q = "out"  BY <1>2, <2>7 DEF Unset
    <3> QED  BY <1>1, <2>7, <3>1 DEF Unset, GameStopped, PlayerPlace
  <2> QED  BY <1>3, <2>1, <2>2, <2>3, <2>4, <2>5, <2>6, <2>7 DEF Caller
<1>4. CASE Acquisition(Player)
  <2>1. CASE StartTest(Player)
    <3>1. q = IF native THEN "failed" ELSE "grab"  BY <1>1, <1>2, <2>1 DEF StartTest, Refused
    <3> QED  BY <2>1, <3>1 DEF StartTest, Refused, PlayerPlace
  <2>2. CASE Grab(Player)
    <3>1. q \in {"grabbed", "failed"}  BY <1>1, <1>2, <2>2 DEF Grab, Refused
    <3> QED  BY <2>2, <3>1 DEF Grab, Refused, PlayerPlace
  <2>3. CASE StartDone(Player)
    <3>1. q = "in"  BY <1>1, <1>2, <2>3 DEF StartDone
    <3> QED  BY <1>1, <2>3, <3>1 DEF StartDone, GameStarted, PlayerPlace
  <2>4. CASE StopTest(Player)
    <3>1. q = IF native THEN "freeze" ELSE "kept"  BY <1>1, <1>2, <2>4 DEF StopTest, StopFailed
    <3> QED  BY <2>4, <3>1 DEF StopTest, StopFailed, PlayerPlace
  <2>5. CASE Freeze(Player)
    <3>1. q \in {"frozen", "unfrozen"}  BY <1>2, <2>5 DEF Freeze
    <3> QED  BY <2>5, <3>1 DEF Freeze, PlayerPlace
  <2>6. CASE StopDone(Player)
    <3>1. q \in {"unset", "kept"}  BY <1>1, <1>2, <2>6 DEF StopDone, StopFailed
    <3> QED  BY <1>1, <2>6, <3>1 DEF StopDone, StopFailed, PlayerPlace
  <2> QED  BY <1>4, <2>1, <2>2, <2>3, <2>4, <2>5, <2>6 DEF Acquisition
<1> QED  BY <1>3, <1>4

\* However the callers and the SDK's thread interleave and whatever fails, the game runs
\* exactly while its player observes; a request that threw leaves State as it was.
THEOREM GameKeepsPlayer == VideoSpec => []GameHasPlayer
<1>1. VideoInit => PlayerPlace
  <2> SUFFICES ASSUME VideoInit PROVE PlayerPlace  OBVIOUS
  <2>1. pc[Player] = "out"  BY ThreadsDiffer DEF VideoInit
  <2> QED  BY <2>1 DEF VideoInit, PlayerPlace
<1>2. VideoShape /\ PlayerPlace /\ [VideoNext]_videoVars => PlayerPlace'
  <2> SUFFICES ASSUME VideoShape, PlayerPlace, [VideoNext]_videoVars PROVE PlayerPlace'  OBVIOUS
  <2>1. CASE UNCHANGED videoVars  BY <2>1 DEF videoVars, PlayerPlace
  <2>2. ASSUME NEW t \in Threads, Acquisition(t) \/ (t \in Callers /\ Caller(t)) PROVE PlayerPlace'
    <3>1. CASE t = Player  BY <2>2, <3>1, PlayerGoes
    <3>2. CASE t # Player
      <4>1. UNCHANGED <<game, pc[Player]>> /\ (Player \in observers' <=> Player \in observers)
        BY <2>2, <3>2, PlayerUntouched
      <4> QED  BY <4>1 DEF PlayerPlace
    <3> QED  BY <3>1, <3>2
  <2>3. ASSUME CameraDisconnected \/ CameraConnected \/ Environment PROVE PlayerPlace'
    <3>1. UNCHANGED <<observers, game>>
      BY <2>3 DEF CameraDisconnected, CameraConnected, Environment, Unplug, Plug
    <3>2. UNCHANGED pc \/ \E step : Goto(Server, step)
      BY <2>3 DEF CameraDisconnected, CameraConnected, Environment, Unplug, Plug
    <3>3. UNCHANGED pc[Player]  BY <3>2, ThreadsDiffer DEF Goto, VideoShape
    <3> QED  BY <3>1, <3>3 DEF PlayerPlace
  <2> QED  BY <2>1, <2>2, <2>3, ThreadsDiffer DEF VideoNext
<1>3. VideoShape /\ PlayerPlace => GameHasPlayer
  <2> SUFFICES ASSUME VideoShape, PlayerPlace, pc[Player] \in Resting PROVE GameHasPlayer
    BY DEF GameHasPlayer
  <2>1. pc[Player] \in {"out", "in", "failed", "kept"}
    BY ThreadsDiffer DEF VideoShape, CallerSteps, AcquisitionSteps, Resting
  <2> QED  BY <2>1 DEF PlayerPlace, GameHasPlayer, LastRequestThrew
<1> QED  BY <1>1, <1>2, <1>3, VideoShapeHolds, PTL DEF VideoSpec

-----------------------------------------------------------------------------
(* The calibration of a bar. *)

\* How far a calibration is: 2k with the request of instruction k not yet answered, 2k + 1
\* with its answer in the queue.
Place == 2 * cal.k + Len(answers)
Answer == Head(answers)

\* The control words with voltage, and those of them without the bit of a new set point.
Words == {15, 31, 79, 95}
Rest == {15, 79}

\* The fields of a drive, and its states.
DriveFields == {"word", "state", "becomes", "mode", "display", "rpdo2", "limitState", "minLimit",
                "maxLimit", "target", "pos", "goal", "load", "zero", "homing", "scale"}

DriveShape(d) == DOMAIN d = DriveFields /\ d = [x \in DriveFields |-> d[x]]

States == {"disabled", "ready", "on", "enabled"}

\* What is known of the Telemecanique's drive d at place p, with the answer a and the local
\* variables c: its mode, its voltage, its limits and its zero, ...
TmMode(p, d, a) ==
    /\ p \in 3 .. 26 \/ p \in 81 .. 112 => d.mode = Referencing
    /\ p \in 27 .. 80 \/ p >= 113 => d.mode = PointToPoint
    /\ p \in 6 .. 26 \/ p \in 84 .. 112 => d.display = Referencing
    /\ p \in 30 .. 80 \/ p >= 116 => d.display = PointToPoint
    /\ p \in {5, 83} /\ a = Referencing => d.display = Referencing
    /\ p \in {29, 115} /\ a = PointToPoint => d.display = PointToPoint

TmVoltage(p, d, a) ==
    /\ p \in 11 .. 20 \/ p \in 97 .. 104 => d.becomes = "ready"
    /\ p \in 21 .. 96 \/ p >= 105 => d.becomes = "enabled"
    /\ p \in 14 .. 20 \/ p \in 100 .. 104 => d.state = "ready"
    /\ p \in 24 .. 96 \/ p >= 108 => d.state = "enabled"
    /\ p \in {13, 99} /\ Means(a, "Ready") => d.state = "ready"
    /\ p \in {23, 107} /\ Means(a, "OperationEnabled") => d.state = "enabled"

TmLimits(p, d) ==
    /\ p \in 15 .. 108 => d.limitState = 0
    /\ p >= 109 => d.limitState = 3
    /\ p >= 101 => d.minLimit = 0 - MinBuffer
    /\ p >= 103 => d.maxLimit = Right - Left - MinBuffer
    /\ p >= 87 => d.homing = SetDimensions
    /\ p <= 94 => d.zero = 0
    /\ p >= 95 => d.zero = Left + MinBuffer

\* ... the target and the ends of the way as measured, the control word, ...
TmMeasured(p, d, c, a) ==
    /\ p \in 33 .. 46 => d.target = 0 - BarStep
    /\ p \in 47 .. 56 => d.target = Left + GoBack
    /\ p \in 57 .. 70 => d.target = BarStep
    /\ p \in 71 .. 116 => d.target = Left + MinBuffer
    /\ p = 45 => a = Left
    /\ p >= 46 => c.min = Left
    /\ p = 69 => a = Right
    /\ p >= 70 => c.max = Right

TmWord(p, d, c, a) ==
    /\ p \in 21 .. 96 \/ p >= 105 => d.word \in Words
    /\ p \in {35, 49, 59, 73, 91, 119} => a \in Words
    /\ p \in {36, 50, 60, 74, 92, 120} => c.word \in Words
    /\ p \in {37, 38, 51, 52, 61, 62, 75, 76, 93, 94, 121, 122} => c.word \in Words /\ d.word \in Rest

\* ... and the way of the bar: to the left end, where the load goes up; back from it, where
\* the load goes down; to the right end, and to the place that becomes the zero.
TmWay(p, d, a) ==
    /\ p <= 52 => d.pos \in Left .. Right /\ d.goal \in Int /\ d.goal <= d.pos
                    /\ d.load \in {0, 3} /\ (d.load = 3 => d.pos = Left)
    /\ p = 41 /\ ~(a < LoadLimit) => d.load = 3
    /\ p \in 42 .. 52 => d.load = 3
    /\ p = 43 /\ Means(a, "TargetReached") => d.goal = d.pos
    /\ p \in 44 .. 52 => d.goal = d.pos
    /\ p \in 53 .. 55 => /\ d.goal = Left + GoBack
                         /\ d.pos = Left \/ (d.pos = d.goal /\ d.load = 0)
                         /\ d.pos = Left => d.load = 3
    /\ p = 55 /\ a < LoadLimit => d.load = 0 /\ d.pos = d.goal
    /\ p \in 56 .. 76 => d.pos \in Left .. Right /\ d.goal \in Int /\ d.goal >= d.pos
                           /\ d.load \in {0, 3} /\ (d.load = 3 => d.pos = Right)
    /\ p = 65 /\ ~(a < LoadLimit) => d.load = 3
    /\ p \in 66 .. 76 => d.load = 3
    /\ p = 67 /\ Means(a, "TargetReached") => d.goal = d.pos
    /\ p \in 68 .. 76 => d.goal = d.pos
    /\ p \in 77 .. 122 => d.goal = Left + MinBuffer /\ d.pos \in Left .. Right
    /\ p = 79 /\ Means(a, "TargetReached") => d.pos = d.goal
    /\ p \in 80 .. 122 => d.pos = d.goal

TmFacts(p, d, c, a) ==
    /\ DriveShape(d) /\ d.state \in States /\ d.becomes \in States
    /\ TmMode(p, d, a) /\ TmVoltage(p, d, a) /\ TmLimits(p, d)
    /\ TmMeasured(p, d, c, a) /\ TmWord(p, d, c, a) /\ TmWay(p, d, a)

\* The same of the Faulhaber.
FhFacts(p, d, c, a) ==
    /\ DriveShape(d) /\ d.state \in States /\ d.becomes \in States
    /\ d.limitState = 0 /\ d.zero = 0
    /\ p \in 3 .. 6 => d.becomes = "disabled"
    /\ p \in 7 .. 10 => d.becomes = "ready"
    /\ p \in 11 .. 14 => d.becomes = "on"
    /\ p >= 15 => d.becomes = "enabled"
    /\ p >= 18 => d.state = "enabled"
    /\ p = 17 /\ Means(a, "OperationEnabled") => d.state = "enabled"
    /\ p \in 19 .. 46 => d.mode = PointToPoint
    /\ p \in 22 .. 46 => d.display = PointToPoint
    /\ p = 21 /\ a = PointToPoint => d.display = PointToPoint
    /\ p >= 47 => d.mode = FaulhaberMode
    /\ p >= 50 => d.display = FaulhaberMode
    /\ p = 49 /\ a = FaulhaberMode => d.display = FaulhaberMode
    /\ p \in 37 .. 46 => d.target = 0
    /\ p >= 15 => d.word \in Words
    /\ p \in {29, 39} => a \in Words
    /\ p \in {30, 40} => c.word \in Words
    /\ p \in {31, 32, 41, 42} => c.word \in Words /\ d.word \in Rest
    /\ p >= 43 => d.goal = 0
    /\ p = 45 /\ Means(a, "TargetReached") => d.pos = d.goal
    /\ p >= 46 => d.pos = d.goal

\* Under way is the request waited for, or its answer, and nothing else.
Alone ==
    /\ requests # <<>> => cal.sent /\ requests = <<Request>> /\ answers = <<>>
    /\ answers # <<>> => cal.sent /\ Len(answers) = 1

\* As long as every answer was to the request waited for.
CalibrationInv ==
    ~late => /\ Alone
             /\ motorId = "tm" => TmFacts(Place, drive, cal, Answer)
             /\ motorId = "fh" => FhFacts(Place, drive, cal, Answer)

-----------------------------------------------------------------------------
\* The instruction Telemecanique::Calibrate is at.
LEMMA TmScript ==
    ASSUME motorId = "tm"
    PROVE  LET On(ks, do, obj, val) == cal.k \in ks => Instr = Instruction(do, obj, val)
           IN  /\ Len(Script(motorId)) = 61
               /\ On({1, 40}, "put", "mode", Referencing)
               /\ On({2, 41}, "await", "mode", Referencing)
               /\ On({3}, "put", "rpdo2", Rpdo2Enabled)
               /\ On({4}, "state", "rpdo2", "Rpdo2Enabled")
               /\ On({5, 48}, "put", "control", 0)
               /\ On({6, 49}, "state", "status", "Ready")
               /\ On({7}, "put", "limitState", 0)
               /\ On({8}, "await", "limitState", 0)
               /\ On({9}, "put", "velocity", 8000)
               /\ On({10, 52}, "put", "control", 15)
               /\ On({11, 53}, "state", "status", "OperationEnabled")
               /\ On({12}, "get", "position", "start")
               /\ On({13, 56}, "put", "mode", PointToPoint)
               /\ On({14, 57}, "await", "mode", PointToPoint)
               /\ On({15, 27}, "unload", "load", 0)
               /\ On({16}, "put", "target", 0 - BarStep)
               /\ On({17, 24, 29, 36, 45, 59}, "get", "control", "word")
               /\ On({18, 25, 30, 37, 46, 60}, "clear", "control", 0)
               /\ On({19, 31}, "apply", "control", "Relative")
               /\ On({20, 32}, "push", "load", 0)
               /\ On({21, 33, 39}, "state", "status", "TargetReached")
               /\ On({22}, "get", "position", "min")
               /\ On({23}, "calc", "target", "back")
               /\ On({26, 38, 47, 61}, "apply", "control", "Absolute")
               /\ On({28}, "put", "target", BarStep)
               /\ On({34}, "get", "position", "max")
               /\ On({35}, "calc", "target", "rest")
               /\ On({42}, "put", "dimension", 0)
               /\ On({43}, "put", "homing", SetDimensions)
               /\ On({44}, "await", "homing", SetDimensions)
               /\ On({50}, "calc", "minLimit", "minLimit")
               /\ On({51}, "calc", "maxLimit", "maxLimit")
               /\ On({54}, "put", "limitState", 3)
               /\ On({55}, "await", "limitState", 3)
               /\ On({58}, "calc", "target", "middle")
<1> DEFINE Is(k, do, obj, val) == TelemecaniqueCalibrate[k] = Instruction(do, obj, val)
<1> USE DEF TelemecaniqueCalibrate, PutAwait, Put, Await, AwaitState, Voltage, Push,
            SetPositioningMethod, Get, Unload, Calc, Reached
<1>1. /\ Is(1, "put", "mode", Referencing) /\ Is(2, "await", "mode", Referencing)
      /\ Is(3, "put", "rpdo2", Rpdo2Enabled) /\ Is(4, "state", "rpdo2", "Rpdo2Enabled")  BY SMTT(60)
<1>2. /\ Is(5, "put", "control", 0) /\ Is(6, "state", "status", "Ready")
      /\ Is(7, "put", "limitState", 0) /\ Is(8, "await", "limitState", 0)  BY SMTT(60)
<1>3. /\ Is(9, "put", "velocity", 8000) /\ Is(10, "put", "control", 15)
      /\ Is(11, "state", "status", "OperationEnabled") /\ Is(12, "get", "position", "start")  BY SMTT(60)
<1>4. /\ Is(13, "put", "mode", PointToPoint) /\ Is(14, "await", "mode", PointToPoint)
      /\ Is(15, "unload", "load", 0) /\ Is(16, "put", "target", 0 - BarStep)  BY SMTT(60)
<1>5. /\ Is(17, "get", "control", "word") /\ Is(18, "clear", "control", 0)
      /\ Is(19, "apply", "control", "Relative") /\ Is(20, "push", "load", 0)  BY SMTT(60)
<1>6. /\ Is(21, "state", "status", "TargetReached") /\ Is(22, "get", "position", "min")
      /\ Is(23, "calc", "target", "back") /\ Is(24, "get", "control", "word")  BY SMTT(60)
<1>7. /\ Is(25, "clear", "control", 0) /\ Is(26, "apply", "control", "Absolute")
      /\ Is(27, "unload", "load", 0) /\ Is(28, "put", "target", BarStep)  BY SMTT(60)
<1>8. /\ Is(29, "get", "control", "word") /\ Is(30, "clear", "control", 0)
      /\ Is(31, "apply", "control", "Relative") /\ Is(32, "push", "load", 0)  BY SMTT(60)
<1>9. /\ Is(33, "state", "status", "TargetReached") /\ Is(34, "get", "position", "max")
      /\ Is(35, "calc", "target", "rest") /\ Is(36, "get", "control", "word")  BY SMTT(60)
<1>10. /\ Is(37, "clear", "control", 0) /\ Is(38, "apply", "control", "Absolute")
      /\ Is(39, "state", "status", "TargetReached") /\ Is(40, "put", "mode", Referencing)  BY SMTT(60)
<1>11. /\ Is(41, "await", "mode", Referencing) /\ Is(42, "put", "dimension", 0)
      /\ Is(43, "put", "homing", SetDimensions) /\ Is(44, "await", "homing", SetDimensions)  BY SMTT(60)
<1>12. /\ Is(45, "get", "control", "word") /\ Is(46, "clear", "control", 0)
      /\ Is(47, "apply", "control", "Absolute") /\ Is(48, "put", "control", 0)  BY SMTT(60)
<1>13. /\ Is(49, "state", "status", "Ready") /\ Is(50, "calc", "minLimit", "minLimit")
      /\ Is(51, "calc", "maxLimit", "maxLimit") /\ Is(52, "put", "control", 15)  BY SMTT(60)
<1>14. /\ Is(53, "state", "status", "OperationEnabled") /\ Is(54, "put", "limitState", 3)
      /\ Is(55, "await", "limitState", 3) /\ Is(56, "put", "mode", PointToPoint)  BY SMTT(60)
<1>15. /\ Is(57, "await", "mode", PointToPoint) /\ Is(58, "calc", "target", "middle")
      /\ Is(59, "get", "control", "word") /\ Is(60, "clear", "control", 0)  BY SMTT(60)
<1>16. /\ Is(61, "apply", "control", "Absolute")  BY SMTT(60)
<1>17. Len(TelemecaniqueCalibrate) = 61  OBVIOUS
<1> HIDE DEF TelemecaniqueCalibrate
<1>18. Script(motorId) = TelemecaniqueCalibrate /\ Instr = TelemecaniqueCalibrate[cal.k]
  BY DEF Script, Instr
<1> QED  BY <1>1, <1>2, <1>3, <1>4, <1>5, <1>6, <1>7, <1>8, <1>9, <1>10, <1>11, <1>12, <1>13, <1>14, <1>15, <1>16, <1>17, <1>18, SMTT(60)

\* The instruction Faulhaber::Calibrate is at.
LEMMA FhScript ==
    ASSUME motorId = "fh"
    PROVE  LET On(ks, do, obj, val) == cal.k \in ks => Instr = Instruction(do, obj, val)
           IN  /\ Len(Script(motorId)) = 24
               /\ On({1}, "put", "control", 0)
               /\ On({2}, "state", "status", "SwitchOnDisabled")
               /\ On({3}, "put", "control", 6)
               /\ On({4}, "state", "status", "Ready")
               /\ On({5}, "put", "control", 7)
               /\ On({6}, "state", "status", "OperationSwitchedOn")
               /\ On({7}, "put", "control", 15)
               /\ On({8}, "state", "status", "OperationEnabled")
               /\ On({9}, "put", "mode", PointToPoint)
               /\ On({10}, "await", "mode", PointToPoint)
               /\ On({11}, "put", "scale", 360)
               /\ On({12}, "await", "scale", 360)
               /\ On({13}, "put", "target", 360)
               /\ On({14, 19}, "get", "control", "word")
               /\ On({15, 20}, "clear", "control", 0)
               /\ On({16}, "apply", "control", "Relative")
               /\ On({17, 22}, "state", "status", "TargetReached")
               /\ On({18}, "put", "target", 0)
               /\ On({21}, "apply", "control", "Absolute")
               /\ On({23}, "put", "mode", FaulhaberMode)
               /\ On({24}, "await", "mode", FaulhaberMode)
<1> DEFINE Is(k, do, obj, val) == FaulhaberCalibrate[k] = Instruction(do, obj, val)
<1> USE DEF FaulhaberCalibrate, PutAwait, Put, Await, AwaitState, Voltage,
            SetPositioningMethod, Get, Reached
<1>1. /\ Is(1, "put", "control", 0) /\ Is(2, "state", "status", "SwitchOnDisabled")
      /\ Is(3, "put", "control", 6) /\ Is(4, "state", "status", "Ready")
      /\ Is(5, "put", "control", 7) /\ Is(6, "state", "status", "OperationSwitchedOn")  BY SMTT(60)
<1>2. /\ Is(7, "put", "control", 15) /\ Is(8, "state", "status", "OperationEnabled")
      /\ Is(9, "put", "mode", PointToPoint) /\ Is(10, "await", "mode", PointToPoint)
      /\ Is(11, "put", "scale", 360) /\ Is(12, "await", "scale", 360)  BY SMTT(60)
<1>3. /\ Is(13, "put", "target", 360) /\ Is(14, "get", "control", "word")
      /\ Is(15, "clear", "control", 0) /\ Is(16, "apply", "control", "Relative")
      /\ Is(17, "state", "status", "TargetReached") /\ Is(18, "put", "target", 0)  BY SMTT(60)
<1>4. /\ Is(19, "get", "control", "word") /\ Is(20, "clear", "control", 0)
      /\ Is(21, "apply", "control", "Absolute") /\ Is(22, "state", "status", "TargetReached")
      /\ Is(23, "put", "mode", FaulhaberMode) /\ Is(24, "await", "mode", FaulhaberMode)  BY SMTT(60)
<1>5. Len(FaulhaberCalibrate) = 24  BY SMTT(60)
<1> HIDE DEF FaulhaberCalibrate
<1>6. Script(motorId) = FaulhaberCalibrate /\ Instr = FaulhaberCalibrate[cal.k]
  BY DEF Script, Instr
<1> QED  BY <1>1, <1>2, <1>3, <1>4, <1>5, <1>6

\* The local variables of Calibrate.
Locals == {"start", "min", "max", "word"}
CalFields == {"k", "sent", "n"} \cup Locals

\* s is a sequence, of whatever.
IsSequence(s) == \E S : s \in Seq(S)

\* An answer is waited for within the script only, and without late answers at most one
\* request is under way.
CalInv ==
    /\ motorId \in {"tm", "fh", "none"}
    /\ DOMAIN cal = CalFields /\ cal = [x \in CalFields |-> cal[x]]
    /\ cal.k \in Nat \ {0} /\ cal.sent \in BOOLEAN /\ cal.n \in 0 .. LoadReads
    /\ cal.sent => motorId # "none" /\ cal.k <= Len(Script(motorId))
    /\ IsSequence(requests) /\ IsSequence(answers)
    /\ ~late => Len(requests) + Len(answers) <= (IF cal.sent THEN 1 ELSE 0)

\* What Append does to a sequence of whatever.
LEMMA AppendIs ==
    ASSUME NEW s, NEW e, IsSequence(s)
    PROVE  IsSequence(Append(s, e)) /\ Len(s) \in Nat /\ Len(Append(s, e)) = Len(s) + 1
<1>1. PICK S : s \in Seq(S)  BY DEF IsSequence
<1>2. s \in Seq(S \cup {e})  BY <1>1
<1>3. Append(s, e) \in Seq(S \cup {e}) /\ Len(Append(s, e)) = Len(s) + 1  BY <1>2
<1> QED  BY <1>1, <1>3 DEF IsSequence

\* What Tail does to one.
LEMMA TailIs ==
    ASSUME NEW s, IsSequence(s), s # <<>>
    PROVE  IsSequence(Tail(s)) /\ Len(s) \in Nat \ {0} /\ Len(Tail(s)) = Len(s) - 1
<1>1. PICK S : s \in Seq(S)  BY DEF IsSequence
<1>2. Tail(s) \in Seq(S) /\ Len(s) \in Nat /\ Len(s) # 0 /\ Len(Tail(s)) = Len(s) - 1  BY <1>1
<1> QED  BY <1>2 DEF IsSequence

\* A result goes into a local variable only, and before a push come the three
\* instructions of SetPositioningMethod.
LEMMA ScriptsFit ==
    ASSUME motorId \in {"tm", "fh"}
    PROVE  /\ Len(Script(motorId)) \in Nat
           /\ cal.k \in 1 .. Len(Script(motorId)) =>
                /\ Instr.do = "get" => Instr.val \in Locals
                /\ Instr.do = "push" => cal.k > 3
<1> DEFINE i == Instr
           Fit == (i.do = "get" => i.val \in Locals) /\ (i.do = "push" => cal.k > 3)
<1>1. CASE motorId = "tm"
  <2>1. Len(Script(motorId)) = 61  BY <1>1, TmScript
  <2>2. cal.k \in 1 .. 61 => Fit  BY <1>1, TmScript DEF Instruction, Locals
  <2> QED  BY <2>1, <2>2
<1>2. CASE motorId = "fh"
  <2>1. Len(Script(motorId)) = 24  BY <1>2, FhScript
  <2>2. cal.k \in 1 .. 24 => Fit  BY <1>2, FhScript DEF Instruction, Locals
  <2> QED  BY <2>1, <2>2
<1> QED  BY <1>1, <1>2

\* The local variables when Calibrate starts.
LEMMA CalStartFits ==
    /\ DOMAIN CalStart = CalFields /\ CalStart = [x \in CalFields |-> CalStart[x]]
    /\ CalStart.k \in Nat \ {0} /\ CalStart.n \in 0 .. LoadReads
    /\ CalStart.sent \in BOOLEAN /\ ~CalStart.sent
<1>1. /\ DOMAIN CalStart = CalFields /\ CalStart = [x \in CalFields |-> CalStart[x]]
      /\ CalStart.k = 1 /\ CalStart.n = 0
  BY DEF CalStart, CalFields, Locals
<1>2. CalStart.sent \in BOOLEAN /\ ~CalStart.sent  BY DEF CalStart
<1>3. CalStart.k \in Nat \ {0}  BY <1>1
<1>4. CalStart.n \in 0 .. LoadReads  BY <1>1, CalibrationAssumption
<1> QED  BY <1>1, <1>2, <1>3, <1>4

\* Going on with an instruction changes nothing but its number and whether its request
\* has been sent.
LEMMA ThenGoesOn ==
    ASSUME NEW k \in Nat \ {0}, NEW locals, Then(k, locals),
           DOMAIN locals = CalFields, locals = [x \in CalFields |-> locals[x]],
           locals.n \in 0 .. LoadReads
    PROVE  /\ DOMAIN cal' = CalFields /\ cal' = [x \in CalFields |-> cal'[x]]
           /\ cal'.k \in Nat \ {0} /\ cal'.sent = FALSE /\ cal'.n \in 0 .. LoadReads
<1>1. {"k", "sent", "n"} \subseteq CalFields  BY DEF CalFields
<1>2. DOMAIN cal' = CalFields /\ cal' = [x \in CalFields |-> cal'[x]]  BY DEF Then
<1>3. cal'.k = k /\ cal'.n = locals.n  BY <1>1 DEF Then
<1>4. cal'.sent = FALSE  BY <1>1 DEF Then
<1> QED  BY <1>2, <1>3, <1>4

\* Taking an answer: a result goes into a local variable, the counter stays in its range,
\* and a repetition starts within the script.
LEMMA TakeKeeps == ASSUME CalInv, Take PROVE CalInv'
<1> DEFINE answer == Head(answers)
<1>1. /\ motorId \in {"tm", "fh"} /\ cal.sent /\ cal.k \in 1 .. Len(Script(motorId)) /\ answers # <<>>
  BY DEF CalInv, Take
<1>2. UNCHANGED <<motorId, requests, late>> /\ answers' = Tail(answers)
  BY DEF Take
<1>3. TakeWait(answer) \/ TakeResult(answer) \/ TakeUnload(answer) \/ TakePush(answer)  BY DEF Take
<1> HIDE DEF answer
<1>4. /\ Instr.do = "get" => Instr.val \in Locals
      /\ Instr.do = "push" => cal.k > 3
  BY <1>1, ScriptsFit
<1>5. /\ DOMAIN cal = CalFields /\ cal = [x \in CalFields |-> cal[x]]
      /\ cal.k \in Nat \ {0} /\ cal.n \in 0 .. LoadReads /\ cal.k + 1 \in Nat \ {0}
      /\ "n" \in CalFields /\ Locals \subseteq CalFields /\ "n" \notin Locals
  BY DEF CalInv, CalFields, Locals
<1> DEFINE Gone == /\ DOMAIN cal' = CalFields /\ cal' = [x \in CalFields |-> cal'[x]]
                   /\ cal'.k \in Nat \ {0} /\ cal'.sent = FALSE /\ cal'.n \in 0 .. LoadReads
<1>6. ASSUME TakeWait(answer) PROVE Gone
  <2>1. Then(cal.k, cal) \/ Then(cal.k + 1, cal)  BY <1>6 DEF TakeWait, Then
  <2> QED  BY <1>5, <2>1, ThenGoesOn
<1>7. ASSUME TakeResult(answer) PROVE Gone
  <2> DEFINE got == [cal EXCEPT ![Instr.val] = answer]
  <2>1. Then(cal.k + 1, cal) \/ (Instr.do = "get" /\ Then(cal.k + 1, got))  BY <1>7 DEF TakeResult
  <2>2. ASSUME Instr.do = "get"
        PROVE  DOMAIN got = CalFields /\ got = [x \in CalFields |-> got[x]] /\ got.n = cal.n
    BY <1>4, <1>5, <2>2
  <2> HIDE DEF got
  <2> QED  BY <1>5, <2>1, <2>2, ThenGoesOn
<1>8. ASSUME TakeUnload(answer) PROVE Gone
  <2> DEFINE with(n) == [cal EXCEPT !.n = n]
  <2>1. \E n \in 0 .. LoadReads : Then(cal.k, with(n)) \/ Then(cal.k + 1, with(n))
    <3>1. PICK n \in Nat : IF n <= LoadReads THEN Then(cal.k, with(n)) ELSE Then(cal.k + 1, with(0))
      BY <1>5, <1>8 DEF TakeUnload
    <3> QED  BY <3>1, CalibrationAssumption
  <2>2. PICK n \in 0 .. LoadReads : Then(cal.k, with(n)) \/ Then(cal.k + 1, with(n))  BY <2>1
  <2>3. DOMAIN with(n) = CalFields /\ with(n) = [x \in CalFields |-> with(n)[x]] /\ with(n).n = n
    BY <1>5
  <2> HIDE DEF with
  <2> QED  BY <1>5, <2>2, <2>3, ThenGoesOn
<1>9. ASSUME TakePush(answer) PROVE Gone
  <2>1. cal.k > 3 /\ (Then(cal.k - 3, cal) \/ Then(cal.k + 1, cal))  BY <1>4, <1>9 DEF TakePush
  <2>2. cal.k - 3 \in Nat \ {0}  BY <1>5, <2>1
  <2> QED  BY <1>5, <2>1, <2>2, ThenGoesOn
<1>10. Gone  BY <1>3, <1>6, <1>7, <1>8, <1>9
<1>11. IsSequence(answers') /\ Len(answers) \in Nat \ {0} /\ Len(answers') = Len(answers) - 1
  BY <1>1, <1>2, TailIs DEF CalInv
<1>12. Len(requests) \in Nat  BY AppendIs DEF CalInv
<1>13. ~late => Len(requests) + Len(answers) <= 1  BY <1>1 DEF CalInv
<1>14. ~late' => Len(requests') + Len(answers') <= 0  BY <1>2, <1>11, <1>12, <1>13
<1>15. motorId' \in {"tm", "fh", "none"} /\ IsSequence(requests')  BY <1>2 DEF CalInv
<1> QED  BY <1>10, <1>11, <1>14, <1>15 DEF CalInv

\* Sending a request, and sending it again.
LEMMA RequestsKeep == ASSUME CalInv, SendRequest \/ Resend PROVE CalInv'
<1>1. /\ DOMAIN cal = CalFields /\ cal = [x \in CalFields |-> cal[x]]
      /\ cal.k \in Nat \ {0} /\ cal.sent \in BOOLEAN /\ cal.n \in 0 .. LoadReads
      /\ motorId \in {"tm", "fh", "none"} /\ IsSequence(requests) /\ IsSequence(answers)
      /\ {"k", "n", "sent"} \subseteq CalFields
  BY DEF CalInv, CalFields
<1>2. /\ requests' = Append(requests, Request) /\ UNCHANGED <<motorId, answers>>
      /\ IsSequence(requests') /\ Len(requests) \in Nat /\ Len(requests') = Len(requests) + 1
      /\ Len(answers) \in Nat
  <2>1. requests' = Append(requests, Request) /\ UNCHANGED <<motorId, answers>>
    BY DEF SendRequest, Resend
  <2>2. IsSequence(requests') /\ Len(requests) \in Nat /\ Len(requests') = Len(requests) + 1
    BY <1>1, <2>1, AppendIs
  <2>3. Len(answers) \in Nat  BY <1>1, AppendIs
  <2> QED  BY <2>1, <2>2, <2>3
<1>3. CASE SendRequest
  <2>1. /\ motorId # "none" /\ ~(cal.k > Len(Script(motorId))) /\ ~cal.sent
        /\ cal' = [cal EXCEPT !.sent = TRUE] /\ late' = late
    BY <1>3 DEF SendRequest, Done
  <2>2. Len(Script(motorId)) \in Nat  BY <1>1, <2>1, ScriptsFit
  <2>3. /\ DOMAIN cal' = CalFields /\ cal' = [x \in CalFields |-> cal'[x]]
        /\ cal'.k = cal.k /\ cal'.n = cal.n
    BY <1>1, <2>1
  <2>4. cal'.sent = TRUE  BY <1>1, <2>1
  <2>5. cal'.k <= Len(Script(motorId'))  BY <1>1, <1>2, <2>1, <2>2, <2>3
  <2>6. ~late => Len(requests) + Len(answers) <= 0  BY <2>1 DEF CalInv
  <2>7. ~late' => Len(requests') + Len(answers') <= 1  BY <1>2, <2>1, <2>6
  <2> QED  BY <1>1, <1>2, <2>1, <2>3, <2>4, <2>5, <2>7 DEF CalInv
<1>4. CASE Resend
  <2>1. cal.sent /\ answers = <<>> /\ late' = (late \/ requests # <<>>) /\ cal' = cal
    BY <1>4 DEF Resend
  <2>2. ASSUME ~late' PROVE Len(requests') + Len(answers') <= 1
    <3>1. requests = <<>>  BY <2>1, <2>2
    <3>2. Len(requests) = 0 /\ Len(answers) = 0  BY <2>1, <3>1
    <3> QED  BY <1>2, <3>2
  <2> QED  BY <1>1, <1>2, <2>1, <2>2 DEF CalInv
<1> QED  BY <1>3, <1>4

\* Calibrate returns; no request is under way, unless an answer came late.
LEMMA JoinKeeps == ASSUME CalInv, Join PROVE CalInv'
<1>1. ~cal.sent /\ cal' = CalStart /\ motorId' \in {"fh", "none"} /\ Len(Script(motorId)) \in Nat
  <2>1. motorId \in {"tm", "fh"}  BY DEF CalInv, Join, Done
  <2> QED  BY <2>1, ScriptsFit DEF CalInv, Join, Done
<1>2. /\ DOMAIN cal' = CalFields /\ cal' = [x \in CalFields |-> cal'[x]]
      /\ cal'.k \in Nat \ {0} /\ cal'.n \in 0 .. LoadReads
  BY <1>1, CalStartFits
<1>3. cal'.sent \in BOOLEAN /\ ~cal'.sent  BY <1>1, CalStartFits
<1>4. motorId' \in {"tm", "fh", "none"}  BY <1>1
<1>5. CASE motorId = "tm"
  <2>1. requests' = <<>> /\ answers' \in {<<>>, <<0>>} /\ late' = (answers' # <<>>)
    BY <1>5 DEF Join, OldAnswers
  <2>2. <<>> \in Seq({0}) /\ <<0>> \in Seq({0}) /\ Len(<<>>) = 0  OBVIOUS
  <2>3. IsSequence(requests') /\ IsSequence(answers')  BY <2>1, <2>2 DEF IsSequence
  <2>4. ASSUME ~late' PROVE Len(requests') + Len(answers') <= 0
    <3>1. answers' = <<>>  BY <2>1, <2>4
    <3>2. Len(requests') = 0 /\ Len(answers') = 0  BY <2>1, <2>2, <3>1
    <3> QED  BY <3>2
  <2> QED  BY <1>2, <1>3, <1>4, <2>3, <2>4 DEF CalInv
<1>6. CASE motorId # "tm"
  <2>1. UNCHANGED <<requests, answers, late>>  BY <1>6 DEF Join
  <2>2. ~late' => Len(requests') + Len(answers') <= 0  BY <1>1, <2>1 DEF CalInv
  <2>3. IsSequence(requests') /\ IsSequence(answers')  BY <2>1 DEF CalInv
  <2> QED  BY <1>2, <1>3, <1>4, <2>2, <2>3 DEF CalInv
<1> QED  BY <1>5, <1>6

\* A step of the motor, or of the bus that loses a request.
LEMMA MotorKeeps == ASSUME CalInv, Motor \/ Lose PROVE CalInv'
<1>1. CASE StateChanges \/ ModeChanges \/ Arrive
  <2>1. UNCHANGED <<motorId, cal, requests, answers, late>>
    BY <1>1 DEF StateChanges, ModeChanges, Arrive, Changes
  <2> QED  BY <2>1 DEF CalInv
<1>2. CASE Serve \/ Lose
  <2>1. requests # <<>> /\ requests' = Tail(requests) /\ UNCHANGED <<motorId, cal, late>>
    BY <1>2 DEF Serve, Lose
  <2>2. PICK a : answers' = answers \/ answers' = Append(answers, a)  BY <1>2 DEF Serve, Lose
  <2>3. IsSequence(requests') /\ Len(requests) \in Nat \ {0} /\ Len(requests') = Len(requests) - 1
    BY <2>1, TailIs DEF CalInv
  <2>4. /\ IsSequence(answers') /\ Len(answers) \in Nat
        /\ Len(answers') = Len(answers) \/ Len(answers') = Len(answers) + 1
    BY <2>2, AppendIs DEF CalInv
  <2>5. ASSUME ~late' PROVE Len(requests') + Len(answers') <= IF cal.sent THEN 1 ELSE 0
    <3>1. Len(requests) + Len(answers) <= IF cal.sent THEN 1 ELSE 0  BY <2>1, <2>5 DEF CalInv
    <3> QED  BY <2>3, <2>4, <3>1
  <2> QED  BY <2>1, <2>3, <2>4, <2>5 DEF CalInv
<1> QED  BY <1>1, <1>2 DEF Motor

\* When a calibration starts.
LEMMA CalStarts == ASSUME CalInit PROVE CalInv
<1>1. cal = CalStart /\ motorId \in {"tm", "fh", "none"}  BY DEF CalInit
<1>2. /\ DOMAIN cal = CalFields /\ cal = [x \in CalFields |-> cal[x]]
      /\ cal.k \in Nat \ {0} /\ cal.n \in 0 .. LoadReads
  BY <1>1, CalStartFits
<1>3. cal.sent \in BOOLEAN /\ ~cal.sent  BY <1>1, CalStartFits
<1>4. requests = <<>> /\ answers \in {<<>>, <<0>>}
        /\ late = (answers # <<>>)  BY DEF CalInit, OldAnswers
<1>5. <<>> \in Seq({0}) /\ <<0>> \in Seq({0}) /\ Len(<<>>) = 0  OBVIOUS
<1>6. IsSequence(requests) /\ IsSequence(answers)  BY <1>4, <1>5 DEF IsSequence
<1>7. ASSUME ~late PROVE Len(requests) + Len(answers) <= 0
  <2>1. answers = <<>>  BY <1>4, <1>7
  <2>2. Len(requests) = 0 /\ Len(answers) = 0  BY <1>4, <1>5, <2>1
  <2> QED  BY <2>2
<1> QED  BY <1>1, <1>2, <1>3, <1>6, <1>7 DEF CalInv

\* Every step keeps the types.
LEMMA CalStepKeeps == ASSUME CalInv, [CalNext]_calVars PROVE CalInv'
<1>1. CASE UNCHANGED calVars
  <2>1. UNCHANGED <<motorId, cal, requests, answers, late>>  BY <1>1 DEF calVars
  <2> QED  BY <2>1 DEF CalInv
<1> QED  BY <1>1, TakeKeeps, RequestsKeep, JoinKeeps, MotorKeeps DEF CalNext

\* The loop counter of Calibrate keeps its range, and as long as every answer is to the
\* request waited for at most one request is under way, for every bar and every load.
THEOREM CalTypeCorrect == CalSpec => []CalTypeOK
<1>1. CalInit => CalInv  BY CalStarts
<1>2. CalInv /\ [CalNext]_calVars => CalInv'  BY CalStepKeeps
<1>3. CalInv => CalTypeOK  BY DEF CalInv, CalTypeOK
<1> QED  BY <1>1, <1>2, <1>3, PTL DEF CalSpec

\* What an instruction requests.
LEMMA RequestIs ==
    /\ Instr.do = "put" => Request = [put |-> TRUE, obj |-> Instr.obj, val |-> Instr.val]
    /\ Instr.do = "calc" => Request = [put |-> TRUE, obj |-> Instr.obj, val |-> Calculated(Instr.val)]
    /\ Instr.do = "clear" => Request = [put |-> TRUE, obj |-> Instr.obj, val |-> Cleared(cal.word)]
    /\ Instr.do = "apply" =>
         Request = [put |-> TRUE, obj |-> Instr.obj, val |-> Applied(cal.word, Instr.val)]
    /\ Instr.do \in {"await", "state", "get", "unload", "push"} =>
         Request.put = FALSE /\ Request.obj = Instr.obj
BY DEF Request

\* What the Telemecanique is told, request by request.
LEMMA TmWritten ==
    ASSUME motorId = "tm"
    PROVE  LET Writes(ks, obj, val) ==
                  cal.k \in ks => Request = [put |-> TRUE, obj |-> obj, val |-> val]
           IN  /\ Writes({1, 40}, "mode", Referencing) /\ Writes({13, 56}, "mode", PointToPoint)
               /\ Writes({3}, "rpdo2", Rpdo2Enabled) /\ Writes({9}, "velocity", 8000)
               /\ Writes({42}, "dimension", 0) /\ Writes({43}, "homing", SetDimensions)
               /\ Writes({5, 48}, "control", 0) /\ Writes({10, 52}, "control", 15)
               /\ Writes({18, 25, 30, 37, 46, 60}, "control", Cleared(cal.word))
               /\ Writes({19, 31}, "control", Applied(cal.word, "Relative"))
               /\ Writes({26, 38, 47, 61}, "control", Applied(cal.word, "Absolute"))
               /\ Writes({7}, "limitState", 0) /\ Writes({54}, "limitState", 3)
               /\ Writes({16}, "target", 0 - BarStep) /\ Writes({28}, "target", BarStep)
               /\ Writes({23}, "target", cal.min + GoBack)
               /\ Writes({35}, "target", cal.min + MinBuffer)
               /\ Writes({50}, "minLimit", 0 - MinBuffer)
               /\ Writes({51}, "maxLimit", cal.max - cal.min - MinBuffer)
               /\ Writes({58}, "target", (cal.max - cal.min - MinBuffer - MaxBuffer) \div 2)
<1>1. /\ Calculated("back") = cal.min + GoBack /\ Calculated("rest") = cal.min + MinBuffer
      /\ Calculated("minLimit") = 0 - MinBuffer
      /\ Calculated("maxLimit") = cal.max - cal.min - MinBuffer
      /\ Calculated("middle") = (cal.max - cal.min - MinBuffer - MaxBuffer) \div 2
  BY DEF Calculated
<1> QED  BY <1>1, RequestIs, TmScript DEF Instruction

\* What it is asked.
LEMMA TmRead ==
    ASSUME motorId = "tm"
    PROVE  LET Reads(ks, obj) == cal.k \in ks => Request.put = FALSE /\ Request.obj = obj
           IN  /\ Reads({2, 14, 41, 57}, "mode") /\ Reads({4}, "rpdo2")
               /\ Reads({6, 11, 21, 33, 39, 49, 53}, "status")
               /\ Reads({8, 55}, "limitState") /\ Reads({44}, "homing")
               /\ Reads({12, 22, 34}, "position") /\ Reads({15, 20, 27, 32}, "load")
               /\ Reads({17, 24, 29, 36, 45, 59}, "control")
BY RequestIs, TmScript DEF Instruction

-----------------------------------------------------------------------------
\* What a write does to the drive.

\* The drives d and e differ in fields of S only.
DifferIn(d, e, S) ==
    /\ "word" \in S \/ d.word = e.word
    /\ "state" \in S \/ d.state = e.state
    /\ "becomes" \in S \/ d.becomes = e.becomes
    /\ "mode" \in S \/ d.mode = e.mode
    /\ "display" \in S \/ d.display = e.display
    /\ "limitState" \in S \/ d.limitState = e.limitState
    /\ "minLimit" \in S \/ d.minLimit = e.minLimit
    /\ "maxLimit" \in S \/ d.maxLimit = e.maxLimit
    /\ "target" \in S \/ d.target = e.target
    /\ "pos" \in S \/ d.pos = e.pos
    /\ "goal" \in S \/ d.goal = e.goal
    /\ "load" \in S \/ d.load = e.load
    /\ "zero" \in S \/ d.zero = e.zero
    /\ "homing" \in S \/ d.homing = e.homing

\* Changing a field changes that one.
LEMMA FieldChanged ==
    ASSUME NEW d, DriveShape(d), NEW x \in DriveFields, NEW v
    PROVE  /\ DriveShape([d EXCEPT ![x] = v]) /\ [d EXCEPT ![x] = v][x] = v
           /\ DifferIn([d EXCEPT ![x] = v], d, {x})
<1> DEFINE e == [d EXCEPT ![x] = v]
<1>1. DriveShape(e)  BY DEF DriveShape
<1>2. e[x] = v  BY DEF DriveShape
<1>3. \A y \in DriveFields : y # x => e[y] = d[y]  BY DEF DriveShape
<1> HIDE DEF e
<1>4. DifferIn(e, d, {x})  BY <1>3 DEF DifferIn, DriveFields
<1> QED  BY <1>1, <1>2, <1>4 DEF e

\* A write of anything but a control word.
LEMMA ObjectWritten ==
    ASSUME DriveShape(drive), NEW obj, NEW val, NEW d, d = Written(obj, val),
           obj \in {"mode", "rpdo2", "limitState", "target", "homing", "scale"}
    PROVE  DriveShape(d) /\ d[obj] = val /\ DifferIn(d, drive, {obj})
<1>1. d = [drive EXCEPT ![obj] = val]  BY DEF Written
<1>2. obj \in DriveFields  BY DEF DriveFields
<1> DEFINE e == [drive EXCEPT ![obj] = val]
<1>3. DriveShape(e) /\ e[obj] = val /\ DifferIn(e, drive, {obj})  BY <1>2, FieldChanged
<1> QED  BY <1>1, <1>3

\* A write of a position limit while there is no voltage.
LEMMA LimitWritten ==
    ASSUME DriveShape(drive), NEW obj, NEW val, NEW d, d = Written(obj, val),
           obj \in {"minLimit", "maxLimit"}, drive.state = "ready"
    PROVE  DriveShape(d) /\ d[obj] = val /\ DifferIn(d, drive, {obj})
<1>1. d = [drive EXCEPT ![obj] = val]  BY DEF Written
<1>2. obj \in DriveFields  BY DEF DriveFields
<1> DEFINE e == [drive EXCEPT ![obj] = val]
<1>3. DriveShape(e) /\ e[obj] = val /\ DifferIn(e, drive, {obj})  BY <1>2, FieldChanged
<1> QED  BY <1>1, <1>3

\* A write of a control word.
LEMMA ControlWritten ==
    ASSUME DriveShape(drive), NEW val, NEW d, d = Written("control", val)
    PROVE  LET e == SetPoint(drive, val)
           IN  /\ DriveShape(d) /\ d.word = val /\ d.becomes = StateAfter(drive.becomes, val)
               /\ DriveShape(e) /\ DifferIn(e, drive, {"zero", "goal"})
               /\ DifferIn(d, e, {"word", "becomes"})
<1> DEFINE e == SetPoint(drive, val)
<1>1. DriveShape(e) /\ DifferIn(e, drive, {"zero", "goal"})
  <2>1. PICK x \in {"zero", "goal"} : \E v : e = drive \/ e = [drive EXCEPT ![x] = v]
    BY DEF SetPoint
  <2> HIDE DEF e
  <2>2. CASE e = drive  BY <2>2 DEF DifferIn
  <2>3. ASSUME NEW v, e = [drive EXCEPT ![x] = v]
        PROVE  DriveShape(e) /\ DifferIn(e, drive, {"zero", "goal"})
    <3>1. x \in DriveFields  BY <2>1 DEF DriveFields
    <3> DEFINE f == [drive EXCEPT ![x] = v]
    <3>2. DriveShape(f) /\ DifferIn(f, drive, {x})  BY <3>1, FieldChanged
    <3>3. e = f  BY <2>3
    <3> HIDE DEF f
    <3> QED  BY <3>2, <3>3 DEF DifferIn
  <2> QED  BY <2>1, <2>2, <2>3
<1> DEFINE b == StateAfter(drive.becomes, val)
           f == [e EXCEPT !["word"] = val]
<1>2. d = [f EXCEPT !["becomes"] = b]  BY DEF Written
<1> HIDE DEF e, b
<1>3. DriveShape(f) /\ f.word = val /\ DifferIn(f, e, {"word"})
  BY <1>1, FieldChanged DEF DriveFields
<1> HIDE DEF f
<1>4. DriveShape(d) /\ d.becomes = b /\ DifferIn(d, f, {"becomes"})
  BY <1>2, <1>3, FieldChanged DEF DriveFields
<1>5. d.word = val /\ DifferIn(d, e, {"word", "becomes"})  BY <1>3, <1>4 DEF DifferIn
<1> QED  BY <1>1, <1>4, <1>5 DEF e, b

-----------------------------------------------------------------------------
(* Control and status words. *)

\* The bits that matter of the control words that are written.
LEMMA WordBits ==
    /\ \A w \in {0, 6, 7, 15, 79} : Bit(w, 4) = 0
    /\ \A w \in {31, 95} : Bit(w, 4) = 1
    /\ Bit(31, 6) = 0 /\ Bit(95, 6) = 1
    /\ \A w \in Words : Cleared(w) \in Rest
    /\ \A w \in Words : Applied(w, "Relative") = 95 /\ Applied(w, "Absolute") = 31
<1>1. /\ \A w \in {0, 6, 7, 15, 79} : Bit(w, 4) = 0
      /\ \A w \in {31, 95} : Bit(w, 4) = 1
      /\ Bit(31, 6) = 0 /\ Bit(95, 6) = 1
  BY DEF Bit
<1>2. \A w \in Words : Bit(w, 5) = 0  BY DEF Bit, Words
<1>3. /\ Bit(15, 4) = 0 /\ Bit(31, 4) = 1 /\ Bit(79, 4) = 0 /\ Bit(95, 4) = 1
      /\ Bit(15, 6) = 0 /\ Bit(31, 6) = 0 /\ Bit(79, 6) = 1 /\ Bit(95, 6) = 1
  BY DEF Bit
<1>4. \A w \in Words : Cleared(w) \in Rest  BY <1>3 DEF Words, Rest, Cleared
<1>5. \A w \in Words : Applied(w, "Relative") = 95 /\ Applied(w, "Absolute") = 31
  BY <1>2, <1>3 DEF Words, Applied
<1> QED  BY <1>1, <1>4, <1>5

\* Where the drive goes with them.
LEMMA WordStates ==
    /\ \A s \in States, w \in {0, 6, 7, 15, 31, 79, 95} : StateAfter(s, w) \in States
    /\ motorId = "tm" =>
         \A s : StateAfter(s, 0) = "ready" /\ \A w \in Words : StateAfter(s, w) = "enabled"
    /\ motorId = "fh" =>
         /\ StateAfter("ready", 7) = "on" /\ \A s : StateAfter(s, 0) = "disabled"
         /\ \A s : StateAfter(s, 6) = "ready"
         /\ \A s \in {"on", "enabled"}, w \in Words : StateAfter(s, w) = "enabled"
<1>1. /\ 0 % 16 = 0 /\ 6 % 16 = 6 /\ 7 % 16 = 7
      /\ 15 % 16 = 15 /\ 31 % 16 = 15 /\ 79 % 16 = 15 /\ 95 % 16 = 15
  OBVIOUS
<1>2. \A s \in States, w \in {0, 6, 7, 15, 31, 79, 95} : StateAfter(s, w) \in States
  BY <1>1 DEF StateAfter, States
<1>3. motorId = "tm" =>
        \A s : StateAfter(s, 0) = "ready" /\ \A w \in Words : StateAfter(s, w) = "enabled"
  BY <1>1 DEF StateAfter, Words
<1>4. motorId = "fh" =>
        /\ StateAfter("ready", 7) = "on" /\ \A s : StateAfter(s, 0) = "disabled"
        /\ \A s : StateAfter(s, 6) = "ready"
        /\ \A s \in {"on", "enabled"}, w \in Words : StateAfter(s, w) = "enabled"
  BY <1>1 DEF StateAfter, Words
<1> QED  BY <1>2, <1>3, <1>4

\* What the status word tells of the drive.
LEMMA StatusTells ==
    ASSUME drive.state \in States
    PROVE  /\ Means(StatusWord, "Ready") => drive.state = "ready"
           /\ Means(StatusWord, "OperationEnabled") => drive.state = "enabled"
           /\ Means(StatusWord, "TargetReached") => drive.goal = drive.pos
<1> DEFINE base == CASE drive.state = "disabled" -> 64 [] drive.state = "ready" -> 33
                      [] drive.state = "on" -> 35 [] drive.state = "enabled" -> 39
           w == StatusWord
<1>1. /\ drive.state = "disabled" => base = 64
      /\ drive.state = "ready" => base = 33
      /\ drive.state = "on" => base = 35
      /\ drive.state = "enabled" => base = 39
  OBVIOUS
<1>2. w = base + IF drive.goal = drive.pos THEN 1024 ELSE 0  BY DEF StatusWord
<1> HIDE DEF base, w
<1>3. base \in {33, 35, 39, 64}  BY <1>1 DEF States
<1>4. w \in {33, 35, 39, 64, 1057, 1059, 1063, 1088}  BY <1>2, <1>3
<1>5. Bit(w, 10) = 1 => drive.goal = drive.pos
  <2>1. \A v \in {33, 35, 39, 64} : Bit(v, 10) = 0  BY DEF Bit
  <2> QED  BY <1>2, <1>3, <2>1
<1>6. /\ Bit(33, 1) = 0 /\ Bit(1057, 1) = 0 /\ Bit(35, 1) = 1 /\ Bit(1059, 1) = 1
      /\ Bit(39, 1) = 1 /\ Bit(1063, 1) = 1 /\ Bit(64, 0) = 0 /\ Bit(1088, 0) = 0
      /\ Bit(33, 2) = 0 /\ Bit(1057, 2) = 0 /\ Bit(35, 2) = 0 /\ Bit(1059, 2) = 0
  BY DEF Bit
<1> DEFINE bits(v) == {k \in {0, 1, 2, 3, 6} : Bit(v, k) = 1}
<1>7. \A v : /\ OperationState(v) = "Ready" => bits(v) = {0}
             /\ OperationState(v) = "OperationEnabled" => bits(v) = {0, 1, 2}
  <2> TAKE v
  <2> DEFINE b == bits(v)
             o == OperationState(v)
  <2>1. o = CASE b = {6} -> "SwitchOnDisabled"
              [] b = {0} /\ Bit(v, 5) = 1 -> "Ready"
              [] b = {0, 1} /\ Bit(v, 5) = 1 -> "OperationSwitchedOn"
              [] b = {0, 1, 2} /\ Bit(v, 5) = 1 -> "OperationEnabled"
              [] OTHER -> "another"
    BY DEF OperationState
  <2> HIDE DEF b, o
  <2>2. /\ o = "Ready" => b = {0}
        /\ o = "OperationEnabled" => b = {0, 1, 2}
    BY <2>1
  <2> QED  BY <2>2 DEF b, o
<1>8. OperationState(w) = "Ready" => Bit(w, 0) = 1 /\ Bit(w, 1) # 1  BY <1>7
<1>9. OperationState(w) = "OperationEnabled" => Bit(w, 2) = 1 /\ Bit(w, 0) = 1  BY <1>7
<1>10. OperationState(w) = "Ready" => w \in {33, 1057}  BY <1>4, <1>6, <1>8
<1>11. OperationState(w) = "OperationEnabled" => w \in {39, 1063}  BY <1>4, <1>6, <1>9
<1>12. /\ w \in {33, 1057} => drive.state = "ready"
       /\ w \in {39, 1063} => drive.state = "enabled"
  BY <1>1, <1>2 DEF States
<1>13. /\ Means(w, "Ready") => OperationState(w) = "Ready"
       /\ Means(w, "OperationEnabled") => OperationState(w) = "OperationEnabled"
       /\ Means(w, "TargetReached") => Bit(w, 10) = 1
  BY DEF Means
<1>14. /\ Means(w, "Ready") => drive.state = "ready"
       /\ Means(w, "OperationEnabled") => drive.state = "enabled"
       /\ Means(w, "TargetReached") => drive.goal = drive.pos
  BY <1>5, <1>10, <1>11, <1>12, <1>13
<1> QED  BY <1>14 DEF w

-----------------------------------------------------------------------------
(* The Telemecanique. *)

\* Whatever the motor does by itself keeps what is known of it: the bar arrives where it
\* was sent, or at the end of the way that it is pushed against.
LEMMA TmMoves ==
    ASSUME motorId = "tm", NEW p \in Nat, NEW c, NEW a, TmFacts(p, drive, c, a),
           StateChanges \/ ModeChanges \/ Arrive
    PROVE  TmFacts(p, drive', c, a)
<1> USE CalibrationAssumption DEF TmFacts
<1>1. CASE StateChanges
  <2>1. DriveShape(drive') /\ drive'.state = drive.becomes /\ DifferIn(drive', drive, {"state"})
    BY <1>1, FieldChanged DEF StateChanges, Changes, DriveFields
  <2>2. TmVoltage(p, drive', a)  BY <2>1 DEF TmVoltage, DifferIn
  <2>3. /\ TmMode(p, drive', a) /\ TmLimits(p, drive') /\ TmMeasured(p, drive', c, a)
        /\ TmWord(p, drive', c, a)
    BY <2>1 DEF DifferIn, TmMode, TmLimits, TmMeasured, TmWord
  <2>4. TmWay(p, drive', a)  BY <2>1 DEF DifferIn, TmWay
  <2> QED  BY <2>1, <2>2, <2>3, <2>4 DEF DifferIn
<1>2. CASE ModeChanges
  <2>1. DriveShape(drive') /\ drive'.display = drive.mode /\ DifferIn(drive', drive, {"display"})
    BY <1>2, FieldChanged DEF ModeChanges, Changes, DriveFields
  <2>2. TmMode(p, drive', a)  BY <2>1 DEF TmMode, DifferIn
  <2>3. /\ TmVoltage(p, drive', a) /\ TmLimits(p, drive') /\ TmMeasured(p, drive', c, a)
        /\ TmWord(p, drive', c, a)
    BY <2>1 DEF DifferIn, TmVoltage, TmLimits, TmMeasured, TmWord
  <2>4. TmWay(p, drive', a)  BY <2>1 DEF DifferIn, TmWay
  <2> QED  BY <2>1, <2>2, <2>3, <2>4 DEF DifferIn
<1>3. CASE Arrive
  <2> DEFINE end == IF drive.goal < Left THEN Left ELSE IF drive.goal > Right THEN Right
                    ELSE drive.goal
             load == IF end = drive.goal THEN 0 ELSE 3
  <2>1. /\ DriveShape(drive') /\ drive'.pos = end /\ drive'.goal = end /\ drive'.load = load
        /\ DifferIn(drive', drive, {"pos", "goal", "load"}) /\ drive.goal # drive.pos
    <3> DEFINE d1 == [drive EXCEPT !["pos"] = end]
               d2 == [d1 EXCEPT !["goal"] = end]
               d3 == [d2 EXCEPT !["load"] = load]
    <3>0. "pos" \in DriveFields /\ "goal" \in DriveFields /\ "load" \in DriveFields  BY DEF DriveFields
    <3>1. drive' = d3 /\ drive.goal # drive.pos  BY <1>3 DEF Arrive, Changes
    <3> HIDE DEF end, load
    <3>2. DriveShape(d1) /\ d1.pos = end /\ DifferIn(d1, drive, {"pos"})
      BY <3>0, FieldChanged
    <3> HIDE DEF d1
    <3>3. DriveShape(d2) /\ d2.goal = end /\ DifferIn(d2, d1, {"goal"})
      BY <3>0, <3>2, FieldChanged
    <3> HIDE DEF d2
    <3>4. DriveShape(d3) /\ d3.load = load /\ DifferIn(d3, d2, {"load"})
      BY <3>0, <3>3, FieldChanged
    <3> HIDE DEF d3
    <3> QED  BY <3>1, <3>2, <3>3, <3>4 DEF DifferIn
  <2>2. /\ TmMode(p, drive', a) /\ TmVoltage(p, drive', a) /\ TmLimits(p, drive')
        /\ TmMeasured(p, drive', c, a) /\ TmWord(p, drive', c, a)
    BY <2>1 DEF DifferIn, TmMode, TmVoltage, TmLimits, TmMeasured, TmWord
  <2>3. TmWay(p, drive', a)  BY <2>1 DEF TmWay
  <2> QED  BY <2>1, <2>2, <2>3 DEF DifferIn
<1> QED  BY <1>1, <1>2, <1>3

\* The numbers of the requests that read.
TmReads == {2, 4, 6, 8, 11, 12, 14, 15, 17, 20, 21, 22, 24, 27, 29, 32, 33, 34, 36, 39, 41, 44, 45,
            49, 53, 55, 57, 59}

\* Which requests read.
LEMMA TmReadsAre ==
    ASSUME motorId = "tm", cal.k \in 1 .. 61
    PROVE  Request.put = (cal.k \notin TmReads)
<1>1. /\ cal.k \in {2, 14, 41, 57} \cup {4} \cup {6, 11, 21, 33, 39, 49, 53} => Request.put = FALSE
      /\ cal.k \in {8, 55} \cup {44} \cup {12, 22, 34} \cup {15, 20, 27, 32} => Request.put = FALSE
      /\ cal.k \in {17, 24, 29, 36, 45, 59} => Request.put = FALSE
  BY TmRead
<1>2. /\ cal.k \in {1, 40, 13, 56, 3, 9, 42, 43, 5, 48, 10, 52} => Request.put = TRUE
      /\ cal.k \in {18, 25, 30, 37, 46, 60, 19, 31, 26, 38, 47, 61} => Request.put = TRUE
      /\ cal.k \in {7, 54, 16, 28, 23, 35, 50, 51, 58} => Request.put = TRUE
  BY TmWritten
<1>3. cal.k \in TmReads => Request.put = FALSE  BY <1>1 DEF TmReads
<1>4. cal.k \notin TmReads => Request.put = TRUE  BY <1>2 DEF TmReads
<1> QED  BY <1>3, <1>4

\* The answer to a read tells what is known of the drive.
LEMMA TmAnswered ==
    ASSUME motorId = "tm", cal.k \in 1 .. 61, NEW a, TmFacts(2 * cal.k, drive, cal, a),
           cal.k \in TmReads, NEW v, v = Value(Request.obj)
    PROVE  TmFacts(2 * cal.k + 1, drive, cal, v)
<1> DEFINE k == cal.k
           p == 2 * k
           q == 2 * k + 1
<1>0. /\ k \in {2, 14, 41, 57} => Request.obj = "mode"
      /\ k \in {6, 11, 21, 33, 39, 49, 53} => Request.obj = "status"
      /\ k \in {12, 22, 34} => Request.obj = "position"
      /\ k \in {15, 20, 27, 32} => Request.obj = "load"
      /\ k \in {17, 24, 29, 36, 45, 59} => Request.obj = "control"
  BY TmRead
<1>1. /\ k \in {2, 14, 41, 57} => v = drive.display
      /\ k \in {6, 11, 21, 33, 39, 49, 53} => v = StatusWord
      /\ k \in {12, 22, 34} => v = drive.pos - drive.zero
      /\ k \in {15, 20, 27, 32} => v = drive.load
      /\ k \in {17, 24, 29, 36, 45, 59} => v = drive.word
  BY <1>0 DEF Value
<1>2. /\ v = StatusWord /\ Means(v, "Ready") => drive.state = "ready"
      /\ v = StatusWord /\ Means(v, "OperationEnabled") => drive.state = "enabled"
      /\ v = StatusWord /\ Means(v, "TargetReached") => drive.goal = drive.pos
  BY StatusTells DEF TmFacts
<1>3. TmMode(q, drive, v)
  <2>1. TmMode(p, drive, a)  BY DEF TmFacts
  <2> QED  BY <1>1, <2>1 DEF TmMode, TmReads
<1>4. TmVoltage(q, drive, v)
  <2>1. TmVoltage(p, drive, a)  BY DEF TmFacts
  <2> QED  BY <1>1, <1>2, <2>1 DEF TmVoltage, TmReads
<1>5. TmLimits(q, drive)
  <2>1. TmLimits(p, drive)  BY DEF TmFacts
  <2> QED  BY <2>1 DEF TmLimits, TmReads
<1>6. TmWord(q, drive, cal, v)
  <2>1. TmWord(p, drive, cal, a)  BY DEF TmFacts
  <2> QED  BY <1>1, <2>1 DEF TmWord, TmReads
<1>7. TmWay(q, drive, v)
  <2>1. TmWay(p, drive, a)  BY DEF TmFacts
  <2> QED  BY <1>1, <1>2, <2>1, CalibrationAssumption DEF TmWay, TmReads, LoadLimit
<1>8. TmMeasured(q, drive, cal, v)
  <2>1. TmMeasured(p, drive, cal, a) /\ TmWay(p, drive, a) /\ TmLimits(p, drive)  BY DEF TmFacts
  <2>2. k = 22 => drive.pos = Left /\ drive.zero = 0  BY <2>1 DEF TmWay, TmLimits
  <2>3. k = 34 => drive.pos = Right /\ drive.zero = 0  BY <2>1 DEF TmWay, TmLimits
  <2> QED  BY <1>1, <2>1, <2>2, <2>3, CalibrationAssumption DEF TmMeasured, TmReads
<1> QED  BY <1>3, <1>4, <1>5, <1>6, <1>7, <1>8 DEF TmFacts

\* A write of a mode, a target or a limit, or of something that is not modelled.
LEMMA TmObjectWritten ==
    ASSUME motorId = "tm", NEW a, TmFacts(2 * cal.k, drive, cal, a), NEW v, NEW d,
           d = Written(Request.obj, Request.val),
           cal.k \in {1, 3, 7, 9, 13, 16, 23, 28, 35, 40, 42, 43, 50, 51, 54, 56, 58}
    PROVE  TmFacts(2 * cal.k + 1, d, cal, v)
<1> DEFINE k == cal.k
           p == 2 * k
           q == 2 * k + 1
<1> USE CalibrationAssumption
<1>1. /\ DriveShape(drive) /\ drive.state \in States /\ drive.becomes \in States
      /\ TmMode(p, drive, a) /\ TmVoltage(p, drive, a) /\ TmLimits(p, drive)
      /\ TmMeasured(p, drive, cal, a) /\ TmWord(p, drive, cal, a) /\ TmWay(p, drive, a)
  BY DEF TmFacts
<1>2. CASE k \in {1, 13, 40, 56}
  <2>1. Request.obj = "mode" /\ Request.val = IF k \in {1, 40} THEN Referencing ELSE PointToPoint
    BY <1>2, TmWritten
  <2>2. DriveShape(d) /\ DifferIn(d, drive, {"mode"}) /\ d.mode = Request.val
    BY <1>1, <2>1, ObjectWritten
  <2>3. TmMode(q, d, v)  BY <1>1, <1>2, <2>1, <2>2 DEF DifferIn, TmMode
  <2>4. TmVoltage(q, d, v) /\ TmLimits(q, d)  BY <1>1, <1>2, <2>2 DEF DifferIn, TmVoltage, TmLimits
  <2>5. TmMeasured(q, d, cal, v) /\ TmWord(q, d, cal, v)
    BY <1>1, <1>2, <2>2 DEF DifferIn, TmMeasured, TmWord
  <2>6. TmWay(q, d, v)  BY <1>1, <1>2, <2>2 DEF DifferIn, TmWay
  <2> QED  BY <1>1, <2>2, <2>3, <2>4, <2>5, <2>6 DEF DifferIn, TmFacts
<1>3. CASE k \in {16, 23, 28, 35, 58}
  <2>1. /\ Request.obj = "target"
        /\ k = 16 => Request.val = 0 - BarStep
        /\ k = 23 => Request.val = cal.min + GoBack
        /\ k = 28 => Request.val = BarStep
        /\ k = 35 => Request.val = cal.min + MinBuffer
    BY <1>3, TmWritten
  <2>2. DriveShape(d) /\ DifferIn(d, drive, {"target"}) /\ d.target = Request.val
    BY <1>1, <2>1, ObjectWritten
  <2>3. TmMeasured(q, d, cal, v)  BY <1>1, <1>3, <2>1, <2>2 DEF DifferIn, TmMeasured
  <2>4. TmVoltage(q, d, v) /\ TmLimits(q, d)  BY <1>1, <1>3, <2>2 DEF DifferIn, TmVoltage, TmLimits
  <2>5. TmMode(q, d, v) /\ TmWord(q, d, cal, v)
    BY <1>1, <1>3, <2>2 DEF DifferIn, TmMode, TmWord
  <2>6. TmWay(q, d, v)  BY <1>1, <1>3, <2>2 DEF DifferIn, TmWay
  <2> QED  BY <1>1, <2>2, <2>3, <2>4, <2>5, <2>6 DEF DifferIn, TmFacts
<1>4. CASE k \in {7, 43, 50, 51, 54}
  <2> DEFINE obj == Request.obj
             val == Request.val
  <2>1. /\ k \in {7, 54} => obj = "limitState" /\ val = IF k = 7 THEN 0 ELSE 3
        /\ k = 43 => obj = "homing" /\ val = SetDimensions
        /\ k = 50 => obj = "minLimit" /\ val = 0 - MinBuffer
        /\ k = 51 => obj = "maxLimit" /\ val = cal.max - cal.min - MinBuffer
    BY <1>4, TmWritten
  <2>2. k \in {50, 51} => drive.state = "ready"  BY <1>1 DEF TmVoltage
  <2>3. k = 51 => cal.max = Right /\ cal.min = Left  BY <1>1 DEF TmMeasured
  <2> HIDE DEF obj, val
  <2>4. d = Written(obj, val)  BY DEF obj, val
  <2>5. DriveShape(d) /\ d[obj] = val /\ DifferIn(d, drive, {obj})
    <3>1. CASE k \in {7, 43, 54}
      <4>1. obj \in {"limitState", "homing"}  BY <2>1, <3>1
      <4> QED  BY <1>1, <2>4, <4>1, ObjectWritten
    <3>2. CASE k \in {50, 51}
      <4>1. obj \in {"minLimit", "maxLimit"}  BY <2>1, <3>2
      <4> QED  BY <1>1, <2>2, <2>4, <3>2, <4>1, LimitWritten
    <3> QED  BY <1>4, <3>1, <3>2
  <2>6. TmLimits(q, d)
    <3>1. CASE k \in {7, 54}
      <4>1. DifferIn(d, drive, {"limitState"}) /\ d.limitState = IF k = 7 THEN 0 ELSE 3
        BY <2>1, <2>5, <3>1
      <4> QED  BY <1>1, <3>1, <4>1 DEF DifferIn, TmLimits
    <3>2. CASE k = 43
      <4>1. DifferIn(d, drive, {"homing"}) /\ d.homing = SetDimensions  BY <2>1, <2>5, <3>2
      <4> QED  BY <1>1, <3>2, <4>1 DEF DifferIn, TmLimits
    <3>3. CASE k = 50
      <4>1. DifferIn(d, drive, {"minLimit"}) /\ d.minLimit = 0 - MinBuffer  BY <2>1, <2>5, <3>3
      <4> QED  BY <1>1, <3>3, <4>1 DEF DifferIn, TmLimits
    <3>4. CASE k = 51
      <4>1. DifferIn(d, drive, {"maxLimit"}) /\ d.maxLimit = Right - Left - MinBuffer
        BY <2>1, <2>3, <2>5, <3>4
      <4> QED  BY <1>1, <3>4, <4>1 DEF DifferIn, TmLimits
    <3> QED  BY <1>4, <3>1, <3>2, <3>3, <3>4
  <2>7. DifferIn(d, drive, {"limitState", "homing", "minLimit", "maxLimit"})
    <3>1. obj \in {"limitState", "homing", "minLimit", "maxLimit"}  BY <1>4, <2>1
    <3> QED  BY <2>5, <3>1 DEF DifferIn
  <2>8. TmVoltage(q, d, v) /\ TmMode(q, d, v)  BY <1>1, <1>4, <2>7 DEF DifferIn, TmVoltage, TmMode
  <2>9. TmMeasured(q, d, cal, v) /\ TmWord(q, d, cal, v)
    BY <1>1, <1>4, <2>7 DEF DifferIn, TmMeasured, TmWord
  <2>10. TmWay(q, d, v)  BY <1>1, <1>4, <2>7 DEF DifferIn, TmWay
  <2> QED  BY <1>1, <2>5, <2>6, <2>7, <2>8, <2>9, <2>10 DEF DifferIn, TmFacts
<1>5. CASE k \in {3, 9, 42}
  <2>1. DriveShape(d) /\ DifferIn(d, drive, {})
    <3>1. CASE k = 3
      <4>1. Request.obj = "rpdo2"  BY <3>1, TmWritten
      <4>2. DriveShape(d) /\ DifferIn(d, drive, {"rpdo2"})  BY <1>1, <4>1, ObjectWritten
      <4> QED  BY <4>2 DEF DifferIn
    <3>2. CASE k \in {9, 42}
      <4>1. Request.obj \in {"velocity", "dimension"}  BY <3>2, TmWritten
      <4>2. d = drive  BY <4>1 DEF Written
      <4> QED  BY <1>1, <4>2 DEF DifferIn
    <3> QED  BY <1>5, <3>1, <3>2
  <2>2. TmVoltage(q, d, v) /\ TmMode(q, d, v)  BY <1>1, <1>5, <2>1 DEF DifferIn, TmVoltage, TmMode
  <2>3. TmMeasured(q, d, cal, v) /\ TmWord(q, d, cal, v) /\ TmLimits(q, d)
    BY <1>1, <1>5, <2>1 DEF DifferIn, TmMeasured, TmWord, TmLimits
  <2>4. TmWay(q, d, v)  BY <1>1, <1>5, <2>1 DEF DifferIn, TmWay
  <2> QED  BY <1>1, <2>1, <2>2, <2>3, <2>4 DEF DifferIn, TmFacts
<1> QED  BY <1>2, <1>3, <1>4, <1>5

\* A control word without the bit of a new set point moves nothing.
LEMMA NoSetPoint ==
    ASSUME DriveShape(drive), NEW val \in {0, 6, 7, 15, 79}, NEW d, d = Written("control", val)
    PROVE  /\ DriveShape(d) /\ DifferIn(d, drive, {"word", "becomes"})
           /\ d.word = val /\ d.becomes = StateAfter(drive.becomes, val)
<1>1. SetPoint(drive, val) = drive  BY WordBits DEF SetPoint
<1> QED  BY <1>1, ControlWritten

\* One with that bit moves the bar, or makes its place the zero of the drive's count, if the
\* word before did not have it and the drive is in operation.
LEMMA NewSetPoint ==
    ASSUME DriveShape(drive), drive.word \in Rest, drive.state = "enabled", NEW val \in {31, 95},
           NEW d, d = Written("control", val)
    PROVE  LET goal == IF val = 95 THEN drive.pos + drive.target ELSE drive.zero + drive.target
           IN  /\ DriveShape(d) /\ d.word = val /\ d.becomes = StateAfter(drive.becomes, val)
               /\ drive.display = Referencing /\ drive.homing = SetDimensions =>
                    d.zero = drive.pos /\ DifferIn(d, drive, {"word", "becomes", "zero"})
               /\ drive.display = PointToPoint =>
                    DifferIn(d, drive, {"word", "becomes", "goal"})
               /\ drive.display # Referencing /\ drive.limitState = 0 => d.goal = goal
               /\ drive.display # Referencing => DifferIn(d, drive, {"word", "becomes", "goal"})
<1> DEFINE goal == IF val = 95 THEN drive.pos + drive.target ELSE drive.zero + drive.target
           e == SetPoint(drive, val)
<1>1. /\ Bit(val, 4) = 1 /\ Bit(drive.word, 4) = 0 /\ (Bit(val, 6) = 1 <=> val = 95)
  BY WordBits DEF Rest
<1> DEFINE to(x) == IF drive.display = Referencing
                    THEN IF drive.homing = SetDimensions THEN [drive EXCEPT !.zero = drive.pos]
                         ELSE drive
                    ELSE IF drive.limitState = 3
                              /\ x - drive.zero \notin drive.minLimit .. drive.maxLimit
                    THEN drive ELSE [drive EXCEPT !.goal = x]
           goal2 == IF Bit(val, 6) = 1 THEN drive.pos + drive.target ELSE drive.zero + drive.target
<1>2. e = to(goal)
  <2>1. goal2 = goal  BY <1>1
  <2>2. e = to(goal2)  BY <1>1 DEF SetPoint
  <2> HIDE DEF goal, goal2, to, e
  <2> QED  BY <2>1, <2>2
<1>3. "zero" \in DriveFields /\ "goal" \in DriveFields  BY DEF DriveFields
<1> HIDE DEF e, goal
<1> DEFINE z == [drive EXCEPT !["zero"] = drive.pos]
           g == [drive EXCEPT !["goal"] = goal]
<1>4. drive.display = Referencing /\ drive.homing = SetDimensions =>
        e.zero = drive.pos /\ DifferIn(e, drive, {"zero"})
  <2>1. DriveShape(z) /\ z.zero = drive.pos /\ DifferIn(z, drive, {"zero"})
    BY FieldChanged DEF DriveFields
  <2>2. drive.display = Referencing /\ drive.homing = SetDimensions => e = z  BY <1>2
  <2> HIDE DEF z
  <2> QED  BY <2>1, <2>2
<1>5. drive.display # Referencing /\ drive.limitState = 0 => e.goal = goal
  <2>1. DriveShape(g) /\ g.goal = goal  BY FieldChanged DEF DriveFields
  <2>2. drive.display # Referencing /\ drive.limitState = 0 => e = g  BY <1>2
  <2> HIDE DEF g
  <2> QED  BY <2>1, <2>2
<1>6. drive.display # Referencing => DifferIn(e, drive, {"goal"})
  <2>1. drive.display # Referencing => e = drive \/ e = [drive EXCEPT !["goal"] = goal]  BY <1>2
  <2>2. DifferIn(drive, drive, {"goal"})  BY DEF DifferIn
  <2>3. DifferIn([drive EXCEPT !["goal"] = goal], drive, {"goal"})  BY <1>3, FieldChanged
  <2> QED  BY <2>1, <2>2, <2>3
<1>7. /\ DriveShape(d) /\ d.word = val /\ d.becomes = StateAfter(drive.becomes, val)
      /\ DifferIn(d, e, {"word", "becomes"})
  BY ControlWritten DEF e
<1>8. drive.display # Referencing => DifferIn(d, drive, {"word", "becomes", "goal"}) /\ d.goal = e.goal
  BY <1>6, <1>7 DEF DifferIn
<1>9. drive.display = Referencing /\ drive.homing = SetDimensions =>
        d.zero = drive.pos /\ DifferIn(d, drive, {"word", "becomes", "zero"})
  BY <1>4, <1>7 DEF DifferIn
<1>10. PointToPoint # Referencing  BY DEF PointToPoint, Referencing
<1> QED  BY <1>5, <1>7, <1>8, <1>9, <1>10 DEF goal

\* A write that switches the voltage, or that takes back the bit of a new set point.
LEMMA TmVoltageWritten ==
    ASSUME motorId = "tm", NEW a, TmFacts(2 * cal.k, drive, cal, a), NEW v, NEW d,
           d = Written(Request.obj, Request.val),
           cal.k \in {5, 10, 18, 25, 30, 37, 46, 48, 52, 60}
    PROVE  TmFacts(2 * cal.k + 1, d, cal, v)
<1> DEFINE k == cal.k
           p == 2 * k
           q == 2 * k + 1
           val == Request.val
<1> USE CalibrationAssumption
<1>1. /\ DriveShape(drive) /\ drive.state \in States /\ drive.becomes \in States
      /\ TmMode(p, drive, a) /\ TmVoltage(p, drive, a) /\ TmLimits(p, drive)
      /\ TmMeasured(p, drive, cal, a) /\ TmWord(p, drive, cal, a) /\ TmWay(p, drive, a)
  BY DEF TmFacts
<1>2. k \in {18, 25, 30, 37, 46, 60} => cal.word \in Words  BY <1>1 DEF TmWord
<1>3. /\ Request.obj = "control"
      /\ k \in {5, 48} => val = 0
      /\ k \in {10, 52} => val = 15
      /\ k \in {18, 25, 30, 37, 46, 60} => val \in Rest
  <2>1. /\ Request.obj = "control"
        /\ k \in {5, 48} => val = 0
        /\ k \in {10, 52} => val = 15
        /\ k \in {18, 25, 30, 37, 46, 60} => val = Cleared(cal.word)
    BY TmWritten
  <2> QED  BY <1>2, <2>1, WordBits
<1> HIDE DEF val
<1>4. val \in {0, 15, 79} /\ (k \notin {5, 48} => val \in Rest /\ val \in Words)
  BY <1>3 DEF Rest, Words
<1>5. d = Written("control", val)  BY <1>3 DEF val
<1>6. /\ DriveShape(d) /\ DifferIn(d, drive, {"word", "becomes"})
      /\ d.word = val /\ d.becomes = StateAfter(drive.becomes, val)
  BY <1>1, <1>4, <1>5, NoSetPoint
<1>7. d.becomes \in States /\ d.becomes = IF k \in {5, 48} THEN "ready" ELSE "enabled"
  BY <1>1, <1>3, <1>4, <1>6, WordStates
<1>8. TmVoltage(q, d, v)  BY <1>1, <1>6, <1>7 DEF DifferIn, TmVoltage
<1>9. TmWord(q, d, cal, v)  BY <1>1, <1>2, <1>3, <1>4, <1>6 DEF TmWord
<1>10. TmMode(q, d, v) /\ TmLimits(q, d)  BY <1>1, <1>6 DEF DifferIn, TmMode, TmLimits
<1>11. TmMeasured(q, d, cal, v)  BY <1>1, <1>6 DEF DifferIn, TmMeasured
<1>12. TmWay(q, d, v)  BY <1>1, <1>6 DEF DifferIn, TmWay
<1> QED  BY <1>1, <1>6, <1>7, <1>8, <1>9, <1>10, <1>11, <1>12 DEF DifferIn, TmFacts

\* A write that sets a new set point.
LEMMA TmSetPointWritten ==
    ASSUME motorId = "tm", NEW a, TmFacts(2 * cal.k, drive, cal, a), NEW v, NEW d,
           d = Written(Request.obj, Request.val), cal.k \in {19, 26, 31, 38, 47, 61}
    PROVE  TmFacts(2 * cal.k + 1, d, cal, v)
<1> DEFINE k == cal.k
           p == 2 * k
           q == 2 * k + 1
           val == Request.val
<1> USE CalibrationAssumption
<1>1. /\ DriveShape(drive) /\ drive.state \in States /\ drive.becomes \in States
      /\ TmMode(p, drive, a) /\ TmVoltage(p, drive, a) /\ TmLimits(p, drive)
      /\ TmMeasured(p, drive, cal, a) /\ TmWord(p, drive, cal, a) /\ TmWay(p, drive, a)
  BY DEF TmFacts
<1>2. cal.word \in Words /\ drive.word \in Rest  BY <1>1 DEF TmWord
<1>3. Request.obj = "control" /\ val = IF k \in {19, 31} THEN 95 ELSE 31
  <2>1. /\ Request.obj = "control"
        /\ k \in {19, 31} => val = Applied(cal.word, "Relative")
        /\ k \in {26, 38, 47, 61} => val = Applied(cal.word, "Absolute")
    BY TmWritten
  <2> QED  BY <1>2, <2>1, WordBits
<1> HIDE DEF val
<1>4. /\ drive.state = "enabled" /\ drive.becomes = "enabled"
      /\ drive.display = IF k = 47 THEN Referencing ELSE PointToPoint
      /\ k = 47 => drive.homing = SetDimensions
      /\ k \in {19, 26, 31, 38} => drive.limitState = 0 /\ drive.zero = 0
  BY <1>1 DEF TmVoltage, TmMode, TmLimits
<1>5. d = Written("control", val) /\ val \in {31, 95} /\ val \in Words  BY <1>3 DEF val, Words
<1> DEFINE goal == IF val = 95 THEN drive.pos + drive.target ELSE drive.zero + drive.target
<1>6. /\ DriveShape(d) /\ d.word = val /\ d.becomes = StateAfter(drive.becomes, val)
      /\ k = 47 => d.zero = drive.pos /\ DifferIn(d, drive, {"word", "becomes", "zero"})
      /\ k # 47 => DifferIn(d, drive, {"word", "becomes", "goal"})
      /\ k \in {19, 26, 31, 38} => d.goal = goal
  <2>1. PointToPoint # Referencing  BY DEF PointToPoint, Referencing
  <2> QED  BY <1>1, <1>2, <1>4, <1>5, <2>1, NewSetPoint
<1>7. d.becomes = "enabled" /\ d.becomes \in States
  BY <1>4, <1>5, <1>6, WordStates DEF States
<1>8. DifferIn(d, drive, {"word", "becomes", "zero", "goal"})  BY <1>6 DEF DifferIn
<1>9. TmVoltage(q, d, v)  BY <1>1, <1>7, <1>8 DEF DifferIn, TmVoltage
<1>10. TmWord(q, d, cal, v)  BY <1>1, <1>5, <1>6 DEF TmWord
<1>11. TmMode(q, d, v) /\ TmMeasured(q, d, cal, v)  BY <1>1, <1>8 DEF DifferIn, TmMode, TmMeasured
<1>12. TmLimits(q, d)
  <2>1. CASE k = 47
    <3>1. drive.pos = Left + MinBuffer  BY <1>1, <2>1 DEF TmWay
    <3> QED  BY <1>1, <1>6, <2>1, <3>1 DEF DifferIn, TmLimits
  <2>2. CASE k # 47  BY <1>1, <1>6, <2>2 DEF DifferIn, TmLimits
  <2> QED  BY <2>1, <2>2
<1>13. TmWay(q, d, v)
  <2>1. /\ k = 19 => goal = drive.pos + (0 - BarStep)
        /\ k = 26 => goal = Left + GoBack
        /\ k = 31 => goal = drive.pos + BarStep
        /\ k = 38 => goal = Left + MinBuffer
    BY <1>1, <1>3, <1>4 DEF TmMeasured
  <2> HIDE DEF goal
  <2>2. CASE k = 19  BY <1>1, <1>6, <2>1, <2>2 DEF DifferIn, TmWay
  <2>3. CASE k = 26  BY <1>1, <1>6, <2>1, <2>3 DEF DifferIn, TmWay
  <2>4. CASE k = 31  BY <1>1, <1>6, <2>1, <2>4 DEF DifferIn, TmWay
  <2>5. CASE k = 38  BY <1>1, <1>6, <2>1, <2>5 DEF DifferIn, TmWay
  <2>6. CASE k = 47  BY <1>1, <1>6, <2>6 DEF DifferIn, TmWay
  <2>7. CASE k = 61  BY <2>7 DEF TmWay
  <2> QED  BY <2>2, <2>3, <2>4, <2>5, <2>6, <2>7
<1> QED  BY <1>1, <1>6, <1>7, <1>8, <1>9, <1>10, <1>11, <1>12, <1>13 DEF DifferIn, TmFacts

\* The local variables that measure, and the control word read.
Measured == {"min", "max", "word"}

\* Where Calibrate goes on after an answer, and what it keeps of it.
LEMMA TakeGoes ==
    ASSUME CalInv, motorId \in {"tm", "fh"}, cal.k \in 1 .. Len(Script(motorId)), NEW a,
           TakeWait(a) \/ TakeResult(a) \/ TakeUnload(a) \/ TakePush(a)
    PROVE  LET on == cal'.k = cal.k + 1
               Kept == \A x \in Measured : cal'[x] = cal[x]
           IN  /\ cal'.sent = FALSE
               /\ Instr.do \in {"await", "state", "unload"} => on \/ cal'.k = cal.k
               /\ Instr.do = "await" /\ on => a = Instr.val
               /\ Instr.do = "state" /\ on => Means(a, Instr.val)
               /\ Instr.do = "unload" /\ on => a < LoadLimit
               /\ Instr.do = "push" => cal'.k = IF a < LoadLimit THEN cal.k - 3 ELSE cal.k + 1
               /\ Instr.do \notin {"await", "state", "unload", "push"} => on
               /\ Instr.do # "get" => Kept
               /\ Instr.do = "get" =>
                    \A x \in Measured : cal'[x] = IF x = Instr.val THEN a ELSE cal[x]
<1> DEFINE on == cal'.k = cal.k + 1
           Kept == \A x \in Measured : cal'[x] = cal[x]
<1>1. /\ DOMAIN cal = CalFields /\ cal.k \in Nat \ {0} /\ cal.n \in 0 .. LoadReads
      /\ Measured \subseteq CalFields /\ {"k", "n", "sent"} \subseteq CalFields
      /\ "k" \notin Measured /\ "sent" \notin Measured /\ "n" \notin Measured
  BY DEF CalInv, CalFields, Locals, Measured
<1>2. ASSUME NEW k, NEW l, DOMAIN l = CalFields, Then(k, l)
      PROVE  cal'.k = k /\ cal'.sent = FALSE /\ \A x \in Measured : cal'[x] = l[x]
  BY <1>1, <1>2 DEF Then
<1>3. ASSUME TakeWait(a)
      PROVE  /\ Instr.do \in {"await", "state"} /\ cal'.sent = FALSE /\ Kept
             /\ on \/ cal'.k = cal.k
             /\ Instr.do = "await" /\ on => a = Instr.val
             /\ Instr.do = "state" /\ on => Means(a, Instr.val)
  <2> DEFINE so == IF Instr.do = "await" THEN a = Instr.val ELSE Means(a, Instr.val)
  <2>1. /\ Instr.do \in {"await", "state"}
        /\ so => Then(cal.k + 1, cal)
        /\ ~so => Then(cal.k, cal)
    BY <1>3 DEF TakeWait
  <2>2. /\ Instr.do = "await" => (so <=> a = Instr.val)
        /\ Instr.do = "state" => (so <=> Means(a, Instr.val))
    OBVIOUS
  <2> HIDE DEF so
  <2>3. CASE so  BY <1>1, <1>2, <2>1, <2>2, <2>3
  <2>4. CASE ~so
    <3>1. cal'.k = cal.k /\ cal'.sent = FALSE /\ Kept  BY <1>1, <1>2, <2>1, <2>4
    <3>2. ~on  BY <1>1, <3>1
    <3> QED  BY <2>1, <3>1, <3>2
  <2> QED  BY <2>3, <2>4
<1>4. ASSUME TakeResult(a)
      PROVE  /\ Instr.do \notin {"await", "state", "unload", "push"} /\ cal'.sent = FALSE /\ on
             /\ Instr.do # "get" => Kept
             /\ Instr.do = "get" =>
                  \A x \in Measured : cal'[x] = IF x = Instr.val THEN a ELSE cal[x]
  <2> DEFINE got == [cal EXCEPT ![Instr.val] = a]
  <2>1. /\ Instr.do \notin {"await", "state", "unload", "push"}
        /\ Instr.do = "get" => Then(cal.k + 1, got)
        /\ Instr.do # "get" => Then(cal.k + 1, cal)
    BY <1>4 DEF TakeResult
  <2>2. DOMAIN got = CalFields /\ \A x \in Measured : got[x] = IF x = Instr.val THEN a ELSE cal[x]
    BY <1>1
  <2> HIDE DEF got
  <2>3. CASE Instr.do = "get"
    <3>1. cal'.k = cal.k + 1 /\ cal'.sent = FALSE /\ \A x \in Measured : cal'[x] = got[x]
      BY <1>2, <2>1, <2>2, <2>3
    <3> QED  BY <2>1, <2>2, <2>3, <3>1
  <2>4. CASE Instr.do # "get"  BY <1>1, <1>2, <2>1, <2>4
  <2> QED  BY <2>1, <2>3, <2>4
<1>5. ASSUME TakeUnload(a)
      PROVE  /\ Instr.do = "unload" /\ cal'.sent = FALSE /\ Kept
             /\ on \/ cal'.k = cal.k
             /\ on => a < LoadLimit
  <2> DEFINE with(n) == [cal EXCEPT !.n = n]
             n == IF a < LoadLimit THEN cal.n + 1 ELSE cal.n
  <2>1. /\ Instr.do = "unload"
        /\ n <= LoadReads => Then(cal.k, with(n))
        /\ ~(n <= LoadReads) => Then(cal.k + 1, with(0))
    BY <1>5 DEF TakeUnload
  <2>2. ~(n <= LoadReads) => a < LoadLimit  BY <1>1, CalibrationAssumption
  <2>3. ASSUME NEW m PROVE DOMAIN with(m) = CalFields /\ \A x \in Measured : with(m)[x] = cal[x]
    BY <1>1
  <2> HIDE DEF n, with
  <2>4. CASE n <= LoadReads
    <3>1. cal'.k = cal.k /\ cal'.sent = FALSE /\ \A x \in Measured : cal'[x] = with(n)[x]
      BY <1>2, <2>1, <2>3, <2>4
    <3>2. ~on  BY <1>1, <3>1
    <3> QED  BY <2>1, <2>3, <3>1, <3>2
  <2>5. CASE ~(n <= LoadReads)
    <3>1. cal'.k = cal.k + 1 /\ cal'.sent = FALSE /\ \A x \in Measured : cal'[x] = with(0)[x]
      BY <1>2, <2>1, <2>3, <2>5
    <3> QED  BY <2>1, <2>2, <2>3, <2>5, <3>1
  <2> QED  BY <2>4, <2>5
<1>6. ASSUME TakePush(a)
      PROVE  /\ Instr.do = "push" /\ cal'.sent = FALSE /\ Kept
             /\ cal'.k = IF a < LoadLimit THEN cal.k - 3 ELSE cal.k + 1
  <2>1. Instr.do = "push" /\ Then(IF a < LoadLimit THEN cal.k - 3 ELSE cal.k + 1, cal)
    BY <1>6 DEF TakePush
  <2> QED  BY <1>1, <1>2, <2>1
<1> QED  BY <1>3, <1>4, <1>5, <1>6

\* The numbers of the instructions of the Telemecanique that wait for a result.
TmWaits == {2, 4, 6, 8, 11, 14, 15, 21, 27, 33, 39, 41, 44, 49, 53, 55, 57}

\* Where the Telemecanique's calibration goes on after the answer a.
TmGoesOn(a) ==
    LET on == cal'.k = cal.k + 1
    IN  /\ cal'.sent = FALSE /\ cal'.k \in Nat
        /\ cal.k \in TmWaits => on \/ cal'.k = cal.k
        /\ cal.k \in {2, 41} /\ on => a = Referencing
        /\ cal.k \in {14, 57} /\ on => a = PointToPoint
        /\ cal.k \in {6, 49} /\ on => Means(a, "Ready")
        /\ cal.k \in {11, 53} /\ on => Means(a, "OperationEnabled")
        /\ cal.k \in {21, 33, 39} /\ on => Means(a, "TargetReached")
        /\ cal.k \in {15, 27} /\ on => a < LoadLimit
        /\ cal.k \in {20, 32} => cal'.k = IF a < LoadLimit THEN cal.k - 3 ELSE cal.k + 1
        /\ cal.k \notin TmWaits \cup {20, 32} => on
        /\ cal'.min = IF cal.k = 22 THEN a ELSE cal.min
        /\ cal'.max = IF cal.k = 34 THEN a ELSE cal.max
        /\ cal'.word = IF cal.k \in {17, 24, 29, 36, 45, 59} THEN a ELSE cal.word

\* Every answer the program takes takes the Telemecanique's calibration there.
LEMMA TmGoes ==
    ASSUME CalInv, motorId = "tm", cal.k \in 1 .. 61, NEW a,
           TakeWait(a) \/ TakeResult(a) \/ TakeUnload(a) \/ TakePush(a)
    PROVE  TmGoesOn(a)
<1> DEFINE k == cal.k
           on == cal'.k = cal.k + 1
           do == Instr.do
           val == Instr.val
<1>0. cal.k \in 1 .. Len(Script(motorId)) /\ motorId \in {"tm", "fh"}
  <2>1. Len(Script(motorId)) = 61  BY TmScript
  <2> QED  BY <2>1
<1>1. /\ cal'.sent = FALSE
      /\ do \in {"await", "state", "unload"} => on \/ cal'.k = cal.k
      /\ do = "await" /\ on => a = val
      /\ do = "state" /\ on => Means(a, val)
      /\ do = "unload" /\ on => a < LoadLimit
      /\ do = "push" => cal'.k = IF a < LoadLimit THEN cal.k - 3 ELSE cal.k + 1
      /\ do \notin {"await", "state", "unload", "push"} => on
      /\ do # "get" => \A x \in Measured : cal'[x] = cal[x]
      /\ do = "get" => \A x \in Measured : cal'[x] = IF x = val THEN a ELSE cal[x]
  BY <1>0, TakeGoes
<1>2. /\ k \in {2, 41} => do = "await" /\ val = Referencing
      /\ k \in {14, 57} => do = "await" /\ val = PointToPoint
      /\ k \in {6, 49} => do = "state" /\ val = "Ready"
      /\ k \in {11, 53} => do = "state" /\ val = "OperationEnabled"
      /\ k \in {21, 33, 39} => do = "state" /\ val = "TargetReached"
      /\ k \in {15, 27} => do = "unload"
  BY TmScript DEF Instruction
<1>3. k \in {4, 8, 44, 55} => do \in {"await", "state"}  BY TmScript DEF Instruction
<1>4. /\ k = 12 => do = "get" /\ val = "start"
      /\ k = 22 => do = "get" /\ val = "min"
      /\ k = 34 => do = "get" /\ val = "max"
      /\ k \in {17, 24, 29, 36, 45, 59} => do = "get" /\ val = "word"
  BY TmScript DEF Instruction
<1>5. /\ k \in {1, 3, 5, 7, 9, 10, 13, 16, 28, 40, 42, 43, 48, 52, 54, 56} => do = "put"
      /\ k \in {18, 25, 30, 37, 46, 60} => do = "clear"
      /\ k \in {19, 26, 31, 38, 47, 61} => do = "apply"
      /\ k \in {23, 35, 50, 51, 58} => do = "calc"
  BY TmScript DEF Instruction
<1> HIDE DEF do, val
<1>6. k \in TmWaits => do \in {"await", "state", "unload"}  BY <1>2, <1>3 DEF TmWaits
<1>7. k \in {20, 32} => do = "push"  BY TmScript DEF Instruction, do
<1>8. k \notin TmWaits \cup {20, 32} => do \in {"get", "put", "clear", "apply", "calc"}
  BY <1>4, <1>5 DEF TmWaits
<1>9. do = "get" => k \in {12, 22, 34, 17, 24, 29, 36, 45, 59}
  BY <1>5, <1>6, <1>7 DEF TmWaits
<1>10. "min" \in Measured /\ "max" \in Measured /\ "word" \in Measured  BY DEF Measured
<1>11. /\ cal'.min = IF cal.k = 22 THEN a ELSE cal.min
       /\ cal'.max = IF cal.k = 34 THEN a ELSE cal.max
       /\ cal'.word = IF cal.k \in {17, 24, 29, 36, 45, 59} THEN a ELSE cal.word
  <2>1. CASE do # "get"  BY <1>1, <1>4, <1>10, <2>1
  <2>2. CASE do = "get"  BY <1>1, <1>4, <1>9, <1>10, <2>2
  <2> QED  BY <2>1, <2>2
<1>12. k \in TmWaits => on \/ cal'.k = cal.k  BY <1>1, <1>6
<1>13. k \notin TmWaits \cup {20, 32} => on  BY <1>1, <1>8
<1>14. cal'.k \in Nat
  <2>1. k \in Nat /\ (k \in {20, 32} => k - 3 \in Nat)  OBVIOUS
  <2> QED  BY <1>1, <1>7, <1>12, <1>13, <2>1
<1> QED  BY <1>1, <1>2, <1>7, <1>11, <1>12, <1>13, <1>14 DEF TmGoesOn

\* An answer leads to where what is known of the drive holds.
LEMMA TmTakes ==
    ASSUME CalInv, motorId = "tm", cal.k \in 1 .. 61, NEW a, TmFacts(2 * cal.k + 1, drive, cal, a),
           TakeWait(a) \/ TakeResult(a) \/ TakeUnload(a) \/ TakePush(a), NEW b
    PROVE  TmFacts(2 * cal'.k, drive, cal', b)
<1> DEFINE k == cal.k
           q == 2 * cal.k + 1
           n == cal'.k
           p == 2 * cal'.k
<1>0. TmGoesOn(a)  BY TmGoes
<1> USE CalibrationAssumption
<1>1. /\ DriveShape(drive) /\ drive.state \in States /\ drive.becomes \in States
      /\ TmMode(q, drive, a) /\ TmVoltage(q, drive, a) /\ TmLimits(q, drive)
      /\ TmMeasured(q, drive, cal, a) /\ TmWord(q, drive, cal, a) /\ TmWay(q, drive, a)
  BY DEF TmFacts
<1>2. /\ n \in Nat
      /\ k \in TmWaits => n = k + 1 \/ n = k
      /\ k \in {20, 32} => n = IF a < LoadLimit THEN k - 3 ELSE k + 1
      /\ k \notin TmWaits \cup {20, 32} => n = k + 1
  BY <1>0 DEF TmGoesOn
<1>3. TmMode(p, drive, b)
  <2>1. /\ k \in {2, 41} /\ n = k + 1 => a = Referencing
        /\ k \in {14, 57} /\ n = k + 1 => a = PointToPoint
    BY <1>0 DEF TmGoesOn
  <2> QED  BY <1>1, <1>2, <2>1 DEF TmMode, TmWaits
<1>4. TmVoltage(p, drive, b)
  <2>1. /\ k \in {6, 49} /\ n = k + 1 => Means(a, "Ready")
        /\ k \in {11, 53} /\ n = k + 1 => Means(a, "OperationEnabled")
    BY <1>0 DEF TmGoesOn
  <2> QED  BY <1>1, <1>2, <2>1 DEF TmVoltage, TmWaits
<1>5. TmLimits(p, drive)  BY <1>1, <1>2 DEF TmLimits, TmWaits
<1>6. TmMeasured(p, drive, cal', b)
  <2>1. /\ cal'.min = IF cal.k = 22 THEN a ELSE cal.min
        /\ cal'.max = IF cal.k = 34 THEN a ELSE cal.max
    BY <1>0 DEF TmGoesOn
  <2> QED  BY <1>1, <1>2, <2>1 DEF TmMeasured, TmWaits
<1>7. TmWord(p, drive, cal', b)
  <2>1. cal'.word = IF cal.k \in {17, 24, 29, 36, 45, 59} THEN a ELSE cal.word  BY <1>0 DEF TmGoesOn
  <2> QED  BY <1>1, <1>2, <2>1 DEF TmWord, TmWaits
<1>8. TmWay(p, drive, b)
  <2>1. /\ k \in {21, 33, 39} /\ n = k + 1 => Means(a, "TargetReached")
        /\ k \in {15, 27} /\ n = k + 1 => a < LoadLimit
    BY <1>0 DEF TmGoesOn
  <2>2. CASE k < 20 \/ k \in 22 .. 26 \/ k > 39
    BY <1>1, <1>2, <2>1, <2>2 DEF TmWay, TmWaits, LoadLimit
  <2>3. CASE k \in {20, 21, 27}  BY <1>1, <1>2, <2>1, <2>3 DEF TmWay, TmWaits, LoadLimit
  <2>4. CASE k \in 28 .. 39  BY <1>1, <1>2, <2>1, <2>4 DEF TmWay, TmWaits, LoadLimit
  <2> QED  BY <2>2, <2>3, <2>4
<1> QED  BY <1>1, <1>3, <1>4, <1>5, <1>6, <1>7, <1>8 DEF TmFacts

-----------------------------------------------------------------------------
(* The Faulhaber. *)

\* What the Faulhaber is told.
LEMMA FhWritten ==
    ASSUME motorId = "fh"
    PROVE  LET Writes(ks, obj, val) ==
                  cal.k \in ks => Request = [put |-> TRUE, obj |-> obj, val |-> val]
           IN  /\ Writes({1}, "control", 0) /\ Writes({3}, "control", 6)
               /\ Writes({5}, "control", 7) /\ Writes({7}, "control", 15)
               /\ Writes({9}, "mode", PointToPoint) /\ Writes({23}, "mode", FaulhaberMode)
               /\ Writes({11}, "scale", 360)
               /\ Writes({13}, "target", 360) /\ Writes({18}, "target", 0)
               /\ Writes({15, 20}, "control", Cleared(cal.word))
               /\ Writes({16}, "control", Applied(cal.word, "Relative"))
               /\ Writes({21}, "control", Applied(cal.word, "Absolute"))
BY RequestIs, FhScript DEF Instruction

\* What it is asked.
LEMMA FhRead ==
    ASSUME motorId = "fh"
    PROVE  LET Reads(ks, obj) == cal.k \in ks => Request.put = FALSE /\ Request.obj = obj
           IN  /\ Reads({2, 4, 6, 8, 17, 22}, "status") /\ Reads({10, 24}, "mode")
               /\ Reads({12}, "scale") /\ Reads({14, 19}, "control")
BY RequestIs, FhScript DEF Instruction

\* The numbers of the requests that read.
FhReads == {2, 4, 6, 8, 10, 12, 14, 17, 19, 22, 24}

\* Which requests read.
LEMMA FhReadsAre ==
    ASSUME motorId = "fh", cal.k \in 1 .. 24
    PROVE  Request.put = (cal.k \notin FhReads)
<1>1. cal.k \in {2, 4, 6, 8, 17, 22} \cup {10, 24} \cup {12} \cup {14, 19} => Request.put = FALSE
  BY FhRead
<1>2. cal.k \in {1, 3, 5, 7, 9, 11, 13, 15, 16, 18, 20, 21, 23} => Request.put = TRUE
  BY FhWritten
<1>3. cal.k \in FhReads => Request.put = FALSE  BY <1>1 DEF FhReads
<1>4. cal.k \notin FhReads => Request.put = TRUE  BY <1>2 DEF FhReads
<1> QED  BY <1>3, <1>4

\* Whatever the motor does by itself keeps what is known of it.
LEMMA FhMoves ==
    ASSUME motorId = "fh", NEW p \in Nat, NEW c, NEW a, FhFacts(p, drive, c, a),
           StateChanges \/ ModeChanges \/ Arrive
    PROVE  FhFacts(p, drive', c, a)
<1>1. CASE StateChanges
  <2>1. DriveShape(drive') /\ drive'.state = drive.becomes /\ DifferIn(drive', drive, {"state"})
    BY <1>1, FieldChanged DEF StateChanges, Changes, DriveFields, FhFacts
  <2> QED  BY <2>1 DEF FhFacts, DifferIn
<1>2. CASE ModeChanges
  <2>1. DriveShape(drive') /\ drive'.display = drive.mode /\ DifferIn(drive', drive, {"display"})
    BY <1>2, FieldChanged DEF ModeChanges, Changes, DriveFields, FhFacts
  <2> QED  BY <2>1 DEF FhFacts, DifferIn
<1>3. CASE Arrive
  <2>1. /\ DriveShape(drive') /\ drive'.pos = drive.goal /\ drive'.goal = drive.goal
        /\ DifferIn(drive', drive, {"pos", "goal", "load"}) /\ drive.goal # drive.pos
    <3> DEFINE end == drive.goal
               load == IF end = drive.goal THEN 0 ELSE 3
               d1 == [drive EXCEPT !["pos"] = end]
               d2 == [d1 EXCEPT !["goal"] = end]
               d3 == [d2 EXCEPT !["load"] = load]
    <3>0. "pos" \in DriveFields /\ "goal" \in DriveFields /\ "load" \in DriveFields  BY DEF DriveFields
    <3>1. drive' = d3 /\ drive.goal # drive.pos  BY <1>3 DEF Arrive, Changes
    <3>2. end = drive.goal /\ DriveShape(drive)  BY DEF FhFacts
    <3> HIDE DEF end, load
    <3>3. DriveShape(d1) /\ d1.pos = end /\ DifferIn(d1, drive, {"pos"})
      BY <3>0, <3>2, FieldChanged
    <3> HIDE DEF d1
    <3>4. DriveShape(d2) /\ d2.goal = end /\ DifferIn(d2, d1, {"goal"})
      BY <3>0, <3>3, FieldChanged
    <3> HIDE DEF d2
    <3>5. DriveShape(d3) /\ d3.load = load /\ DifferIn(d3, d2, {"load"})
      BY <3>0, <3>4, FieldChanged
    <3> HIDE DEF d3
    <3> QED  BY <3>1, <3>2, <3>3, <3>4, <3>5 DEF DifferIn
  <2> QED  BY <2>1 DEF FhFacts, DifferIn
<1> QED  BY <1>1, <1>2, <1>3

\* The answer to a read tells what is known of the drive.
LEMMA FhAnswered ==
    ASSUME motorId = "fh", cal.k \in 1 .. 24, NEW a, FhFacts(2 * cal.k, drive, cal, a),
           cal.k \in FhReads, NEW v, v = Value(Request.obj)
    PROVE  FhFacts(2 * cal.k + 1, drive, cal, v)
<1> DEFINE k == cal.k
<1>0. /\ k \in {10, 24} => Request.obj = "mode"
      /\ k \in {2, 4, 6, 8, 17, 22} => Request.obj = "status"
      /\ k \in {14, 19} => Request.obj = "control"
  BY FhRead
<1>1. /\ k \in {10, 24} => v = drive.display
      /\ k \in {2, 4, 6, 8, 17, 22} => v = StatusWord
      /\ k \in {14, 19} => v = drive.word
  BY <1>0 DEF Value
<1>2. /\ v = StatusWord /\ Means(v, "OperationEnabled") => drive.state = "enabled"
      /\ v = StatusWord /\ Means(v, "TargetReached") => drive.goal = drive.pos
  BY StatusTells DEF FhFacts
<1> QED  BY <1>1, <1>2 DEF FhFacts, FhReads

\* A write of a mode, a target or a scale.
LEMMA FhObjectWritten ==
    ASSUME motorId = "fh", NEW a, FhFacts(2 * cal.k, drive, cal, a), NEW v, NEW d,
           d = Written(Request.obj, Request.val), cal.k \in {9, 11, 13, 18, 23}
    PROVE  FhFacts(2 * cal.k + 1, d, cal, v)
<1> DEFINE k == cal.k
           obj == Request.obj
           val == Request.val
<1>1. /\ k \in {9, 23} => obj = "mode" /\ val = IF k = 9 THEN PointToPoint ELSE FaulhaberMode
      /\ k = 11 => obj = "scale"
      /\ k \in {13, 18} => obj = "target"
      /\ k = 18 => val = 0
  BY FhWritten
<1>2. obj \in {"mode", "scale", "target"} /\ DriveShape(drive)  BY <1>1 DEF FhFacts
<1> HIDE DEF obj, val
<1>3. DriveShape(d) /\ d[obj] = val /\ DifferIn(d, drive, {obj})
  BY <1>2, ObjectWritten DEF obj, val
<1>4. CASE k \in {9, 23}
  <2>1. DifferIn(d, drive, {"mode"}) /\ d.mode = IF k = 9 THEN PointToPoint ELSE FaulhaberMode
    BY <1>1, <1>3, <1>4
  <2> QED  BY <1>3, <1>4, <2>1 DEF FhFacts, DifferIn
<1>5. CASE k = 11
  <2>1. DifferIn(d, drive, {"scale"})  BY <1>1, <1>3, <1>5
  <2> QED  BY <1>3, <1>5, <2>1 DEF FhFacts, DifferIn
<1>6. CASE k \in {13, 18}
  <2>1. DifferIn(d, drive, {"target"}) /\ (k = 18 => d.target = 0)  BY <1>1, <1>3, <1>6
  <2> QED  BY <1>3, <1>6, <2>1 DEF FhFacts, DifferIn
<1> QED  BY <1>4, <1>5, <1>6

\* A write that switches the voltage, or that takes back the bit of a new set point.
LEMMA FhVoltageWritten ==
    ASSUME motorId = "fh", NEW a, FhFacts(2 * cal.k, drive, cal, a), NEW v, NEW d,
           d = Written(Request.obj, Request.val), cal.k \in {1, 3, 5, 7, 15, 20}
    PROVE  FhFacts(2 * cal.k + 1, d, cal, v)
<1> DEFINE k == cal.k
           val == Request.val
<1>1. DriveShape(drive) /\ drive.state \in States /\ drive.becomes \in States  BY DEF FhFacts
<1>2. /\ k = 5 => drive.becomes = "ready"
      /\ k = 7 => drive.becomes = "on"
      /\ k \in {15, 20} => drive.becomes = "enabled" /\ cal.word \in Words
  BY DEF FhFacts
<1>3. /\ Request.obj = "control"
      /\ k = 1 => val = 0
      /\ k = 3 => val = 6
      /\ k = 5 => val = 7
      /\ k = 7 => val = 15
      /\ k \in {15, 20} => val \in Rest
  <2>1. /\ Request.obj = "control"
        /\ k = 1 => val = 0
        /\ k = 3 => val = 6
        /\ k = 5 => val = 7
        /\ k = 7 => val = 15
        /\ k \in {15, 20} => val = Cleared(cal.word)
    BY FhWritten
  <2> QED  BY <1>2, <2>1, WordBits
<1>4. d = Written("control", val)  BY <1>3
<1> HIDE DEF val
<1>5. val \in {0, 6, 7, 15, 79} /\ (k \in {7, 15, 20} => val \in Rest /\ val \in Words)
  BY <1>3 DEF Rest, Words
<1>6. /\ DriveShape(d) /\ DifferIn(d, drive, {"word", "becomes"})
      /\ d.word = val /\ d.becomes = StateAfter(drive.becomes, val)
  BY <1>1, <1>4, <1>5, NoSetPoint
<1>7. d.becomes = IF k = 1 THEN "disabled" ELSE IF k = 3 THEN "ready" ELSE IF k = 5 THEN "on"
                  ELSE "enabled"
  BY <1>2, <1>3, <1>5, <1>6, WordStates
<1>8. d.becomes \in States  BY <1>7 DEF States
<1> QED  BY <1>2, <1>3, <1>5, <1>6, <1>7, <1>8 DEF FhFacts, DifferIn

\* A write that sets a new set point.
LEMMA FhSetPointWritten ==
    ASSUME motorId = "fh", NEW a, FhFacts(2 * cal.k, drive, cal, a), NEW v, NEW d,
           d = Written(Request.obj, Request.val), cal.k \in {16, 21}
    PROVE  FhFacts(2 * cal.k + 1, d, cal, v)
<1> DEFINE k == cal.k
           val == Request.val
<1>1. /\ DriveShape(drive) /\ drive.state = "enabled" /\ drive.becomes = "enabled"
      /\ drive.display = PointToPoint /\ drive.limitState = 0 /\ drive.zero = 0
      /\ cal.word \in Words /\ drive.word \in Rest
      /\ k = 21 => drive.target = 0
  BY DEF FhFacts
<1>2. Request.obj = "control" /\ val = IF k = 16 THEN 95 ELSE 31
  <2>1. /\ Request.obj = "control"
        /\ k = 16 => val = Applied(cal.word, "Relative")
        /\ k = 21 => val = Applied(cal.word, "Absolute")
    BY FhWritten
  <2> QED  BY <1>1, <2>1, WordBits
<1>3. d = Written("control", val)  BY <1>2
<1> HIDE DEF val
<1>4. val \in {31, 95} /\ val \in Words  BY <1>2 DEF Words
<1>5. PointToPoint # Referencing  BY DEF PointToPoint, Referencing
<1> DEFINE goal == IF val = 95 THEN drive.pos + drive.target ELSE drive.zero + drive.target
<1>6. /\ DriveShape(d) /\ d.word = val /\ d.becomes = StateAfter(drive.becomes, val)
      /\ DifferIn(d, drive, {"word", "becomes", "goal"}) /\ d.goal = goal
  BY <1>1, <1>3, <1>4, <1>5, NewSetPoint
<1>7. k = 21 => d.goal = 0  BY <1>1, <1>2, <1>6
<1>8. d.becomes = "enabled" /\ d.becomes \in States
  BY <1>1, <1>4, <1>6, WordStates DEF States
<1> QED  BY <1>4, <1>6, <1>7, <1>8 DEF FhFacts, DifferIn

\* Where the Faulhaber's calibration goes on after an answer.
LEMMA FhGoes ==
    ASSUME CalInv, motorId = "fh", cal.k \in 1 .. 24, NEW a,
           TakeWait(a) \/ TakeResult(a) \/ TakeUnload(a) \/ TakePush(a)
    PROVE  LET on == cal'.k = cal.k + 1
           IN  /\ cal'.sent = FALSE
               /\ on \/ (cal'.k = cal.k /\ cal.k \in FhReads \ {14, 19})
               /\ cal.k = 8 /\ on => Means(a, "OperationEnabled")
               /\ cal.k = 10 /\ on => a = PointToPoint
               /\ cal.k \in {17, 22} /\ on => Means(a, "TargetReached")
               /\ cal.k = 24 /\ on => a = FaulhaberMode
               /\ cal'.word = IF cal.k \in {14, 19} THEN a ELSE cal.word
<1> DEFINE k == cal.k
           on == cal'.k = cal.k + 1
           do == Instr.do
           val == Instr.val
<1>0. cal.k \in 1 .. Len(Script(motorId)) /\ motorId \in {"tm", "fh"}
  <2>1. Len(Script(motorId)) = 24  BY FhScript
  <2> QED  BY <2>1
<1>1. /\ cal'.sent = FALSE
      /\ do \in {"await", "state", "unload"} => on \/ cal'.k = cal.k
      /\ do = "await" /\ on => a = val
      /\ do = "state" /\ on => Means(a, val)
      /\ do \notin {"await", "state", "unload", "push"} => on
      /\ do # "get" => \A x \in Measured : cal'[x] = cal[x]
      /\ do = "get" => \A x \in Measured : cal'[x] = IF x = val THEN a ELSE cal[x]
  BY <1>0, TakeGoes
<1>2. /\ k = 8 => do = "state" /\ val = "OperationEnabled"
      /\ k = 10 => do = "await" /\ val = PointToPoint
      /\ k \in {17, 22} => do = "state" /\ val = "TargetReached"
      /\ k = 24 => do = "await" /\ val = FaulhaberMode
      /\ k \in {2, 4, 6, 12} => do \in {"await", "state"}
      /\ k \in {14, 19} => do = "get" /\ val = "word"
  BY FhScript DEF Instruction
<1>3. /\ k \in {1, 3, 5, 7, 9, 11, 13, 18, 23} => do = "put"
      /\ k \in {15, 20} => do = "clear"
      /\ k \in {16, 21} => do = "apply"
  BY FhScript DEF Instruction
<1> HIDE DEF do, val
<1>4. k \in FhReads \ {14, 19} => do \in {"await", "state"}  BY <1>2 DEF FhReads
<1>5. k \notin FhReads => do \in {"put", "clear", "apply"}  BY <1>3 DEF FhReads
<1>6. on \/ (cal'.k = cal.k /\ cal.k \in FhReads \ {14, 19})  BY <1>1, <1>2, <1>4, <1>5
<1>7. "word" \in Measured  BY DEF Measured
<1>8. do = "get" <=> k \in {14, 19}  BY <1>2, <1>4, <1>5
<1>9. cal'.word = IF cal.k \in {14, 19} THEN a ELSE cal.word
  <2>1. CASE do # "get"  BY <1>1, <1>7, <1>8, <2>1
  <2>2. CASE do = "get"  BY <1>1, <1>2, <1>7, <1>8, <2>2
  <2> QED  BY <2>1, <2>2
<1> QED  BY <1>1, <1>2, <1>6, <1>9

\* An answer leads to where what is known of the drive holds.
LEMMA FhTakes ==
    ASSUME CalInv, motorId = "fh", cal.k \in 1 .. 24, NEW a, FhFacts(2 * cal.k + 1, drive, cal, a),
           TakeWait(a) \/ TakeResult(a) \/ TakeUnload(a) \/ TakePush(a), NEW b
    PROVE  FhFacts(2 * cal'.k, drive, cal', b)
<1> DEFINE k == cal.k
           n == cal'.k
<1>1. /\ n = k + 1 \/ (n = k /\ k \in FhReads \ {14, 19})
      /\ k = 8 /\ n = k + 1 => Means(a, "OperationEnabled")
      /\ k = 10 /\ n = k + 1 => a = PointToPoint
      /\ k \in {17, 22} /\ n = k + 1 => Means(a, "TargetReached")
      /\ k = 24 /\ n = k + 1 => a = FaulhaberMode
      /\ cal'.word = IF cal.k \in {14, 19} THEN a ELSE cal.word
  BY FhGoes
<1>2. CASE n = k + 1  BY <1>1, <1>2 DEF FhFacts
<1>3. CASE n = k /\ k \in FhReads \ {14, 19}  BY <1>1, <1>3 DEF FhFacts, FhReads
<1> QED  BY <1>1, <1>2, <1>3

-----------------------------------------------------------------------------
(* Both motors. *)

\* Sequences of at most one.
LEMMA OneIs ==
    ASSUME NEW v
    PROVE  /\ Append(<<>>, v) = <<v>> /\ Len(<<v>>) = 1 /\ Head(<<v>>) = v /\ <<v>> # <<>>
           /\ Tail(<<v>>) = <<>> /\ Len(<<>>) = 0
OBVIOUS

\* A sequence of length 0.
LEMMA NoneIs == ASSUME NEW s, IsSequence(s), Len(s) = 0 PROVE s = <<>>
<1>1. PICK S : s \in Seq(S)  BY DEF IsSequence
<1> QED  BY <1>1

\* A sequence of length 1 is what its Head makes.
LEMMA OnlyOne ==
    ASSUME NEW s, IsSequence(s), Len(s) = 1
    PROVE  Tail(s) = <<>> /\ s # <<>>
<1>1. s # <<>>  BY OneIs
<1>2. IsSequence(Tail(s)) /\ Len(Tail(s)) = 0  BY <1>1, TailIs
<1>3. Tail(s) = <<>>  BY <1>2, NoneIs
<1> QED  BY <1>1, <1>3

\* A request is the same as long as what it is made of is.
LEMMA RequestStays ==
    ASSUME motorId' = motorId, cal'.k = cal.k, cal'.min = cal.min, cal'.max = cal.max,
           cal'.word = cal.word
    PROVE  Request' = Request
BY DEF Request, Instr, Calculated, Cleared, Applied

\* What is known of a drive depends on what has been measured, and on no other variable.
LEMMA FactsOf ==
    ASSUME NEW p, NEW d, NEW c, NEW e, NEW a,
           e.min = c.min, e.max = c.max, e.word = c.word
    PROVE  /\ TmFacts(p, d, c, a) => TmFacts(p, d, e, a)
           /\ FhFacts(p, d, c, a) => FhFacts(p, d, e, a)
<1>1. TmFacts(p, d, c, a) => TmFacts(p, d, e, a)  BY DEF TmFacts, TmMeasured, TmWord
<1>2. FhFacts(p, d, c, a) => FhFacts(p, d, e, a)  BY DEF FhFacts
<1> QED  BY <1>1, <1>2

\* Serving the request leads to where what is known of the drive holds.
LEMMA TmServes ==
    ASSUME motorId = "tm", cal.k \in 1 .. 61, NEW a, TmFacts(2 * cal.k, drive, cal, a), NEW v,
           IF Request.put THEN drive' = Written(Request.obj, Request.val)
                          ELSE v = Value(Request.obj) /\ drive' = drive
    PROVE  TmFacts(2 * cal.k + 1, drive', cal, v)
<1>1. Request.put = (cal.k \notin TmReads)  BY TmReadsAre
<1>2. CASE cal.k \in TmReads
  <2>1. v = Value(Request.obj) /\ drive' = drive  BY <1>1, <1>2
  <2>2. TmFacts(2 * cal.k + 1, drive, cal, v)  BY <1>2, <2>1, TmAnswered
  <2> QED  BY <2>1, <2>2
<1>3. CASE cal.k \notin TmReads
  <2>1. drive' = Written(Request.obj, Request.val)  BY <1>1, <1>3
  <2>2. CASE cal.k \in {1, 3, 7, 9, 13, 16, 23, 28, 35, 40, 42, 43, 50, 51, 54, 56, 58}
    BY <2>1, <2>2, TmObjectWritten
  <2>3. CASE cal.k \in {5, 10, 18, 25, 30, 37, 46, 48, 52, 60}  BY <2>1, <2>3, TmVoltageWritten
  <2>4. CASE cal.k \in {19, 26, 31, 38, 47, 61}  BY <2>1, <2>4, TmSetPointWritten
  <2> QED  BY <1>3, <2>2, <2>3, <2>4 DEF TmReads
<1> QED  BY <1>2, <1>3

\* The same of the Faulhaber.
LEMMA FhServes ==
    ASSUME motorId = "fh", cal.k \in 1 .. 24, NEW a, FhFacts(2 * cal.k, drive, cal, a), NEW v,
           IF Request.put THEN drive' = Written(Request.obj, Request.val)
                          ELSE v = Value(Request.obj) /\ drive' = drive
    PROVE  FhFacts(2 * cal.k + 1, drive', cal, v)
<1>1. Request.put = (cal.k \notin FhReads)  BY FhReadsAre
<1>2. CASE cal.k \in FhReads
  <2>1. v = Value(Request.obj) /\ drive' = drive  BY <1>1, <1>2
  <2>2. FhFacts(2 * cal.k + 1, drive, cal, v)  BY <1>2, <2>1, FhAnswered
  <2> QED  BY <2>1, <2>2
<1>3. CASE cal.k \notin FhReads
  <2>1. drive' = Written(Request.obj, Request.val)  BY <1>1, <1>3
  <2>2. CASE cal.k \in {9, 11, 13, 18, 23}  BY <2>1, <2>2, FhObjectWritten
  <2>3. CASE cal.k \in {1, 3, 5, 7, 15, 20}  BY <2>1, <2>3, FhVoltageWritten
  <2>4. CASE cal.k \in {16, 21}  BY <2>1, <2>4, FhSetPointWritten
  <2> QED  BY <1>3, <2>2, <2>3, <2>4 DEF FhReads
<1> QED  BY <1>2, <1>3

\* A drive that starts has the fields of one.
LEMMA DrivesStart ==
    ASSUME NEW pos, NEW l
    PROVE  /\ DriveShape(Telemecanique(pos, l)) /\ DriveShape(Faulhaber(pos))
           /\ Telemecanique(pos, l).state \in States /\ Telemecanique(pos, l).becomes \in States
           /\ Telemecanique(pos, l).zero = 0 /\ Telemecanique(pos, l).load = 0
           /\ Telemecanique(pos, l).pos = pos /\ Telemecanique(pos, l).goal = pos
           /\ Faulhaber(pos).state \in States /\ Faulhaber(pos).becomes \in States
           /\ Faulhaber(pos).limitState = 0 /\ Faulhaber(pos).zero = 0
<1> DEFINE t(m) == Telemecanique(pos, m)
           f == Faulhaber(pos)
<1>1. ASSUME NEW m
      PROVE  /\ DriveShape(t(m)) /\ t(m).state = "enabled" /\ t(m).becomes = "enabled"
             /\ t(m).zero = 0 /\ t(m).load = 0 /\ t(m).pos = pos /\ t(m).goal = pos
             /\ t(m).limitState = m
  BY DEF Telemecanique, DriveShape, DriveFields
<1> DEFINE u == t(0)
           u1 == [u EXCEPT !["word"] = 0]
           u2 == [u1 EXCEPT !["state"] = "disabled"]
           u3 == [u2 EXCEPT !["becomes"] = "disabled"]
<1>2. f = u3  BY DEF Faulhaber
<1>3. /\ DriveShape(u) /\ u.zero = 0 /\ u.limitState = 0  BY <1>1
<1> HIDE DEF t, u
<1>4. DriveShape(u1) /\ DifferIn(u1, u, {"word"})  BY <1>3, FieldChanged DEF DriveFields
<1> HIDE DEF u1
<1>5. DriveShape(u2) /\ u2.state = "disabled" /\ DifferIn(u2, u1, {"state"})
  BY <1>4, FieldChanged DEF DriveFields
<1> HIDE DEF u2
<1>6. DriveShape(u3) /\ u3.becomes = "disabled" /\ DifferIn(u3, u2, {"becomes"})
  BY <1>5, FieldChanged DEF DriveFields
<1> HIDE DEF u3, f
<1>7. /\ DriveShape(f) /\ f.state = "disabled" /\ f.becomes = "disabled"
      /\ f.zero = 0 /\ f.limitState = 0
  BY <1>2, <1>3, <1>4, <1>5, <1>6 DEF DifferIn
<1>8. "enabled" \in States /\ "disabled" \in States  BY DEF States
<1> QED  BY <1>1, <1>7, <1>8 DEF t, f

\* An answer is waited for within the script.
LEMMA InScript ==
    ASSUME CalInv, cal.sent
    PROVE  /\ motorId = "tm" => cal.k \in 1 .. 61
           /\ motorId = "fh" => cal.k \in 1 .. 24
<1>1. cal.k \in Nat \ {0} /\ cal.k <= Len(Script(motorId))  BY DEF CalInv
<1>2. CASE motorId = "tm"
  <2>1. Len(Script(motorId)) = 61  BY <1>2, TmScript
  <2>2. cal.k \in 1 .. 61  BY <1>1, <2>1
  <2> QED  BY <1>2, <2>2
<1>3. CASE motorId = "fh"
  <2>1. Len(Script(motorId)) = 24  BY <1>3, FhScript
  <2>2. cal.k \in 1 .. 24  BY <1>1, <2>1
  <2> QED  BY <1>3, <2>2
<1> QED  BY <1>2, <1>3

\* While every answer is to the request waited for, what is known of the drive holds
\* between any two steps.
LEMMA CalibrationKeeps ==
    ASSUME CalInv, CalInv', CalibrationInv, CalNext PROVE CalibrationInv'
<1> SUFFICES ASSUME ~late' PROVE CalibrationInv'  BY DEF CalibrationInv
<1>1. ~late \/ Join  BY DEF CalNext, SendRequest, Resend, Take, Motor, Serve, StateChanges,
                             ModeChanges, Arrive, Changes, Lose
<1> DEFINE Facts == /\ motorId = "tm" => TmFacts(Place, drive, cal, Answer)
                    /\ motorId = "fh" => FhFacts(Place, drive, cal, Answer)
<1>2. ~late => Alone /\ Facts  BY DEF CalibrationInv
<1>3. Alone' /\ Facts' => CalibrationInv'  BY DEF CalibrationInv
<1>4. /\ cal.k \in Nat \ {0} /\ motorId \in {"tm", "fh", "none"}
      /\ IsSequence(requests) /\ IsSequence(answers) /\ Len(answers) \in Nat
      /\ cal.sent /\ motorId = "tm" => cal.k \in 1 .. 61
      /\ cal.sent /\ motorId = "fh" => cal.k \in 1 .. 24
  <2>1. /\ cal.k \in Nat \ {0} /\ motorId \in {"tm", "fh", "none"}
        /\ IsSequence(requests) /\ IsSequence(answers)
    BY DEF CalInv
  <2>2. Len(answers) \in Nat  BY <2>1, AppendIs
  <2> QED  BY <2>1, <2>2, InScript
<1>5. CASE SendRequest
  <2>1. /\ ~cal.sent /\ requests' = Append(requests, Request) /\ cal' = [cal EXCEPT !.sent = TRUE]
        /\ UNCHANGED <<motorId, drive, answers, late>>
    BY <1>5 DEF SendRequest
  <2>2. Alone /\ Facts  BY <1>2, <2>1
  <2>3. requests = <<>> /\ answers = <<>>  BY <2>1, <2>2 DEF Alone
  <2>4. /\ cal'.k = cal.k /\ cal'.min = cal.min /\ cal'.max = cal.max /\ cal'.word = cal.word
        /\ cal'.sent
    <3>1. DOMAIN cal = CalFields /\ "sent" \in CalFields  BY DEF CalInv, CalFields
    <3> QED  BY <2>1, <3>1
  <2>5. Request' = Request  BY <2>1, <2>4, RequestStays
  <2>6. Alone'  BY <2>1, <2>3, <2>4, <2>5, OneIs DEF Alone
  <2>7. Place' = Place /\ Answer' = Answer  BY <2>1, <2>4 DEF Place, Answer
  <2>8. Facts'  BY <2>1, <2>2, <2>4, <2>7, FactsOf
  <2> QED  BY <1>3, <2>6, <2>8
<1>6. CASE Resend
  <2>1. /\ cal.sent /\ answers = <<>> /\ requests' = Append(requests, Request)
        /\ late' = (late \/ requests # <<>>) /\ UNCHANGED <<motorId, cal, drive, answers>>
    BY <1>6 DEF Resend
  <2>2. requests = <<>> /\ Alone /\ Facts  BY <1>2, <2>1
  <2>3. Request' = Request  BY <2>1, RequestStays
  <2>4. Alone'  BY <2>1, <2>2, <2>3, OneIs DEF Alone
  <2>5. Place' = Place /\ Answer' = Answer  BY <2>1 DEF Place, Answer
  <2>6. Facts'  BY <2>1, <2>2, <2>5
  <2> QED  BY <1>3, <2>4, <2>6
<1>7. CASE Take
  <2> DEFINE a == Head(answers)
  <2>1. /\ cal.sent /\ answers # <<>> /\ answers' = Tail(answers)
        /\ TakeWait(a) \/ TakeResult(a) \/ TakeUnload(a) \/ TakePush(a)
        /\ UNCHANGED <<motorId, drive, requests, late>>
    BY <1>7 DEF Take
  <2>2. Alone /\ Facts  BY <1>2, <2>1
  <2>3. Len(answers) = 1 /\ requests = <<>>  BY <2>1, <2>2 DEF Alone
  <2>4. answers' = <<>>  BY <1>4, <2>1, <2>3, OnlyOne
  <2>5. Alone'  BY <2>1, <2>3, <2>4 DEF Alone
  <2>6. Place = 2 * cal.k + 1 /\ Answer = a  BY <2>3 DEF Place, Answer
  <2> HIDE DEF a
  <2>7. Place' = 2 * cal'.k
    <3>1. cal'.k \in Nat \ {0}  BY DEF CalInv
    <3> QED  BY <2>4, <3>1, OneIs DEF Place
  <2>8. ASSUME motorId = "tm" PROVE TmFacts(Place', drive', cal', Answer')
    <3>1. TmFacts(2 * cal.k + 1, drive, cal, a) /\ cal.k \in 1 .. 61
      BY <1>4, <2>1, <2>2, <2>6, <2>8
    <3>2. TmFacts(2 * cal'.k, drive, cal', Answer')  BY <2>1, <2>8, <3>1, TmTakes
    <3> QED  BY <2>1, <2>7, <3>2
  <2>9. ASSUME motorId = "fh" PROVE FhFacts(Place', drive', cal', Answer')
    <3>1. FhFacts(2 * cal.k + 1, drive, cal, a) /\ cal.k \in 1 .. 24
      BY <1>4, <2>1, <2>2, <2>6, <2>9
    <3>2. FhFacts(2 * cal'.k, drive, cal', Answer')  BY <2>1, <2>9, <3>1, FhTakes
    <3> QED  BY <2>1, <2>7, <3>2
  <2>10. Facts'  BY <2>1, <2>8, <2>9
  <2> QED  BY <1>3, <2>5, <2>10
<1>8. CASE Join
  <2>1. cal' = CalStart /\ ~cal.sent /\ motorId # "none"
    BY <1>8 DEF Join, Done, CalInv
  <2>2. CASE motorId = "tm"
    <3>1. /\ motorId' = "fh" /\ drive' = Faulhaber(90) /\ requests' = <<>>
          /\ late' = (answers' # <<>>)
      BY <1>8, <2>2 DEF Join
    <3>2. answers' = <<>>  BY <3>1
    <3>3. Alone'  BY <3>1, <3>2 DEF Alone
    <3>4. Place' = 2
      <4>1. cal'.k = 1  BY <2>1 DEF CalStart
      <4> QED  BY <3>2, <4>1, OneIs DEF Place
    <3>5. FhFacts(2, drive', cal', Answer')  BY <3>1, DrivesStart DEF FhFacts
    <3>6. Facts'  BY <3>1, <3>4, <3>5
    <3> QED  BY <1>3, <3>3, <3>6
  <2>3. CASE motorId = "fh"
    <3>1. motorId' = "none" /\ UNCHANGED <<requests, answers, late>>  BY <1>8, <2>3 DEF Join
    <3>2. requests = <<>> /\ answers = <<>>  BY <1>2, <2>1, <3>1 DEF Alone
    <3>3. Alone'  BY <3>1, <3>2 DEF Alone
    <3>4. Facts'  BY <3>1
    <3> QED  BY <1>3, <3>3, <3>4
  <2> QED  BY <1>4, <2>1, <2>2, <2>3
<1>9. CASE Serve
  <2> DEFINE r == Head(requests)
  <2>1. PICK v : /\ requests # <<>> /\ requests' = Tail(requests) /\ answers' = Append(answers, v)
                 /\ IF r.put THEN drive' = Written(r.obj, r.val)
                             ELSE v = Value(r.obj) /\ drive' = drive
                 /\ UNCHANGED <<motorId, cal, late>>
    BY <1>9 DEF Serve
  <2>2. Alone /\ Facts  BY <1>2, <2>1
  <2>3. requests = <<Request>> /\ answers = <<>> /\ cal.sent  BY <2>1, <2>2 DEF Alone
  <2>4. r = Request  BY <2>3, OneIs
  <2> HIDE DEF r
  <2>5. requests' = <<>> /\ answers' = <<v>>  BY <2>1, <2>3, OneIs
  <2>6. Alone'  BY <2>1, <2>3, <2>5, OneIs DEF Alone
  <2>7. Place = 2 * cal.k  BY <1>4, <2>3, OneIs DEF Place
  <2>8. Place' = 2 * cal.k + 1 /\ Answer' = v  BY <2>1, <2>5, OneIs DEF Place, Answer
  <2>9. ASSUME motorId = "tm" PROVE TmFacts(Place', drive', cal', Answer')
    <3>1. TmFacts(2 * cal.k, drive, cal, Answer) /\ cal.k \in 1 .. 61
      BY <1>4, <2>2, <2>3, <2>7, <2>9
    <3>2. IF Request.put THEN drive' = Written(Request.obj, Request.val)
                         ELSE v = Value(Request.obj) /\ drive' = drive
      BY <2>1, <2>4
    <3>3. TmFacts(2 * cal.k + 1, drive', cal, v)  BY <2>9, <3>1, <3>2, TmServes
    <3> QED  BY <2>1, <2>8, <3>3
  <2>10. ASSUME motorId = "fh" PROVE FhFacts(Place', drive', cal', Answer')
    <3>1. FhFacts(2 * cal.k, drive, cal, Answer) /\ cal.k \in 1 .. 24
      BY <1>4, <2>2, <2>3, <2>7, <2>10
    <3>2. IF Request.put THEN drive' = Written(Request.obj, Request.val)
                         ELSE v = Value(Request.obj) /\ drive' = drive
      BY <2>1, <2>4
    <3>3. FhFacts(2 * cal.k + 1, drive', cal, v)  BY <2>10, <3>1, <3>2, FhServes
    <3> QED  BY <2>1, <2>8, <3>3
  <2>11. Facts'  BY <2>1, <2>9, <2>10
  <2> QED  BY <1>3, <2>6, <2>11
<1>10. CASE StateChanges \/ ModeChanges \/ Arrive
  <2>1. UNCHANGED <<motorId, cal, requests, answers, late>>
    BY <1>10 DEF StateChanges, ModeChanges, Arrive, Changes
  <2>2. Alone /\ Facts  BY <1>2, <2>1
  <2>3. Request' = Request  BY <2>1, RequestStays
  <2>4. Alone'  BY <2>1, <2>2, <2>3 DEF Alone
  <2>5. Place' = Place /\ Answer' = Answer /\ Place \in Nat  BY <1>4, <2>1 DEF Place, Answer
  <2>6. Facts'  BY <1>10, <2>1, <2>2, <2>5, TmMoves, FhMoves
  <2> QED  BY <1>3, <2>4, <2>6
<1>11. CASE Lose
  <2>1. requests # <<>> /\ requests' = Tail(requests) /\ UNCHANGED <<motorId, cal, drive, answers, late>>
    BY <1>11 DEF Lose
  <2>2. Alone /\ Facts  BY <1>2, <2>1
  <2>3. requests' = <<>>  BY <2>1, <2>2, OneIs DEF Alone
  <2>4. Alone'  BY <2>1, <2>2, <2>3 DEF Alone
  <2>5. Place' = Place /\ Answer' = Answer  BY <2>1 DEF Place, Answer
  <2>6. Facts'  BY <2>1, <2>2, <2>5
  <2> QED  BY <1>3, <2>4, <2>6
<1> QED  BY <1>5, <1>6, <1>7, <1>8, <1>9, <1>10, <1>11 DEF CalNext, Motor

\* When a calibration starts, nothing is under way and the bar rests at an end.
LEMMA CalibrationStarts == ASSUME CalInit PROVE CalibrationInv
<1> SUFFICES ASSUME ~late PROVE CalibrationInv  BY DEF CalibrationInv
<1>1. motorId \in {"tm", "none"} /\ cal = CalStart /\ requests = <<>> /\ answers = <<>>
  <2>1. motorId \in {"tm", "none"} /\ cal = CalStart /\ requests = <<>>  BY DEF CalInit
  <2>2. late = (answers # <<>>)  BY DEF CalInit
  <2>3. answers = <<>>  BY <2>2
  <2> QED  BY <2>1, <2>3
<1>2. Alone  BY <1>1 DEF Alone
<1>3. Place = 2
  <2>1. cal.k = 1  BY <1>1 DEF CalStart
  <2> QED  BY <1>1, <2>1, OneIs DEF Place
<1>4. PICK pos \in {Left, Right}, l \in {0, 3} : drive = Telemecanique(pos, l)  BY DEF CalInit
<1>5. /\ DriveShape(drive) /\ drive.state \in States /\ drive.becomes \in States
      /\ drive.zero = 0 /\ drive.load = 0 /\ drive.pos = pos /\ drive.goal = pos
  BY <1>4, DrivesStart
<1>6. TmFacts(2, drive, cal, Answer)
  <2>1. TmMode(2, drive, Answer) /\ TmVoltage(2, drive, Answer)  BY DEF TmMode, TmVoltage
  <2>2. TmLimits(2, drive) /\ TmMeasured(2, drive, cal, Answer) /\ TmWord(2, drive, cal, Answer)
    BY <1>5 DEF TmLimits, TmMeasured, TmWord
  <2>3. TmWay(2, drive, Answer)  BY <1>5, CalibrationAssumption DEF TmWay
  <2> QED  BY <1>5, <2>1, <2>2, <2>3 DEF TmFacts
<1> QED  BY <1>1, <1>2, <1>3, <1>6 DEF CalibrationInv

\* Every step keeps both.
LEMMA CalibrationStepKeeps ==
    ASSUME CalInv, CalibrationInv, [CalNext]_calVars PROVE CalInv' /\ CalibrationInv'
<1>1. CalInv'  BY CalStepKeeps
<1>2. CASE UNCHANGED calVars
  <2>1. UNCHANGED <<motorId, cal, drive, requests, answers, late>>  BY <1>2 DEF calVars
  <2>2. Request' = Request  BY <2>1, RequestStays
  <2>3. Place' = Place /\ Answer' = Answer  BY <2>1 DEF Place, Answer
  <2>4. Alone' = Alone  BY <2>1, <2>2 DEF Alone
  <2>5. CalibrationInv'  BY <2>1, <2>3, <2>4 DEF CalibrationInv
  <2> QED  BY <1>1, <2>5
<1>3. CASE CalNext  BY <1>1, <1>3, CalibrationKeeps
<1> QED  BY <1>2, <1>3

\* Only two requests set a position limit.
LEMMA LimitsAreTwo ==
    ASSUME motorId = "tm", cal.k \in 1 .. 61, Request.obj \in {"minLimit", "maxLimit"}
    PROVE  cal.k \in {50, 51}
<1> DEFINE k == cal.k
           obj == Request.obj
<1>1. /\ k \in {2, 14, 41, 57} => obj = "mode"
      /\ k = 4 => obj = "rpdo2"
      /\ k \in {6, 11, 21, 33, 39, 49, 53} => obj = "status"
      /\ k \in {8, 55} => obj = "limitState"
      /\ k = 44 => obj = "homing"
      /\ k \in {12, 22, 34} => obj = "position"
      /\ k \in {15, 20, 27, 32} => obj = "load"
      /\ k \in {17, 24, 29, 36, 45, 59} => obj = "control"
  BY TmRead
<1>2. /\ k \in {1, 40, 13, 56} => obj = "mode"
      /\ k = 3 => obj = "rpdo2"
      /\ k = 9 => obj = "velocity"
      /\ k = 42 => obj = "dimension"
      /\ k = 43 => obj = "homing"
      /\ k \in {5, 48, 10, 52, 18, 25, 30, 37, 46, 60} => obj = "control"
      /\ k \in {19, 31, 26, 38, 47, 61} => obj = "control"
      /\ k \in {7, 54} => obj = "limitState"
      /\ k \in {16, 28, 23, 35, 58} => obj = "target"
  BY TmWritten
<1> HIDE DEF obj
<1>3. k \in TmReads => obj \notin {"minLimit", "maxLimit"}  BY <1>1 DEF TmReads
<1>4. k \notin TmReads \cup {50, 51} => obj \notin {"minLimit", "maxLimit"}  BY <1>2 DEF TmReads
<1> QED  BY <1>3, <1>4 DEF obj

\* Calibrated motors, for every way of a bar, every step width and buffer, and however often
\* requests are lost or repeated: when Telemecanique::Calibrate returns and every answer was
\* to the request waited for, the position limits are the ends of the way and active, and the
\* motor is in operation; when Faulhaber::Calibrate returns the figures hang down.
THEOREM CalMotorsCalibrated == CalSpec => []MotorsAreCalibrated
<1> DEFINE Inv == CalInv /\ CalibrationInv
<1>1. CalInit => Inv  BY CalStarts, CalibrationStarts
<1>2. Inv /\ [CalNext]_calVars => Inv'  BY CalibrationStepKeeps
<1>3. Inv => MotorsAreCalibrated
  <2> SUFFICES ASSUME Inv, ~late, Done PROVE BarIsMeasured /\ FiguresHang
    BY DEF MotorsAreCalibrated, BarIsMeasured, FiguresHang
  <2>0. cal.k \in Nat \ {0} /\ IsSequence(answers)  BY DEF CalInv
  <2>1. CASE motorId = "tm"
    <3>1. cal.k > 61
      <4>1. Len(Script(motorId)) = 61  BY <2>1, TmScript
      <4> QED  BY <4>1 DEF Done
    <3>2. TmFacts(Place, drive, cal, Answer)  BY <2>1 DEF CalibrationInv
    <3>3. Place \in Nat /\ Place >= 124  BY <2>0, <3>1, AppendIs DEF Place
    <3>4. /\ drive.limitState = 3 /\ drive.minLimit = 0 - MinBuffer
          /\ drive.maxLimit = Right - Left - MinBuffer /\ drive.zero = Left + MinBuffer
      BY <3>2, <3>3 DEF TmFacts, TmLimits
    <3>5. drive.state = "enabled" /\ drive.display = PointToPoint
      BY <3>2, <3>3 DEF TmFacts, TmVoltage, TmMode
    <3> QED  BY <2>1, <3>4, <3>5, CalibrationAssumption DEF BarIsMeasured, FiguresHang
  <2>2. CASE motorId = "fh"
    <3>1. cal.k > 24
      <4>1. Len(Script(motorId)) = 24  BY <2>2, FhScript
      <4> QED  BY <4>1 DEF Done
    <3>2. FhFacts(Place, drive, cal, Answer)  BY <2>2 DEF CalibrationInv
    <3>3. Place \in Nat /\ Place >= 50  BY <2>0, <3>1, AppendIs DEF Place
    <3>4. drive.pos = 0 /\ drive.display = FaulhaberMode  BY <3>2, <3>3 DEF FhFacts
    <3> QED  BY <2>2, <3>4 DEF BarIsMeasured, FiguresHang
  <2> QED  BY <2>1, <2>2 DEF BarIsMeasured, FiguresHang
<1> QED  BY <1>1, <1>2, <1>3, PTL DEF CalSpec

\* The position limits reach a motor whose voltage is off, for every way of a bar and however
\* often requests are lost or repeated, as long as every answer was to the request waited for.
THEOREM CalLimitsOnTime ==
    CalSpec =>
      [][~late /\ motorId = "tm" /\ requests # <<>> /\ requests' = Tail(requests)
           /\ Head(requests).obj \in {"minLimit", "maxLimit"} => drive.state = "ready"]_calVars
<1> DEFINE Inv == CalInv /\ CalibrationInv
           Limit == /\ ~late /\ motorId = "tm" /\ requests # <<>> /\ requests' = Tail(requests)
                    /\ Head(requests).obj \in {"minLimit", "maxLimit"}
<1>1. CalInit => Inv  BY CalStarts, CalibrationStarts
<1>2. Inv /\ [CalNext]_calVars => Inv'  BY CalibrationStepKeeps
<1>3. Inv /\ Limit => drive.state = "ready"
  <2> SUFFICES ASSUME Inv, Limit PROVE drive.state = "ready"  OBVIOUS
  <2>1. Alone /\ TmFacts(Place, drive, cal, Answer)  BY DEF CalibrationInv
  <2>2. requests = <<Request>> /\ answers = <<>> /\ cal.sent  BY <2>1 DEF Alone
  <2>3. Request.obj \in {"minLimit", "maxLimit"}  BY <2>2, OneIs
  <2>4. cal.k \in 1 .. 61
    <3>1. motorId = "tm" /\ CalInv  OBVIOUS
    <3> QED  BY <2>2, <3>1, InScript
  <2>5. cal.k \in {50, 51}  BY <2>3, <2>4, LimitsAreTwo
  <2>6. Place \in 100 .. 104  BY <2>2, <2>5, OneIs DEF Place
  <2> QED  BY <2>1, <2>6 DEF TmFacts, TmVoltage
<1> QED  BY <1>1, <1>2, <1>3, PTL DEF CalSpec

-----------------------------------------------------------------------------
(* The parts together. *)

\* In MCDrivers, which runs one of the parts in a behaviour, each behaves as it does alone.
THEOREM DriversRunParts ==
    DriversSpec => SpecNoWrap /\ VideoSpec /\ MockSpec /\ SettingsSpec /\ CalSpec
<1>1. DriversInit => Init /\ VideoInit /\ MockInit /\ SettingsInit /\ CalInit  BY DEF DriversInit
<1>2. [DriversNext]_driversVars => [NextNoWrap]_vars /\ [VideoNext]_videoVars
  BY Zenon DEF DriversNext, driversVars, Crashed, NoMoreStarts, Calibrated
<1>3. [DriversNext]_driversVars => [MockNext]_mockVars /\ [SettingsNext]_settingsVars /\ [CalNext]_calVars
  BY Zenon DEF DriversNext, driversVars, Crashed, NoMoreStarts, Calibrated
<1> QED
  BY <1>1, <1>2, <1>3, PTL DEF DriversSpec, SpecNoWrap, VideoSpec, MockSpec, SettingsSpec, CalSpec

\* The types and ranges of the drivers.
THEOREM DriversTypeCorrect == DriversSpec => []DriversTypeOK
<1>1. SpecNoWrap => Spec
  <2>1. [NextNoWrap]_vars => [Next]_vars  BY DEF NextNoWrap
  <2> QED  BY <2>1, PTL DEF SpecNoWrap, Spec
<1>2. TypeOK /\ VideoTypeOK /\ CalTypeOK /\ SettingsTypeOK => DriversTypeOK  BY DEF DriversTypeOK
<1> QED
  BY <1>1, <1>2, DriversRunParts, CanTxTypeCorrect, VideoTypeCorrect, CalTypeCorrect,
     SettingsTypeCorrect, PTL
=============================================================================
