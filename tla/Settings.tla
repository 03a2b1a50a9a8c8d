------------------------------ MODULE Settings -------------------------------
(***************************************************************************)
(* Settings that the web application changes: SettingsService's            *)
(* UpdateParameter and Writable's Update, run by the threads of the        *)
(* requests without any lock, and the Genie Nano camera that listens to    *)
(* its section.  A section's object lives in memory, where Update changes  *)
(* it, and its text in kickermatsettings.json, which Update reads and      *)
(* writes as a whole.  Nothing reads the file when the program starts.     *)
(* The path under which Update looks a section up never is a key of the    *)
(* file's top level, so that it always takes the object in memory.         *)
(***************************************************************************)
EXTENDS Integers

CONSTANT Requests \* threads that serve a request

VARIABLES request, \* where a request is, what it sets, and what it has read
          memory,  \* the values of the options in memory
          file,    \* whether the file has been made, and what it says
          camera,  \* the camera's state, and the brightness it has been given
          alone,   \* history: requests that no other has overlapped so far
          settled  \* history: sections whose last update was not overlapped and succeeded

settingsVars == <<request, memory, file, camera, alone, settled>>

Params == {"Brightness", "TestNumber", "TestNumber2"}
Section(p) == IF p = "Brightness" THEN "GenieNano" ELSE "ClassicPlayer"
Sections == {Section(p) : p \in Params}

\* TestNumber's setter throws for a number outside its range.
OutOfRange == -1
\* TestNumber's other values are as TestNumber2's.
Offered(p) ==
    CASE p = "Brightness" -> {0, 1} [] p = "TestNumber" -> {OutOfRange} [] OTHER -> {1}
Default == [p \in Params |-> 0]

\* What the file says of the parameters of a section that it does not have.
Missing == -2
EmptyFile == [p \in Params |-> Missing]

Idle == [at |-> "idle", param |-> "", value |-> 0, text |-> EmptyFile, brightness |-> 0]

\* Mutant of Merged: the file is the section.
MergedAlone(text, s) == [p \in Params |-> IF Section(p) = s THEN memory[p] ELSE Missing]

\* The section as it is in memory takes its place among the others.
Merged(text, s) == [p \in Params |-> IF Section(p) = s THEN memory[p] ELSE text[p]]

SettingsInit ==
    /\ request = [r \in Requests |-> Idle]
    /\ memory = Default
    /\ file = [made |-> FALSE, text |-> EmptyFile]
    /\ camera \in [state : {"Ready", "NotConnected"}, brightness : {Default["Brightness"]}]
    /\ alone = {} /\ settled = {}

-----------------------------------------------------------------------------
(* One request. *)

Busy == {r \in Requests : request[r].at # "idle"}
At(r, at) == request[r].at = at
SectionOf(r) == Section(request[r].param)
Goes(r, at) == request' = [request EXCEPT ![r].at = at]

Settles(r, ok) ==
    /\ settled' = IF ok /\ r \in alone THEN settled \cup {SectionOf(r)}
                  ELSE settled \ {SectionOf(r)}
    /\ request' = [request EXCEPT ![r] = Idle]
    /\ alone' = alone \ {r}

UpdateParameter(r) ==
    /\ At(r, "idle")
    /\ \E p \in Params : \E v \in Offered(p) :
         /\ request' = [request EXCEPT ![r] = [Idle EXCEPT !.at = "exists", !.param = p, !.value = v]]
         /\ settled' = settled \ IF v = OutOfRange THEN {} ELSE {Section(p)}
    /\ alone' = IF Busy = {} THEN {r} ELSE {}
    /\ UNCHANGED <<memory, file, camera>>

FileExists(r) ==
    /\ At(r, "exists")
    /\ Goes(r, IF file.made THEN "read" ELSE "create")
    /\ UNCHANGED <<memory, file, camera, alone, settled>>

\* File.CreateText empties a file that another request has made meanwhile.
CreateText(r) ==
    /\ At(r, "create")
    /\ file' = [made |-> TRUE, text |-> EmptyFile]
    /\ Goes(r, "read")
    /\ UNCHANGED <<memory, camera, alone, settled>>

ReadAllText(r) ==
    /\ At(r, "read")
    /\ request' = [request EXCEPT ![r].at = "apply", ![r].text = file.text]
    /\ UNCHANGED <<memory, file, camera, alone, settled>>

ApplyChanges(r) ==
    /\ At(r, "apply") /\ request[r].value # OutOfRange
    /\ memory' = [memory EXCEPT ![request[r].param] = request[r].value]
    /\ request' = [request EXCEPT ![r].at = "serialize", ![r].value = 0]
    /\ UNCHANGED <<file, camera, alone, settled>>

\* The setter throws before anything has changed.
SetterThrows(r) ==
    /\ At(r, "apply") /\ request[r].value = OutOfRange
    /\ request' = [request EXCEPT ![r] = Idle]
    /\ alone' = alone \ {r}
    /\ UNCHANGED <<memory, file, camera, settled>>

Serialize(r) ==
    /\ At(r, "serialize")
    /\ request' = [request EXCEPT ![r].at = "write",
                                  ![r].text = Merged(request[r].text, SectionOf(r))]
    /\ UNCHANGED <<memory, file, camera, alone, settled>>

WriteAllText(r) ==
    /\ At(r, "write")
    /\ file' = [file EXCEPT !.text = request[r].text]
    /\ request' = [request EXCEPT ![r].at = "notify", ![r].text = EmptyFile]
    /\ UNCHANGED <<memory, camera, alone, settled>>

\* Two requests that open the file at once: the later one gets an IOException.
Conflict(r) ==
    /\ request[r].at \in {"create", "read", "write"}
    /\ \E other \in Requests \ {r} : request[other].at \in {"create", "read", "write"}
    /\ Settles(r, FALSE)
    /\ UNCHANGED <<memory, file, camera>>

\* Nobody listens to the player's section, and an absent camera does not.
NobodyApplies(r) ==
    /\ At(r, "notify")
    /\ SectionOf(r) # "GenieNano" \/ camera.state # "Ready"
    /\ Settles(r, TRUE)
    /\ UNCHANGED <<memory, file, camera>>

ApplyOptions(r) ==
    /\ At(r, "notify")
    /\ SectionOf(r) = "GenieNano" /\ camera.state = "Ready"
    /\ request' = [request EXCEPT ![r].at = "set", ![r].brightness = memory["Brightness"]]
    /\ UNCHANGED <<memory, file, camera, alone, settled>>

SetFeatureValue(r) ==
    /\ At(r, "set")
    /\ camera' = [camera EXCEPT !.brightness = request[r].brightness]
    /\ Settles(r, TRUE)
    /\ UNCHANGED <<memory, file>>

\* The camera refuses: the request fails although memory and file have changed.
FeatureRefused(r) ==
    /\ At(r, "set")
    /\ Settles(r, FALSE)
    /\ UNCHANGED <<memory, file, camera>>

-----------------------------------------------------------------------------
\* The camera's cable is pulled; its state never says Ready again.
Unplugged ==
    /\ camera.state = "Ready"
    /\ camera' = [camera EXCEPT !.state = "NotConnected"]
    /\ UNCHANGED <<request, memory, file, alone, settled>>

\* The program is started again, with or without the camera.
Restart ==
    /\ request' = [r \in Requests |-> Idle]
    /\ memory' = Default
    /\ camera' \in [state : {"Ready", "NotConnected"}, brightness : {Default["Brightness"]}]
    /\ alone' = {} /\ settled' = {}
    /\ UNCHANGED file

Handle(r) ==
    \/ UpdateParameter(r) \/ FileExists(r) \/ CreateText(r) \/ ReadAllText(r)
    \/ ApplyChanges(r) \/ SetterThrows(r) \/ Serialize(r) \/ WriteAllText(r) \/ Conflict(r)
    \/ NobodyApplies(r) \/ ApplyOptions(r) \/ SetFeatureValue(r) \/ FeatureRefused(r)

SettingsNext == (\E r \in Requests : Handle(r)) \/ Unplugged \/ Restart

SettingsSpec == SettingsInit /\ [][SettingsNext]_settingsVars

-----------------------------------------------------------------------------
\* Options are numbers, a section of the file is whole, and only a request that
\* runs has had no other beside it.
SettingsTypeOK ==
    /\ memory \in [Params -> {0, 1}]
    /\ file.text \in [Params -> {Missing, 0, 1}] /\ (file.text # EmptyFile => file.made)
    /\ file.text["TestNumber"] = Missing <=> file.text["TestNumber2"] = Missing
    /\ camera.state \in {"Ready", "NotConnected"} /\ camera.brightness \in {0, 1}
    /\ alone \subseteq Busy

\* Overlapping updates may lose each other's values in the file, but only until
\* the next: whenever nobody changes anything, the file has every section as the
\* program has it whose last update succeeded and ran alone.
StoredIsCurrent ==
    Busy = {} => \A p \in Params : Section(p) \in settled => file.text[p] = memory[p]

\* And the camera, as long as it has not been away, has its brightness.
CameraFollows ==
    Busy = {} /\ camera.state = "Ready" /\ "GenieNano" \in settled =>
        camera.brightness = memory["Brightness"]

\* A setting whose request has succeeded, with no other at the same time, is the
\* one in memory, in the file and in the camera.
SettingsTakeEffect == StoredIsCurrent /\ CameraFollows
=============================================================================
