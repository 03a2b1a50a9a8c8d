------------------------------ MODULE MCDrivers ------------------------------
(***************************************************************************)
(* The CAN driver of the safety controller and, on the player's computer,  *)
(* the camera, the mock camera, the settings and the calibration of a bar. *)
(* They share no variable: part names the one that runs in a behaviour,    *)
(* and the others stay as they were initialised.                           *)
(***************************************************************************)
EXTENDS MCCanTx, MCVideoSource, MockCamera, Settings, Calibration

VARIABLE part

driversVars == <<part, vars, videoVars, mockVars, settingsVars, calVars>>

\* An exception out of the camera's native callback has ended the program.
Crashed == pc[Server] = "crashed" /\ UNCHANGED driversVars

\* The bounded number of starts is used up.
NoMoreStarts == tokenSource = MaxStarts /\ caller = "idle" /\ UNCHANGED driversVars

\* start_calibration has returned.
Calibrated == motorId = "none" /\ UNCHANGED driversVars

DriversInit ==
    /\ part \in {"can", "video", "mock", "settings", "calibration"}
    /\ Init /\ VideoInit /\ MockInit /\ SettingsInit /\ CalInit
    /\ part # "settings" => camera.state = "Ready"
    /\ IF part = "calibration" THEN motorId = "tm"
       ELSE motorId = "none" /\ answers = <<>> /\ drive = Telemecanique(Left, 0)

DriversNext ==
    /\ UNCHANGED part
    /\ \/ /\ part = "can" /\ NextNoWrap
          /\ UNCHANGED <<videoVars, mockVars, settingsVars, calVars>>
       \/ /\ part = "video" /\ (VideoNext \/ Crashed)
          /\ UNCHANGED <<vars, mockVars, settingsVars, calVars>>
       \/ /\ part = "mock" /\ (MockNext \/ NoMoreStarts)
          /\ UNCHANGED <<vars, videoVars, settingsVars, calVars>>
       \/ /\ part = "settings" /\ SettingsNext
          /\ UNCHANGED <<vars, videoVars, mockVars, calVars>>
       \/ /\ part = "calibration" /\ (CalNext \/ Calibrated)
          /\ UNCHANGED <<vars, videoVars, mockVars, settingsVars>>

\* MockFairness and CalFairness ask for nothing where no task and no calibration has
\* been started; of the CAN driver and the camera nothing is assumed.
DriversSpec ==
    DriversInit /\ [][DriversNext]_driversVars /\ MockFairness /\ CalFairness

\* The types and ranges of the drivers.
DriversTypeOK ==
    TypeOK /\ VideoTypeOK /\ CalTypeOK /\ SettingsTypeOK
=============================================================================
