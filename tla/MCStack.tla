------------------------------- MODULE MCStack -------------------------------
(***************************************************************************)
(* The receive path of the CAN driver and three parts of the CANopen       *)
(* stack: emergency messages, SYNC with the receive PDOs, and SDO          *)
(* transfers.  They share no variable: part names the one that runs in a   *)
(* behaviour, and the others stay as they were initialised.                *)
(***************************************************************************)
EXTENDS MCEmergency, CanRx, SyncRpdo, SdoTransfer, TLC

VARIABLE part

StackInit ==
    /\ part \in {"emergency", "receive", "sync", "sdo"}
    /\ EmInit /\ CanRxInit /\ SyncInit /\ SdoInit
    /\ part # "sdo" => Len(object) = 1

StackNext ==
    /\ UNCHANGED part
    /\ \/ part = "emergency" /\ EmNext /\ UNCHANGED <<rxVars, syncVars, sdoVars>>
       \/ part = "receive" /\ CanRxNext /\ UNCHANGED <<emVars, syncVars, sdoVars>>
       \/ part = "sync" /\ SyncNext /\ UNCHANGED <<emVars, rxVars, sdoVars>>
       \/ part = "sdo" /\ SdoNext /\ UNCHANGED <<emVars, rxVars, syncVars>>

StackSpec == StackInit /\ [][StackNext]_<<part, emVars, rxVars, syncVars, sdoVars>>

\* The numbers of PDO frames are only told apart.
FrameSymmetry == Permutations(Frames)

\* The types and ranges of the part that runs; the others are as initialised.
StackTypeOK ==
    CASE part = "emergency" -> EmTypeOK
      [] part = "receive" -> CanRxTypeOK
      [] part = "sync" -> SyncTypeOK
      [] part = "sdo" -> SdoTypeOK
=============================================================================
