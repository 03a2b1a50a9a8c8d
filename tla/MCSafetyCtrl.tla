---------------------------- MODULE MCSafetyCtrl ----------------------------
(***************************************************************************)
(* Instances of SafetyCtrl: two or three motors on a bus, and the three    *)
(* mailboxes of the peripheral.                                            *)
(***************************************************************************)
EXTENDS SafetyCtrl

MCNodes == 1 .. 2
MCThreeNodes == 1 .. 3
MCWords == {"DisableVoltage", "Shutdown", "SwitchOn", "EnableOperation"}
MCMailboxes == 1 .. 3
MCNoFrame == [kind |-> "none", node |-> 0, what |-> "none"]
=============================================================================
