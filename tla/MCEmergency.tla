----------------------------- MODULE MCEmergency -----------------------------
(***************************************************************************)
(* A ring of two messages instead of ten; from the interrupt, an error of  *)
(* the same status byte as CAN bus off.                                    *)
(***************************************************************************)
EXTENDS Emergency

MCIsrErrors == {"TPDO_OUTSIDE_WINDOW"}
MCCodes == {{}, {"BOF"}}
=============================================================================
