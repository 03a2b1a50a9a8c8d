------------------------------ MODULE Interlock ------------------------------
(***************************************************************************)
(* What the light curtain promises, without buses, buffers and contexts:   *)
(* the motors are stopped one by one when the curtain is engaged, nothing  *)
(* is enabled while they are being stopped or while they are stopped, and  *)
(* they are started again only after the curtain has become free.          *)
(***************************************************************************)
CONSTANT Motors

VARIABLES engaged, \* something is in the light curtain
          phase,   \* what the controller is doing
          running  \* the motors whose drives are enabled

vars == <<engaged, phase, running>>

Phases == {"starting", "running", "stopping", "stopped"}

Init == engaged = FALSE /\ phase = "starting" /\ running = {}

CurtainChanges == engaged' = ~engaged /\ UNCHANGED <<phase, running>>

\* The curtain is looked at only here.
BeginStop ==
    /\ phase = "running" /\ engaged
    /\ phase' = "stopping"
    /\ UNCHANGED <<engaged, running>>

BeginStart ==
    /\ phase = "stopped" /\ ~engaged
    /\ phase' = "starting"
    /\ UNCHANGED <<engaged, running>>

Disable(m) ==
    /\ phase = "stopping" /\ m \in running
    /\ running' = running \ {m}
    /\ UNCHANGED <<engaged, phase>>

Enable(m) ==
    /\ phase = "starting" /\ m \notin running
    /\ running' = running \cup {m}
    /\ UNCHANGED <<engaged, phase>>

EndStop ==
    /\ phase = "stopping" /\ running = {}
    /\ phase' = "stopped"
    /\ UNCHANGED <<engaged, running>>

EndStart ==
    /\ phase = "starting" /\ running = Motors
    /\ phase' = "running"
    /\ UNCHANGED <<engaged, running>>

Controller == \/ BeginStop \/ BeginStart \/ EndStop \/ EndStart
              \/ \E m \in Motors : Disable(m) \/ Enable(m)

Next == CurtainChanges \/ Controller

Spec == Init /\ [][Next]_vars /\ WF_vars(Controller)
=============================================================================
