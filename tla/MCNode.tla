------------------------------- MODULE MCNode --------------------------------
(***************************************************************************)
(* The safety controller's program from its start on, and three parts of   *)
(* its CANopen stack that share no variable with it or with each other.    *)
(* part names the one that runs in a behaviour; the others stay as they    *)
(* were initialised.                                                       *)
(***************************************************************************)
EXTENDS MCSafetyCtrl, NmtSlave, HbConsumer, Tpdo

VARIABLE part

\* What 0x1029 says, per kind of error.
Behavior(severe, communication, passive, generic) ==
    [i \in BehaviorIndices |-> CASE i = "severe" -> severe
                                 [] i = "communication" -> communication
                                 [] i = "passive" -> passive
                                 [] OTHER -> generic]
MCBehaviors == {Behavior(0, 0, 1, 0), Behavior(2, 1, 0, 2), Behavior(0, 1, 1, 1)}

NodeInit ==
    /\ part \in {"program", "nmt", "heartbeat", "tpdo"}
    /\ Init /\ NmtInit /\ HbInit /\ PdoInit
    /\ part # "tpdo" => com.start = 0 /\ value = 1

NodeNext ==
    /\ UNCHANGED part
    /\ \/ part = "program" /\ Next /\ UNCHANGED <<nmtVars, hbVars, pdoVars>>
       \/ part = "nmt" /\ NmtNext /\ UNCHANGED <<vars, hbVars, pdoVars>>
       \/ part = "heartbeat" /\ HbNext /\ UNCHANGED <<vars, nmtVars, pdoVars>>
       \/ part = "tpdo" /\ PdoNext /\ UNCHANGED <<vars, nmtVars, hbVars>>

NodeSpec == NodeInit /\ [][NodeNext]_<<part, vars, nmtVars, hbVars, pdoVars>>

\* The types and ranges of the node's parts; the program's are checked by SafetyCtrl_clean.
NodeTypeOK ==
    NmtTypeOK /\ HbTypeOK /\ PdoTypeOK
=============================================================================
