------------------------------- MODULE TxQueue -------------------------------
(***************************************************************************)
(* What CO_driver.h promises of transmission: messages that cannot be      *)
(* handed to the CAN module wait, none overtakes a waiting one, and those  *)
(* that wait are handed over in the order of their index.                  *)
(***************************************************************************)
EXTENDS Integers

CONSTANTS Buffers,     \* the indices of txArray
          Mailboxes,   \* the CAN module's transmit mailboxes
          NoFrame      \* content of a free mailbox

VARIABLES waiting,     \* indices of the messages that wait
          box          \* what each mailbox holds

queueVars == <<waiting, box>>

Init == waiting = {} /\ box = [m \in Mailboxes |-> NoFrame]

Load(b) == \E m \in Mailboxes :
    /\ box[m] = NoFrame
    /\ box' = [box EXCEPT ![m] = b]

\* Straight to the CAN module, only when nothing waits.
SubmitAtOnce(b) == waiting = {} /\ Load(b) /\ UNCHANGED waiting

SubmitAndWait(b) == waiting' = waiting \cup {b} /\ UNCHANGED box

\* The lowest waiting index is handed over.
HandOver(b) ==
    /\ b \in waiting
    /\ \A c \in waiting : b <= c
    /\ Load(b)
    /\ waiting' = waiting \ {b}

\* The owner withdraws its message, or the sync window closes.
Withdraw(S) == waiting' = waiting \ S /\ UNCHANGED box

Transmit(m) ==
    /\ box[m] # NoFrame
    /\ box' = [box EXCEPT ![m] = NoFrame]
    /\ UNCHANGED waiting

Next ==
    \/ \E b \in Buffers : SubmitAtOnce(b) \/ SubmitAndWait(b) \/ HandOver(b)
    \/ \E S \in SUBSET Buffers : Withdraw(S)
    \/ \E m \in Mailboxes : Transmit(m)

Spec == Init /\ [][Next]_queueVars
=============================================================================
