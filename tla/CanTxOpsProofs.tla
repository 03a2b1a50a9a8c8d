--------------------------- MODULE CanTxOpsProofs ---------------------------
(***************************************************************************)
(* What the operators of the CAN driver return, for every type F of frames *)
(* and every value of the driver's constants.                              *)
(***************************************************************************)
EXTENDS CanTxOps, TLAPS

\* A record assembled from typed parts is a record of the driver.
LEMMA TxShape ==
    ASSUME NEW F, NEW t \in TxRecord(F)
    PROVE  /\ t = [full |-> t.full, count |-> t.count, inhibit |-> t.inhibit,
                   first |-> t.first, box |-> t.box]
           /\ t.full \in SUBSET TxBuffers
           /\ t.count \in 0 .. CountRange - 1
           /\ t.inhibit \in BOOLEAN
           /\ t.first \in BOOLEAN
           /\ t.box \in [Mailboxes -> F \cup {NoFrame}]
  BY DEF TxRecord

\* The synchronous flag of a buffer is a Boolean.
LEMMA SyncFlagType == ASSUME NEW b PROVE syncFlag(b) \in BOOLEAN
  BY DEF syncFlag

\* What HAL_CAN_AddTxMessage does when a mailbox is free: one free mailbox
\* receives the frame and nothing else changes.
LEMMA AddTxMessageSpec ==
    ASSUME NEW F, NEW t \in TxRecord(F), NEW f \in F, FreeBoxes(t) # {}
    PROVE  /\ AddTxMessage(t, f) \in TxRecord(F)
           /\ \E k \in Mailboxes :
                 /\ t.box[k] = NoFrame
                 /\ AddTxMessage(t, f) = [t EXCEPT !.box = [t.box EXCEPT ![k] = f]]
<1> DEFINE k == CHOOSE m \in FreeBoxes(t) : TRUE
<1>1. k \in FreeBoxes(t)
  OBVIOUS
<1>2. k \in Mailboxes /\ t.box[k] = NoFrame
  BY <1>1 DEF FreeBoxes
<1>3. AddTxMessage(t, f) = [t EXCEPT !.box = [t.box EXCEPT ![k] = f]]
  BY DEF AddTxMessage
<1>4. [t.box EXCEPT ![k] = f] \in [Mailboxes -> F \cup {NoFrame}]
  BY TxShape
<1>5. AddTxMessage(t, f) \in TxRecord(F)
  BY <1>3, <1>4 DEF TxRecord
<1>6. QED
  BY <1>2, <1>3, <1>5

\* CO_CANsend keeps the driver's record well-typed, and does one of two
\* things: it loads a free mailbox while the counter is zero, or it marks its
\* buffer full and leaves the mailboxes alone.
LEMMA CANsendSpec ==
    ASSUME NEW F, NEW t \in TxRecord(F), NEW b \in TxBuffers, NEW f \in F
    PROVE  LET s == CANsend(t, b, f) IN
           /\ s \in TxRecord(F)
           /\ SendsAtOnce(t) =>
                 /\ s.full = t.full
                 /\ s.count = t.count
                 /\ \E k \in Mailboxes :
                       /\ t.box[k] = NoFrame
                       /\ s.box = [t.box EXCEPT ![k] = f]
           /\ ~SendsAtOnce(t) =>
                 /\ s.full = t.full \cup {b}
                 /\ s.count = (t.count + 1) % CountRange
                 /\ s.box = t.box
<1> DEFINE u == [t EXCEPT !.inhibit = syncFlag(b)]
           w == [t EXCEPT !.full = @ \cup {b}, !.count = (@ + 1) % CountRange]
<1>1. u \in TxRecord(F) /\ u.full = t.full /\ u.count = t.count /\ u.box = t.box
  BY SyncFlagType DEF TxRecord
<1>2. ASSUME SendsAtOnce(t)
      PROVE  /\ CANsend(t, b, f) \in TxRecord(F)
             /\ CANsend(t, b, f).full = t.full
             /\ CANsend(t, b, f).count = t.count
             /\ \E k \in Mailboxes : /\ t.box[k] = NoFrame
                                     /\ CANsend(t, b, f).box = [t.box EXCEPT ![k] = f]
  <2>1. CANsend(t, b, f) = AddTxMessage(u, f)
    BY <1>2 DEF CANsend
  <2>2. FreeBoxes(u) # {}
    BY <1>1, <1>2 DEF SendsAtOnce, FreeBoxes
  <2> HIDE DEF u
  <2>3. PICK k \in Mailboxes : /\ u.box[k] = NoFrame
                               /\ AddTxMessage(u, f) = [u EXCEPT !.box = [u.box EXCEPT ![k] = f]]
    BY <1>1, <2>2, AddTxMessageSpec
  <2>4. AddTxMessage(u, f) \in TxRecord(F)
    BY <1>1, <2>2, AddTxMessageSpec
  <2>5. /\ AddTxMessage(u, f).full = u.full
        /\ AddTxMessage(u, f).count = u.count
        /\ AddTxMessage(u, f).box = [u.box EXCEPT ![k] = f]
    BY <2>3, <1>1 DEF TxRecord
  <2>6. QED
    BY <1>1, <2>1, <2>3, <2>4, <2>5
<1>3. ASSUME ~SendsAtOnce(t)
      PROVE  /\ CANsend(t, b, f) \in TxRecord(F)
             /\ CANsend(t, b, f).full = t.full \cup {b}
             /\ CANsend(t, b, f).count = (t.count + 1) % CountRange
             /\ CANsend(t, b, f).box = t.box
  <2>1. CANsend(t, b, f) = w
    BY <1>3 DEF CANsend
  <2>2. (t.count + 1) % CountRange \in 0 .. CountRange - 1
    BY CanTxAssumption, TxShape
  <2>3. w \in TxRecord(F) /\ w.full = t.full \cup {b} /\ w.box = t.box
        /\ w.count = (t.count + 1) % CountRange
    BY <2>2 DEF TxRecord
  <2>4. QED
    BY <2>1, <2>3
<1>4. QED
  BY <1>2, <1>3
=============================================================================
