--------------------------- MODULE CmdOutboxProofs ----------------------------
(***************************************************************************)
(* The safety properties of the command plane, for every number of         *)
(* commands, devices and organisations, every cap, and any bounds.         *)
(*                                                                         *)
(* The argument is layered: TypeOK is inductive by itself; each further    *)
(* invariant is inductive given those before it, and each property follows *)
(* from one of them.  First come the publications of one command, then    *)
(* what relates commands to each other and to the audit table, then the    *)
(* refinement of CmdLifecycle.                                             *)
(***************************************************************************)
EXTENDS CmdOutboxProps, FiniteSetTheorems, TLAPS

(* A row that is pending now was so at the time the pusher goes by. *)
LEMMA PendingWasListed ==
  ASSUME TypeOK, NEW c \in CmdIds, Pending(c)
  PROVE  Listed(c, since)
<1>1. now \in Nat /\ since \in 0 .. now /\ cmd[c].expires \in Nat
  BY DEF TypeOK, Cmd
<1>2. QED
  BY <1>1 DEF Pending, Listed

LEMMA EmptyQueue == <<>> \in Seq([cmd : CmdIds, result : Results])
<1> DEFINE Ack == [cmd : CmdIds, result : Results]
<1> HIDE DEF Ack
<1>1. <<>> \in Seq(Ack)
  OBVIOUS
<1>2. QED
  BY <1>1 DEF Ack

(* After `continue` the pusher holds no row, and waits if none is left. *)
LEMMA SkipRowEffect ==
  ASSUME TypeOK, NEW c \in CmdIds, SkipRow(c)
  PROVE  /\ batch' = batch \ {c} /\ batch' \in SUBSET CmdIds
         /\ pc' \in {"lookup", "wait"} /\ (batch' = {} <=> pc' = "wait")
         /\ cur' = NoCmd /\ target' = NoDevice
<1>1. pc' = IF batch' = {} THEN "wait" ELSE "lookup"
  BY DEF SkipRow, AfterRow
<1>2. QED
  BY <1>1 DEF SkipRow, TypeOK

(* Faults are counted, and what they made the code pass over is remembered. *)
LEMMA FaultEffect ==
  ASSUME TypeOK, Fault
  PROVE  faults' = faults + 1 /\ faults' \in Nat
  BY DEF TypeOK, Fault

LEMMA AuditEffect ==
  ASSUME TypeOK, NEW c \in CmdIds, NEW a \in Actions, AuditInsert(a, c)
  PROVE  /\ audit' \in SUBSET (Actions \X CmdIds)
         /\ missed' \in SUBSET (({"push"} \cup Actions) \X CmdIds)
         /\ audit \subseteq audit' /\ missed \subseteq missed'
         /\ faults' \in Nat /\ faults' >= faults
         /\ Exists(devices, cmd[c].device) =>
              <<a, c>> \in audit' \cup missed' \cup dismissed
<1>1. /\ <<a, c>> \in Actions \X CmdIds
      /\ <<a, c>> \in ({"push"} \cup Actions) \X CmdIds
  OBVIOUS
<1>2. CASE /\ Exists(devices, cmd[c].device)
           /\ audit' = audit \cup {<<a, c>>}
           /\ UNCHANGED <<missed, faults>>
  BY <1>1, <1>2 DEF TypeOK
<1>3. CASE /\ ~ Exists(devices, cmd[c].device) \/ <<a, c>> \in dismissed
           /\ UNCHANGED <<audit, missed, faults>>
  BY <1>3 DEF TypeOK
<1>4. CASE Fault /\ missed' = missed \cup {<<a, c>>} /\ UNCHANGED audit
  <2>1. faults' \in Nat /\ faults' >= faults
    BY <1>4, FaultEffect DEF TypeOK
  <2>2. QED
    BY <1>1, <1>4, <2>1 DEF TypeOK
<1>5. QED
  BY <1>2, <1>3, <1>4 DEF AuditInsert

LEMMA MissRowEffect ==
  ASSUME TypeOK, NEW c \in CmdIds, MissRow(c)
  PROVE  /\ missed' = missed \cup {<<"push", c>>}
         /\ missed' \in SUBSET (({"push"} \cup Actions) \X CmdIds)
         /\ faults' = faults + 1 /\ faults' \in Nat
         /\ SkipRow(c)
<1>1. <<"push", c>> \in ({"push"} \cup Actions) \X CmdIds
  OBVIOUS
<1>2. QED
  BY <1>1, FaultEffect DEF MissRow, TypeOK

LEMMA TypeInit == Init => TypeOK
<1> SUFFICES ASSUME Init PROVE TypeOK
  OBVIOUS
<1>1. Unsent \in Cmd
  BY DEF Unsent, Cmd
<1>2. NoRow \in Row
  BY DEF NoRow, Row
<1>3. EmptyTable \in Table
  BY DEF EmptyTable, Table
<1>4. batch = {} <=> pc \in {"drain", "wait"}
  BY DEF Init
<1>5. ackq \in Seq([cmd : CmdIds, result : Results])
  BY EmptyQueue DEF Init
<1>6. since \in 0 .. now
  BY DEF Init
<1>7. QED
  BY <1>1, <1>2, <1>3, <1>4, <1>5, <1>6 DEF Init, TypeOK

LEMMA TypeStep == TypeOK /\ [Next]_vars => TypeOK'
<1> SUFFICES ASSUME TypeOK, [Next]_vars PROVE TypeOK'
  OBVIOUS
<1> USE BoundsAssumption, NoDeviceAssumption
<1>1. ASSUME NEW c \in CmdIds, NEW org \in Orgs, NEW id \in DeviceIds,
             NEW ttl \in Ttls, NEW s \in BOOLEAN, SendCheck(c, org, id, ttl, s)
      PROVE  TypeOK'
  <2>1. devices[id] \in Device
    BY <1>1 DEF SendCheck, TypeOK, InOrg, Exists, Table
  <2>2. [device |-> id, org |-> org, reg |-> devices[id].reg,
         expires |-> now + ttl, sendable |-> s, id |-> 0] \in Cmd
    BY <2>1 DEF Cmd, Device, TypeOK
  <2>3. QED
    BY <1>1, <2>2 DEF SendCheck, TypeOK, history, pusher
<1>2. ASSUME NEW c \in CmdIds, SendEnqueue(c) PROVE TypeOK'
  <2>1. PICK n \in RowIds : cmd' = [cmd EXCEPT ![c].id = n]
    BY <1>2 DEF SendEnqueue
  <2>2. cmd' \in [CmdIds -> Cmd]
    <3>1. cmd[c] \in Cmd
      BY DEF TypeOK
    <3>2. [cmd[c] EXCEPT !.id = n] \in Cmd
      BY <3>1 DEF Cmd
    <3>3. QED
      BY <2>1, <3>2 DEF TypeOK
  <2>3. QED
    BY <1>2, <2>2 DEF SendEnqueue, TypeOK, NewRow, Row, history, pusher
<1>3. ASSUME NEW c \in CmdIds, SendRefused(c) PROVE TypeOK'
  <2>1. faults' \in Nat
    BY <1>3, FaultEffect DEF SendRefused, TypeOK
  <2>2. QED
    BY <1>3, <2>1 DEF SendRefused, TypeOK, db, history, pusher
<1>4. ASSUME NEW c \in CmdIds, SendFinish(c) PROVE TypeOK'
  <2>1. AuditInsert("cmd.send", c)
    BY <1>4 DEF SendFinish
  <2>2. QED
    BY <1>4, <2>1, AuditEffect DEF SendFinish, TypeOK, pusher, Actions
<1>5. ASSUME NEW c \in CmdIds, SendDropped(c) PROVE TypeOK'
  BY <1>5 DEF SendDropped, TypeOK, db, history, pusher
<1>6. ASSUME NEW c \in CmdIds, CancelDelete(c) PROVE TypeOK'
  BY <1>6 DEF CancelDelete, TypeOK, NoRow, Row, history, pusher
<1>7. ASSUME NEW c \in CmdIds, CancelAudit(c) PROVE TypeOK'
  <2>1. AuditInsert("cmd.cancel", c)
    BY <1>7 DEF CancelAudit
  <2>2. QED
    BY <1>7, <2>1, AuditEffect DEF CancelAudit, TypeOK, pusher, Actions
<1>8. CASE Drain
  <2>1. batch' \in SUBSET CmdIds /\ pc' = AfterRow(batch')
    BY <1>8 DEF Drain
  <2>2. batch' = {} <=> pc' \in {"drain", "wait"}
    BY <2>1 DEF AfterRow
  <2>3. missed' \in SUBSET (({"push"} \cup Actions) \X CmdIds)
    BY <1>8 DEF Drain, TypeOK
  <2>4. faults' \in Nat
    BY <1>8, FaultEffect DEF Drain, TypeOK
  <2>5. QED
    BY <1>8, <2>1, <2>2, <2>3, <2>4 DEF Drain, AfterRow, TypeOK, db, handlers
<1>9. ASSUME NEW c \in CmdIds, Lookup(c) PROVE TypeOK'
  <2>1. CASE pc' = "put"
    <3>1. SkipRow(c) \/ Exists(devices, cmd[c].device)
      BY <1>9, <2>1 DEF Lookup, MissRow
    <3>2. Exists(devices, cmd[c].device)
      BY <2>1, <3>1, SkipRowEffect
    <3>3. devices[cmd[c].device] \in Device
      BY <3>2 DEF TypeOK, Table, Exists
    <3>4. /\ cur' = c /\ target' = devices[cmd[c].device]
          /\ UNCHANGED <<batch, missed, faults>>
      BY <1>9, <2>1, SkipRowEffect DEF Lookup, MissRow
    <3>5. QED
      BY <1>9, <2>1, <3>3, <3>4 DEF Lookup, TypeOK, db, handlers
  <2>2. CASE SkipRow(c) /\ UNCHANGED <<missed, faults>>
    BY <1>9, <2>2, SkipRowEffect DEF Lookup, TypeOK, db, handlers
  <2>3. CASE MissRow(c)
    BY <1>9, <2>3, MissRowEffect, SkipRowEffect DEF Lookup, TypeOK, db, handlers
  <2>4. QED
    BY <1>9, <2>1, <2>2, <2>3 DEF Lookup
<1>10. CASE Put
  <2>1. cur \in CmdIds
    BY <1>10 DEF Put, TypeOK
  <2>2. CASE /\ pubs' = [pubs EXCEPT ![cur] = @ + 1] /\ pc' = "mark"
             /\ UNCHANGED <<batch, cur, target, missed, faults>>
    <3>1. pubs' \in [CmdIds -> Nat]
      <4>1. pubs \in [CmdIds -> Nat] /\ pubs[cur] + 1 \in Nat
        BY <2>1 DEF TypeOK
      <4>2. pubs' = [pubs EXCEPT ![cur] = pubs[cur] + 1]
        BY <2>2
      <4>3. QED
        BY <4>1, <4>2
    <3>2. QED
      BY <1>10, <2>1, <2>2, <3>1 DEF Put, TypeOK, db, handlers
  <2>3. CASE SkipRow(cur) /\ UNCHANGED <<pubs, missed, faults>>
    BY <1>10, <2>1, <2>3, SkipRowEffect DEF Put, TypeOK, db, handlers
  <2>4. CASE MissRow(cur) /\ UNCHANGED pubs
    BY <1>10, <2>1, <2>4, MissRowEffect, SkipRowEffect DEF Put, TypeOK, db, handlers
  <2>5. QED
    BY <1>10, <2>2, <2>3, <2>4 DEF Put
<1>11. CASE Mark
  <2>1. outbox' \in [CmdIds -> Row]
    <3>1. cur \in CmdIds /\ outbox[cur] \in Row
      BY <1>11 DEF Mark, TypeOK
    <3>2. [outbox[cur] EXCEPT !.delivered = TRUE] \in Row
      BY <3>1 DEF Row
    <3>3. outbox' \in {outbox, [outbox EXCEPT ![cur].delivered = TRUE]}
      BY <1>11 DEF Mark, MarkDelivered
    <3>4. outbox \in [CmdIds -> Row]
      BY DEF TypeOK
    <3>5. QED
      BY <3>1, <3>2, <3>3, <3>4
  <2>2. cur \in CmdIds /\ faults' \in Nat
    BY <1>11, FaultEffect DEF Mark, TypeOK
  <2>3. QED
    BY <1>11, <2>1, <2>2, SkipRowEffect DEF Mark, TypeOK, handlers, history
<1>12. CASE WakeNotified
  <2>1. /\ pc = "wait" /\ pc' = "drain" /\ permit' = FALSE /\ up /\ since' \in 0 .. now'
        /\ UNCHANGED <<db, up, handlers, batch, cur, target, ackq, now, history, faults>>
    BY <1>12 DEF WakeNotified, TypeOK
  <2>2. QED
    BY <2>1 DEF TypeOK, db, handlers, history
<1>13. CASE WakeTimer
  BY <1>13 DEF WakeTimer, TypeOK, db, handlers, history
<1>14. CASE RecordAck
  <2> DEFINE Ack == [cmd : CmdIds, result : Results]
  <2>1. Head(ackq) \in Ack /\ Tail(ackq) \in Seq(Ack)
    <3> HIDE DEF Ack
    <3>1. ackq \in Seq(Ack) /\ ackq # <<>>
      BY <1>14 DEF RecordAck, TypeOK, Ack
    <3>2. QED
      BY <3>1
  <2>2. outbox' \in [CmdIds -> Row]
    <3>1. [stored |-> TRUE, delivered |-> TRUE, ack |-> Head(ackq).result] \in Row
      BY <2>1 DEF Row
    <3>2. outbox' = AckRecorded(Head(ackq).cmd, Head(ackq).result) \/ outbox' = outbox
      BY <1>14 DEF RecordAck
    <3>3. QED
      BY <3>1, <3>2 DEF AckRecorded, TypeOK
  <2>3. faults' \in Nat
    BY <1>14, FaultEffect DEF RecordAck, TypeOK
  <2>4. QED
    BY <1>14, <2>1, <2>2, <2>3 DEF RecordAck, TypeOK, handlers, pusher, history
<1>15. ASSUME NEW z \in Zids, NEW org \in Orgs, RegisterDevice(z, org) PROVE TypeOK'
  <2>1. devices' \in Table
    BY <1>15 DEF RegisterDevice, Inserted, TypeOK, Table, Device
  <2>2. QED
    BY <1>15, <2>1 DEF RegisterDevice, TypeOK, handlers, pusher
<1>16. ASSUME NEW c \in CmdIds, NEW r \in Results, DeviceAck(c, r) PROVE TypeOK'
  BY <1>16 DEF DeviceAck, TypeOK, db, handlers, pusher, history
<1>17. ASSUME NEW id \in DeviceIds, DeleteDevice(id) PROVE TypeOK'
  <2>1. devices' \in Table
    BY <1>17 DEF DeleteDevice, Removed, TypeOK, Table
  <2>2. outbox' \in [CmdIds -> Row]
    BY <1>17 DEF DeleteDevice, Cascade, NoRow, Row, TypeOK
  <2>3. raced' \in SUBSET CmdIds
    BY <1>17 DEF DeleteDevice, InFlight, TypeOK
  <2>4. QED
    BY <1>17, <2>1, <2>2, <2>3 DEF DeleteDevice, TypeOK, handlers, pusher
<1>18. CASE Tick
  BY <1>18 DEF Tick, TypeOK, db, handlers, pusher, history
<1>19. CASE Crash
  <2>1. sendPc' \in [CmdIds -> {"idle", "checked", "enqueued", "done",
                               "refused", "dropped"}]
    BY <1>19 DEF Crash, TypeOK
  <2>2. cancelPc' \in [CmdIds -> {"idle", "deleted", "done"}]
    BY <1>19 DEF Crash, TypeOK
  <2>3. ackq' \in Seq([cmd : CmdIds, result : Results])
    BY <1>19, EmptyQueue DEF Crash
  <2>4. UNCHANGED <<db, dismissed, now, history>> /\ faults' \in Nat
    BY <1>19, FaultEffect DEF Crash
  <2>5. /\ up' = FALSE /\ permit' = FALSE /\ ackq' = <<>> /\ pc' = "drain"
        /\ batch' = {} /\ cur' = NoCmd /\ target' = NoDevice /\ since' = 0
    BY <1>19 DEF Crash
  <2>6. since' \in 0 .. now'
    BY <2>4, <2>5 DEF TypeOK
  <2>7. QED
    BY <2>1, <2>2, <2>3, <2>4, <2>5, <2>6 DEF TypeOK, db, history
<1>20. CASE Restart
  BY <1>20 DEF Restart, TypeOK, db, handlers, pusher, history
<1>21. CASE UNCHANGED vars
  BY <1>21 DEF vars, TypeOK, db, handlers, pusher, history
<1>22. ASSUME NEW a \in Actions, NEW c \in CmdIds, DismissCaller(a, c) PROVE TypeOK'
  BY <1>22 DEF DismissCaller, TypeOK, db, pusher, history
<1>23. QED
  BY <1>1, <1>2, <1>3, <1>4, <1>5, <1>6, <1>7, <1>8, <1>9, <1>10, <1>11, <1>12,
     <1>13, <1>14, <1>15, <1>16, <1>17, <1>18, <1>19, <1>20, <1>21, <1>22
  DEF Next, Send, Cancel, Push, Environment

(* Every variable keeps its type, and the pusher holds a row and its target *)
(* exactly while it publishes or marks it.                                  *)
THEOREM Typing == Spec => []TypeOK
<1>1. QED
  BY TypeInit, TypeStep, PTL DEF Spec

-----------------------------------------------------------------------------
(* The invariants behind the properties.                                   *)

(* A command whose handler has not enqueued it has left no trace.          *)
SentInv ==
  \A c \in CmdIds :
    /\ sendPc[c] \in {"idle", "checked"} =>
         cmd[c].id = 0 /\ pubs[c] = 0 /\ c \notin batch /\ ~ outbox[c].stored
    /\ sendPc[c] = "checked" => cmd[c].device \in DeviceIds
    /\ outbox[c].stored \/ c \in batch => cmd[c].id \in RowIds

(* What the schema keeps of a row: its device exists (foreign key, cascade) *)
(* and an ack fills in delivered_at.                                        *)
RowInv ==
  \A c \in CmdIds :
    /\ outbox[c].stored => Exists(devices, cmd[c].device)
    /\ ~ outbox[c].stored => outbox[c] = NoRow
    /\ outbox[c].ack # NoAck => outbox[c].delivered

(* Whatever says that a command was published is right. *)
WireInv ==
  /\ \A c \in CmdIds : outbox[c].delivered => pubs[c] > 0
  /\ pc = "mark" => pubs[cur] > 0
  /\ \A i \in 1 .. Len(ackq) : pubs[ackq[i].cmd] > 0

(* The pusher has put this row on the wire and has still to mark it. *)
Marking(c) == pc = "mark" /\ cur = c

(* A row that can still be published was published once per fault. *)
RedeliveryInv ==
  \A c \in CmdIds :
    /\ pubs[c] <= 1 + faults
    /\ c \in batch /\ ~ Marking(c) => pubs[c] <= faults
    /\ outbox[c].stored /\ ~ outbox[c].delivered /\ ~ Marking(c) => pubs[c] <= faults

(* Whoever acts on a device id found it naming the registration the sender *)
(* was authorised for, and but for a race it still does.                   *)
Authorised(c) ==
  /\ Exists(devices, cmd[c].device)
  /\ devices[cmd[c].device].reg = cmd[c].reg

TargetInv ==
  /\ \A c \in CmdIds :
       sendPc[c] = "checked" \/ outbox[c].stored \/ c \in batch
         => Authorised(c) \/ c \in raced
  /\ MisdeliveryOnlyByRace

(* The rows before a row of the pusher's batch are in the batch too, or    *)
(* were published, were passed over for an error, or never will be sent.   *)
OrderInv ==
  /\ \A c \in CmdIds, d \in batch :
       /\ Pending(c) /\ cmd[c].sendable
       /\ outbox[d].stored /\ cmd[c].id < cmd[d].id
       => c \in batch \/ pubs[c] > 0 \/ <<"push", c>> \in missed
  /\ pc \in {"put", "mark"} => IsFirst(cur)
  /\ FirstPutsInOrder

(* While the pusher is between two reads of the table and no permit is     *)
(* stored, a row it does not know of has a handler that will notify it.    *)
WakeInv ==
  up /\ pc # "drain" /\ ~ permit =>
    \A c \in CmdIds :
      Pending(c) /\ cmd[c].sendable /\ pubs[c] = 0 =>
        \/ c \in batch \/ sendPc[c] \in {"enqueued", "dropped"}
        \/ <<"push", c>> \in missed

-----------------------------------------------------------------------------
LEMMA SentInit == Init => SentInv
  BY DEF Init, SentInv, Unsent, NoRow

LEMMA SentStep == TypeOK /\ SentInv /\ [Next]_vars => SentInv'
<1> SUFFICES ASSUME TypeOK, SentInv, [Next]_vars PROVE SentInv'
  OBVIOUS
<1>1. CASE UNCHANGED <<sendPc, cmd, pubs, batch, outbox>>
  BY <1>1 DEF SentInv
<1>2. ASSUME NEW c \in CmdIds, NEW org \in Orgs, NEW id \in DeviceIds,
             NEW ttl \in Ttls, NEW s \in BOOLEAN, SendCheck(c, org, id, ttl, s)
      PROVE  SentInv'
  <2>1. cmd'[c].id = 0 /\ cmd'[c].device = id
    BY <1>2 DEF SendCheck, TypeOK
  <2>2. \A d \in CmdIds \ {c} : cmd'[d] = cmd[d] /\ sendPc'[d] = sendPc[d]
    BY <1>2 DEF SendCheck, TypeOK
  <2>3. QED
    BY <1>2, <2>1, <2>2 DEF SendCheck, SentInv, TypeOK, pusher, history
<1>3. ASSUME NEW c \in CmdIds, SendEnqueue(c) PROVE SentInv'
  <2>1. PICK n \in RowIds : cmd' = [cmd EXCEPT ![c].id = n]
    BY <1>3 DEF SendEnqueue
  <2>2. cmd'[c].id = n /\ \A d \in CmdIds : cmd'[d].device = cmd[d].device
    BY <2>1 DEF TypeOK, Cmd
  <2>3. \A d \in CmdIds \ {c} : /\ cmd'[d] = cmd[d] /\ sendPc'[d] = sendPc[d]
                                /\ outbox'[d] = outbox[d]
    BY <1>3, <2>1 DEF SendEnqueue, TypeOK
  <2>4. sendPc'[c] = "enqueued"
    BY <1>3 DEF SendEnqueue, TypeOK
  <2>5. QED
    BY <1>3, <2>2, <2>3, <2>4 DEF SendEnqueue, SentInv, pusher, history
<1>4. ASSUME NEW c \in CmdIds, SendRefused(c) \/ SendFinish(c) \/ SendDropped(c)
      PROVE  SentInv'
  <2>1. sendPc'[c] \in {"refused", "done", "dropped"}
    BY <1>4 DEF SendRefused, SendFinish, SendDropped, TypeOK
  <2>2. \A d \in CmdIds \ {c} : sendPc'[d] = sendPc[d]
    BY <1>4 DEF SendRefused, SendFinish, SendDropped, TypeOK
  <2>3. UNCHANGED <<cmd, pubs, batch, outbox>>
    BY <1>4 DEF SendRefused, SendFinish, SendDropped, db, pusher, history
  <2>4. QED
    BY <2>1, <2>2, <2>3 DEF SentInv
<1>5. ASSUME NEW c \in CmdIds, CancelDelete(c) PROVE SentInv'
  BY <1>5 DEF CancelDelete, NoRow, SentInv, TypeOK, pusher, history
<1>6. CASE Drain
  BY <1>6 DEF Drain, Listed, SentInv, db, handlers
<1>7. ASSUME NEW c \in CmdIds, Lookup(c) PROVE SentInv'
  BY <1>7 DEF Lookup, MissRow, SkipRow, SentInv, db, handlers
<1>8. CASE Put
  <2>1. cur \in batch
    BY <1>8 DEF Put, TypeOK
  <2>2. \A d \in CmdIds \ {cur} : pubs'[d] = pubs[d]
    BY <1>8 DEF Put, TypeOK
  <2>3. batch' \subseteq batch /\ UNCHANGED <<sendPc, cmd, outbox>>
    BY <1>8 DEF Put, MissRow, SkipRow, db, handlers
  <2>4. QED
    BY <2>1, <2>2, <2>3 DEF SentInv
<1>9. CASE Mark
  BY <1>9 DEF Mark, MarkDelivered, SkipRow, SentInv, TypeOK, Row, handlers, history
<1>10. CASE RecordAck
  BY <1>10 DEF RecordAck, AckRecorded, SentInv, TypeOK, Row, handlers, pusher, history
<1>11. ASSUME NEW id \in DeviceIds, DeleteDevice(id) PROVE SentInv'
  BY <1>11 DEF DeleteDevice, Cascade, NoRow, SentInv, TypeOK, handlers, pusher
<1>12. CASE Crash
  BY <1>12 DEF Crash, SentInv, TypeOK, db, history
<1>13. QED
  <2>1. ASSUME NEW c \in CmdIds, CancelAudit(c)
        PROVE  UNCHANGED <<sendPc, cmd, pubs, batch, outbox>>
    BY <2>1 DEF CancelAudit, history, pusher
  <2>2. ASSUME WakeNotified \/ WakeTimer \/ Tick \/ Restart \/ UNCHANGED vars
        PROVE  UNCHANGED <<sendPc, cmd, pubs, batch, outbox>>
    BY <2>2 DEF WakeNotified, WakeTimer, Tick, Restart, vars, db, handlers, pusher, history
  <2>3. ASSUME NEW z \in Zids, NEW org \in Orgs, RegisterDevice(z, org)
        PROVE  UNCHANGED <<sendPc, cmd, pubs, batch, outbox>>
    BY <2>3 DEF RegisterDevice, handlers, pusher
  <2>4. ASSUME NEW c \in CmdIds, NEW r \in Results, DeviceAck(c, r)
        PROVE  UNCHANGED <<sendPc, cmd, pubs, batch, outbox>>
    BY <2>4 DEF DeviceAck, db, handlers, pusher, history
  <2>5. ASSUME NEW a \in Actions, NEW c \in CmdIds, DismissCaller(a, c)
        PROVE  UNCHANGED <<sendPc, cmd, pubs, batch, outbox>>
    BY <2>5 DEF DismissCaller, db, pusher, history
  <2>6. QED
    BY <1>1, <1>2, <1>3, <1>4, <1>5, <1>6, <1>7, <1>8, <1>9, <1>10, <1>11, <1>12,
       <2>1, <2>2, <2>3, <2>4, <2>5 DEF Next, Send, Cancel, Push, Environment

-----------------------------------------------------------------------------
LEMMA RowInit == Init => RowInv
  BY DEF Init, RowInv, NoRow

(* mark_delivered sets one column of one row that is there. *)
LEMMA MarkEffect ==
  ASSUME TypeOK, NEW c \in CmdIds, outbox' = MarkDelivered(c) \/ outbox' = outbox
  PROVE  \A d \in CmdIds : /\ outbox'[d].stored = outbox[d].stored
                           /\ outbox'[d].ack = outbox[d].ack
                           /\ outbox[d].delivered => outbox'[d].delivered
                           /\ outbox'[d].delivered => outbox[d].delivered \/ d = c
                           /\ ~ outbox[d].stored => outbox'[d] = outbox[d]
<1>1. CASE outbox' = outbox
  BY <1>1
<1>2. CASE outbox' = [outbox EXCEPT ![c].delivered = TRUE] /\ outbox[c].stored
  <2>1. outbox \in [CmdIds -> Row] /\ outbox[c] \in Row
    BY DEF TypeOK
  <2>2. outbox'[c] = [outbox[c] EXCEPT !.delivered = TRUE]
    BY <1>2, <2>1
  <2>3. /\ outbox'[c].stored = outbox[c].stored
        /\ outbox'[c].ack = outbox[c].ack /\ outbox'[c].delivered
    BY <2>1, <2>2 DEF Row
  <2>4. \A d \in CmdIds \ {c} : outbox'[d] = outbox[d]
    BY <1>2, <2>1
  <2>5. QED
    BY <1>2, <2>3, <2>4
<1>3. QED
  BY <1>1, <1>2 DEF MarkDelivered

LEMMA RowStep == TypeOK /\ SentInv /\ RowInv /\ [Next]_vars => RowInv'
<1> SUFFICES ASSUME TypeOK, SentInv, RowInv, [Next]_vars PROVE RowInv'
  OBVIOUS
<1>1. CASE UNCHANGED <<devices, cmd, outbox>>
  BY <1>1 DEF RowInv, Exists
<1>2. ASSUME NEW c \in CmdIds, NEW org \in Orgs, NEW id \in DeviceIds,
             NEW ttl \in Ttls, NEW s \in BOOLEAN, SendCheck(c, org, id, ttl, s)
      PROVE  RowInv'
  <2>1. ~ outbox[c].stored
    BY <1>2 DEF SendCheck, SentInv
  <2>2. \A d \in CmdIds \ {c} : cmd'[d] = cmd[d]
    BY <1>2 DEF SendCheck, TypeOK
  <2>3. QED
    BY <1>2, <2>1, <2>2 DEF SendCheck, RowInv, Exists
<1>3. ASSUME NEW c \in CmdIds, SendEnqueue(c) PROVE RowInv'
  <2>1. PICK n \in RowIds : cmd' = [cmd EXCEPT ![c].id = n]
    BY <1>3 DEF SendEnqueue
  <2>2. \A d \in CmdIds : cmd'[d].device = cmd[d].device
    BY <2>1 DEF TypeOK, Cmd
  <2>3. QED
    BY <1>3, <2>2 DEF SendEnqueue, NewRow, RowInv, Exists, TypeOK
<1>4. ASSUME NEW c \in CmdIds, CancelDelete(c) PROVE RowInv'
  BY <1>4 DEF CancelDelete, NoRow, RowInv, Exists, TypeOK
<1>5. CASE Mark
  <2>1. cur \in CmdIds
    BY <1>5 DEF Mark, TypeOK
  <2>2. \A d \in CmdIds : /\ outbox'[d].stored = outbox[d].stored
                          /\ outbox'[d].ack = outbox[d].ack
                          /\ outbox[d].delivered => outbox'[d].delivered
                          /\ ~ outbox[d].stored => outbox'[d] = outbox[d]
    BY <1>5, <2>1, MarkEffect DEF Mark
  <2>3. QED
    BY <1>5, <2>2 DEF Mark, RowInv, Exists
<1>6. CASE RecordAck
  <2>1. ASSUME NEW d \in CmdIds
        PROVE  \/ outbox'[d] = outbox[d]
               \/ outbox[d].stored /\ outbox'[d].stored /\ outbox'[d].delivered
    BY <1>6 DEF RecordAck, AckRecorded, TypeOK
  <2>2. UNCHANGED <<devices, cmd>>
    BY <1>6 DEF RecordAck
  <2>3. QED
    BY <2>1, <2>2 DEF RowInv, Exists
<1>7. ASSUME NEW z \in Zids, NEW org \in Orgs, RegisterDevice(z, org) PROVE RowInv'
  <2>1. \A id \in DeviceIds : Exists(devices, id) => devices'[id] = devices[id]
    BY <1>7, MaxDeviceIdAssumption
    DEF RegisterDevice, IsNextId, Inserted, Exists, DeviceIds, TypeOK, Table
  <2>2. QED
    BY <1>7, <2>1 DEF RegisterDevice, RowInv, Exists
<1>8. ASSUME NEW id \in DeviceIds, DeleteDevice(id) PROVE RowInv'
  <2>1. \A d \in CmdIds : /\ cmd[d].device = id => ~ outbox'[d].stored
                          /\ outbox'[d] = outbox[d] \/ outbox'[d] = NoRow
                          /\ outbox'[d].stored => outbox[d].stored
    BY <1>8 DEF DeleteDevice, Cascade, NoRow, RowInv
  <2>2. \A i \in DeviceIds \ {id} : devices'[i] = devices[i]
    BY <1>8 DEF DeleteDevice, Removed, TypeOK, Table
  <2>3. ASSUME NEW d \in CmdIds, outbox'[d].stored
        PROVE  Exists(devices', cmd[d].device)
    BY <2>1, <2>2, <2>3 DEF RowInv, Exists
  <2>4. \A d \in CmdIds : /\ ~ outbox'[d].stored => outbox'[d] = NoRow
                          /\ outbox'[d].ack # NoAck => outbox'[d].delivered
    <3>1. TAKE d \in CmdIds
    <3>2. outbox'[d] = outbox[d] \/ outbox'[d] = NoRow
      BY <2>1
    <3>3. CASE outbox'[d] = NoRow
      BY <3>3 DEF NoRow
    <3>4. CASE outbox'[d] = outbox[d]
      BY <3>4 DEF RowInv
    <3>5. QED
      BY <3>2, <3>3, <3>4
  <2>5. UNCHANGED cmd
    BY <1>8 DEF DeleteDevice
  <2>6. QED
    BY <2>3, <2>4, <2>5 DEF RowInv, Exists
<1>9. QED
  <2> DEFINE Rest == UNCHANGED <<devices, cmd, outbox>>
  <2>1. ASSUME NEW c \in CmdIds,
               SendRefused(c) \/ SendFinish(c) \/ SendDropped(c) \/ CancelAudit(c)
        PROVE  Rest
    BY <2>1 DEF SendRefused, SendFinish, SendDropped, CancelAudit, db
  <2>2. ASSUME NEW c \in CmdIds, Lookup(c) PROVE Rest
    BY <2>2 DEF Lookup, db
  <2>3. ASSUME Drain \/ Put \/ WakeNotified \/ WakeTimer PROVE Rest
    BY <2>3 DEF Drain, Put, WakeNotified, WakeTimer, db
  <2>4. ASSUME Tick \/ Crash \/ Restart \/ UNCHANGED vars PROVE Rest
    BY <2>4 DEF Tick, Crash, Restart, vars, db
  <2>5. ASSUME NEW c \in CmdIds, NEW r \in Results, DeviceAck(c, r) PROVE Rest
    BY <2>5 DEF DeviceAck, db
  <2>6. ASSUME NEW a \in Actions, NEW c \in CmdIds, DismissCaller(a, c) PROVE Rest
    BY <2>6 DEF DismissCaller, db, pusher, history
  <2>7. QED
    BY <1>1, <1>2, <1>3, <1>4, <1>5, <1>6, <1>7, <1>8,
       <2>1, <2>2, <2>3, <2>4, <2>5, <2>6 DEF Next, Send, Cancel, Push, Environment

-----------------------------------------------------------------------------
LEMMA WireInit == Init => WireInv
  BY DEF Init, WireInv, NoRow

LEMMA WireStep == TypeOK /\ SentInv /\ WireInv /\ [Next]_vars => WireInv'
<1> SUFFICES ASSUME TypeOK, SentInv, WireInv, [Next]_vars PROVE WireInv'
  OBVIOUS
<1>1. CASE UNCHANGED <<outbox, pc, cur, ackq, pubs>>
  BY <1>1 DEF WireInv
<1>2. ASSUME NEW c \in CmdIds, SendEnqueue(c) PROVE WireInv'
  BY <1>2 DEF SendEnqueue, NewRow, WireInv, TypeOK, pusher, history
<1>3. ASSUME NEW c \in CmdIds, CancelDelete(c) PROVE WireInv'
  BY <1>3 DEF CancelDelete, NoRow, WireInv, TypeOK, pusher, history
<1>4. CASE Drain
  BY <1>4 DEF Drain, AfterRow, WireInv, db
<1>5. ASSUME NEW c \in CmdIds, Lookup(c) PROVE WireInv'
  BY <1>5 DEF Lookup, MissRow, SkipRow, AfterRow, WireInv, db
<1>6. CASE Put
  <2>1. cur \in CmdIds
    BY <1>6 DEF Put, TypeOK
  <2>2. \A d \in CmdIds : pubs[d] \in Nat /\ (pubs[d] > 0 => pubs'[d] > 0)
    <3>1. pubs \in [CmdIds -> Nat]
      BY DEF TypeOK
    <3>2. pubs' = pubs \/ pubs' = [pubs EXCEPT ![cur] = pubs[cur] + 1]
      BY <1>6 DEF Put
    <3>3. QED
      BY <2>1, <3>1, <3>2
  <2>3. pc' = "mark" => cur' = cur /\ pubs'[cur] > 0
    BY <1>6, <2>1, <2>2 DEF Put, MissRow, SkipRow, AfterRow, TypeOK
  <2>4. \A i \in 1 .. Len(ackq) : ackq[i].cmd \in CmdIds
    <3> DEFINE Ack == [cmd : CmdIds, result : Results]
    <3>1. \A a \in Ack : a.cmd \in CmdIds
      OBVIOUS
    <3> HIDE DEF Ack
    <3>2. ackq \in Seq(Ack)
      BY DEF TypeOK, Ack
    <3>3. QED
      BY <3>1, <3>2
  <2>5. UNCHANGED <<outbox, ackq>>
    BY <1>6 DEF Put, db
  <2>6. QED
    BY <2>2, <2>3, <2>4, <2>5 DEF WireInv
<1>7. CASE Mark
  <2>1. cur \in CmdIds /\ pubs[cur] > 0
    BY <1>7 DEF Mark, TypeOK, WireInv
  <2>2. QED
    BY <1>7, <2>1 DEF Mark, MarkDelivered, SkipRow, AfterRow, WireInv, TypeOK, Row, history
<1>8. CASE RecordAck
  <2> DEFINE Ack == [cmd : CmdIds, result : Results]
  <2>1. /\ ackq' = Tail(ackq) /\ Head(ackq) = ackq[1] /\ Len(ackq) > 0
        /\ Len(ackq') = Len(ackq) - 1
        /\ \A i \in 1 .. Len(ackq') : ackq'[i] = ackq[i + 1]
    <3> HIDE DEF Ack
    <3>1. ackq \in Seq(Ack) /\ ackq # <<>> /\ ackq' = Tail(ackq)
      BY <1>8 DEF RecordAck, TypeOK, Ack
    <3>2. QED
      BY <3>1
  <2>2. \A i \in 1 .. Len(ackq') : pubs[ackq'[i].cmd] > 0
    BY <2>1 DEF WireInv
  <2>3. pubs[Head(ackq).cmd] > 0
    BY <2>1 DEF WireInv
  <2>4. \A c \in CmdIds : outbox'[c].delivered => pubs[c] > 0
    BY <1>8, <2>3 DEF RecordAck, AckRecorded, WireInv, TypeOK, Row
  <2>5. QED
    BY <1>8, <2>2, <2>4 DEF RecordAck, WireInv, pusher, history
<1>9. ASSUME NEW c \in CmdIds, NEW r \in Results, DeviceAck(c, r) PROVE WireInv'
  <2>1. \A i \in 1 .. Len(ackq') :
          (i \in 1 .. Len(ackq) /\ ackq'[i] = ackq[i]) \/ ackq'[i].cmd = c
    <3> DEFINE Ack == [cmd : CmdIds, result : Results]
                sample == [cmd |-> c, result |-> r]
    <3>1. sample \in Ack /\ sample.cmd = c
      OBVIOUS
    <3>2. ackq \in Seq(Ack) /\ ackq' = Append(ackq, sample)
      BY <1>9 DEF DeviceAck, TypeOK
    <3> HIDE DEF Ack, sample
    <3>3. QED
      BY <3>1, <3>2
  <2>2. QED
    BY <1>9, <2>1 DEF DeviceAck, WireInv, db, pusher, history
<1>10. ASSUME NEW id \in DeviceIds, DeleteDevice(id) PROVE WireInv'
  BY <1>10 DEF DeleteDevice, Cascade, NoRow, WireInv, handlers, pusher
<1>11. CASE Crash
  BY <1>11 DEF Crash, WireInv, db, history
<1>12. CASE WakeNotified \/ WakeTimer
  BY <1>12 DEF WakeNotified, WakeTimer, WireInv, db, history
<1>13. QED
  <2> DEFINE Rest == UNCHANGED <<outbox, pc, cur, ackq, pubs>>
  <2>1. ASSUME NEW c \in CmdIds,
               SendRefused(c) \/ SendFinish(c) \/ SendDropped(c) \/ CancelAudit(c)
        PROVE  Rest
    BY <2>1 DEF SendRefused, SendFinish, SendDropped, CancelAudit, db, pusher, history
  <2>2. ASSUME NEW c \in CmdIds, NEW org \in Orgs, NEW id \in DeviceIds,
               NEW ttl \in Ttls, NEW s \in BOOLEAN, SendCheck(c, org, id, ttl, s)
        PROVE  Rest
    BY <2>2 DEF SendCheck, pusher, history
  <2>3. ASSUME NEW z \in Zids, NEW org \in Orgs, RegisterDevice(z, org) PROVE Rest
    BY <2>3 DEF RegisterDevice, pusher
  <2>4. ASSUME Tick \/ Restart \/ UNCHANGED vars PROVE Rest
    BY <2>4 DEF Tick, Restart, vars, db, pusher, history
  <2>5. ASSUME NEW a \in Actions, NEW c \in CmdIds, DismissCaller(a, c) PROVE Rest
    BY <2>5 DEF DismissCaller, db, pusher, history
  <2>6. ASSUME NEW c \in CmdIds, Send(c) \/ Cancel(c) PROVE WireInv'
    BY <1>1, <1>2, <1>3, <2>1, <2>2, <2>6 DEF Send, Cancel
  <2>7. CASE Push
    BY <1>4, <1>5, <1>6, <1>7, <1>12, <2>7 DEF Push
  <2>8. CASE Environment
    BY <1>1, <1>9, <1>10, <1>11, <2>3, <2>4, <2>5, <2>8 DEF Environment
  <2>9. CASE UNCHANGED vars
    BY <1>1, <2>4, <2>9
  <2>10. QED
    BY <1>8, <2>6, <2>7, <2>8, <2>9 DEF Next

-----------------------------------------------------------------------------
(* Faults are never forgotten. *)
LEMMA FaultsGrow ==
  ASSUME TypeOK, [Next]_vars
  PROVE  faults' >= faults
<1>1. faults \in Nat /\ (Fault => faults' >= faults)
  <2>1. faults \in Nat
    BY DEF TypeOK
  <2>2. QED
    BY <2>1 DEF Fault
<1>2. ASSUME NEW c \in CmdIds, Send(c) \/ Cancel(c) PROVE UNCHANGED faults \/ Fault
  BY <1>2 DEF Send, Cancel, SendCheck, SendEnqueue, SendRefused, SendFinish,
              SendDropped, CancelDelete, CancelAudit, AuditInsert
<1>3. ASSUME NEW c \in CmdIds, Lookup(c) PROVE UNCHANGED faults \/ Fault
  BY <1>3 DEF Lookup, MissRow
<1>4. ASSUME Drain \/ Put \/ Mark \/ WakeNotified \/ WakeTimer \/ RecordAck
      PROVE  UNCHANGED faults \/ Fault
  BY <1>4 DEF Drain, Put, Mark, WakeNotified, WakeTimer, RecordAck, MissRow
<1>5. ASSUME Environment PROVE UNCHANGED faults \/ Fault
  BY <1>5 DEF Environment, RegisterDevice, DeviceAck, DeleteDevice,
              DismissCaller, Tick, Crash, Restart
<1>6. QED
  BY <1>1, <1>2, <1>3, <1>4, <1>5 DEF Next, Push, vars

LEMMA RedeliveryInit == Init => RedeliveryInv
  BY DEF Init, RedeliveryInv

LEMMA RedeliveryStep ==
  TypeOK /\ SentInv /\ RedeliveryInv /\ [Next]_vars => RedeliveryInv'
<1> SUFFICES ASSUME TypeOK, SentInv, RedeliveryInv, [Next]_vars PROVE RedeliveryInv'
  OBVIOUS
<1> DEFINE Rest == UNCHANGED <<outbox, pc, batch, cur, pubs>>
<1>0. /\ \A d \in CmdIds : pubs[d] \in Nat
      /\ faults \in Nat /\ faults' \in Nat /\ faults' >= faults
  BY TypeStep, FaultsGrow DEF TypeOK
<1>1. CASE Rest
  BY <1>0, <1>1 DEF RedeliveryInv, Marking
<1>2. ASSUME NEW c \in CmdIds, SendEnqueue(c) PROVE RedeliveryInv'
  <2>1. pubs[c] = 0 /\ faults \in Nat
    BY <1>2 DEF SendEnqueue, SentInv, TypeOK
  <2>2. \A d \in CmdIds \ {c} : outbox'[d] = outbox[d]
    BY <1>2 DEF SendEnqueue, TypeOK
  <2>3. UNCHANGED <<pc, batch, cur, pubs, faults>>
    BY <1>2 DEF SendEnqueue, pusher, history
  <2>4. QED
    BY <2>1, <2>2, <2>3 DEF RedeliveryInv, Marking
<1>3. ASSUME NEW c \in CmdIds, CancelDelete(c) PROVE RedeliveryInv'
  BY <1>3 DEF CancelDelete, NoRow, RedeliveryInv, Marking, TypeOK, pusher, history
<1>4. CASE Drain
  <2>1. batch' \subseteq {c \in CmdIds : Listed(c, since)} /\ pc # "mark" /\ pc' # "mark"
    BY <1>4 DEF Drain, AfterRow
  <2>2. UNCHANGED <<outbox, pubs>>
    BY <1>4 DEF Drain, db
  <2>3. QED
    BY <1>0, <2>1, <2>2 DEF Listed, RedeliveryInv, Marking
<1>5. ASSUME NEW c \in CmdIds, Lookup(c) PROVE RedeliveryInv'
  <2>1. batch' \subseteq batch /\ pc # "mark" /\ pc' # "mark"
    BY <1>5 DEF Lookup, MissRow, SkipRow, AfterRow
  <2>2. UNCHANGED <<outbox, pubs>>
    BY <1>5 DEF Lookup, db
  <2>3. QED
    BY <1>0, <2>1, <2>2 DEF RedeliveryInv, Marking
<1>6. CASE Put
  <2>1. cur \in batch /\ cur \in CmdIds /\ pubs \in [CmdIds -> Nat] /\ pc # "mark"
    BY <1>6 DEF Put, TypeOK
  <2>2. pubs[cur] <= faults
    BY <1>6, <2>1 DEF RedeliveryInv, Marking
  <2>3. CASE /\ pubs' = [pubs EXCEPT ![cur] = @ + 1] /\ pc' = "mark"
             /\ UNCHANGED <<batch, cur, target, missed, faults>>
    <3>1. pubs' = [pubs EXCEPT ![cur] = pubs[cur] + 1]
      BY <2>3
    <3>2. UNCHANGED outbox
      BY <1>6 DEF Put, db
    <3>3. pubs'[cur] <= 1 + faults /\ \A d \in CmdIds \ {cur} : pubs'[d] = pubs[d]
      BY <1>0, <2>1, <2>2, <3>1
    <3>4. QED
      BY <2>1, <2>3, <3>2, <3>3 DEF RedeliveryInv, Marking
  <2>4. CASE SkipRow(cur) /\ UNCHANGED pubs
    <3>1. batch' \subseteq batch /\ pc' # "mark" /\ UNCHANGED <<outbox, pubs>>
      BY <1>6, <2>4 DEF Put, SkipRow, AfterRow, db
    <3>2. QED
      BY <1>0, <2>1, <3>1 DEF RedeliveryInv, Marking
  <2>5. QED
    BY <1>6, <2>3, <2>4 DEF Put, MissRow
<1>7. CASE Mark
  <2>1. cur \in CmdIds /\ pubs \in [CmdIds -> Nat] /\ faults \in Nat
    BY <1>7 DEF Mark, TypeOK
  <2>2. pc = "mark" /\ batch' = batch \ {cur} /\ pc' # "mark" /\ UNCHANGED pubs
    BY <1>7 DEF Mark, SkipRow, AfterRow, history
  <2>3. \A d \in CmdIds : /\ outbox'[d].stored = outbox[d].stored
                          /\ outbox[d].delivered => outbox'[d].delivered
    BY <1>7, <2>1, MarkEffect DEF Mark
  <2>4. CASE outbox' = MarkDelivered(cur) /\ UNCHANGED faults
    <3>1. outbox[cur].stored => outbox'[cur].delivered
      BY <2>1, <2>4 DEF MarkDelivered, TypeOK, Row
    <3>2. QED
      BY <2>1, <2>2, <2>3, <2>4, <3>1 DEF RedeliveryInv, Marking
  <2>5. CASE faults' = faults + 1
    <3>1. \A d \in CmdIds : pubs[d] <= faults' /\ faults' <= 1 + faults'
      BY <2>1, <2>5 DEF RedeliveryInv
    <3>2. QED
      BY <2>1, <2>2, <2>5, <3>1 DEF RedeliveryInv, Marking
  <2>6. QED
    BY <1>7, <2>4, <2>5 DEF Mark, Fault
<1>8. CASE RecordAck
  <2>1. \A d \in CmdIds : outbox'[d] = outbox[d] \/ outbox'[d].delivered
    BY <1>8 DEF RecordAck, AckRecorded, TypeOK
  <2>2. UNCHANGED <<pc, batch, cur, pubs>>
    BY <1>8 DEF RecordAck, pusher, history
  <2>3. QED
    BY <1>0, <2>1, <2>2 DEF RedeliveryInv, Marking
<1>9. ASSUME NEW id \in DeviceIds, DeleteDevice(id) PROVE RedeliveryInv'
  BY <1>9 DEF DeleteDevice, Cascade, NoRow, RedeliveryInv, Marking, pusher
<1>10. CASE Crash
  <2>1. \A d \in CmdIds : pubs[d] <= faults' /\ faults' <= 1 + faults'
    BY <1>0, <1>10 DEF Crash, Fault, RedeliveryInv
  <2>2. pc' = "drain" /\ batch' = {} /\ UNCHANGED <<outbox, pubs>>
    BY <1>10 DEF Crash, db, history
  <2>3. \A d \in CmdIds : pubs[d] <= 1 + faults'
    BY <1>0, <1>10 DEF Crash, Fault, RedeliveryInv
  <2>4. QED
    BY <2>1, <2>2, <2>3 DEF RedeliveryInv, Marking
<1>11. CASE WakeNotified \/ WakeTimer
  BY <1>11 DEF WakeNotified, WakeTimer, RedeliveryInv, Marking, db, history
<1>12. QED
  <2>1. ASSUME NEW c \in CmdIds,
               SendRefused(c) \/ SendFinish(c) \/ SendDropped(c) \/ CancelAudit(c)
        PROVE  Rest
    BY <2>1 DEF SendRefused, SendFinish, SendDropped, CancelAudit, db, pusher, history
  <2>2. ASSUME NEW c \in CmdIds, NEW org \in Orgs, NEW id \in DeviceIds,
               NEW ttl \in Ttls, NEW s \in BOOLEAN, SendCheck(c, org, id, ttl, s)
        PROVE  Rest
    BY <2>2 DEF SendCheck, pusher, history
  <2>3. ASSUME NEW z \in Zids, NEW org \in Orgs, RegisterDevice(z, org) PROVE Rest
    BY <2>3 DEF RegisterDevice, pusher
  <2>4. ASSUME NEW c \in CmdIds, NEW r \in Results, DeviceAck(c, r) PROVE Rest
    BY <2>4 DEF DeviceAck, db, pusher, history
  <2>5. ASSUME Tick \/ Restart \/ UNCHANGED vars PROVE Rest
    BY <2>5 DEF Tick, Restart, vars, db, pusher, history
  <2>6. ASSUME NEW a \in Actions, NEW c \in CmdIds, DismissCaller(a, c) PROVE Rest
    BY <2>6 DEF DismissCaller, db, pusher, history
  <2>7. QED
    BY <1>1, <1>2, <1>3, <1>4, <1>5, <1>6, <1>7, <1>8, <1>9, <1>10, <1>11,
       <2>1, <2>2, <2>3, <2>4, <2>5, <2>6 DEF Next, Send, Cancel, Push, Environment

(* However senders, operators, acks, failed writes and crashes interleave, *)
(* a command goes on the wire at most once more than there were faults.    *)
THEOREM Redelivery == Spec => []RedeliveryNeedsFault
<1>1. Init => TypeOK /\ SentInv /\ RedeliveryInv
  BY TypeInit, SentInit, RedeliveryInit
<1>2. TypeOK /\ SentInv /\ RedeliveryInv /\ [Next]_vars
        => (TypeOK /\ SentInv /\ RedeliveryInv)'
  BY TypeStep, SentStep, RedeliveryStep
<1>3. RedeliveryInv => RedeliveryNeedsFault
  BY DEF RedeliveryInv, RedeliveryNeedsFault
<1>4. QED
  BY <1>1, <1>2, <1>3, PTL DEF Spec

-----------------------------------------------------------------------------
LEMMA TargetInit == Init => TargetInv
  BY DEF Init, TargetInv, MisdeliveryOnlyByRace, NoRow

(* Nothing TargetInv says of d changes when these do not. *)
LEMMA AuthorisedStays ==
  ASSUME TypeOK, NEW d \in CmdIds, Authorised(d), UNCHANGED devices,
         cmd'[d].device = cmd[d].device, cmd'[d].reg = cmd[d].reg
  PROVE  Authorised(d)'
  BY DEF Authorised, Exists

LEMMA TargetStep ==
  TypeOK /\ SentInv /\ TargetInv /\ [Next]_vars => TargetInv'
<1> SUFFICES ASSUME TypeOK, SentInv, TargetInv, [Next]_vars PROVE TargetInv'
  OBVIOUS
<1> DEFINE Rest == UNCHANGED <<devices, cmd, outbox, sendPc, pc, batch, cur, target, raced>>
<1>1. CASE Rest
  BY <1>1 DEF TargetInv, Authorised, Exists, MisdeliveryOnlyByRace
<1>2. ASSUME NEW c \in CmdIds, NEW org \in Orgs, NEW id \in DeviceIds,
             NEW ttl \in Ttls, NEW s \in BOOLEAN, SendCheck(c, org, id, ttl, s)
      PROVE  TargetInv'
  <2>1. c \notin batch /\ UNCHANGED <<devices, outbox, pc, batch, cur, target, raced>>
    BY <1>2 DEF SendCheck, SentInv, pusher, history
  <2>2. Authorised(c)'
    BY <1>2 DEF SendCheck, InOrg, Exists, Authorised, TypeOK
  <2>3. \A d \in CmdIds \ {c} : cmd'[d] = cmd[d] /\ sendPc'[d] = sendPc[d]
    BY <1>2 DEF SendCheck, TypeOK
  <2>4. \A d \in CmdIds \ {c} : Authorised(d) => Authorised(d)'
    BY <2>1, <2>3, AuthorisedStays
  <2>5. pc \in {"put", "mark"} => cur \in CmdIds \ {c}
    BY <2>1 DEF TypeOK
  <2>6. QED
    BY <2>1, <2>2, <2>3, <2>4, <2>5 DEF TargetInv, MisdeliveryOnlyByRace
<1>3. ASSUME NEW c \in CmdIds, SendEnqueue(c) PROVE TargetInv'
  <2>1. PICK n \in RowIds : cmd' = [cmd EXCEPT ![c].id = n]
    BY <1>3 DEF SendEnqueue
  <2>2. \A d \in CmdIds : cmd'[d].device = cmd[d].device /\ cmd'[d].reg = cmd[d].reg
    BY <2>1, ZenonT(40) DEF TypeOK, Cmd
  <2>3. UNCHANGED <<devices, pc, batch, cur, target, raced>> /\ sendPc[c] = "checked"
    BY <1>3 DEF SendEnqueue, pusher, history
  <2>4. \A d \in CmdIds \ {c} : outbox'[d] = outbox[d] /\ sendPc'[d] = sendPc[d]
    BY <1>3 DEF SendEnqueue, TypeOK
  <2>5. \A d \in CmdIds : Authorised(d) => Authorised(d)'
    BY <2>2, <2>3, AuthorisedStays
  <2>6. pc \in {"put", "mark"} => cur \in CmdIds
    BY DEF TypeOK
  <2>7. QED
    BY <2>2, <2>3, <2>4, <2>5, <2>6 DEF TargetInv, MisdeliveryOnlyByRace
<1>4. ASSUME NEW c \in CmdIds, SendRefused(c) \/ SendFinish(c) \/ SendDropped(c)
      PROVE  TargetInv'
  <2>1. /\ UNCHANGED <<devices, cmd, outbox, pc, batch, cur, target, raced>>
        /\ \A d \in CmdIds : sendPc'[d] = "checked" => sendPc[d] = "checked"
    BY <1>4 DEF SendRefused, SendFinish, SendDropped, TypeOK, db, pusher, history
  <2>2. QED
    BY <2>1 DEF TargetInv, Authorised, Exists, MisdeliveryOnlyByRace
<1>5. ASSUME NEW c \in CmdIds, CancelDelete(c) PROVE TargetInv'
  <2>1. \A d \in CmdIds : outbox'[d].stored => outbox[d].stored
    BY <1>5 DEF CancelDelete, NoRow, TypeOK
  <2>2. QED
    BY <1>5, <2>1
    DEF CancelDelete, TargetInv, Authorised, Exists, MisdeliveryOnlyByRace, pusher, history
<1>6. CASE Drain
  BY <1>6 DEF Drain, Listed, AfterRow, TargetInv, Authorised, Exists,
              MisdeliveryOnlyByRace, db, handlers, history
<1>7. ASSUME NEW c \in CmdIds, Lookup(c) PROVE TargetInv'
  <2>1. UNCHANGED <<devices, cmd, outbox, sendPc, raced>> /\ batch' \subseteq batch
    BY <1>7 DEF Lookup, MissRow, SkipRow, db, handlers, history
  <2>2. MisdeliveryOnlyByRace'
    BY <1>7, <2>1 DEF Lookup, MissRow, SkipRow, AfterRow, TargetInv, Authorised,
                      MisdeliveryOnlyByRace
  <2>3. QED
    BY <2>1, <2>2 DEF TargetInv, Authorised, Exists
<1>8. CASE Put \/ Mark
  <2>1. UNCHANGED <<devices, cmd, sendPc, raced>> /\ batch' \subseteq batch
    BY <1>8 DEF Put, Mark, MissRow, SkipRow, db, handlers, history
  <2>2. MisdeliveryOnlyByRace'
    BY <1>8, <2>1 DEF Put, Mark, MissRow, SkipRow, AfterRow, TargetInv, MisdeliveryOnlyByRace
  <2>3. \A d \in CmdIds : outbox'[d].stored = outbox[d].stored
    <3>1. cur \in CmdIds
      BY <1>8 DEF Put, Mark, TypeOK
    <3>2. outbox' = outbox \/ outbox' = MarkDelivered(cur)
      BY <1>8 DEF Put, Mark, db
    <3>3. QED
      BY <3>1, <3>2, MarkEffect
  <2>4. QED
    BY <2>1, <2>2, <2>3 DEF TargetInv, Authorised, Exists
<1>9. CASE RecordAck
  <2>1. \A d \in CmdIds : outbox'[d].stored => outbox[d].stored
    BY <1>9 DEF RecordAck, AckRecorded, TypeOK
  <2>2. QED
    BY <1>9, <2>1 DEF RecordAck, TargetInv, Authorised, Exists, MisdeliveryOnlyByRace,
                      handlers, pusher, history
<1>10. ASSUME NEW z \in Zids, NEW org \in Orgs, RegisterDevice(z, org) PROVE TargetInv'
  <2>1. \A id \in DeviceIds : Exists(devices, id) => devices'[id] = devices[id]
    BY <1>10, MaxDeviceIdAssumption
    DEF RegisterDevice, IsNextId, Inserted, Exists, DeviceIds, TypeOK, Table
  <2>2. UNCHANGED <<cmd, outbox, sendPc, pc, batch, cur, target, raced>>
    BY <1>10 DEF RegisterDevice, handlers, pusher
  <2>3. \A d \in CmdIds : Authorised(d) => Authorised(d)'
    BY <2>1, <2>2 DEF Authorised, Exists
  <2>4. QED
    BY <2>2, <2>3 DEF TargetInv, MisdeliveryOnlyByRace
<1>11. ASSUME NEW id \in DeviceIds, DeleteDevice(id) PROVE TargetInv'
  <2>1. UNCHANGED <<cmd, sendPc, pc, batch, cur, target>>
    BY <1>11 DEF DeleteDevice, handlers, pusher
  <2>2. raced' = raced \cup InFlight(id)
    BY <1>11 DEF DeleteDevice
  <2>3. \A i \in DeviceIds \ {id} : devices'[i] = devices[i]
    BY <1>11 DEF DeleteDevice, Removed, TypeOK, Table
  <2>4. \A d \in CmdIds : cmd[d].device # id /\ Authorised(d) => Authorised(d)'
    BY <2>1, <2>3 DEF Authorised, Exists
  <2>5. \A d \in CmdIds : outbox'[d].stored => outbox[d].stored /\ cmd[d].device # id
    BY <1>11 DEF DeleteDevice, Cascade, NoRow
  <2>6. \A d \in CmdIds :
          cmd[d].device = id /\ (sendPc[d] = "checked" \/ d \in batch) => d \in raced'
    BY <2>2 DEF InFlight
  <2>7. QED
    BY <2>1, <2>2, <2>4, <2>5, <2>6 DEF TargetInv, MisdeliveryOnlyByRace
<1>12. CASE Crash
  <2>1. \A d \in CmdIds : sendPc'[d] = "checked" => sendPc[d] = "checked"
    BY <1>12 DEF Crash, TypeOK
  <2>2. QED
    BY <1>12, <2>1 DEF Crash, TargetInv, Authorised, Exists, MisdeliveryOnlyByRace,
                       db, history
<1>13. CASE WakeNotified \/ WakeTimer
  BY <1>13 DEF WakeNotified, WakeTimer, TargetInv, Authorised, Exists,
               MisdeliveryOnlyByRace, db, handlers, history
<1>14. QED
  <2>1. ASSUME NEW c \in CmdIds, CancelAudit(c) PROVE Rest
    BY <2>1 DEF CancelAudit, db, pusher, history
  <2>2. ASSUME NEW c \in CmdIds, NEW r \in Results, DeviceAck(c, r) PROVE Rest
    BY <2>2 DEF DeviceAck, db, handlers, pusher, history
  <2>3. ASSUME Tick \/ Restart \/ UNCHANGED vars PROVE Rest
    BY <2>3 DEF Tick, Restart, vars, db, handlers, pusher, history
  <2>4. ASSUME NEW a \in Actions, NEW c \in CmdIds, DismissCaller(a, c) PROVE Rest
    BY <2>4 DEF DismissCaller, db, pusher, history
  <2>5. QED
    BY <1>1, <1>2, <1>3, <1>4, <1>5, <1>6, <1>7, <1>8, <1>9, <1>10, <1>11, <1>12,
       <1>13, <2>1, <2>2, <2>3, <2>4 DEF Next, Send, Cancel, Push, Environment

(* A command is published only to the registration its sender was          *)
(* authorised for, unless the deletion of its device overtook the send     *)
(* handler or the pusher.                                                  *)
THEOREM Misdelivery == Spec => []MisdeliveryOnlyByRace
<1>1. Init => TypeOK /\ SentInv /\ TargetInv
  BY TypeInit, SentInit, TargetInit
<1>2. TypeOK /\ SentInv /\ TargetInv /\ [Next]_vars
        => (TypeOK /\ SentInv /\ TargetInv)'
  BY TypeStep, SentStep, TargetStep
<1>3. TargetInv => MisdeliveryOnlyByRace
  BY DEF TargetInv
<1>4. QED
  BY <1>1, <1>2, <1>3, PTL DEF Spec

-----------------------------------------------------------------------------
(* A row that is there was there before with the same fixed columns, and its *)
(* other columns were only filled in, unless it has just been enqueued.      *)
LEMMA RowBefore ==
  ASSUME TypeOK, SentInv, [Next]_vars, NEW d \in CmdIds, outbox'[d].stored
  PROVE  \/ SendEnqueue(d)
         \/ /\ outbox[d].stored /\ cmd'[d] = cmd[d]
            /\ outbox[d].delivered => outbox'[d].delivered
            /\ outbox'[d].ack = NoAck => outbox[d].ack = NoAck
<1> DEFINE Kept == /\ outbox[d].stored /\ cmd'[d] = cmd[d]
                   /\ outbox[d].delivered => outbox'[d].delivered
                   /\ outbox'[d].ack = NoAck => outbox[d].ack = NoAck
<1>1. CASE UNCHANGED <<cmd, outbox>>
  BY <1>1
<1>2. ASSUME NEW c \in CmdIds, NEW org \in Orgs, NEW id \in DeviceIds,
             NEW ttl \in Ttls, NEW s \in BOOLEAN, SendCheck(c, org, id, ttl, s)
      PROVE  Kept
  BY <1>2 DEF SendCheck, SentInv, TypeOK
<1>3. ASSUME NEW c \in CmdIds, SendEnqueue(c), c # d PROVE Kept
  BY <1>3 DEF SendEnqueue, TypeOK
<1>4. ASSUME NEW c \in CmdIds, CancelDelete(c) PROVE Kept
  BY <1>4 DEF CancelDelete, NoRow, TypeOK
<1>5. ASSUME Mark PROVE Kept
  <2>1. cur \in CmdIds /\ UNCHANGED cmd
    BY <1>5 DEF Mark, TypeOK
  <2>2. QED
    BY <1>5, <2>1, MarkEffect DEF Mark
<1>6. ASSUME RecordAck PROVE Kept
  <2> DEFINE Ack == [cmd : CmdIds, result : Results]
  <2>1. Head(ackq).result \in Results
    <3>1. \A a \in Ack : a.result \in Results
      OBVIOUS
    <3> HIDE DEF Ack
    <3>2. ackq \in Seq(Ack) /\ ackq # <<>>
      BY <1>6 DEF RecordAck, TypeOK, Ack
    <3>3. QED
      BY <3>1, <3>2
  <2>2. outbox'[d] = outbox[d]
        \/ /\ outbox[d].stored /\ outbox'[d].delivered
           /\ outbox'[d].ack = Head(ackq).result
    BY <1>6 DEF RecordAck, AckRecorded, TypeOK
  <2>3. UNCHANGED cmd
    BY <1>6 DEF RecordAck
  <2>4. QED
    BY <2>1, <2>2, <2>3, SentinelAssumption
<1>7. ASSUME NEW id \in DeviceIds, DeleteDevice(id) PROVE Kept
  BY <1>7 DEF DeleteDevice, Cascade, NoRow
<1>8. QED
  <2> DEFINE Rest == UNCHANGED <<cmd, outbox>>
  <2>1. ASSUME NEW c \in CmdIds,
               SendRefused(c) \/ SendFinish(c) \/ SendDropped(c) \/ CancelAudit(c)
        PROVE  Rest
    BY <2>1 DEF SendRefused, SendFinish, SendDropped, CancelAudit, db
  <2>2. ASSUME NEW c \in CmdIds, Lookup(c) PROVE Rest
    BY <2>2 DEF Lookup, db
  <2>3. ASSUME Drain \/ Put \/ WakeNotified \/ WakeTimer PROVE Rest
    BY <2>3 DEF Drain, Put, WakeNotified, WakeTimer, db
  <2>4. ASSUME Tick \/ Crash \/ Restart \/ UNCHANGED vars PROVE Rest
    BY <2>4 DEF Tick, Crash, Restart, vars, db
  <2>5. ASSUME NEW c \in CmdIds, NEW r \in Results, DeviceAck(c, r) PROVE Rest
    BY <2>5 DEF DeviceAck, db
  <2>6. ASSUME NEW z \in Zids, NEW org \in Orgs, RegisterDevice(z, org) PROVE Rest
    BY <2>6 DEF RegisterDevice
  <2>7. ASSUME NEW a \in Actions, NEW c \in CmdIds, DismissCaller(a, c) PROVE Rest
    BY <2>7 DEF DismissCaller, db
  <2>8. QED
    BY <1>1, <1>2, <1>3, <1>4, <1>5, <1>6, <1>7,
       <2>1, <2>2, <2>3, <2>4, <2>5, <2>6, <2>7 DEF Next, Send, Cancel, Push, Environment

(* Time passes in Tick alone. *)
LEMMA ClockEffect ==
  ASSUME TypeOK, [Next]_vars
  PROVE  now' = now \/ now' = now + 1
<1>1. ASSUME NEW c \in CmdIds, Send(c) \/ Cancel(c) PROVE UNCHANGED now
  BY <1>1 DEF Send, Cancel, SendCheck, SendEnqueue, SendRefused, SendFinish,
              SendDropped, CancelDelete, CancelAudit
<1>2. ASSUME NEW c \in CmdIds, Lookup(c) PROVE UNCHANGED now
  BY <1>2 DEF Lookup
<1>3. ASSUME Drain \/ Put \/ Mark \/ WakeNotified \/ WakeTimer \/ RecordAck
      PROVE  UNCHANGED now
  BY <1>3 DEF Drain, Put, Mark, WakeNotified, WakeTimer, RecordAck
<1>4. ASSUME Environment PROVE now' = now \/ now' = now + 1
  BY <1>4 DEF Environment, RegisterDevice, DeviceAck, DeleteDevice,
              DismissCaller, Tick, Crash, Restart
<1>5. QED
  BY <1>1, <1>2, <1>3, <1>4 DEF Next, Push, vars

(* Only an enqueue makes a row pending. *)
LEMMA PendingBefore ==
  ASSUME TypeOK, SentInv, [Next]_vars, NEW d \in CmdIds, Pending(d)'
  PROVE  (Pending(d) /\ cmd'[d] = cmd[d]) \/ SendEnqueue(d)
<1>1. now' >= now /\ now \in Nat /\ now' \in Nat /\ cmd[d].expires \in Nat
  <2>1. now \in Nat /\ cmd[d] \in Cmd
    BY DEF TypeOK
  <2>2. cmd[d].expires \in Nat
    BY <2>1 DEF Cmd
  <2>3. QED
    BY <2>1, <2>2, ClockEffect
<1>2. QED
  BY <1>1, RowBefore DEF Pending, Listed

(* How often a command was published only grows, and only by a put of it. *)
LEMMA PubsEffect ==
  ASSUME TypeOK, [Next]_vars, NEW d \in CmdIds
  PROVE  \/ pubs'[d] = pubs[d]
         \/ /\ Put /\ cur = d /\ cmd[d].sendable
            /\ pubs'[d] = pubs[d] + 1 /\ pc' = "mark" /\ cur' = d
<1>1. CASE UNCHANGED pubs
  BY <1>1
<1>2. CASE Put
  BY <1>2 DEF Put, TypeOK
<1>3. QED
  <2>1. ASSUME NEW c \in CmdIds, Send(c) \/ Cancel(c) PROVE UNCHANGED pubs
    BY <2>1 DEF Send, Cancel, SendCheck, SendEnqueue, SendRefused, SendFinish,
                SendDropped, CancelDelete, CancelAudit, history
  <2>2. ASSUME NEW c \in CmdIds, Lookup(c) PROVE UNCHANGED pubs
    BY <2>2 DEF Lookup, history
  <2>3. ASSUME Drain \/ Mark \/ WakeNotified \/ WakeTimer \/ RecordAck
        PROVE  UNCHANGED pubs
    BY <2>3 DEF Drain, Mark, WakeNotified, WakeTimer, RecordAck, history
  <2>4. ASSUME Environment PROVE UNCHANGED pubs
    BY <2>4 DEF Environment, RegisterDevice, DeviceAck, DeleteDevice,
                DismissCaller, Tick, Crash, Restart, history
  <2>5. QED
    BY <1>1, <1>2, <2>1, <2>2, <2>3, <2>4 DEF Next, Push, vars, history

-----------------------------------------------------------------------------
LEMMA WakeInit == Init => WakeInv
  BY DEF Init, WakeInv

(* The row d is a lost wakeup in the making if WakeInv does not cover it. *)
(* What was passed over is remembered. *)
LEMMA MissedGrows ==
  ASSUME TypeOK, [Next]_vars
  PROVE  missed \subseteq missed'
<1>1. ASSUME NEW c \in CmdIds, Send(c) \/ Cancel(c) PROVE missed \subseteq missed'
  BY <1>1 DEF Send, Cancel, SendCheck, SendEnqueue, SendRefused, SendFinish,
              SendDropped, CancelDelete, CancelAudit, AuditInsert, history
<1>2. ASSUME NEW c \in CmdIds, Lookup(c) PROVE missed \subseteq missed'
  BY <1>2 DEF Lookup, MissRow
<1>3. ASSUME Drain \/ Put \/ Mark \/ WakeNotified \/ WakeTimer \/ RecordAck
      PROVE  missed \subseteq missed'
  BY <1>3 DEF Drain, Put, Mark, WakeNotified, WakeTimer, RecordAck, MissRow, history
<1>4. ASSUME Environment PROVE missed \subseteq missed'
  BY <1>4 DEF Environment, RegisterDevice, DeviceAck, DeleteDevice,
              DismissCaller, Tick, Crash, Restart, history
<1>5. QED
  BY <1>1, <1>2, <1>3, <1>4 DEF Next, Push, vars, history

LEMMA WakeStep ==
  TypeOK /\ SentInv /\ RowInv /\ WireInv /\ WakeInv /\ [Next]_vars => WakeInv'
<1> SUFFICES ASSUME TypeOK, SentInv, RowInv, WireInv, WakeInv, [Next]_vars,
                    up', pc' # "drain", ~ permit',
                    NEW d \in CmdIds, Pending(d)', cmd'[d].sendable, pubs'[d] = 0
             PROVE  \/ d \in batch' \/ sendPc'[d] \in {"enqueued", "dropped"}
                    \/ <<"push", d>> \in missed'
  BY DEF WakeInv
<1>0. missed \subseteq missed'
  BY MissedGrows
<1>1. ASSUME SendEnqueue(d) PROVE sendPc'[d] = "enqueued"
  BY <1>1 DEF SendEnqueue, TypeOK
<1>2. CASE ~ SendEnqueue(d)
  <2>1. Pending(d) /\ cmd'[d] = cmd[d]
    BY <1>2, PendingBefore
  <2>2. pubs[d] = 0 /\ cmd[d].sendable
    BY <2>1, PubsEffect DEF TypeOK
  <2> DEFINE Goal == \/ d \in batch' \/ sendPc'[d] \in {"enqueued", "dropped"}
                     \/ <<"push", d>> \in missed'
  <2>3. ASSUME up, pc # "drain", ~ permit
        PROVE  d \in batch \/ sendPc[d] \in {"enqueued", "dropped"} \/ Goal
    BY <1>0, <2>1, <2>2, <2>3 DEF WakeInv
  <2>4. CASE UNCHANGED <<up, pc, permit, batch, sendPc>>
    BY <2>3, <2>4
  <2>5. ASSUME NEW c \in CmdIds, Send(c)
        PROVE  Goal
    <3>1. UNCHANGED <<up, pc, batch>> /\ (~ permit' => ~ permit)
      <4>1. permit' = TRUE \/ permit' = permit
        BY <2>5 DEF Send, SendCheck, SendEnqueue, SendRefused, SendFinish, SendDropped
      <4>2. UNCHANGED <<up, pc, batch>>
        BY <2>5 DEF Send, SendCheck, SendEnqueue, SendRefused, SendFinish, SendDropped,
                    pusher
      <4>3. ~ permit' => ~ permit
        <5>1. CASE permit' = TRUE
          BY <5>1
        <5>2. CASE permit' = permit
          BY <5>2
        <5>3. QED
          BY <4>1, <5>1, <5>2
      <4>4. QED
        BY <4>2, <4>3
    <3>2. sendPc[d] \notin {"idle", "checked"}
      BY <2>1 DEF SentInv, Pending, Listed
    <3>3. sendPc[d] = "enqueued" => sendPc'[d] \in {"enqueued", "dropped"}
      BY <2>5 DEF Send, SendCheck, SendEnqueue, SendRefused, SendFinish, SendDropped,
                  TypeOK
    <3>4. sendPc[d] = "dropped" => sendPc'[d] = "dropped"
      BY <2>5 DEF Send, SendCheck, SendEnqueue, SendRefused, SendFinish, SendDropped,
                  TypeOK
    <3>5. QED
      BY <2>3, <3>1, <3>2, <3>3, <3>4
  <2>6. CASE Drain
    BY <2>1, <2>6, PendingWasListed DEF Drain
  <2>7. ASSUME NEW c \in CmdIds, Lookup(c)
        PROVE  Goal
    <3>1. d = c => Exists(devices, cmd[c].device)
      BY <2>1 DEF RowInv, Pending, Listed
    <3>2. d \in batch => d \in batch' \/ <<"push", d>> \in missed'
      BY <2>7, <3>1 DEF Lookup, MissRow, SkipRow
    <3>3. QED
      BY <2>3, <2>7, <3>2 DEF Lookup, handlers
  <2>8. CASE Put
    BY <2>2, <2>3, <2>8 DEF Put, MissRow, SkipRow, handlers
  <2>9. CASE Mark
    <3>1. d # cur
      BY <2>2, <2>9 DEF Mark, WireInv
    <3>2. QED
      BY <2>3, <2>9, <3>1 DEF Mark, SkipRow, handlers
  <2>10. CASE WakeNotified \/ WakeTimer
    BY <2>10 DEF WakeNotified, WakeTimer
  <2>11. CASE Crash
    BY <2>11 DEF Crash
  <2>12. CASE Restart
    BY <2>12 DEF Restart, pusher, TypeOK
  <2>13. QED
    <3> DEFINE Rest == UNCHANGED <<up, pc, permit, batch, sendPc>>
    <3>1. ASSUME NEW c \in CmdIds, Cancel(c) PROVE Rest
      BY <3>1 DEF Cancel, CancelDelete, CancelAudit, pusher
    <3>2. ASSUME NEW z \in Zids, NEW org \in Orgs, RegisterDevice(z, org) PROVE Rest
      BY <3>2 DEF RegisterDevice, handlers, pusher
    <3>3. ASSUME NEW c \in CmdIds, NEW r \in Results, DeviceAck(c, r) PROVE Rest
      BY <3>3 DEF DeviceAck, handlers, pusher
    <3>4. ASSUME NEW id \in DeviceIds, DeleteDevice(id) PROVE Rest
      BY <3>4 DEF DeleteDevice, handlers, pusher
    <3>5. ASSUME RecordAck \/ Tick \/ UNCHANGED vars PROVE Rest
      BY <3>5 DEF RecordAck, Tick, vars, handlers, pusher
    <3>6. ASSUME NEW a \in Actions, NEW c \in CmdIds, DismissCaller(a, c) PROVE Rest
      BY <3>6 DEF DismissCaller, pusher
    <3>7. QED
      BY <2>4, <2>5, <2>6, <2>7, <2>8, <2>9, <2>10, <2>11, <2>12,
         <3>1, <3>2, <3>3, <3>4, <3>5, <3>6 DEF Next, Push, Environment
<1>3. QED
  BY <1>1, <1>2

(* The pusher does not go to sleep on a row that it was notified of. *)
THEOREM Wakeup == Spec => []NoLostWakeup
<1>1. Init => TypeOK /\ SentInv /\ RowInv /\ WireInv /\ WakeInv
  BY TypeInit, SentInit, RowInit, WireInit, WakeInit
<1>2. TypeOK /\ SentInv /\ RowInv /\ WireInv /\ WakeInv /\ [Next]_vars
        => (TypeOK /\ SentInv /\ RowInv /\ WireInv /\ WakeInv)'
  BY TypeStep, SentStep, RowStep, WireStep, WakeStep
<1>3. TypeOK /\ WakeInv => NoLostWakeup
  BY DEF WakeInv, NoLostWakeup, TypeOK
<1>4. QED
  BY <1>1, <1>2, <1>3, PTL DEF Spec

-----------------------------------------------------------------------------
(***************************************************************************)
(* Commands and each other, commands and the audit table: order, the cap,  *)
(* audit rows; and that a settled command stays off the wire.              *)
(***************************************************************************)

(* Once a command's handler has enqueued it (or given up), the fixed columns *)
(* of its row never change again.                                            *)
LEMMA FixedColumns ==
  ASSUME TypeOK, [Next]_vars, NEW d \in CmdIds, sendPc[d] \notin {"idle", "checked"}
  PROVE  cmd'[d] = cmd[d]
<1>1. ASSUME NEW c \in CmdIds, Send(c) PROVE cmd'[d] = cmd[d]
  <2>1. ASSUME NEW org \in Orgs, NEW id \in DeviceIds,
               NEW ttl \in Ttls, NEW s \in BOOLEAN, SendCheck(c, org, id, ttl, s)
        PROVE  cmd'[d] = cmd[d]
    BY <2>1 DEF SendCheck, TypeOK
  <2>2. ASSUME SendEnqueue(c) PROVE cmd'[d] = cmd[d]
    BY <2>2 DEF SendEnqueue, TypeOK
  <2>3. ASSUME SendRefused(c) \/ SendFinish(c) \/ SendDropped(c) PROVE cmd'[d] = cmd[d]
    BY <2>3 DEF SendRefused, SendFinish, SendDropped, db
  <2>4. QED
    BY <1>1, <2>1, <2>2, <2>3 DEF Send
<1>2. ASSUME NEW c \in CmdIds, Cancel(c) PROVE UNCHANGED cmd
  BY <1>2 DEF Cancel, CancelDelete, CancelAudit
<1>3. ASSUME NEW c \in CmdIds, Lookup(c) PROVE UNCHANGED cmd
  BY <1>3 DEF Lookup, db
<1>4. ASSUME Drain \/ Put \/ Mark \/ WakeNotified \/ WakeTimer \/ RecordAck
      PROVE  UNCHANGED cmd
  BY <1>4 DEF Drain, Put, Mark, WakeNotified, WakeTimer, RecordAck, db
<1>5. ASSUME Environment PROVE UNCHANGED cmd
  BY <1>5 DEF Environment, RegisterDevice, DeviceAck, DeleteDevice,
              DismissCaller, Tick, Crash, Restart, db
<1>6. QED
  BY <1>1, <1>2, <1>3, <1>4, <1>5 DEF Next, Push, vars, db

(* A new row has a rowid above every other. *)
LEMMA EnqueueLast ==
  ASSUME TypeOK, NEW c \in CmdIds, SendEnqueue(c)
  PROVE  /\ \A d \in CmdIds : outbox[d].stored => cmd[d].id < cmd'[c].id
         /\ \A d \in CmdIds \ {c} : cmd'[d] = cmd[d] /\ outbox'[d] = outbox[d]
         /\ cmd'[c].id \in RowIds /\ cmd'[c].device = cmd[c].device
<1>1. PICK n \in RowIds : IsNextRowId(n) /\ cmd' = [cmd EXCEPT ![c].id = n]
  BY DEF SendEnqueue
<1>2. cmd'[c].id = n /\ cmd'[c].device = cmd[c].device
  BY <1>1 DEF TypeOK, Cmd
<1>3. QED
  BY <1>1, <1>2 DEF IsNextRowId, SendEnqueue, TypeOK

(* A step reads new rows into the batch only in Drain. *)
LEMMA BatchBefore ==
  ASSUME TypeOK, [Next]_vars, NEW d \in batch'
  PROVE  d \in batch \/ Drain
<1>1. ASSUME NEW c \in CmdIds, Send(c) \/ Cancel(c) PROVE UNCHANGED batch
  BY <1>1 DEF Send, Cancel, SendCheck, SendEnqueue, SendRefused, SendFinish,
              SendDropped, CancelDelete, CancelAudit, pusher
<1>2. ASSUME NEW c \in CmdIds, Lookup(c) PROVE batch' \subseteq batch
  BY <1>2 DEF Lookup, MissRow, SkipRow
<1>3. ASSUME Put \/ Mark PROVE batch' \subseteq batch
  BY <1>3 DEF Put, Mark, MissRow, SkipRow
<1>4. ASSUME WakeNotified \/ WakeTimer \/ RecordAck PROVE UNCHANGED batch
  BY <1>4 DEF WakeNotified, WakeTimer, RecordAck, pusher
<1>5. ASSUME Environment PROVE batch' \subseteq batch
  BY <1>5 DEF Environment, RegisterDevice, DeviceAck, DeleteDevice,
              DismissCaller, Tick, Crash, Restart, pusher
<1>6. QED
  BY <1>1, <1>2, <1>3, <1>4, <1>5 DEF Next, Push, vars, pusher

(* A row leaves a batch that goes on only if its device is gone, its topic *)
(* cannot be sent, it was published, or an error made the pusher skip it.  *)
LEMMA BatchAfter ==
  ASSUME TypeOK, RowInv, WireInv, [Next]_vars, NEW d \in batch,
         outbox[d].stored, cmd[d].sendable, batch' # {}
  PROVE  d \in batch' \/ pubs[d] > 0 \/ <<"push", d>> \in missed'
<1>1. ASSUME NEW c \in CmdIds, Send(c) \/ Cancel(c) PROVE UNCHANGED batch
  BY <1>1 DEF Send, Cancel, SendCheck, SendEnqueue, SendRefused, SendFinish,
              SendDropped, CancelDelete, CancelAudit, pusher
<1>2. ASSUME NEW c \in CmdIds, Lookup(c) 
      PROVE  d \in batch' \/ <<"push", d>> \in missed'
  BY <1>2 DEF Lookup, MissRow, SkipRow, RowInv
<1>3. ASSUME Put PROVE d \in batch' \/ <<"push", d>> \in missed'
  BY <1>3 DEF Put, MissRow, SkipRow
<1>4. ASSUME Mark PROVE d \in batch' \/ pubs[d] > 0
  BY <1>4 DEF Mark, SkipRow, WireInv
<1>5. ASSUME WakeNotified \/ WakeTimer \/ RecordAck PROVE UNCHANGED batch
  BY <1>5 DEF WakeNotified, WakeTimer, RecordAck, pusher
<1>6. ASSUME Environment PROVE UNCHANGED batch
  BY <1>6 DEF Environment, RegisterDevice, DeviceAck, DeleteDevice,
              DismissCaller, Tick, Crash, Restart, pusher
<1>7. ASSUME Drain PROVE FALSE
  BY <1>7 DEF Drain, TypeOK
<1>8. QED
  BY <1>1, <1>2, <1>3, <1>4, <1>5, <1>6, <1>7 DEF Next, Push, vars, pusher

-----------------------------------------------------------------------------
LEMMA OrderInit == Init => OrderInv
  BY DEF Init, OrderInv, FirstPutsInOrder, NoRow

LEMMA OrderStep ==
  TypeOK /\ SentInv /\ RowInv /\ WireInv /\ OrderInv /\ [Next]_vars => OrderInv'
<1> SUFFICES ASSUME TypeOK, SentInv, RowInv, WireInv, OrderInv, [Next]_vars
             PROVE  OrderInv'
  OBVIOUS
<1> DEFINE Settled(c) == sendPc[c] \notin {"idle", "checked"}
<1>0. TypeOK' /\ SentInv' /\ \A c \in CmdIds : pubs[c] \in Nat /\ pubs'[c] \in Nat
  BY TypeStep, SentStep DEF TypeOK
<1>1. \A c \in CmdIds : pubs[c] > 0 => pubs'[c] > 0
  BY <1>0, PubsEffect
<1>2. missed \subseteq missed'
  BY MissedGrows
<1>3. \A c \in CmdIds : outbox[c].stored \/ c \in batch \/ pubs[c] > 0 =>
                          cmd'[c] = cmd[c]
  <2>1. \A c \in CmdIds : outbox[c].stored \/ c \in batch \/ pubs[c] > 0 =>
                            sendPc[c] \notin {"idle", "checked"}
    BY <1>0 DEF SentInv
  <2>2. QED
    BY <2>1, FixedColumns
<1>4. ASSUME NEW c \in CmdIds, NEW d \in batch',
             Pending(c)', cmd'[c].sendable, outbox'[d].stored, cmd'[c].id < cmd'[d].id
      PROVE  c \in batch' \/ pubs'[c] > 0 \/ <<"push", c>> \in missed'
  <2>1. d \in CmdIds
    BY <1>0, <1>4 DEF TypeOK
  <2>2. CASE Drain
    <3>1. batch' = {e \in CmdIds : Listed(e, since)}
      BY <1>4, <2>2 DEF Drain
    <3>2. Pending(c)' <=> Pending(c)
      BY <2>2 DEF Drain, Pending, Listed, db
    <3>3. QED
      BY <1>0, <1>4, <3>1, <3>2, PendingWasListed
  <2>3. CASE ~ Drain
    <3>1. d \in batch /\ sendPc[d] \notin {"idle", "checked"} /\ cmd'[d] = cmd[d]
      BY <1>3, <1>4, <2>1, <2>3, BatchBefore DEF SentInv
    <3>2. outbox[d].stored
      BY <1>4, <2>1, <3>1, RowBefore DEF SendEnqueue
    <3>3. ~ SendEnqueue(c)
      <4>1. SendEnqueue(c) => cmd[d].id < cmd'[c].id /\ cmd'[c].id \in RowIds
        BY <2>1, <3>2, EnqueueLast
      <4>2. cmd[d].id \in RowIds
        BY <2>1, <3>1 DEF SentInv
      <4>3. QED
        BY <1>4, <3>1, <4>1, <4>2, FS_CardinalityType, FiniteCmdIds DEF RowIds
    <3>4. Pending(c) /\ cmd'[c] = cmd[c]
      BY <1>4, <3>3, PendingBefore
    <3>5. c \in batch \/ pubs[c] > 0 \/ <<"push", c>> \in missed
      BY <1>4, <3>1, <3>2, <3>4 DEF OrderInv
    <3>6. CASE c \in batch
      BY <1>1, <1>4, <3>4, <3>6, BatchAfter DEF Pending, Listed
    <3>7. QED
      BY <1>1, <1>2, <3>5, <3>6
  <2>4. QED
    BY <2>2, <2>3
<1>5. ASSUME pc' \in {"put", "mark"} PROVE IsFirst(cur)'
  <2>1. ASSUME NEW c \in CmdIds, Lookup(c) PROVE IsFirst(cur)'
    BY <1>5, <2>1 DEF Lookup, MissRow, SkipRow, AfterRow, IsFirst, db
  <2>2. ASSUME Put PROVE IsFirst(cur)'
    BY <1>5, <2>2 DEF Put, MissRow, SkipRow, AfterRow, IsFirst, OrderInv, db
  <2>3. ASSUME UNCHANGED <<pc, batch, cur>> PROVE IsFirst(cur)'
    <3>1. cur \in batch /\ IsFirst(cur) /\ batch \in SUBSET CmdIds
      BY <1>5, <2>3 DEF TypeOK, OrderInv
    <3>2. QED
      BY <1>3, <2>3, <3>1 DEF IsFirst
  <2>4. ASSUME Drain \/ Mark \/ WakeNotified \/ WakeTimer \/ Crash PROVE FALSE
    BY <1>5, <2>4 DEF Drain, Mark, SkipRow, AfterRow, WakeNotified, WakeTimer, Crash
  <2>5. QED
    <3>1. ASSUME NEW c \in CmdIds, Send(c) \/ Cancel(c) PROVE UNCHANGED <<pc, batch, cur>>
      BY <3>1 DEF Send, Cancel, SendCheck, SendEnqueue, SendRefused, SendFinish,
                  SendDropped, CancelDelete, CancelAudit, pusher
    <3>2. ASSUME RecordAck \/ UNCHANGED vars PROVE UNCHANGED <<pc, batch, cur>>
      BY <3>2 DEF RecordAck, vars, pusher
    <3>3. ASSUME Environment PROVE UNCHANGED <<pc, batch, cur>> \/ Crash
      BY <3>3 DEF Environment, RegisterDevice, DeviceAck, DeleteDevice,
                  DismissCaller, Tick, Restart, pusher
    <3>4. QED
      BY <2>1, <2>2, <2>3, <2>4, <3>1, <3>2, <3>3 DEF Next, Push
<1>6. ASSUME NEW c \in CmdIds, NEW d \in CmdIds,
             Pending(c)', cmd'[c].sendable, outbox'[d].stored,
             cmd'[d].device = cmd'[c].device, cmd'[c].id < cmd'[d].id, pubs'[d] > 0
      PROVE  pubs'[c] > 0 \/ <<"push", c>> \in missed'
  <2>1. ~ SendEnqueue(d)
    <3>1. SendEnqueue(d) => pubs[d] = 0 /\ pubs'[d] = pubs[d]
      BY DEF SendEnqueue, SentInv, history
    <3>2. QED
      BY <1>6, <3>1
  <2>2. outbox[d].stored /\ cmd'[d] = cmd[d] /\ cmd[d].id \in RowIds
    BY <1>6, <2>1, RowBefore DEF SentInv
  <2>3. ~ SendEnqueue(c)
    <3>1. SendEnqueue(c) => cmd[d].id < cmd'[c].id /\ cmd'[c].id \in RowIds
      BY <2>2, EnqueueLast
    <3>2. QED
      BY <1>6, <2>2, <3>1, FS_CardinalityType, FiniteCmdIds DEF RowIds
  <2>4. Pending(c) /\ cmd'[c] = cmd[c]
    BY <1>6, <2>3, PendingBefore
  <2>5. CASE pubs'[d] = pubs[d]
    BY <1>1, <1>2, <1>6, <2>2, <2>4, <2>5 DEF OrderInv, FirstPutsInOrder
  <2>6. CASE Put /\ cur = d
    <3>1. d \in batch /\ IsFirst(d)
      BY <2>6 DEF Put, TypeOK, OrderInv
    <3>2. c \in batch \/ pubs[c] > 0 \/ <<"push", c>> \in missed
      BY <1>6, <2>2, <2>4, <3>1 DEF OrderInv
    <3>3. c \notin batch
      <4>1. c \in batch => cmd[d].id <= cmd[c].id /\ cmd[c].id \in RowIds
        BY <3>1 DEF IsFirst, SentInv
      <4>2. QED
        BY <1>6, <2>2, <2>4, <4>1, FS_CardinalityType, FiniteCmdIds DEF RowIds
    <3>4. QED
      BY <1>1, <1>2, <3>2, <3>3
  <2>7. QED
    BY <2>5, <2>6, PubsEffect
<1>7. QED
  BY <1>4, <1>5, <1>6 DEF OrderInv, FirstPutsInOrder

(* Commands waiting for one device first go on the wire in the order in    *)
(* which they were accepted.                                               *)
THEOREM FirstPutOrder == Spec => []FirstPutsInOrder
<1>1. Init => TypeOK /\ SentInv /\ RowInv /\ WireInv /\ OrderInv
  BY TypeInit, SentInit, RowInit, WireInit, OrderInit
<1>2. TypeOK /\ SentInv /\ RowInv /\ WireInv /\ OrderInv /\ [Next]_vars
        => (TypeOK /\ SentInv /\ RowInv /\ WireInv /\ OrderInv)'
  BY TypeStep, SentStep, RowStep, WireStep, OrderStep
<1>3. OrderInv => FirstPutsInOrder
  BY DEF OrderInv
<1>4. QED
  BY <1>1, <1>2, <1>3, PTL DEF Spec

-----------------------------------------------------------------------------
LEMMA AuditStep ==
  TypeOK /\ SentInv /\ RowInv /\ StoredRowsAudited /\ [Next]_vars => StoredRowsAudited'
<1> SUFFICES ASSUME TypeOK, SentInv, RowInv, StoredRowsAudited, [Next]_vars,
                    NEW d \in CmdIds, outbox'[d].stored, sendPc'[d] = "done"
             PROVE  <<"cmd.send", d>> \in audit' \cup missed' \cup dismissed'
  BY DEF StoredRowsAudited
<1> DEFINE Kept == /\ audit \cup missed \subseteq audit' \cup missed'
                  /\ dismissed \subseteq dismissed'
<1>1. ~ SendEnqueue(d)
  BY DEF SendEnqueue, TypeOK
<1>2. outbox[d].stored
  BY <1>1, RowBefore
<1>3. CASE SendFinish(d)
  BY <1>2, <1>3, AuditEffect DEF SendFinish, RowInv, Actions
<1>4. ASSUME sendPc[d] = "done", Kept
      PROVE  <<"cmd.send", d>> \in audit' \cup missed' \cup dismissed'
  BY <1>2, <1>4 DEF StoredRowsAudited
<1>5. ASSUME NEW c \in CmdIds, NEW org \in Orgs, NEW id \in DeviceIds,
             NEW ttl \in Ttls, NEW s \in BOOLEAN, SendCheck(c, org, id, ttl, s)
      PROVE  sendPc[d] = "done" /\ Kept
  BY <1>5 DEF SendCheck, TypeOK, history
<1>6. ASSUME NEW c \in CmdIds, SendEnqueue(c) \/ SendRefused(c) \/ SendDropped(c)
      PROVE  sendPc[d] = "done" /\ Kept
  BY <1>6 DEF SendEnqueue, SendRefused, SendDropped, TypeOK, db, history
<1>7. ASSUME NEW c \in CmdIds, SendFinish(c), c # d
      PROVE  sendPc[d] = "done" /\ Kept
  BY <1>7, AuditEffect DEF SendFinish, TypeOK, Actions
<1>8. ASSUME NEW c \in CmdIds, Cancel(c)
      PROVE  sendPc[d] = "done" /\ Kept
  BY <1>8, AuditEffect DEF Cancel, CancelDelete, CancelAudit, history, Actions
<1>9. ASSUME Push \/ RecordAck \/ UNCHANGED vars
      PROVE  sendPc[d] = "done" /\ Kept
  BY <1>9, MissedGrows DEF Push, Drain, Lookup, Put, Mark, WakeNotified, WakeTimer,
                           RecordAck, vars, db, handlers
<1>10. ASSUME Environment
       PROVE  sendPc[d] = "done" /\ Kept
  <2>1. CASE Crash
    <3>1. /\ sendPc'[d] = IF sendPc[d] \in {"checked", "enqueued"}
                          THEN "dropped" ELSE sendPc[d]
          /\ UNCHANGED <<audit, missed, dismissed>>
      BY <2>1 DEF Crash, db, history
    <3>2. QED
      BY <3>1
  <2>2. CASE ~ Crash
    <3>1. UNCHANGED <<audit, sendPc, missed>> /\ dismissed \subseteq dismissed'
      BY <1>10, <2>2 DEF Environment, RegisterDevice, DeviceAck,
                         DeleteDevice, DismissCaller, Tick, Restart, db, handlers, history
    <3>2. QED
      BY <3>1
  <2>3. QED
    BY <2>1, <2>2
<1>11. QED
  BY <1>3, <1>4, <1>5, <1>6, <1>7, <1>8, <1>9, <1>10 DEF Next, Send

(* The audit row of a command whose sender was answered is never missing   *)
(* while the command is in the table, unless an error lost it or the sender *)
(* was deleted before it was inserted.                                     *)
THEOREM Audited == Spec => []StoredRowsAudited
<1>1. Init => TypeOK /\ SentInv /\ RowInv /\ StoredRowsAudited
  <2>1. Init => StoredRowsAudited
    BY DEF Init, StoredRowsAudited, NoRow
  <2>2. QED
    BY <2>1, TypeInit, SentInit, RowInit
<1>2. TypeOK /\ SentInv /\ RowInv /\ StoredRowsAudited /\ [Next]_vars
        => (TypeOK /\ SentInv /\ RowInv /\ StoredRowsAudited)'
  BY TypeStep, SentStep, RowStep, AuditStep
<1>3. QED
  BY <1>1, <1>2, PTL DEF Spec

-----------------------------------------------------------------------------
(* Only an enqueue for the device adds to the rows counted against its cap. *)
LEMMA UnackedGrows ==
  ASSUME TypeOK, SentInv, [Next]_vars, NEW id \in DeviceIds
  PROVE  \/ Unacked(id)' \subseteq Unacked(id)
         \/ \E c \in CmdIds : /\ SendEnqueue(c) /\ cmd[c].device = id
                              /\ Unacked(id)' \subseteq Unacked(id) \cup {c}
<1>1. ASSUME NEW d \in Unacked(id)'
      PROVE  d \in Unacked(id) \/ (SendEnqueue(d) /\ cmd[d].device = id)
  <2>1. d \in CmdIds /\ outbox'[d].stored /\ cmd'[d].device = id /\ outbox'[d].ack = NoAck
    BY <1>1 DEF Unacked
  <2>2. CASE SendEnqueue(d)
    BY <2>1, <2>2, EnqueueLast
  <2>3. CASE ~ SendEnqueue(d)
    BY <2>1, <2>3, RowBefore DEF Unacked
  <2>4. QED
    BY <2>2, <2>3
<1>2. ASSUME NEW c \in CmdIds, NEW d \in CmdIds, SendEnqueue(c), SendEnqueue(d)
      PROVE  c = d
  BY <1>2 DEF SendEnqueue, TypeOK
<1>3. \A d \in Unacked(id)' : d \in CmdIds
  BY DEF Unacked
<1>4. CASE \E c \in CmdIds : SendEnqueue(c) /\ cmd[c].device = id
  BY <1>1, <1>2, <1>3, <1>4
<1>5. CASE ~ \E c \in CmdIds : SendEnqueue(c) /\ cmd[c].device = id
  BY <1>1, <1>3, <1>5
<1>6. QED
  BY <1>4, <1>5

LEMMA CapStep == TypeOK /\ SentInv /\ WithinCap /\ [Next]_vars => WithinCap'
<1> SUFFICES ASSUME TypeOK, SentInv, WithinCap, [Next]_vars, NEW id \in DeviceIds
             PROVE  Cardinality(Unacked(id)') <= MaxPerDevice
  BY DEF WithinCap
<1>1. Unacked(id) \subseteq CmdIds /\ IsFiniteSet(Unacked(id))
  BY FiniteCmdIds, FS_Subset DEF Unacked
<1>2. Cardinality(Unacked(id)) \in Nat /\ Cardinality(Unacked(id)) <= MaxPerDevice
  BY <1>1, FS_CardinalityType DEF WithinCap
<1>3. MaxPerDevice \in Nat
  BY BoundsAssumption
<1>4. CASE Unacked(id)' \subseteq Unacked(id)
  <2>1. /\ IsFiniteSet(Unacked(id)')
        /\ Cardinality(Unacked(id)') <= Cardinality(Unacked(id))
    BY <1>1, <1>4, FS_Subset
  <2>2. Cardinality(Unacked(id)') \in Nat
    BY <2>1, FS_CardinalityType
  <2>3. QED
    BY <1>2, <1>3, <2>1, <2>2
<1>5. ASSUME NEW c \in CmdIds, SendEnqueue(c), cmd[c].device = id,
             Unacked(id)' \subseteq Unacked(id) \cup {c}
      PROVE  Cardinality(Unacked(id)') <= MaxPerDevice
  <2>1. Cardinality(Unacked(id)) < MaxPerDevice
    BY <1>2, <1>3, <1>5 DEF SendEnqueue, Full
  <2>2. c \notin Unacked(id)
    BY <1>5 DEF SendEnqueue, SentInv, Unacked
  <2>3. /\ IsFiniteSet(Unacked(id) \cup {c})
        /\ Cardinality(Unacked(id) \cup {c}) = Cardinality(Unacked(id)) + 1
    BY <1>1, <2>2, FS_AddElement
  <2>4. /\ IsFiniteSet(Unacked(id)')
        /\ Cardinality(Unacked(id)') <= Cardinality(Unacked(id) \cup {c})
    BY <1>5, <2>3, FS_Subset
  <2>5. Cardinality(Unacked(id)') \in Nat
    BY <2>4, FS_CardinalityType
  <2>6. QED
    BY <1>2, <1>3, <2>1, <2>3, <2>4, <2>5
<1>6. QED
  BY <1>4, <1>5, UnackedGrows

(* The cap holds in every state although enqueue is the only writer that   *)
(* looks at it.                                                            *)
THEOREM Cap == Spec => []WithinCap
<1>1. Init => TypeOK /\ SentInv /\ WithinCap
  <2>1. ASSUME Init, NEW id \in DeviceIds
        PROVE  Cardinality(Unacked(id)) <= MaxPerDevice
    <3>1. Unacked(id) = {}
      BY <2>1 DEF Init, Unacked, NoRow
    <3>2. QED
      BY <3>1, FS_EmptySet, BoundsAssumption
  <2>2. QED
    BY <2>1, TypeInit, SentInit DEF WithinCap
<1>2. TypeOK /\ SentInv /\ WithinCap /\ [Next]_vars
        => (TypeOK /\ SentInv /\ WithinCap)'
  BY TypeStep, SentStep, CapStep
<1>3. QED
  BY <1>1, <1>2, PTL DEF Spec

-----------------------------------------------------------------------------
(* A command that is cancelled, expired, delivered, acked or gone is not   *)
(* put on the wire again, but for the copy in the pusher's current round.  *)
THEOREM SettledOffWire == Spec => SettledStaysOffWire
<1> DEFINE Quiet ==
      \A c \in CmdIds :
        /\ sendPc[c] \notin {"idle", "checked"} /\ c \notin batch
        /\ \/ ~ outbox[c].stored \/ outbox[c].delivered
           \/ outbox[c].ack # NoAck \/ cmd[c].expires <= PusherClock
        => c \notin batch' /\ pubs'[c] = pubs[c]
<1>1. Init => TypeOK /\ SentInv /\ RowInv
  BY TypeInit, SentInit, RowInit
<1>2. TypeOK /\ SentInv /\ RowInv /\ [Next]_vars => (TypeOK /\ SentInv /\ RowInv)'
  BY TypeStep, SentStep, RowStep
<1>3. TypeOK /\ RowInv /\ [Next]_vars => Quiet
  <2> SUFFICES ASSUME TypeOK, RowInv, [Next]_vars, NEW c \in CmdIds, c \notin batch,
                      \/ ~ outbox[c].stored \/ outbox[c].delivered
                      \/ outbox[c].ack # NoAck \/ cmd[c].expires <= PusherClock
               PROVE  c \notin batch' /\ pubs'[c] = pubs[c]
    OBVIOUS
  <2>1. ASSUME Drain PROVE ~ Listed(c, since)
    <3>1. cmd[c].expires \in Nat /\ since \in Nat
      BY DEF TypeOK, Cmd
    <3>2. PusherClock = since
      BY <2>1 DEF Drain, PusherClock
    <3>3. QED
      BY <3>1, <3>2 DEF Listed, RowInv
  <2>2. c \notin batch'
    BY <2>1, BatchBefore DEF Drain
  <2>3. pubs'[c] = pubs[c]
    BY PubsEffect DEF Put, TypeOK
  <2>4. QED
    BY <2>2, <2>3
<1>4. QED
  BY <1>1, <1>2, <1>3, PTL DEF Spec, SettledStaysOffWire

-----------------------------------------------------------------------------
(***************************************************************************)
(* The command plane implements CmdLifecycle: under the mapping of         *)
(* CmdOutboxProps, its initial state is initial there, and each of its     *)
(* steps is one step there or changes nothing there.                       *)
(***************************************************************************)

LEMMA KnownFrame ==
  ASSUME UNCHANGED devices
  PROVE  Known' = Known
  BY DEF Known

(* The mapped variables of a command that a step does not touch. *)
LEMMA Untouched ==
  ASSUME NEW d \in CmdIds, outbox'[d] = outbox[d], cmd'[d] = cmd[d],
         UNCHANGED now
  PROVE  Status(d)' = Status(d) /\ Accepted(d)' = Accepted(d)
  BY DEF Status, Accepted

(* A step that touches neither rows, the wire nor the clock stutters,        *)
(* even if a handler has learnt the columns of a row it has still to insert. *)
LEMMA QuietStep ==
  ASSUME TypeOK, UNCHANGED <<devices, outbox, pubs, now>>,
         \A d \in CmdIds : \/ cmd'[d] = cmd[d]
                           \/ cmd[d].id = 0 /\ cmd'[d].id = 0 /\ ~ outbox[d].stored
  PROVE  UNCHANGED Lifecycle!vars
<1>1. \A d \in CmdIds : Status(d)' = Status(d)
  BY DEF Status, Accepted
<1>2. \A d \in CmdIds : (IF Accepted(d) THEN cmd[d].device ELSE 0)'
                          = IF Accepted(d) THEN cmd[d].device ELSE 0
  BY DEF Accepted
<1>3. [d \in CmdIds |-> Status(d)]' = [d \in CmdIds |-> Status(d)]
  BY <1>1
<1>4. [d \in CmdIds |-> IF Accepted(d) THEN cmd[d].device ELSE 0]'
        = [d \in CmdIds |-> IF Accepted(d) THEN cmd[d].device ELSE 0]
  BY <1>2
<1>5. {d \in CmdIds : pubs[d] > 0}' = {d \in CmdIds : pubs[d] > 0}
  OBVIOUS
<1>6. QED
  BY <1>3, <1>4, <1>5, KnownFrame DEF Lifecycle!vars

(* What every row operation leaves alone: the device of each accepted      *)
(* command, and what was on the wire.                                      *)
LEMMA RowStepFrame ==
  ASSUME UNCHANGED <<cmd, pubs>>
  PROVE  /\ [d \in CmdIds |-> IF Accepted(d) THEN cmd[d].device ELSE 0]'
              = [d \in CmdIds |-> IF Accepted(d) THEN cmd[d].device ELSE 0]
         /\ {d \in CmdIds : pubs[d] > 0}' = {d \in CmdIds : pubs[d] > 0}
  BY DEF Accepted

LEMMA AcceptStep ==
  ASSUME TypeOK, SentInv, NEW c \in CmdIds, SendEnqueue(c)
  PROVE  Lifecycle!Accept(c, cmd[c].device) /\ cmd[c].device \in DeviceIds
<1>1. cmd[c].id = 0 /\ ~ outbox[c].stored /\ cmd[c].device \in DeviceIds
  BY DEF SendEnqueue, SentInv
<1>2. Status(c) = "none"
  BY <1>1 DEF Status, Accepted
<1> DEFINE s == Status(c)'
<1>3. s \in {"pending", "expired"}
  BY DEF SendEnqueue, NewRow, Status, TypeOK
<1>4. Accepted(c)' /\ cmd'[c].device = cmd[c].device
  <2>1. cmd'[c].id \in RowIds /\ cmd'[c].device = cmd[c].device
    BY EnqueueLast
  <2>2. cmd'[c].id # 0
    BY <2>1, FS_CardinalityType, FiniteCmdIds DEF RowIds
  <2>3. QED
    BY <2>1, <2>2 DEF Accepted
<1>5. \A d \in CmdIds \ {c} : Status(d)' = Status(d) /\ Accepted(d)' = Accepted(d)
                              /\ cmd'[d] = cmd[d]
  BY EnqueueLast, Untouched DEF SendEnqueue
<1> HIDE DEF s
<1>6. [d \in CmdIds |-> Status(d)]'
        = [[d \in CmdIds |-> Status(d)] EXCEPT ![c] = s]
  BY <1>5 DEF s
<1>7. [d \in CmdIds |-> IF Accepted(d) THEN cmd[d].device ELSE 0]'
        = [[d \in CmdIds |-> IF Accepted(d) THEN cmd[d].device ELSE 0]
             EXCEPT ![c] = cmd[c].device]
  BY <1>4, <1>5
<1>8. UNCHANGED <<devices, pubs>> /\ cmd[c].device \in Known
  BY <1>1 DEF SendEnqueue, history, Known
<1>9. QED
  BY <1>1, <1>2, <1>3, <1>6, <1>7, <1>8, KnownFrame DEF Lifecycle!Accept, Lifecycle!Waiting

LEMMA WithdrawStep ==
  ASSUME TypeOK, SentInv, RowInv, NEW c \in CmdIds, CancelDelete(c)
  PROVE  Lifecycle!Withdraw(c)
<1>1. outbox[c].stored /\ ~ outbox[c].delivered /\ outbox[c].ack = NoAck
  BY DEF CancelDelete, Cancellable, RowInv
<1>2. Status(c) \in Lifecycle!Waiting
  BY <1>1 DEF Status, Lifecycle!Waiting
<1>3. UNCHANGED <<devices, cmd, pubs, now>> /\ outbox' = [outbox EXCEPT ![c] = NoRow]
  BY DEF CancelDelete, history
<1>4. Status(c)' = "gone"
  <2>1. cmd[c].id \in RowIds
    BY <1>1 DEF SentInv
  <2>2. cmd[c].id # 0
    BY <2>1, FS_CardinalityType, FiniteCmdIds DEF RowIds
  <2>3. QED
    BY <1>3, <2>2 DEF NoRow, Status, Accepted, TypeOK
<1>5. \A d \in CmdIds \ {c} : Status(d)' = Status(d)
  BY <1>3, Untouched DEF TypeOK
<1>6. [d \in CmdIds |-> Status(d)]'
        = [[d \in CmdIds |-> Status(d)] EXCEPT ![c] = "gone"]
  BY <1>4, <1>5
<1>7. QED
  BY <1>2, <1>3, <1>6, RowStepFrame, KnownFrame DEF Lifecycle!Withdraw

LEMMA PublishStep ==
  ASSUME TypeOK, SentInv, Put, NEW c \in CmdIds, cur = c
  PROVE  Lifecycle!Publish(c) \/ UNCHANGED Lifecycle!vars
<1>1. c \in batch /\ pubs \in [CmdIds -> Nat]
  BY DEF Put, TypeOK
<1>2. UNCHANGED <<devices, outbox, cmd>>
  BY DEF Put, db
<1> UNCHANGED now
  BY DEF Put
<1>3. CASE pubs' = [pubs EXCEPT ![cur] = @ + 1]
  <2>1. pubs' = [pubs EXCEPT ![c] = pubs[c] + 1]
    BY <1>3
  <2>2. Status(c) # "none"
    <3>1. cmd[c].id \in RowIds
      BY <1>1 DEF SentInv
    <3>2. cmd[c].id # 0
      BY <3>1, FS_CardinalityType, FiniteCmdIds DEF RowIds
    <3>3. QED
      BY <3>2 DEF Status, Accepted
  <2>3. pubs'[c] > 0 /\ \A d \in CmdIds \ {c} : pubs'[d] = pubs[d]
    BY <1>1, <2>1
  <2>4. {d \in CmdIds : pubs[d] > 0}' = {d \in CmdIds : pubs[d] > 0} \cup {c}
    BY <1>1, <2>3
  <2>5. /\ [d \in CmdIds |-> Status(d)]' = [d \in CmdIds |-> Status(d)]
        /\ [d \in CmdIds |-> IF Accepted(d) THEN cmd[d].device ELSE 0]'
             = [d \in CmdIds |-> IF Accepted(d) THEN cmd[d].device ELSE 0]
    BY <1>2 DEF Status, Accepted
  <2>6. Lifecycle!Publish(c)
    BY <1>1, <1>2, <2>2, <2>4, <2>5, KnownFrame DEF Lifecycle!Publish
  <2>7. QED
    BY <2>6
<1>4. CASE UNCHANGED pubs
  BY <1>2, <1>4, QuietStep
<1>5. QED
  BY <1>3, <1>4 DEF Put

LEMMA SettleStep ==
  ASSUME TypeOK, RowInv, WireInv, Mark, NEW c \in CmdIds, cur = c
  PROVE  Lifecycle!Settle(c) \/ UNCHANGED Lifecycle!vars
<1>1. pubs[c] > 0 /\ UNCHANGED <<devices, cmd, pubs, now>>
  BY DEF Mark, TypeOK, WireInv, history
<1>2. CASE Status(c) \in Lifecycle!Waiting /\ outbox' = MarkDelivered(c)
  <2>1. outbox[c].stored /\ outbox[c].ack = NoAck
    BY <1>2 DEF Status, Accepted, Lifecycle!Waiting
  <2>2. outbox' = [outbox EXCEPT ![c].delivered = TRUE]
    BY <1>2, <2>1 DEF MarkDelivered
  <2>3. /\ outbox'[c].stored /\ outbox'[c].delivered /\ outbox'[c].ack = NoAck
        /\ \A d \in CmdIds \ {c} : outbox'[d] = outbox[d]
    BY <1>1, <2>1, <2>2 DEF TypeOK, Row
  <2>4. Status(c)' = "delivered"
    BY <2>3 DEF Status
  <2>5. \A d \in CmdIds \ {c} : Status(d)' = Status(d)
    BY <1>1, <2>3, Untouched
  <2>6. [d \in CmdIds |-> Status(d)]'
          = [[d \in CmdIds |-> Status(d)] EXCEPT ![c] = "delivered"]
    BY <2>4, <2>5
  <2>7. Lifecycle!Settle(c)
    BY <1>1, <1>2, <2>6, RowStepFrame, KnownFrame DEF Lifecycle!Settle
  <2>8. QED
    BY <2>7
<1>3. CASE ~ (Status(c) \in Lifecycle!Waiting /\ outbox' = MarkDelivered(c))
  <2>1. \A d \in CmdIds : Status(d)' = Status(d)
    <3>1. TAKE d \in CmdIds
    <3>2. CASE outbox' = outbox
      BY <1>1, <3>2 DEF Status, Accepted
    <3>3. CASE outbox' = MarkDelivered(c) /\ Status(c) \notin Lifecycle!Waiting
      <4>1. /\ outbox'[d].stored = outbox[d].stored /\ outbox'[d].ack = outbox[d].ack
            /\ outbox[d].delivered => outbox'[d].delivered
            /\ outbox'[d].delivered => outbox[d].delivered \/ d = c
            /\ ~ outbox[d].stored => outbox'[d] = outbox[d]
        BY <1>1, <3>3, MarkEffect
      <4>2. cmd'[d] = cmd[d]
        BY <1>1
      <4>3. QED
        BY <1>1, <3>3, <4>1, <4>2 DEF Status, Accepted, Lifecycle!Waiting
    <3>4. QED
      BY <1>3, <3>2, <3>3 DEF Mark
  <2>2. [d \in CmdIds |-> Status(d)]' = [d \in CmdIds |-> Status(d)]
    BY <2>1
  <2>3. QED
    BY <1>1, <2>2, RowStepFrame, KnownFrame DEF Lifecycle!vars
<1>4. QED
  BY <1>2, <1>3

LEMMA AcknowledgeStep ==
  ASSUME TypeOK, RowInv, WireInv, RecordAck, NEW c \in CmdIds, Head(ackq).cmd = c
  PROVE  Lifecycle!Acknowledge(c) \/ UNCHANGED Lifecycle!vars
<1> DEFINE Ack == [cmd : CmdIds, result : Results]
<1>1. Head(ackq) = ackq[1] /\ Len(ackq) > 0 /\ Head(ackq) \in Ack
  <2> HIDE DEF Ack
  <2>1. ackq \in Seq(Ack) /\ ackq # <<>>
    BY DEF RecordAck, TypeOK, Ack
  <2>2. QED
    BY <2>1
<1>2. Head(ackq).result \in Results /\ Head(ackq).result # NoAck
  BY <1>1, SentinelAssumption
<1>3. pubs[c] > 0
  BY <1>1 DEF WireInv
<1>4. UNCHANGED <<devices, cmd, pubs, now>>
  BY DEF RecordAck, history
<1>5. CASE outbox[c].stored /\ outbox' = AckRecorded(c, Head(ackq).result)
  <2>1. /\ outbox'[c].stored /\ outbox'[c].ack # NoAck
        /\ \A d \in CmdIds \ {c} : outbox'[d] = outbox[d]
    BY <1>2, <1>5 DEF AckRecorded, TypeOK
  <2>2. Status(c)' = "acked"
    BY <2>1 DEF Status
  <2>3. \A d \in CmdIds \ {c} : Status(d)' = Status(d)
    BY <1>4, <2>1, Untouched
  <2>4. [d \in CmdIds |-> Status(d)]'
          = [[d \in CmdIds |-> Status(d)] EXCEPT ![c] = "acked"]
    BY <2>2, <2>3
  <2>5. CASE Status(c) \in Lifecycle!Waiting \cup {"delivered"}
    BY <1>3, <1>4, <2>4, <2>5, RowStepFrame, KnownFrame DEF Lifecycle!Acknowledge
  <2>6. CASE Status(c) = "acked"
    <3>1. [d \in CmdIds |-> Status(d)]' = [d \in CmdIds |-> Status(d)]
      BY <2>2, <2>3, <2>6
    <3>2. QED
      BY <1>4, <3>1, RowStepFrame, KnownFrame DEF Lifecycle!vars
  <2>7. Status(c) \in Lifecycle!Waiting \cup {"delivered", "acked"}
    BY <1>5 DEF Status, Lifecycle!Waiting
  <2>8. QED
    BY <2>5, <2>6, <2>7
<1>6. CASE UNCHANGED outbox
  BY <1>4, <1>6, QuietStep
<1>7. QED
  BY <1>5, <1>6 DEF RecordAck, AckRecorded

LEMMA ForgetStep ==
  ASSUME TypeOK, SentInv, RowInv, NEW id \in DeviceIds, DeleteDevice(id)
  PROVE  Lifecycle!Forget(id)
<1>1. UNCHANGED <<cmd, pubs, now>> /\ outbox' = Cascade(id)
  BY DEF DeleteDevice
<1>2. ASSUME NEW d \in CmdIds
      PROVE  Status(d)' = IF (IF Accepted(d) THEN cmd[d].device ELSE 0) = id
                             /\ Status(d) \in Lifecycle!Live
                          THEN "gone" ELSE Status(d)
  <2>1. Status(d) \in Lifecycle!Live <=> outbox[d].stored
    BY DEF Status, Lifecycle!Live, Lifecycle!Waiting
  <2>2. outbox[d].stored => Accepted(d)
    <3>1. outbox[d].stored => cmd[d].id \in RowIds
      BY DEF SentInv
    <3>2. QED
      BY <3>1, FS_CardinalityType, FiniteCmdIds DEF Accepted, RowIds
  <2>3. CASE outbox[d].stored /\ cmd[d].device = id
    <3>1. ~ outbox'[d].stored
      BY <1>1, <2>3 DEF Cascade, NoRow
    <3>2. Status(d)' = "gone"
      BY <1>1, <2>2, <2>3, <3>1 DEF Status, Accepted
    <3>3. QED
      BY <2>1, <2>2, <2>3, <3>2
  <2>4. CASE ~ (outbox[d].stored /\ cmd[d].device = id)
    <3>1. outbox'[d] = outbox[d]
      BY <1>1, <2>4 DEF Cascade
    <3>2. Status(d)' = Status(d)
      BY <1>1, <3>1, Untouched
    <3>3. QED
      BY <2>1, <2>2, <2>4, <3>2
  <2>5. QED
    BY <2>3, <2>4
<1>3. [d \in CmdIds |-> Status(d)]'
        = [d \in CmdIds |->
             IF [e \in CmdIds |-> IF Accepted(e) THEN cmd[e].device ELSE 0][d] = id
                /\ [e \in CmdIds |-> Status(e)][d] \in Lifecycle!Live
             THEN "gone" ELSE [e \in CmdIds |-> Status(e)][d]]
  BY <1>2
<1>4. Known' = Known \ {id}
  <2>1. devices' = Removed(devices, id) /\ devices \in Table
    BY DEF DeleteDevice, TypeOK
  <2>2. ASSUME NEW i \in DeviceIds
        PROVE  Exists(devices', i) <=> Exists(devices, i) /\ i # id
    BY <2>1 DEF Exists, Removed, Table
  <2>3. QED
    BY <2>2 DEF Known
<1>5. QED
  BY <1>1, <1>3, <1>4, RowStepFrame DEF Lifecycle!Forget

(* A row of devices is a device more. *)
LEMMA RegisterStep ==
  ASSUME TypeOK, NEW z \in Zids, NEW org \in Orgs, RegisterDevice(z, org)
  PROVE  \E id \in DeviceIds : Lifecycle!Register(id)
<1>1. PICK id \in DeviceIds : devices' = Inserted(devices, id, z, org, nextReg)
  BY DEF RegisterDevice
<1>2. UNCHANGED <<outbox, cmd, pubs, now>>
  BY DEF RegisterDevice
<1>3. [zid |-> z, org |-> org, reg |-> nextReg] # NoDevice
  <2>1. [zid |-> z, org |-> org, reg |-> nextReg] \in Device
    BY DEF Device, TypeOK
  <2>2. QED
    BY <2>1, NoDeviceAssumption
<1>4. Known' = Known \cup {id}
  <2>1. devices \in Table
    BY DEF TypeOK
  <2>2. ASSUME NEW i \in DeviceIds
        PROVE  Exists(devices', i) <=> Exists(devices, i) \/ i = id
    BY <1>1, <1>3, <2>1, <2>2 DEF Exists, Inserted, Table
  <2>3. QED
    BY <2>2 DEF Known
<1>5. [d \in CmdIds |-> Status(d)]' = [d \in CmdIds |-> Status(d)]
  BY <1>2, Untouched
<1>6. QED
  BY <1>2, <1>4, <1>5, RowStepFrame DEF Lifecycle!Register

(* A tick of the clock expires those pending commands whose time is up, and *)
(* changes the status of no other.                                          *)
LEMMA ExpireStep ==
  ASSUME TypeOK, Tick
  PROVE  \E S \in SUBSET CmdIds : Lifecycle!Expire(S)
<1> DEFINE S == {d \in CmdIds : Status(d) = "pending" /\ Status(d)' = "expired"}
<1>1. now' = now + 1 /\ UNCHANGED <<devices, outbox, cmd, pubs>>
  BY DEF Tick, db, history
<1>2. ASSUME NEW d \in CmdIds
      PROVE  Status(d)' = IF d \in S THEN "expired" ELSE Status(d)
  <2>1. now \in Nat /\ cmd[d].expires \in Nat
    BY DEF TypeOK, Cmd
  <2>2. Status(d)' = Status(d) \/ (Status(d) = "pending" /\ Status(d)' = "expired")
    BY <1>1, <2>1 DEF Status, Accepted
  <2>3. QED
    BY <2>2
<1>3. S \in SUBSET CmdIds /\ \A d \in S : Status(d) = "pending"
  OBVIOUS
<1> HIDE DEF S
<1>4. [d \in CmdIds |-> Status(d)]'
        = [d \in CmdIds |-> IF d \in S THEN "expired"
                            ELSE [e \in CmdIds |-> Status(e)][d]]
  BY <1>2
<1>5. Lifecycle!Expire(S)
  BY <1>1, <1>3, <1>4, RowStepFrame, KnownFrame DEF Lifecycle!Expire
<1>6. QED
  BY <1>3, <1>5

-----------------------------------------------------------------------------
LEMMA LifecycleInit == Init => Lifecycle!Init
  BY DEF Init, Lifecycle!Init, Status, Accepted, NoRow, Unsent, Known, Exists, EmptyTable

LEMMA LifecycleStep ==
  TypeOK /\ SentInv /\ RowInv /\ WireInv /\ [Next]_vars
    => [Lifecycle!Next]_(Lifecycle!vars)
<1> SUFFICES ASSUME TypeOK, SentInv, RowInv, WireInv, [Next]_vars
             PROVE  Lifecycle!Next \/ UNCHANGED Lifecycle!vars
  OBVIOUS
<1>1. ASSUME UNCHANGED <<devices, outbox, cmd, pubs, now>>
      PROVE  UNCHANGED Lifecycle!vars
  BY <1>1, QuietStep
<1>2. ASSUME NEW c \in CmdIds, NEW org \in Orgs, NEW id \in DeviceIds,
             NEW ttl \in Ttls, NEW s \in BOOLEAN, SendCheck(c, org, id, ttl, s)
      PROVE  UNCHANGED Lifecycle!vars
  <2>1. UNCHANGED <<devices, outbox, pubs, now>>
    BY <1>2 DEF SendCheck, history
  <2>2. cmd[c].id = 0 /\ cmd'[c].id = 0 /\ ~ outbox[c].stored
    BY <1>2 DEF SendCheck, SentInv, TypeOK
  <2>3. \A d \in CmdIds \ {c} : cmd'[d] = cmd[d]
    BY <1>2 DEF SendCheck, TypeOK
  <2>4. QED
    BY <2>1, <2>2, <2>3, QuietStep
<1>3. ASSUME NEW c \in CmdIds, SendEnqueue(c) PROVE Lifecycle!Next
  <2>1. PICK d \in DeviceIds : d = cmd[c].device
    BY <1>3, AcceptStep
  <2>2. Lifecycle!Accept(c, d)
    BY <1>3, <2>1, AcceptStep DEF Lifecycle!Accept
  <2>3. QED
    BY <2>2 DEF Lifecycle!Next
<1>4. ASSUME NEW c \in CmdIds, CancelDelete(c) PROVE Lifecycle!Next
  BY <1>4, WithdrawStep DEF Lifecycle!Next
<1>5. ASSUME Put PROVE Lifecycle!Next \/ UNCHANGED Lifecycle!vars
  <2>1. PICK c \in CmdIds : cur = c
    BY <1>5 DEF Put, TypeOK
  <2>2. QED
    BY <1>5, <2>1, PublishStep DEF Lifecycle!Next
<1>6. ASSUME Mark PROVE Lifecycle!Next \/ UNCHANGED Lifecycle!vars
  <2>1. PICK c \in CmdIds : cur = c
    BY <1>6 DEF Mark, TypeOK
  <2>2. QED
    BY <1>6, <2>1, SettleStep DEF Lifecycle!Next
<1>7. ASSUME RecordAck PROVE Lifecycle!Next \/ UNCHANGED Lifecycle!vars
  <2> DEFINE Ack == [cmd : CmdIds, result : Results]
  <2>1. Head(ackq) \in Ack
    <3> HIDE DEF Ack
    <3>1. ackq \in Seq(Ack) /\ ackq # <<>>
      BY <1>7 DEF RecordAck, TypeOK, Ack
    <3>2. QED
      BY <3>1
  <2>2. PICK c \in CmdIds : Head(ackq).cmd = c
    BY <2>1
  <2>3. QED
    BY <1>7, <2>2, AcknowledgeStep DEF Lifecycle!Next
<1>8. ASSUME NEW id \in DeviceIds, DeleteDevice(id) PROVE Lifecycle!Next
  BY <1>8, ForgetStep DEF Lifecycle!Next
<1>9. ASSUME Tick PROVE Lifecycle!Next
  BY <1>9, ExpireStep DEF Lifecycle!Next
<1>10. QED
  <2> DEFINE Rest == UNCHANGED <<devices, outbox, cmd, pubs, now>>
  <2>1. ASSUME NEW c \in CmdIds,
               SendRefused(c) \/ SendFinish(c) \/ SendDropped(c) \/ CancelAudit(c)
        PROVE  Rest
    BY <2>1 DEF SendRefused, SendFinish, SendDropped, CancelAudit, db, history
  <2>2. ASSUME NEW c \in CmdIds, Lookup(c) PROVE Rest
    BY <2>2 DEF Lookup, db, history
  <2>3. ASSUME Drain \/ WakeNotified \/ WakeTimer PROVE Rest
    BY <2>3 DEF Drain, WakeNotified, WakeTimer, db, history
  <2>4. ASSUME Crash \/ Restart \/ UNCHANGED vars PROVE Rest
    BY <2>4 DEF Crash, Restart, vars, db, history
  <2>5. ASSUME NEW c \in CmdIds, NEW r \in Results, DeviceAck(c, r) PROVE Rest
    BY <2>5 DEF DeviceAck, db, history
  <2>6. ASSUME NEW z \in Zids, NEW org \in Orgs, RegisterDevice(z, org)
        PROVE  Lifecycle!Next
    BY <2>6, RegisterStep DEF Lifecycle!Next
  <2>7. ASSUME NEW a \in Actions, NEW c \in CmdIds, DismissCaller(a, c) PROVE Rest
    BY <2>7 DEF DismissCaller, db, history
  <2>8. ASSUME NEW c \in CmdIds, Send(c) \/ Cancel(c)
        PROVE  Lifecycle!Next \/ UNCHANGED Lifecycle!vars
    BY <1>1, <1>2, <1>3, <1>4, <2>1, <2>8 DEF Send, Cancel
  <2>9. CASE Push
    BY <1>1, <1>5, <1>6, <2>2, <2>3, <2>9 DEF Push
  <2>10. CASE Environment
    BY <1>1, <1>8, <1>9, <2>4, <2>5, <2>6, <2>7, <2>10 DEF Environment
  <2>11. CASE UNCHANGED vars
    BY <1>1, <2>4, <2>11
  <2>12. QED
    BY <1>7, <2>8, <2>9, <2>10, <2>11 DEF Next

(* Every behaviour of the command plane is, in the eyes of the operator,   *)
(* a behaviour of the life cycle.                                          *)
THEOREM Refinement == Spec => ImplementsLifecycle
<1>1. Init => TypeOK /\ SentInv /\ RowInv /\ WireInv
  BY TypeInit, SentInit, RowInit, WireInit
<1>2. TypeOK /\ SentInv /\ RowInv /\ WireInv /\ [Next]_vars
        => (TypeOK /\ SentInv /\ RowInv /\ WireInv)'
  BY TypeStep, SentStep, RowStep, WireStep
<1>3. QED
  BY <1>1, <1>2, LifecycleInit, LifecycleStep, PTL
  DEF Spec, ImplementsLifecycle, Lifecycle!Spec
=============================================================================
