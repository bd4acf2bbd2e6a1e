------------------------------ MODULE CmdOutbox ------------------------------
(***************************************************************************)
(* The gateway's command plane: the REST handlers that enqueue and cancel  *)
(* commands, the pusher task that puts pending rows on Zenoh, the ack      *)
(* fan-in task, the cmd_outbox table they share, the devices that receive  *)
(* commands, device registration and deletion, and crashes.                *)
(*                                                                         *)
(* One atomic step is what runs between two points at which another actor  *)
(* can be observed: one SQLite statement or transaction (each runs in its  *)
(* own spawn_blocking on its own connection) or one Zenoh put.             *)
(*                                                                         *)
(* A command is named by its uuid and sent at most once, so the columns of *)
(* its row that never change are kept in cmd[c], written as the handler    *)
(* learns them; a copy of a row held in memory agrees with the table on    *)
(* those columns, and is the uuid alone.  outbox[c] holds the columns that *)
(* change, and whether the row is there.                                   *)
(*                                                                         *)
(* Operators named Mutant... are no part of the model: each is the next    *)
(* definition with a bug put in, for the check that a property notices it. *)
(***************************************************************************)
EXTENDS DeviceTable, Sequences, FiniteSets

CONSTANTS
  CmdIds,       \* command uuids
  MaxPerDevice, \* CMD_MAX_PER_DEVICE
  Ttls,         \* times to live a sender may ask for
  Results,      \* results a device may acknowledge with
  NoCmd, NoAck, \* "no command", "ack columns are NULL"
  NoOrg,        \* the organisation of a command nobody sent yet
  MaxTime,      \* bound on the clock
  MaxReg,       \* bound on the registrations of devices
  MaxFaults,    \* bound on crashes and on errors of the database or the session
  MaxDismissed, \* bound on the callers deleted while their handler runs
  MaxAcks       \* bound on acks in flight

ASSUME BoundsAssumption ==
  /\ MaxPerDevice \in Nat \ {0} /\ Ttls \subseteq Nat \ {0}
  /\ MaxTime \in Nat /\ MaxReg \in Nat /\ MaxFaults \in Nat
  /\ MaxDismissed \in Nat /\ MaxAcks \in Nat
ASSUME SentinelAssumption == NoCmd \notin CmdIds /\ NoAck \notin Results
ASSUME FiniteCmdIds == IsFiniteSet(CmdIds)

RowIds == 1 .. Cardinality(CmdIds)

(* What the handlers audit. *)
Actions == {"cmd.send", "cmd.cancel"}

VARIABLES
  \* SQLite, kept across crashes
  devices,  \* the devices table
  cmd,      \* columns of a command's row fixed when it is enqueued
  outbox,   \* the other columns: delivered_at set?, ack_result
  audit,    \* cmd.send and cmd.cancel rows of the audit table
  \* gateway process
  up,       \* the process runs
  sendPc,   \* where the send handler of each command is
  cancelPc, \* where a cancel handler of each command is
  dismissed, \* handlers whose caller was deleted after it was authenticated
  pc,       \* where the pusher is
  batch,    \* rows list_pending returned and the loop has still to handle
  cur,      \* row of the current iteration
  target,   \* device get_with_org_slug returned for it
  since,    \* clock drain_pending read when it was called
  permit,   \* the permit stored in the tokio Notify
  ackq,     \* samples waiting in the cmd-ack subscriber
  \* clock, and the history that properties speak of
  now,      \* wall clock
  nextReg,  \* number of the next registration
  pubs,     \* how often each command was put on the wire
  raced,    \* commands whose device was deleted while they were in flight
  missed,   \* commands an error made the pusher, or the audit, pass over
  faults    \* crashes and errors so far

db == <<devices, cmd, outbox, audit>>
handlers == <<sendPc, cancelPc, dismissed>>
pusher == <<pc, batch, cur, target, since>>
history == <<nextReg, pubs, raced, missed>>
vars == <<db, up, handlers, pusher, permit, ackq, now, history, faults>>

Row == [stored : BOOLEAN, delivered : BOOLEAN, ack : Results \cup {NoAck}]
NoRow == [stored |-> FALSE, delivered |-> FALSE, ack |-> NoAck]
NewRow == [stored |-> TRUE, delivered |-> FALSE, ack |-> NoAck]

Cmd == [device : DeviceIds \cup {0}, org : Orgs \cup {NoOrg}, reg : Nat,
        expires : Nat, sendable : BOOLEAN, id : RowIds \cup {0}]
Unsent == [device |-> 0, org |-> NoOrg, reg |-> 0,
           expires |-> 0, sendable |-> FALSE, id |-> 0]

Init ==
  /\ devices = EmptyTable
  /\ cmd = [c \in CmdIds |-> Unsent]
  /\ outbox = [c \in CmdIds |-> NoRow]
  /\ audit = {}
  /\ up = TRUE
  /\ sendPc = [c \in CmdIds |-> "idle"]
  /\ cancelPc = [c \in CmdIds |-> "idle"]
  /\ dismissed = {}
  /\ pc = "drain" /\ batch = {} /\ cur = NoCmd /\ target = NoDevice /\ since = 0
  /\ permit = FALSE
  /\ ackq = <<>>
  /\ now = 0 /\ nextReg = 1
  /\ pubs = [c \in CmdIds |-> 0]
  /\ raced = {} /\ missed = {} /\ faults = 0

-----------------------------------------------------------------------------
(* The statements on cmd_outbox.                                           *)

(* Rows enqueue counts against the cap: this device's, ack_at IS NULL. *)
Unacked(id) ==
  {c \in CmdIds : outbox[c].stored /\ cmd[c].device = id /\ outbox[c].ack = NoAck}

Full(id) == Cardinality(Unacked(id)) >= MaxPerDevice

(* The rowid SQLite gives the next row of cmd_outbox. *)
IsNextRowId(n) ==
  /\ \A c \in CmdIds : outbox[c].stored => cmd[c].id < n
  /\ n > 1 => \E c \in CmdIds : outbox[c].stored /\ cmd[c].id = n - 1

MutantListedDelivered(c, t) == outbox[c].stored /\ cmd[c].expires > t

MutantListedExpired(c, t) == outbox[c].stored /\ ~ outbox[c].delivered

(* list_pending at time t: delivered_at IS NULL AND expires_at > t. *)
Listed(c, t) ==
  /\ outbox[c].stored /\ ~ outbox[c].delivered
  /\ cmd[c].expires > t

Pending(c) == Listed(c, now)

MutantIsFirst(c) == \A d \in batch : cmd[c].id >= cmd[d].id

(* ORDER BY id ASC: c is the next row of the batch. *)
IsFirst(c) == \A d \in batch : cmd[c].id <= cmd[d].id

(* cancel: WHERE delivered_at IS NULL. *)
Cancellable(c) == outbox[c].stored /\ ~ outbox[c].delivered

(* mark_delivered: WHERE cmd_id = ?1 AND delivered_at IS NULL. *)
MarkDelivered(c) ==
  IF outbox[c].stored THEN [outbox EXCEPT ![c].delivered = TRUE] ELSE outbox

(* record_ack: unconditional on the state of the row, delivered_at *)
(* filled in by COALESCE.                                           *)
AckRecorded(c, r) ==
  IF outbox[c].stored
  THEN [outbox EXCEPT ![c] = [stored |-> TRUE, delivered |-> TRUE, ack |-> r]]
  ELSE outbox

MutantCascade(id) == outbox

(* ON DELETE CASCADE from devices(id). *)
Cascade(id) ==
  [c \in CmdIds |-> IF outbox[c].stored /\ cmd[c].device = id THEN NoRow ELSE outbox[c]]

(* A statement or a put fails: no connection in the pool, the database busy *)
(* or in error, the Zenoh session closed.                                   *)
Fault == faults < MaxFaults /\ faults' = faults + 1

(* The best-effort insert of an audit row, whose failure is ignored.  The   *)
(* device and the caller are under foreign keys; the row id of a caller who *)
(* was deleted may by now be another user's, and then the insert succeeds.  *)
AuditInsert(action, c) ==
  \/ /\ Exists(devices, cmd[c].device)
     /\ audit' = audit \cup {<<action, c>>}
     /\ UNCHANGED <<missed, faults>>
  \/ /\ ~ Exists(devices, cmd[c].device) \/ <<action, c>> \in dismissed
     /\ UNCHANGED <<audit, missed, faults>>
  \/ /\ Fault /\ missed' = missed \cup {<<action, c>>}
     /\ UNCHANGED audit

-----------------------------------------------------------------------------
(* POST /v1/devices/:id/cmd/:topic.                                        *)

(* The handler finds the device in the caller's organisation, then draws   *)
(* the uuid and the expiry.  A topic that yields no valid key expression   *)
(* is accepted (only the empty one is refused) and is not sendable.        *)
SendCheck(c, org, id, ttl, sendable) ==
  /\ up /\ sendPc[c] = "idle"
  /\ InOrg(devices, org, id)
  /\ sendPc' = [sendPc EXCEPT ![c] = "checked"]
  /\ cmd' = [cmd EXCEPT ![c] =
       [device |-> id, org |-> org, reg |-> devices[id].reg,
        expires |-> now + ttl, sendable |-> sendable, id |-> 0]]
  /\ UNCHANGED <<devices, outbox, audit, up, cancelPc, dismissed, pusher, permit, ackq,
                 now, history, faults>>

(* enqueue's transaction: the cap, the foreign key, then the row. *)
SendEnqueue(c) ==
  /\ up /\ sendPc[c] = "checked"
  /\ ~ Full(cmd[c].device) /\ Exists(devices, cmd[c].device)
  /\ \E n \in RowIds : IsNextRowId(n) /\ cmd' = [cmd EXCEPT ![c].id = n]
  /\ outbox' = [outbox EXCEPT ![c] = NewRow]
  /\ sendPc' = [sendPc EXCEPT ![c] = "enqueued"]
  /\ UNCHANGED <<devices, audit, up, cancelPc, dismissed, pusher, permit, ackq,
                 now, history, faults>>

SendRefused(c) ==
  /\ up /\ sendPc[c] = "checked"
  /\ \/ Full(cmd[c].device) /\ UNCHANGED faults
     \/ ~ Exists(devices, cmd[c].device) /\ UNCHANGED faults
     \/ Fault
  /\ sendPc' = [sendPc EXCEPT ![c] = "refused"]
  /\ UNCHANGED <<db, up, cancelPc, dismissed, pusher, permit, ackq, now, history>>

MutantSendFinish(c) == \* notify_waiters: no permit is stored
  /\ up /\ sendPc[c] = "enqueued"
  /\ AuditInsert("cmd.send", c)
  /\ pc' = IF pc = "wait" THEN "drain" ELSE pc
  /\ sendPc' = [sendPc EXCEPT ![c] = "done"]
  /\ UNCHANGED <<devices, cmd, outbox, up, cancelPc, dismissed, batch, cur, target,
                 since, permit, ackq, now, nextReg, pubs, raced>>

(* The audit row; then notify_one and 202, unless the caller has hung up   *)
(* meanwhile and the server dropped the handler at its await.  Nothing     *)
(* else reads the audit table, so the insert and the notify are one step.  *)
SendFinish(c) ==
  /\ up /\ sendPc[c] = "enqueued"
  /\ AuditInsert("cmd.send", c)
  /\ \/ permit' = TRUE /\ sendPc' = [sendPc EXCEPT ![c] = "done"]
     \/ sendPc' = [sendPc EXCEPT ![c] = "dropped"] /\ UNCHANGED permit
  /\ UNCHANGED <<devices, cmd, outbox, up, cancelPc, dismissed, pusher, ackq, now,
                 nextReg, pubs, raced>>

(* The handler is dropped before the audit insert began. *)
SendDropped(c) ==
  /\ up /\ sendPc[c] = "enqueued"
  /\ sendPc' = [sendPc EXCEPT ![c] = "dropped"]
  /\ UNCHANGED <<db, up, cancelPc, dismissed, pusher, permit, ackq, now, history, faults>>

-----------------------------------------------------------------------------
(* DELETE /v1/cmd/:cmd_id.                                                 *)

(* The handler first finds the row and checks that its device is in the    *)
(* caller's organisation; what it reads there cannot change while the row  *)
(* exists, so those steps are part of the DELETE.  If a check or the DELETE *)
(* finds nothing, the answer is 404 and nothing changes.                   *)
CancelDelete(c) ==
  /\ up /\ Cancellable(c)
  /\ \E org \in Orgs : InOrg(devices, org, cmd[c].device)
  /\ outbox' = [outbox EXCEPT ![c] = NoRow]
  /\ cancelPc' = [cancelPc EXCEPT ![c] = "deleted"]
  /\ UNCHANGED <<devices, cmd, audit, up, sendPc, dismissed, pusher, permit, ackq,
                 now, history, faults>>

CancelAudit(c) ==
  /\ up /\ cancelPc[c] = "deleted"
  /\ AuditInsert("cmd.cancel", c)
  /\ cancelPc' = [cancelPc EXCEPT ![c] = "done"]
  /\ UNCHANGED <<devices, cmd, outbox, up, sendPc, dismissed, pusher, permit, ackq,
                 now, nextReg, pubs, raced>>

-----------------------------------------------------------------------------
(* The pusher task.                                                        *)

(* Where drain_pending goes when rest is what is left of its rows. *)
AfterRow(rest) == IF rest = {} THEN "wait" ELSE "lookup"

MutantSkipRow(c) == \* `return` where the code has `continue`
  /\ batch' = {} /\ pc' = "wait"
  /\ cur' = NoCmd /\ target' = NoDevice

(* `continue`: the row stays as it is in the table. *)
SkipRow(c) ==
  /\ batch' = batch \ {c}
  /\ pc' = AfterRow(batch \ {c})
  /\ cur' = NoCmd /\ target' = NoDevice

(* `continue` after an error that is only logged. *)
MissRow(c) ==
  /\ Fault /\ missed' = missed \cup {<<"push", c>>}
  /\ SkipRow(c)

(* list_pending, with the clock read before the wait for a thread, a        *)
(* connection and the database; if it fails, the loop logs the error and   *)
(* goes to sleep.                                                          *)
Drain ==
  /\ up /\ pc = "drain"
  /\ \/ /\ batch' = {c \in CmdIds : Listed(c, since)}
        /\ UNCHANGED <<missed, faults>>
     \/ /\ Fault /\ batch' = {}
        /\ missed' = missed \cup {<<"push", c>> : c \in {d \in CmdIds : Listed(d, since)}}
  /\ pc' = AfterRow(batch') /\ since' = 0
  /\ UNCHANGED <<db, up, handlers, cur, target, permit, ackq, now,
                 nextReg, pubs, raced>>

Lookup(c) ==
  /\ up /\ pc = "lookup" /\ c \in batch /\ IsFirst(c)
  /\ \/ /\ Exists(devices, cmd[c].device)
        /\ cur' = c /\ target' = devices[cmd[c].device]
        /\ pc' = "put"
        /\ UNCHANGED <<batch, missed, faults>>
     \/ /\ ~ Exists(devices, cmd[c].device)
        /\ SkipRow(c) /\ UNCHANGED <<missed, faults>>
     \/ MissRow(c)
  /\ UNCHANGED <<db, up, handlers, since, permit, ackq, now, nextReg, pubs, raced>>

MutantPut == \* a row whose put failed is marked too
  /\ up /\ pc = "put" /\ pc' = "mark"
  /\ \/ cmd[cur].sendable /\ pubs' = [pubs EXCEPT ![cur] = @ + 1]
     \/ ~ cmd[cur].sendable /\ UNCHANGED pubs
  /\ UNCHANGED <<db, up, handlers, batch, cur, target, since, permit, ackq, now,
                 nextReg, raced, missed, faults>>

(* A put succeeds whether or not anyone is subscribed to the key of the    *)
(* target, so it tells the gateway nothing of who was reached.             *)
Put ==
  /\ up /\ pc = "put"
  /\ \/ /\ cmd[cur].sendable
        /\ pubs' = [pubs EXCEPT ![cur] = @ + 1]
        /\ pc' = "mark"
        /\ UNCHANGED <<batch, cur, target, missed, faults>>
     \/ /\ ~ cmd[cur].sendable
        /\ SkipRow(cur)
        /\ UNCHANGED <<pubs, missed, faults>>
     \/ MissRow(cur) /\ UNCHANGED pubs
  /\ UNCHANGED <<db, up, handlers, since, permit, ackq, now, nextReg, raced>>

(* mark_delivered; an error of its write (or of the pool) is discarded. *)
Mark ==
  /\ up /\ pc = "mark"
  /\ \/ outbox' = MarkDelivered(cur) /\ UNCHANGED faults
     \/ Fault /\ UNCHANGED outbox
  /\ SkipRow(cur)
  /\ UNCHANGED <<devices, cmd, audit, up, handlers, since, permit, ackq, now, history>>

(* Woken, the task calls drain_pending, which reads the clock first. *)
WakeNotified ==
  /\ up /\ pc = "wait" /\ permit
  /\ permit' = FALSE /\ pc' = "drain" /\ since' = now
  /\ UNCHANGED <<db, up, handlers, batch, cur, target, ackq, now, history, faults>>

MutantWakeTimer == \* the timer only goes back to waiting
  /\ up /\ pc = "wait"
  /\ pc' = "wait"
  /\ UNCHANGED <<db, up, handlers, batch, cur, target, since, permit, ackq, now,
                 history, faults>>

(* The 30 s fallback. *)
WakeTimer ==
  /\ up /\ pc = "wait"
  /\ pc' = "drain" /\ since' = now
  /\ UNCHANGED <<db, up, handlers, batch, cur, target, permit, ackq, now,
                 history, faults>>

-----------------------------------------------------------------------------
(* Acknowledgements.                                                       *)

(* CmdHandle::ack.  The handle supplies the key expression and the uuid,   *)
(* so an application acks only what a put brought it, but as often and as  *)
(* late as it likes.  Whether a put reached its application is not part of *)
(* the state: one that was not reached never acks.  A sample published     *)
(* while the gateway is down reaches nobody.                               *)
DeviceAck(c, r) ==
  /\ up /\ pubs[c] > 0 /\ Len(ackq) < MaxAcks
  /\ ackq' = Append(ackq, [cmd |-> c, result |-> r])
  /\ UNCHANGED <<db, up, handlers, pusher, permit, now, history, faults>>

(* An ack whose write fails is dropped. *)
RecordAck ==
  /\ up /\ ackq # <<>>
  /\ \/ /\ outbox' = AckRecorded(Head(ackq).cmd, Head(ackq).result)
        /\ UNCHANGED faults
     \/ Fault /\ UNCHANGED outbox
  /\ ackq' = Tail(ackq)
  /\ UNCHANGED <<devices, cmd, audit, up, handlers, pusher, permit, now, history>>

-----------------------------------------------------------------------------
(* Registration, clock, crashes.                                           *)

(* A row of devices appears: POST /v1/devices, or a liveliness sample. *)
RegisterDevice(z, org) ==
  /\ up /\ nextReg <= MaxReg /\ ZidFree(devices, z)
  /\ \E id \in DeviceIds : /\ IsNextId(devices, id)
                           /\ devices' = Inserted(devices, id, z, org, nextReg)
  /\ nextReg' = nextReg + 1
  /\ UNCHANGED <<cmd, outbox, audit, up, handlers, pusher, permit, ackq, now,
                 pubs, raced, missed, faults>>

(* Commands a deletion of this device catches between two steps of an actor *)
(* that has already read the device id.                                     *)
InFlight(id) ==
  {c \in CmdIds : cmd[c].device = id /\ (sendPc[c] = "checked" \/ c \in batch)}

DeleteDevice(id) ==
  /\ up /\ Exists(devices, id)
  /\ devices' = Removed(devices, id)
  /\ outbox' = Cascade(id)
  /\ raced' = raced \cup InFlight(id)
  /\ UNCHANGED <<cmd, audit, up, handlers, pusher, permit, ackq, now,
                 nextReg, pubs, missed, faults>>

(* The handler that will audit this action is between two of its steps. *)
Handling(action, c) ==
  \/ action = "cmd.send" /\ sendPc[c] \in {"checked", "enqueued"}
  \/ action = "cmd.cancel" /\ cancelPc[c] = "deleted"

(* DELETE /v1/users/:id for the caller of a handler that runs: the extractor *)
(* has read the row of that user, and nothing reads it again.               *)
DismissCaller(action, c) ==
  /\ up /\ Handling(action, c)
  /\ Cardinality(dismissed) < MaxDismissed
  /\ dismissed' = dismissed \cup {<<action, c>>}
  /\ UNCHANGED <<db, up, sendPc, cancelPc, pusher, permit, ackq, now, history, faults>>

Tick ==
  /\ now < MaxTime
  /\ now' = now + 1
  /\ UNCHANGED <<db, up, handlers, pusher, permit, ackq, history, faults>>

(* The process dies, or is told to stop and aborts its tasks: handlers,    *)
(* the pusher's rows, the permit and undelivered samples are lost.         *)
Crash ==
  /\ up /\ Fault
  /\ up' = FALSE
  /\ sendPc' = [c \in CmdIds |-> IF sendPc[c] \in {"checked", "enqueued"}
                                 THEN "dropped" ELSE sendPc[c]]
  /\ cancelPc' = [c \in CmdIds |-> IF cancelPc[c] = "deleted"
                                   THEN "done" ELSE cancelPc[c]]
  /\ pc' = "drain" /\ batch' = {} /\ cur' = NoCmd /\ target' = NoDevice /\ since' = 0
  /\ permit' = FALSE /\ ackq' = <<>>
  /\ UNCHANGED <<db, dismissed, now, history>>

Restart ==
  /\ ~ up
  /\ up' = TRUE /\ since' = now
  /\ UNCHANGED <<db, handlers, pc, batch, cur, target, permit, ackq, now, history, faults>>

-----------------------------------------------------------------------------
Send(c) ==
  \/ \E org \in Orgs, id \in DeviceIds, ttl \in Ttls, sendable \in BOOLEAN :
       SendCheck(c, org, id, ttl, sendable)
  \/ SendEnqueue(c) \/ SendRefused(c) \/ SendFinish(c) \/ SendDropped(c)

Cancel(c) == CancelDelete(c) \/ CancelAudit(c)

Push == Drain \/ (\E c \in CmdIds : Lookup(c)) \/ Put \/ Mark \/ WakeNotified \/ WakeTimer

Environment ==
  \/ \E z \in Zids, org \in Orgs : RegisterDevice(z, org)
  \/ \E c \in CmdIds, r \in Results : DeviceAck(c, r)
  \/ \E id \in DeviceIds : DeleteDevice(id)
  \/ \E action \in Actions, c \in CmdIds : DismissCaller(action, c)
  \/ Tick \/ Crash \/ Restart

Next ==
  \/ \E c \in CmdIds : Send(c) \/ Cancel(c)
  \/ Push \/ RecordAck
  \/ Environment

Spec == Init /\ [][Next]_vars
=============================================================================
