---------------------------- MODULE CmdOutboxProps ----------------------------
(***************************************************************************)
(* What the command plane guarantees, and what its documentation promises. *)
(***************************************************************************)
EXTENDS CmdOutbox

(* Every variable has its type; the pusher holds a row of its batch, and   *)
(* the device it looked up for it, exactly while it is about to publish or *)
(* to mark it; and while the process is down it holds nothing.             *)
TypeOK ==
  /\ devices \in Table
  /\ cmd \in [CmdIds -> Cmd]
  /\ outbox \in [CmdIds -> Row]
  /\ audit \in SUBSET (Actions \X CmdIds)
  /\ up \in BOOLEAN /\ permit \in BOOLEAN
  /\ sendPc \in [CmdIds -> {"idle", "checked", "enqueued", "done",
                            "refused", "dropped"}]
  /\ cancelPc \in [CmdIds -> {"idle", "deleted", "done"}]
  /\ dismissed \in SUBSET (Actions \X CmdIds)
  /\ pc \in {"drain", "lookup", "put", "mark", "wait"}
  /\ batch \in SUBSET CmdIds
  /\ IF pc \in {"put", "mark"} THEN cur \in batch /\ target \in Device
                               ELSE cur = NoCmd /\ target = NoDevice
  /\ batch = {} <=> pc \in {"drain", "wait"}
  /\ ackq \in Seq([cmd : CmdIds, result : Results])
  /\ now \in Nat /\ nextReg \in Nat /\ faults \in Nat
  /\ since \in 0 .. now
  /\ pubs \in [CmdIds -> Nat] /\ raced \in SUBSET CmdIds
  /\ missed \in SUBSET (({"push"} \cup Actions) \X CmdIds)
  /\ ~ up => pc = "drain" /\ ackq = <<>> /\ ~ permit

(* A reader never sees more un-acked rows of a device than the cap, however *)
(* handlers, acks, cancellations and deletions of devices interleave.       *)
WithinCap == \A id \in DeviceIds : Cardinality(Unacked(id)) <= MaxPerDevice

(* A command goes on the wire again only because a crash or a write that   *)
(* failed came between a put and its mark: the at-least-once duplicates an *)
(* application must expect are never more than the faults.                 *)
RedeliveryNeedsFault == \A c \in CmdIds : pubs[c] <= 1 + faults

(* The pusher never goes to sleep on work it was told of: if it waits with *)
(* no permit stored, every row it could still publish is one whose handler *)
(* has not reached notify, or was dropped before it did; or one that an    *)
(* error made it pass over, or whose mark was lost.                        *)
NoLostWakeup ==
  up /\ pc = "wait" /\ ~ permit =>
    \A c \in CmdIds :
      Pending(c) /\ cmd[c].sendable /\ pubs[c] = 0 =>
        sendPc[c] \in {"enqueued", "dropped"} \/ <<"push", c>> \in missed

(* A command is about to be published only to the registration its sender  *)
(* was authorised for, unless that device was deleted while the send       *)
(* handler, or the pusher with its copy of the row, held the device id:    *)
(* then SQLite may have given the id to another device.                    *)
MisdeliveryOnlyByRace ==
  pc \in {"put", "mark"} => target.reg = cmd[cur].reg \/ cur \in raced

(* Two commands waiting for one device first go on the wire in the order   *)
(* in which they were accepted, through crashes and failed marks, unless   *)
(* an error made the pusher pass over the earlier one.                     *)
FirstPutsInOrder ==
  \A c, d \in CmdIds :
    /\ Pending(c) /\ cmd[c].sendable
    /\ outbox[d].stored /\ cmd[d].device = cmd[c].device
    /\ cmd[c].id < cmd[d].id /\ pubs[d] > 0
    => pubs[c] > 0 \/ <<"push", c>> \in missed

(* Every row in the table whose sender was answered has its cmd.send row   *)
(* in the audit table, whatever devices come and go and take row ids over: *)
(* of the two foreign keys of the insert the one on the device cannot have *)
(* failed, and only an error, or the deletion of the sender between its    *)
(* authentication and the insert, can have left the row out.               *)
StoredRowsAudited ==
  \A c \in CmdIds :
    outbox[c].stored /\ sendPc[c] = "done" =>
      <<"cmd.send", c>> \in audit \cup missed \cup dismissed

(* The clock the pusher goes by: the one its round read, until the round   *)
(* has its rows.                                                           *)
PusherClock == IF pc = "drain" THEN since ELSE now

(* Once a command is cancelled, expired, delivered, acked or gone with its *)
(* device, the pusher never puts it on the wire again, except for the copy *)
(* its current round had already read; and no later round picks it up.     *)
(* For expiry, a round is as late as the clock it read before its query.   *)
SettledStaysOffWire ==
  [][\A c \in CmdIds :
       /\ sendPc[c] \notin {"idle", "checked"} /\ c \notin batch
       /\ \/ ~ outbox[c].stored \/ outbox[c].delivered
          \/ outbox[c].ack # NoAck \/ cmd[c].expires <= PusherClock
       => c \notin batch' /\ pubs'[c] = pubs[c]]_vars

-----------------------------------------------------------------------------
(* The command plane implements the life cycle an operator is shown.       *)

Accepted(c) == cmd[c].id # 0

(* derive_status, for a reader whose clock shows now. *)
Status(c) ==
  IF ~ outbox[c].stored THEN IF Accepted(c) THEN "gone" ELSE "none"
  ELSE IF outbox[c].ack # NoAck THEN "acked"
  ELSE IF outbox[c].delivered THEN "delivered"
  ELSE IF cmd[c].expires <= now THEN "expired" ELSE "pending"

Known == {id \in DeviceIds : Exists(devices, id)}

Lifecycle == INSTANCE CmdLifecycle WITH
  NoId <- 0,
  life <- [c \in CmdIds |-> Status(c)],
  dev <- [c \in CmdIds |-> IF Accepted(c) THEN cmd[c].device ELSE 0],
  known <- Known,
  wire <- {c \in CmdIds : pubs[c] > 0}

(* The status an operator is shown never goes back.  A command expires only *)
(* while it is pending, and never becomes pending again; an expired one may *)
(* still become delivered or acked, but only if it was put on the wire, as  *)
(* only rows listed before they expired are.  One that was delivered or     *)
(* acked cannot be withdrawn, and a deleted device takes all of its         *)
(* commands with it.                                                        *)
ImplementsLifecycle == Lifecycle!Spec

-----------------------------------------------------------------------------
(* The tasks run on a fair scheduler and the timer fires: the pusher, the  *)
(* fan-in and handlers that started keep going, and a gateway that died is *)
(* started again.  Nothing is asked of senders, operators, devices.        *)
Fairness ==
  /\ WF_vars(Push) /\ WF_vars(RecordAck) /\ WF_vars(Restart)
  /\ \A c \in CmdIds : WF_vars(Send(c) /\ sendPc[c] # "idle")

FairSpec == Spec /\ Fairness

(* Every pending command that has a valid topic is published, or stops     *)
(* being pending (cancelled, expired, deleted), whatever other rows are in *)
(* the table: a row that can never be sent does not hold the others up.    *)
PendingIsPublished ==
  \A c \in CmdIds :
    Pending(c) /\ cmd[c].sendable ~> pubs[c] > 0 \/ ~ Pending(c)

-----------------------------------------------------------------------------
(* A promise of the documentation that the code does not keep.             *)

(* SCOPE.md: "anything not yet acked is redelivered when the device        *)
(* reconnects"; hackline-client: "the gateway sees redeliveries until it   *)
(* observes the ack".  The pusher reads only rows with delivered_at NULL,  *)
(* and sets it when the put returns, whoever was or was not subscribed.    *)
UnackedIsRedelivered ==
  \A c \in CmdIds :
    /\ outbox[c].stored /\ outbox[c].ack = NoAck /\ cmd[c].expires > now
    /\ cmd[c].sendable /\ pubs[c] = 1
    ~> \/ pubs[c] > 1 \/ outbox[c].ack # NoAck
       \/ ~ outbox[c].stored \/ cmd[c].expires <= now
=============================================================================
