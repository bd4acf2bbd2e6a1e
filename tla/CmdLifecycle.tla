---------------------------- MODULE CmdLifecycle -----------------------------
(***************************************************************************)
(* What the command outbox promises of each command, without saying how:   *)
(* the life a row can lead in the eyes of the operator who lists it, and   *)
(* how that life is tied to what was put on the wire.  The statuses are    *)
(* those `derive_status` computes from the columns of cmd_outbox.          *)
(***************************************************************************)
CONSTANTS
  CmdIds,    \* command uuids
  DeviceIds, \* row ids of devices
  NoId       \* the device of a command not accepted yet

VARIABLES
  life,  \* status of each command
  dev,   \* device a command was accepted for
  known, \* devices that exist
  wire   \* commands put on the wire at least once

vars == <<life, dev, known, wire>>

Waiting == {"pending", "expired"}
Live == Waiting \cup {"delivered", "acked"}

TypeOK ==
  /\ life \in [CmdIds -> Live \cup {"none", "gone"}]
  /\ dev \in [CmdIds -> DeviceIds \cup {NoId}]
  /\ known \in SUBSET DeviceIds /\ wire \in SUBSET CmdIds

Init ==
  /\ life = [c \in CmdIds |-> "none"]
  /\ dev = [c \in CmdIds |-> NoId]
  /\ known = {} /\ wire = {}

Register(d) ==
  /\ known' = known \cup {d}
  /\ UNCHANGED <<life, dev, wire>>

(* A command is accepted into the outbox of a device.  Its time to live    *)
(* runs from before that, and may be over.                                 *)
Accept(c, d) ==
  /\ life[c] = "none" /\ d \in known
  /\ \E s \in Waiting : life' = [life EXCEPT ![c] = s]
  /\ dev' = [dev EXCEPT ![c] = d]
  /\ UNCHANGED <<known, wire>>

(* Only an accepted command is put on the wire, perhaps more than once. *)
Publish(c) ==
  /\ life[c] # "none"
  /\ wire' = wire \cup {c}
  /\ UNCHANGED <<life, dev, known>>

(* Time passes, and some of the commands not delivered yet expire.  Nothing *)
(* makes an expired command pending again.                                  *)
Expire(S) ==
  /\ \A c \in S : life[c] = "pending"
  /\ life' = [c \in CmdIds |-> IF c \in S THEN "expired" ELSE life[c]]
  /\ UNCHANGED <<dev, known, wire>>

(* A command counts as delivered only after it was put on the wire; and so  *)
(* does one that expired while its put, or the mark after it, was under way *)
(* or had failed.                                                           *)
Settle(c) ==
  /\ life[c] \in Waiting /\ c \in wire
  /\ life' = [life EXCEPT ![c] = "delivered"]
  /\ UNCHANGED <<dev, known, wire>>

(* Likewise an acknowledgement, which may be repeated and is never undone. *)
Acknowledge(c) ==
  /\ life[c] \in Waiting \cup {"delivered"} /\ c \in wire
  /\ life' = [life EXCEPT ![c] = "acked"]
  /\ UNCHANGED <<dev, known, wire>>

(* The operator takes back a command that is not delivered, expired or not. *)
Withdraw(c) ==
  /\ life[c] \in Waiting
  /\ life' = [life EXCEPT ![c] = "gone"]
  /\ UNCHANGED <<dev, known, wire>>

(* Deleting a device drops every command of that device at once. *)
Forget(d) ==
  /\ life' = [c \in CmdIds |-> IF dev[c] = d /\ life[c] \in Live
                               THEN "gone" ELSE life[c]]
  /\ known' = known \ {d}
  /\ UNCHANGED <<dev, wire>>

Next ==
  \/ \E c \in CmdIds : \/ \E d \in DeviceIds : Accept(c, d)
                       \/ Publish(c) \/ Settle(c) \/ Acknowledge(c) \/ Withdraw(c)
  \/ \E S \in SUBSET CmdIds : Expire(S)
  \/ \E d \in DeviceIds : Register(d) \/ Forget(d)

Spec == Init /\ [][Next]_vars
=============================================================================
