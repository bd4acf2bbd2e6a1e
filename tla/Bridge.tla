-------------------------------- MODULE Bridge ---------------------------------
(***************************************************************************)
(* One connection through a tunnel: the connect query of the gateway, the  *)
(* answer of the agent, and the byte bridge that each then runs between    *)
(* its TCP socket and a pair of Zenoh topics (hackline-core bridge.rs).    *)
(*                                                                         *)
(* Side "gw" has the socket of the client, side "dev" that of the service  *)
(* on the device.  A bridge is two tasks: the up pump reads the socket and *)
(* publishes, the down pump takes samples and writes the socket.           *)
(*                                                                         *)
(* Zenoh is external: samples of a publisher arrive in order, and those    *)
(* published before the other session knows of the subscriber are lost.    *)
(* The empty sample that closes a direction is always the last of its      *)
(* publisher, so it is a flag behind the samples.                          *)
(*                                                                         *)
(* Operators named Mutant... are no part of the model: each is the next    *)
(* definition with a bug put in, for the check that a property notices it. *)
(***************************************************************************)
EXTENDS Naturals, Sequences

CONSTANTS
  MaxChunks, \* reads of at most READ_BUF bytes that an end supplies
  MaxFaults  \* crashes, samples dropped, failed calls of Zenoh

ASSUME BridgeAssumptions == MaxChunks \in Nat /\ MaxFaults \in Nat

Sides == {"gw", "dev"}

Peer(s) == IF s = "gw" THEN "dev" ELSE "gw"

VARIABLES
  task,    \* how far the connection is, per side
  allowed, \* the agent has a queryable for the port
  reply,   \* the ConnectAck
  heard,   \* the other session knows of the subscriber of this side
  end,     \* what the program at the other end of the socket has closed
  wrote,   \* chunks it has written to the socket
  took,    \* of which the up pump read
  up, down,
  wire,    \* samples on their way to this side
  eof,     \* behind them, the empty sample
  got,     \* the chunks written to the socket of this side
  lost,    \* history: what this side published that nobody will receive
  faults

life == <<task, allowed, reply>>
ends == <<end, wrote>>
pumps == <<took, up, down, wire, eof, got, lost>>
vars == <<life, heard, ends, pumps, faults>>

Init ==
  /\ task = [gw |-> "asking", dev |-> "idle"]
  /\ allowed \in BOOLEAN
  /\ reply = "none"
  /\ heard = [s \in Sides |-> FALSE]
  /\ end = [s \in Sides |-> "open"]
  /\ wrote = [s \in Sides |-> 0]
  /\ took = [s \in Sides |-> 0]
  /\ up = [s \in Sides |-> "off"]
  /\ down = [s \in Sides |-> "off"]
  /\ wire = [s \in Sides |-> <<>>]
  /\ eof = [s \in Sides |-> FALSE]
  /\ got = [s \in Sides |-> <<>>]
  /\ lost = [s \in Sides |-> {}]
  /\ faults = 0

Fault == faults < MaxFaults /\ faults' = faults + 1

Goto(s, from, to) == task[s] = from /\ task' = [task EXCEPT ![s] = to]

-----------------------------------------------------------------------------
(* The handshake. *)

(* The queryable of the port takes the query, and a task opens the socket. *)
Accept ==
  /\ allowed /\ Goto("dev", "idle", "connecting")
  /\ UNCHANGED <<allowed, reply, heard, ends, pumps, faults>>

(* Nothing listens on the port of the device. *)
Refuse ==
  /\ Goto("dev", "connecting", "failed")
  /\ reply' = "refused"
  /\ UNCHANGED <<allowed, heard, ends, pumps, faults>>

(* The socket is open; the agent answers, and then only declares.  Whether *)
(* the gateway still waits it does not learn.                              *)
Acknowledge ==
  /\ Goto("dev", "connecting", "declaring")
  /\ reply' = "ok"
  /\ UNCHANGED <<allowed, heard, ends, pumps, faults>>

AcknowledgeFails ==
  /\ Fault /\ Goto("dev", "connecting", "failed")
  /\ UNCHANGED <<allowed, reply, heard, ends, pumps>>

ReceiveAck ==
  /\ \/ reply = "ok" /\ Goto("gw", "asking", "declaring")
     \/ reply = "refused" /\ Goto("gw", "asking", "failed")
  /\ UNCHANGED <<allowed, reply, heard, ends, pumps, faults>>

(* QUERY_TIMEOUT passes, or no queryable was there to answer. *)
GiveUp ==
  /\ Goto("gw", "asking", "failed")
  /\ UNCHANGED <<allowed, reply, heard, ends, pumps, faults>>

(* Publisher and subscriber are declared and the pumps spawned. *)
Declare(s) ==
  /\ Goto(s, "declaring", "bridging")
  /\ up' = [up EXCEPT ![s] = "run"]
  /\ down' = [down EXCEPT ![s] = "run"]
  /\ UNCHANGED <<allowed, reply, heard, ends, took, wire, eof, got, lost, faults>>

DeclareFails(s) ==
  /\ Fault /\ Goto(s, "declaring", "failed")
  /\ UNCHANGED <<allowed, reply, heard, ends, pumps>>

(* The declaration reaches the other session. *)
Propagate(s) ==
  /\ task[s] = "bridging" /\ ~ heard[s]
  /\ heard' = [heard EXCEPT ![s] = TRUE]
  /\ UNCHANGED <<life, ends, pumps, faults>>

-----------------------------------------------------------------------------
(* The programs at the ends of the sockets. *)

Supply(s) ==
  /\ end[s] = "open" /\ wrote[s] < MaxChunks
  /\ wrote' = [wrote EXCEPT ![s] = @ + 1]
  /\ UNCHANGED <<life, heard, end, pumps, faults>>

(* It shuts its sending half, or goes away. *)
Close(s) ==
  /\ \E e \in {"shut", "gone"} :
       /\ end[s] \notin {e, "gone"}
       /\ end' = [end EXCEPT ![s] = e]
  /\ UNCHANGED <<life, heard, wrote, pumps, faults>>

-----------------------------------------------------------------------------
(* The pumps. *)

MutantPutChunk(s, n) == \* puts that are not awaited overtake each other
  IF heard[Peer(s)]
    THEN /\ wire' = [wire EXCEPT ![Peer(s)] = <<n>> \o @]
         /\ UNCHANGED <<lost, faults>>
    ELSE /\ lost' = [lost EXCEPT ![s] = @ \cup {"chunk"}]
         /\ UNCHANGED <<wire, faults>>

(* A sample that finds no subscriber, or a congested link, is dropped.     *)
PutChunk(s, n) ==
  \/ /\ heard[Peer(s)]
     /\ wire' = [wire EXCEPT ![Peer(s)] = Append(@, n)]
     /\ UNCHANGED <<lost, faults>>
  \/ /\ IF heard[Peer(s)] THEN Fault ELSE UNCHANGED faults
     /\ lost' = [lost EXCEPT ![s] = @ \cup {"chunk"}]
     /\ UNCHANGED wire

MutantPutEnd(s) == UNCHANGED <<eof, lost, faults>>

PutEnd(s) ==
  \/ /\ heard[Peer(s)]
     /\ eof' = [eof EXCEPT ![Peer(s)] = TRUE]
     /\ UNCHANGED <<lost, faults>>
  \/ /\ IF heard[Peer(s)] THEN Fault ELSE UNCHANGED faults
     /\ lost' = [lost EXCEPT ![s] = @ \cup {"end"}]
     /\ UNCHANGED eof

(* tcp_to_zenoh: a read of bytes, which the counter has before the put. *)
Read(s) ==
  /\ up[s] = "run" /\ took[s] < wrote[s]
  /\ took' = [took EXCEPT ![s] = @ + 1]
  /\ PutChunk(s, took[s] + 1)
  /\ UNCHANGED <<life, heard, ends, up, down, eof, got>>

(* The put fails: the pump stops and publishes no end. *)
ReadPutFails(s) ==
  /\ Fault /\ up[s] = "run" /\ took[s] < wrote[s]
  /\ took' = [took EXCEPT ![s] = @ + 1]
  /\ up' = [up EXCEPT ![s] = "done"]
  /\ lost' = [lost EXCEPT ![s] = @ \cup {"chunk", "end"}]
  /\ UNCHANGED <<life, heard, ends, down, wire, eof, got>>

MutantEndOfInput(s) == end[s] # "open"

(* EOF comes after all bytes, the error of a reset connection at any time. *)
EndOfInput(s) == end[s] = "gone" \/ (end[s] = "shut" /\ took[s] = wrote[s])

ReadEnd(s) ==
  /\ up[s] = "run" /\ EndOfInput(s)
  /\ up' = [up EXCEPT ![s] = "done"]
  /\ PutEnd(s)
  /\ UNCHANGED <<life, heard, ends, took, down, wire, got>>

(* zenoh_to_tcp *)
Write(s) ==
  /\ down[s] = "run" /\ wire[s] # <<>>
  /\ got' = [got EXCEPT ![s] = Append(@, Head(wire[s]))]
  /\ wire' = [wire EXCEPT ![s] = Tail(@)]
  /\ UNCHANGED <<life, heard, ends, took, up, down, eof, lost, faults>>

(* Nobody reads the socket any more.  The sample is of no further use. *)
WriteFails(s) ==
  /\ down[s] = "run" /\ wire[s] # <<>> /\ end[s] = "gone"
  /\ down' = [down EXCEPT ![s] = "broken"]
  /\ UNCHANGED <<life, heard, ends, took, up, wire, eof, got, lost, faults>>

(* The empty sample. *)
WriteEnd(s) ==
  /\ down[s] = "run" /\ wire[s] = <<>> /\ eof[s]
  /\ down' = [down EXCEPT ![s] = "ended"]
  /\ UNCHANGED <<life, heard, ends, took, up, wire, eof, got, lost, faults>>

(* Both pumps have ended.  Only now are both halves of the socket dropped, *)
(* so that the program at its end sees it closed.                          *)
Join(s) ==
  /\ up[s] = "done" /\ down[s] \in {"ended", "broken"}
  /\ Goto(s, "bridging", "ended")
  /\ UNCHANGED <<allowed, reply, heard, ends, pumps, faults>>

(* The process of a side stops.  A query in flight is lost with it. *)
Crash(s) ==
  /\ Fault /\ task[s] \notin {"ended", "failed"}
  /\ task' = [task EXCEPT ![s] = "failed"]
  /\ heard' = [heard EXCEPT ![s] = FALSE]
  /\ up' = [up EXCEPT ![s] = "done"]
  /\ down' = [down EXCEPT ![s] = "broken"]
  /\ UNCHANGED <<allowed, reply, ends, took, wire, eof, got, lost>>

-----------------------------------------------------------------------------
Handshake == Accept \/ Refuse \/ Acknowledge \/ AcknowledgeFails \/ ReceiveAck \/ GiveUp

UpPump(s) == Read(s) \/ ReadPutFails(s) \/ ReadEnd(s)

DownPump(s) == Write(s) \/ WriteFails(s) \/ WriteEnd(s)

Next ==
  \/ Handshake
  \/ \E s \in Sides :
       \/ Declare(s) \/ DeclareFails(s) \/ Propagate(s)
       \/ Supply(s) \/ Close(s)
       \/ UpPump(s) \/ DownPump(s) \/ Join(s) \/ Crash(s)

Spec == Init /\ [][Next]_vars

(* write_all waits for as long as the program at the socket does not read, *)
(* and only a program that is gone makes it return, well or with an error. *)
Drains(s) == WriteEnd(s) \/ (end[s] = "gone" /\ (Write(s) \/ WriteFails(s)))

(* Tasks that can run are scheduled, and declarations are propagated.  The *)
(* ends of the sockets owe nothing: neither to write, nor to close, nor,   *)
(* having shut their sending half, to read on.                             *)
Fairness ==
  /\ WF_vars(Accept) /\ WF_vars(Refuse \/ Acknowledge) /\ WF_vars(ReceiveAck \/ GiveUp)
  /\ \A s \in Sides :
       /\ WF_vars(Declare(s)) /\ WF_vars(Propagate(s)) /\ WF_vars(Join(s))
       /\ WF_vars(UpPump(s)) /\ WF_vars(Drains(s))

FairSpec == Spec /\ Fairness

-----------------------------------------------------------------------------
(* Properties. *)

(* Types; and a bridge that is over, or not up yet, has no pump running. *)
TypeOK ==
  /\ task \in [Sides -> {"asking", "idle", "connecting", "declaring", "bridging",
                         "ended", "failed"}]
  /\ task["gw"] \notin {"idle", "connecting"} /\ task["dev"] # "asking"
  /\ allowed \in BOOLEAN /\ reply \in {"none", "ok", "refused"}
  /\ heard \in [Sides -> BOOLEAN] /\ eof \in [Sides -> BOOLEAN]
  /\ end \in [Sides -> {"open", "shut", "gone"}]
  /\ wrote \in [Sides -> 0..MaxChunks] /\ took \in [Sides -> Nat]
  /\ \A s \in Sides : took[s] <= wrote[s]
  /\ up \in [Sides -> {"off", "run", "done"}]
  /\ down \in [Sides -> {"off", "run", "ended", "broken"}]
  /\ wire \in [Sides -> Seq(Nat)] /\ got \in [Sides -> Seq(Nat)]
  /\ lost \in [Sides -> SUBSET {"chunk", "end"}]
  /\ faults \in 0..MaxFaults
  /\ \A s \in Sides :
       /\ up[s] = "run" \/ down[s] = "run" => task[s] = "bridging"
       /\ task[s] \notin {"bridging", "ended", "failed"} => up[s] = "off" /\ down[s] = "off"

(* Each direction is a pipe: what arrives is in order and arrives once, and *)
(* without a fault only bytes sent before the other side listens are lost. *)
Pipes == INSTANCE BytePipes WITH
  Sources <- Sides,
  taken <- took,
  carried <- [s \in Sides |-> got[Peer(s)] \o wire[Peer(s)]],
  arrived <- [s \in Sides |-> Len(got[Peer(s)])],
  broken <- faults > 0

ImplementsPipes == Pipes!Spec

(* An end that is told the stream is complete has all of it, unless part   *)
(* was lost before its side listened, or the other end was reset.          *)
NoSilentTruncation ==
  \A s \in Sides :
    down[s] = "ended" /\ end[Peer(s)] = "shut" /\ lost[Peer(s)] = {}
      => Len(got[s]) = wrote[Peer(s)]

(* Without a fault the gateway bridges only if the agent does, or did.  The *)
(* reverse fails: an agent whose answer came too late bridges on its own.   *)
GatewayNeverBridgesAlone ==
  faults = 0 /\ task["gw"] \in {"declaring", "bridging", "ended"}
    => task["dev"] \in {"declaring", "bridging", "ended"}

(* A write waits for a program that may not read.                          *)
Blocked(s) == down[s] = "run" /\ wire[s] # <<>> /\ end[s] # "gone"

(* When the programs at both ends have closed, both bridges end, as long   *)
(* as both sides came up and neither close got lost, and unless a program  *)
(* that only shut its sending half reads no more: its bridge then waits in *)
(* write_all, and the read at its end is all that would free it.           *)
BothCloseEndsBridge ==
  (\A s \in Sides : []<> ~ Blocked(s)) =>
  \A s \in Sides :
    task[s] = "bridging" /\ (\A t \in Sides : end[t] # "open")
      ~> \/ task[s] # "bridging"
         \/ faults > 0 \/ task["gw"] = "failed" \/ \E t \in Sides : "end" \in lost[t]
=============================================================================
