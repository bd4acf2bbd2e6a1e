------------------------------- MODULE Tunnels --------------------------------
(***************************************************************************)
(* Tunnels of the gateway: the `tunnels` table, the REST handlers that     *)
(* write it, the manager that opens listeners at boot and on events, the   *)
(* TCP listeners and the HTTP host router, and the connections they bridge *)
(* with the `tunnel.session` row of each.                                  *)
(*                                                                         *)
(* One atomic step is one SQLite statement, one message on the channel, or *)
(* one socket call.  A tunnel is known by the request that created it, as  *)
(* its row id may be given out again.  A bridge is no more here than its   *)
(* end; the local port of the device is left out.                          *)
(*                                                                         *)
(* Operators named Mutant... are no part of the model: each is the next    *)
(* definition with a bug put in, for the check that a property notices it. *)
(***************************************************************************)
EXTENDS DeviceTable, Sequences

CONSTANTS
  Creates,     \* POST /v1/tunnels requests
  Conns,       \* connections from outside
  Ports,       \* values of public_port, an i64 in the table
  Hosts,       \* values of public_hostname
  None,        \* nothing
  ChannelSize, \* capacity of the channel of events: 64 in bin/serve.rs
  MaxTunnelId, \* bound on the row ids in use at once
  MaxReg,      \* bound on the registrations of devices
  MaxFaults    \* bound on crashes and errors

ASSUME TunnelBounds ==
  /\ MaxTunnelId \in Nat /\ MaxReg \in Nat /\ MaxFaults \in Nat
  /\ ChannelSize \in Nat \ {0}
  /\ Ports \subseteq Nat /\ Ports \cap Hosts = {}
  /\ \A port \in Ports : port % 65536 # 0 \* port 0 asks for any free port

TunnelIds == 1 .. MaxTunnelId
Endpoints == Ports \cup Hosts

(* The CHECK constraint ties the kind of a row to which endpoint it has.   *)
Tunnel == [by : Creates, device : DeviceIds, endpoint : Endpoints]

(* `public_port as u16`. *)
U16(port) == port % 65536

Sockets == {U16(port) : port \in Ports}

(* TunnelWithZid. *)
Listener == [by : Creates, tunnel : TunnelIds, device : DeviceIds, zid : Zids,
             org : Orgs, socket : Sockets]

ASSUME NoneAssumption ==
  None \notin Tunnel \cup Listener \cup Creates \cup Orgs \cup Endpoints

VARIABLES
  devices,  \* the devices table
  tunnels,  \* the tunnels table
  audit,    \* for each connection its tunnel.session row
  manager,  \* "down", "load" (the query at boot) or "watch" (the channel)
  chan,     \* TunnelEvent::Added messages
  binding,  \* listener tasks that have not bound yet
  sockets,  \* the listener that holds each port of the gateway
  create,   \* POST /v1/tunnels handlers
  conn,     \* bridged connections
  \* history
  nextReg,  \* number of the next registration of a device
  raced,    \* creates whose device was deleted between check and insert, or
            \* whose row, and then its device, another handler took for its own
  missed,   \* creates whose listener an error or a lost handler prevented
  failed,   \* sockets whose listener ended with an error
  faults    \* crashes and errors so far

db == <<devices, tunnels, audit>>
listening == <<manager, chan, binding, sockets>>
history == <<nextReg, raced, missed, failed>>
vars == <<db, listening, create, conn, history, faults>>

NoRequest == [pc |-> "idle", org |-> None, device |-> 0, endpoint |-> None, id |-> 0, reg |-> 0,
              row |-> None, event |-> None]

NoConn == [pc |-> "idle", tcp |-> FALSE, by |-> None, tunnel |-> 0, device |-> 0,
           touched |-> 0]

(* `names` is the creation of the row that tunnel_id refers to. *)
NoSession == [state |-> "none", names |-> None]

Init ==
  /\ devices = EmptyTable
  /\ tunnels = [id \in TunnelIds |-> None]
  /\ audit = [c \in Conns |-> NoSession]
  /\ manager = "load" /\ chan = <<>> /\ binding = {}
  /\ sockets = [s \in Sockets |-> None]
  /\ create = [r \in Creates |-> NoRequest]
  /\ conn = [c \in Conns |-> NoConn]
  /\ nextReg = 1 /\ raced = {} /\ missed = {} /\ failed = {} /\ faults = 0

Fault == faults < MaxFaults /\ faults' = faults + 1

HasRow(id) == id \in TunnelIds /\ tunnels[id] # None

(* The row that request r inserted is in the table. *)
Stored(r) == \E id \in TunnelIds : HasRow(id) /\ tunnels[id].by = r

(* The joins with `devices` find the row and its device. *)
HasDevice(id) == HasRow(id) /\ Exists(devices, tunnels[id].device)

(* list_active_tcp, and what it makes of a row. *)
ActiveTcp == {id \in TunnelIds : HasDevice(id) /\ tunnels[id].endpoint \in Ports}

ListenerOf(id, row) ==
  [by |-> row.by, tunnel |-> id, device |-> row.device, zid |-> devices[row.device].zid,
   org |-> devices[row.device].org, socket |-> U16(row.endpoint)]

-----------------------------------------------------------------------------
(* POST /v1/tunnels.                                                       *)

(* get_in_org. *)
CreateCheck(r, org, device, endpoint) ==
  /\ manager # "down" /\ create[r].pc = "idle"
  /\ InOrg(devices, org, device)
  /\ create' = [create EXCEPT ![r].pc = "checked", ![r].org = org,
                              ![r].device = device, ![r].endpoint = endpoint]
  /\ UNCHANGED <<db, listening, conn, history, faults>>

IsNextTunnelId(id) ==
  /\ \A i \in TunnelIds : i >= id => ~ HasRow(i)
  /\ id > 1 => HasRow(id - 1)

(* The constraints FOREIGN KEY (device_id), UNIQUE (public_hostname) and   *)
(* UNIQUE (public_port).                                                   *)
Insertable(r) ==
  /\ Exists(devices, create[r].device)
  /\ \A id \in TunnelIds : HasRow(id) => tunnels[id].endpoint # create[r].endpoint

CreateInsert(r) ==
  /\ create[r].pc = "checked" /\ Insertable(r)
  /\ \E id \in TunnelIds :
       /\ IsNextTunnelId(id)
       /\ tunnels' = [tunnels EXCEPT ![id] =
            [by |-> r, device |-> create[r].device, endpoint |-> create[r].endpoint]]
       /\ create' = [create EXCEPT ![r].pc = "inserted", ![r].id = id,
                                   ![r].reg = devices[create[r].device].reg]
  /\ UNCHANGED <<devices, audit, listening, conn, history, faults>>

(* What outlives a handler is what properties ask of its request. *)
Done(request) == [request EXCEPT !.pc = "done", !.device = 0, !.id = 0,
                                 !.row = None, !.event = None]

(* A constraint, or another error. *)
CreateRefused(r) ==
  /\ create[r].pc = "checked"
  /\ create' = [create EXCEPT ![r] = [NoRequest EXCEPT !.pc = "done"]]
  /\ UNCHANGED <<db, listening, conn, history, faults>>

(* After the insert the handler goes no further: an error, a row or device *)
(* that is not found, or the server drops the handler at an await.         *)
CreateGivesUp(r) ==
  /\ create[r].pc \in {"inserted", "read", "sending"}
  /\ create' = [create EXCEPT ![r] = Done(@)]
  /\ missed' = missed \cup {r}
  /\ UNCHANGED <<db, listening, conn, nextReg, raced, failed, faults>>

(* tunnels::insert ends by reading the row with its last_insert_rowid. *)
CreateReadBack(r) ==
  /\ create[r].pc = "inserted" /\ HasRow(create[r].id)
  /\ LET row == tunnels[create[r].id] IN
       create' = [create EXCEPT ![r] = IF row.endpoint \in Ports
                                       THEN [@ EXCEPT !.pc = "read", !.row = row]
                                       ELSE Done(@)]
  /\ UNCHANGED <<db, listening, conn, history, faults>>

MutantSeesDevice(r) == Exists(devices, create[r].row.device)

SeesDevice(r) == InOrg(devices, create[r].org, create[r].row.device)

(* The row is that of another request, and so by now is its device: both   *)
(* ids were given out again.                                               *)
Misread(r) ==
  LET row == create[r].row IN
    row.by # r /\ devices[row.device].reg # create[row.by].reg

(* Again get_in_org, this time for the zid of the event. *)
CreateLookup(r) ==
  /\ create[r].pc = "read" /\ SeesDevice(r)
  /\ create' = [create EXCEPT ![r].pc = "sending",
                              ![r].event = ListenerOf(create[r].id, create[r].row)]
  /\ raced' = IF Misread(r) THEN raced \cup {create[r].row.by} ELSE raced
  /\ UNCHANGED <<db, listening, conn, nextReg, missed, failed, faults>>

MutantCreateSend(r) == \* the channel is unbounded
  /\ create[r].pc = "sending"
  /\ chan' = Append(chan, create[r].event)
  /\ create' = [create EXCEPT ![r] = Done(@)]
  /\ UNCHANGED <<db, manager, binding, sockets, conn, history, faults>>

CreateSend(r) ==
  /\ create[r].pc = "sending" /\ Len(chan) < ChannelSize
  /\ chan' = Append(chan, create[r].event)
  /\ create' = [create EXCEPT ![r] = Done(@)]
  /\ UNCHANGED <<db, manager, binding, sockets, conn, history, faults>>

-----------------------------------------------------------------------------
(* Rows deleted.                                                           *)

(* ON DELETE SET NULL of audit.tunnel_id. *)
Unnamed(rows) ==
  [c \in Conns |-> IF audit[c].names \in {tunnels[id].by : id \in rows}
                   THEN [audit[c] EXCEPT !.names = None] ELSE audit[c]]

DeleteRows(rows) ==
  /\ tunnels' = [id \in TunnelIds |-> IF id \in rows THEN None ELSE tunnels[id]]
  /\ audit' = Unnamed(rows)

(* DELETE /v1/tunnels/:id.  Nothing is sent to the manager. *)
DeleteTunnel(id) ==
  /\ manager # "down" /\ HasRow(id)
  /\ DeleteRows({id})
  /\ UNCHANGED <<devices, listening, create, conn, history, faults>>

MutantCascaded(device) == {}

(* tunnels.device_id REFERENCES devices ON DELETE CASCADE. *)
Cascaded(device) == {id \in TunnelIds : HasRow(id) /\ tunnels[id].device = device}

DeleteDevice(device) ==
  /\ manager # "down" /\ Exists(devices, device)
  /\ devices' = Removed(devices, device)
  /\ DeleteRows(Cascaded(device))
  /\ raced' = raced \cup {r \in Creates : create[r].pc = "checked" /\ create[r].device = device}
  /\ UNCHANGED <<listening, create, conn, nextReg, missed, failed, faults>>

RegisterDevice(z, org) ==
  /\ manager # "down" /\ nextReg <= MaxReg /\ ZidFree(devices, z)
  /\ \E id \in DeviceIds : /\ IsNextId(devices, id)
                           /\ devices' = Inserted(devices, id, z, org, nextReg)
  /\ nextReg' = nextReg + 1
  /\ UNCHANGED <<tunnels, audit, listening, create, conn, raced, missed, failed, faults>>

-----------------------------------------------------------------------------
(* The manager and its listeners.                                          *)

MutantLoad == \* only events open listeners
  /\ manager = "load" /\ manager' = "watch"
  /\ UNCHANGED <<db, chan, binding, sockets, create, conn, history, faults>>

(* The REST API may be serving before the manager has run its query. *)
Load ==
  /\ manager = "load" /\ manager' = "watch"
  /\ binding' = binding \cup
       {ListenerOf(id, tunnels[id]) : id \in ActiveTcp}
  /\ UNCHANGED <<db, chan, sockets, create, conn, history, faults>>

(* TunnelEvent::Added. *)
Receive ==
  /\ manager = "watch" /\ chan # <<>>
  /\ binding' = binding \cup {Head(chan)}
  /\ chan' = Tail(chan)
  /\ UNCHANGED <<db, manager, sockets, create, conn, history, faults>>

(* Tasks bind in any order.  A port in use is an error, which is logged. *)
Bind(l) ==
  /\ l \in binding /\ binding' = binding \ {l}
  /\ \/ /\ sockets[l.socket] = None
        /\ sockets' = [sockets EXCEPT ![l.socket] = l]
        /\ UNCHANGED <<missed, faults>>
     \/ /\ sockets[l.socket] # None
        /\ UNCHANGED <<sockets, missed, faults>>
     \/ /\ Fault /\ missed' = missed \cup {l.by}
        /\ UNCHANGED sockets
  /\ UNCHANGED <<db, manager, chan, create, conn, nextReg, raced, failed>>

(* An error of accept ends the listener. *)
AcceptError(s) ==
  /\ sockets[s] # None /\ Fault
  /\ sockets' = [sockets EXCEPT ![s] = None]
  /\ failed' = failed \cup {s}
  /\ UNCHANGED <<db, manager, chan, binding, create, conn, nextReg, raced, missed>>

-----------------------------------------------------------------------------
(* Connections.                                                            *)

Ended(connection) == [connection EXCEPT !.pc = "done", !.tunnel = 0, !.device = 0]

(* A listener accepts; the rest goes by what it was started with. *)
Accept(c, s) ==
  /\ conn[c].pc = "idle" /\ sockets[s] # None
  /\ conn' = [conn EXCEPT ![c] =
       [NoConn EXCEPT !.pc = "accepted", !.tcp = TRUE, !.by = sockets[s].by,
                      !.tunnel = sockets[s].tunnel, !.device = sockets[s].device]]
  /\ UNCHANGED <<db, listening, create, history, faults>>

(* The host router reads the row for each connection. *)
Route(c, host) ==
  /\ manager # "down" /\ conn[c].pc = "idle"
  /\ \E id \in TunnelIds :
       /\ HasDevice(id) /\ tunnels[id].endpoint = host
       /\ conn' = [conn EXCEPT ![c] =
            [NoConn EXCEPT !.pc = "accepted", !.by = tunnels[id].by,
                           !.tunnel = id, !.device = tunnels[id].device]]
  /\ UNCHANGED <<db, listening, create, history, faults>>

(* The foreign keys of the audit row have their referents. *)
Referents(c) == HasRow(conn[c].tunnel) /\ Exists(devices, conn[c].device)

(* insert_tunnel_session_open; an error leaves no row, and no id. *)
OpenSession(c) ==
  /\ conn[c].pc = "accepted"
  /\ \/ /\ Referents(c)
        /\ audit' = [audit EXCEPT ![c] =
             [state |-> "open", names |-> tunnels[conn[c].tunnel].by]]
        /\ UNCHANGED faults
     \/ ~ Referents(c) /\ UNCHANGED <<audit, faults>>
     \/ Fault /\ UNCHANGED audit
  /\ conn' = [conn EXCEPT ![c].pc = "bridging"]
  /\ UNCHANGED <<devices, tunnels, listening, create, history>>

MutantEndBridge(c) == \* a bridge that failed returns at once
  /\ conn[c].pc = "bridging"
  /\ \/ conn' = [conn EXCEPT ![c] = Ended(@)]
     \/ conn[c].tcp /\ conn' = [conn EXCEPT ![c].pc = "touching"]
  /\ UNCHANGED <<db, listening, create, history, faults>>

(* The bridge ends; a TCP listener's, when it went well, counts as a sign  *)
(* of life of the device.                                                  *)
EndBridge(c) ==
  /\ conn[c].pc = "bridging"
  /\ \/ conn' = [conn EXCEPT ![c].pc = "closing"]
     \/ conn[c].tcp /\ conn' = [conn EXCEPT ![c].pc = "touching"]
  /\ UNCHANGED <<db, listening, create, history, faults>>

(* touch_last_seen, by row id; its error is discarded. *)
TouchDevice(c) ==
  /\ conn[c].pc = "touching"
  /\ conn' = [conn EXCEPT ![c].pc = "closing", ![c].touched =
       IF Exists(devices, conn[c].device) THEN devices[conn[c].device].reg ELSE 0]
  /\ UNCHANGED <<db, listening, create, history, faults>>

(* finalize_tunnel_session; its error is discarded. *)
CloseSession(c) ==
  /\ conn[c].pc = "closing"
  /\ \/ /\ audit' = [audit EXCEPT ![c].state = IF @ = "open" THEN "closed" ELSE @]
        /\ UNCHANGED faults
     \/ Fault /\ UNCHANGED audit
  /\ conn' = [conn EXCEPT ![c] = Ended(@)]
  /\ UNCHANGED <<devices, tunnels, listening, create, history>>

-----------------------------------------------------------------------------
(* The process dies, the error of the query at boot included. *)
Crash ==
  /\ manager # "down" /\ Fault
  /\ manager' = "down" /\ chan' = <<>> /\ binding' = {}
  /\ sockets' = [s \in Sockets |-> None]
  /\ create' = [r \in Creates |-> IF create[r].pc = "idle" THEN create[r]
                                  ELSE Done(create[r])]
  /\ conn' = [c \in Conns |-> IF conn[c].pc = "idle" THEN conn[c]
                              ELSE Ended(conn[c])]
  /\ missed' = {} /\ failed' = {}
  /\ UNCHANGED <<db, nextReg, raced>>

Restart ==
  /\ manager = "down" /\ manager' = "load"
  /\ UNCHANGED <<db, chan, binding, sockets, create, conn, history, faults>>

-----------------------------------------------------------------------------
Handle(r) ==
  \/ \E org \in Orgs, device \in DeviceIds, endpoint \in Endpoints :
       CreateCheck(r, org, device, endpoint)
  \/ CreateInsert(r) \/ CreateRefused(r) \/ CreateReadBack(r)
  \/ CreateLookup(r) \/ CreateSend(r) \/ CreateGivesUp(r)

Manage == Load \/ Receive \/ \E l \in binding : Bind(l)

Bridge(c) ==
  \/ \E s \in Sockets : Accept(c, s)
  \/ \E h \in Hosts : Route(c, h)
  \/ OpenSession(c) \/ EndBridge(c) \/ TouchDevice(c) \/ CloseSession(c)

Environment ==
  \/ \E z \in Zids, org \in Orgs : RegisterDevice(z, org)
  \/ \E id \in DeviceIds : DeleteDevice(id)
  \/ \E id \in TunnelIds : DeleteTunnel(id)
  \/ \E s \in Sockets : AcceptError(s)
  \/ Crash \/ Restart

Next ==
  \/ \E r \in Creates : Handle(r)
  \/ \E c \in Conns : Bridge(c)
  \/ Manage \/ Environment

Spec == Init /\ [][Next]_vars

-----------------------------------------------------------------------------
(* Properties.                                                             *)

Request == [pc : {"idle", "checked", "inserted", "read", "sending", "done"},
            org : Orgs \cup {None}, device : 0 .. MaxDeviceId,
            endpoint : Endpoints \cup {None},
            id : 0 .. MaxTunnelId, reg : Nat, row : Tunnel \cup {None},
            event : Listener \cup {None}]

Connection == [pc : {"idle", "accepted", "bridging", "touching", "closing", "done"},
               tcp : BOOLEAN, by : Creates \cup {None}, tunnel : 0 .. MaxTunnelId,
               device : 0 .. MaxDeviceId, touched : Nat]

Session == [state : {"none", "open", "closed"}, names : Creates \cup {None}]

Active(r) == create[r].pc \in {"inserted", "read", "sending"}

(* Received by the manager, or about to be. *)
Waiting == binding \cup {chan[i] : i \in DOMAIN chan}

(* Listeners on their way or open. *)
Listeners ==
  (Waiting \cup {sockets[s] : s \in Sockets} \cup {create[r].event : r \in Creates})
    \ {None}

(* Every variable has its type, a process that is down has neither sockets *)
(* nor work under way, and the events waiting to be received fit.          *)
TypeOK ==
  /\ devices \in Table
  /\ tunnels \in [TunnelIds -> Tunnel \cup {None}]
  /\ audit \in [Conns -> Session]
  /\ manager \in {"down", "load", "watch"}
  /\ chan \in Seq(Listener) /\ Len(chan) <= ChannelSize
  /\ binding \in SUBSET Listener
  /\ sockets \in [Sockets -> Listener \cup {None}]
  /\ create \in [Creates -> Request] /\ conn \in [Conns -> Connection]
  /\ nextReg \in Nat /\ faults \in Nat
  /\ raced \in SUBSET Creates /\ missed \in SUBSET Creates /\ failed \in SUBSET Sockets
  /\ manager = "down" =>
       /\ chan = <<>> /\ binding = {} /\ \A s \in Sockets : sockets[s] = None
       /\ \A r \in Creates : create[r].pc \in {"idle", "done"}
       /\ \A c \in Conns : conn[c].pc \in {"idle", "done"}

Holds(r, s) == sockets[s] # None /\ sockets[s].by = r

(* The row at this id has, or is about to have, its listener. *)
Served(id) ==
  LET r == tunnels[id].by IN
    \/ Active(r)
    \/ \E l \in Waiting : l.by = r
    \/ Holds(r, U16(tunnels[id].endpoint))

(* The port of the row at this id is held by the listener of a tunnel that *)
(* was deleted, or of one whose port differs by a multiple of 2^16.        *)
Blocked(id) ==
  LET l == sockets[U16(tunnels[id].endpoint)] IN
    l # None /\ (~ Stored(l.by) \/ create[l.by].endpoint # tunnels[id].endpoint)

(* Once the manager watches the channel, a TCP tunnel of the table has its *)
(* listener, or its port is blocked.  Otherwise something went wrong: its  *)
(* event or its bind was lost, or a listener on that port ended.           *)
StoredTunnelServed ==
  manager = "watch" =>
    \A id \in ActiveTcp :
      \/ Served(id) \/ Blocked(id)
      \/ tunnels[id].by \in missed \/ U16(tunnels[id].endpoint) \in failed

(* As long as a tunnel is in the table, its listener, and every message    *)
(* about it, agrees with the table: the port, the device, its Zenoh id and *)
(* its organisation, although the listener copied them when it started.    *)
ListenerMatchesRow ==
  \A l \in Listeners :
    Stored(l.by) =>
      /\ HasRow(l.tunnel) /\ tunnels[l.tunnel].by = l.by
      /\ l.socket = U16(tunnels[l.tunnel].endpoint)
      /\ l.device = tunnels[l.tunnel].device
      /\ InOrg(devices, l.org, l.device) /\ devices[l.device].zid = l.zid

(* A listener leads to a device of the organisation that asked for the     *)
(* tunnel, whatever row ids have passed to since, unless that device was   *)
(* deleted between the check and the insert, or a handler that lost its    *)
(* row read this tunnel back instead and its device was replaced as well.  *)
ListenersStayInOrg ==
  \A l \in Listeners : l.org = create[l.by].org \/ l.by \in raced

(* A connection that ran its course while its tunnel is in the table has a *)
(* finished session row, which names that tunnel.                          *)
SessionRecorded ==
  \A c \in Conns :
    conn[c].pc = "done" /\ Stored(conn[c].by) /\ faults = 0 =>
      audit[c] = [state |-> "closed", names |-> conn[c].by]

(* The device whose last_seen_at a connection moved is the one its tunnel  *)
(* was made for, as long as that tunnel is in the table.                   *)
SeenDeviceIsOwn ==
  \A c \in Conns :
    Stored(conn[c].by) => conn[c].touched \in {0, create[conn[c].by].reg}
=============================================================================
