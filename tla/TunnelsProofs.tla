---------------------------- MODULE TunnelsProofs -----------------------------
(***************************************************************************)
(* The safety properties of the tunnels, for any creates, connections,     *)
(* endpoints and devices, any capacity of the channel and any bounds.      *)
(*                                                                         *)
(* One inductive invariant, in layers: Types, then what the rows of the    *)
(* two tables have to do with the requests that wrote them, what a handler *)
(* has in hand, what the listeners were told, and what the connections     *)
(* recorded.  Only the last property, that a stored tunnel is served,      *)
(* needs no layer of its own: it is inductive given the others.            *)
(***************************************************************************)
EXTENDS Tunnels, SequenceTheorems, TLAPS

(* The request has inserted its row, or never will. *)
Past(r) == create[r].pc \notin {"idle", "checked"}

Open(c) == conn[c].pc \in {"accepted", "bridging", "touching", "closing"}

(* TypeOK, and which fields are in use at which point. *)
Types ==
  /\ TypeOK
  /\ \A r \in Creates :
       /\ create[r].pc \in {"checked", "inserted", "read", "sending"} =>
            /\ create[r].org \in Orgs /\ create[r].device \in DeviceIds
            /\ create[r].endpoint \in Endpoints
       /\ Active(r) => create[r].id \in TunnelIds
       /\ create[r].pc \in {"read", "sending"} =>
            create[r].row \in Tunnel /\ create[r].row.endpoint \in Ports
       /\ create[r].event # None <=> create[r].pc = "sending"
  /\ \A c \in Conns :
       Open(c) => /\ conn[c].by \in Creates /\ conn[c].tunnel \in TunnelIds
                  /\ conn[c].device \in DeviceIds

(* Registrations are numbered, and a request knows that of its device.     *)
RegInv ==
  /\ \A id \in DeviceIds :
       Exists(devices, id) => devices[id].reg # 0 /\ devices[id].reg < nextReg
  /\ \A id, i \in DeviceIds :
       Exists(devices, id) /\ Exists(devices, i) /\ devices[id].reg = devices[i].reg => id = i
  /\ \A r \in Creates : create[r].reg < nextReg /\ (~ Past(r) => create[r].reg = 0)
  /\ nextReg # 0

(* The device of a request is in the organisation of its caller. *)
OrgInv ==
  \A r \in Creates :
    /\ create[r].pc = "checked" =>
         r \in raced \/ InOrg(devices, create[r].org, create[r].device)
    /\ \A id \in DeviceIds :
         Exists(devices, id) /\ devices[id].reg = create[r].reg =>
           r \in raced \/ devices[id].org = create[r].org

(* The rows of the tunnels table: the foreign key, the unique endpoint, and *)
(* one row per request at most, which is as the request asked.              *)
RowInv ==
  \A id \in TunnelIds : HasRow(id) =>
    LET row == tunnels[id] IN
      /\ Exists(devices, row.device) /\ devices[row.device].reg = create[row.by].reg
      /\ Past(row.by) /\ row.endpoint = create[row.by].endpoint
      /\ \A i \in TunnelIds : HasRow(i) /\ i # id =>
           tunnels[i].by # row.by /\ tunnels[i].endpoint # row.endpoint

(* The row that a handler read back is its own, as long as that is there.  *)
Hand(r) ==
  /\ Active(r) /\ Stored(r) => HasRow(create[r].id) /\ tunnels[create[r].id].by = r
  /\ create[r].pc \in {"read", "sending"} =>
       LET row == create[r].row IN
         /\ Past(row.by) /\ (Stored(r) => row.by = r)
         /\ Stored(row.by) => tunnels[create[r].id] = row
  /\ create[r].pc = "sending" => create[r].event.by = create[r].row.by

HandInv == \A r \in Creates : Hand(r)

(* What ListenerMatchesRow and ListenersStayInOrg say of a listener. *)
Matches(l) ==
  Stored(l.by) =>
    /\ HasRow(l.tunnel) /\ tunnels[l.tunnel].by = l.by
    /\ l.socket = U16(tunnels[l.tunnel].endpoint)
    /\ l.device = tunnels[l.tunnel].device
    /\ InOrg(devices, l.org, l.device) /\ devices[l.device].zid = l.zid

InOwnOrg(l) == l.org = create[l.by].org \/ l.by \in raced

Good(l) == Past(l.by) /\ InOwnOrg(l) /\ Matches(l)

ListenerInv == \A l \in Listeners : Good(l)

(* A connection goes by the row of its tunnel, as long as that is there.   *)
Follows(c) ==
  LET by == conn[c].by IN
    /\ conn[c].pc # "idle" => by \in Creates /\ Past(by)
    /\ conn[c].pc = "idle" => by = None
    /\ Open(c) /\ Stored(by) =>
         /\ HasRow(conn[c].tunnel) /\ tunnels[conn[c].tunnel].by = by
         /\ conn[c].device = tunnels[conn[c].tunnel].device
    /\ Stored(by) => conn[c].touched \in {0, create[by].reg}

(* Its session row is written as far as the connection has come. *)
Recorded(c) ==
  faults = 0 /\ Stored(conn[c].by) =>
    /\ conn[c].pc \in {"bridging", "touching", "closing"} =>
         audit[c] = [state |-> "open", names |-> conn[c].by]
    /\ conn[c].pc = "done" => audit[c] = [state |-> "closed", names |-> conn[c].by]

ConnInv == \A c \in Conns : Follows(c) /\ Recorded(c)

IInv == Types /\ RegInv /\ OrgInv /\ RowInv /\ HandInv /\ ListenerInv /\ ConnInv

-----------------------------------------------------------------------------
(* The operators.                                                          *)

LEMMA Ids ==
  /\ TunnelIds \subseteq 0 .. MaxTunnelId /\ TunnelIds \subseteq Nat
  /\ DeviceIds \subseteq 0 .. MaxDeviceId /\ DeviceIds \subseteq Nat
  BY TunnelBounds, MaxDeviceIdAssumption DEF TunnelIds, DeviceIds

LEMMA Nothing ==
  /\ None \notin Tunnel /\ None \notin Listener /\ None \notin Creates
  /\ None \notin Orgs /\ None \notin Endpoints
  BY NoneAssumption

LEMMA DoneEffect ==
  ASSUME NEW request \in Request
  PROVE  /\ Done(request) \in Request /\ Done(request).pc = "done"
         /\ Done(request).org = request.org /\ Done(request).endpoint = request.endpoint
         /\ Done(request).reg = request.reg /\ Done(request).event = None
<1>1. 0 \in 0 .. MaxTunnelId /\ 0 \in 0 .. MaxDeviceId
  BY TunnelBounds, MaxDeviceIdAssumption
<1>2. \A some \in Request :
        [some EXCEPT !.pc = "done", !.device = 0, !.id = 0] \in Request
  BY <1>1 DEF Request
<1>3. \A some \in Request : [some EXCEPT !.row = None, !.event = None] \in Request
  BY DEF Request
<1>4. Done(request) \in Request
  <2> DEFINE first == [request EXCEPT !.pc = "done", !.device = 0, !.id = 0]
  <2>1. Done(request) = [first EXCEPT !.row = None, !.event = None]
    BY DEF Done
  <2>2. first \in Request
    BY <1>2
  <2>3. QED
    BY <1>3, <2>1, <2>2
<1>5. /\ Done(request).pc = "done" /\ Done(request).event = None
      /\ Done(request).org = request.org /\ Done(request).endpoint = request.endpoint
      /\ Done(request).reg = request.reg
  BY DEF Done, Request
<1>6. QED
  BY <1>4, <1>5

LEMMA EndedEffect ==
  ASSUME NEW connection \in Connection
  PROVE  /\ Ended(connection) \in Connection /\ Ended(connection).pc = "done"
         /\ Ended(connection).by = connection.by
         /\ Ended(connection).touched = connection.touched
<1>1. 0 \in 0 .. MaxTunnelId /\ 0 \in 0 .. MaxDeviceId
  BY TunnelBounds, MaxDeviceIdAssumption
<1>2. \A some \in Connection : [some EXCEPT !.pc = "done"] \in Connection
  BY DEF Connection
<1>3. \A some \in Connection : [some EXCEPT !.tunnel = 0, !.device = 0] \in Connection
  BY <1>1 DEF Connection
<1>4. Ended(connection) \in Connection
  <2> DEFINE first == [connection EXCEPT !.pc = "done"]
  <2>1. Ended(connection) = [first EXCEPT !.tunnel = 0, !.device = 0]
    BY DEF Ended
  <2>2. QED
    BY <1>2, <1>3, <2>1
<1>5. /\ Ended(connection).pc = "done" /\ Ended(connection).by = connection.by
      /\ Ended(connection).touched = connection.touched
  BY DEF Ended, Connection
<1>6. QED
  BY <1>4, <1>5

LEMMA ListenerFields ==
  ASSUME Types, NEW id \in TunnelIds, NEW row \in Tunnel, row.endpoint \in Ports,
         Exists(devices, row.device)
  PROVE  LET l == ListenerOf(id, row) IN
           /\ l \in Listener /\ l # None
           /\ l.by = row.by /\ l.tunnel = id /\ l.device = row.device
           /\ l.zid = devices[row.device].zid /\ l.org = devices[row.device].org
           /\ l.socket = U16(row.endpoint)
<1>1. devices[row.device] \in Device
  BY DEF Types, TypeOK, Table, Exists
<1>2. U16(row.endpoint) \in Sockets
  BY DEF Sockets
<1>3. ListenerOf(id, row) \in Listener
  BY <1>1, <1>2 DEF ListenerOf, Listener, Tunnel, Device, Exists
<1>4. QED
  BY <1>3, Nothing DEF ListenerOf

(* A handler's step: the other requests stay as they are. *)
LEMMA OneRequest ==
  ASSUME Types, NEW r \in Creates, NEW request \in Request,
         create' = [create EXCEPT ![r] = request]
  PROVE  /\ create' \in [Creates -> Request] /\ create'[r] = request
         /\ \A q \in Creates : q # r => create'[q] = create[q]
  BY DEF Types, TypeOK

-----------------------------------------------------------------------------
(* Types.                                                                  *)

LEMMA TypesInit == Init => Types
<1> SUFFICES ASSUME Init PROVE Types
  OBVIOUS
<1>1. NoRequest \in Request /\ NoRequest.pc = "idle" /\ NoRequest.event = None
  BY TunnelBounds, MaxDeviceIdAssumption DEF NoRequest, Request
<1>2. NoConn \in Connection /\ NoConn.pc = "idle"
  BY TunnelBounds, MaxDeviceIdAssumption DEF NoConn, Connection
<1>3. NoSession \in Session
  BY DEF NoSession, Session
<1>4. EmptyTable \in Table
  BY DEF EmptyTable, Table
<1>5. create \in [Creates -> Request] /\ \A r \in Creates : create[r] = NoRequest
  BY <1>1 DEF Init
<1>6. conn \in [Conns -> Connection] /\ \A c \in Conns : conn[c] = NoConn
  BY <1>2 DEF Init
<1>7. TypeOK
  BY <1>3, <1>4, <1>5, <1>6, TunnelBounds, EmptySeq DEF Init, TypeOK
<1>8. QED
  BY <1>1, <1>2, <1>5, <1>6, <1>7 DEF Types, Active, Open

(* What the steps of a handler do to its request. *)
LEMMA CheckEffect ==
  ASSUME Types, NEW r \in Creates, NEW org \in Orgs, NEW device \in DeviceIds,
         NEW endpoint \in Endpoints, CreateCheck(r, org, device, endpoint)
  PROVE  /\ create' \in [Creates -> Request]
         /\ \A q \in Creates : q # r => create'[q] = create[q]
         /\ create[r].pc = "idle" /\ create'[r].pc = "checked"
         /\ create'[r].org = org /\ create'[r].device = device
         /\ create'[r].endpoint = endpoint
         /\ create'[r].reg = create[r].reg /\ create'[r].event = create[r].event
<1> DEFINE new == [create[r] EXCEPT !.pc = "checked", !.org = org, !.device = device,
                                    !.endpoint = endpoint]
<1>1. create[r] \in Request /\ create[r].pc = "idle" /\ create' = [create EXCEPT ![r] = new]
  BY DEF Types, TypeOK, CreateCheck
<1>2. /\ new \in Request /\ new.pc = "checked" /\ new.org = org /\ new.device = device
      /\ new.endpoint = endpoint /\ new.reg = create[r].reg /\ new.event = create[r].event
  BY <1>1, Ids DEF Request
<1>3. /\ create' \in [Creates -> Request] /\ create'[r] = new
      /\ \A q \in Creates : q # r => create'[q] = create[q]
  BY <1>1, <1>2, OneRequest
<1>4. QED
  BY <1>1, <1>2, <1>3

LEMMA InsertEffect ==
  ASSUME Types, NEW r \in Creates, CreateInsert(r)
  PROVE  /\ create' \in [Creates -> Request]
         /\ \A q \in Creates : q # r => create'[q] = create[q]
         /\ create[r].pc = "checked" /\ create'[r].pc = "inserted"
         /\ create'[r].org = create[r].org /\ create'[r].device = create[r].device
         /\ create'[r].endpoint = create[r].endpoint
         /\ create'[r].reg = devices[create[r].device].reg
         /\ create'[r].event = create[r].event
         /\ create'[r].id \in TunnelIds /\ ~ HasRow(create'[r].id)
         /\ Exists(devices, create[r].device)
         /\ LET row == [by |-> r, device |-> create[r].device,
                        endpoint |-> create[r].endpoint]
            IN  row \in Tunnel /\ tunnels' = [tunnels EXCEPT ![create'[r].id] = row]
<1>1. PICK id \in TunnelIds :
        /\ IsNextTunnelId(id)
        /\ tunnels' = [tunnels EXCEPT ![id] =
             [by |-> r, device |-> create[r].device, endpoint |-> create[r].endpoint]]
        /\ create' = [create EXCEPT ![r].pc = "inserted", ![r].id = id,
                                    ![r].reg = devices[create[r].device].reg]
  BY DEF CreateInsert
<1> DEFINE new == [create[r] EXCEPT !.pc = "inserted", !.id = id,
                                    !.reg = devices[create[r].device].reg]
<1>2. /\ create[r] \in Request /\ create[r].pc = "checked" /\ create' = [create EXCEPT ![r] = new]
      /\ create[r].device \in DeviceIds /\ create[r].endpoint \in Endpoints
  BY <1>1 DEF Types, TypeOK, CreateInsert
<1>3. Exists(devices, create[r].device) /\ devices[create[r].device].reg \in Nat
  BY <1>2 DEF CreateInsert, Insertable, Exists, Types, TypeOK, Table, Device
<1>4. /\ new \in Request /\ new.pc = "inserted" /\ new.id = id /\ new.org = create[r].org
      /\ new.device = create[r].device /\ new.reg = devices[create[r].device].reg
      /\ new.endpoint = create[r].endpoint /\ new.event = create[r].event
  BY <1>2, <1>3, Ids DEF Request
<1>5. /\ create' \in [Creates -> Request] /\ create'[r] = new
      /\ \A q \in Creates : q # r => create'[q] = create[q]
  BY <1>2, <1>4, OneRequest
<1>6. ~ HasRow(id)
  BY <1>1, Ids DEF IsNextTunnelId
<1>7. [by |-> r, device |-> create[r].device, endpoint |-> create[r].endpoint] \in Tunnel
  BY <1>2 DEF Tunnel
<1>8. QED
  BY <1>1, <1>2, <1>3, <1>4, <1>5, <1>6, <1>7

LEMMA ReadBackEffect ==
  ASSUME Types, NEW r \in Creates, CreateReadBack(r)
  PROVE  /\ create' \in [Creates -> Request]
         /\ \A q \in Creates : q # r => create'[q] = create[q]
         /\ create[r].pc = "inserted" /\ HasRow(create[r].id)
         /\ tunnels[create[r].id] \in Tunnel
         /\ create'[r].org = create[r].org /\ create'[r].endpoint = create[r].endpoint
         /\ create'[r].reg = create[r].reg
         /\ create'[r].event = None
         /\ IF tunnels[create[r].id].endpoint \in Ports
              THEN /\ create'[r].pc = "read" /\ create'[r].row = tunnels[create[r].id]
                   /\ create'[r].id = create[r].id /\ create'[r].device = create[r].device
              ELSE create'[r].pc = "done"
<1> DEFINE row == tunnels[create[r].id]
           new == [create[r] EXCEPT !.pc = "read", !.row = row]
<1>1. /\ create[r] \in Request /\ create[r].pc = "inserted" /\ row \in Tunnel
      /\ HasRow(create[r].id) /\ create[r].event = None
  BY DEF CreateReadBack, HasRow, Types, TypeOK, Active
<1>2. CASE row.endpoint \in Ports
  <2>1. /\ new \in Request /\ new.pc = "read" /\ new.row = row /\ new.org = create[r].org
        /\ new.device = create[r].device /\ new.endpoint = create[r].endpoint
        /\ new.id = create[r].id /\ new.reg = create[r].reg /\ new.event = create[r].event
    BY <1>1 DEF Request
  <2>2. create' = [create EXCEPT ![r] = new]
    BY <1>2 DEF CreateReadBack, Types, TypeOK
  <2>3. /\ create' \in [Creates -> Request] /\ create'[r] = new
        /\ \A q \in Creates : q # r => create'[q] = create[q]
    BY <2>1, <2>2, OneRequest
  <2>4. QED
    BY <1>1, <1>2, <2>1, <2>3
<1>3. CASE row.endpoint \notin Ports
  <2>1. create' = [create EXCEPT ![r] = Done(create[r])]
    BY <1>3 DEF CreateReadBack, Types, TypeOK
  <2>2. /\ create' \in [Creates -> Request] /\ create'[r] = Done(create[r])
        /\ \A q \in Creates : q # r => create'[q] = create[q]
    BY <1>1, <2>1, DoneEffect, OneRequest
  <2>3. QED
    BY <1>1, <1>3, <2>2, DoneEffect
<1>4. QED
  BY <1>2, <1>3

LEMMA LookupEffect ==
  ASSUME Types, NEW r \in Creates, CreateLookup(r)
  PROVE  /\ create' \in [Creates -> Request]
         /\ \A q \in Creates : q # r => create'[q] = create[q]
         /\ create[r].pc = "read" /\ create'[r].pc = "sending"
         /\ create[r].id \in TunnelIds /\ create[r].row \in Tunnel
         /\ create[r].row.endpoint \in Ports /\ Exists(devices, create[r].row.device)
         /\ create'[r].org = create[r].org /\ create'[r].endpoint = create[r].endpoint
         /\ create'[r].reg = create[r].reg /\ create'[r].device = create[r].device
         /\ create'[r].row = create[r].row /\ create'[r].id = create[r].id
         /\ create'[r].event = ListenerOf(create[r].id, create[r].row)
         /\ create'[r].event \in Listener /\ create'[r].event # None
<1> DEFINE event == ListenerOf(create[r].id, create[r].row)
           new == [create[r] EXCEPT !.pc = "sending", !.event = event]
<1>1. /\ create[r] \in Request /\ create[r].pc = "read" /\ create[r].row \in Tunnel
      /\ create[r].row.endpoint \in Ports /\ create[r].id \in TunnelIds
      /\ create' = [create EXCEPT ![r] = new]
      /\ Exists(devices, create[r].row.device)
  BY DEF CreateLookup, SeesDevice, InOrg, Types, TypeOK, Active
<1>2. event \in Listener /\ event # None
  BY <1>1, ListenerFields
<1>3. /\ new \in Request /\ new.pc = "sending" /\ new.event = event
      /\ new.row = create[r].row /\ new.org = create[r].org /\ new.reg = create[r].reg
      /\ new.device = create[r].device /\ new.endpoint = create[r].endpoint
      /\ new.id = create[r].id
  BY <1>1, <1>2 DEF Request
<1>4. /\ create' \in [Creates -> Request] /\ create'[r] = new
      /\ \A q \in Creates : q # r => create'[q] = create[q]
  BY <1>1, <1>3, OneRequest
<1>5. QED
  BY <1>1, <1>2, <1>3, <1>4

(* The ways in which a handler ends. *)
LEMMA RefusedEffect ==
  ASSUME Types, NEW r \in Creates, CreateRefused(r)
  PROVE  /\ create' \in [Creates -> Request]
         /\ \A q \in Creates : q # r => create'[q] = create[q]
         /\ create[r].pc = "checked" /\ create'[r].pc = "done"
         /\ create'[r].reg = 0 /\ create'[r].event = None
<1> DEFINE new == [NoRequest EXCEPT !.pc = "done"]
<1>1. new \in Request /\ new.pc = "done" /\ new.reg = 0 /\ new.event = None
  BY TunnelBounds, MaxDeviceIdAssumption DEF Request, NoRequest
<1>2. create[r].pc = "checked" /\ create' = [create EXCEPT ![r] = new]
  BY DEF CreateRefused
<1>3. QED
  BY <1>1, <1>2, OneRequest

LEMMA EndEffect ==
  ASSUME Types, NEW r \in Creates, CreateSend(r) \/ CreateGivesUp(r)
  PROVE  /\ create' \in [Creates -> Request]
         /\ \A q \in Creates : q # r => create'[q] = create[q]
         /\ Active(r) /\ create'[r].pc = "done" /\ create'[r].event = None
         /\ create'[r].org = create[r].org /\ create'[r].endpoint = create[r].endpoint
         /\ create'[r].reg = create[r].reg
<1>1. /\ create[r] \in Request /\ Active(r)
      /\ create' = [create EXCEPT ![r] = Done(create[r])]
  BY DEF CreateSend, CreateGivesUp, Active, Types, TypeOK
<1>2. Done(create[r]) \in Request
  BY <1>1, DoneEffect
<1>3. /\ create' \in [Creates -> Request] /\ create'[r] = Done(create[r])
      /\ \A q \in Creates : q # r => create'[q] = create[q]
  BY <1>1, <1>2, OneRequest
<1>4. QED
  BY <1>1, <1>3, DoneEffect

(* A handler goes on: what there is to show for its request. *)
LEMMA RequestStep ==
  ASSUME Types, NEW r \in Creates, TypeOK', UNCHANGED conn,
         \A q \in Creates : q # r => create'[q] = create[q],
         create'[r].pc \in {"checked", "inserted", "read", "sending"} =>
           /\ create'[r].org \in Orgs /\ create'[r].device \in DeviceIds
           /\ create'[r].endpoint \in Endpoints,
         Active(r)' => create'[r].id \in TunnelIds,
         create'[r].pc \in {"read", "sending"} =>
           create'[r].row \in Tunnel /\ create'[r].row.endpoint \in Ports,
         create'[r].event # None <=> create'[r].pc = "sending"
  PROVE  Types'
BY DEF Types, Active, Open

(* Only its own request. *)
LEMMA HandleOthers ==
  ASSUME Types, NEW r \in Creates, Handle(r)
  PROVE  \A q \in Creates : q # r => create'[q] = create[q]
<1>1. CASE \E org \in Orgs, device \in DeviceIds, endpoint \in Endpoints :
             CreateCheck(r, org, device, endpoint)
  BY <1>1, CheckEffect
<1>2. CASE CreateInsert(r)
  BY <1>2, InsertEffect
<1>3. CASE CreateRefused(r)
  BY <1>3, RefusedEffect
<1>4. CASE CreateReadBack(r)
  BY <1>4, ReadBackEffect
<1>5. CASE CreateLookup(r)
  BY <1>5, LookupEffect
<1>6. CASE CreateSend(r) \/ CreateGivesUp(r)
  BY <1>6, EndEffect
<1>7. QED
  BY <1>1, <1>2, <1>3, <1>4, <1>5, <1>6 DEF Handle

(* Requests. *)
LEMMA HandleTypes ==
  ASSUME Types, NEW r \in Creates, Handle(r)
  PROVE  Types'
<1> USE Ids, Nothing
<1>1. ASSUME NEW org \in Orgs, NEW device \in DeviceIds, NEW endpoint \in Endpoints,
             CreateCheck(r, org, device, endpoint)
      PROVE  Types'
  <2>1. /\ create' \in [Creates -> Request]
        /\ \A q \in Creates : q # r => create'[q] = create[q]
        /\ create[r].pc = "idle" /\ create'[r].pc = "checked"
        /\ create'[r].org = org /\ create'[r].device = device
        /\ create'[r].endpoint = endpoint /\ create'[r].event = create[r].event
    BY <1>1, CheckEffect
  <2>2. TypeOK'
    BY <1>1, <2>1 DEF CreateCheck, db, listening, history, Types, TypeOK
  <2>3. UNCHANGED conn
    BY <1>1 DEF CreateCheck
  <2>4. QED
    BY <2>1, <2>2, <2>3, RequestStep DEF Types, Active
<1>2. ASSUME CreateInsert(r) PROVE Types'
  <2>1. /\ create' \in [Creates -> Request]
        /\ \A q \in Creates : q # r => create'[q] = create[q]
        /\ create[r].pc = "checked" /\ create'[r].pc = "inserted"
        /\ create'[r].org = create[r].org /\ create'[r].device = create[r].device
        /\ create'[r].endpoint = create[r].endpoint
        /\ create'[r].id \in TunnelIds /\ create'[r].event = create[r].event
    BY <1>2, InsertEffect
  <2>2. \E row \in Tunnel : tunnels' = [tunnels EXCEPT ![create'[r].id] = row]
    BY <1>2, InsertEffect
  <2>3. tunnels' \in [TunnelIds -> Tunnel \cup {None}]
    BY <2>1, <2>2 DEF Types, TypeOK
  <2>4. TypeOK'
    BY <1>2, <2>1, <2>3 DEF CreateInsert, listening, history, Types, TypeOK
  <2>5. UNCHANGED conn
    BY <1>2 DEF CreateInsert
  <2>6. QED
    BY <2>1, <2>4, <2>5, RequestStep DEF Types, Active
<1>3. ASSUME CreateRefused(r) PROVE Types'
  <2>1. /\ create' \in [Creates -> Request]
        /\ \A q \in Creates : q # r => create'[q] = create[q]
        /\ create'[r].pc = "done" /\ create'[r].event = None
    BY <1>3, RefusedEffect
  <2>2. TypeOK'
    BY <1>3, <2>1 DEF CreateRefused, db, listening, history, Types, TypeOK
  <2>3. UNCHANGED conn
    BY <1>3 DEF CreateRefused
  <2>4. QED
    BY <2>1, <2>2, <2>3, RequestStep DEF Types, Active
<1>4. ASSUME CreateGivesUp(r) PROVE Types'
  <2>1. /\ create' \in [Creates -> Request]
        /\ \A q \in Creates : q # r => create'[q] = create[q]
        /\ create'[r].pc = "done" /\ create'[r].event = None
    BY <1>4, EndEffect
  <2>2. TypeOK'
    BY <1>4, <2>1 DEF CreateGivesUp, db, listening, Types, TypeOK
  <2>3. UNCHANGED conn
    BY <1>4 DEF CreateGivesUp
  <2>4. QED
    BY <2>1, <2>2, <2>3, RequestStep DEF Types, Active
<1>5. ASSUME CreateReadBack(r) PROVE Types'
  <2>1. /\ create' \in [Creates -> Request]
        /\ \A q \in Creates : q # r => create'[q] = create[q]
        /\ create[r].pc = "inserted" /\ tunnels[create[r].id] \in Tunnel
        /\ create'[r].org = create[r].org /\ create'[r].endpoint = create[r].endpoint
        /\ create'[r].event = None
        /\ IF tunnels[create[r].id].endpoint \in Ports
             THEN /\ create'[r].pc = "read" /\ create'[r].row = tunnels[create[r].id]
                  /\ create'[r].id = create[r].id /\ create'[r].device = create[r].device
             ELSE create'[r].pc = "done"
    BY <1>5, ReadBackEffect
  <2>2. TypeOK'
    BY <1>5, <2>1 DEF CreateReadBack, db, listening, history, Types, TypeOK
  <2>3. UNCHANGED conn
    BY <1>5 DEF CreateReadBack
  <2>4. QED
    BY <2>1, <2>2, <2>3, RequestStep DEF Types, Active
<1>6. ASSUME CreateLookup(r) PROVE Types'
  <2>1. /\ create' \in [Creates -> Request]
        /\ \A q \in Creates : q # r => create'[q] = create[q]
        /\ create[r].pc = "read" /\ create'[r].pc = "sending"
        /\ create[r].row \in Tunnel
        /\ create'[r].org = create[r].org /\ create'[r].endpoint = create[r].endpoint
        /\ create'[r].device = create[r].device
        /\ create'[r].row = create[r].row /\ create'[r].id = create[r].id
        /\ create'[r].event # None
    BY <1>6, LookupEffect
  <2>2. raced' \in SUBSET Creates
    BY <1>6, <2>1 DEF CreateLookup, Types, TypeOK, Tunnel
  <2>3. TypeOK'
    BY <1>6, <2>1, <2>2 DEF CreateLookup, db, listening, Types, TypeOK
  <2>4. UNCHANGED conn
    BY <1>6 DEF CreateLookup
  <2>5. QED
    BY <2>1, <2>3, <2>4, RequestStep DEF Types, Active
<1>7. ASSUME CreateSend(r) PROVE Types'
  <2>1. /\ create' \in [Creates -> Request]
        /\ \A q \in Creates : q # r => create'[q] = create[q]
        /\ create'[r].pc = "done" /\ create'[r].event = None
    BY <1>7, EndEffect
  <2>2. create[r].pc = "sending" /\ create[r].event \in Listener /\ manager # "down"
    BY <1>7 DEF CreateSend, Types, TypeOK, Request
  <2>3. chan' \in Seq(Listener) /\ Len(chan') <= ChannelSize
    <3>1. chan \in Seq(Listener) /\ Len(chan) < ChannelSize /\ Len(chan) \in Nat
      BY <1>7 DEF CreateSend, Types, TypeOK
    <3>2. chan' \in Seq(Listener) /\ Len(chan') = Len(chan) + 1
      BY <1>7, <2>2, <3>1, AppendProperties DEF CreateSend
    <3>3. QED
      BY <3>1, <3>2, TunnelBounds
  <2>4. TypeOK'
    BY <1>7, <2>1, <2>2, <2>3 DEF CreateSend, db, listening, history, Types, TypeOK
  <2>5. UNCHANGED conn
    BY <1>7 DEF CreateSend
  <2>6. QED
    BY <2>1, <2>4, <2>5, RequestStep DEF Types, Active
<1>8. QED
  BY <1>1, <1>2, <1>3, <1>4, <1>5, <1>6, <1>7 DEF Handle

(* Rows of the tunnels table that go. *)
LEMMA DeleteRowsTypes ==
  ASSUME Types, NEW rows \in SUBSET TunnelIds, DeleteRows(rows)
  PROVE  /\ tunnels' \in [TunnelIds -> Tunnel \cup {None}]
         /\ audit' \in [Conns -> Session]
<1>1. tunnels' \in [TunnelIds -> Tunnel \cup {None}]
  <2>1. \A id \in TunnelIds : (IF id \in rows THEN None ELSE tunnels[id]) \in Tunnel \cup {None}
    BY DEF Types, TypeOK
  <2>2. QED
    BY <2>1 DEF DeleteRows
<1>2. \A c \in Conns : audit[c] \in Session /\ [audit[c] EXCEPT !.names = None] \in Session
  BY DEF Types, TypeOK, Session
<1>3. \A c \in Conns :
        (IF audit[c].names \in {tunnels[id].by : id \in rows}
           THEN [audit[c] EXCEPT !.names = None] ELSE audit[c]) \in Session
  BY <1>2
<1>4. audit' \in [Conns -> Session]
  BY <1>3 DEF DeleteRows, Unnamed
<1>5. QED
  BY <1>1, <1>4

LEMMA EnvironmentTypes ==
  ASSUME Types, Environment
  PROVE  Types'
<1> USE Ids, Nothing
<1>1. ASSUME NEW z \in Zids, NEW org \in Orgs, RegisterDevice(z, org)
      PROVE  Types'
  <2>1. PICK id \in DeviceIds : devices' = Inserted(devices, id, z, org, nextReg)
    BY <1>1 DEF RegisterDevice
  <2>2. devices' \in Table
    BY <2>1 DEF Inserted, Table, Device, Types, TypeOK
  <2>3. nextReg' \in Nat
    BY <1>1 DEF RegisterDevice, Types, TypeOK
  <2>4. QED
    BY <1>1, <2>2, <2>3 DEF RegisterDevice, listening, Types, TypeOK, Active, Open
<1>2. ASSUME NEW id \in DeviceIds, DeleteDevice(id)
      PROVE  Types'
  <2>1. devices' \in Table
    BY <1>2 DEF DeleteDevice, Removed, Table, Types, TypeOK
  <2>2. /\ tunnels' \in [TunnelIds -> Tunnel \cup {None}]
        /\ audit' \in [Conns -> Session]
    BY <1>2, DeleteRowsTypes DEF DeleteDevice, Cascaded
  <2>3. raced' \in SUBSET Creates
    BY <1>2 DEF DeleteDevice, Types, TypeOK
  <2>4. QED
    BY <1>2, <2>1, <2>2, <2>3 DEF DeleteDevice, listening, Types, TypeOK, Active, Open
<1>3. ASSUME NEW id \in TunnelIds, DeleteTunnel(id)
      PROVE  Types'
  <2>1. /\ tunnels' \in [TunnelIds -> Tunnel \cup {None}]
        /\ audit' \in [Conns -> Session]
    BY <1>3, DeleteRowsTypes DEF DeleteTunnel
  <2>2. QED
    BY <1>3, <2>1 DEF DeleteTunnel, listening, history, Types, TypeOK, Active, Open
<1>4. ASSUME NEW s \in Sockets, AcceptError(s)
      PROVE  Types'
  <2>1. manager # "down"
    BY <1>4 DEF AcceptError, Types, TypeOK
  <2>2. /\ sockets' \in [Sockets -> Listener \cup {None}]
        /\ failed' \in SUBSET Sockets /\ faults' \in Nat
    BY <1>4 DEF AcceptError, Fault, Types, TypeOK
  <2>3. QED
    BY <1>4, <2>1, <2>2 DEF AcceptError, db, Types, TypeOK, Active, Open
<1>5. ASSUME Crash PROVE Types'
  <2>1. \A r \in Creates :
          /\ create[r] \in Request
          /\ create'[r] = IF create[r].pc = "idle" THEN create[r] ELSE Done(create[r])
    BY <1>5 DEF Crash, Types, TypeOK
  <2>2. \A r \in Creates :
          /\ create'[r] \in Request /\ create'[r].pc \in {"idle", "done"}
          /\ create'[r].event = None
    BY <2>1, DoneEffect DEF Types
  <2>3. create' \in [Creates -> Request]
    BY <1>5, <2>2 DEF Crash
  <2>4. \A c \in Conns :
          Ended(conn[c]) \in Connection /\ Ended(conn[c]).pc = "done"
    BY EndedEffect DEF Types, TypeOK
  <2>5. \A c \in Conns :
          conn'[c] \in Connection /\ conn'[c].pc \in {"idle", "done"}
    BY <1>5, <2>4 DEF Crash, Types, TypeOK
  <2>6. conn' \in [Conns -> Connection]
    BY <1>5, <2>5 DEF Crash
  <2>7. chan' \in Seq(Listener) /\ Len(chan') <= ChannelSize
    BY <1>5, EmptySeq, TunnelBounds DEF Crash
  <2>8. faults' \in Nat
    BY <1>5 DEF Crash, Fault, Types, TypeOK
  <2>9. QED
    BY <1>5, <2>2, <2>3, <2>5, <2>6, <2>7, <2>8
    DEF Crash, db, Types, TypeOK, Active, Open
<1>6. ASSUME Restart PROVE Types'
  BY <1>6 DEF Restart, db, history, Types, TypeOK, Active, Open
<1>7. QED
  BY <1>1, <1>2, <1>3, <1>4, <1>5, <1>6 DEF Environment

(* The manager opens a listener for each TCP tunnel whose device is there. *)
LEMMA ActiveTcpRows ==
  ASSUME Types, NEW id \in ActiveTcp
  PROVE  /\ id \in TunnelIds /\ HasRow(id) /\ tunnels[id] \in Tunnel
         /\ tunnels[id].endpoint \in Ports /\ Exists(devices, tunnels[id].device)
  BY DEF ActiveTcp, HasDevice, HasRow, Types, TypeOK

LEMMA ManageTypes ==
  ASSUME Types, Manage
  PROVE  Types'
<1> USE Ids, Nothing
<1>1. ASSUME Load PROVE Types'
  <2>1. \A id \in ActiveTcp : ListenerOf(id, tunnels[id]) \in Listener
    BY ActiveTcpRows, ListenerFields
  <2>2. binding' \in SUBSET Listener
    BY <1>1, <2>1 DEF Load, Types, TypeOK
  <2>3. QED
    BY <1>1, <2>2 DEF Load, db, history, Types, TypeOK, Active, Open
<1>2. ASSUME Receive PROVE Types'
  <2>1. /\ Head(chan) \in Listener /\ chan' \in Seq(Listener) /\ Len(chan') <= ChannelSize
    BY <1>2, HeadTailProperties, TunnelBounds DEF Receive, Types, TypeOK
  <2>2. QED
    BY <1>2, <2>1 DEF Receive, db, history, Types, TypeOK, Active, Open
<1>3. ASSUME NEW l \in binding, Bind(l) PROVE Types'
  <2>1. l \in Listener /\ l.by \in Creates /\ manager # "down"
    BY <1>3 DEF Types, TypeOK, Listener
  <2>2. /\ sockets' \in [Sockets -> Listener \cup {None}]
        /\ missed' \in SUBSET Creates /\ faults' \in Nat
    BY <1>3, <2>1 DEF Bind, Fault, Types, TypeOK
  <2>3. QED
    BY <1>3, <2>1, <2>2 DEF Bind, db, Types, TypeOK, Active, Open
<1>4. QED
  BY <1>1, <1>2, <1>3 DEF Manage

(* A step of one connection. *)
LEMMA OneConnection ==
  ASSUME Types, NEW c \in Conns, NEW connection \in Connection,
         conn' = [conn EXCEPT ![c] = connection]
  PROVE  /\ conn' \in [Conns -> Connection] /\ conn'[c] = connection
         /\ \A d \in Conns : d # c => conn'[d] = conn[d]
  BY DEF Types, TypeOK

(* What each step of a connection does to it. *)
LEMMA BridgeEffect ==
  ASSUME Types, NEW c \in Conns, Bridge(c)
  PROVE  /\ conn' \in [Conns -> Connection]
         /\ \A d \in Conns : d # c => conn'[d] = conn[d]
         /\ manager # "down"
         /\ conn[c].pc = "idle" =>
              /\ conn'[c].pc = "accepted" /\ conn'[c].touched = 0
              /\ conn'[c].by \in Creates /\ conn'[c].tunnel \in TunnelIds
              /\ conn'[c].device \in DeviceIds
         /\ conn[c].pc # "idle" =>
              /\ Open(c) /\ conn'[c].pc \in {"bridging", "touching", "closing", "done"}
              /\ conn'[c].by = conn[c].by
              /\ conn'[c].pc # "done" => /\ conn'[c].tunnel = conn[c].tunnel
                                         /\ conn'[c].device = conn[c].device
              /\ conn[c].pc # "touching" => conn'[c].touched = conn[c].touched
<1> USE Ids, Nothing
<1>0. conn[c] \in Connection
  BY DEF Types, TypeOK
<1>1. ASSUME NEW new \in Connection, conn[c].pc = "idle", manager # "down",
             conn' = [conn EXCEPT ![c] = new], new.pc = "accepted", new.touched = 0,
             new.by \in Creates, new.tunnel \in TunnelIds, new.device \in DeviceIds
      PROVE  /\ conn' \in [Conns -> Connection] /\ manager # "down" /\ conn[c].pc = "idle"
             /\ \A d \in Conns : d # c => conn'[d] = conn[d]
             /\ conn'[c].pc = "accepted" /\ conn'[c].touched = 0
             /\ conn'[c].by \in Creates /\ conn'[c].tunnel \in TunnelIds
             /\ conn'[c].device \in DeviceIds
  BY <1>1, OneConnection
<1>2. ASSUME NEW s \in Sockets, Accept(c, s)
      PROVE  /\ conn' \in [Conns -> Connection] /\ manager # "down" /\ conn[c].pc = "idle"
             /\ \A d \in Conns : d # c => conn'[d] = conn[d]
             /\ conn'[c].pc = "accepted" /\ conn'[c].touched = 0
             /\ conn'[c].by \in Creates /\ conn'[c].tunnel \in TunnelIds
             /\ conn'[c].device \in DeviceIds
  <2>1. sockets[s] \in Listener /\ manager # "down"
    BY <1>2 DEF Accept, Types, TypeOK
  <2>2. /\ sockets[s].by \in Creates /\ sockets[s].tunnel \in TunnelIds
        /\ sockets[s].device \in DeviceIds
    BY <2>1 DEF Listener
  <2> DEFINE new == [NoConn EXCEPT !.pc = "accepted", !.tcp = TRUE, !.by = sockets[s].by,
                                   !.tunnel = sockets[s].tunnel,
                                   !.device = sockets[s].device]
  <2>3. /\ new \in Connection /\ new.pc = "accepted" /\ new.touched = 0
        /\ new.by = sockets[s].by /\ new.tunnel = sockets[s].tunnel
        /\ new.device = sockets[s].device
    BY <2>2 DEF NoConn, Connection
  <2>4. conn[c].pc = "idle" /\ conn' = [conn EXCEPT ![c] = new]
    BY <1>2 DEF Accept
  <2> HIDE DEF new
  <2>5. QED
    BY <1>1, <2>1, <2>2, <2>3, <2>4
<1>3. ASSUME NEW h \in Hosts, Route(c, h)
      PROVE  /\ conn' \in [Conns -> Connection] /\ manager # "down" /\ conn[c].pc = "idle"
             /\ \A d \in Conns : d # c => conn'[d] = conn[d]
             /\ conn'[c].pc = "accepted" /\ conn'[c].touched = 0
             /\ conn'[c].by \in Creates /\ conn'[c].tunnel \in TunnelIds
             /\ conn'[c].device \in DeviceIds
  <2>1. PICK id \in TunnelIds :
          /\ HasDevice(id)
          /\ conn' = [conn EXCEPT ![c] =
               [NoConn EXCEPT !.pc = "accepted", !.by = tunnels[id].by,
                              !.tunnel = id, !.device = tunnels[id].device]]
    BY <1>3 DEF Route
  <2>2. tunnels[id].by \in Creates /\ tunnels[id].device \in DeviceIds
    BY <2>1 DEF HasDevice, HasRow, Types, TypeOK, Tunnel
  <2> DEFINE new == [NoConn EXCEPT !.pc = "accepted", !.by = tunnels[id].by,
                                   !.tunnel = id, !.device = tunnels[id].device]
  <2>3. /\ new \in Connection /\ new.pc = "accepted" /\ new.touched = 0
        /\ new.by = tunnels[id].by /\ new.tunnel = id
        /\ new.device = tunnels[id].device
    BY <2>2 DEF NoConn, Connection
  <2>4. conn[c].pc = "idle" /\ manager # "down" /\ conn' = [conn EXCEPT ![c] = new]
    BY <1>3, <2>1 DEF Route
  <2> HIDE DEF new
  <2>5. QED
    BY <1>1, <2>2, <2>3, <2>4
<1>4. ASSUME NEW new \in Connection, Open(c), conn' = [conn EXCEPT ![c] = new],
             new.pc \in {"bridging", "touching", "closing", "done"},
             new.by = conn[c].by,
             new.pc # "done" => new.tunnel = conn[c].tunnel /\ new.device = conn[c].device,
             conn[c].pc # "touching" => new.touched = conn[c].touched
      PROVE  /\ conn' \in [Conns -> Connection] /\ manager # "down" /\ conn[c].pc # "idle"
             /\ \A d \in Conns : d # c => conn'[d] = conn[d]
             /\ conn'[c] = new
  BY <1>4, OneConnection DEF Open, Types, TypeOK
<1>5. ASSUME NEW pc \in {"bridging", "touching", "closing"}, Open(c),
             conn' = [conn EXCEPT ![c].pc = pc]
      PROVE  /\ conn' \in [Conns -> Connection] /\ manager # "down" /\ conn[c].pc # "idle"
             /\ \A d \in Conns : d # c => conn'[d] = conn[d]
             /\ conn'[c] = [conn[c] EXCEPT !.pc = pc] /\ conn'[c].pc = pc
             /\ conn'[c].by = conn[c].by
             /\ conn'[c].tunnel = conn[c].tunnel /\ conn'[c].device = conn[c].device
             /\ conn'[c].touched = conn[c].touched
  <2> DEFINE new == [conn[c] EXCEPT !.pc = pc]
  <2>1. /\ new \in Connection /\ new.pc = pc /\ new.by = conn[c].by
        /\ new.tunnel = conn[c].tunnel /\ new.device = conn[c].device
        /\ new.touched = conn[c].touched
    BY <1>0 DEF Connection
  <2>2. conn' = [conn EXCEPT ![c] = new]
    BY <1>5 DEF Types, TypeOK
  <2>3. QED
    BY <1>4, <1>5, <2>1, <2>2
<1>6. ASSUME Open(c), conn' = [conn EXCEPT ![c] = Ended(conn[c])]
      PROVE  /\ conn' \in [Conns -> Connection] /\ manager # "down" /\ conn[c].pc # "idle"
             /\ \A d \in Conns : d # c => conn'[d] = conn[d]
             /\ conn'[c].pc = "done" /\ conn'[c].by = conn[c].by
             /\ conn'[c].touched = conn[c].touched
  <2> DEFINE new == Ended(conn[c])
  <2>1. /\ new \in Connection /\ new.pc = "done" /\ new.by = conn[c].by
        /\ new.touched = conn[c].touched
    BY <1>0, EndedEffect
  <2>2. QED
    BY <1>4, <1>6, <2>1
<1>7. ASSUME OpenSession(c)
      PROVE  Open(c) /\ conn' = [conn EXCEPT ![c].pc = "bridging"]
  BY <1>7 DEF OpenSession, Open
<1>8. ASSUME EndBridge(c)
      PROVE  Open(c) /\ \E pc \in {"touching", "closing"} : conn' = [conn EXCEPT ![c].pc = pc]
  BY <1>8 DEF EndBridge, Open
<1>9. ASSUME TouchDevice(c)
      PROVE  /\ conn' \in [Conns -> Connection] /\ manager # "down" /\ conn[c].pc = "touching"
             /\ \A d \in Conns : d # c => conn'[d] = conn[d]
             /\ conn'[c].pc = "closing" /\ conn'[c].by = conn[c].by
             /\ conn'[c].tunnel = conn[c].tunnel /\ conn'[c].device = conn[c].device
  <2> DEFINE reg == IF Exists(devices, conn[c].device) THEN devices[conn[c].device].reg ELSE 0
             new == [conn[c] EXCEPT !.pc = "closing", !.touched = reg]
  <2>1. reg \in Nat
    <3>1. devices \in [DeviceIds -> Device \cup {NoDevice}]
      BY DEF Types, TypeOK, Table
    <3>2. Exists(devices, conn[c].device) => devices[conn[c].device] \in Device
      BY <3>1 DEF Exists
    <3>3. QED
      BY <3>2 DEF Device
  <2>2. /\ new \in Connection /\ new.pc = "closing" /\ new.by = conn[c].by
        /\ new.tunnel = conn[c].tunnel /\ new.device = conn[c].device
    BY <1>0, <2>1 DEF Connection
  <2>3. conn[c].pc = "touching" /\ Open(c) /\ conn' = [conn EXCEPT ![c] = new]
    BY <1>9 DEF TouchDevice, Open, Types, TypeOK
  <2>4. QED
    BY <1>4, <2>2, <2>3
<1>10. ASSUME CloseSession(c)
       PROVE  Open(c) /\ conn' = [conn EXCEPT ![c] = Ended(conn[c])]
  BY <1>10 DEF CloseSession, Open
<1>11. CASE \E s \in Sockets : Accept(c, s)
  BY <1>2, <1>11
<1>12. CASE \E h \in Hosts : Route(c, h)
  BY <1>3, <1>12
<1>13. CASE OpenSession(c)
  BY <1>5, <1>7, <1>13
<1>14. CASE EndBridge(c)
  BY <1>5, <1>8, <1>14
<1>15. CASE TouchDevice(c)
  BY <1>9, <1>15 DEF Open
<1>16. CASE CloseSession(c)
  BY <1>6, <1>10, <1>16
<1>17. QED
  BY <1>11, <1>12, <1>13, <1>14, <1>15, <1>16 DEF Bridge

LEMMA BridgeTypes ==
  ASSUME Types, NEW c \in Conns, Bridge(c)
  PROVE  Types'
<1>1. audit' \in [Conns -> Session] /\ faults' \in Nat
  <2>1. ASSUME OpenSession(c) PROVE audit' \in [Conns -> Session] /\ faults' \in Nat
    <3>1. Referents(c) => tunnels[conn[c].tunnel].by \in Creates
      BY DEF Referents, HasRow, Types, TypeOK, Tunnel
    <3>2. Referents(c) =>
            [state |-> "open", names |-> tunnels[conn[c].tunnel].by] \in Session
      BY <3>1 DEF Session
    <3>3. QED
      BY <2>1, <3>2 DEF OpenSession, Fault, Types, TypeOK
  <2>2. ASSUME CloseSession(c) PROVE audit' \in [Conns -> Session] /\ faults' \in Nat
    <3>1. audit[c] \in Session /\ audit[c].state \in {"none", "open", "closed"}
      BY DEF Types, TypeOK, Session
    <3>2. [audit[c] EXCEPT !.state = IF @ = "open" THEN "closed" ELSE @] \in Session
      BY <3>1 DEF Session
    <3>3. QED
      BY <2>2, <3>2 DEF CloseSession, Fault, Types, TypeOK
  <2>3. QED
    BY <2>1, <2>2
    DEF Bridge, Accept, Route, EndBridge, TouchDevice, db, Types, TypeOK
<1>2. UNCHANGED <<devices, tunnels, listening, create, history>>
  BY DEF Bridge, Accept, Route, OpenSession, EndBridge, TouchDevice, CloseSession, db
<1>3. QED
  BY <1>1, <1>2, BridgeEffect
  DEF listening, history, Types, TypeOK, Active, Open

LEMMA TypesStep == Types /\ [Next]_vars => Types'
<1>1. ASSUME Types, UNCHANGED vars PROVE Types'
  BY <1>1 DEF vars, db, listening, history, Types, TypeOK, Active, Open
<1>2. QED
  BY <1>1, HandleTypes, BridgeTypes, ManageTypes, EnvironmentTypes DEF Next

-----------------------------------------------------------------------------
(* What lasts.                                                             *)

LEMMA CrashEffect ==
  ASSUME Types, Crash
  PROVE  /\ \A r \in Creates :
              /\ create[r].pc = "idle" => create'[r] = create[r]
              /\ create[r].pc # "idle" => create'[r].pc = "done"
              /\ create'[r].org = create[r].org /\ create'[r].endpoint = create[r].endpoint
              /\ create'[r].reg = create[r].reg /\ create'[r].event = None
         /\ \A c \in Conns :
              /\ conn[c].pc = "idle" => conn'[c] = conn[c]
              /\ conn[c].pc # "idle" => conn'[c].pc = "done"
              /\ conn'[c].by = conn[c].by /\ conn'[c].touched = conn[c].touched
<1>1. \A r \in Creates :
        /\ create[r] \in Request /\ (create[r].pc = "idle" => create[r].event = None)
        /\ create'[r] = IF create[r].pc = "idle" THEN create[r] ELSE Done(create[r])
  BY DEF Crash, Types, TypeOK
<1>2. \A c \in Conns :
        /\ conn[c] \in Connection
        /\ conn'[c] = IF conn[c].pc = "idle" THEN conn[c] ELSE Ended(conn[c])
  BY DEF Crash, Types, TypeOK
<1>3. QED
  BY <1>1, <1>2, DoneEffect, EndedEffect

(* Most steps have nothing to do with tables and requests. *)
tables == <<devices, tunnels, create, raced, nextReg>>

LEMMA OtherSteps ==
  /\ \A c \in Conns : Bridge(c) => UNCHANGED tables
  /\ Manage => UNCHANGED tables
  /\ \A s \in Sockets : AcceptError(s) => UNCHANGED tables
  /\ Restart => UNCHANGED tables
  /\ UNCHANGED vars => UNCHANGED tables
  BY DEF Bridge, Accept, Route, OpenSession, EndBridge, TouchDevice, CloseSession,
         Manage, Load, Receive, Bind, AcceptError, Restart,
         tables, vars, db, listening, history

(* A request that has inserted its row keeps what was asked. *)
LEMMA PastLasts ==
  ASSUME Types, [Next]_vars, NEW q \in Creates, Past(q)
  PROVE  /\ Past(q)'
         /\ create'[q].org = create[q].org /\ create'[q].endpoint = create[q].endpoint
         /\ create'[q].reg = create[q].reg
<1>1. ASSUME NEW r \in Creates, Handle(r) PROVE
        /\ Past(q)'
        /\ create'[q].org = create[q].org /\ create'[q].endpoint = create[q].endpoint
        /\ create'[q].reg = create[q].reg
  <2>1. ASSUME NEW org \in Orgs, NEW device \in DeviceIds, NEW endpoint \in Endpoints,
               CreateCheck(r, org, device, endpoint)
        PROVE  create'[q] = create[q]
    BY <2>1, CheckEffect DEF Past
  <2>2. ASSUME CreateInsert(r) PROVE create'[q] = create[q]
    BY <2>2, InsertEffect DEF Past
  <2>3. ASSUME CreateRefused(r) PROVE create'[q] = create[q]
    BY <2>3, RefusedEffect DEF Past
  <2>4. ASSUME CreateSend(r) \/ CreateGivesUp(r)
        PROVE  /\ create'[q].pc \in {create[q].pc, "done"}
               /\ create'[q].org = create[q].org /\ create'[q].endpoint = create[q].endpoint
               /\ create'[q].reg = create[q].reg
    BY <2>4, EndEffect
  <2>5. ASSUME CreateReadBack(r)
        PROVE  /\ create'[q].pc \in {create[q].pc, "read", "done"}
               /\ create'[q].org = create[q].org /\ create'[q].endpoint = create[q].endpoint
               /\ create'[q].reg = create[q].reg
    BY <2>5, ReadBackEffect
  <2>6. ASSUME CreateLookup(r)
        PROVE  /\ create'[q].pc \in {create[q].pc, "sending"}
               /\ create'[q].org = create[q].org /\ create'[q].endpoint = create[q].endpoint
               /\ create'[q].reg = create[q].reg
    BY <2>6, LookupEffect
  <2>7. QED
    BY <1>1, <2>1, <2>2, <2>3, <2>4, <2>5, <2>6 DEF Handle, Past
<1>2. CASE UNCHANGED tables
  BY <1>2 DEF tables, Past
<1>3. ASSUME Crash PROVE
        /\ Past(q)'
        /\ create'[q].org = create[q].org /\ create'[q].endpoint = create[q].endpoint
        /\ create'[q].reg = create[q].reg
  BY <1>3, CrashEffect DEF Past
<1>4. ASSUME \/ \E z \in Zids, org \in Orgs : RegisterDevice(z, org)
             \/ \E id \in DeviceIds : DeleteDevice(id)
             \/ \E id \in TunnelIds : DeleteTunnel(id)
      PROVE  UNCHANGED create
  BY <1>4 DEF RegisterDevice, DeleteDevice, DeleteTunnel
<1>5. QED
  BY <1>1, <1>2, <1>3, <1>4, OtherSteps DEF Next, Environment, Past

LEMMA RacedLasts == ASSUME [Next]_vars PROVE raced \subseteq raced'
<1>1. ASSUME NEW r \in Creates, Handle(r) PROVE raced \subseteq raced'
  BY <1>1 DEF Handle, CreateCheck, CreateInsert, CreateRefused, CreateReadBack, CreateLookup,
              CreateSend, CreateGivesUp, history
<1>2. ASSUME Environment PROVE raced \subseteq raced'
  BY <1>2 DEF Environment, RegisterDevice, DeleteDevice, DeleteTunnel, AcceptError, Crash,
              Restart, history
<1>3. QED
  BY <1>1, <1>2, OtherSteps DEF Next, tables

(* An insert adds one row. *)
LEMMA InsertedRow ==
  ASSUME Types, NEW r \in Creates, CreateInsert(r)
  PROVE  LET n == create'[r].id IN
         /\ n \in TunnelIds /\ tunnels'[n] # None /\ tunnels[n] = None
         /\ tunnels'[n].by = r /\ tunnels'[n].device = create[r].device
         /\ tunnels'[n].endpoint = create[r].endpoint
         /\ \A id \in TunnelIds : id # n => tunnels'[id] = tunnels[id]
<1>1. PICK row \in Tunnel :
        /\ row.by = r /\ row.device = create[r].device /\ row.endpoint = create[r].endpoint
        /\ tunnels' = [tunnels EXCEPT ![create'[r].id] = row]
  BY InsertEffect
<1> DEFINE n == create'[r].id
<1>2. n \in TunnelIds /\ ~ HasRow(n)
  BY InsertEffect
<1>3. tunnels' = [tunnels EXCEPT ![n] = row] /\ tunnels \in [TunnelIds -> Tunnel \cup {None}]
  BY <1>1 DEF Types, TypeOK
<1> HIDE DEF n
<1>4. tunnels'[n] = row /\ \A id \in TunnelIds : id # n => tunnels'[id] = tunnels[id]
  BY <1>2, <1>3
<1>5. tunnels'[n] # None /\ tunnels[n] = None
  BY <1>2, <1>4, Nothing DEF HasRow
<1>6. QED
  BY <1>1, <1>2, <1>4, <1>5 DEF n

(* The other steps add none. *)
LEMMA NoNewRow ==
  ASSUME Types, [Next]_vars, \A r \in Creates : ~ CreateInsert(r),
         NEW id \in TunnelIds
  PROVE  tunnels'[id] \in {tunnels[id], None}
<1>1. ASSUME NEW rows \in SUBSET TunnelIds, DeleteRows(rows)
      PROVE  tunnels'[id] \in {tunnels[id], None}
  BY <1>1 DEF DeleteRows
<1>2. ASSUME NEW device \in DeviceIds, DeleteDevice(device)
      PROVE  tunnels'[id] \in {tunnels[id], None}
  BY <1>1, <1>2 DEF DeleteDevice, Cascaded
<1>3. ASSUME NEW i \in TunnelIds, DeleteTunnel(i)
      PROVE  tunnels'[id] \in {tunnels[id], None}
  BY <1>1, <1>3 DEF DeleteTunnel
<1>4. ASSUME NEW r \in Creates, Handle(r) PROVE tunnels' = tunnels
  BY <1>4 DEF Handle, CreateCheck, CreateRefused, CreateReadBack, CreateLookup, CreateSend,
              CreateGivesUp, db
<1>5. ASSUME \/ \E z \in Zids, org \in Orgs : RegisterDevice(z, org)
             \/ Crash
      PROVE  tunnels' = tunnels
  BY <1>5 DEF RegisterDevice, Crash, db
<1>6. QED
  BY <1>2, <1>3, <1>4, <1>5, OtherSteps DEF Next, Environment, tables

(* The device of a row that stays, stays. *)
LEMMA DeviceLasts ==
  ASSUME Types, RowInv, [Next]_vars, NEW id \in TunnelIds, HasRow(id), tunnels'[id] = tunnels[id]
  PROVE  devices'[tunnels[id].device] = devices[tunnels[id].device]
<1> DEFINE device == tunnels[id].device
<1>1. Exists(devices, device) /\ device \in DeviceIds
  BY DEF RowInv, Exists
<1>2. ASSUME NEW i \in DeviceIds, DeleteDevice(i)
      PROVE  devices'[device] = devices[device]
  <2>1. i # device
    BY <1>2, Nothing DEF DeleteDevice, DeleteRows, Cascaded, HasRow
  <2>2. QED
    BY <1>1, <1>2, <2>1 DEF DeleteDevice, Removed, Types, TypeOK, Table
<1>3. ASSUME NEW z \in Zids, NEW org \in Orgs, RegisterDevice(z, org)
      PROVE  devices'[device] = devices[device]
  <2>1. PICK i \in DeviceIds : IsNextId(devices, i) /\ devices' = Inserted(devices, i, z, org, nextReg)
    BY <1>3 DEF RegisterDevice
  <2>2. i # device
    BY <1>1, <2>1, Ids DEF IsNextId
  <2>3. QED
    BY <1>1, <2>1, <2>2 DEF Inserted, Types, TypeOK, Table
<1>4. ASSUME NEW r \in Creates, Handle(r) PROVE devices' = devices
  BY <1>4 DEF Handle, CreateCheck, CreateInsert, CreateRefused, CreateReadBack, CreateLookup,
              CreateSend, CreateGivesUp, db
<1>5. ASSUME (\E i \in TunnelIds : DeleteTunnel(i)) \/ Crash PROVE devices' = devices
  BY <1>5 DEF DeleteTunnel, Crash, db
<1>6. QED
  BY <1>2, <1>3, <1>4, <1>5, OtherSteps DEF Next, Environment, tables

(* As long as the row of a request is in the table, it is the row it was,  *)
(* and its device is the device it was.                                    *)
LEMMA RowLasts ==
  ASSUME Types, RowInv, [Next]_vars, NEW q \in Creates, Past(q), Stored(q)'
  PROVE  /\ Stored(q)
         /\ \A id \in TunnelIds : HasRow(id) /\ tunnels[id].by = q =>
              /\ HasRow(id)' /\ tunnels'[id] = tunnels[id]
              /\ devices'[tunnels[id].device] = devices[tunnels[id].device]
<1>1. PICK n \in TunnelIds : HasRow(n)' /\ tunnels'[n].by = q
  BY DEF Stored
<1>2. HasRow(n) /\ tunnels'[n] = tunnels[n]
  <2>1. CASE \A r \in Creates : ~ CreateInsert(r)
    BY <1>1, <2>1, NoNewRow DEF HasRow
  <2>2. ASSUME NEW r \in Creates, CreateInsert(r) PROVE tunnels'[n] = tunnels[n]
    <3>1. create[r].pc = "checked"
      BY <2>2 DEF CreateInsert
    <3>2. q # r
      BY <3>1 DEF Past
    <3>3. QED
      BY <1>1, <2>2, <3>2, InsertedRow
  <2>3. QED
    BY <1>1, <2>1, <2>2 DEF HasRow
<1>3. \A id \in TunnelIds : HasRow(id) /\ tunnels[id].by = q => id = n
  BY <1>1, <1>2 DEF RowInv
<1>4. QED
  BY <1>1, <1>2, <1>3, DeviceLasts DEF Stored

-----------------------------------------------------------------------------
(* Devices, and the requests that name them.                               *)

LEMMA TablesInit == Init => RegInv /\ OrgInv /\ RowInv /\ HandInv
<1> SUFFICES ASSUME Init PROVE RegInv /\ OrgInv /\ RowInv /\ HandInv
  OBVIOUS
<1>1. \A r \in Creates : create[r].pc = "idle" /\ create[r].reg = 0
  BY DEF Init, NoRequest
<1>2. \A id \in DeviceIds : ~ Exists(devices, id)
  BY DEF Init, EmptyTable, Exists
<1>3. \A id \in TunnelIds : ~ HasRow(id)
  BY DEF Init, HasRow
<1>4. RegInv
  BY <1>1, <1>2 DEF RegInv, Init
<1>5. QED
  BY <1>1, <1>2, <1>3, <1>4 DEF OrgInv, RowInv, HandInv, Hand, Active

(* A registration takes a free row id and the next number. *)
LEMMA RegisterEffect ==
  ASSUME Types, NEW z \in Zids, NEW org \in Orgs, RegisterDevice(z, org)
  PROVE  \E id \in DeviceIds :
           /\ ~ Exists(devices, id)
           /\ devices'[id].reg = nextReg
           /\ \A i \in DeviceIds : i # id => devices'[i] = devices[i]
<1>1. PICK id \in DeviceIds :
        IsNextId(devices, id) /\ devices' = Inserted(devices, id, z, org, nextReg)
  BY DEF RegisterDevice
<1>2. ~ Exists(devices, id)
  BY <1>1, Ids DEF IsNextId
<1>3. QED
  BY <1>1, <1>2 DEF Inserted, Types, TypeOK, Table

LEMMA DeleteEffect ==
  ASSUME Types, NEW device \in DeviceIds, DeleteDevice(device)
  PROVE  \A i \in DeviceIds :
           devices'[i] = IF i = device THEN NoDevice ELSE devices[i]
  BY DEF DeleteDevice, Removed, Types, TypeOK, Table

(* What each step does to the numbers: the devices are as they were, or    *)
(* one of them went, or came with the next number.                         *)
LEMMA RegStep ==
  ASSUME Types, RegInv, [Next]_vars
  PROVE  RegInv'
<1>0. nextReg \in Nat /\ \A r \in Creates : create[r].reg \in Nat
  BY DEF Types, TypeOK, Request
<1>1. ASSUME UNCHANGED <<devices, nextReg>>,
             NEW r \in Creates, \A q \in Creates : q # r => create'[q] = create[q],
             create'[r].reg < nextReg, ~ Past(r)' => create'[r].reg = 0
      PROVE  RegInv'
  BY <1>1 DEF RegInv, Past
<1>2. ASSUME NEW r \in Creates, Handle(r) PROVE RegInv'
  <2>0. UNCHANGED <<devices, nextReg>>
    BY <1>2 DEF Handle, CreateCheck, CreateInsert, CreateRefused, CreateReadBack, CreateLookup,
                CreateSend, CreateGivesUp, db, history
  <2>1. ASSUME NEW org \in Orgs, NEW device \in DeviceIds, NEW endpoint \in Endpoints,
               CreateCheck(r, org, device, endpoint)
        PROVE  RegInv'
    <3>1. /\ \A q \in Creates : q # r => create'[q] = create[q]
          /\ create[r].pc = "idle" /\ create'[r].reg = create[r].reg
      BY <2>1, CheckEffect
    <3>2. QED
      BY <1>1, <2>0, <3>1 DEF RegInv, Past
  <2>2. ASSUME CreateInsert(r) PROVE RegInv'
    <3>1. /\ \A q \in Creates : q # r => create'[q] = create[q]
          /\ create'[r].pc = "inserted" /\ Exists(devices, create[r].device)
          /\ create'[r].reg = devices[create[r].device].reg
      BY <2>2, InsertEffect
    <3>2. create'[r].reg < nextReg
      BY <3>1 DEF RegInv, Exists
    <3>3. QED
      BY <1>1, <2>0, <3>1, <3>2 DEF Past
  <2>3. ASSUME CreateRefused(r) PROVE RegInv'
    <3>1. /\ \A q \in Creates : q # r => create'[q] = create[q]
          /\ create'[r].reg = 0
      BY <2>3, RefusedEffect
    <3>2. create[r].reg < nextReg
      BY DEF RegInv
    <3>3. create'[r].reg < nextReg
      BY <1>0, <3>1, <3>2
    <3>4. QED
      BY <1>1, <2>0, <3>1, <3>3
  <2>4. ASSUME CreateSend(r) \/ CreateGivesUp(r) \/ CreateReadBack(r) \/ CreateLookup(r)
        PROVE  RegInv'
    <3>1. /\ \A q \in Creates : q # r => create'[q] = create[q]
          /\ create'[r].pc \in {"read", "sending", "done"} /\ create'[r].reg = create[r].reg
      BY <2>4, EndEffect, ReadBackEffect, LookupEffect
    <3>2. QED
      BY <1>1, <2>0, <3>1 DEF RegInv, Past
  <2>5. QED
    BY <1>2, <2>1, <2>2, <2>3, <2>4 DEF Handle
<1>3. CASE UNCHANGED tables
  BY <1>3 DEF tables, RegInv, Past
<1>4. ASSUME Crash PROVE RegInv'
  <2>1. \A r \in Creates :
          create'[r].reg = create[r].reg /\ (~ Past(r)' => ~ Past(r))
    BY <1>4, CrashEffect DEF Past
  <2>2. UNCHANGED <<devices, nextReg>>
    BY <1>4 DEF Crash, db
  <2>3. QED
    BY <2>1, <2>2 DEF RegInv
<1>5. ASSUME NEW i \in TunnelIds, DeleteTunnel(i) PROVE RegInv'
  BY <1>5 DEF DeleteTunnel, history, RegInv, Past
<1>6. ASSUME NEW device \in DeviceIds, DeleteDevice(device) PROVE RegInv'
  <2>1. UNCHANGED <<create, nextReg>>
    BY <1>6 DEF DeleteDevice
  <2>2. \A id \in DeviceIds :
          Exists(devices, id)' => Exists(devices, id) /\ devices'[id] = devices[id]
    BY <1>6, DeleteEffect DEF Exists
  <2>3. QED
    BY <2>1, <2>2 DEF RegInv, Past
<1>7. ASSUME NEW z \in Zids, NEW org \in Orgs, RegisterDevice(z, org) PROVE RegInv'
  <2>1. PICK id \in DeviceIds :
          /\ ~ Exists(devices, id)
          /\ devices'[id].reg = nextReg
          /\ \A i \in DeviceIds : i # id => devices'[i] = devices[i]
    BY <1>7, RegisterEffect
  <2>2. UNCHANGED create /\ nextReg' = nextReg + 1
    BY <1>7 DEF RegisterDevice
  <2>3. \A i \in DeviceIds : Exists(devices, i)' /\ i # id => Exists(devices, i)
    BY <2>1 DEF Exists
  <2>4. \A i \in DeviceIds : Exists(devices, i) => devices[i].reg \in Nat
    BY DEF Exists, Types, TypeOK, Table, Device
  <2>5. \A i \in DeviceIds :
          Exists(devices, i)' => devices'[i].reg # 0 /\ devices'[i].reg < nextReg'
    BY <1>0, <2>1, <2>2, <2>3, <2>4 DEF RegInv
  <2>6. \A i, j \in DeviceIds :
          Exists(devices, i)' /\ Exists(devices, j)' /\ devices'[i].reg = devices'[j].reg => i = j
    BY <1>0, <2>1, <2>3, <2>4 DEF RegInv
  <2>7. \A r \in Creates : create'[r].reg < nextReg' /\ (~ Past(r)' => create'[r].reg = 0)
    BY <1>0, <2>2 DEF RegInv, Past
  <2>8. QED
    BY <1>0, <2>2, <2>5, <2>6, <2>7 DEF RegInv
<1>8. QED
  BY <1>2, <1>3, <1>4, <1>5, <1>6, <1>7, OtherSteps DEF Next, Environment

LEMMA OrgStep ==
  ASSUME Types, RegInv, OrgInv, [Next]_vars
  PROVE  OrgInv'
<1>0. raced \subseteq raced'
  BY RacedLasts
<1>1. ASSUME devices' = devices,
             NEW r \in Creates, \A q \in Creates : q # r => create'[q] = create[q],
             create'[r].pc = "checked" =>
               r \in raced' \/ InOrg(devices, create'[r].org, create'[r].device),
             \A id \in DeviceIds :
               Exists(devices, id) /\ devices[id].reg = create'[r].reg =>
                 r \in raced' \/ devices[id].org = create'[r].org
      PROVE  OrgInv'
  BY <1>0, <1>1 DEF OrgInv
<1>2. ASSUME NEW r \in Creates, Handle(r) PROVE OrgInv'
  <2>0. UNCHANGED devices
    BY <1>2 DEF Handle, CreateCheck, CreateInsert, CreateRefused, CreateReadBack, CreateLookup,
                CreateSend, CreateGivesUp, db
  <2>1. ASSUME NEW org \in Orgs, NEW device \in DeviceIds, NEW endpoint \in Endpoints,
               CreateCheck(r, org, device, endpoint)
        PROVE  OrgInv'
    <3>1. /\ \A q \in Creates : q # r => create'[q] = create[q]
          /\ create[r].pc = "idle" /\ create'[r].reg = create[r].reg
          /\ create'[r].org = org /\ create'[r].device = device
      BY <2>1, CheckEffect
    <3>2. InOrg(devices, org, device)
      BY <2>1 DEF CreateCheck
    <3>3. create'[r].reg = 0 /\ \A id \in DeviceIds : Exists(devices, id) => devices[id].reg # 0
      BY <3>1 DEF RegInv, Past
    <3>4. QED
      BY <1>1, <2>0, <3>1, <3>2, <3>3
  <2>2. ASSUME CreateInsert(r) PROVE OrgInv'
    <3>1. /\ \A q \in Creates : q # r => create'[q] = create[q]
          /\ create[r].pc = "checked" /\ create'[r].pc = "inserted"
          /\ Exists(devices, create[r].device)
          /\ create'[r].org = create[r].org
          /\ create'[r].reg = devices[create[r].device].reg
      BY <2>2, InsertEffect
    <3>2. r \in raced' \/ devices[create[r].device].org = create[r].org
      BY <1>0, <3>1 DEF OrgInv, InOrg
    <3>3. \A id \in DeviceIds :
            Exists(devices, id) /\ devices[id].reg = create'[r].reg => id = create[r].device
      BY <3>1 DEF RegInv, Exists
    <3>4. QED
      BY <1>1, <2>0, <3>1, <3>2, <3>3
  <2>3. ASSUME CreateRefused(r) PROVE OrgInv'
    <3>1. /\ \A q \in Creates : q # r => create'[q] = create[q]
          /\ create'[r].pc = "done" /\ create'[r].reg = 0
      BY <2>3, RefusedEffect
    <3>2. \A id \in DeviceIds : Exists(devices, id) => devices[id].reg # 0
      BY DEF RegInv
    <3>3. QED
      BY <1>1, <2>0, <3>1, <3>2
  <2>4. ASSUME CreateSend(r) \/ CreateGivesUp(r) \/ CreateReadBack(r) \/ CreateLookup(r)
        PROVE  OrgInv'
    <3>1. /\ \A q \in Creates : q # r => create'[q] = create[q]
          /\ create'[r].pc \in {"read", "sending", "done"}
          /\ create'[r].org = create[r].org /\ create'[r].reg = create[r].reg
      BY <2>4, EndEffect, ReadBackEffect, LookupEffect
    <3>2. QED
      BY <1>0, <1>1, <2>0, <3>1 DEF OrgInv
  <2>5. QED
    BY <1>2, <2>1, <2>2, <2>3, <2>4 DEF Handle
<1>3. CASE UNCHANGED tables
  BY <1>3 DEF tables, OrgInv
<1>4. ASSUME Crash PROVE OrgInv'
  <2>1. \A r \in Creates :
          /\ create'[r].reg = create[r].reg /\ create'[r].org = create[r].org
          /\ create'[r].pc # "checked"
    BY <1>4, CrashEffect
  <2>2. UNCHANGED devices
    BY <1>4 DEF Crash, db
  <2>3. QED
    BY <1>0, <2>1, <2>2 DEF OrgInv
<1>5. ASSUME NEW i \in TunnelIds, DeleteTunnel(i) PROVE OrgInv'
  BY <1>5 DEF DeleteTunnel, history, OrgInv
<1>6. ASSUME NEW device \in DeviceIds, DeleteDevice(device) PROVE OrgInv'
  <2>1. /\ UNCHANGED create
        /\ \A r \in Creates :
             create[r].pc = "checked" /\ create[r].device = device => r \in raced'
    BY <1>6 DEF DeleteDevice
  <2>2. \A id \in DeviceIds :
          Exists(devices, id)' => Exists(devices, id) /\ devices'[id] = devices[id]
    BY <1>6, DeleteEffect DEF Exists
  <2>3. \A id \in DeviceIds : id # device /\ Exists(devices, id) =>
          Exists(devices, id)' /\ devices'[id] = devices[id]
    BY <1>6, DeleteEffect DEF Exists
  <2>4. ASSUME NEW r \in Creates, create[r].pc = "checked"
        PROVE  r \in raced' \/ InOrg(devices', create[r].org, create[r].device)
    <3>1. create[r].device \in DeviceIds
      BY <2>4 DEF Types
    <3>2. QED
      BY <1>0, <2>1, <2>3, <2>4, <3>1 DEF OrgInv, InOrg
  <2>5. ASSUME NEW r \in Creates, NEW id \in DeviceIds,
               Exists(devices, id)', devices'[id].reg = create[r].reg
        PROVE  r \in raced' \/ devices'[id].org = create[r].org
    BY <1>0, <2>2, <2>5 DEF OrgInv
  <2>6. QED
    BY <2>1, <2>4, <2>5 DEF OrgInv
<1>7. ASSUME NEW z \in Zids, NEW org \in Orgs, RegisterDevice(z, org) PROVE OrgInv'
  <2>1. PICK id \in DeviceIds :
          /\ ~ Exists(devices, id)
          /\ devices'[id].reg = nextReg
          /\ \A i \in DeviceIds : i # id => devices'[i] = devices[i]
    BY <1>7, RegisterEffect
  <2>2. UNCHANGED <<create, raced>>
    BY <1>7 DEF RegisterDevice
  <2>3. ASSUME NEW r \in Creates, InOrg(devices, create[r].org, create[r].device)
        PROVE  InOrg(devices', create[r].org, create[r].device)
    BY <2>1, <2>3 DEF InOrg, Exists
  <2>4. ASSUME NEW r \in Creates, NEW i \in DeviceIds,
               Exists(devices, i)', devices'[i].reg = create[r].reg
        PROVE  r \in raced \/ devices'[i].org = create[r].org
    <3>1. create[r].reg \in Nat /\ create[r].reg < nextReg /\ nextReg \in Nat
      BY DEF RegInv, Types, TypeOK, Request
    <3>2. i # id
      BY <2>1, <2>4, <3>1
    <3>3. QED
      BY <2>1, <2>4, <3>2 DEF OrgInv, Exists
  <2>5. QED
    BY <2>2, <2>3, <2>4 DEF OrgInv
<1>8. QED
  BY <1>2, <1>3, <1>4, <1>5, <1>6, <1>7, OtherSteps DEF Next, Environment

-----------------------------------------------------------------------------
(* The rows, and what the handlers have of them.                           *)

LEMMA RowStep ==
  ASSUME Types, RowInv, [Next]_vars
  PROVE  RowInv'
<1>0. \A id \in TunnelIds : HasRow(id) => tunnels[id].by \in Creates /\ Past(tunnels[id].by)
  BY DEF RowInv, HasRow, Types, TypeOK, Tunnel
<1>1. ASSUME NEW id \in TunnelIds, HasRow(id), tunnels'[id] = tunnels[id]
      PROVE  LET row == tunnels[id] IN
             /\ Exists(devices, row.device)' /\ devices'[row.device].reg = create'[row.by].reg
             /\ Past(row.by)' /\ row.endpoint = create'[row.by].endpoint
  <2>1. devices'[tunnels[id].device] = devices[tunnels[id].device]
    BY <1>1, DeviceLasts
  <2>2. LET by == tunnels[id].by IN
        /\ by \in Creates /\ Past(by)' /\ create'[by].endpoint = create[by].endpoint
        /\ create'[by].reg = create[by].reg
    BY <1>0, <1>1, PastLasts
  <2>3. QED
    BY <1>1, <2>1, <2>2 DEF RowInv, Exists
<1>2. CASE \A r \in Creates : ~ CreateInsert(r)
  <2>1. \A id \in TunnelIds : HasRow(id)' => HasRow(id) /\ tunnels'[id] = tunnels[id]
    BY <1>2, NoNewRow DEF HasRow
  <2>2. QED
    BY <1>1, <2>1 DEF RowInv
<1>3. ASSUME NEW r \in Creates, CreateInsert(r) PROVE RowInv'
  <2>1. PICK n \in TunnelIds :
          /\ tunnels'[n] # None /\ tunnels[n] = None
          /\ tunnels'[n].by = r /\ tunnels'[n].device = create[r].device
          /\ tunnels'[n].endpoint = create[r].endpoint
          /\ \A id \in TunnelIds : id # n => tunnels'[id] = tunnels[id]
    BY <1>3, InsertedRow
  <2>2. /\ create[r].pc = "checked" /\ create'[r].pc = "inserted"
        /\ create'[r].endpoint = create[r].endpoint
        /\ create'[r].reg = devices[create[r].device].reg
        /\ Exists(devices, create[r].device)
    BY <1>3, InsertEffect
  <2>3. /\ devices' = devices
        /\ \A id \in TunnelIds : HasRow(id) => tunnels[id].endpoint # create[r].endpoint
    BY <1>3 DEF CreateInsert, Insertable
  <2>4. \A id \in TunnelIds : id # n /\ HasRow(id)' =>
          HasRow(id) /\ tunnels'[id] = tunnels[id] /\ tunnels[id].by # r
    BY <1>0, <2>1, <2>2 DEF HasRow, Past
  <2>5. ASSUME NEW id \in TunnelIds, HasRow(id)'
        PROVE  /\ Exists(devices, tunnels[id].device)'
               /\ devices'[tunnels'[id].device].reg = create'[tunnels'[id].by].reg
               /\ Past(tunnels[id].by)' /\ tunnels'[id].endpoint = create'[tunnels'[id].by].endpoint
    <3>1. CASE id = n
      BY <2>1, <2>2, <2>3, <3>1 DEF Past
    <3>2. CASE id # n
      BY <1>1, <2>4, <2>5, <3>2
    <3>3. QED
      BY <3>1, <3>2
  <2>6. ASSUME NEW id \in TunnelIds, HasRow(id)', NEW i \in TunnelIds, HasRow(i)', i # id
        PROVE  tunnels'[i].by # tunnels'[id].by /\ tunnels'[i].endpoint # tunnels'[id].endpoint
    BY <2>1, <2>3, <2>4, <2>6 DEF RowInv
  <2>7. QED
    BY <2>5, <2>6 DEF RowInv
<1>4. QED
  BY <1>2, <1>3

LEMMA HandStep ==
  ASSUME Types, RowInv, HandInv, [Next]_vars
  PROVE  HandInv'
<1>1. ASSUME NEW q \in Creates, create'[q] = create[q]
      PROVE  Hand(q)'
  <2>1. Hand(q)
    BY DEF HandInv
  <2>2. ASSUME Active(q), Stored(q)'
        PROVE  HasRow(create[q].id)' /\ tunnels'[create[q].id].by = q
    <3>1. /\ Stored(q)
          /\ \A id \in TunnelIds : HasRow(id) /\ tunnels[id].by = q =>
               HasRow(id)' /\ tunnels'[id] = tunnels[id]
      BY <2>2, RowLasts DEF Active, Past
    <3>2. QED
      BY <1>1, <2>1, <2>2, <3>1 DEF Hand, HasRow
  <2>3. ASSUME create[q].pc \in {"read", "sending"}
        PROVE  \E row \in Tunnel :
                 /\ row = create[q].row
                 /\ Past(row.by)' /\ (Stored(q)' => row.by = q)
                 /\ Stored(row.by)' => tunnels'[create[q].id] = row
    <3>0. PICK row \in Tunnel : row = create[q].row
      BY <2>3 DEF Types
    <3>1. row.by \in Creates /\ create[q].id \in TunnelIds /\ Past(q)
      BY <2>3 DEF Types, Tunnel, Active, Past
    <3>2. Past(row.by) /\ (Stored(q) => row.by = q) /\ (Stored(row.by) => tunnels[create[q].id] = row)
      BY <2>1, <2>3, <3>0 DEF Hand
    <3>3. Past(row.by)' /\ (Stored(q)' => Stored(q))
      BY <3>1, <3>2, PastLasts, RowLasts
    <3>4. ASSUME Stored(row.by)' PROVE tunnels'[create[q].id] = row
      <4>1. /\ Stored(row.by)
            /\ \A id \in TunnelIds : HasRow(id) /\ tunnels[id].by = row.by =>
                 tunnels'[id] = tunnels[id]
        BY <3>1, <3>2, <3>4, RowLasts
      <4>2. HasRow(create[q].id) /\ tunnels[create[q].id] = row
        BY <3>1, <3>2, <4>1, Nothing DEF HasRow
      <4>3. QED
        BY <3>1, <4>1, <4>2
    <3>5. QED
      BY <3>0, <3>2, <3>3, <3>4
  <2>4. QED
    BY <1>1, <2>1, <2>2, <2>3 DEF Hand, Active
<1>2. ASSUME NEW r \in Creates, ~ Active(r)' PROVE Hand(r)'
  BY <1>2 DEF Hand, Active
<1>3. ASSUME NEW r \in Creates, Handle(r) PROVE Hand(r)'
  <2>1. Hand(r)
    BY DEF HandInv
  <2>2. ASSUME \/ \E org \in Orgs, device \in DeviceIds, endpoint \in Endpoints :
                    CreateCheck(r, org, device, endpoint)
               \/ CreateRefused(r) \/ CreateSend(r) \/ CreateGivesUp(r)
        PROVE  Hand(r)'
    <3>1. create'[r].pc \in {"checked", "done"}
      BY <2>2, CheckEffect, RefusedEffect, EndEffect
    <3>2. QED
      BY <1>2, <3>1 DEF Active
  <2>3. ASSUME CreateInsert(r) PROVE Hand(r)'
    <3>1. create'[r].pc = "inserted"
      BY <2>3, InsertEffect
    <3>2. HasRow(create[r].id)' /\ tunnels'[create'[r].id].by = r
      BY <2>3, InsertedRow DEF HasRow
    <3>3. QED
      BY <3>1, <3>2 DEF Hand
  <2>4. ASSUME CreateReadBack(r) PROVE Hand(r)'
    <3>0. PICK row \in Tunnel : row = tunnels[create[r].id]
      BY <2>4, ReadBackEffect
    <3>1. /\ create[r].pc = "inserted" /\ HasRow(create[r].id)
          /\ IF row.endpoint \in Ports
               THEN /\ create'[r].pc = "read" /\ create'[r].row = row
                    /\ create'[r].id = create[r].id
               ELSE create'[r].pc = "done"
      BY <2>4, <3>0, ReadBackEffect
    <3>2. row.by \in Creates /\ Past(row.by)
      BY <3>0, <3>1 DEF RowInv, HasRow, Tunnel
    <3>3. UNCHANGED tunnels
      BY <2>4 DEF CreateReadBack, db
    <3>4. (Stored(r) => row.by = r) /\ Past(row.by)'
      <4>1. Past(row.by)'
        BY <3>2, PastLasts
      <4>2. QED
        BY <2>1, <3>0, <3>1, <4>1 DEF Hand, Active
    <3>5. CASE row.endpoint \in Ports
      BY <2>1, <3>0, <3>1, <3>3, <3>4, <3>5 DEF Hand, Active, Stored, HasRow
    <3>6. QED
      BY <1>2, <3>1, <3>5 DEF Active
  <2>5. ASSUME CreateLookup(r) PROVE Hand(r)'
    <3>0. PICK row \in Tunnel : row = create[r].row
      BY <2>5, LookupEffect
    <3>1. /\ create[r].pc = "read" /\ create'[r].pc = "sending"
          /\ create[r].id \in TunnelIds /\ row \in Tunnel /\ row.endpoint \in Ports
          /\ Exists(devices, row.device)
          /\ create'[r].row = row /\ create'[r].id = create[r].id
          /\ create'[r].event = ListenerOf(create[r].id, row)
      BY <2>5, <3>0, LookupEffect
    <3>2. create'[r].event.by = row.by
      BY <3>1, ListenerFields
    <3>3. UNCHANGED tunnels
      BY <2>5 DEF CreateLookup, db
    <3>4. /\ Past(row.by) /\ (Stored(r) => row.by = r)
          /\ (Stored(row.by) => tunnels[create[r].id] = row)
          /\ (Stored(r) => HasRow(create[r].id) /\ tunnels[create[r].id].by = r)
      BY <2>1, <3>0, <3>1 DEF Hand, Active
    <3>5. row.by \in Creates
      BY <3>1 DEF Tunnel
    <3>6. Past(row.by)'
      BY <3>4, <3>5, PastLasts
    <3>7. QED
      BY <3>1, <3>2, <3>3, <3>4, <3>6 DEF Hand, Stored, HasRow
  <2>6. QED
    BY <1>3, <2>2, <2>3, <2>4, <2>5 DEF Handle
<1>4. ASSUME NEW r \in Creates, Handle(r) PROVE \A q \in Creates : q # r => create'[q] = create[q]
  BY <1>4, HandleOthers
<1>5. CASE Crash
  <2>1. \A q \in Creates : ~ Active(q)'
    BY <1>5, CrashEffect DEF Active
  <2>2. QED
    BY <1>2, <2>1 DEF HandInv
<1>6. ASSUME UNCHANGED create PROVE HandInv'
  BY <1>1, <1>6 DEF HandInv
<1>7. ASSUME \/ \E z \in Zids, org \in Orgs : RegisterDevice(z, org)
             \/ \E id \in DeviceIds : DeleteDevice(id)
             \/ \E id \in TunnelIds : DeleteTunnel(id)
      PROVE  UNCHANGED create
  BY <1>7 DEF RegisterDevice, DeleteDevice, DeleteTunnel
<1>8. ASSUME NEW r \in Creates, Handle(r) PROVE HandInv'
  BY <1>1, <1>3, <1>4, <1>8 DEF HandInv
<1>9. QED
  BY <1>5, <1>6, <1>7, <1>8, OtherSteps DEF Next, Environment, tables

-----------------------------------------------------------------------------
(* What the listeners were told.                                           *)

LEMMA Told ==
  ASSUME Types
  PROVE  /\ Listeners \subseteq Listener
         /\ \A l : l \in Listeners <=>
              \/ l \in binding
              \/ \E i \in DOMAIN chan : l = chan[i]
              \/ \E s \in Sockets : sockets[s] # None /\ l = sockets[s]
              \/ \E r \in Creates : create[r].event # None /\ l = create[r].event
<1>1. /\ binding \subseteq Listener
      /\ \A i \in DOMAIN chan : chan[i] \in Listener
      /\ \A s \in Sockets : sockets[s] \in Listener \cup {None}
      /\ \A r \in Creates : create[r].event \in Listener \cup {None}
  BY DEF Types, TypeOK, Request
<1>2. QED
  BY <1>1, Nothing DEF Listeners, Waiting

(* Two steps make a listener out of the table: the query at boot, and the  *)
(* lookup of a handler; the others pass on what is there.                  *)
LEMMA WhereListenersComeFrom ==
  ASSUME Types, [Next]_vars, NEW l \in Listeners'
  PROVE  \/ l \in Listeners
         \/ Load /\ \E id \in ActiveTcp : l = ListenerOf(id, tunnels[id])
         \/ \E r \in Creates : CreateLookup(r) /\ l = create'[r].event
<1>0. \/ l \in binding'
      \/ \E i \in DOMAIN chan' : l = chan'[i]
      \/ \E s \in Sockets : sockets'[s] # None /\ l = sockets'[s]
      \/ \E r \in Creates : create'[r].event # None /\ l = create'[r].event
  BY DEF Listeners, Waiting
<1>1. ASSUME UNCHANGED <<binding, chan, sockets>>,
             \A r \in Creates : create'[r].event \in {create[r].event, None}
      PROVE  l \in Listeners
  BY <1>0, <1>1, Told
<1>2. ASSUME NEW r \in Creates, Handle(r)
      PROVE  l \in Listeners \/ (CreateLookup(r) /\ l = create'[r].event)
  <2>1. \A q \in Creates : q # r => create'[q] = create[q]
    BY <1>2, HandleOthers
  <2>2. ASSUME ~ CreateLookup(r) PROVE create'[r].event \in {create[r].event, None}
    BY <1>2, <2>2, CheckEffect, InsertEffect, RefusedEffect, ReadBackEffect, EndEffect
    DEF Handle
  <2>3. ASSUME ~ CreateSend(r) PROVE UNCHANGED <<binding, chan, sockets>>
    BY <1>2, <2>3 DEF Handle, CreateCheck, CreateInsert, CreateRefused, CreateReadBack,
                      CreateLookup, CreateGivesUp, listening
  <2>4. ASSUME CreateSend(r) PROVE l \in Listeners
    <3>1. /\ create[r].pc = "sending" /\ chan' = Append(chan, create[r].event)
          /\ UNCHANGED <<binding, sockets>>
      BY <2>4 DEF CreateSend
    <3>2. create[r].event # None /\ create[r].event \in Listener
      BY <3>1 DEF Types, TypeOK, Request
    <3>3. \A i \in DOMAIN chan' : chan'[i] = create[r].event \/
                                  (i \in DOMAIN chan /\ chan'[i] = chan[i])
      BY <3>1, <3>2, AppendProperties DEF Types, TypeOK
    <3>4. create'[r].event = None
      BY <2>4, EndEffect
    <3>5. QED
      BY <1>0, <2>1, <3>1, <3>2, <3>3, <3>4, Told
  <2>5. CASE CreateLookup(r)
    <3>1. UNCHANGED <<binding, chan, sockets>>
      BY <2>5 DEF CreateLookup, listening
    <3>2. QED
      BY <1>0, <2>1, <2>5, <3>1, Told
  <2>6. CASE ~ CreateSend(r) /\ ~ CreateLookup(r)
    BY <1>1, <2>1, <2>2, <2>3, <2>6
  <2>7. QED
    BY <2>4, <2>5, <2>6
<1>3. ASSUME Manage
      PROVE  l \in Listeners \/ (Load /\ \E id \in ActiveTcp : l = ListenerOf(id, tunnels[id]))
  <2>1. ASSUME Load
        PROVE  l \in Listeners \/ \E id \in ActiveTcp : l = ListenerOf(id, tunnels[id])
    BY <1>0, <2>1, Told DEF Load
  <2>2. ASSUME Receive PROVE l \in Listeners
    <3>1. /\ chan # <<>> /\ binding' = binding \cup {Head(chan)} /\ chan' = Tail(chan)
          /\ UNCHANGED <<sockets, create>>
      BY <2>2 DEF Receive
    <3>2. /\ Head(chan) = chan[1] /\ 1 \in DOMAIN chan
          /\ \A i \in DOMAIN chan' : i + 1 \in DOMAIN chan /\ chan'[i] = chan[i + 1]
      BY <3>1, HeadTailProperties DEF Types, TypeOK
    <3>3. QED
      BY <1>0, <3>1, <3>2, Told
  <2>3. ASSUME NEW k \in binding, Bind(k) PROVE l \in Listeners
    <3>1. /\ binding' \subseteq binding /\ UNCHANGED <<chan, create>>
          /\ sockets' = sockets \/ sockets' = [sockets EXCEPT ![k.socket] = k]
      BY <2>3 DEF Bind
    <3>2. \A s \in Sockets : sockets'[s] \in {sockets[s], k}
      BY <3>1 DEF Types, TypeOK
    <3>3. QED
      BY <1>0, <3>1, <3>2, Told
  <2>4. QED
    BY <1>3, <2>1, <2>2, <2>3 DEF Manage
<1>4. ASSUME NEW c \in Conns, Bridge(c) PROVE l \in Listeners
  <2>1. UNCHANGED <<binding, chan, sockets, create>>
    BY <1>4 DEF Bridge, Accept, Route, OpenSession, EndBridge, TouchDevice, CloseSession, listening
  <2>2. QED
    BY <1>1, <2>1
<1>5. ASSUME Environment PROVE l \in Listeners
  <2>1. ASSUME NEW s \in Sockets, AcceptError(s) PROVE l \in Listeners
    <3>1. UNCHANGED <<chan, binding, create>> /\ \A k \in Sockets : sockets'[k] \in {sockets[k], None}
      BY <2>1 DEF AcceptError, Types, TypeOK
    <3>2. QED
      BY <1>0, <3>1, Told
  <2>2. ASSUME Crash PROVE FALSE
    <3>1. binding' = {} /\ chan' = <<>> /\ \A s \in Sockets : sockets'[s] = None
      BY <2>2 DEF Crash
    <3>2. \A r \in Creates : create'[r].event = None
      BY <2>2, CrashEffect
    <3>3. QED
      BY <1>0, <3>1, <3>2
  <2>3. ASSUME ~ Crash, \A s \in Sockets : ~ AcceptError(s)
        PROVE  UNCHANGED <<binding, chan, sockets, create>>
    BY <1>5, <2>3 DEF Environment, RegisterDevice, DeleteDevice, DeleteTunnel, Restart, listening
  <2>4. QED
    BY <1>1, <2>1, <2>2, <2>3
<1>6. CASE UNCHANGED vars
  BY <1>1, <1>6 DEF vars, listening
<1>7. QED
  BY <1>2, <1>3, <1>4, <1>5, <1>6 DEF Next

(* A listener stays good. *)
LEMMA GoodLasts ==
  ASSUME Types, RowInv, [Next]_vars, NEW l \in Listener, Good(l)
  PROVE  Good(l)'
<1>1. l.by \in Creates /\ l.tunnel \in TunnelIds /\ Past(l.by) /\ InOwnOrg(l) /\ Matches(l)
  BY DEF Good, Listener
<1>2. Past(l.by)' /\ create'[l.by].org = create[l.by].org
  BY <1>1, PastLasts
<1>3. InOwnOrg(l)'
  BY <1>1, <1>2, RacedLasts DEF InOwnOrg
<1>4. ASSUME Stored(l.by)' PROVE Matches(l)'
  <2>1. /\ Stored(l.by)
        /\ \A id \in TunnelIds : HasRow(id) /\ tunnels[id].by = l.by =>
             /\ HasRow(id)' /\ tunnels'[id] = tunnels[id]
             /\ devices'[tunnels[id].device] = devices[tunnels[id].device]
    BY <1>1, <1>4, RowLasts
  <2>2. QED
    BY <1>1, <2>1 DEF Matches, InOrg, Exists
<1>5. QED
  BY <1>2, <1>3, <1>4 DEF Good, Matches

(* A listener made from a row that is in the table is good. *)
LEMMA GoodFromRow ==
  ASSUME Types, OrgInv, RowInv, NEW id \in ActiveTcp
  PROVE  Good(ListenerOf(id, tunnels[id]))
<1>1. PICK row \in Tunnel : row = tunnels[id]
  BY ActiveTcpRows
<1>2. /\ id \in TunnelIds /\ HasRow(id) /\ row.by \in Creates /\ row.device \in DeviceIds
      /\ row.endpoint \in Ports /\ Exists(devices, row.device)
  BY <1>1, ActiveTcpRows DEF Tunnel
<1>3. PICK l \in Listener : l = ListenerOf(id, row)
  BY <1>2, ListenerFields
<1>4. /\ l.by = row.by /\ l.tunnel = id /\ l.device = row.device
      /\ l.zid = devices[row.device].zid /\ l.org = devices[row.device].org
      /\ l.socket = U16(row.endpoint)
  BY <1>2, <1>3, ListenerFields
<1>5. Past(row.by) /\ devices[row.device].reg = create[row.by].reg
  BY <1>1, <1>2 DEF RowInv
<1>6. InOwnOrg(l)
  BY <1>2, <1>4, <1>5 DEF OrgInv, InOwnOrg
<1>7. Matches(l)
  BY <1>1, <1>2, <1>4 DEF Matches, InOrg
<1>8. QED
  BY <1>1, <1>3, <1>4, <1>5, <1>6, <1>7 DEF Good

(* So is one made from the row a handler has in hand, once what Misread    *)
(* says is noted.                                                          *)
LEMMA GoodFromHand ==
  ASSUME Types, OrgInv, RowInv, HandInv, [Next]_vars, NEW r \in Creates, CreateLookup(r)
  PROVE  Good(create[r].event)'
<1>1. PICK row \in Tunnel : row = create[r].row
  BY LookupEffect
<1>2. /\ create[r].pc = "read" /\ create[r].id \in TunnelIds /\ row.by \in Creates
      /\ row.device \in DeviceIds /\ row.endpoint \in Ports /\ Exists(devices, row.device)
      /\ create'[r].event = ListenerOf(create[r].id, row)
  BY <1>1, LookupEffect DEF Tunnel
<1>3. PICK l \in Listener : l = ListenerOf(create[r].id, row)
  BY <1>2, ListenerFields
<1>4. /\ l.by = row.by /\ l.tunnel = create[r].id /\ l.device = row.device
      /\ l.zid = devices[row.device].zid /\ l.org = devices[row.device].org
      /\ l.socket = U16(row.endpoint)
  BY <1>2, <1>3, ListenerFields
<1>5. /\ InOrg(devices, create[r].org, row.device) /\ UNCHANGED <<devices, tunnels>>
      /\ raced' = IF Misread(r) THEN raced \cup {row.by} ELSE raced
  BY <1>1 DEF CreateLookup, SeesDevice, db
<1>6. Past(row.by) /\ (Stored(row.by) => tunnels[create[r].id] = row)
  BY <1>1, <1>2 DEF HandInv, Hand
<1>7. Past(row.by)' /\ create'[row.by].org = create[row.by].org
  BY <1>2, <1>6, PastLasts
<1>8. l.org = create[row.by].org \/ row.by \in raced'
  <2>1. CASE row.by = r
    BY <1>4, <1>5, <2>1 DEF InOrg
  <2>2. CASE Misread(r)
    BY <1>5, <2>2
  <2>3. CASE devices[row.device].reg = create[row.by].reg
    BY <1>2, <1>4, <1>5, <2>3 DEF OrgInv
  <2>4. QED
    BY <1>1, <2>1, <2>2, <2>3 DEF Misread
<1>9. InOwnOrg(l)'
  BY <1>4, <1>7, <1>8 DEF InOwnOrg
<1>10. Matches(l)'
  BY <1>2, <1>4, <1>5, <1>6, Nothing DEF Matches, InOrg, Exists, Stored, HasRow
<1>11. Good(l)'
  BY <1>4, <1>7, <1>9, <1>10 DEF Good
<1>12. l = create'[r].event
  BY <1>2, <1>3
<1>13. QED
  BY <1>11, <1>12

LEMMA ListenerStep ==
  ASSUME Types, OrgInv, RowInv, HandInv, ListenerInv, [Next]_vars
  PROVE  ListenerInv'
<1> SUFFICES ASSUME NEW l \in Listeners' PROVE Good(l)'
  BY DEF ListenerInv
<1>1. CASE l \in Listeners
  BY <1>1, Told, GoodLasts DEF ListenerInv
<1>2. ASSUME NEW id \in ActiveTcp, l = ListenerOf(id, tunnels[id]) PROVE Good(l)'
  <2>1. l \in Listener /\ Good(l)
    BY <1>2, ActiveTcpRows, ListenerFields, GoodFromRow
  <2>2. QED
    BY <2>1, GoodLasts
<1>3. ASSUME NEW r \in Creates, CreateLookup(r), l = create'[r].event PROVE Good(l)'
  BY <1>3, GoodFromHand
<1>4. QED
  BY <1>1, <1>2, <1>3, WhereListenersComeFrom

LEMMA ListenerInit == Init => ListenerInv
<1> SUFFICES ASSUME Init PROVE Listeners = {}
  BY DEF ListenerInv
<1>1. QED
  BY DEF Init, NoRequest, Listeners, Waiting

-----------------------------------------------------------------------------
(* What the connections recorded.                                          *)

LEMMA FaultsLast ==
  ASSUME Types, [Next]_vars, faults' = 0
  PROVE  faults = 0 /\ ~ Crash
<1>1. faults \in Nat
  BY DEF Types, TypeOK
<1>2. ~ Fault
  BY <1>1 DEF Fault
<1>3. ASSUME NEW r \in Creates, Handle(r) PROVE faults' = faults
  BY <1>3 DEF Handle, CreateCheck, CreateInsert, CreateRefused, CreateReadBack, CreateLookup,
              CreateSend, CreateGivesUp
<1>4. ASSUME NEW c \in Conns, Bridge(c) PROVE faults' = faults
  BY <1>2, <1>4
  DEF Bridge, Accept, Route, OpenSession, EndBridge, TouchDevice, CloseSession
<1>5. ASSUME Manage PROVE faults' = faults
  BY <1>2, <1>5 DEF Manage, Load, Receive, Bind
<1>6. ASSUME Environment PROVE faults' = faults
  BY <1>2, <1>6 DEF Environment, RegisterDevice, DeleteDevice, DeleteTunnel, AcceptError,
                    Crash, Restart
<1>7. ~ Crash
  BY <1>2 DEF Crash
<1>8. QED
  BY <1>3, <1>4, <1>5, <1>6, <1>7 DEF Next, vars

(* A session row keeps the name of a tunnel that stays in the table. *)
LEMMA SessionLasts ==
  ASSUME Types, RowInv, [Next]_vars, NEW c \in Conns, ~ Bridge(c),
         NEW q \in Creates, Stored(q)', audit[c].names = q
  PROVE  audit'[c] = audit[c]
<1>1. ASSUME NEW rows \in SUBSET TunnelIds, DeleteRows(rows),
             \A id \in rows : HasRow(id)
      PROVE  audit'[c] = audit[c]
  <2>1. PICK n \in TunnelIds : HasRow(n)' /\ tunnels'[n].by = q
    BY DEF Stored
  <2>2. n \notin rows /\ HasRow(n) /\ tunnels[n].by = q
    BY <1>1, <2>1 DEF DeleteRows, HasRow
  <2>3. \A id \in rows : tunnels[id].by # q
    BY <1>1, <2>2 DEF RowInv
  <2>4. QED
    BY <1>1, <2>3 DEF DeleteRows, Unnamed
<1>2. ASSUME NEW device \in DeviceIds, DeleteDevice(device) PROVE audit'[c] = audit[c]
  BY <1>1, <1>2 DEF DeleteDevice, Cascaded
<1>3. ASSUME NEW id \in TunnelIds, DeleteTunnel(id) PROVE audit'[c] = audit[c]
  BY <1>1, <1>3 DEF DeleteTunnel
<1>4. ASSUME NEW d \in Conns, Bridge(d) PROVE audit'[c] = audit[c]
  <2>1. d # c
    BY <1>4
  <2>2. audit' = audit \/ \E session : audit' = [audit EXCEPT ![d] = session]
    BY <1>4 DEF Bridge, Accept, Route, OpenSession, EndBridge, TouchDevice, CloseSession, db
  <2>3. QED
    BY <2>1, <2>2 DEF Types, TypeOK
<1>5. ASSUME NEW r \in Creates, Handle(r) PROVE audit' = audit
  BY <1>5 DEF Handle, CreateCheck, CreateInsert, CreateRefused, CreateReadBack, CreateLookup,
              CreateSend, CreateGivesUp, db
<1>6. ASSUME Manage PROVE audit' = audit
  BY <1>6 DEF Manage, Load, Receive, Bind, db
<1>7. ASSUME \/ \E z \in Zids, org \in Orgs : RegisterDevice(z, org)
             \/ \E s \in Sockets : AcceptError(s)
             \/ Crash \/ Restart
      PROVE  audit' = audit
  BY <1>7 DEF RegisterDevice, AcceptError, Crash, Restart, db
<1>8. QED
  BY <1>2, <1>3, <1>4, <1>5, <1>6, <1>7 DEF Next, Environment, vars, db

(* A connection that the step leaves alone. *)
LEMMA ConnLasts ==
  ASSUME Types, RowInv, [Next]_vars, NEW c \in Conns, ~ Bridge(c), conn'[c] = conn[c],
         Follows(c), Recorded(c)
  PROVE  Follows(c)' /\ Recorded(c)'
<1>1. PICK k \in Connection : k = conn[c] /\ k = conn'[c]
  BY DEF Types, TypeOK
<1>2. CASE k.pc = "idle"
  <2>1. k.by = None
    BY <1>1, <1>2 DEF Follows
  <2>2. ~ Stored(None)'
    <3>1. Types'
      BY TypesStep
    <3>2. QED
      BY <3>1, Nothing DEF Stored, HasRow, Types, TypeOK, Tunnel
  <2>3. QED
    BY <1>1, <1>2, <2>1, <2>2 DEF Follows, Recorded, Open
<1>3. CASE k.pc # "idle"
  <2>1. k.by \in Creates /\ Past(k.by)
    BY <1>1, <1>3 DEF Follows
  <2>2. Past(k.by)' /\ create'[k.by].reg = create[k.by].reg
    BY <2>1, PastLasts
  <2>3. ASSUME Stored(k.by)'
        PROVE  /\ Stored(k.by)
               /\ \A id \in TunnelIds : HasRow(id) /\ tunnels[id].by = k.by =>
                    HasRow(id)' /\ tunnels'[id] = tunnels[id]
    BY <2>1, <2>3, RowLasts
  <2>4. Follows(c)'
    <3>1. Open(c) /\ Stored(k.by)' =>
            /\ HasRow(k.tunnel)' /\ tunnels'[k.tunnel].by = k.by
            /\ k.device = tunnels'[k.tunnel].device
      BY <1>1, <2>3 DEF Follows, HasRow
    <3>2. Stored(k.by)' => k.touched \in {0, create'[k.by].reg}
      BY <1>1, <2>2, <2>3 DEF Follows
    <3>3. QED
      BY <1>1, <1>3, <2>1, <2>2, <3>1, <3>2 DEF Follows, Open
  <2>5. ASSUME faults' = 0, Stored(k.by)', audit[c].names = k.by
        PROVE  audit'[c] = audit[c]
    BY <2>1, <2>5, SessionLasts
  <2>6. faults' = 0 => faults = 0
    BY FaultsLast
  <2>7. QED
    BY <1>1, <2>3, <2>4, <2>5, <2>6 DEF Recorded
<1>4. QED
  BY <1>2, <1>3

(* A connection that starts. *)
LEMMA ConnStarts ==
  ASSUME Types, RowInv, ListenerInv, [Next]_vars, NEW c \in Conns, Bridge(c), conn[c].pc = "idle"
  PROVE  Follows(c)' /\ Recorded(c)'
<1>1. /\ conn' \in [Conns -> Connection] /\ conn'[c].pc = "accepted" /\ conn'[c].touched = 0
      /\ conn'[c].by \in Creates /\ conn'[c].tunnel \in TunnelIds
  BY BridgeEffect
<1>2. UNCHANGED <<devices, tunnels, create>>
  BY OtherSteps DEF tables
<1>3. PICK k \in Connection : k = conn'[c]
  BY <1>1
<1>4. /\ Past(k.by)
      /\ Stored(k.by) => /\ HasRow(k.tunnel) /\ tunnels[k.tunnel].by = k.by
                         /\ k.device = tunnels[k.tunnel].device
  <2>1. ASSUME NEW s \in Sockets, Accept(c, s)
        PROVE  /\ Past(k.by)
               /\ Stored(k.by) => /\ HasRow(k.tunnel) /\ tunnels[k.tunnel].by = k.by
                                  /\ k.device = tunnels[k.tunnel].device
    <3>1. PICK l \in Listener : l = sockets[s] /\ l # None
      BY <2>1 DEF Accept, Types, TypeOK
    <3>2. Good(l)
      BY <3>1, Told DEF ListenerInv
    <3>3. conn'[c] = [NoConn EXCEPT !.pc = "accepted", !.tcp = TRUE, !.by = l.by,
                                    !.tunnel = l.tunnel, !.device = l.device]
      BY <2>1, <3>1 DEF Accept, Types, TypeOK
    <3>4. k.by = l.by /\ k.tunnel = l.tunnel /\ k.device = l.device
      BY <1>3, <3>3 DEF NoConn
    <3>5. QED
      BY <3>2, <3>4 DEF Good, Matches
  <2>2. ASSUME NEW h \in Hosts, Route(c, h)
        PROVE  /\ Past(k.by)
               /\ HasRow(k.tunnel) /\ tunnels[k.tunnel].by = k.by
               /\ k.device = tunnels[k.tunnel].device
    <3>1. PICK id \in TunnelIds :
            /\ HasDevice(id)
            /\ conn'[c] = [NoConn EXCEPT !.pc = "accepted", !.by = tunnels[id].by,
                                         !.tunnel = id, !.device = tunnels[id].device]
      BY <2>2 DEF Route, Types, TypeOK
    <3>2. k.by = tunnels[id].by /\ k.tunnel = id /\ k.device = tunnels[id].device
      BY <1>3, <3>1 DEF NoConn
    <3>3. QED
      BY <3>1, <3>2 DEF HasDevice, RowInv
  <2>3. QED
    BY <2>1, <2>2 DEF Bridge, OpenSession, EndBridge, TouchDevice, CloseSession
<1>5. QED
  BY <1>1, <1>2, <1>3, <1>4 DEF Follows, Recorded, Past, Stored, HasRow, Open

(* A connection that is under way. *)
LEMMA ConnGoesOn ==
  ASSUME Types, RowInv, [Next]_vars, NEW c \in Conns, Bridge(c), conn[c].pc # "idle",
         Follows(c), Recorded(c)
  PROVE  Follows(c)' /\ Recorded(c)'
<1>1. UNCHANGED <<devices, tunnels, create>>
  BY OtherSteps DEF tables
<1>2. PICK k \in Connection : k = conn[c]
  BY DEF Types, TypeOK
<1>3. PICK n \in Connection : n = conn'[c]
  BY BridgeEffect
<1>4. /\ Open(c) /\ n.pc \in {"bridging", "touching", "closing", "done"} /\ n.by = k.by
      /\ n.pc # "done" => n.tunnel = k.tunnel /\ n.device = k.device
      /\ k.pc # "touching" => n.touched = k.touched
  BY <1>2, <1>3, BridgeEffect
<1>5. /\ k.by \in Creates /\ Past(k.by) /\ k.pc # "idle"
      /\ Stored(k.by) => /\ HasRow(k.tunnel) /\ tunnels[k.tunnel].by = k.by
                         /\ k.device = tunnels[k.tunnel].device
                         /\ k.touched \in {0, create[k.by].reg}
  BY <1>2, <1>4 DEF Follows, Open
<1>6. Stored(k.by) => n.touched \in {0, create[k.by].reg}
  <2>1. CASE TouchDevice(c)
    <3>1. n.touched = IF Exists(devices, k.device) THEN devices[k.device].reg ELSE 0
      BY <1>2, <1>3, <2>1 DEF TouchDevice, Types, TypeOK, Connection
    <3>2. QED
      BY <1>5, <3>1 DEF RowInv, HasRow
  <2>2. CASE k.pc # "touching"
    BY <1>4, <1>5, <2>2
  <2>3. QED
    BY <1>2, <2>1, <2>2
    DEF Bridge, Accept, Route, OpenSession, EndBridge, CloseSession
<1>7. Follows(c)'
  BY <1>1, <1>3, <1>4, <1>5, <1>6 DEF Follows, Past, Stored, HasRow, Open
<1>8. ASSUME faults' = 0, Stored(k.by)
      PROVE  /\ n.pc \in {"bridging", "touching", "closing"} =>
                  audit'[c] = [state |-> "open", names |-> k.by]
             /\ n.pc = "done" => audit'[c] = [state |-> "closed", names |-> k.by]
  <2>1. faults = 0 /\ ~ Fault
    BY <1>8, FaultsLast DEF Fault
  <2>2. k.pc \in {"bridging", "touching", "closing"} =>
          audit[c] = [state |-> "open", names |-> k.by]
    BY <1>2, <1>8, <2>1 DEF Recorded
  <2>3. CASE OpenSession(c)
    <3>1. Referents(c) /\ tunnels[conn[c].tunnel].by = k.by
      BY <1>2, <1>5, <1>8 DEF RowInv, Referents, HasRow
    <3>2. audit' = [audit EXCEPT ![c] = [state |-> "open", names |-> k.by]] /\ n.pc = "bridging"
      BY <1>3, <2>1, <2>3, <3>1 DEF OpenSession, Types, TypeOK, Connection
    <3>3. QED
      BY <3>2 DEF Types, TypeOK
  <2>4. CASE EndBridge(c) \/ TouchDevice(c)
    <3>1. audit' = audit /\ k.pc \in {"bridging", "touching"} /\ n.pc # "done"
      BY <1>2, <1>3, <2>4 DEF EndBridge, TouchDevice, db, Types, TypeOK, Connection
    <3>2. QED
      BY <2>2, <3>1
  <2>5. CASE CloseSession(c)
    <3>1. /\ k.pc = "closing" /\ n.pc = "done"
          /\ audit' = [audit EXCEPT ![c].state = IF @ = "open" THEN "closed" ELSE @]
      BY <1>2, <1>3, <2>1, <2>5, EndedEffect DEF CloseSession, Types, TypeOK
    <3>2. audit'[c] = [audit[c] EXCEPT !.state = IF @ = "open" THEN "closed" ELSE @]
      BY <3>1 DEF Types, TypeOK
    <3>3. QED
      BY <2>2, <3>1, <3>2
  <2>6. QED
    BY <1>2, <1>5, <2>3, <2>4, <2>5 DEF Bridge, Accept, Route
<1>9. QED
  BY <1>1, <1>3, <1>4, <1>7, <1>8 DEF Recorded, Stored, HasRow

LEMMA ConnStep ==
  ASSUME Types, RowInv, ListenerInv, ConnInv, [Next]_vars
  PROVE  ConnInv'
<1> SUFFICES ASSUME NEW c \in Conns PROVE Follows(c)' /\ Recorded(c)'
  BY DEF ConnInv
<1>1. Follows(c) /\ Recorded(c)
  BY DEF ConnInv
<1>2. CASE Bridge(c)
  BY <1>1, <1>2, ConnStarts, ConnGoesOn
<1>3. CASE Crash
  <2>1. faults' # 0
    BY <1>3, FaultsLast
  <2>2. /\ conn[c].pc = "idle" => conn'[c] = conn[c]
        /\ conn[c].pc # "idle" => conn'[c].pc = "done"
        /\ conn'[c].by = conn[c].by /\ conn'[c].touched = conn[c].touched
    BY <1>3, CrashEffect
  <2>3. UNCHANGED tunnels
    BY <1>3 DEF Crash, db
  <2>4. PICK k \in Connection : k = conn[c]
    BY DEF Types, TypeOK
  <2>5. ASSUME k.pc # "idle" PROVE k.by \in Creates /\ Past(k.by)' /\ create'[k.by].reg = create[k.by].reg
    BY <1>1, <2>4, <2>5, PastLasts DEF Follows
  <2>6. ~ Stored(None)
    BY Nothing DEF Stored, HasRow, Types, TypeOK, Tunnel
  <2>7. Follows(c)'
    BY <1>1, <2>2, <2>3, <2>4, <2>5, <2>6 DEF Follows, Stored, HasRow, Open
  <2>8. QED
    BY <2>1, <2>7 DEF Recorded
<1>4. CASE ~ Bridge(c) /\ ~ Crash
  <2>1. ASSUME NEW d \in Conns, Bridge(d) PROVE conn'[c] = conn[c]
    BY <1>4, <2>1, BridgeEffect
  <2>2. ASSUME NEW r \in Creates, Handle(r) PROVE conn' = conn
    BY <2>2 DEF Handle, CreateCheck, CreateInsert, CreateRefused, CreateReadBack, CreateLookup,
                CreateSend, CreateGivesUp
  <2>3. ASSUME Manage PROVE conn' = conn
    BY <2>3 DEF Manage, Load, Receive, Bind
  <2>4. ASSUME Environment PROVE conn' = conn
    BY <1>4, <2>4 DEF Environment, RegisterDevice, DeleteDevice, DeleteTunnel, AcceptError, Restart
  <2>5. conn'[c] = conn[c]
    BY <2>1, <2>2, <2>3, <2>4 DEF Next, vars
  <2>6. QED
    BY <1>1, <1>4, <2>5, ConnLasts
<1>5. QED
  BY <1>2, <1>3, <1>4

LEMMA ConnInit == Init => ConnInv
<1> SUFFICES ASSUME Init PROVE ConnInv
  OBVIOUS
<1>1. \A c \in Conns : conn[c].pc = "idle" /\ conn[c].by = None
  BY DEF Init, NoConn
<1>2. \A q : ~ Stored(q)
  BY DEF Init, Stored, HasRow
<1>3. QED
  BY <1>1, <1>2 DEF ConnInv, Follows, Recorded, Open

-----------------------------------------------------------------------------
(* The invariant, and what follows from it.                                *)

LEMMA IInvStep == IInv /\ [Next]_vars => IInv'
<1> SUFFICES ASSUME IInv, [Next]_vars PROVE IInv'
  OBVIOUS
<1>1. Types /\ RegInv /\ OrgInv /\ RowInv /\ HandInv /\ ListenerInv /\ ConnInv
  BY DEF IInv
<1>2. Types'
  BY <1>1, TypesStep
<1>3. RegInv' /\ OrgInv' /\ RowInv' /\ HandInv' /\ ListenerInv' /\ ConnInv'
  BY <1>1, RegStep, OrgStep, RowStep, HandStep, ListenerStep, ConnStep
<1>4. QED
  BY <1>2, <1>3 DEF IInv

LEMMA Inductive == Spec => []IInv
<1>1. Init => IInv
  BY TypesInit, TablesInit, ListenerInit, ConnInit DEF IInv
<1>2. QED
  BY <1>1, IInvStep, PTL DEF Spec

(* Every variable keeps its type, and a process that is down has neither   *)
(* sockets nor work under way.                                             *)
THEOREM TunnelTypes == Spec => []TypeOK
<1>1. IInv => TypeOK
  BY DEF IInv, Types
<1>2. QED
  BY <1>1, Inductive, PTL

(* What a listener was started with agrees with the row of its tunnel, as  *)
(* long as there is one, although nobody tells it of changes: the gateway  *)
(* has no statement that updates a column it was copied from.              *)
THEOREM ListenersMatch == Spec => []ListenerMatchesRow
<1>1. IInv => ListenerMatchesRow
  BY DEF IInv, ListenerInv, Good, Matches, ListenerMatchesRow
<1>2. QED
  BY <1>1, Inductive, PTL

(* No listener leads into an organisation that did not ask for it, but for *)
(* the two races that `raced` names.                                       *)
THEOREM ListenersInOrg == Spec => []ListenersStayInOrg
<1>1. IInv => ListenersStayInOrg
  BY DEF IInv, ListenerInv, Good, InOwnOrg, ListenersStayInOrg
<1>2. QED
  BY <1>1, Inductive, PTL

(* A connection that ran its course has its finished session row. *)
THEOREM SessionsRecorded == Spec => []SessionRecorded
<1>1. IInv => SessionRecorded
  BY DEF IInv, ConnInv, Recorded, SessionRecorded
<1>2. QED
  BY <1>1, Inductive, PTL

(* What a connection marks as seen is the device its tunnel was made for. *)
THEOREM SeenOwn == Spec => []SeenDeviceIsOwn
<1>1. IInv => SeenDeviceIsOwn
  BY DEF IInv, ConnInv, Follows, SeenDeviceIsOwn
<1>2. QED
  BY <1>1, Inductive, PTL

-----------------------------------------------------------------------------
(* A stored tunnel is served: how each way to be served gives way to the   *)
(* next.                                                                   *)

LEMMA SocketLasts ==
  ASSUME Types, [Next]_vars, ~ Crash, NEW s \in Sockets, sockets[s] # None
  PROVE  sockets'[s] = sockets[s] \/ s \in failed'
<1>1. ASSUME NEW r \in Creates, Handle(r) PROVE sockets' = sockets
  BY <1>1 DEF Handle, CreateCheck, CreateInsert, CreateRefused, CreateReadBack, CreateLookup,
              CreateSend, CreateGivesUp, listening
<1>2. ASSUME NEW c \in Conns, Bridge(c) PROVE sockets' = sockets
  BY <1>2 DEF Bridge, Accept, Route, OpenSession, EndBridge, TouchDevice, CloseSession, listening
<1>3. ASSUME Manage PROVE sockets'[s] = sockets[s]
  BY <1>3 DEF Manage, Load, Receive, Bind, Types, TypeOK
<1>4. ASSUME Environment PROVE sockets'[s] = sockets[s] \/ s \in failed'
  BY <1>4 DEF Environment, RegisterDevice, DeleteDevice, DeleteTunnel, AcceptError, Restart,
              listening, Types, TypeOK
<1>5. QED
  BY <1>1, <1>2, <1>3, <1>4 DEF Next, vars, listening

LEMMA FaultsCount ==
  ASSUME [Next]_vars, ~ Crash
  PROVE  missed \subseteq missed' /\ failed \subseteq failed'
<1>1. ASSUME NEW r \in Creates, Handle(r) PROVE missed \subseteq missed' /\ failed' = failed
  BY <1>1 DEF Handle, CreateCheck, CreateInsert, CreateRefused, CreateReadBack, CreateLookup,
              CreateSend, CreateGivesUp, history
<1>2. ASSUME NEW c \in Conns, Bridge(c) PROVE UNCHANGED history
  BY <1>2 DEF Bridge, Accept, Route, OpenSession, EndBridge, TouchDevice, CloseSession
<1>3. ASSUME Manage PROVE missed \subseteq missed' /\ failed' = failed
  BY <1>3 DEF Manage, Load, Receive, Bind, history
<1>4. ASSUME Environment PROVE missed' = missed /\ failed \subseteq failed'
  BY <1>4 DEF Environment, RegisterDevice, DeleteDevice, DeleteTunnel, AcceptError, Restart,
              history
<1>5. QED
  BY <1>1, <1>2, <1>3, <1>4 DEF Next, vars, history

(* A handler whose row is in the table goes on to send its event. *)
LEMMA ActiveLasts ==
  ASSUME Types, RowInv, HandInv, [Next]_vars, ~ Crash, NEW q \in Creates, Active(q),
         NEW id \in TunnelIds, HasRow(id), tunnels[id].by = q, tunnels[id].endpoint \in Ports
  PROVE  Active(q)' \/ q \in missed' \/ \E l \in Waiting' : l.by = q
<1>1. ASSUME UNCHANGED create PROVE Active(q)'
  BY <1>1 DEF Active
<1>2. ASSUME NEW r \in Creates, Handle(r), q # r PROVE Active(q)'
  <2>1. create'[q] = create[q]
    BY <1>2, HandleOthers
  <2>2. QED
    BY <2>1 DEF Active
<1>3. ASSUME CreateReadBack(q) PROVE Active(q)'
  <2>1. HasRow(create[q].id) /\ tunnels[create[q].id].by = q
    BY DEF HandInv, Hand, Stored
  <2>2. create[q].id = id
    BY <2>1 DEF RowInv, HasRow
  <2>3. QED
    BY <1>3, <2>2, ReadBackEffect DEF Active
<1>4. ASSUME CreateLookup(q) PROVE Active(q)'
  BY <1>4, LookupEffect DEF Active
<1>5. ASSUME CreateSend(q) PROVE \E l \in Waiting' : l.by = q
  <2>1. PICK l \in Listener : l = create[q].event
    BY <1>5 DEF CreateSend, Types, TypeOK, Request
  <2>2. l.by = q
    BY <1>5, <2>1 DEF CreateSend, HandInv, Hand, Stored
  <2>3. chan' = Append(chan, l)
    BY <1>5, <2>1 DEF CreateSend
  <2>4. Len(chan) + 1 \in DOMAIN chan' /\ chan'[Len(chan) + 1] = l
    BY <2>3, AppendProperties DEF Types, TypeOK
  <2>5. QED
    BY <2>2, <2>4 DEF Waiting
<1>6. ASSUME CreateGivesUp(q) PROVE q \in missed'
  BY <1>6 DEF CreateGivesUp
<1>7. ASSUME Handle(q) PROVE Active(q)' \/ q \in missed' \/ \E l \in Waiting' : l.by = q
  BY <1>3, <1>4, <1>5, <1>6, <1>7
  DEF Handle, CreateCheck, CreateInsert, CreateRefused, Active
<1>8. ASSUME Environment PROVE UNCHANGED create
  BY <1>8 DEF Environment, RegisterDevice, DeleteDevice, DeleteTunnel, AcceptError, Restart
<1>9. QED
  BY <1>1, <1>2, <1>7, <1>8, OtherSteps DEF Next, tables

(* A listener that waits goes on to be bound. *)
LEMMA WaitingLasts ==
  ASSUME Types, [Next]_vars, ~ Crash, NEW l \in Waiting
  PROVE  l \in Waiting' \/ (l \in binding /\ Bind(l))
<1>0. l \in binding \/ \E i \in DOMAIN chan : l = chan[i]
  BY DEF Waiting
<1>1. ASSUME UNCHANGED chan, binding \subseteq binding' PROVE l \in Waiting'
  BY <1>1 DEF Waiting
<1>2. ASSUME NEW r \in Creates, Handle(r) PROVE l \in Waiting'
  <2>1. ASSUME CreateSend(r) PROVE l \in Waiting'
    <3>1. create[r].pc = "sending" /\ chan' = Append(chan, create[r].event) /\ binding' = binding
      BY <2>1 DEF CreateSend
    <3>2. create[r].event \in Listener
      BY <3>1 DEF Types, TypeOK, Request
    <3>3. \A i \in DOMAIN chan : i \in DOMAIN chan' /\ chan'[i] = chan[i]
      BY <3>1, <3>2, AppendProperties DEF Types, TypeOK
    <3>4. QED
      BY <1>0, <3>1, <3>3 DEF Waiting
  <2>2. ASSUME ~ CreateSend(r) PROVE UNCHANGED <<chan, binding>>
    BY <1>2, <2>2 DEF Handle, CreateCheck, CreateInsert, CreateRefused, CreateReadBack,
                      CreateLookup, CreateGivesUp, listening
  <2>3. QED
    BY <1>1, <2>1, <2>2
<1>3. ASSUME NEW c \in Conns, Bridge(c) PROVE UNCHANGED <<chan, binding>>
  BY <1>3 DEF Bridge, Accept, Route, OpenSession, EndBridge, TouchDevice, CloseSession, listening
<1>4. ASSUME Load PROVE l \in Waiting'
  BY <1>1, <1>4 DEF Load
<1>5. ASSUME Receive PROVE l \in Waiting'
  <2>1. /\ chan # <<>> /\ binding' = binding \cup {Head(chan)} /\ chan' = Tail(chan)
    BY <1>5 DEF Receive
  <2>2. /\ Head(chan) = chan[1] /\ chan \in Seq(Listener) /\ Len(chan) \in Nat
        /\ chan' \in Seq(Listener) /\ Len(chan') = Len(chan) - 1
        /\ \A i \in 1 .. Len(chan') : chan'[i] = chan[i + 1]
    BY <2>1, HeadTailProperties DEF Types, TypeOK
  <2>3. ASSUME NEW i \in DOMAIN chan, i # 1
        PROVE  i - 1 \in DOMAIN chan' /\ chan'[i - 1] = chan[i]
    BY <2>2, <2>3
  <2>4. QED
    BY <1>0, <2>1, <2>2, <2>3 DEF Waiting
<1>6. ASSUME NEW k \in binding, Bind(k) PROVE l \in Waiting' \/ (l \in binding /\ Bind(l))
  BY <1>0, <1>6 DEF Bind, Waiting
<1>7. ASSUME Environment PROVE UNCHANGED <<chan, binding>>
  BY <1>7 DEF Environment, RegisterDevice, DeleteDevice, DeleteTunnel, AcceptError, Restart,
              listening
<1>8. QED
  BY <1>1, <1>2, <1>3, <1>4, <1>5, <1>6, <1>7 DEF Next, Manage, vars, listening

(* What StoredTunnelServed says of one row. *)
Fine(id) == \/ Served(id) \/ Blocked(id)
            \/ tunnels[id].by \in missed \/ U16(tunnels[id].endpoint) \in failed

(* Whoever holds the port of the row then either serves it, or is in its   *)
(* way.                                                                    *)
LEMMA FineLasts ==
  ASSUME IInv, [Next]_vars, ~ Crash, NEW id \in TunnelIds, HasRow(id),
         tunnels'[id] = tunnels[id], tunnels[id].endpoint \in Ports, Fine(id)
  PROVE  Fine(id)'
<1>1. PICK row \in Tunnel : row = tunnels[id] /\ row = tunnels'[id]
  BY DEF IInv, Types, TypeOK, HasRow
<1> DEFINE s == U16(row.endpoint)
<1>2. s \in Sockets /\ row.by \in Creates
  BY <1>1 DEF Sockets, Tunnel
<1>3. HasRow(id)'
  BY <1>1, Nothing DEF HasRow
<1>4. IInv' /\ missed \subseteq missed' /\ failed \subseteq failed'
  BY IInvStep, FaultsCount
<1>5. CASE row.by \in missed' \/ s \in failed'
  BY <1>1, <1>5 DEF Fine
<1>6. ASSUME sockets'[s] # None PROVE Fine(id)'
  <2>1. Types' /\ RowInv' /\ ListenerInv'
    BY <1>4 DEF IInv
  <2>2. PICK h \in Listener : h = sockets'[s] /\ h # None
    BY <1>2, <1>6, <2>1 DEF Types, TypeOK
  <2>3. h \in Listeners'
    BY <1>2, <2>2 DEF Listeners
  <2>4. Good(h)' /\ h.by \in Creates
    BY <2>1, <2>3 DEF ListenerInv, Listener
  <2>5. CASE ~ Stored(h.by)' \/ create'[h.by].endpoint # row.endpoint
    BY <1>1, <2>2, <2>5 DEF Fine, Blocked
  <2>6. CASE Stored(h.by)' /\ create'[h.by].endpoint = row.endpoint
    <3>1. PICK i \in TunnelIds : HasRow(i)' /\ tunnels'[i].by = h.by
      BY <2>6 DEF Stored
    <3>2. tunnels'[i].endpoint = row.endpoint
      BY <2>1, <2>6, <3>1 DEF RowInv
    <3>3. i = id
      BY <1>1, <1>3, <2>1, <3>1, <3>2 DEF RowInv
    <3>4. QED
      BY <1>1, <2>2, <3>1, <3>3 DEF Fine, Served, Holds
  <2>7. QED
    BY <2>5, <2>6
<1>7. ASSUME sockets[s] # None PROVE Fine(id)'
  BY <1>2, <1>5, <1>6, <1>7, SocketLasts DEF IInv
<1>8. ASSUME Active(row.by) PROVE Fine(id)'
  <2>1. Active(row.by)' \/ row.by \in missed' \/ \E l \in Waiting' : l.by = row.by
    BY <1>1, <1>2, <1>8, ActiveLasts DEF IInv
  <2>2. QED
    BY <1>1, <1>5, <2>1 DEF Fine, Served
<1>9. ASSUME NEW l \in Waiting, l.by = row.by PROVE Fine(id)'
  <2>1. CASE l \in Waiting'
    BY <1>1, <1>9, <2>1 DEF Fine, Served
  <2>2. CASE l \in binding /\ Bind(l)
    <3>1. l \in Listeners /\ l \in Listener
      BY <2>2, Told DEF IInv
    <3>2. HasRow(l.tunnel) /\ tunnels[l.tunnel].by = l.by /\ l.socket = U16(tunnels[l.tunnel].endpoint)
      BY <1>1, <1>9, <3>1 DEF IInv, ListenerInv, Good, Matches, Stored
    <3>3. l.tunnel = id
      BY <1>1, <1>9, <3>2 DEF IInv, RowInv, HasRow
    <3>4. l.socket = s
      BY <1>1, <3>2, <3>3
    <3>5. sockets'[s] # None \/ row.by \in missed'
      <4>1. l # None
        BY <3>1, Nothing
      <4>2. sockets \in [Sockets -> Listener \cup {None}]
        BY DEF IInv, Types, TypeOK
      <4>3. QED
        BY <1>2, <1>9, <2>2, <3>4, <4>1, <4>2 DEF Bind
    <3>6. QED
      BY <1>5, <1>6, <3>5
  <2>3. QED
    BY <1>9, <2>1, <2>2, WaitingLasts DEF IInv
<1>10. \/ Active(row.by) \/ (\E l \in Waiting : l.by = row.by) \/ sockets[s] # None
       \/ row.by \in missed \/ s \in failed
  BY <1>1 DEF Fine, Served, Blocked, Holds
<1>11. QED
  BY <1>4, <1>5, <1>7, <1>8, <1>9, <1>10

LEMMA ServedStep ==
  ASSUME IInv, StoredTunnelServed, [Next]_vars
  PROVE  StoredTunnelServed'
<1> SUFFICES ASSUME manager' = "watch", NEW id \in ActiveTcp' PROVE Fine(id)'
  BY DEF StoredTunnelServed, Fine
<1>1. Types /\ RowInv
  BY DEF IInv
<1>2. id \in TunnelIds /\ tunnels'[id] # None /\ tunnels'[id].endpoint \in Ports
  BY DEF ActiveTcp, HasDevice, HasRow
<1>3. ~ Crash
  BY DEF Crash
<1>4. ASSUME NEW r \in Creates, CreateInsert(r), create'[r].id = id PROVE Fine(id)'
  <2>1. tunnels'[id].by = r /\ create'[r].pc = "inserted"
    BY <1>1, <1>4, InsertedRow, InsertEffect
  <2>2. QED
    BY <2>1 DEF Fine, Served, Active
<1>5. ASSUME tunnels'[id] = tunnels[id] PROVE Fine(id)'
  <2>1. HasRow(id) /\ tunnels[id].endpoint \in Ports
    BY <1>2, <1>5 DEF HasRow
  <2>2. id \in ActiveTcp
    BY <1>1, <1>2, <2>1 DEF RowInv, ActiveTcp, HasDevice
  <2>3. CASE manager = "watch"
    <3>1. Fine(id)
      BY <2>2, <2>3 DEF StoredTunnelServed, Fine
    <3>2. QED
      BY <1>2, <1>3, <1>5, <2>1, <3>1, FineLasts
  <2>4. CASE manager # "watch"
    <3>1. Load
      <4>1. ASSUME NEW r \in Creates, Handle(r) PROVE manager' = manager
        BY <4>1 DEF Handle, CreateCheck, CreateInsert, CreateRefused, CreateReadBack,
                    CreateLookup, CreateSend, CreateGivesUp, listening
      <4>2. ASSUME NEW c \in Conns, Bridge(c) PROVE manager' = manager
        BY <4>2 DEF Bridge, Accept, Route, OpenSession, EndBridge, TouchDevice, CloseSession,
                    listening
      <4>3. ASSUME Environment PROVE manager' # "watch"
        BY <2>4, <4>3 DEF Environment, RegisterDevice, DeleteDevice, DeleteTunnel, AcceptError,
                          Crash, Restart, listening
      <4>4. ASSUME Manage PROVE Load
        BY <2>4, <4>4 DEF Manage, Receive, Bind
      <4>5. manager' # manager /\ Next
        BY <2>4 DEF vars, listening
      <4>6. QED
        BY <4>1, <4>2, <4>3, <4>4, <4>5 DEF Next
    <3>2. PICK row \in Tunnel : row = tunnels[id] /\ row = tunnels'[id]
      BY <1>1, <1>5, <2>2, ActiveTcpRows
    <3>3. PICK l \in Listener : l = ListenerOf(id, row) /\ l.by = row.by
      <4>1. Exists(devices, row.device) /\ row.endpoint \in Ports
        BY <1>1, <2>2, <3>2, ActiveTcpRows
      <4>2. ListenerOf(id, row) \in Listener /\ ListenerOf(id, row).by = row.by
        BY <1>1, <1>2, <4>1, ListenerFields
      <4>3. QED
        BY <4>2
    <3>4. l \in Waiting'
      BY <2>2, <3>1, <3>2, <3>3 DEF Load, Waiting
    <3>5. QED
      BY <3>2, <3>3, <3>4 DEF Fine, Served
  <2>5. QED
    BY <2>3, <2>4
<1>6. CASE \A r \in Creates : ~ CreateInsert(r)
  BY <1>1, <1>2, <1>5, <1>6, NoNewRow
<1>7. ASSUME NEW r \in Creates, CreateInsert(r), create'[r].id # id PROVE Fine(id)'
  BY <1>1, <1>2, <1>5, <1>7, InsertedRow
<1>8. QED
  BY <1>4, <1>6, <1>7

(* Once the manager watches, a TCP tunnel in the table has its listener or *)
(* a reason why not, whatever is inserted and deleted while it starts.     *)
THEOREM StoredServed == Spec => []StoredTunnelServed
<1>1. Init => StoredTunnelServed
  BY DEF Init, StoredTunnelServed
<1>2. IInv /\ StoredTunnelServed /\ [Next]_vars => StoredTunnelServed'
  BY ServedStep
<1>3. QED
  BY <1>1, <1>2, Inductive, PTL DEF Spec
=============================================================================
