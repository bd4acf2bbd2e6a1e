----------------------------- MODULE MessagePlane ------------------------------
(***************************************************************************)
(* The message plane of the gateway: events and logs that agents publish,  *)
(* the fan-in that stores and broadcasts them, and one client that follows *)
(* the live stream of a kind and pages through its history.                *)
(*                                                                         *)
(* Events and logs have a table, a subscriber and a fan-in task each, and  *)
(* share one broadcast bus.  Topics, levels, times and payloads are left   *)
(* out: the filters on them look at nothing but the row.  Messages are     *)
(* numbered as they are published, so that a kind stores them in the order *)
(* of their numbers.                                                       *)
(*                                                                         *)
(* Operators named Mutant... are no part of the model: each is the next    *)
(* definition with a bug put in, for the check that a property notices it. *)
(***************************************************************************)
EXTENDS DeviceTable, Integers, Sequences, FiniteSets

CONSTANTS
  Kinds,    \* "event" and "log"
  Cap,      \* rows kept per device and kind: 10000 in db/events.rs
  BusSize,  \* CHANNEL_CAPACITY of the bus: 1024
  MaxLimit, \* most rows of a page: 1000 in db/events.rs
  Limits,   \* values of the parameter `limit`, any i64
  Filters,  \* values of the parameter `device`
  MaxMsgs,  \* bound on the messages published
  MaxReg    \* bound on the registrations of devices

ASSUME PlaneAssumptions ==
  /\ Cap \in Nat \ {0} /\ BusSize \in Nat \ {0} /\ MaxLimit \in Nat \ {0}
  /\ Limits \subseteq Int /\ MaxMsgs \in Nat /\ MaxReg \in Nat

RowIds == 1 .. MaxMsgs

VARIABLES
  devices, \* the devices table
  net,     \* samples on their way to the subscriber of a kind
  fanin,   \* handle_sample, per kind
  rows,    \* the tables `events` and `logs`
  bus,     \* what was sent on the bus
  stream,  \* GET /v1/<kind>/stream of the client
  pager,   \* GET /v1/<kind>, page after page
  \* history
  nextReg, \* number of the next registration of a device
  nextMsg, \* number of the next message
  stored,  \* every row ever stored, with the registration it went to
  raced    \* messages whose device was replaced between lookup and insert

message == <<net, fanin, rows, bus, stored, raced>>
client == <<stream, pager>>
vars == <<devices, nextReg, nextMsg, message, client>>

Idle == [pc |-> "recv", n |-> 0, slug |-> "none", device |-> 0, reg |-> 0]

Closed == [on |-> FALSE, pos |-> 0, frames |-> {}, lagged |-> FALSE]

(* The parameters of the client's requests, 0 for no device in particular. *)
Query == [org : Orgs, kind : Kinds, device : Filters, limit : Limits]

Init ==
  /\ devices = EmptyTable
  /\ net = [k \in Kinds |-> <<>>]
  /\ fanin = [k \in Kinds |-> Idle]
  /\ rows = [k \in Kinds |-> {}]
  /\ bus = <<>>
  /\ stream = Closed
  /\ pager \in {[pc |-> "idle", q |-> q, cursor |-> 0, items |-> {}, history |-> {},
                 early |-> FALSE] : q \in Query}
  /\ nextReg = 1 /\ nextMsg = 1
  /\ stored = [k \in Kinds |-> {}] /\ raced = {}

-----------------------------------------------------------------------------
(* Devices and agents. *)

RegisterDevice ==
  /\ nextReg <= MaxReg
  /\ \E id \in DeviceIds, zid \in Zids, org \in Orgs :
       /\ IsNextId(devices, id) /\ ZidFree(devices, zid)
       /\ devices' = Inserted(devices, id, zid, org, nextReg)
  /\ nextReg' = nextReg + 1
  /\ UNCHANGED <<nextMsg, message, client>>

(* ON DELETE CASCADE takes the rows of the device. *)
DeleteDevice ==
  /\ \E id \in DeviceIds :
       /\ Exists(devices, id)
       /\ devices' = Removed(devices, id)
       /\ rows' = [k \in Kinds |-> {r \in rows[k] : r.device # id}]
  /\ UNCHANGED <<nextReg, nextMsg, net, fanin, bus, stored, raced, client>>

(* An agent publishes under the prefix of an organisation, its own or not. *)
Publish ==
  /\ nextMsg <= MaxMsgs
  /\ \E k \in Kinds, zid \in Zids, org \in Orgs :
       net' = [net EXCEPT ![k] = Append(@, [n |-> nextMsg, zid |-> zid, slug |-> org])]
  /\ nextMsg' = nextMsg + 1
  /\ UNCHANGED <<devices, nextReg, fanin, rows, bus, stored, raced, client>>

-----------------------------------------------------------------------------
(* The fan-in. *)

MutantKnown(s, id) == Exists(devices, id) /\ devices[id].zid = s.zid

(* get_by_zid finds this row, and its organisation has the slug of the key. *)
Known(s, id) ==
  Exists(devices, id) /\ devices[id].zid = s.zid /\ devices[id].org = s.slug

Receive(k) ==
  /\ fanin[k].pc = "recv" /\ net[k] # <<>>
  /\ net' = [net EXCEPT ![k] = Tail(@)]
  /\ LET s == Head(net[k]) IN
       \/ \E id \in DeviceIds :
            /\ Known(s, id)
            /\ fanin' = [fanin EXCEPT ![k] =
                 [pc |-> "insert", n |-> s.n, slug |-> s.slug, device |-> id,
                  reg |-> devices[id].reg]]
       \/ (\A id \in DeviceIds : ~ Known(s, id)) /\ UNCHANGED fanin
  /\ UNCHANGED <<devices, nextReg, nextMsg, rows, bus, stored, raced, client>>

MutantNewest(set, k) == {r \in set : Cardinality({q \in set : q.id < r.id}) < k}

(* ORDER BY id DESC, the first k of them. *)
Newest(set, k) == {r \in set : Cardinality({q \in set : q.id > r.id}) < k}

(* The table without the rows of a device beyond its newest Cap. *)
Pruned(table, device) ==
  LET own == {r \in table : r.device = device}
  IN  (table \ own) \cup Newest(own, Cap)

IsNextRowId(table, id) ==
  (\A r \in table : r.id < id) /\ (id > 1 => \E r \in table : r.id = id - 1)

(* INSERT and prune in one transaction.  The foreign key wants some device *)
(* with the id that the lookup found.                                      *)
Insert(k) ==
  /\ fanin[k].pc = "insert" /\ Exists(devices, fanin[k].device)
  /\ \E id \in RowIds :
       LET f == fanin[k]
           row == [id |-> id, device |-> f.device, n |-> f.n]
       IN  /\ IsNextRowId(rows[k], id)
           /\ rows' = [rows EXCEPT ![k] = Pruned(@ \cup {row}, f.device)]
           /\ fanin' = [fanin EXCEPT ![k].pc = "publish"]
           /\ stored' = [stored EXCEPT ![k] =
                @ \cup {[device |-> f.device, reg |-> devices[f.device].reg, n |-> f.n,
                         slug |-> f.slug]}]
           /\ raced' = IF devices[f.device].reg = f.reg THEN raced ELSE raced \cup {f.n}
  /\ UNCHANGED <<devices, nextReg, nextMsg, net, bus, client>>

InsertFails(k) ==
  /\ fanin[k].pc = "insert" /\ ~ Exists(devices, fanin[k].device)
  /\ fanin' = [fanin EXCEPT ![k] = Idle]
  /\ UNCHANGED <<devices, nextReg, nextMsg, net, rows, bus, stored, raced, client>>

MutantBroadcast(k) == \* before the transaction
  /\ \/ /\ fanin[k].pc = "insert" /\ \A i \in DOMAIN bus : bus[i].n # fanin[k].n
        /\ bus' = Append(bus, [kind |-> k, org |-> fanin[k].slug, device |-> fanin[k].device,
                               n |-> fanin[k].n])
        /\ UNCHANGED fanin
     \/ fanin[k].pc = "publish" /\ fanin' = [fanin EXCEPT ![k] = Idle] /\ UNCHANGED bus
  /\ UNCHANGED <<devices, nextReg, nextMsg, net, rows, stored, raced, client>>

(* The row goes out with the organisation that the lookup found. *)
Broadcast(k) ==
  /\ fanin[k].pc = "publish"
  /\ bus' = Append(bus, [kind |-> k, org |-> fanin[k].slug, device |-> fanin[k].device,
                         n |-> fanin[k].n])
  /\ fanin' = [fanin EXCEPT ![k] = Idle]
  /\ UNCHANGED <<devices, nextReg, nextMsg, net, rows, stored, raced, client>>

-----------------------------------------------------------------------------
(* The client. *)

Subscribe ==
  /\ ~ stream.on
  /\ stream' = [stream EXCEPT !.on = TRUE, !.pos = Len(bus)]
  /\ UNCHANGED <<devices, nextReg, nextMsg, message, pager>>

Lagging == Len(bus) - stream.pos > BusSize

(* The filter of the stream handler. *)
Wanted(m) ==
  /\ m.kind = pager.q.kind /\ m.org = pager.q.org
  /\ pager.q.device \in {0, m.device}

NextFrame ==
  /\ stream.on /\ stream.pos < Len(bus) /\ ~ Lagging
  /\ LET m == bus[stream.pos + 1] IN
       stream' = [stream EXCEPT !.pos = @ + 1,
                                !.frames = IF Wanted(m) THEN @ \cup {m.n} ELSE @]
  /\ UNCHANGED <<devices, nextReg, nextMsg, message, pager>>

(* The receiver is moved to the oldest message that is left; the handler   *)
(* drops the error, so that the client learns nothing.                     *)
SkipLag ==
  /\ stream.on /\ Lagging
  /\ stream' = [stream EXCEPT !.pos = Len(bus) - BusSize, !.lagged = TRUE]
  /\ UNCHANGED <<devices, nextReg, nextMsg, message, pager>>

(* The rows of devices that are in the organisation now. *)
Matching ==
  {r \in rows[pager.q.kind] :
     InOrg(devices, pager.q.org, r.device) /\ pager.q.device \in {0, r.device}}

Numbers(set) == {r.n : r \in set}

Clamped == IF pager.q.limit < 1 THEN 1 ELSE IF pager.q.limit > MaxLimit THEN MaxLimit
           ELSE pager.q.limit

MutantOlder(set) == {r \in set : pager.cursor = 0 \/ r.id < pager.cursor - 1}

Older(set) == {r \in set : pager.cursor = 0 \/ r.id < pager.cursor}


(* The handler compares with the limit it was given. *)
Saturated(page) == page # {} /\ Cardinality(page) >= pager.q.limit

Page ==
  /\ pager.pc \in {"idle", "more"}
  /\ LET page == Newest(Older(Matching), Clamped)
         last == CHOOSE r \in page : \A q \in page : r.id <= q.id
     IN  pager' = [pager EXCEPT
           !.items = @ \cup Numbers(page),
           !.history = IF pager.pc = "idle" THEN Numbers(Matching) ELSE @,
           !.early = IF pager.pc = "idle" THEN ~ stream.on ELSE @,
           !.pc = IF Saturated(page) THEN "more" ELSE "done",
           !.cursor = IF Saturated(page) THEN last.id ELSE @]
  /\ UNCHANGED <<devices, nextReg, nextMsg, message, stream>>

-----------------------------------------------------------------------------
Next ==
  \/ RegisterDevice \/ DeleteDevice \/ Publish
  \/ \E k \in Kinds : Receive(k) \/ Insert(k) \/ InsertFails(k) \/ Broadcast(k)
  \/ Subscribe \/ NextFrame \/ SkipLag \/ Page

Spec == Init /\ [][Next]_vars

-----------------------------------------------------------------------------
(* Properties. *)

Numbered == 1 .. nextMsg - 1

(* A sample: its key expression names the agent and an organisation. *)
Sample == [n : Numbered, zid : Zids, slug : Orgs]

(* EventRow, LogRow. *)
Row == [id : RowIds, device : DeviceIds, n : Numbered]

(* What handle_sample has in hand. *)
Task ==
  [pc : {"recv"}, n : {0}, slug : {"none"}, device : {0}, reg : {0}] \cup
  [pc : {"insert", "publish"}, n : Numbered, slug : Orgs, device : DeviceIds,
   reg : 1 .. nextReg - 1]

(* MsgEvent. *)
Message == [kind : Kinds, org : Orgs, device : DeviceIds, n : Numbered]

Stored == [device : DeviceIds, reg : 1 .. nextReg - 1, n : Numbered, slug : Orgs]

(* Types; and no two rows of a table have one id. *)
TypeOK ==
  /\ nextReg \in 1 .. MaxReg + 1 /\ nextMsg \in 1 .. MaxMsgs + 1
  /\ devices \in Table
  /\ \A id \in DeviceIds : Exists(devices, id) => devices[id].reg \in 1 .. nextReg - 1
  /\ net \in [Kinds -> Seq(Sample)]
  /\ fanin \in [Kinds -> Task]
  /\ rows \in [Kinds -> SUBSET Row]
  /\ \A k \in Kinds : \A r, q \in rows[k] : r.id = q.id => r = q
  /\ bus \in Seq(Message)
  /\ stream \in [on : BOOLEAN, pos : 0 .. Len(bus), frames : SUBSET Numbered,
                  lagged : BOOLEAN]
  /\ pager \in [pc : {"idle", "more", "done"}, q : Query, cursor : 0 .. MaxMsgs,
                 items : SUBSET Numbered, history : SUBSET Numbered, early : BOOLEAN]
  /\ stored \in [Kinds -> SUBSET Stored]
  /\ raced \subseteq Numbered

(* Each device keeps the newest Cap messages of a kind that were stored    *)
(* for it, although row ids are reused and devices share the table.        *)
RingHoldsNewest ==
  \A k \in Kinds, id \in DeviceIds : Exists(devices, id) =>
    LET all == {s.n : s \in {t \in stored[k] : t.device = id /\ t.reg = devices[id].reg}}
        kept == {r.n : r \in {q \in rows[k] : q.device = id}}
    IN  kept = {n \in all : Cardinality({m \in all : m > n}) < Cap}

(* A client sees the messages of its own organisation only, except those   *)
(* that were stored for a device which took the row id of their own.       *)
StaysInOrg ==
  \A k \in Kinds : \A s \in stored[k] :
    /\ s.n \in stream.frames => s.slug = pager.q.org
    /\ s.n \in pager.items \ raced => s.slug = pager.q.org

(* A client that asks for pages no larger than the server gives reads, up  *)
(* to the page without a cursor, all the history there was and still is.   *)
PagerReadsAllHistory ==
  pager.pc = "done" /\ pager.q.limit <= MaxLimit =>
    Numbers(Matching) \cap pager.history \subseteq pager.items

(* A client that subscribes, then pages to the end, and does not lag, has  *)
(* every row that is kept, once it is sent.                                *)
ReplayMissesNothing ==
  /\ stream.on /\ ~ stream.lagged /\ stream.pos = Len(bus)
  /\ pager.pc = "done" /\ pager.q.limit <= MaxLimit
  /\ ~ pager.early
  => \A r \in Matching :
       \/ r.n \in pager.items \cup stream.frames
       \/ r.n \in raced
       \/ fanin[pager.q.kind].pc = "publish" /\ fanin[pager.q.kind].n = r.n
=============================================================================
