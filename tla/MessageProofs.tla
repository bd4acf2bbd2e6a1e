----------------------------- MODULE MessageProofs ------------------------------
(***************************************************************************)
(* The message plane, for any organisations, devices, capacities and       *)
(* messages: its types, that a client is shown the messages of its own     *)
(* organisation only, that the rings keep the newest, and that a client    *)
(* which pages through the history and follows the stream misses nothing.  *)
(*                                                                         *)
(* A message has one slug, wherever it has got to (Attributed): the        *)
(* fan-in compares it with the device, the table knows the device alone,   *)
(* and the bus carries the organisation.  What a client reads from either  *)
(* is compared with that slug.                                             *)
(*                                                                         *)
(* For the rest, what matters is the order: messages of a kind are handled *)
(* and stored in the order of their numbers, so that a table is sorted by  *)
(* row ids and numbers alike (InOrder, RowsInOrder).  The prune keeps the  *)
(* largest ids, and to know that these are the newest messages takes       *)
(* counting both.  The pages go down in ids (PagerInv), and a row that     *)
(* they miss was stored since, and is on the bus or about to be            *)
(* (StreamInv).                                                            *)
(***************************************************************************)
EXTENDS MessagePlane, SequenceTheorems, FiniteSetTheorems, WellFoundedInduction, TLAPS

(* The message n was published under the prefix of the organisation. *)
Tagged(own, n, org) == n \in Numbered /\ own[n] = org

(* The slug of a message is the same in every place that it has reached,   *)
(* and that of the client's organisation where the client has seen it.     *)
Attributed(own) ==
  /\ \A k \in Kinds : \A i \in DOMAIN net[k] : Tagged(own, net[k][i].n, net[k][i].slug)
  /\ \A k \in Kinds : fanin[k].pc # "recv" => Tagged(own, fanin[k].n, fanin[k].slug)
  /\ \A k \in Kinds : \A s \in stored[k] : Tagged(own, s.n, s.slug)
  /\ \A i \in DOMAIN bus : Tagged(own, bus[i].n, bus[i].org)
  /\ \A n \in stream.frames : Tagged(own, n, pager.q.org)
  /\ \A n \in pager.items \ raced : Tagged(own, n, pager.q.org)

(* A row belongs to a device, which is of the organisation of the message  *)
(* unless another device took the row id.                                  *)
Owned(own) ==
  /\ \A k \in Kinds : \A r \in rows[k] :
       /\ Exists(devices, r.device) /\ r.n \in Numbered
       /\ r.n \notin raced => devices[r.device].org = own[r.n]
  /\ \A k \in Kinds : LET f == fanin[k] IN
       /\ f.pc = "insert" /\ Exists(devices, f.device) /\ devices[f.device].reg = f.reg
       => devices[f.device].org = f.slug

Provenance == \E own \in [Numbered -> Orgs] : Attributed(own) /\ Owned(own)

IInv == TypeOK /\ Provenance

-----------------------------------------------------------------------------
LEMMA LeastExists ==
  ASSUME NEW S, S \subseteq Nat, S # {}
  PROVE  \E m \in S : \A n \in S : m <= n
<1> DEFINE R == {ss \in Nat \X Nat : ss[1] < ss[2]}
<1>1. OpToRel(<, Nat) = R
  BY DEF OpToRel
<1>2. IsWellFoundedOn(R, Nat)
  BY <1>1, NatLessThanWellFounded, Zenon
<1>3. \E m \in S : \A n \in S : ~ (<<n, m>> \in R)
  <2> HIDE DEF R
  <2> QED
    BY <1>2, WFMin, Zenon
<1>4. PICK m \in S : \A n \in S : ~ (<<n, m>> \in R)
  BY <1>3
<1>5. ASSUME NEW n \in S PROVE m <= n
  <2>1. m \in Nat /\ n \in Nat /\ <<n, m>> \in Nat \X Nat
    OBVIOUS
  <2>2. <<n, m>> \in R <=> n < m
    BY <2>1
  <2>3. QED
    BY <1>4, <2>1, <2>2
<1>6. QED
  BY <1>5

LEMMA Initially == Init => IInv
<1> SUFFICES ASSUME Init PROVE IInv
  OBVIOUS
<1>1. TypeOK
  <2>1. /\ nextReg \in 1 .. MaxReg + 1 /\ nextMsg \in 1 .. MaxMsgs + 1
        /\ devices \in Table /\ \A id \in DeviceIds : ~ Exists(devices, id)
    BY PlaneAssumptions DEF Init, Table, EmptyTable, Exists
  <2>2. net \in [Kinds -> Seq(Sample)] /\ \A k \in Kinds : DOMAIN net[k] = {}
    BY DEF Init
  <2>3. /\ fanin \in [Kinds -> Task] /\ rows \in [Kinds -> SUBSET Row]
        /\ stored \in [Kinds -> SUBSET Stored] /\ \A k \in Kinds : rows[k] = {}
    BY DEF Init, Task, Idle
  <2>4. bus \in Seq(Message) /\ Len(bus) = 0
    BY DEF Init
  <2>5. stream \in [on : BOOLEAN, pos : 0 .. Len(bus), frames : SUBSET Numbered,
                    lagged : BOOLEAN]
    BY <2>4 DEF Init, Closed
  <2>6. PICK q \in Query : pager = [pc |-> "idle", q |-> q, cursor |-> 0, items |-> {},
                                  history |-> {}, early |-> FALSE]
    BY DEF Init
  <2>7. pager \in [pc : {"idle", "more", "done"}, q : Query, cursor : 0 .. MaxMsgs,
                   items : SUBSET Numbered, history : SUBSET Numbered, early : BOOLEAN]
    BY <2>6, PlaneAssumptions
  <2>8. raced \subseteq Numbered
    BY DEF Init
  <2>9. QED
    BY <2>1, <2>2, <2>3, <2>4, <2>5, <2>7, <2>8 DEF TypeOK
<1>2. Provenance
  <2>1. PICK own : own \in [Numbered -> Orgs]
    <3>1. Numbered = {}
      BY DEF Init, Numbered
    <3>2. [n \in Numbered |-> 0] \in [Numbered -> Orgs]
      BY <3>1
    <3>3. QED
      BY <3>2
  <2>2. Attributed(own)
    BY DEF Init, Attributed, Idle, Closed
  <2>3. Owned(own)
    BY DEF Init, Owned, Idle
  <2>4. QED
    BY <2>1, <2>2, <2>3 DEF Provenance
<1>3. QED
  BY <1>1, <1>2 DEF IInv

-----------------------------------------------------------------------------
(* Type correctness, one lemma for each actor. *)

LEMMA SetsKept ==
  ASSUME UNCHANGED <<nextReg, nextMsg>>
  PROVE  UNCHANGED <<Numbered, Sample, Row, Task, Message, Stored>>
BY DEF Numbered, Sample, Row, Task, Message, Stored

LEMMA SetsGrow ==
  ASSUME TypeOK, nextReg' \in {nextReg, nextReg + 1}, nextMsg' \in {nextMsg, nextMsg + 1}
  PROVE  /\ Numbered \subseteq Numbered' /\ Sample \subseteq Sample' /\ Row \subseteq Row'
         /\ Task \subseteq Task' /\ Message \subseteq Message' /\ Stored \subseteq Stored'
<1>1. nextReg \in Int /\ nextMsg \in Int
  BY PlaneAssumptions DEF TypeOK
<1>2. nextReg' \in Int /\ nextMsg' \in Int /\ nextReg <= nextReg' /\ nextMsg <= nextMsg'
  BY <1>1
<1>3. Numbered \subseteq Numbered' /\ 1 .. nextReg - 1 \subseteq 1 .. nextReg' - 1
  <2>1. \A a, b \in Int : a <= b => 1 .. a - 1 \subseteq 1 .. b - 1
    OBVIOUS
  <2>2. QED
    BY <1>1, <1>2, <2>1, Zenon DEF Numbered
<1>4. Sample \subseteq Sample' /\ Row \subseteq Row'
  BY <1>3 DEF Sample, Row
<1>5. Message \subseteq Message' /\ Stored \subseteq Stored'
  BY <1>3 DEF Message, Stored
<1>6. Task \subseteq Task'
  BY <1>3 DEF Task
<1>7. QED
  BY <1>3, <1>4, <1>5, <1>6

LEMMA TypesKept ==
  ASSUME TypeOK, UNCHANGED vars
  PROVE  TypeOK'
BY SetsKept DEF TypeOK, vars, message, client

LEMMA DeviceTypes ==
  ASSUME TypeOK, RegisterDevice \/ DeleteDevice
  PROVE  TypeOK'
<1>1. CASE RegisterDevice
  <2> PICK id \in DeviceIds, zid \in Zids, org \in Orgs :
        devices' = Inserted(devices, id, zid, org, nextReg)
    BY <1>1 DEF RegisterDevice
  <2>1. nextReg' = nextReg + 1 /\ nextReg' \in 1 .. MaxReg + 1 /\ nextReg \in Nat
    BY <1>1, PlaneAssumptions DEF RegisterDevice, TypeOK
  <2>2. devices' \in Table
    BY <2>1 DEF TypeOK, Table, Inserted, Device
  <2>3. \A i \in DeviceIds : Exists(devices', i) => devices'[i].reg \in 1 .. nextReg' - 1
    BY <2>1 DEF TypeOK, Table, Inserted, Exists
  <2>4. /\ Task \subseteq Task' /\ Stored \subseteq Stored' /\ Numbered' = Numbered
        /\ Message' = Message /\ Sample' = Sample /\ Row' = Row
    BY <1>1, <2>1, SetsGrow DEF Numbered, Sample, Row, Message, RegisterDevice
  <2>5. UNCHANGED <<nextMsg, net, fanin, rows, bus, stored, raced, stream, pager>>
    BY <1>1 DEF RegisterDevice, message, client
  <2>6. QED
    BY <2>1, <2>2, <2>3, <2>4, <2>5 DEF TypeOK
<1>2. CASE DeleteDevice
  <2> PICK id \in DeviceIds :
        /\ devices' = Removed(devices, id)
        /\ rows' = [k \in Kinds |-> {r \in rows[k] : r.device # id}]
    BY <1>2 DEF DeleteDevice
  <2>1. devices' \in Table
    BY DEF TypeOK, Table, Removed
  <2>2. \A i \in DeviceIds : Exists(devices', i) => devices'[i].reg \in 1 .. nextReg - 1
    BY DEF TypeOK, Table, Removed, Exists
  <2>3. rows' \in [Kinds -> SUBSET Row] /\ \A k \in Kinds : rows'[k] \subseteq rows[k]
    BY DEF TypeOK
  <2>4. UNCHANGED <<nextReg, nextMsg, net, fanin, bus, stored, raced, stream, pager>>
    BY <1>2 DEF DeleteDevice, client
  <2>5. QED
    BY <2>1, <2>2, <2>3, <2>4, SetsKept DEF TypeOK
<1>3. QED
  BY <1>1, <1>2

LEMMA PublishTypes ==
  ASSUME TypeOK, Publish
  PROVE  TypeOK'
<1> PICK k \in Kinds, zid \in Zids, org \in Orgs :
      net' = [net EXCEPT ![k] = Append(@, [n |-> nextMsg, zid |-> zid, slug |-> org])]
  BY DEF Publish
<1> DEFINE s == [n |-> nextMsg, zid |-> zid, slug |-> org]
<1>1. nextMsg' = nextMsg + 1 /\ nextMsg \in 1 .. MaxMsgs /\ nextMsg' \in 1 .. MaxMsgs + 1
  BY PlaneAssumptions DEF Publish, TypeOK
<1>2. /\ Sample \subseteq Sample' /\ Row \subseteq Row' /\ Task \subseteq Task'
      /\ Stored \subseteq Stored' /\ Numbered \subseteq Numbered' /\ Message \subseteq Message'
      /\ s \in Sample'
  BY <1>1, SetsGrow DEF Sample, Numbered, Publish
<1>3. \A j \in Kinds : net[j] \in Seq(Sample')
  BY <1>2, SeqMonotonic DEF TypeOK
<1>4. Append(net[k], s) \in Seq(Sample')
  BY <1>2, <1>3, AppendProperties
<1>5. net' \in [Kinds -> Seq(Sample')]
  BY <1>3, <1>4 DEF TypeOK
<1>6. bus \in Seq(Message')
  BY <1>2, SeqMonotonic DEF TypeOK
<1>7. QED
  BY <1>1, <1>2, <1>5, <1>6 DEF TypeOK, Publish, client

LEMMA ReceiveTypes ==
  ASSUME TypeOK, NEW k \in Kinds, Receive(k)
  PROVE  TypeOK'
<1>0. net[k] \in Seq(Sample) /\ net[k] # <<>>
  BY DEF Receive, TypeOK
<1>1. Head(net[k]) \in Sample /\ Tail(net[k]) \in Seq(Sample)
  BY <1>0, HeadTailProperties
<1>2. net' \in [Kinds -> Seq(Sample)]
  BY <1>1 DEF TypeOK, Receive
<1>3. fanin' \in [Kinds -> Task]
  <2>1. CASE UNCHANGED fanin
    BY <2>1 DEF TypeOK
  <2>2. ASSUME NEW id \in DeviceIds, Known(Head(net[k]), id),
               fanin' = [fanin EXCEPT ![k] =
                 [pc |-> "insert", n |-> Head(net[k]).n, slug |-> Head(net[k]).slug,
                  device |-> id, reg |-> devices[id].reg]]
        PROVE  fanin' \in [Kinds -> Task]
    <3>1. devices[id].reg \in 1 .. nextReg - 1
      BY <2>2 DEF TypeOK, Known
    <3>2. Head(net[k]).n \in Numbered /\ Head(net[k]).slug \in Orgs
      BY <1>1 DEF Sample
    <3>3. QED
      BY <2>2, <3>1, <3>2 DEF TypeOK, Task
  <2>3. QED
    BY <2>1, <2>2 DEF Receive
<1>4. UNCHANGED <<Numbered, Sample, Row, Task, Message, Stored>>
  BY SetsKept DEF Receive
<1>5. QED
  BY <1>2, <1>3, <1>4 DEF TypeOK, Receive, client

LEMMA InsertTypes ==
  ASSUME TypeOK, NEW k \in Kinds, Insert(k) \/ InsertFails(k)
  PROVE  TypeOK'
<1>0. UNCHANGED <<Numbered, Sample, Row, Task, Message, Stored>>
  BY SetsKept DEF Insert, InsertFails
<1>1. CASE Insert(k)
  <2> DEFINE f == fanin[k]
  <2> PICK id \in RowIds :
        /\ IsNextRowId(rows[k], id)
        /\ rows' = [rows EXCEPT ![k] =
              Pruned(@ \cup {[id |-> id, device |-> f.device, n |-> f.n]}, f.device)]
        /\ fanin' = [fanin EXCEPT ![k].pc = "publish"]
        /\ stored' = [stored EXCEPT ![k] =
              @ \cup {[device |-> f.device, reg |-> devices[f.device].reg, n |-> f.n,
                       slug |-> f.slug]}]
        /\ raced' = IF devices[f.device].reg = f.reg THEN raced ELSE raced \cup {f.n}
    BY <1>1 DEF Insert
  <2>1. /\ f.n \in Numbered /\ f.slug \in Orgs /\ f.device \in DeviceIds
        /\ f.reg \in 1 .. nextReg - 1 /\ devices[f.device].reg \in 1 .. nextReg - 1
    BY <1>1 DEF TypeOK, Task, Insert
  <2> DEFINE row == [id |-> id, device |-> f.device, n |-> f.n]
  <2>3. row \in Row
    BY <2>1 DEF Row
  <2>4. rows'[k] \subseteq rows[k] \cup {row}
    BY DEF Pruned, Newest, TypeOK
  <2>5. rows' \in [Kinds -> SUBSET Row]
    BY <2>3, <2>4 DEF TypeOK
  <2>6. \A r, q \in rows[k] \cup {row} : r.id = q.id => r = q
    <3>1. \A r \in rows[k] : r \in Row /\ r.id < id
      BY DEF IsNextRowId, TypeOK
    <3>2. RowIds \subseteq Int
      BY PlaneAssumptions DEF RowIds
    <3>3. \A r \in rows[k] : r.id # row.id
      BY <3>1, <3>2 DEF Row
    <3>4. QED
      BY <3>3 DEF TypeOK
  <2>7. \A j \in Kinds : \A r, q \in rows'[j] : r.id = q.id => r = q
    <3> TAKE j \in Kinds
    <3>1. CASE j = k
      BY <2>4, <2>6, <3>1
    <3>2. CASE j # k
      BY <3>2 DEF TypeOK
    <3>3. QED
      BY <3>1, <3>2
  <2>8. fanin' \in [Kinds -> Task]
    <3>1. f \in [pc : {"insert", "publish"}, n : Numbered, slug : Orgs, device : DeviceIds,
                 reg : 1 .. nextReg - 1]
      BY <1>1 DEF TypeOK, Task, Insert
    <3>2. [f EXCEPT !.pc = "publish"] \in Task
      BY <3>1 DEF Task
    <3>3. fanin' = [fanin EXCEPT ![k] = [f EXCEPT !.pc = "publish"]]
      OBVIOUS
    <3>4. QED
      BY <3>2, <3>3 DEF TypeOK
  <2>9. stored' \in [Kinds -> SUBSET Stored] /\ raced' \subseteq Numbered
    BY <2>1 DEF TypeOK, Stored
  <2>10. QED
    BY <1>0, <1>1, <2>5, <2>7, <2>8, <2>9 DEF TypeOK, Insert, client
<1>2. CASE InsertFails(k)
  <2>1. fanin' \in [Kinds -> Task]
    BY <1>2 DEF TypeOK, Task, Idle, InsertFails
  <2>2. QED
    BY <1>0, <1>2, <2>1 DEF TypeOK, InsertFails, client
<1>3. QED
  BY <1>1, <1>2

LEMMA BroadcastTypes ==
  ASSUME TypeOK, NEW k \in Kinds, Broadcast(k)
  PROVE  TypeOK'
<1>0. UNCHANGED <<Numbered, Sample, Row, Task, Message, Stored>>
  BY SetsKept DEF Broadcast
<1> DEFINE m == [kind |-> k, org |-> fanin[k].slug, device |-> fanin[k].device, n |-> fanin[k].n]
<1>1. m \in Message /\ bus' = Append(bus, m)
  BY DEF TypeOK, Task, Message, Broadcast
<1>2. bus' \in Seq(Message) /\ Len(bus') = Len(bus) + 1 /\ Len(bus) \in Nat
  BY <1>1, AppendProperties, LenProperties DEF TypeOK
<1>3. fanin' \in [Kinds -> Task]
  BY DEF TypeOK, Task, Idle, Broadcast
<1>4. stream' \in [on : BOOLEAN, pos : 0 .. Len(bus'), frames : SUBSET Numbered,
                   lagged : BOOLEAN]
  BY <1>2 DEF TypeOK, Broadcast, client
<1>5. QED
  BY <1>0, <1>2, <1>3, <1>4 DEF TypeOK, Broadcast, client

LEMMA StreamTypes ==
  ASSUME TypeOK, Subscribe \/ NextFrame \/ SkipLag
  PROVE  TypeOK'
<1>0. UNCHANGED <<Numbered, Sample, Row, Task, Message, Stored>>
  BY SetsKept DEF Subscribe, NextFrame, SkipLag, message
<1>1. Len(bus) \in Nat /\ stream.pos \in 0 .. Len(bus) /\ BusSize \in Nat \ {0}
  BY LenProperties, PlaneAssumptions DEF TypeOK
<1> DEFINE Position == 0 .. Len(bus)
           Stream == [on : BOOLEAN, pos : Position, frames : SUBSET Numbered,
                      lagged : BOOLEAN]
<1>2. stream \in Stream
  BY DEF TypeOK
<1>3. stream' \in Stream
  <2>1. CASE Subscribe
    <3>1. Len(bus) \in Position
      BY <1>1
    <3> HIDE DEF Position
    <3>2. QED
      BY <1>2, <2>1, <3>1 DEF Subscribe
  <2>2. CASE NextFrame
    <3>1. stream.pos + 1 \in 1 .. Len(bus) /\ stream.pos + 1 \in Position
      BY <1>1, <2>2 DEF NextFrame
    <3>2. bus[stream.pos + 1] \in Message
      BY <3>1, ElementOfSeq DEF TypeOK
    <3>3. bus[stream.pos + 1].n \in Numbered
      BY <3>2 DEF Message
    <3> HIDE DEF Position
    <3>4. QED
      BY <1>2, <2>2, <3>1, <3>3 DEF NextFrame
  <2>3. CASE SkipLag
    <3>1. Len(bus) - BusSize \in Position
      BY <1>1, <2>3 DEF SkipLag, Lagging
    <3> HIDE DEF Position
    <3>2. QED
      BY <1>2, <2>3, <3>1 DEF SkipLag
  <2>4. QED
    BY <2>1, <2>2, <2>3
<1>4. UNCHANGED <<devices, nextReg, nextMsg, net, fanin, rows, bus, stored, raced, pager>>
  BY DEF Subscribe, NextFrame, SkipLag, message
<1>5. QED
  BY <1>0, <1>3, <1>4 DEF TypeOK

LEMMA PageTypes ==
  ASSUME TypeOK, Page
  PROVE  TypeOK'
<1> DEFINE page == Newest(Older(Matching), Clamped)
           last == CHOOSE r \in page : \A q \in page : r.id <= q.id
<1>0. UNCHANGED <<Numbered, Sample, Row, Task, Message, Stored>>
  BY SetsKept DEF Page, message
<1>1. /\ pager \in [pc : {"idle", "more", "done"}, q : Query, cursor : 0 .. MaxMsgs,
                     items : SUBSET Numbered, history : SUBSET Numbered, early : BOOLEAN]
      /\ pager.q.kind \in Kinds /\ stream.on \in BOOLEAN
  BY DEF TypeOK, Query
<1>2. page \subseteq Matching /\ Matching \subseteq rows[pager.q.kind] /\ Matching \subseteq Row
  BY <1>1 DEF Newest, Older, Matching, TypeOK
<1>3. Numbers(page) \subseteq Numbered /\ Numbers(Matching) \subseteq Numbered
  BY <1>2 DEF Row, Numbers
<1>4. Saturated(page) => last.id \in 0 .. MaxMsgs
  <2> SUFFICES ASSUME page # {} PROVE last.id \in 0 .. MaxMsgs
    BY DEF Saturated
  <2> DEFINE ids == {r.id : r \in page}
  <2>1. \A r \in page : r.id \in 1 .. MaxMsgs
    BY <1>2 DEF Row, RowIds
  <2>2. ids \subseteq Nat /\ ids # {}
    BY <2>1
  <2>3. \E m \in ids : \A n \in ids : m <= n
    <3> HIDE DEF ids
    <3> QED
      BY <2>2, LeastExists
  <2>4. \E r \in page : \A q \in page : r.id <= q.id
    BY <2>3
  <2>5. last \in page
    <3> HIDE DEF page
    <3> QED
      BY <2>4
  <2>6. QED
    BY <2>1, <2>5, PlaneAssumptions
<1>5. pager' = [pager EXCEPT
        !.items = @ \cup Numbers(page),
        !.history = IF pager.pc = "idle" THEN Numbers(Matching) ELSE @,
        !.early = IF pager.pc = "idle" THEN ~ stream.on ELSE @,
        !.pc = IF Saturated(page) THEN "more" ELSE "done",
        !.cursor = IF Saturated(page) THEN last.id ELSE @]
  BY DEF Page
<1>6. pager' \in [pc : {"idle", "more", "done"}, q : Query, cursor : 0 .. MaxMsgs,
                  items : SUBSET Numbered, history : SUBSET Numbered, early : BOOLEAN]
  <2> HIDE DEF page, last
  <2> QED
    BY <1>1, <1>3, <1>4, <1>5
<1>7. UNCHANGED <<devices, nextReg, nextMsg, net, fanin, rows, bus, stored, raced, stream>>
  BY DEF Page, message
<1>8. QED
  BY <1>0, <1>6, <1>7 DEF TypeOK
-----------------------------------------------------------------------------
(* Provenance, one lemma for each actor.  Whoever publishes names the      *)
(* slug; nobody else changes what a message is tagged with.                *)

LEMMA DeviceProvenance ==
  ASSUME TypeOK, NEW own, Attributed(own), Owned(own), RegisterDevice \/ DeleteDevice
  PROVE  Attributed(own)' /\ Owned(own)'
<1>1. UNCHANGED <<nextMsg, net, fanin, bus, stored, raced, stream, pager>>
  BY DEF RegisterDevice, DeleteDevice, message, client
<1>2. Attributed(own)'
  BY <1>1 DEF Attributed, Tagged, Numbered
<1>3. CASE RegisterDevice
  <2> PICK id \in DeviceIds, zid \in Zids, org \in Orgs :
        /\ IsNextId(devices, id)
        /\ devices' = Inserted(devices, id, zid, org, nextReg)
    BY <1>3 DEF RegisterDevice
  <2>1. ~ Exists(devices, id)
    BY DEF IsNextId, DeviceIds
  <2>2. \A i \in DeviceIds \ {id} : devices'[i] = devices[i]
    BY DEF Inserted, TypeOK, Table
  <2>3. devices'[id].reg = nextReg
    BY DEF Inserted, TypeOK, Table
  <2>4. rows' = rows /\ Numbered' = Numbered
    BY <1>3 DEF RegisterDevice, message, Numbered
  <2>5. \A k \in Kinds : \A r \in rows[k] : r.device \in DeviceIds \ {id}
    BY <2>1 DEF Owned, Exists
  <2>6. \A k \in Kinds : fanin[k].pc = "insert" =>
          fanin[k].device \in DeviceIds /\ fanin[k].reg # nextReg
    BY PlaneAssumptions DEF TypeOK, Task
  <2>7. QED
    BY <1>1, <1>2, <2>2, <2>3, <2>4, <2>5, <2>6 DEF Owned, Exists
<1>4. CASE DeleteDevice
  <2> PICK id \in DeviceIds :
        /\ devices' = Removed(devices, id)
        /\ rows' = [k \in Kinds |-> {r \in rows[k] : r.device # id}]
    BY <1>4 DEF DeleteDevice
  <2>1. \A i \in DeviceIds \ {id} : devices'[i] = devices[i]
    BY DEF Removed, TypeOK, Table
  <2>2. ~ Exists(devices', id)
    BY DEF Removed, TypeOK, Table, Exists
  <2>3. Numbered' = Numbered
    BY <1>1 DEF Numbered
  <2>4. QED
    BY <1>1, <1>2, <2>1, <2>2, <2>3 DEF Owned, Exists
<1>5. QED
  BY <1>3, <1>4

LEMMA PublishProvenance ==
  ASSUME TypeOK, NEW own \in [Numbered -> Orgs], Attributed(own), Owned(own), Publish
  PROVE  Provenance'
<1> PICK k \in Kinds, zid \in Zids, org \in Orgs :
      net' = [net EXCEPT ![k] = Append(@, [n |-> nextMsg, zid |-> zid, slug |-> org])]
  BY DEF Publish
<1> DEFINE s == [n |-> nextMsg, zid |-> zid, slug |-> org]
<1> PICK new : new = [n \in Numbered' |-> IF n = nextMsg THEN org ELSE own[n]]
  OBVIOUS
<1>1. nextMsg \in Int /\ nextMsg' = nextMsg + 1 /\ 1 <= nextMsg
  BY PlaneAssumptions DEF Publish, TypeOK
<1>2. Numbered' = Numbered \cup {nextMsg} /\ nextMsg \notin Numbered
  BY <1>1 DEF Numbered
<1>3. new \in [Numbered' -> Orgs]
  BY <1>2
<1>4. \A n \in Numbered : n \in Numbered' /\ new[n] = own[n]
  BY <1>2
<1>5. new[nextMsg] = org
  BY <1>2
<1>6. \A n, o : Tagged(own, n, o) => n \in Numbered' /\ new[n] = o
  BY <1>4 DEF Tagged
<1>7. UNCHANGED <<devices, fanin, rows, bus, stored, raced, stream, pager>>
  BY DEF Publish, client
<1>8. \A j \in Kinds : \A i \in DOMAIN net'[j] :
        net'[j][i].n \in Numbered' /\ new[net'[j][i].n] = net'[j][i].slug
  <2> SUFFICES ASSUME NEW j \in Kinds, NEW i \in DOMAIN net'[j]
               PROVE  net'[j][i].n \in Numbered' /\ new[net'[j][i].n] = net'[j][i].slug
    OBVIOUS
  <2>1. CASE i \in DOMAIN net[j] /\ net'[j][i] = net[j][i]
    <3>1. Tagged(own, net[j][i].n, net[j][i].slug)
      BY <2>1 DEF Attributed
    <3>2. QED
      BY <1>6, <2>1, <3>1, ZenonT(40)
  <2>2. CASE net'[j][i] = s
    BY <1>2, <1>5, <2>2
  <2>3. CASE j # k
    BY <2>1, <2>3 DEF TypeOK
  <2>4. CASE j = k
    <3>1. net[k] \in Seq(Sample \cup {s}) /\ s \in Sample \cup {s}
      BY SeqMonotonic DEF TypeOK
    <3>2. net'[j] = Append(net[k], s)
      BY <2>4 DEF TypeOK
    <3>3. DOMAIN net'[j] = 1 .. Len(net[k]) + 1 /\ DOMAIN net[k] = 1 .. Len(net[k])
          /\ Len(net[k]) \in Nat
      BY <3>1, <3>2, AppendProperties, LenProperties
    <3>4. CASE i = Len(net[k]) + 1
      BY <2>2, <3>1, <3>2, <3>4, AppendProperties
    <3>5. CASE i \in 1 .. Len(net[k])
      BY <2>1, <2>4, <3>1, <3>2, <3>3, <3>5, AppendProperties
    <3>6. QED
      BY <3>3, <3>4, <3>5
  <2>5. QED
    BY <2>3, <2>4
<1>9. Attributed(new)'
  <2>1. \A j \in Kinds : fanin[j].pc # "recv" =>
          fanin[j].n \in Numbered' /\ new[fanin[j].n] = fanin[j].slug
    BY <1>6 DEF Attributed
  <2>2. \A j \in Kinds : \A t \in stored[j] : t.n \in Numbered' /\ new[t.n] = t.slug
    BY <1>6 DEF Attributed
  <2>3. \A i \in DOMAIN bus : bus[i].n \in Numbered' /\ new[bus[i].n] = bus[i].org
    BY <1>6 DEF Attributed
  <2>4. /\ \A n \in stream.frames : n \in Numbered' /\ new[n] = pager.q.org
        /\ \A n \in pager.items \ raced : n \in Numbered' /\ new[n] = pager.q.org
    BY <1>6 DEF Attributed
  <2>5. QED
    BY <1>7, <1>8, <2>1, <2>2, <2>3, <2>4 DEF Attributed, Tagged
<1>10. Owned(new)'
  BY <1>4, <1>7 DEF Owned
<1>11. QED
  BY <1>3, <1>9, <1>10 DEF Provenance

LEMMA ReceiveProvenance ==
  ASSUME TypeOK, NEW own, Attributed(own), Owned(own), NEW k \in Kinds, Receive(k)
  PROVE  Attributed(own)' /\ Owned(own)'
<1>0. /\ UNCHANGED <<devices, nextMsg, rows, bus, stored, raced, stream, pager>>
      /\ Numbered' = Numbered
  BY DEF Receive, client, Numbered
<1>1. net[k] \in Seq(Sample) /\ net[k] # <<>> /\ net' = [net EXCEPT ![k] = Tail(@)]
  BY DEF Receive, TypeOK
<1>2. /\ Head(net[k]) = net[k][1] /\ 1 \in DOMAIN net[k]
      /\ \A i \in DOMAIN Tail(net[k]) : i + 1 \in DOMAIN net[k] /\ Tail(net[k])[i] = net[k][i + 1]
  BY <1>1, HeadTailProperties, EmptySeq, LenProperties
<1>3. \A j \in Kinds : \A i \in DOMAIN net'[j] : Tagged(own, net'[j][i].n, net'[j][i].slug)
  BY <1>1, <1>2 DEF TypeOK, Attributed
<1>4. CASE UNCHANGED fanin
  BY <1>0, <1>3, <1>4 DEF Attributed, Owned, Tagged
<1>5. ASSUME NEW id \in DeviceIds, Known(Head(net[k]), id),
             fanin' = [fanin EXCEPT ![k] =
               [pc |-> "insert", n |-> Head(net[k]).n, slug |-> Head(net[k]).slug,
                device |-> id, reg |-> devices[id].reg]]
      PROVE  Attributed(own)' /\ Owned(own)'
  <2>1. Tagged(own, Head(net[k]).n, Head(net[k]).slug) /\ devices[id].org = Head(net[k]).slug
    BY <1>2, <1>5 DEF Attributed, Known
  <2>2. \A j \in Kinds : fanin'[j].pc # "recv" => Tagged(own, fanin'[j].n, fanin'[j].slug)
    BY <1>5, <2>1 DEF Attributed, TypeOK
  <2>3. \A j \in Kinds : LET f == fanin'[j] IN
          f.pc = "insert" /\ Exists(devices, f.device) /\ devices[f.device].reg = f.reg
          => devices[f.device].org = f.slug
    BY <1>5, <2>1 DEF Owned, TypeOK
  <2>4. Attributed(own)'
    BY <1>0, <1>3, <2>2 DEF Attributed, Tagged
  <2>5. Owned(own)'
    BY <1>0, <2>3 DEF Owned
  <2>6. QED
    BY <2>4, <2>5
<1>6. QED
  BY <1>4, <1>5 DEF Receive

LEMMA InsertProvenance ==
  ASSUME TypeOK, NEW own, Attributed(own), Owned(own), NEW k \in Kinds,
         Insert(k) \/ InsertFails(k)
  PROVE  Attributed(own)' /\ Owned(own)'
<1>0. UNCHANGED <<devices, nextMsg, net, bus, stream, pager>> /\ Numbered' = Numbered
  BY DEF Insert, InsertFails, client, Numbered
<1>1. CASE Insert(k)
  <2> DEFINE f == fanin[k]
             new == [device |-> f.device, reg |-> devices[f.device].reg, n |-> f.n,
                     slug |-> f.slug]
  <2> PICK id \in RowIds :
        /\ rows' = [rows EXCEPT ![k] =
              Pruned(@ \cup {[id |-> id, device |-> f.device, n |-> f.n]}, f.device)]
        /\ fanin' = [fanin EXCEPT ![k].pc = "publish"]
        /\ stored' = [stored EXCEPT ![k] = @ \cup {new}]
        /\ raced' = IF devices[f.device].reg = f.reg THEN raced ELSE raced \cup {f.n}
    BY <1>1 DEF Insert
  <2> DEFINE row == [id |-> id, device |-> f.device, n |-> f.n]
  <2>1. f.pc = "insert" /\ Exists(devices, f.device) /\ Tagged(own, f.n, f.slug)
    BY <1>1 DEF Insert, Attributed
  <2>2. rows'[k] \subseteq rows[k] \cup {row}
    BY DEF Pruned, Newest, TypeOK
  <2>3. raced \subseteq raced'
    OBVIOUS
  <2>4. f.n \notin raced' => devices[f.device].org = own[f.n]
    BY <2>1 DEF Owned, Tagged
  <2>5. \A j \in Kinds : \A r \in rows'[j] :
          /\ Exists(devices, r.device) /\ r.n \in Numbered
          /\ r.n \notin raced' => devices[r.device].org = own[r.n]
    <3> SUFFICES ASSUME NEW j \in Kinds, NEW r \in rows'[j]
                 PROVE  /\ Exists(devices, r.device) /\ r.n \in Numbered
                        /\ r.n \notin raced' => devices[r.device].org = own[r.n]
      OBVIOUS
    <3>1. CASE r \in rows[j]
      BY <2>3, <3>1 DEF Owned
    <3>2. CASE r = row
      BY <2>1, <2>4, <3>2 DEF Tagged
    <3>3. QED
      BY <2>2, <3>1, <3>2 DEF TypeOK
  <2>6. \A j \in Kinds : /\ fanin'[j].n = fanin[j].n /\ fanin'[j].slug = fanin[j].slug
                          /\ fanin'[j].device = fanin[j].device /\ fanin'[j].reg = fanin[j].reg
                          /\ (fanin'[j].pc # "recv" => fanin[j].pc # "recv")
                          /\ (fanin'[j].pc = "insert" => fanin[j].pc = "insert")
    <3> TAKE j \in Kinds
    <3>1. fanin[j] \in Task
      BY DEF TypeOK
    <3>2. CASE j = k
      <4>1. fanin'[j] = [fanin[j] EXCEPT !.pc = "publish"]
        BY <3>2 DEF TypeOK
      <4>2. QED
        BY <2>1, <3>1, <3>2, <4>1 DEF Task
    <3>3. CASE j # k
      BY <3>3 DEF TypeOK
    <3>4. QED
      BY <3>2, <3>3
  <2>7. \A j \in Kinds : \A t \in stored'[j] : Tagged(own, t.n, t.slug)
    <3> SUFFICES ASSUME NEW j \in Kinds, NEW t \in stored'[j] PROVE Tagged(own, t.n, t.slug)
      OBVIOUS
    <3>1. CASE t \in stored[j]
      BY <3>1 DEF Attributed
    <3>2. CASE t = new
      BY <2>1, <3>2
    <3>3. QED
      BY <3>1, <3>2 DEF TypeOK
  <2>8. \A j \in Kinds : fanin'[j].pc # "recv" => Tagged(own, fanin'[j].n, fanin'[j].slug)
    <3> TAKE j \in Kinds
    <3>1. fanin[j].pc # "recv" => Tagged(own, fanin[j].n, fanin[j].slug)
      BY DEF Attributed
    <3>2. QED
      BY <2>6, <3>1
  <2>9. \A j \in Kinds :
          /\ fanin'[j].pc = "insert" /\ Exists(devices, fanin'[j].device)
          /\ devices[fanin'[j].device].reg = fanin'[j].reg
          => devices[fanin'[j].device].org = fanin'[j].slug
    BY <2>6 DEF Owned
  <2>10. \A n \in pager.items \ raced' : Tagged(own, n, pager.q.org)
    BY <2>3 DEF Attributed
  <2> HIDE DEF f, new, row
  <2>11. Attributed(own)'
    BY <1>0, <2>7, <2>8, <2>10 DEF Attributed, Tagged
  <2>12. Owned(own)'
    BY <1>0, <2>5, <2>9 DEF Owned
  <2>13. QED
    BY <2>11, <2>12
<1>2. CASE InsertFails(k)
  <2>1. UNCHANGED <<rows, stored, raced>> /\ fanin' = [fanin EXCEPT ![k] = Idle]
    BY <1>2 DEF InsertFails
  <2>2. \A j \in Kinds : fanin'[j].pc # "recv" => fanin'[j] = fanin[j]
    BY <2>1 DEF TypeOK, Idle
  <2>3. Attributed(own)'
    BY <1>0, <2>1, <2>2 DEF Attributed, Tagged
  <2>4. Owned(own)'
    BY <1>0, <2>1, <2>2 DEF Owned
  <2>5. QED
    BY <2>3, <2>4
<1>3. QED
  BY <1>1, <1>2

LEMMA BroadcastProvenance ==
  ASSUME TypeOK, NEW own, Attributed(own), Owned(own), NEW k \in Kinds, Broadcast(k)
  PROVE  Attributed(own)' /\ Owned(own)'
<1>0. UNCHANGED <<devices, nextMsg, net, rows, stored, raced, stream, pager>> /\ Numbered' = Numbered
  BY DEF Broadcast, client, Numbered
<1> DEFINE m == [kind |-> k, org |-> fanin[k].slug, device |-> fanin[k].device, n |-> fanin[k].n]
<1>1. bus' = Append(bus, m) /\ fanin' = [fanin EXCEPT ![k] = Idle] /\ Tagged(own, m.n, m.org)
  BY DEF Broadcast, Attributed
<1>2. m \in Message /\ bus \in Seq(Message)
  BY DEF TypeOK, Task, Message, Broadcast
<1>3. \A i \in DOMAIN bus' : bus'[i] = m \/ (i \in DOMAIN bus /\ bus'[i] = bus[i])
  <2> TAKE i \in DOMAIN bus'
  <2>1. DOMAIN bus' = 1 .. Len(bus) + 1 /\ DOMAIN bus = 1 .. Len(bus) /\ Len(bus) \in Nat
    BY <1>1, <1>2, AppendProperties, LenProperties
  <2> HIDE DEF m
  <2>2. CASE i = Len(bus) + 1
    BY <1>1, <1>2, <2>2, AppendProperties
  <2>3. CASE i \in 1 .. Len(bus)
    BY <1>1, <1>2, <2>1, <2>3, AppendProperties
  <2>4. QED
    BY <2>1, <2>2, <2>3
<1>4. \A i \in DOMAIN bus' : Tagged(own, bus'[i].n, bus'[i].org)
  <2> HIDE DEF m
  <2> QED
    BY <1>1, <1>3 DEF Attributed
<1>5. \A j \in Kinds : fanin'[j].pc # "recv" => fanin'[j] = fanin[j]
  BY <1>1 DEF TypeOK, Idle
<1>6. Attributed(own)'
  BY <1>0, <1>4, <1>5 DEF Attributed, Tagged
<1>7. Owned(own)'
  BY <1>0, <1>5 DEF Owned
<1>8. QED
  BY <1>6, <1>7

LEMMA StreamProvenance ==
  ASSUME TypeOK, NEW own, Attributed(own), Owned(own), Subscribe \/ NextFrame \/ SkipLag
  PROVE  Attributed(own)' /\ Owned(own)'
<1>0. UNCHANGED <<devices, nextMsg, net, fanin, rows, bus, stored, raced, pager>>
  BY DEF Subscribe, NextFrame, SkipLag, message
<1>1. \A n \in stream'.frames : Tagged(own, n, pager.q.org)
  <2>1. CASE Subscribe \/ SkipLag
    <3>1. stream'.frames = stream.frames
      BY <2>1 DEF TypeOK, Subscribe, SkipLag
    <3>2. QED
      BY <3>1 DEF Attributed
  <2>2. CASE NextFrame
    <3> DEFINE m == bus[stream.pos + 1]
    <3>0. bus \in Seq(Message) /\ stream.pos \in 0 .. Len(bus)
      BY DEF TypeOK
    <3>1. stream.pos + 1 \in DOMAIN bus
      BY <2>2, <3>0, LenProperties DEF NextFrame
    <3>2. Tagged(own, m.n, m.org)
      BY <3>1 DEF Attributed
    <3>3. stream'.frames = IF Wanted(m) THEN stream.frames \cup {m.n} ELSE stream.frames
      BY <2>2 DEF TypeOK, NextFrame
    <3>4. Wanted(m) => m.org = pager.q.org
      BY DEF Wanted
    <3> HIDE DEF m
    <3>5. QED
      BY <3>2, <3>3, <3>4 DEF Attributed
  <2>3. QED
    BY <2>1, <2>2
<1>2. Attributed(own)'
  BY <1>0, <1>1 DEF Attributed, Tagged, Numbered
<1>3. Owned(own)'
  BY <1>0 DEF Owned, Numbered
<1>4. QED
  BY <1>2, <1>3

LEMMA PageProvenance ==
  ASSUME TypeOK, NEW own, Attributed(own), Owned(own), Page
  PROVE  Attributed(own)' /\ Owned(own)'
<1> DEFINE page == Newest(Older(Matching), Clamped)
<1>0. UNCHANGED <<devices, nextMsg, net, fanin, rows, bus, stored, raced, stream>>
  BY DEF Page, message
<1>1. pager'.items = pager.items \cup Numbers(page) /\ pager'.q = pager.q
  BY DEF Page, TypeOK
<1>2. \A r \in page : r \in rows[pager.q.kind] /\ devices[r.device].org = pager.q.org
  BY DEF Newest, Older, Matching, InOrg
<1>3. \A r \in page : r.n \notin raced => Tagged(own, r.n, pager.q.org)
  BY <1>2 DEF TypeOK, Query, Owned, Tagged
<1>4. \A n \in pager'.items \ raced : Tagged(own, n, pager.q.org)
  <2> HIDE DEF page
  <2> QED
    BY <1>1, <1>3 DEF Numbers, Attributed
<1>5. Attributed(own)'
  BY <1>0, <1>1, <1>4 DEF Attributed, Tagged, Numbered
<1>6. Owned(own)'
  BY <1>0 DEF Owned, Numbered
<1>7. QED
  BY <1>5, <1>6

-----------------------------------------------------------------------------
LEMMA StepProvenance ==
  ASSUME TypeOK, Provenance, [Next]_vars
  PROVE  Provenance'
<1> PICK own \in [Numbered -> Orgs] : Attributed(own) /\ Owned(own)
  BY DEF Provenance
<1>1. ASSUME Attributed(own)', Owned(own)', UNCHANGED nextMsg
      PROVE  Provenance'
  BY <1>1 DEF Provenance, Numbered
<1>2. CASE RegisterDevice \/ DeleteDevice
  BY <1>1, <1>2, DeviceProvenance DEF RegisterDevice, DeleteDevice
<1>3. CASE Publish
  BY <1>3, PublishProvenance
<1>4. ASSUME NEW k \in Kinds, Receive(k) PROVE Provenance'
  BY <1>1, <1>4, ReceiveProvenance DEF Receive
<1>5. ASSUME NEW k \in Kinds, Insert(k) \/ InsertFails(k) PROVE Provenance'
  BY <1>1, <1>5, InsertProvenance DEF Insert, InsertFails
<1>6. ASSUME NEW k \in Kinds, Broadcast(k) PROVE Provenance'
  BY <1>1, <1>6, BroadcastProvenance DEF Broadcast
<1>7. CASE Subscribe \/ NextFrame \/ SkipLag
  BY <1>1, <1>7, StreamProvenance DEF Subscribe, NextFrame, SkipLag
<1>8. CASE Page
  BY <1>1, <1>8, PageProvenance DEF Page
<1>9. CASE UNCHANGED vars
  BY <1>1, <1>9 DEF vars, message, client, Attributed, Owned, Tagged, Numbered
<1>10. QED
  BY <1>2, <1>3, <1>4, <1>5, <1>6, <1>7, <1>8, <1>9 DEF Next

LEMMA StepTypes ==
  ASSUME TypeOK, [Next]_vars
  PROVE  TypeOK'
BY TypesKept, DeviceTypes, PublishTypes, ReceiveTypes, InsertTypes, BroadcastTypes, StreamTypes,
   PageTypes DEF Next

LEMMA Inductive == Spec => []IInv
<1>1. IInv /\ [Next]_vars => IInv'
  BY StepTypes, StepProvenance DEF IInv
<1>2. QED
  BY Initially, <1>1, PTL DEF Spec

(* The variables of the message plane keep their types: among other things *)
(* no two rows of a table have one id, although ids are reused.            *)
THEOREM MessageTyping == Spec => []TypeOK
<1>1. IInv => TypeOK
  BY DEF IInv
<1>2. QED
  BY Inductive, <1>1, PTL

(* handle_sample and both readers keep organisations apart: what a client  *)
(* streams or pages through was published under its own organisation,      *)
(* unless a device took the row id of another while a message was stored.  *)
THEOREM OrganisationsApart == Spec => []StaysInOrg
<1>1. IInv => StaysInOrg
  <2> SUFFICES ASSUME IInv PROVE StaysInOrg
    OBVIOUS
  <2>1. PICK own : Attributed(own)
    BY DEF IInv, Provenance
  <2>2. QED
    BY <2>1 DEF Attributed, Tagged, StaysInOrg
<1>2. QED
  BY Inductive, <1>1, PTL

-----------------------------------------------------------------------------
(* Counting: the newest rows, by their ids and by their numbers.           *)

Newer(set, n) == {m \in set : m > n}

(* The k largest numbers of a set. *)
Largest(set, k) == {n \in set : Cardinality(Newer(set, n)) < k}

(* The ids of these rows are distinct, and in the order of their numbers. *)
SameOrder(set) ==
  /\ \A r \in set : r.id \in Nat /\ r.n \in Numbered
  /\ \A r, q \in set : r.id = q.id => r = q
  /\ \A r, q \in set : r.id < q.id => r.n < q.n

LEMMA NumberedFinite ==
  ASSUME TypeOK, NEW S \in SUBSET Numbered
  PROVE  IsFiniteSet(S) /\ Cardinality(S) \in Nat
<1>1. nextMsg - 1 \in Int
  BY PlaneAssumptions DEF TypeOK
<1>2. IsFiniteSet(Numbered)
  BY <1>1, FS_Interval DEF Numbered
<1>3. QED
  BY <1>2, FS_Subset, FS_CardinalityType

LEMMA NumberedNat == TypeOK => Numbered \subseteq Nat
  BY PlaneAssumptions DEF TypeOK, Numbered

(* As many rows are newer by their ids as by their numbers. *)
LEMMA CountByNumber ==
  ASSUME TypeOK, NEW set, SameOrder(set), NEW r \in set
  PROVE  /\ IsFiniteSet({q \in set : q.id > r.id})
         /\ Cardinality({q \in set : q.id > r.id}) = Cardinality(Newer(Numbers(set), r.n))
<1> DEFINE S == {q \in set : q.id > r.id}
           T == Newer(Numbers(set), r.n)
           f == [q \in S |-> q.n]
<1>1. \A q \in set : q.id \in Nat /\ q.n \in Nat
  BY NumberedNat DEF SameOrder
<1>2. \A q \in set : q.id > r.id <=> q.n > r.n
  BY <1>1 DEF SameOrder
<1>3. T = {q.n : q \in S}
  BY <1>2 DEF Numbers, Newer
<1>4. \A p, q \in S : p.n = q.n => p = q
  <2>1. \A p, q \in set : p.id < q.id \/ q.id < p.id \/ p.id = q.id
    BY <1>1
  <2>2. QED
    BY <1>1, <2>1 DEF SameOrder
<1>5. f \in Bijection(S, T)
  <2>1. f \in [S -> T]
    BY <1>3
  <2>2. \A p, q \in S : f[p] = f[q] => p = q
    BY <1>4
  <2>3. \A t \in T : \E q \in S : f[q] = t
    BY <1>3
  <2>4. QED
    BY <2>1, <2>2, <2>3 DEF Bijection, Injection, Surjection, IsInjective
<1>6. T \in SUBSET Numbered
  BY <1>3 DEF SameOrder
<1>7. IsFiniteSet(T)
  BY <1>6, NumberedFinite
<1>8. IsFiniteSet(S)
  <2>1. f \in Injection(S, T)
    BY <1>5 DEF Bijection
  <2>2. QED
    BY <1>7, <2>1, FS_Injection
<1>9. ExistsBijection(S, T)
  BY <1>5 DEF ExistsBijection
<1>10. QED
  BY <1>8, <1>9, FS_Bijection

(* The newest rows have the largest numbers. *)
LEMMA NewestAreLargest ==
  ASSUME TypeOK, NEW set, SameOrder(set), NEW k \in Nat
  PROVE  Numbers(Newest(set, k)) = Largest(Numbers(set), k)
<1>1. \A r \in set : Cardinality({q \in set : q.id > r.id}) = Cardinality(Newer(Numbers(set), r.n))
  BY CountByNumber
<1>2. Numbers(Newest(set, k)) \subseteq Largest(Numbers(set), k)
  BY <1>1 DEF Newest, Numbers, Largest
<1>3. Largest(Numbers(set), k) \subseteq Numbers(Newest(set, k))
  BY <1>1 DEF Newest, Numbers, Largest
<1>4. QED
  BY <1>2, <1>3

(* The largest numbers after one that is larger than all: those of the     *)
(* ones that were kept.                                                    *)
LEMMA LargestGrows ==
  ASSUME TypeOK, NEW all \in SUBSET Numbered, NEW n \in Numbered, \A m \in all : m < n,
         NEW k \in Nat \ {0}
  PROVE  Largest(Largest(all, k) \cup {n}, k) = Largest(all \cup {n}, k)
<1> DEFINE kept == Largest(all, k)
<1>1. kept \subseteq all /\ all \cup {n} \in SUBSET Numbered /\ all \cup {n} \subseteq Nat
  BY NumberedNat DEF Largest
<1>2. \A S \in SUBSET (all \cup {n}) : IsFiniteSet(S) /\ Cardinality(S) \in Nat
  BY <1>1, NumberedFinite
<1>3. ASSUME NEW m \in all \cup {n}, Cardinality(Newer(all \cup {n}, m)) < k
      PROVE  m \in kept \cup {n} /\ Cardinality(Newer(kept \cup {n}, m)) < k
  <2>1. /\ Newer(all, m) \subseteq Newer(all \cup {n}, m)
        /\ Newer(kept \cup {n}, m) \subseteq Newer(all \cup {n}, m)
        /\ Newer(all \cup {n}, m) \in SUBSET (all \cup {n})
    BY <1>1 DEF Newer
  <2>2. /\ Cardinality(Newer(all, m)) <= Cardinality(Newer(all \cup {n}, m))
        /\ Cardinality(Newer(kept \cup {n}, m)) <= Cardinality(Newer(all \cup {n}, m))
    BY <1>2, <2>1, FS_Subset
  <2>3. /\ Cardinality(Newer(all, m)) \in Nat /\ Cardinality(Newer(kept \cup {n}, m)) \in Nat
        /\ Cardinality(Newer(all \cup {n}, m)) \in Nat
    BY <1>1, <1>2, <2>1 DEF Newer
  <2>4. Cardinality(Newer(all, m)) < k /\ Cardinality(Newer(kept \cup {n}, m)) < k
    BY <1>3, <2>2, <2>3
  <2>5. QED
    BY <2>4 DEF Largest
<1>4. ASSUME NEW m \in kept \cup {n}, Cardinality(Newer(kept \cup {n}, m)) < k
      PROVE  Cardinality(Newer(all \cup {n}, m)) < k
  <2>1. CASE m = n
    <3>1. Newer(all \cup {n}, m) = Newer(kept \cup {n}, m)
      BY <1>1, <2>1 DEF Newer
    <3>2. QED
      BY <1>4, <3>1
  <2>2. CASE m \in kept
    <3>1. Cardinality(Newer(all, m)) < k /\ m \in all
      BY <2>2 DEF Largest
    <3>2. ASSUME NEW l \in all, l > m PROVE l \in kept
      <4>1. Newer(all, l) \subseteq Newer(all, m) /\ Newer(all, m) \in SUBSET (all \cup {n})
            /\ Newer(all, l) \in SUBSET (all \cup {n})
        BY <1>1, <3>1, <3>2 DEF Newer
      <4>2. /\ Cardinality(Newer(all, l)) <= Cardinality(Newer(all, m))
            /\ Cardinality(Newer(all, l)) \in Nat /\ Cardinality(Newer(all, m)) \in Nat
        BY <1>2, <4>1, FS_Subset
      <4>3. QED
        BY <3>1, <4>2 DEF Largest
    <3>3. Newer(all \cup {n}, m) = Newer(kept \cup {n}, m)
      BY <1>1, <3>2 DEF Newer
    <3>4. QED
      BY <1>4, <3>3
  <2>3. QED
    BY <2>1, <2>2
<1>5. Largest(kept \cup {n}, k) = {m \in kept \cup {n} : Cardinality(Newer(kept \cup {n}, m)) < k}
  BY DEF Largest
<1>6. Largest(all \cup {n}, k) = {m \in all \cup {n} : Cardinality(Newer(all \cup {n}, m)) < k}
  BY DEF Largest
<1>7. QED
  <2> HIDE DEF kept
  <2>1. Largest(kept \cup {n}, k) \subseteq Largest(all \cup {n}, k)
    BY <1>1, <1>4, <1>5, <1>6
  <2>2. Largest(all \cup {n}, k) \subseteq Largest(kept \cup {n}, k)
    BY <1>3, <1>5, <1>6
  <2>3. QED
    BY <2>1, <2>2 DEF kept

-----------------------------------------------------------------------------
(* Rows and messages in order.                                             *)

(* The messages of a kind that were ever stored. *)
StoredNumbers(k) == {s.n : s \in stored[k]}

(* A kind handles and stores its messages in the order of their numbers. *)
InOrder(k) ==
  /\ \A i, j \in DOMAIN net[k] : i < j => net[k][i].n < net[k][j].n
  /\ \A i \in DOMAIN net[k] :
       /\ fanin[k].pc # "recv" => fanin[k].n < net[k][i].n
       /\ \A n \in StoredNumbers(k) : n < net[k][i].n
  /\ fanin[k].pc = "insert" => \A n \in StoredNumbers(k) : n < fanin[k].n

(* Rows are ordered by their ids as by their numbers, were stored, and     *)
(* belong to devices.                                                      *)
RowsInOrder(k) ==
  /\ \A r, q \in rows[k] : r.id < q.id => r.n < q.n
  /\ \A r \in rows[k] : r.n \in StoredNumbers(k) /\ Exists(devices, r.device)

LEMMA OrderInit == Init => \A k \in Kinds : InOrder(k) /\ RowsInOrder(k)
  BY DEF Init, InOrder, RowsInOrder, StoredNumbers, Idle

(* The row that an insert adds is the newest of its table. *)
LEMMA InsertEffect ==
  ASSUME TypeOK, NEW k \in Kinds, InOrder(k), RowsInOrder(k), Insert(k)
  PROVE  \E id \in RowIds, row \in Row :
           /\ row = [id |-> id, device |-> fanin[k].device, n |-> fanin[k].n]
           /\ row.id = id /\ row.device = fanin[k].device /\ row.n = fanin[k].n
           /\ fanin[k].pc = "insert" /\ Exists(devices, fanin[k].device)
           /\ \A r \in rows[k] : r.id < id /\ r.n < row.n
           /\ \A n \in StoredNumbers(k) : n < row.n
           /\ rows'[k] = Pruned(rows[k] \cup {row}, row.device)
           /\ rows'[k] \subseteq rows[k] \cup {row}
           /\ StoredNumbers(k)' = StoredNumbers(k) \cup {row.n}
           /\ stored'[k] = stored[k] \cup
                {[device |-> row.device, reg |-> devices[row.device].reg, n |-> row.n,
                  slug |-> fanin[k].slug]}
           /\ fanin'[k] = [fanin[k] EXCEPT !.pc = "publish"]
           /\ fanin'[k].pc = "publish" /\ fanin'[k].n = row.n /\ fanin'[k].device = row.device
           /\ raced \subseteq raced'
           /\ \A j \in Kinds \ {k} :
                rows'[j] = rows[j] /\ fanin'[j] = fanin[j] /\ stored'[j] = stored[j]
<1> PICK f : f = fanin[k]
  OBVIOUS
<1>1. PICK id \in RowIds :
        /\ IsNextRowId(rows[k], id)
        /\ rows' = [rows EXCEPT ![k] =
              Pruned(@ \cup {[id |-> id, device |-> f.device, n |-> f.n]}, f.device)]
        /\ fanin' = [fanin EXCEPT ![k].pc = "publish"]
        /\ stored' = [stored EXCEPT ![k] =
              @ \cup {[device |-> f.device, reg |-> devices[f.device].reg, n |-> f.n,
                       slug |-> f.slug]}]
        /\ raced' = IF devices[f.device].reg = f.reg THEN raced ELSE raced \cup {f.n}
  BY DEF Insert
<1>2. PICK row : row = [id |-> id, device |-> f.device, n |-> f.n]
  OBVIOUS
<1>3. row.id = id /\ row.device = f.device /\ row.n = f.n
  BY <1>2
<1>4. /\ f.pc = "insert" /\ Exists(devices, f.device) /\ f \in Task
      /\ f.n \in Numbered /\ f.device \in DeviceIds
  BY DEF Insert, TypeOK, Task
<1>5. row \in Row
  BY <1>2, <1>4 DEF Row
<1>6. \A n \in StoredNumbers(k) : n < row.n
  BY <1>3, <1>4 DEF InOrder
<1>7. \A r \in rows[k] : r.id < id /\ r.n < row.n
  BY <1>1, <1>6 DEF RowsInOrder, IsNextRowId
<1>8. rows'[k] = Pruned(rows[k] \cup {row}, row.device)
  BY <1>1, <1>2, <1>3 DEF TypeOK
<1>9. rows'[k] \subseteq rows[k] \cup {row}
  BY <1>8 DEF Pruned, Newest
<1>10. PICK new : new = [device |-> f.device, reg |-> devices[f.device].reg, n |-> f.n,
                         slug |-> f.slug]
  OBVIOUS
<1>11. new.n = f.n /\ stored'[k] = stored[k] \cup {new}
  BY <1>1, <1>10 DEF TypeOK
<1>12. StoredNumbers(k)' = StoredNumbers(k) \cup {row.n}
  BY <1>3, <1>11 DEF StoredNumbers
<1>13. fanin'[k] = [f EXCEPT !.pc = "publish"]
  BY <1>1 DEF TypeOK
<1>14. fanin'[k].pc = "publish" /\ fanin'[k].n = f.n /\ fanin'[k].device = f.device
  BY <1>4, <1>13 DEF Task
<1>15. \A j \in Kinds \ {k} :
         rows'[j] = rows[j] /\ fanin'[j] = fanin[j] /\ stored'[j] = stored[j]
  BY <1>1 DEF TypeOK
<1>16. raced \subseteq raced'
  BY <1>1
<1>17. QED
  BY <1>2, <1>3, <1>4, <1>5, <1>6, <1>7, <1>8, <1>9, <1>10, <1>11, <1>12, <1>13, <1>14, <1>15,
     <1>16

LEMMA StoredNumbered ==
  ASSUME TypeOK, NEW k \in Kinds
  PROVE  StoredNumbers(k) \subseteq Numbered
BY DEF StoredNumbers, TypeOK, Stored

(* A step that leaves the messages on their way, and takes rows at most. *)
LEMMA OrderFrame ==
  ASSUME NEW k \in Kinds, InOrder(k), RowsInOrder(k),
         UNCHANGED <<net, fanin, stored>>, rows'[k] \subseteq rows[k],
         \A r \in rows'[k] : Exists(devices, r.device) => Exists(devices', r.device)
  PROVE  InOrder(k)' /\ RowsInOrder(k)'
<1>1. InOrder(k)'
  BY DEF InOrder, StoredNumbers
<1>2. RowsInOrder(k)'
  BY DEF RowsInOrder, StoredNumbers
<1>3. QED
  BY <1>1, <1>2

LEMMA OrderStep ==
  ASSUME TypeOK, \A k \in Kinds : InOrder(k) /\ RowsInOrder(k), [Next]_vars
  PROVE  \A k \in Kinds : InOrder(k)' /\ RowsInOrder(k)'
<1> SUFFICES ASSUME NEW k \in Kinds PROVE InOrder(k)' /\ RowsInOrder(k)'
  OBVIOUS
<1>0. InOrder(k) /\ RowsInOrder(k)
  OBVIOUS
<1>1. CASE RegisterDevice
  <2> PICK id \in DeviceIds, zid \in Zids, org \in Orgs :
        devices' = Inserted(devices, id, zid, org, nextReg)
    BY <1>1 DEF RegisterDevice
  <2>1. devices'[id] \in Device
    BY PlaneAssumptions DEF Inserted, TypeOK, Table, Device
  <2>2. \A i \in DeviceIds : Exists(devices, i) => Exists(devices', i)
    BY <2>1, NoDeviceAssumption DEF Inserted, TypeOK, Table, Exists
  <2>3. \A i : Exists(devices, i) => i \in DeviceIds
    BY DEF Exists
  <2>4. UNCHANGED <<net, fanin, stored, rows>>
    BY <1>1 DEF RegisterDevice, message
  <2>5. QED
    BY <2>2, <2>3, <2>4, OrderFrame
<1>2. CASE DeleteDevice
  <2> PICK id \in DeviceIds :
        /\ devices' = Removed(devices, id)
        /\ rows' = [j \in Kinds |-> {r \in rows[j] : r.device # id}]
    BY <1>2 DEF DeleteDevice
  <2>1. \A i : i # id /\ Exists(devices, i) => Exists(devices', i)
    BY DEF Removed, TypeOK, Table, Exists
  <2>2. UNCHANGED <<net, fanin, stored>> /\ rows'[k] = {r \in rows[k] : r.device # id}
    BY <1>2 DEF DeleteDevice
  <2>3. QED
    BY <2>1, <2>2, OrderFrame
<1>3. CASE Publish
  <2>1. PICK j \in Kinds, zid \in Zids, org \in Orgs :
        net' = [net EXCEPT ![j] = Append(@, [n |-> nextMsg, zid |-> zid, slug |-> org])]
    BY <1>3 DEF Publish
  <2>2. UNCHANGED <<devices, fanin, stored, rows>> /\ nextMsg \in Nat
    BY <1>3, PlaneAssumptions DEF Publish, TypeOK
  <2>3. PICK s : s = [n |-> nextMsg, zid |-> zid, slug |-> org]
    OBVIOUS
  <2>4. RowsInOrder(k)'
    BY <2>2 DEF RowsInOrder, StoredNumbers
  <2>5. CASE j # k
    <3>1. net'[k] = net[k]
      BY <2>1, <2>5 DEF TypeOK
    <3>2. InOrder(k)'
      BY <2>2, <3>1 DEF InOrder, StoredNumbers
    <3>3. QED
      BY <2>4, <3>2
  <2>6. CASE j = k
    <3>1. net[k] \in Seq(Sample \cup {s}) /\ net'[k] = Append(net[k], s)
      BY <2>1, <2>3, <2>6, SeqMonotonic DEF TypeOK
    <3>2. /\ DOMAIN net[k] = 1 .. Len(net[k]) /\ Len(net[k]) \in Nat
          /\ DOMAIN net'[k] = 1 .. Len(net[k]) + 1
          /\ net'[k][Len(net[k]) + 1] = s
          /\ \A i \in 1 .. Len(net[k]) : net'[k][i] = net[k][i]
      BY <3>1, AppendProperties, LenProperties
    <3>3. Numbered \subseteq Nat /\ \A n \in Numbered : n < nextMsg
      BY <2>2 DEF Numbered
    <3>4. \A i \in DOMAIN net[k] : net[k][i].n \in Numbered
      <4>1. net[k] \in Seq(Sample) /\ \A s1 \in Sample : s1.n \in Numbered
        BY DEF TypeOK, Sample
      <4>2. \A i \in 1 .. Len(net[k]) : net[k][i] \in Sample
        BY <4>1, ElementOfSeq
      <4>3. QED
        BY <3>2, <4>1, <4>2
    <3>5. fanin[k].pc # "recv" => fanin[k].n \in Numbered
      BY DEF TypeOK, Task
    <3>6. s.n = nextMsg
      BY <2>3
    <3>7. ASSUME NEW i \in DOMAIN net'[k]
          PROVE  \/ i \in DOMAIN net[k] /\ net'[k][i] = net[k][i]
                 \/ i = Len(net[k]) + 1 /\ net'[k][i].n = nextMsg
      BY <3>2, <3>6
    <3>8. ASSUME NEW i \in DOMAIN net'[k], NEW h \in DOMAIN net'[k], i < h
          PROVE  net'[k][i].n < net'[k][h].n
      <4>1. i \in DOMAIN net[k] /\ net'[k][i] = net[k][i]
        BY <3>2, <3>8
      <4>2. CASE h \in DOMAIN net[k]
        BY <3>2, <3>8, <4>1, <4>2 DEF InOrder
      <4>3. CASE h = Len(net[k]) + 1
        BY <3>2, <3>3, <3>4, <3>6, <4>1, <4>3
      <4>4. QED
        BY <3>2, <4>2, <4>3
    <3>9. \A i \in DOMAIN net'[k] :
            /\ fanin[k].pc # "recv" => fanin[k].n < net'[k][i].n
            /\ \A n \in StoredNumbers(k) : n < net'[k][i].n
      BY <3>3, <3>5, <3>7, StoredNumbered DEF InOrder
    <3>10. InOrder(k)'
      BY <2>2, <3>8, <3>9 DEF InOrder, StoredNumbers
    <3>11. QED
      BY <2>4, <3>10
  <2>7. QED
    BY <2>5, <2>6
<1>4. ASSUME NEW j \in Kinds, Receive(j) PROVE InOrder(k)' /\ RowsInOrder(k)'
  <2>1. UNCHANGED <<devices, rows, stored>>
    BY <1>4 DEF Receive
  <2>2. RowsInOrder(k)'
    BY <2>1 DEF RowsInOrder, StoredNumbers
  <2>3. CASE j # k
    <3>1. net'[k] = net[k] /\ fanin'[k] = fanin[k]
      BY <1>4, <2>3 DEF Receive, TypeOK
    <3>2. InOrder(k)'
      BY <2>1, <3>1 DEF InOrder, StoredNumbers
    <3>3. QED
      BY <2>2, <3>2
  <2>4. CASE j = k
    <3>1. /\ net[k] \in Seq(Sample) /\ net[k] # <<>> /\ net'[k] = Tail(net[k])
          /\ fanin[k].pc = "recv"
      BY <1>4, <2>4 DEF Receive, TypeOK
    <3>2. /\ Head(net[k]) = net[k][1] /\ 1 \in DOMAIN net[k]
          /\ DOMAIN net[k] = 1 .. Len(net[k]) /\ Len(net[k]) \in Nat
          /\ \A i \in DOMAIN net'[k] :
               i \in Nat /\ i >= 1 /\ i + 1 \in DOMAIN net[k] /\ net'[k][i] = net[k][i + 1]
      BY <3>1, HeadTailProperties, EmptySeq, LenProperties
    <3>3. fanin'[k].pc # "recv" =>
            fanin'[k].pc = "insert" /\ fanin'[k].n = net[k][1].n
      BY <1>4, <2>4, <3>1, <3>2 DEF Receive, TypeOK
    <3>4. \A i, h \in DOMAIN net'[k] : i < h => net'[k][i].n < net'[k][h].n
      BY <3>2 DEF InOrder
    <3>5. \A i \in DOMAIN net'[k] :
            /\ fanin'[k].pc # "recv" => fanin'[k].n < net'[k][i].n
            /\ \A n \in StoredNumbers(k) : n < net'[k][i].n
      BY <3>2, <3>3 DEF InOrder
    <3>6. fanin'[k].pc = "insert" => \A n \in StoredNumbers(k) : n < fanin'[k].n
      BY <3>2, <3>3 DEF InOrder
    <3>7. InOrder(k)'
      BY <2>1, <3>4, <3>5, <3>6 DEF InOrder, StoredNumbers
    <3>8. QED
      BY <2>2, <3>7
  <2>5. QED
    BY <2>3, <2>4
<1>5. ASSUME NEW j \in Kinds, Insert(j) PROVE InOrder(k)' /\ RowsInOrder(k)'
  <2>0. PICK id \in RowIds, row \in Row :
          /\ row.id = id /\ row.device = fanin[j].device /\ row.n = fanin[j].n
          /\ fanin[j].pc = "insert" /\ Exists(devices, fanin[j].device)
          /\ \A r \in rows[j] : r.id < id /\ r.n < row.n
          /\ \A n \in StoredNumbers(j) : n < row.n
          /\ rows'[j] \subseteq rows[j] \cup {row}
          /\ StoredNumbers(j)' = StoredNumbers(j) \cup {row.n}
          /\ fanin'[j].pc = "publish" /\ fanin'[j].n = row.n
          /\ \A h \in Kinds \ {j} :
               rows'[h] = rows[h] /\ fanin'[h] = fanin[h] /\ stored'[h] = stored[h]
    BY <1>5, InsertEffect
  <2>1. UNCHANGED <<devices, net>>
    BY <1>5 DEF Insert
  <2>2. CASE j # k
    <3>1. rows'[k] = rows[k] /\ fanin'[k] = fanin[k] /\ stored'[k] = stored[k]
      BY <2>0, <2>2
    <3>2. InOrder(k)' /\ RowsInOrder(k)'
      BY <2>1, <3>1 DEF InOrder, RowsInOrder, StoredNumbers
    <3>3. QED
      BY <3>2
  <2>3. CASE j = k
    <3>1. \A i \in DOMAIN net[k] : row.n < net[k][i].n
      BY <2>0, <2>3 DEF InOrder
    <3>2. InOrder(k)'
      BY <2>0, <2>1, <2>3, <3>1 DEF InOrder
    <3>3. \A r \in rows'[k] : r.n \in StoredNumbers(k)' /\ Exists(devices, r.device)
      BY <2>0, <2>3 DEF RowsInOrder
    <3>4. \A r \in rows[k] : r.id \in Nat /\ r.id < row.id /\ r.n < row.n
      BY <2>0, <2>3, PlaneAssumptions DEF TypeOK, Row, RowIds
    <3>5. row.id \in Nat
      BY <2>0, PlaneAssumptions DEF RowIds
    <3>6. \A r, q \in rows[k] \cup {row} : r.id < q.id => r.n < q.n
      BY <3>4, <3>5 DEF RowsInOrder
    <3>7. RowsInOrder(k)'
      BY <2>0, <2>1, <2>3, <3>3, <3>6 DEF RowsInOrder
    <3>8. QED
      BY <3>2, <3>7
  <2>4. QED
    BY <2>2, <2>3
<1>6. ASSUME NEW j \in Kinds, InsertFails(j) \/ Broadcast(j) PROVE InOrder(k)' /\ RowsInOrder(k)'
  <2>1. UNCHANGED <<devices, net, rows, stored>> /\ fanin' = [fanin EXCEPT ![j] = Idle]
    BY <1>6 DEF InsertFails, Broadcast
  <2>2. fanin'[k] = fanin[k] \/ fanin'[k].pc = "recv"
    BY <2>1 DEF TypeOK, Idle
  <2>3. QED
    BY <2>1, <2>2 DEF InOrder, RowsInOrder, StoredNumbers
<1>7. CASE Subscribe \/ NextFrame \/ SkipLag \/ Page \/ UNCHANGED vars
  <2>1. UNCHANGED <<devices, net, fanin, stored, rows>>
    BY <1>7 DEF Subscribe, NextFrame, SkipLag, Page, vars, message
  <2>2. QED
    BY <2>1, OrderFrame
<1>8. QED
  BY <1>1, <1>2, <1>3, <1>4, <1>5, <1>6, <1>7 DEF Next

-----------------------------------------------------------------------------
(* The ring of a device.                                                   *)

RowsOf(k, id) == {q \in rows[k] : q.device = id}

(* What was stored for the device that has the id now. *)
StoredFor(k, id) ==
  {s.n : s \in {t \in stored[k] : t.device = id /\ t.reg = devices[id].reg}}

RingOf(k, id) == Numbers(RowsOf(k, id)) = Largest(StoredFor(k, id), Cap)

LEMMA RingByDevice ==
  RingHoldsNewest <=> \A k \in Kinds, id \in DeviceIds : Exists(devices, id) => RingOf(k, id)
BY DEF RingHoldsNewest, RingOf, Numbers, RowsOf, Largest, Newer, StoredFor

LEMMA RingByDeviceNext ==
  ASSUME \A k \in Kinds, id \in DeviceIds : Exists(devices', id) => RingOf(k, id)'
  PROVE  RingHoldsNewest'
BY DEF RingHoldsNewest, RingOf, Numbers, RowsOf, Largest, Newer, StoredFor

LEMMA RingInit == Init => RingHoldsNewest
  BY DEF Init, RingHoldsNewest, EmptyTable, Exists

(* An insert leaves the rings of other devices alone. *)
LEMMA RingOthers ==
  ASSUME NEW table, NEW row, NEW q, q.device # row.device
  PROVE  q \in Pruned(table \cup {row}, row.device) <=> q \in table
BY DEF Pruned, Newest

LEMMA RingInsert ==
  ASSUME TypeOK, NEW k \in Kinds, InOrder(k), RowsInOrder(k), RingHoldsNewest, Insert(k)
  PROVE  RingHoldsNewest'
<1>1. PICK i \in RowIds, row \in Row :
        /\ row.id = i /\ row.device = fanin[k].device /\ row.n = fanin[k].n
        /\ Exists(devices, fanin[k].device)
        /\ \A r \in rows[k] : r.id < i /\ r.n < row.n
        /\ \A n \in StoredNumbers(k) : n < row.n
        /\ rows'[k] = Pruned(rows[k] \cup {row}, row.device)
        /\ stored'[k] = stored[k] \cup
             {[device |-> row.device, reg |-> devices[row.device].reg, n |-> row.n,
               slug |-> fanin[k].slug]}
        /\ \A j \in Kinds \ {k} : rows'[j] = rows[j] /\ stored'[j] = stored[j]
  BY InsertEffect
<1>2. PICK new : new = [device |-> row.device, reg |-> devices[row.device].reg, n |-> row.n,
                        slug |-> fanin[k].slug]
  OBVIOUS
<1>3. /\ new.device = row.device /\ new.reg = devices[row.device].reg /\ new.n = row.n
      /\ stored'[k] = stored[k] \cup {new}
  BY <1>1, <1>2
<1>4. UNCHANGED devices
  BY DEF Insert
<1>5. ASSUME NEW j \in Kinds, NEW id \in DeviceIds, Exists(devices, id)
      PROVE  RingOf(j, id)'
  <2>1. RingOf(j, id)
    BY <1>5, RingByDevice
  <2>2. CASE j # k
    <3>1. RowsOf(j, id)' = RowsOf(j, id) /\ StoredFor(j, id)' = StoredFor(j, id)
      BY <1>1, <1>4, <2>2 DEF RowsOf, StoredFor
    <3>2. QED
      BY <2>1, <3>1 DEF RingOf
  <2>3. CASE j = k /\ id # row.device
    <3>1. RowsOf(k, id)' = RowsOf(k, id)
      <4>1. \A q : q.device = id => (q \in rows'[k] <=> q \in rows[k])
        <5> SUFFICES ASSUME NEW q, q.device = id PROVE q \in rows'[k] <=> q \in rows[k]
          OBVIOUS
        <5>1. q.device # row.device
          BY <2>3
        <5>2. q \in Pruned(rows[k] \cup {row}, row.device) <=> q \in rows[k]
          BY <5>1, RingOthers
        <5>3. rows'[k] = Pruned(rows[k] \cup {row}, row.device)
          BY <1>1
        <5>4. QED
          BY <5>2, <5>3
      <4>2. QED
        BY <4>1 DEF RowsOf
    <3>2. StoredFor(k, id)' = StoredFor(k, id)
      BY <1>3, <1>4, <2>3 DEF StoredFor
    <3>3. QED
      BY <2>1, <2>3, <3>1, <3>2 DEF RingOf, Numbers, Largest, Newer
  <2>4. CASE j = k /\ id = row.device
    <3>1. PICK own : own = RowsOf(k, id)
      OBVIOUS
    <3>2. RowsOf(k, id)' = Newest(own \cup {row}, Cap)
      <4>1. {r \in rows[k] \cup {row} : r.device = row.device} = own \cup {row}
        BY <2>4, <3>1 DEF RowsOf
      <4>2. \A r \in Newest(own \cup {row}, Cap) : r.device = id
        BY <2>4, <3>1 DEF Newest, RowsOf
      <4>3. rows'[k] = ((rows[k] \cup {row}) \ (own \cup {row})) \cup Newest(own \cup {row}, Cap)
        BY <1>1, <4>1 DEF Pruned
      <4>4. \A r \in (rows[k] \cup {row}) \ (own \cup {row}) : r.device # id
        BY <3>1 DEF RowsOf
      <4>5. QED
        BY <4>2, <4>3, <4>4 DEF RowsOf
    <3>3. SameOrder(own \cup {row})
      <4>1. \A r \in own : r \in Row /\ r.id \in Nat /\ r.id < row.id /\ r.n < row.n /\ r.n \in Numbered
        BY <1>1, <3>1, PlaneAssumptions DEF TypeOK, RowsOf, Row, RowIds
      <4>2. row.id \in Nat /\ row.n \in Numbered
        BY <1>1, PlaneAssumptions DEF Row, RowIds
      <4>3. /\ \A r, q \in own : r.id = q.id => r = q
            /\ \A r, q \in own : r.id < q.id => r.n < q.n
        BY <3>1 DEF TypeOK, RowsOf, RowsInOrder
      <4>4. QED
        BY <4>1, <4>2, <4>3 DEF SameOrder
    <3>4. Numbers(own \cup {row}) = Numbers(own) \cup {row.n}
      BY DEF Numbers
    <3>5. Numbers(own) = Largest(StoredFor(k, id), Cap)
      BY <2>1, <2>4, <3>1 DEF RingOf
    <3>6. PICK all : all = StoredFor(k, id)
      OBVIOUS
    <3>7. StoredFor(k, id)' = all \cup {row.n}
      BY <1>3, <1>4, <2>4, <3>6 DEF StoredFor
    <3>8. /\ all \in SUBSET Numbered /\ row.n \in Numbered
          /\ \A m \in all : m < row.n
      BY <1>1, <3>6, StoredNumbered DEF StoredFor, StoredNumbers, Row
    <3>9. Cap \in Nat \ {0}
      BY PlaneAssumptions
    <3>10. Largest(Largest(all, Cap) \cup {row.n}, Cap) = Largest(all \cup {row.n}, Cap)
      BY <3>8, <3>9, LargestGrows
    <3>11. Numbers(Newest(own \cup {row}, Cap)) = Largest(Numbers(own \cup {row}), Cap)
      BY <3>3, <3>9, NewestAreLargest
    <3>12. Numbers(Newest(own \cup {row}, Cap)) = Largest(all \cup {row.n}, Cap)
      BY <3>4, <3>5, <3>6, <3>10, <3>11
    <3>13. Numbers(RowsOf(k, id)') = Largest(StoredFor(k, id)', Cap)
      BY <3>2, <3>7, <3>12
    <3>14. QED
      BY <2>4, <3>13 DEF RingOf, Numbers, Largest, Newer
  <2>5. QED
    BY <2>2, <2>3, <2>4
<1>6. \A j \in Kinds, id \in DeviceIds : Exists(devices', id) => RingOf(j, id)'
  BY <1>4, <1>5
<1>7. QED
  BY <1>6, RingByDeviceNext

LEMMA RingStep ==
  ASSUME TypeOK, \A k \in Kinds : InOrder(k) /\ RowsInOrder(k), RingHoldsNewest, [Next]_vars
  PROVE  RingHoldsNewest'
<1>1. ASSUME UNCHANGED <<devices, rows, stored>>
      PROVE  RingHoldsNewest'
  BY <1>1 DEF RingHoldsNewest
<1>2. CASE RegisterDevice
  <2>1. PICK id \in DeviceIds, zid \in Zids, org \in Orgs :
          IsNextId(devices, id) /\ devices' = Inserted(devices, id, zid, org, nextReg)
    BY <1>2 DEF RegisterDevice
  <2>2. /\ ~ Exists(devices, id) /\ devices'[id].reg = nextReg
        /\ \A i \in DeviceIds \ {id} : devices'[i] = devices[i]
    BY <2>1 DEF IsNextId, DeviceIds, Inserted, TypeOK, Table
  <2>3. UNCHANGED <<rows, stored>>
    BY <1>2 DEF RegisterDevice, message
  <2>4. ASSUME NEW k \in Kinds, NEW i \in DeviceIds, Exists(devices', i)
        PROVE  RingOf(k, i)'
    <3>1. CASE i = id
      <4>1. nextReg \notin 1 .. nextReg - 1
        BY PlaneAssumptions DEF TypeOK
      <4>2. \A s \in stored[k] : s.reg # nextReg
        BY <4>1 DEF TypeOK, Stored
      <4>3. StoredFor(k, i)' = {} /\ RowsOf(k, i)' = {}
        BY <2>2, <2>3, <3>1, <4>2 DEF StoredFor, RowsOf, RowsInOrder
      <4>4. QED
        BY <4>3 DEF RingOf, Numbers, Largest
    <3>2. CASE i # id
      <4>1. Exists(devices, i) /\ devices'[i] = devices[i]
        BY <2>2, <2>4, <3>2 DEF Exists
      <4>2. RingOf(k, i)
        BY <4>1, RingByDevice
      <4>3. StoredFor(k, i)' = StoredFor(k, i) /\ RowsOf(k, i)' = RowsOf(k, i)
        BY <2>3, <4>1 DEF StoredFor, RowsOf
      <4>4. QED
        BY <4>2, <4>3 DEF RingOf, Numbers, Largest, Newer
    <3>3. QED
      BY <3>1, <3>2
  <2>5. QED
    BY <2>4, RingByDeviceNext
<1>3. CASE DeleteDevice
  <2>1. PICK id \in DeviceIds :
          /\ devices' = Removed(devices, id)
          /\ rows' = [k \in Kinds |-> {r \in rows[k] : r.device # id}]
    BY <1>3 DEF DeleteDevice
  <2>2. /\ ~ Exists(devices', id) /\ UNCHANGED stored
        /\ \A i \in DeviceIds \ {id} : devices'[i] = devices[i]
    BY <1>3, <2>1 DEF DeleteDevice, Removed, TypeOK, Table, Exists
  <2>3. ASSUME NEW k \in Kinds, NEW i \in DeviceIds, Exists(devices', i)
        PROVE  RingOf(k, i)'
    <3>1. i # id /\ Exists(devices, i) /\ devices'[i] = devices[i]
      BY <2>2, <2>3 DEF Exists
    <3>2. RingOf(k, i)
      BY <3>1, RingByDevice
    <3>3. StoredFor(k, i)' = StoredFor(k, i) /\ RowsOf(k, i)' = RowsOf(k, i)
      BY <2>1, <2>2, <3>1 DEF StoredFor, RowsOf
    <3>4. QED
      BY <3>2, <3>3 DEF RingOf, Numbers, Largest, Newer
  <2>4. QED
    BY <2>3, RingByDeviceNext
<1>4. ASSUME NEW k \in Kinds, Insert(k) PROVE RingHoldsNewest'
  BY <1>4, RingInsert
<1>5. ASSUME NEW k \in Kinds, Receive(k) \/ InsertFails(k) \/ Broadcast(k)
      PROVE  RingHoldsNewest'
  BY <1>1, <1>5 DEF Receive, InsertFails, Broadcast
<1>6. CASE Publish \/ Subscribe \/ NextFrame \/ SkipLag \/ Page \/ UNCHANGED vars
  BY <1>1, <1>6 DEF Publish, Subscribe, NextFrame, SkipLag, Page, vars, message
<1>7. QED
  BY <1>2, <1>3, <1>4, <1>5, <1>6 DEF Next

-----------------------------------------------------------------------------
(* Pages.                                                                  *)

LEMMA RowsFinite ==
  ASSUME TypeOK, NEW set, SameOrder(set)
  PROVE  IsFiniteSet(set)
<1> DEFINE f == [q \in set |-> q.n]
<1>1. \A q \in set : q.id \in Nat /\ q.n \in Nat /\ q.n \in Numbered
  BY NumberedNat DEF SameOrder
<1>2. \A p, q \in set : p.n = q.n => p = q
  <2>1. \A p, q \in set : p.id < q.id \/ q.id < p.id \/ p.id = q.id
    BY <1>1
  <2>2. QED
    BY <1>1, <2>1 DEF SameOrder
<1>3. f \in Injection(set, Numbered)
  BY <1>1, <1>2 DEF Injection, IsInjective
<1>4. IsFiniteSet(Numbered)
  BY NumberedFinite
<1>5. QED
  BY <1>3, <1>4, FS_Injection

Above(set, r) == {q \in set : q.id > r.id}

LEMMA AboveFinite ==
  ASSUME TypeOK, NEW set, SameOrder(set)
  PROVE  /\ \A r : IsFiniteSet(Above(set, r)) /\ Cardinality(Above(set, r)) \in Nat
         /\ \A r, p : Above(set, r) \subseteq Above(set, p) =>
              /\ Cardinality(Above(set, r)) <= Cardinality(Above(set, p))
              /\ Cardinality(Above(set, r)) = Cardinality(Above(set, p)) =>
                   Above(set, r) = Above(set, p)
<1>1. IsFiniteSet(set) /\ \A r : Above(set, r) \in SUBSET set
  BY RowsFinite DEF Above
<1>2. \A r : IsFiniteSet(Above(set, r)) /\ Cardinality(Above(set, r)) \in Nat
  BY <1>1, FS_Subset, FS_CardinalityType
<1>3. ASSUME NEW r, NEW p, Above(set, r) \subseteq Above(set, p)
      PROVE  /\ Cardinality(Above(set, r)) <= Cardinality(Above(set, p))
             /\ Cardinality(Above(set, r)) = Cardinality(Above(set, p)) =>
                  Above(set, r) = Above(set, p)
  BY <1>2, <1>3, FS_Subset
<1>4. QED
  BY <1>2, <1>3

(* Rows that are not among the newest are older than those that are. *)
LEMMA NewestAreNewer ==
  ASSUME TypeOK, NEW set, SameOrder(set), NEW k \in Nat,
         NEW p \in Newest(set, k), NEW r \in set, r \notin Newest(set, k)
  PROVE  r.id < p.id
<1>1. p \in set /\ p.id \in Nat /\ r.id \in Nat /\ \A q \in set : q.id \in Nat
  BY DEF Newest, SameOrder
<1>2. Cardinality(Above(set, p)) < k /\ ~ Cardinality(Above(set, r)) < k
  BY DEF Newest, Above
<1>3. ASSUME p.id <= r.id PROVE FALSE
  <2>1. Above(set, r) \subseteq Above(set, p)
    BY <1>1, <1>3 DEF Above
  <2>2. /\ Cardinality(Above(set, r)) <= Cardinality(Above(set, p))
        /\ Cardinality(Above(set, r)) \in Nat /\ Cardinality(Above(set, p)) \in Nat
    BY <2>1, AboveFinite
  <2>3. QED
    BY <1>2, <2>2
<1>4. QED
  BY <1>1, <1>3

(* Fewer than k newest rows are all there are. *)
LEMMA FewAreAll ==
  ASSUME TypeOK, NEW set, SameOrder(set), NEW k \in Nat,
         Cardinality(Newest(set, k)) < k
  PROVE  Newest(set, k) = set
<1> DEFINE U == set \ Newest(set, k)
           Counts == {Cardinality(Above(set, q)) : q \in U}
<1> SUFFICES ASSUME U # {} PROVE FALSE
  BY DEF Newest
<1>1. Counts \subseteq Nat /\ Counts # {}
  BY AboveFinite
<1>2. \E c \in Counts : \A d \in Counts : c <= d
  <2> HIDE DEF Counts
  <2> QED
    BY <1>1, LeastExists
<1>3. PICK r \in U : \A q \in U : Cardinality(Above(set, r)) <= Cardinality(Above(set, q))
  BY <1>2
<1>4. \A q \in set : q.id \in Nat
  BY DEF SameOrder
<1>5. ASSUME NEW q \in Above(set, r), q \in U PROVE FALSE
  <2>1. Above(set, q) \subseteq Above(set, r) /\ q \notin Above(set, q)
    BY <1>4, <1>5 DEF Above
  <2>2. /\ Cardinality(Above(set, q)) <= Cardinality(Above(set, r))
        /\ Cardinality(Above(set, q)) # Cardinality(Above(set, r))
        /\ Cardinality(Above(set, q)) \in Nat /\ Cardinality(Above(set, r)) \in Nat
    BY <1>5, <2>1, AboveFinite
  <2>3. QED
    BY <1>3, <1>5, <2>2
<1>6. Above(set, r) \subseteq Newest(set, k)
  BY <1>5 DEF Above
<1>7. IsFiniteSet(Newest(set, k))
  BY RowsFinite, FS_Subset DEF Newest
<1>8. /\ Cardinality(Above(set, r)) <= Cardinality(Newest(set, k))
      /\ Cardinality(Newest(set, k)) \in Nat /\ Cardinality(Above(set, r)) \in Nat
  BY <1>6, <1>7, FS_Subset, FS_CardinalityType
<1>9. ~ Cardinality(Above(set, r)) < k
  BY <1>3 DEF Newest, Above
<1>10. QED
  BY <1>8, <1>9

LEMMA MatchingOrder ==
  ASSUME TypeOK, \A k \in Kinds : RowsInOrder(k), NEW set \in SUBSET Matching
  PROVE  SameOrder(set) /\ set \subseteq rows[pager.q.kind] /\ pager.q.kind \in Kinds
<1>1. pager.q.kind \in Kinds
  BY DEF TypeOK, Query
<1>2. Matching \subseteq rows[pager.q.kind] /\ rows[pager.q.kind] \subseteq Row
  BY <1>1 DEF Matching, TypeOK
<1>3. \A r \in set : r.id \in Nat /\ r.n \in Numbered
  BY <1>2, PlaneAssumptions DEF Row, RowIds
<1>4. /\ \A r, q \in set : r.id = q.id => r = q
      /\ \A r, q \in set : r.id < q.id => r.n < q.n
  BY <1>1, <1>2 DEF TypeOK, RowsInOrder
<1>5. QED
  BY <1>1, <1>2, <1>3, <1>4 DEF SameOrder

(* What a page adds: all that is left, or all above the next cursor. *)
LEMMA PageEffect ==
  ASSUME TypeOK, \A k \in Kinds : RowsInOrder(k), Page
  PROVE  /\ pager'.q = pager.q /\ pager'.pc \in {"more", "done"}
         /\ pager.items \subseteq pager'.items
         /\ pager'.history = IF pager.pc = "idle" THEN Numbers(Matching) ELSE pager.history
         /\ pager'.early = IF pager.pc = "idle" THEN ~ stream.on ELSE pager.early
         /\ pager'.pc = "more" =>
              \A r \in Older(Matching) : r.n \in pager'.items \/ r.id < pager'.cursor
         /\ pager'.pc = "done" /\ pager.q.limit <= MaxLimit =>
              \A r \in Older(Matching) : r.n \in pager'.items
<1> DEFINE S == Older(Matching)
           page == Newest(S, Clamped)
           last == CHOOSE r \in page : \A q \in page : r.id <= q.id
<1>1. pager' = [pager EXCEPT
        !.items = @ \cup Numbers(page),
        !.history = IF pager.pc = "idle" THEN Numbers(Matching) ELSE @,
        !.early = IF pager.pc = "idle" THEN ~ stream.on ELSE @,
        !.pc = IF Saturated(page) THEN "more" ELSE "done",
        !.cursor = IF Saturated(page) THEN last.id ELSE @]
  BY DEF Page
<1>2. pager \in [pc : {"idle", "more", "done"}, q : Query, cursor : 0 .. MaxMsgs,
                 items : SUBSET Numbered, history : SUBSET Numbered, early : BOOLEAN]
  BY DEF TypeOK
<1>3. /\ pager'.q = pager.q /\ pager'.items = pager.items \cup Numbers(page)
      /\ pager'.history = IF pager.pc = "idle" THEN Numbers(Matching) ELSE pager.history
      /\ pager'.early = IF pager.pc = "idle" THEN ~ stream.on ELSE pager.early
      /\ pager'.pc = IF Saturated(page) THEN "more" ELSE "done"
      /\ pager'.cursor = IF Saturated(page) THEN last.id ELSE pager.cursor
  <2> HIDE DEF page, last
  <2> QED
    BY <1>1, <1>2
<1>4. pager.q.limit \in Int /\ MaxLimit \in Nat \ {0}
  BY <1>2, PlaneAssumptions DEF Query
<1>5. Clamped \in Nat \ {0} /\ (1 <= pager.q.limit /\ pager.q.limit <= MaxLimit => Clamped = pager.q.limit)
  BY <1>4 DEF Clamped
<1>6. S \in SUBSET Matching
  BY DEF Older
<1>7. SameOrder(S)
  BY <1>6, MatchingOrder
<1>8. \A r \in page : r.n \in pager'.items
  BY <1>3 DEF Numbers
<1>9. ASSUME Saturated(page), NEW r \in S, r \notin page PROVE r.id < last.id
  <2>1. last \in page
    <3>1. page # {} /\ \A q \in page : q.id \in Nat
      BY <1>7, <1>9 DEF Saturated, Newest, SameOrder
    <3> DEFINE ids == {q.id : q \in page}
    <3>2. ids \subseteq Nat /\ ids # {}
      BY <3>1
    <3>3. \E m \in ids : \A n \in ids : m <= n
      <4> HIDE DEF ids
      <4> QED
        BY <3>2, LeastExists
    <3>4. \E q \in page : \A p \in page : q.id <= p.id
      BY <3>3
    <3> HIDE DEF page
    <3>5. QED
      BY <3>4
  <2> HIDE DEF S, last
  <2>2. QED
    BY <1>5, <1>7, <1>9, <2>1, NewestAreNewer
<1>10. ASSUME ~ Saturated(page), pager.q.limit <= MaxLimit PROVE page = S
  <2>1. CASE page = {}
    <3>1. Cardinality(page) = 0
      BY <2>1, FS_EmptySet
    <3>2. Cardinality(page) < Clamped
      BY <1>5, <3>1
    <3> HIDE DEF S
    <3>3. QED
      BY <1>5, <1>7, <3>2, FewAreAll
  <2>2. CASE page # {}
    <3>1. IsFiniteSet(page)
      <4>1. IsFiniteSet(S)
        BY <1>7, RowsFinite
      <4>2. page \in SUBSET S
        BY DEF Newest
      <4>3. QED
        BY <4>1, <4>2, FS_Subset
    <3>2. Cardinality(page) \in Nat /\ ~ Cardinality(page) >= pager.q.limit
      BY <1>10, <2>2, <3>1, FS_CardinalityType DEF Saturated
    <3>3. Cardinality(page) < Clamped
      <4> HIDE DEF page
      <4>1. Cardinality(page) < pager.q.limit /\ 1 <= pager.q.limit
        BY <1>4, <3>2
      <4>2. QED
        BY <1>5, <1>10, <4>1
    <3> HIDE DEF S
    <3>4. QED
      BY <1>5, <1>7, <3>3, FewAreAll
  <2>3. QED
    BY <2>1, <2>2
<1>11. pager'.pc = "more" => \A r \in S : r.n \in pager'.items \/ r.id < pager'.cursor
  <2> HIDE DEF page, last, S
  <2> QED
    BY <1>3, <1>8, <1>9
<1>12. pager'.pc = "done" /\ pager.q.limit <= MaxLimit => \A r \in S : r.n \in pager'.items
  <2> HIDE DEF page, last, S
  <2> QED
    BY <1>3, <1>8, <1>10
<1>13. QED
  <2> HIDE DEF page, last
  <2> QED
    BY <1>3, <1>11, <1>12

(* The pages so far have all of the history that is still there, down to   *)
(* the cursor; or down to its end.                                         *)
PagerInv ==
  /\ pager.pc = "idle" => pager.cursor = 0 /\ pager.history = {}
  /\ pager.history \subseteq StoredNumbers(pager.q.kind)
  /\ pager.pc = "more" => \A r \in Matching :
       r.n \in pager.history => r.n \in pager.items \/ r.id < pager.cursor
  /\ PagerReadsAllHistory

(* handle_sample has yet to send the row. *)
Unsent(r) ==
  LET f == fanin[pager.q.kind] IN f.pc = "publish" /\ f.n = r.n /\ f.device = r.device

(* It is sent, and the client has not come to it. *)
Ahead(r) ==
  \E i \in DOMAIN bus :
    i > stream.pos /\ bus[i].kind = pager.q.kind /\ bus[i].n = r.n /\ bus[i].device = r.device

(* A client that had subscribed when it asked for the first page has seen  *)
(* every row since then, or it is still to come.                           *)
StreamInv ==
  pager.pc # "idle" /\ ~ pager.early /\ ~ stream.lagged =>
    /\ stream.on
    /\ \A r \in Matching :
         r.n \in pager.history \cup stream.frames \cup raced \/ Unsent(r) \/ Ahead(r)

LEMMA ReadInit == Init => PagerInv /\ StreamInv
<1> SUFFICES ASSUME Init PROVE PagerInv /\ StreamInv
  OBVIOUS
<1>1. pager.pc = "idle" /\ pager.cursor = 0 /\ pager.history = {}
  BY DEF Init
<1>2. QED
  BY <1>1 DEF PagerInv, StreamInv, PagerReadsAllHistory

(* A row comes into what the client would read when it is stored only; and *)
(* goes when it is pruned or its device deleted.                           *)
LEMMA MatchingStep ==
  ASSUME TypeOK, \A k \in Kinds : InOrder(k) /\ RowsInOrder(k), [Next]_vars, UNCHANGED pager
  PROVE  /\ StoredNumbers(pager.q.kind) \subseteq StoredNumbers(pager.q.kind)'
         /\ \A r \in Matching' :
              r \in Matching \/ (r.n \notin StoredNumbers(pager.q.kind) /\ Unsent(r)')
<1> PICK kind : kind = pager.q.kind
  OBVIOUS
<1>0. kind \in Kinds
  BY DEF TypeOK, Query
<1>1. ASSUME UNCHANGED <<devices, stored>>, rows'[kind] = rows[kind]
      PROVE  /\ StoredNumbers(pager.q.kind) \subseteq StoredNumbers(pager.q.kind)'
             /\ \A r \in Matching' : r \in Matching
  BY <1>1 DEF StoredNumbers, Matching
<1>2. CASE RegisterDevice
  <2>1. PICK id \in DeviceIds, zid \in Zids, org \in Orgs :
          IsNextId(devices, id) /\ devices' = Inserted(devices, id, zid, org, nextReg)
    BY <1>2 DEF RegisterDevice
  <2>2. /\ ~ Exists(devices, id)
        /\ \A i \in DeviceIds \ {id} : devices'[i] = devices[i]
    BY <2>1 DEF IsNextId, DeviceIds, Inserted, TypeOK, Table
  <2>3. UNCHANGED <<rows, stored>>
    BY <1>2 DEF RegisterDevice, message
  <2>4. \A r \in rows[kind] : r.device # id /\ r.device \in DeviceIds
    BY <1>0, <2>2 DEF RowsInOrder, Exists
  <2>5. \A r \in Matching' : r \in Matching
    BY <2>2, <2>3, <2>4 DEF Matching, InOrg, Exists
  <2>6. QED
    BY <2>3, <2>5 DEF StoredNumbers
<1>3. CASE DeleteDevice
  <2>1. PICK id \in DeviceIds :
          /\ devices' = Removed(devices, id)
          /\ rows' = [k \in Kinds |-> {r \in rows[k] : r.device # id}]
    BY <1>3 DEF DeleteDevice
  <2>2. /\ UNCHANGED stored /\ rows'[kind] = {r \in rows[kind] : r.device # id}
        /\ \A i \in DeviceIds \ {id} : devices'[i] = devices[i]
    BY <1>0, <1>3, <2>1 DEF DeleteDevice, Removed, TypeOK, Table
  <2>3. \A r \in Matching' : r \in Matching
    BY <2>2 DEF Matching, InOrg, Exists
  <2>4. QED
    BY <2>2, <2>3 DEF StoredNumbers
<1>4. ASSUME NEW k \in Kinds, Insert(k)
      PROVE  /\ StoredNumbers(pager.q.kind) \subseteq StoredNumbers(pager.q.kind)'
             /\ \A r \in Matching' :
                  r \in Matching \/ (r.n \notin StoredNumbers(pager.q.kind) /\ Unsent(r)')
  <2>1. PICK row \in Row :
          /\ row.device = fanin[k].device /\ row.n = fanin[k].n
          /\ \A n \in StoredNumbers(k) : n < row.n
          /\ rows'[k] \subseteq rows[k] \cup {row}
          /\ StoredNumbers(k)' = StoredNumbers(k) \cup {row.n}
          /\ fanin'[k].pc = "publish" /\ fanin'[k].n = row.n /\ fanin'[k].device = row.device
          /\ \A j \in Kinds \ {k} : rows'[j] = rows[j] /\ stored'[j] = stored[j]
    BY <1>4, InsertEffect
  <2>2. UNCHANGED devices
    BY <1>4 DEF Insert
  <2>3. CASE k # kind
    BY <1>0, <2>1, <2>2, <2>3 DEF Matching, StoredNumbers
  <2>4. CASE k = kind
    <3>1. row.n \notin StoredNumbers(kind)
      <4>1. row.n \in Nat
        BY <2>1, NumberedNat DEF Row
      <4>2. QED
        BY <2>1, <2>4, <4>1
    <3>2. \A r \in Matching' : r \in Matching \/ r = row
      BY <2>1, <2>2, <2>4 DEF Matching
    <3>3. Unsent(row)'
      BY <2>1, <2>4 DEF Unsent
    <3>4. QED
      BY <2>1, <2>4, <3>1, <3>2, <3>3
  <2>5. QED
    BY <2>3, <2>4
<1>5. ASSUME NEW k \in Kinds, Receive(k) \/ InsertFails(k) \/ Broadcast(k)
      PROVE  UNCHANGED <<devices, stored, rows>>
  BY <1>5 DEF Receive, InsertFails, Broadcast
<1>6. CASE Publish \/ Subscribe \/ NextFrame \/ SkipLag \/ Page \/ UNCHANGED vars
  BY <1>1, <1>6 DEF Publish, Subscribe, NextFrame, SkipLag, Page, vars, message
<1>7. QED
  BY <1>1, <1>2, <1>3, <1>4, <1>5, <1>6 DEF Next

LEMMA PagerStep ==
  ASSUME TypeOK, \A k \in Kinds : InOrder(k) /\ RowsInOrder(k), PagerInv, [Next]_vars
  PROVE  PagerInv'
<1> PICK kind : kind = pager.q.kind
  OBVIOUS
<1>1. PagerReadsAllHistory <=>
        (pager.pc = "done" /\ pager.q.limit <= MaxLimit =>
           \A r \in Matching : r.n \in pager.history => r.n \in pager.items)
  BY DEF PagerReadsAllHistory, Numbers
<1>2. (pager'.pc = "done" /\ pager'.q.limit <= MaxLimit =>
         \A r \in Matching' : r.n \in pager'.history => r.n \in pager'.items)
      => PagerReadsAllHistory'
  BY DEF PagerReadsAllHistory, Numbers
<1>3. CASE UNCHANGED pager
  <2>1. /\ StoredNumbers(kind) \subseteq StoredNumbers(kind)'
        /\ \A r \in Matching' : r \in Matching \/ r.n \notin StoredNumbers(kind)
    BY <1>3, MatchingStep
  <2>2. pager.history \subseteq StoredNumbers(kind)
    BY DEF PagerInv
  <2>3. \A r \in Matching' : r.n \in pager.history => r \in Matching
    BY <2>1, <2>2
  <2>4. PagerReadsAllHistory'
    BY <1>1, <1>2, <1>3, <2>3 DEF PagerInv
  <2>5. (pager.history \subseteq StoredNumbers(pager.q.kind))'
    BY <1>3, <2>1, <2>2 DEF StoredNumbers
  <2>6. QED
    BY <1>3, <2>3, <2>4, <2>5 DEF PagerInv
<1>4. CASE Page
  <2>1. UNCHANGED <<devices, rows, stored>> /\ pager.pc \in {"idle", "more"}
    BY <1>4 DEF Page, message
  <2>2. /\ pager'.q = pager.q /\ pager'.pc \in {"more", "done"}
        /\ pager.items \subseteq pager'.items
        /\ pager'.history = IF pager.pc = "idle" THEN Numbers(Matching) ELSE pager.history
        /\ pager'.pc = "more" =>
             \A r \in Older(Matching) : r.n \in pager'.items \/ r.id < pager'.cursor
        /\ pager'.pc = "done" /\ pager.q.limit <= MaxLimit =>
             \A r \in Older(Matching) : r.n \in pager'.items
    BY <1>4, PageEffect
  <2>3. Matching' = Matching
    BY <2>1, <2>2 DEF Matching
  <2>4. \A r \in Matching : r.n \in pager'.history => r.n \in pager.items \/ r \in Older(Matching)
    BY <2>1, <2>2 DEF PagerInv, Older
  <2>5. pager'.history \subseteq StoredNumbers(kind)
    <3>1. Numbers(Matching) \subseteq StoredNumbers(kind)
      <4>1. Matching \in SUBSET Matching
        OBVIOUS
      <4>2. kind \in Kinds /\ Matching \subseteq rows[kind]
        BY <4>1, MatchingOrder
      <4>3. QED
        BY <4>2 DEF RowsInOrder, Numbers
    <3>2. QED
      BY <2>2, <3>1 DEF PagerInv
  <2>6. (pager.history \subseteq StoredNumbers(pager.q.kind))'
    BY <2>1, <2>2, <2>5 DEF StoredNumbers
  <2>7. PagerReadsAllHistory'
    BY <1>2, <2>2, <2>3, <2>4
  <2>8. pager'.pc = "more" => \A r \in Matching' :
          r.n \in pager'.history => r.n \in pager'.items \/ r.id < pager'.cursor
    BY <2>2, <2>3, <2>4
  <2>9. QED
    BY <2>2, <2>6, <2>7, <2>8 DEF PagerInv
<1>5. UNCHANGED pager \/ Page
  BY DEF Next, RegisterDevice, DeleteDevice, Publish, Receive, Insert, InsertFails, Broadcast,
     Subscribe, NextFrame, SkipLag, vars, client
<1>6. QED
  BY <1>3, <1>4, <1>5

(* The next message of a client that has not lagged: if the client would   *)
(* read its row, then it wants the message, or the message was stored for  *)
(* another device.                                                         *)
LEMMA FrameWanted ==
  ASSUME TypeOK, NEW own, Attributed(own), Owned(own), NextFrame,
         NEW r \in Matching, Ahead(r)
  PROVE  r.n \in stream'.frames \cup raced \/ Ahead(r)'
<1> DEFINE i == stream.pos + 1
<1>1. PICK j \in DOMAIN bus :
        /\ j > stream.pos /\ bus[j].kind = pager.q.kind /\ bus[j].n = r.n
        /\ bus[j].device = r.device
  BY DEF Ahead
<1>2. /\ stream.pos \in Nat /\ bus \in Seq(Message) /\ DOMAIN bus = 1 .. Len(bus)
      /\ Len(bus) \in Nat
  BY LenProperties DEF TypeOK
<1>3. UNCHANGED <<bus, pager>> /\ stream'.pos = stream.pos + 1
      /\ stream'.frames = IF Wanted(bus[i]) THEN stream.frames \cup {bus[i].n} ELSE stream.frames
  BY DEF NextFrame, message, TypeOK
<1>4. CASE j > stream.pos + 1
  BY <1>1, <1>3, <1>4 DEF Ahead
<1>5. CASE j = stream.pos + 1 /\ r.n \notin raced
  <2>1. /\ r \in rows[pager.q.kind] /\ devices[r.device].org = pager.q.org
        /\ pager.q.device \in {0, r.device} /\ pager.q.kind \in Kinds
    BY DEF Matching, InOrg, TypeOK, Query
  <2>2. devices[r.device].org = own[r.n]
    BY <1>5, <2>1 DEF Owned
  <2>3. bus[j].org = own[r.n]
    BY <1>1 DEF Attributed, Tagged
  <2>4. Wanted(bus[j])
    BY <1>1, <2>1, <2>2, <2>3 DEF Wanted
  <2>5. QED
    BY <1>1, <1>3, <1>5, <2>4
<1>6. QED
  BY <1>1, <1>2, <1>4, <1>5

(* What the other steps do to a row that the client has yet to see. *)
LEMMA SendStep ==
  ASSUME TypeOK, [Next]_vars, UNCHANGED <<pager, stream>>, NEW r
  PROVE  /\ raced \subseteq raced'
         /\ Unsent(r) => Unsent(r)' \/ Ahead(r)'
         /\ Ahead(r) => Ahead(r)'
<1> PICK kind : kind = pager.q.kind
  OBVIOUS
<1>0. kind \in Kinds
  BY DEF TypeOK, Query
<1>1. ASSUME UNCHANGED <<bus, raced>>, Unsent(r) => fanin'[kind] = fanin[kind]
      PROVE  /\ raced \subseteq raced'
             /\ Unsent(r) => Unsent(r)' \/ Ahead(r)'
             /\ Ahead(r) => Ahead(r)'
  BY <1>1 DEF Unsent, Ahead
<1>2. ASSUME NEW k \in Kinds, Receive(k) \/ InsertFails(k)
      PROVE  UNCHANGED <<bus, raced>> /\ (Unsent(r) => fanin'[kind] = fanin[kind])
  <2>1. fanin[k].pc # "publish" /\ UNCHANGED <<bus, raced>>
    BY <1>2 DEF Receive, InsertFails
  <2>2. k # kind => fanin'[kind] = fanin[kind]
    BY <1>0, <1>2 DEF Receive, InsertFails, TypeOK
  <2>3. QED
    BY <2>1, <2>2 DEF Unsent
<1>3. ASSUME NEW k \in Kinds, Insert(k)
      PROVE  /\ UNCHANGED bus /\ raced \subseteq raced'
             /\ Unsent(r) => fanin'[kind] = fanin[kind]
  <2>1. fanin[k].pc = "insert" /\ UNCHANGED bus
    BY <1>3 DEF Insert
  <2>2. fanin' = [fanin EXCEPT ![k].pc = "publish"] /\ raced \subseteq raced'
    BY <1>3 DEF Insert
  <2>3. QED
    BY <1>0, <2>1, <2>2 DEF Unsent, TypeOK
<1>4. ASSUME NEW k \in Kinds, Broadcast(k)
      PROVE  /\ UNCHANGED raced
             /\ Unsent(r) => Unsent(r)' \/ Ahead(r)'
             /\ Ahead(r) => Ahead(r)'
  <2>1. PICK m : m = [kind |-> k, org |-> fanin[k].slug, device |-> fanin[k].device,
                      n |-> fanin[k].n]
    OBVIOUS
  <2>2. /\ m.kind = k /\ m.device = fanin[k].device /\ m.n = fanin[k].n
        /\ m \in Message /\ bus' = Append(bus, m) /\ bus \in Seq(Message)
        /\ fanin' = [fanin EXCEPT ![k] = Idle] /\ UNCHANGED raced
    BY <1>4, <2>1 DEF Broadcast, TypeOK, Task, Message
  <2>3. /\ DOMAIN bus = 1 .. Len(bus) /\ Len(bus) \in Nat
        /\ DOMAIN bus' = 1 .. Len(bus) + 1 /\ bus'[Len(bus) + 1] = m
        /\ \A i \in 1 .. Len(bus) : bus'[i] = bus[i]
    BY <2>2, AppendProperties, LenProperties
  <2>4. stream.pos \in 0 .. Len(bus)
    BY DEF TypeOK
  <2>5. Ahead(r) => Ahead(r)'
    BY <2>3 DEF Ahead
  <2>6. CASE k = kind
    <3>1. Unsent(r) => m.kind = kind /\ m.n = r.n /\ m.device = r.device
      BY <2>2, <2>6 DEF Unsent
    <3>2. Len(bus) + 1 \in DOMAIN bus' /\ Len(bus) + 1 > stream.pos
      BY <2>3, <2>4
    <3>3. Unsent(r) => Ahead(r)'
      BY <2>3, <3>1, <3>2 DEF Ahead
    <3>4. QED
      BY <2>2, <2>5, <3>3
  <2>7. CASE k # kind
    BY <1>0, <2>2, <2>5, <2>7 DEF Unsent, TypeOK
  <2>8. QED
    BY <2>6, <2>7
<1>5. CASE RegisterDevice \/ DeleteDevice \/ Publish \/ Subscribe \/ NextFrame \/ SkipLag \/ Page
             \/ UNCHANGED vars
  BY <1>1, <1>5 DEF RegisterDevice, DeleteDevice, Publish, Subscribe, NextFrame, SkipLag, Page,
     vars, message
<1>6. ASSUME NEW k \in Kinds, Insert(k)
      PROVE  /\ raced \subseteq raced'
             /\ Unsent(r) => Unsent(r)' \/ Ahead(r)'
             /\ Ahead(r) => Ahead(r)'
  BY <1>3, <1>6 DEF Unsent, Ahead
<1>7. QED
  BY <1>1, <1>2, <1>4, <1>5, <1>6 DEF Next

LEMMA StreamStep ==
  ASSUME TypeOK, Provenance, \A k \in Kinds : InOrder(k) /\ RowsInOrder(k), StreamInv, [Next]_vars
  PROVE  StreamInv'
<1> SUFFICES ASSUME pager'.pc # "idle", ~ pager'.early, ~ stream'.lagged
             PROVE  /\ stream'.on
                    /\ \A r \in Matching' :
                         \/ r.n \in pager'.history \cup stream'.frames \cup raced'
                         \/ Unsent(r)' \/ Ahead(r)'
  BY DEF StreamInv
<1>1. CASE Page
  <2>1. /\ UNCHANGED <<devices, rows, fanin, bus, raced, stream>>
        /\ pager'.q = pager.q
        /\ pager'.history = IF pager.pc = "idle" THEN Numbers(Matching) ELSE pager.history
        /\ pager'.early = IF pager.pc = "idle" THEN ~ stream.on ELSE pager.early
    BY <1>1, PageEffect DEF Page, message
  <2>2. Matching' = Matching
    BY <2>1 DEF Matching
  <2>3. CASE pager.pc = "idle"
    BY <2>1, <2>2, <2>3 DEF Numbers
  <2>4. CASE pager.pc # "idle"
    <3>1. \A r : (Unsent(r) => Unsent(r)') /\ (Ahead(r) => Ahead(r)')
      BY <2>1 DEF Unsent, Ahead
    <3>2. QED
      BY <2>1, <2>2, <2>4, <3>1 DEF StreamInv
  <2>5. QED
    BY <2>3, <2>4
<1>2. CASE UNCHANGED pager
  <2>1. \A r \in Matching' : r \in Matching \/ Unsent(r)'
    BY <1>2, MatchingStep
  <2>2. ~ stream.lagged
    BY DEF Next, RegisterDevice, DeleteDevice, Publish, Receive, Insert, InsertFails, Broadcast,
       Subscribe, NextFrame, SkipLag, Page, vars, client, TypeOK
  <2>3. /\ stream.on
        /\ \A r \in Matching :
             r.n \in pager.history \cup stream.frames \cup raced \/ Unsent(r) \/ Ahead(r)
    BY <1>2, <2>2 DEF StreamInv
  <2>4. CASE UNCHANGED stream
    BY <1>2, <2>1, <2>3, <2>4, SendStep
  <2>5. CASE NextFrame
    <3>1. PICK own : Attributed(own) /\ Owned(own)
      BY DEF Provenance
    <3>2. /\ UNCHANGED <<devices, rows, fanin, bus, raced>>
          /\ stream.frames \subseteq stream'.frames /\ stream'.on
      BY <2>3, <2>5 DEF NextFrame, message, TypeOK
    <3>3. \A r \in Matching : Ahead(r) => r.n \in stream'.frames \cup raced \/ Ahead(r)'
      BY <2>5, <3>1, FrameWanted
    <3>4. \A r : Unsent(r) => Unsent(r)'
      BY <1>2, <3>2 DEF Unsent
    <3>5. QED
      BY <1>2, <2>1, <2>3, <3>2, <3>3, <3>4
  <2>6. UNCHANGED stream \/ NextFrame
    <3>1. ~ Subscribe
      BY <2>3 DEF Subscribe
    <3>2. ~ SkipLag
      BY DEF SkipLag, TypeOK
    <3>3. QED
      BY <3>1, <3>2 DEF Next, RegisterDevice, DeleteDevice, Publish, Receive, Insert, InsertFails,
         Broadcast, Page, vars, client
  <2>7. QED
    BY <2>4, <2>5, <2>6
<1>3. UNCHANGED pager \/ Page
  BY DEF Next, RegisterDevice, DeleteDevice, Publish, Receive, Insert, InsertFails, Broadcast,
     Subscribe, NextFrame, SkipLag, vars, client
<1>4. QED
  BY <1>1, <1>2, <1>3

-----------------------------------------------------------------------------
ReadInv ==
  /\ \A k \in Kinds : InOrder(k) /\ RowsInOrder(k)
  /\ RingHoldsNewest /\ PagerInv /\ StreamInv

LEMMA ReadInductive == Spec => [](IInv /\ ReadInv)
<1>1. Init => IInv /\ ReadInv
  BY Initially, OrderInit, RingInit, ReadInit DEF ReadInv
<1>2. IInv /\ ReadInv /\ [Next]_vars => IInv' /\ ReadInv'
  <2> SUFFICES ASSUME IInv, ReadInv, [Next]_vars PROVE IInv' /\ ReadInv'
    OBVIOUS
  <2>1. TypeOK /\ Provenance /\ (\A k \in Kinds : InOrder(k) /\ RowsInOrder(k))
    BY DEF IInv, ReadInv
  <2>2. IInv'
    BY <2>1, StepTypes, StepProvenance DEF IInv
  <2>3. (\A k \in Kinds : InOrder(k) /\ RowsInOrder(k))'
    BY <2>1, OrderStep
  <2>4. RingHoldsNewest' /\ PagerInv' /\ StreamInv'
    BY <2>1, RingStep, PagerStep, StreamStep DEF ReadInv
  <2>5. QED
    BY <2>2, <2>3, <2>4 DEF ReadInv
<1>3. QED
  BY <1>1, <1>2, PTL DEF Spec

(* Each device keeps the newest Cap messages of a kind that were stored    *)
(* for it: the prune goes by row ids, which are reused and shared with     *)
(* other devices, and finds the same rows as the order of arrival would.   *)
THEOREM RingNewest == Spec => []RingHoldsNewest
<1>1. ReadInv => RingHoldsNewest
  BY DEF ReadInv
<1>2. QED
  BY ReadInductive, <1>1, PTL

(* A client that pages to the end reads all the history there was at its   *)
(* first page and still is, whatever is stored, pruned or deleted between  *)
(* two pages, if its pages are no larger than the server gives.            *)
THEOREM PagesComplete == Spec => []PagerReadsAllHistory
<1>1. ReadInv => PagerReadsAllHistory
  BY DEF ReadInv, PagerInv
<1>2. QED
  BY ReadInductive, <1>1, PTL

(* A client that subscribes, then pages to the end, and does not lag has   *)
(* every row that is kept once it is sent: the fan-in stores a message     *)
(* before it broadcasts it.                                                *)
THEOREM ReplayComplete == Spec => []ReplayMissesNothing
<1>1. IInv /\ ReadInv => ReplayMissesNothing
  <2> SUFFICES ASSUME IInv, ReadInv,
                      stream.on /\ ~ stream.lagged /\ stream.pos = Len(bus),
                      pager.pc = "done" /\ pager.q.limit <= MaxLimit, ~ pager.early,
                      NEW r \in Matching
               PROVE  \/ r.n \in pager.items \cup stream.frames
                      \/ r.n \in raced
                      \/ fanin[pager.q.kind].pc = "publish" /\ fanin[pager.q.kind].n = r.n
    BY DEF ReplayMissesNothing
  <2>1. ~ Ahead(r)
    <3>1. DOMAIN bus = 1 .. Len(bus) /\ Len(bus) \in Nat
      BY LenProperties DEF IInv, TypeOK
    <3>2. QED
      BY <3>1 DEF Ahead
  <2>2. r.n \in pager.history \cup stream.frames \cup raced \/ Unsent(r)
    BY <2>1 DEF ReadInv, StreamInv
  <2>3. r.n \in pager.history => r.n \in pager.items
    BY DEF ReadInv, PagerInv, PagerReadsAllHistory, Numbers
  <2>4. QED
    BY <2>2, <2>3 DEF Unsent
<1>2. QED
  BY ReadInductive, <1>1, PTL
=============================================================================
