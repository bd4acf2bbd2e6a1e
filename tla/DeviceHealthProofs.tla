-------------------------- MODULE DeviceHealthProofs ---------------------------
(***************************************************************************)
(* The properties of device health, for any agents, organisations and      *)
(* polls, any size and TTL of the cache and any bounds.                    *)
(*                                                                         *)
(* Stamps and answers have an invariant each, over types they share: what  *)
(* the watcher has in hand or in its queue against the agents, and what a  *)
(* poll or the cache has measured against the clock and the table.         *)
(***************************************************************************)
EXTENDS DeviceHealth, SequenceTheorems, FiniteSetTheorems, TLAPS

Poll == [pc : {"idle", "cache", "probe", "reply"}, org : Orgs \cup {None},
         id : 0 .. MaxDeviceId, zid : Zids \cup {None}, started : Times,
         rtt : Rtt \cup {None}]

Entry == [at : Times, rtt : Rtt]

Entries == {key \in Keys : cache[key] # None}

(* TypeOK, the other variables, and the fields that are in use. *)
Types ==
  /\ TypeOK
  /\ bridge.id \in 0 .. MaxDeviceId
  /\ freed \in [DeviceIds -> Times \cup {None}]
  /\ nextReg \in Nat /\ faults \in Nat
  /\ IsFiniteSet(Entries)
  /\ watcher.pc # "recv" => watcher.zid \in Zids /\ watcher.org \in Orgs
  /\ watcher.pc = "update" => watcher.id \in DeviceIds /\ watcher.reg \in Nat
  /\ poll \in [Polls -> Poll]
  /\ \A p \in Polls :
       /\ poll[p].pc # "idle" =>
            poll[p].org \in Orgs /\ poll[p].id \in DeviceIds /\ poll[p].zid \in Zids
       /\ poll[p].pc = "reply" => poll[p].rtt \in Rtt

(* As long as the row that the watcher selected is there, it is the one    *)
(* the sample was about.                                                   *)
WatcherInv ==
  /\ \A id \in DeviceIds : Exists(devices, id) => devices[id].reg < nextReg
  /\ watcher.pc = "update" =>
       /\ watcher.reg < nextReg
       /\ Exists(devices, watcher.id) /\ devices[watcher.id].reg = watcher.reg =>
            devices[watcher.id].zid = watcher.zid /\ devices[watcher.id].org = watcher.org

(* The agent holds its token, or the watcher has yet to hear otherwise,    *)
(* beyond this place in its queue.                                         *)
HeldBeyond(i, z, org) ==
  \/ agent[z] = org
  \/ \E j \in DOMAIN samples :
       j > i /\ samples[j] = [kind |-> "Delete", zid |-> z, org |-> org]

(* Whatever says that a device is there will be taken back, or its         *)
(* retraction was lost.  The watcher has nothing of an agent whose token   *)
(* its session has not met, so that this agent stopping unheard concerns   *)
(* no sample.                                                              *)
TokenInv ==
  /\ \A i \in DOMAIN samples :
       /\ samples[i].kind = "Put" => HeldBeyond(i, samples[i].zid, samples[i].org)
       /\ samples[i].zid \notin away
  /\ watcher.pc # "recv" =>
       HeldBeyond(0, watcher.zid, watcher.org) /\ watcher.zid \notin away
  /\ \A id \in DeviceIds :
       seen[id] = "own" =>
         \/ HeldBeyond(0, devices[id].zid, devices[id].org)
         \/ <<devices[id].zid, devices[id].org>> \in unheard

StampInv == WatcherInv /\ StampIsOwn /\ TokenInv

(* The device with this zid has, or had at this time, the row id. *)
HadRow(id, z, time) ==
  \/ Exists(devices, id) /\ devices[id].zid = z
  \/ freed[id] # None /\ freed[id] >= time

PollInv ==
  \A p \in Polls : poll[p].pc # "idle" =>
    /\ poll[p].started <= now /\ now - poll[p].started <= ProbeTime
    /\ HadRow(poll[p].id, poll[p].zid, poll[p].started)
    /\ poll[p].pc = "reply" =>
         /\ poll[p].rtt.of = poll[p].zid
         /\ poll[p].started <= poll[p].rtt.at /\ poll[p].rtt.at <= now

(* An entry is of the device that had the row id when its probe began.     *)
CacheInv ==
  \A key \in Keys : cache[key] # None =>
    /\ cache[key].rtt.at <= cache[key].at /\ cache[key].at <= now
    /\ \E started \in Times :
         /\ started <= cache[key].rtt.at /\ cache[key].at - started <= ProbeTime
         /\ HadRow(key[2], cache[key].rtt.of, started)

AnswerInv == PollInv /\ CacheInv

-----------------------------------------------------------------------------
(* Types.                                                                  *)

LEMMA Facts ==
  /\ MaxTime \in Nat /\ Times \subseteq Nat /\ 0 \in Times
  /\ DeviceIds \subseteq 0 .. MaxDeviceId /\ 0 \in 0 .. MaxDeviceId /\ 0 \notin DeviceIds
  /\ None \notin Orgs /\ None \notin Zids /\ None \notin Nat /\ None \notin Origins
  /\ AgentOrgs \subseteq Orgs
  BY HealthAssumptions, MaxDeviceIdAssumption DEF Times, DeviceIds

LEMMA NoPollType == NoPoll \in Poll /\ NoPoll.pc = "idle"
  BY Facts DEF NoPoll, Poll

LEMMA TypesInit == Init => Types
<1> SUFFICES ASSUME Init PROVE Types
  OBVIOUS
<1> USE Facts
<1>1. devices \in Table /\ \A id \in DeviceIds : ~ Exists(devices, id)
  BY DEF Init, EmptyTable, Table, Exists
<1>2. Entries = {} /\ cache \in [Keys -> Entry \cup {None}]
  BY DEF Init, Entries
<1>3. IsFiniteSet(Entries) /\ Cardinality(Entries) <= MaxEntries
  BY <1>2, FS_EmptySet, HealthAssumptions
<1>4. watcher.pc = "recv" /\ bridge.id = 0
  BY DEF Init, Rested
<1>5. poll \in [Polls -> Poll] /\ \A p \in Polls : poll[p].pc = "idle"
  BY NoPollType DEF Init
<1>6. samples \in Seq(Sample)
  BY EmptySeq DEF Init
<1>7. TypeOK
  BY <1>1, <1>2, <1>3, <1>4, <1>5, <1>6 DEF Init, TypeOK, Entries, Entry
<1>8. QED
  BY <1>3, <1>4, <1>5, <1>7 DEF Init, Types

(* A step of one poll. *)
LEMMA OnePoll ==
  ASSUME Types, NEW p \in Polls, NEW new \in Poll, poll' = [poll EXCEPT ![p] = new]
  PROVE  /\ poll' \in [Polls -> Poll] /\ poll'[p] = new
         /\ \A q \in Polls : q # p => poll'[q] = poll[q]
  BY DEF Types

LEMMA ReadRowEffect ==
  ASSUME Types, NEW p \in Polls, ReadRow(p)
  PROVE  /\ poll' \in [Polls -> Poll]
         /\ \A q \in Polls : q # p => poll'[q] = poll[q]
         /\ poll[p].pc = "idle" /\ poll'[p].pc = "cache" /\ poll'[p].started = now
         /\ Exists(devices, poll'[p].id) /\ poll'[p].id \in DeviceIds
         /\ poll'[p].zid = devices[poll'[p].id].zid
         /\ poll'[p].zid \in Zids /\ poll'[p].org \in Orgs
<1>1. PICK id \in DeviceIds :
        /\ Exists(devices, id)
        /\ poll' = [poll EXCEPT ![p] =
             [pc |-> "cache", org |-> devices[id].org, id |-> id, zid |-> devices[id].zid,
              started |-> now, rtt |-> None]]
  BY DEF ReadRow
<1>2. devices[id].zid \in Zids /\ devices[id].org \in Orgs
  BY <1>1 DEF Types, TypeOK, Table, Exists, Device
<1> DEFINE new == [pc |-> "cache", org |-> devices[id].org, id |-> id,
                   zid |-> devices[id].zid, started |-> now, rtt |-> None]
<1>3. new \in Poll
  BY <1>2, Facts DEF Poll, Types, TypeOK
<1>4. /\ poll' \in [Polls -> Poll] /\ poll'[p] = new
      /\ \A q \in Polls : q # p => poll'[q] = poll[q]
  BY <1>1, <1>3, OnePoll
<1>5. QED
  BY <1>1, <1>2, <1>4 DEF ReadRow

LEMMA CacheGetEffect ==
  ASSUME Types, NEW p \in Polls, CacheGet(p)
  PROVE  /\ poll' \in [Polls -> Poll]
         /\ \A q \in Polls : q # p => poll'[q] = poll[q]
         /\ poll[p].pc = "cache"
         /\ IF Fresh(Key(p))
              THEN poll'[p].pc = "idle"
              ELSE /\ poll'[p].pc = "probe" /\ poll'[p].id = poll[p].id
                   /\ poll'[p].org = poll[p].org /\ poll'[p].zid = poll[p].zid
                   /\ poll'[p].started = poll[p].started
<1> DEFINE new == IF Fresh(Key(p)) THEN NoPoll ELSE [poll[p] EXCEPT !.pc = "probe"]
<1>1. poll[p] \in Poll /\ poll[p].pc = "cache" /\ poll' = [poll EXCEPT ![p] = new]
  BY DEF CacheGet, Types
<1>2. /\ new \in Poll
      /\ IF Fresh(Key(p))
           THEN new.pc = "idle"
           ELSE /\ new.pc = "probe" /\ new.id = poll[p].id
                /\ new.org = poll[p].org /\ new.zid = poll[p].zid
                /\ new.started = poll[p].started
  BY <1>1, NoPollType DEF Poll
<1> HIDE DEF new
<1>3. /\ poll' \in [Polls -> Poll] /\ poll'[p] = new
      /\ \A q \in Polls : q # p => poll'[q] = poll[q]
  BY <1>1, <1>2, OnePoll
<1>4. QED
  BY <1>1, <1>2, <1>3

LEMMA ProbeEffect ==
  ASSUME Types, NEW p \in Polls, Probe(p)
  PROVE  /\ poll' \in [Polls -> Poll]
         /\ \A q \in Polls : q # p => poll'[q] = poll[q]
         /\ poll[p].pc = "probe" /\ poll'[p].pc = "reply"
         /\ poll'[p].id = poll[p].id /\ poll'[p].org = poll[p].org
         /\ poll'[p].zid = poll[p].zid /\ poll'[p].started = poll[p].started
         /\ poll'[p].rtt \in Rtt /\ poll'[p].rtt.of = poll[p].zid /\ poll'[p].rtt.at = now
<1> DEFINE rtt == [of |-> poll[p].zid, at |-> now]
           new == [poll[p] EXCEPT !.pc = "reply", !.rtt = rtt]
<1>1. poll[p] \in Poll /\ poll[p].pc = "probe" /\ poll' = [poll EXCEPT ![p] = new]
  BY DEF Probe, Types
<1>2. rtt \in Rtt
  BY <1>1 DEF Types, TypeOK, Rtt
<1>3. /\ new \in Poll /\ new.pc = "reply" /\ new.rtt = rtt /\ new.id = poll[p].id
      /\ new.org = poll[p].org /\ new.zid = poll[p].zid /\ new.started = poll[p].started
  BY <1>1, <1>2 DEF Poll
<1>4. /\ poll' \in [Polls -> Poll] /\ poll'[p] = new
      /\ \A q \in Polls : q # p => poll'[q] = poll[q]
  BY <1>1, <1>3, OnePoll
<1>5. QED
  BY <1>1, <1>2, <1>3, <1>4

LEMMA CachePutEffect ==
  ASSUME Types, NEW p \in Polls, CachePut(p)
  PROVE  /\ poll' \in [Polls -> Poll]
         /\ \A q \in Polls : q # p => poll'[q] = poll[q]
         /\ poll[p].pc = "reply" /\ poll'[p].pc = "idle"
         /\ Key(p) \in Keys
         /\ cache' \in [Keys -> Entry \cup {None}]
         /\ cache'[Key(p)] = [at |-> now, rtt |-> poll[p].rtt]
         /\ \A key \in Keys : key # Key(p) => cache'[key] \in {cache[key], None}
         /\ IsFiniteSet(Entries') /\ Cardinality(Entries') <= MaxEntries
<1>1. /\ poll[p].pc = "reply" /\ poll' = [poll EXCEPT ![p] = NoPoll]
      /\ cache' = [Kept EXCEPT ![Key(p)] = [at |-> now, rtt |-> poll[p].rtt]]
  BY DEF CachePut
<1>2. /\ poll' \in [Polls -> Poll] /\ poll'[p] = NoPoll
      /\ \A q \in Polls : q # p => poll'[q] = poll[q]
  BY <1>1, NoPollType, OnePoll
<1>3. Key(p) \in Keys
  BY <1>1 DEF Key, Keys, Types
<1>4. [at |-> now, rtt |-> poll[p].rtt] \in Entry
  BY <1>1 DEF Entry, Types, TypeOK
<1>5. Kept \in [Keys -> Entry \cup {None}] /\ \A key \in Keys : Kept[key] \in {cache[key], None}
  BY DEF Kept, Types, TypeOK, Entry
<1>6. /\ cache' \in [Keys -> Entry \cup {None}]
      /\ cache'[Key(p)] = [at |-> now, rtt |-> poll[p].rtt]
      /\ \A key \in Keys : key # Key(p) => cache'[key] = Kept[key]
  BY <1>1, <1>3, <1>4, <1>5
<1> DEFINE fresh == {key \in Keys : Fresh(key)}
<1>7. IsFiniteSet(fresh) /\ Cardinality(fresh) \in Nat
  <2>1. fresh \in SUBSET Entries
    BY DEF Entries, Fresh
  <2>2. QED
    BY <2>1, FS_Subset, FS_CardinalityType DEF Types
<1>8. IsFiniteSet(Entries') /\ Cardinality(Entries') <= MaxEntries
  <2>1. CASE Cardinality(fresh) < MaxEntries
    <3>1. Entries' \in SUBSET (fresh \cup {Key(p)})
      BY <1>3, <1>6 DEF Entries, Kept
    <3>2. /\ IsFiniteSet(fresh \cup {Key(p)})
          /\ Cardinality(fresh \cup {Key(p)}) <= Cardinality(fresh) + 1
          /\ Cardinality(fresh \cup {Key(p)}) \in Nat
      <4> HIDE DEF fresh
      <4>1. /\ IsFiniteSet(fresh \cup {Key(p)})
            /\ Cardinality(fresh \cup {Key(p)}) =
                 IF Key(p) \in fresh THEN Cardinality(fresh) ELSE Cardinality(fresh) + 1
        BY <1>7, FS_AddElement
      <4>2. QED
        BY <1>7, <4>1
    <3>3. /\ IsFiniteSet(Entries') /\ Cardinality(Entries') \in Nat
          /\ Cardinality(Entries') <= Cardinality(fresh \cup {Key(p)})
      BY <3>1, <3>2, FS_Subset, FS_CardinalityType
    <3>4. QED
      BY <1>7, <2>1, <3>2, <3>3, HealthAssumptions
  <2>2. CASE ~ (Cardinality(fresh) < MaxEntries)
    <3>1. Entries' \in SUBSET {Key(p)}
      BY <1>3, <1>6, <2>2 DEF Entries, Kept
    <3>2. IsFiniteSet({Key(p)}) /\ Cardinality({Key(p)}) = 1
      BY FS_Singleton
    <3>3. /\ IsFiniteSet(Entries') /\ Cardinality(Entries') \in Nat
          /\ Cardinality(Entries') <= 1
      BY <3>1, <3>2, FS_Subset, FS_CardinalityType
    <3>4. QED
      BY <3>3, HealthAssumptions
  <2>3. QED
    BY <2>1, <2>2
<1>9. QED
  BY <1>1, <1>2, <1>3, <1>5, <1>6, <1>8, NoPollType

(* A row that is inserted, and one that is deleted. *)
LEMMA InsertEffect ==
  ASSUME Types, NEW id \in DeviceIds, NEW zid \in Zids, NEW org \in Orgs,
         NEW from \in Origins \cup {None}, Insert(id, zid, org, from)
  PROVE  /\ ~ Exists(devices, id) /\ Exists(devices, id)'
         /\ devices' \in Table
         /\ devices'[id].zid = zid /\ devices'[id].org = org /\ devices'[id].reg = nextReg
         /\ seen' \in [DeviceIds -> Origins \cup {None}] /\ seen'[id] = from
         /\ \A i \in DeviceIds : i # id => devices'[i] = devices[i] /\ seen'[i] = seen[i]
         /\ nextReg' = nextReg + 1
<1>1. IsNextId(devices, id) /\ devices' = Inserted(devices, id, zid, org, nextReg)
  BY DEF Insert
<1>2. ~ Exists(devices, id)
  BY <1>1 DEF IsNextId, DeviceIds
<1>3. [zid |-> zid, org |-> org, reg |-> nextReg] \in Device
  BY DEF Device, Types
<1>4. /\ devices' \in Table /\ devices'[id] = [zid |-> zid, org |-> org, reg |-> nextReg]
      /\ \A i \in DeviceIds : i # id => devices'[i] = devices[i]
  BY <1>1, <1>3 DEF Inserted, Table, Types, TypeOK
<1>5. Exists(devices, id)'
  BY <1>3, <1>4, NoDeviceAssumption DEF Exists
<1>6. /\ seen' \in [DeviceIds -> Origins \cup {None}] /\ seen'[id] = from
      /\ \A i \in DeviceIds : i # id => seen'[i] = seen[i]
  BY DEF Insert, Stamped, Types, TypeOK
<1>7. QED
  BY <1>2, <1>4, <1>5, <1>6 DEF Insert

LEMMA DeleteEffect ==
  ASSUME Types, DeleteDevice
  PROVE  \E id \in DeviceIds :
           /\ Exists(devices, id) /\ ~ Exists(devices, id)'
           /\ devices' \in Table
           /\ seen' \in [DeviceIds -> Origins \cup {None}] /\ seen'[id] = None
           /\ freed' \in [DeviceIds -> Times \cup {None}] /\ freed'[id] = now
           /\ \A i \in DeviceIds : i # id =>
                devices'[i] = devices[i] /\ seen'[i] = seen[i] /\ freed'[i] = freed[i]
<1>1. PICK id \in DeviceIds :
        /\ Exists(devices, id)
        /\ devices' = Removed(devices, id)
        /\ Stamped(id, None)
        /\ freed' = [freed EXCEPT ![id] = now]
  BY DEF DeleteDevice
<1>2. /\ devices' \in Table /\ devices'[id] = NoDevice
      /\ \A i \in DeviceIds : i # id => devices'[i] = devices[i]
  BY <1>1 DEF Removed, Table, Types, TypeOK
<1>3. /\ seen' \in [DeviceIds -> Origins \cup {None}] /\ seen'[id] = None
      /\ \A i \in DeviceIds : i # id => seen'[i] = seen[i]
  BY <1>1 DEF Stamped, Types, TypeOK
<1>4. /\ freed' \in [DeviceIds -> Times \cup {None}] /\ freed'[id] = now
      /\ \A i \in DeviceIds : i # id => freed'[i] = freed[i]
  BY <1>1 DEF Types, TypeOK
<1>5. QED
  BY <1>1, <1>2, <1>3, <1>4 DEF Exists

(* A queue of samples that grows, and one that is read. *)
LEMMA QueueGrows ==
  ASSUME Types, NEW s \in Sample, samples' = Append(samples, s)
  PROVE  /\ samples' \in Seq(Sample) /\ Len(samples) \in Nat
         /\ DOMAIN samples = 1 .. Len(samples)
         /\ DOMAIN samples' = 1 .. (Len(samples) + 1)
         /\ \A i \in DOMAIN samples : samples'[i] = samples[i]
         /\ samples'[Len(samples) + 1] = s
  BY AppendProperties DEF Types, TypeOK

LEMMA QueueRead ==
  ASSUME Types, samples # <<>>, samples' = Tail(samples)
  PROVE  /\ Head(samples) \in Sample /\ Head(samples) = samples[1]
         /\ samples' \in Seq(Sample) /\ Len(samples) \in Nat \ {0}
         /\ DOMAIN samples = 1 .. Len(samples)
         /\ DOMAIN samples' = 1 .. (Len(samples) - 1)
         /\ \A i \in DOMAIN samples' : samples'[i] = samples[i + 1]
<1>1. /\ samples \in Seq(Sample) /\ Head(samples) \in Sample /\ Head(samples) = samples[1]
      /\ samples' \in Seq(Sample) /\ Len(samples') = Len(samples) - 1
      /\ \A i \in 1 .. Len(samples') : samples'[i] = samples[i + 1]
  BY HeadTailProperties DEF Types, TypeOK
<1>2. Len(samples) \in Nat \ {0}
  BY <1>1, EmptySeq
<1>3. QED
  BY <1>1, <1>2

LEMMA SelectEffect ==
  ASSUME Types, Select
  PROVE  /\ watcher.pc = "recv" /\ samples # <<>> /\ samples' = Tail(samples)
         /\ Head(samples) \in Sample /\ Head(samples).kind = "Put"
         /\ watcher'.pc \in {"update", "insert"}
         /\ watcher'.zid = Head(samples).zid /\ watcher'.org = Head(samples).org
         /\ watcher'.pc = "update" =>
              /\ watcher'.id \in DeviceIds /\ Finds(watcher'.id, watcher'.zid, watcher'.org)
              /\ watcher'.reg = devices[watcher'.id].reg
  BY HeadTailProperties DEF Select, Types, TypeOK

LEMMA RetractedType == \A s \in Sample : Retracted(s) \subseteq Zids \X Orgs
  BY DEF Retracted, Sample

(* An agent declares or retracts its token, and the gateway hears of it.   *)
LEMMA SentEffect ==
  ASSUME Types, NEW z \in Zids, Start(z) \/ (Stop(z) /\ z \notin away) \/ Redeclare(z)
  PROVE  \E s \in Sample :
           /\ samples' = Append(samples, s) /\ s.zid = z
           /\ s.kind = "Put" => agent'[z] = s.org
           /\ \/ agent[z] = None \/ agent'[z] = agent[z]
              \/ s = [kind |-> "Delete", zid |-> z, org |-> agent[z]]
           /\ agent' \in [Zids -> Orgs \cup {None}]
           /\ \A k \in Zids : k # z => agent'[k] = agent[k]
           /\ away' = away \ {z} /\ unheard' = unheard
<1> USE Facts
<1>1. /\ agent \in [Zids -> Orgs \cup {None}]
      /\ \A k \in away : k \in Zids /\ agent[k] # None
  BY DEF Types, TypeOK
<1>2. CASE Start(z)
  <2>1. PICK org \in AgentOrgs :
          agent' = [agent EXCEPT ![z] = org] /\ Sends("Put", z, org)
    BY <1>2 DEF Start
  <2> DEFINE s == [kind |-> "Put", zid |-> z, org |-> org]
  <2>2. s \in Sample /\ samples' = Append(samples, s) /\ s.zid = z /\ s.org = org
    BY <2>1 DEF Sample, Sends
  <2>3. /\ agent' \in [Zids -> Orgs \cup {None}] /\ agent'[z] = org
        /\ \A k \in Zids : k # z => agent'[k] = agent[k]
    BY <1>1, <2>1
  <2>4. agent[z] = None /\ away' = away \ {z} /\ unheard' = unheard
    BY <1>1, <1>2 DEF Start
  <2> HIDE DEF s
  <2>5. QED
    BY <2>2, <2>3, <2>4
<1>3. CASE Stop(z) /\ z \notin away
  <2> DEFINE s == [kind |-> "Delete", zid |-> z, org |-> agent[z]]
  <2>1. agent[z] \in Orgs
    BY <1>1, <1>3 DEF Stop
  <2>2. s \in Sample /\ samples' = Append(samples, s) /\ s.zid = z /\ s.kind # "Put"
    BY <1>3, <2>1 DEF Sample, Sends, Stop
  <2>3. /\ agent' \in [Zids -> Orgs \cup {None}]
        /\ \A k \in Zids : k # z => agent'[k] = agent[k]
        /\ away' = away \ {z} /\ unheard' = unheard
    BY <1>1, <1>3 DEF Stop
  <2>4. s = [kind |-> "Delete", zid |-> z, org |-> agent[z]]
    OBVIOUS
  <2> HIDE DEF s
  <2>5. QED
    BY <2>2, <2>3, <2>4
<1>4. CASE Redeclare(z)
  <2> DEFINE s == [kind |-> "Put", zid |-> z, org |-> agent[z]]
  <2>1. agent[z] \in Orgs
    BY <1>1, <1>4 DEF Redeclare
  <2>2. s \in Sample /\ samples' = Append(samples, s) /\ s.zid = z /\ s.org = agent[z]
    BY <1>4, <2>1 DEF Sample, Sends, Redeclare
  <2>3. agent' = agent /\ away' = away \ {z} /\ unheard' = unheard
    BY <1>4 DEF Redeclare
  <2> HIDE DEF s
  <2>4. QED
    BY <1>1, <2>2, <2>3
<1>5. QED
  BY <1>2, <1>3, <1>4

(* It stops, and the gateway has not heard of it to begin with. *)
LEMMA LostEffect ==
  ASSUME Types, NEW z \in Zids, Stop(z), z \in away
  PROVE  /\ samples' = samples
         /\ agent[z] \in Orgs /\ unheard' = unheard \cup {<<z, agent[z]>>}
         /\ agent' \in [Zids -> Orgs \cup {None}]
         /\ \A k \in Zids : k # z => agent'[k] = agent[k]
         /\ away' = away \ {z}
  BY Facts DEF Stop, Types, TypeOK

LEMMA TypesStep == Types /\ [Next]_vars => Types'
<1> SUFFICES ASSUME Types, [Next]_vars PROVE Types'
  OBVIOUS
<1> USE Facts
<1>1. ASSUME Tick PROVE Types'
  <2>1. now' \in Times
    BY <1>1 DEF Tick, Times, Types, TypeOK
  <2>2. QED
    BY <1>1, <2>1 DEF Tick, table, link, agents, health, Types, TypeOK, Entries, Exists
<1>2. ASSUME NEW z \in Zids, Start(z) \/ Stop(z) \/ Redeclare(z) PROVE Types'
  <2>1. /\ agent' \in [Zids -> Orgs \cup {None}]
        /\ \A k \in Zids : k # z => agent'[k] = agent[k]
        /\ away' = away \ {z}
        /\ samples' \in Seq(Sample) /\ unheard' \in SUBSET (Zids \X Orgs)
    <3>1. samples \in Seq(Sample) /\ unheard \in SUBSET (Zids \X Orgs)
      BY DEF Types, TypeOK
    <3>2. CASE Stop(z) /\ z \in away
      BY <3>1, <3>2, LostEffect
    <3>3. CASE ~ (Stop(z) /\ z \in away)
      BY <1>2, <3>1, <3>3, SentEffect, QueueGrows
    <3>4. QED
      BY <3>2, <3>3
  <2>2. away' \in SUBSET {k \in Zids : agent'[k] # None}
    BY <2>1 DEF Types, TypeOK
  <2>3. UNCHANGED <<now, table, watcher, bridge, health, freed, nextReg, faults>>
    BY <1>2 DEF Start, Stop, Redeclare
  <2>4. QED
    BY <2>1, <2>2, <2>3 DEF table, health, Types, TypeOK, Entries, Exists
<1>3. ASSUME NEW id \in DeviceIds, NEW zid \in Zids, NEW org \in Orgs,
             NEW from \in Origins \cup {None}, Insert(id, zid, org, from)
      PROVE  /\ devices' \in Table /\ seen' \in [DeviceIds -> Origins \cup {None}]
             /\ \A i \in DeviceIds : seen'[i] # None => Exists(devices, i)'
             /\ nextReg' \in Nat
  <2>1. /\ Exists(devices, id)' /\ devices' \in Table
        /\ seen' \in [DeviceIds -> Origins \cup {None}]
        /\ \A i \in DeviceIds : i # id => devices'[i] = devices[i] /\ seen'[i] = seen[i]
        /\ nextReg' = nextReg + 1
    BY <1>3, InsertEffect
  <2>2. QED
    BY <2>1 DEF Types, TypeOK, Exists
<1>4. ASSUME RegisterDevice PROVE Types'
  <2>1. /\ devices' \in Table /\ seen' \in [DeviceIds -> Origins \cup {None}]
        /\ \A i \in DeviceIds : seen'[i] # None => Exists(devices, i)'
        /\ nextReg' \in Nat
    BY <1>3, <1>4 DEF RegisterDevice
  <2>2. QED
    BY <1>4, <2>1 DEF RegisterDevice, link, agents, health, Types, TypeOK, Entries
<1>5. ASSUME DeleteDevice PROVE Types'
  <2>1. /\ devices' \in Table /\ seen' \in [DeviceIds -> Origins \cup {None}]
        /\ freed' \in [DeviceIds -> Times \cup {None}]
        /\ \A i \in DeviceIds : seen'[i] # None => Exists(devices, i)'
    <3>1. PICK id \in DeviceIds :
            /\ devices' \in Table
            /\ seen' \in [DeviceIds -> Origins \cup {None}] /\ seen'[id] = None
            /\ freed' \in [DeviceIds -> Times \cup {None}]
            /\ \A i \in DeviceIds : i # id => devices'[i] = devices[i] /\ seen'[i] = seen[i]
      BY <1>5, DeleteEffect
    <3>2. QED
      BY <3>1 DEF Types, TypeOK, Exists
  <2>2. QED
    BY <1>5, <2>1 DEF DeleteDevice, link, agents, health, Types, TypeOK, Entries
<1>6. ASSUME Select PROVE Types'
  <2>1. samples' \in Seq(Sample)
    BY <1>6, SelectEffect, QueueRead
  <2>2. /\ watcher'.pc \in {"update", "insert"}
        /\ watcher'.zid \in Zids /\ watcher'.org \in Orgs
        /\ watcher'.pc = "update" => watcher'.id \in DeviceIds /\ watcher'.reg \in Nat
    <3>1. \A id \in DeviceIds : Exists(devices, id) => devices[id].reg \in Nat
      BY DEF Exists, Types, TypeOK, Table, Device
    <3>2. QED
      BY <1>6, <3>1, SelectEffect DEF Finds, InOrg, Sample
  <2>3. QED
    BY <1>6, <2>1, <2>2 DEF Select, table, agents, health, Types, TypeOK, Entries, Exists
<1>7. ASSUME NEW id \in DeviceIds, NEW from \in Origins, Exists(devices, id), Stamped(id, from),
             devices' = devices
      PROVE  /\ seen' \in [DeviceIds -> Origins \cup {None}]
             /\ \A i \in DeviceIds : seen'[i] # None => Exists(devices, i)'
  BY <1>7 DEF Stamped, Types, TypeOK, Exists
<1>8. ASSUME Update PROVE Types'
  <2>1. /\ seen' \in [DeviceIds -> Origins \cup {None}]
        /\ \A i \in DeviceIds : seen'[i] # None => Exists(devices, i)'
    <3>1. From(watcher.id) \in Origins
      BY DEF From, Origins
    <3>2. watcher.id \in DeviceIds /\ devices' = devices
      BY <1>8 DEF Update, Types
    <3>3. CASE Exists(devices, watcher.id)
      BY <1>7, <1>8, <3>1, <3>2, <3>3 DEF Update
    <3>4. CASE ~ Exists(devices, watcher.id)
      BY <1>8, <3>2, <3>4 DEF Update, Types, TypeOK, Exists
    <3>5. QED
      BY <3>3, <3>4
  <2>2. QED
    BY <1>8, <2>1 DEF Update, Rested, link, agents, health, Types, TypeOK, Entries
<1>9. ASSUME InsertSeen PROVE Types'
  <2>1. /\ devices' \in Table /\ seen' \in [DeviceIds -> Origins \cup {None}]
        /\ \A i \in DeviceIds : seen'[i] # None => Exists(devices, i)'
        /\ nextReg' \in Nat
    <3>1. watcher.zid \in Zids /\ watcher.org \in Orgs /\ "own" \in Origins
      BY <1>9 DEF InsertSeen, Types, Origins
    <3>2. CASE ZidFree(devices, watcher.zid)
      BY <1>3, <1>9, <3>1, <3>2 DEF InsertSeen
    <3>3. CASE ~ ZidFree(devices, watcher.zid)
      BY <1>9, <3>3 DEF InsertSeen, Types, TypeOK, Exists
    <3>4. QED
      BY <3>2, <3>3
  <2>2. QED
    BY <1>9, <2>1 DEF InsertSeen, Rested, link, agents, health, Types, TypeOK, Entries
<1>10. ASSUME MarkOffline PROVE Types'
  <2>1. samples' \in Seq(Sample)
    BY <1>10, QueueRead DEF MarkOffline
  <2>2. /\ seen' \in [DeviceIds -> Origins \cup {None}]
        /\ \A i \in DeviceIds : seen'[i] # None => Exists(devices, i)'
    BY <1>10 DEF MarkOffline, Types, TypeOK, Exists
  <2>3. unheard' \in SUBSET (Zids \X Orgs)
    BY <1>10 DEF MarkOffline, Types, TypeOK
  <2>4. QED
    BY <1>10, <2>1, <2>2, <2>3 DEF MarkOffline, agents, health, Types, TypeOK, Entries
<1>11. ASSUME OpenBridge PROVE Types'
  <2>1. bridge'.id \in 0 .. MaxDeviceId
    <3>1. \E id \in DeviceIds : bridge' = [id |-> id]
      BY <1>11 DEF OpenBridge
    <3>2. QED
      BY <3>1
  <2>2. QED
    BY <1>11, <2>1 DEF OpenBridge, table, link, agents, health, Types, TypeOK, Entries, Exists
<1>12. ASSUME EndBridge PROVE Types'
  <2>1. /\ seen' \in [DeviceIds -> Origins \cup {None}]
        /\ \A i \in DeviceIds : seen'[i] # None => Exists(devices, i)'
    <3>1. devices' = devices
      BY <1>12 DEF EndBridge
    <3>2. CASE Exists(devices, bridge.id) /\ Stamped(bridge.id, "bridge")
      BY <1>7, <3>1, <3>2 DEF Origins, Exists
    <3>3. CASE UNCHANGED seen
      BY <3>1, <3>3 DEF Types, TypeOK, Exists
    <3>4. QED
      BY <1>12, <3>2, <3>3 DEF EndBridge
  <2>2. bridge'.id \in 0 .. MaxDeviceId
    BY <1>12 DEF EndBridge
  <2>3. QED
    BY <1>12, <2>1, <2>2 DEF EndBridge, link, agents, health, Types, TypeOK, Entries
<1>13. ASSUME NEW p \in Polls, ReadRow(p) PROVE Types'
  <2>1. /\ poll' \in [Polls -> Poll]
        /\ \A q \in Polls : q # p => poll'[q] = poll[q]
        /\ poll'[p].pc = "cache" /\ poll'[p].id \in DeviceIds
        /\ poll'[p].zid \in Zids /\ poll'[p].org \in Orgs
    BY <1>13, ReadRowEffect
  <2>2. UNCHANGED <<now, table, link, watcher, bridge, cache, freed, nextReg, faults>>
    BY <1>13 DEF ReadRow
  <2>3. \A q \in Polls : poll'[q].pc \in {"idle", "cache", "probe", "reply"}
    BY <2>1 DEF Poll
  <2>4. TypeOK'
    BY <2>2, <2>3 DEF table, link, agents, Types, TypeOK, Entries, Exists
  <2>5. QED
    BY <2>1, <2>2, <2>4 DEF Types, Entries
<1>14. ASSUME NEW p \in Polls, CacheGet(p) PROVE Types'
  <2>1. /\ poll' \in [Polls -> Poll]
        /\ \A q \in Polls : q # p => poll'[q] = poll[q]
        /\ poll[p].pc = "cache"
        /\ \/ poll'[p].pc = "idle"
           \/ /\ poll'[p].pc = "probe" /\ poll'[p].id = poll[p].id
              /\ poll'[p].org = poll[p].org /\ poll'[p].zid = poll[p].zid
    BY <1>14, CacheGetEffect
  <2>2. UNCHANGED <<now, table, link, watcher, bridge, cache, freed, nextReg, faults>>
    BY <1>14 DEF CacheGet
  <2>3. \A q \in Polls : poll'[q].pc \in {"idle", "cache", "probe", "reply"}
    BY <2>1 DEF Poll
  <2>4. TypeOK'
    BY <2>2, <2>3 DEF table, link, agents, Types, TypeOK, Entries, Exists
  <2>5. QED
    BY <2>1, <2>2, <2>4 DEF Types, Entries
<1>15. ASSUME NEW p \in Polls, Probe(p) PROVE Types'
  <2>1. /\ poll' \in [Polls -> Poll]
        /\ \A q \in Polls : q # p => poll'[q] = poll[q]
        /\ poll[p].pc = "probe" /\ poll'[p].pc = "reply" /\ poll'[p].rtt \in Rtt
        /\ poll'[p].id = poll[p].id /\ poll'[p].org = poll[p].org
        /\ poll'[p].zid = poll[p].zid
    BY <1>15, ProbeEffect
  <2>2. UNCHANGED <<now, table, link, watcher, bridge, cache, freed, nextReg, faults>>
    BY <1>15 DEF Probe
  <2>3. \A q \in Polls : poll'[q].pc \in {"idle", "cache", "probe", "reply"}
    BY <2>1 DEF Poll
  <2>4. TypeOK'
    BY <2>2, <2>3 DEF table, link, agents, Types, TypeOK, Entries, Exists
  <2>5. QED
    BY <2>1, <2>2, <2>4 DEF Types, Entries
<1>16. ASSUME NEW p \in Polls, CachePut(p) PROVE Types'
  <2>1. /\ poll' \in [Polls -> Poll]
        /\ \A q \in Polls : q # p => poll'[q] = poll[q]
        /\ poll'[p].pc = "idle"
        /\ cache' \in [Keys -> Entry \cup {None}]
        /\ IsFiniteSet(Entries') /\ Cardinality(Entries') <= MaxEntries
    BY <1>16, CachePutEffect
  <2>2. \A q \in Polls : poll'[q].pc \in {"idle", "cache", "probe", "reply"}
    BY <2>1 DEF Poll
  <2>3. UNCHANGED <<now, table, link, watcher, bridge, freed, nextReg, faults>>
    BY <1>16 DEF CachePut
  <2>4. TypeOK'
    BY <2>1, <2>2, <2>3 DEF table, link, agents, Types, TypeOK, Entries, Entry, Exists
  <2>5. QED
    BY <2>1, <2>3, <2>4 DEF Types
<1>17. ASSUME Restart PROVE Types'
  <2>1. /\ samples' \in Seq(Sample) /\ away' \in SUBSET {z \in Zids : agent'[z] # None}
        /\ unheard' \in SUBSET (Zids \X Orgs)
    <3>1. samples' = <<>> /\ away' = {z \in Zids : agent'[z] # None}
      BY <1>17 DEF Restart
    <3>2. unheard' = unheard \cup UNION {Retracted(samples[i]) : i \in DOMAIN samples}
      BY <1>17 DEF Restart
    <3>3. \A i \in DOMAIN samples : Retracted(samples[i]) \subseteq Zids \X Orgs
      BY RetractedType DEF Types, TypeOK
    <3>4. unheard \subseteq Zids \X Orgs
      BY DEF Types, TypeOK
    <3>5. QED
      BY <3>1, <3>2, <3>3, <3>4, EmptySeq
  <2>2. poll' \in [Polls -> Poll] /\ \A p \in Polls : poll'[p].pc = "idle"
    BY <1>17, NoPollType DEF Restart
  <2>3. /\ Entries' = {} /\ cache' \in [Keys -> Entry \cup {None}]
        /\ IsFiniteSet(Entries') /\ Cardinality(Entries') <= MaxEntries
    <3>1. Entries' = {} /\ cache' \in [Keys -> Entry \cup {None}]
      BY <1>17 DEF Restart, Entries
    <3>2. QED
      BY <3>1, FS_EmptySet, HealthAssumptions
  <2>4. faults' \in Nat /\ watcher'.pc = "recv" /\ bridge'.id = 0
    BY <1>17 DEF Restart, Rested, Types
  <2>5. UNCHANGED <<now, table, agent, freed, nextReg>>
    BY <1>17 DEF Restart
  <2>6. TypeOK'
    BY <2>1, <2>2, <2>3, <2>4, <2>5 DEF table, Types, TypeOK, Entries, Entry, Exists
  <2>7. QED
    BY <2>2, <2>3, <2>4, <2>5, <2>6 DEF Types
<1>18. ASSUME SampleFails PROVE Types'
  <2>1. samples' \in Seq(Sample) /\ unheard' \in SUBSET (Zids \X Orgs)
    <3>1. samples \in Seq(Sample) /\ unheard \in SUBSET (Zids \X Orgs)
      BY DEF Types, TypeOK
    <3>2. CASE UNCHANGED <<samples, unheard>>
      BY <3>1, <3>2
    <3>3. CASE ~ UNCHANGED <<samples, unheard>>
      <4>1. /\ samples # <<>> /\ samples' = Tail(samples)
            /\ unheard' = unheard \cup Retracted(Head(samples))
        BY <1>18, <3>3 DEF SampleFails
      <4>2. samples' \in Seq(Sample) /\ Retracted(Head(samples)) \subseteq Zids \X Orgs
        BY <4>1, QueueRead, RetractedType
      <4>3. QED
        BY <3>1, <4>1, <4>2
    <3>4. QED
      BY <3>2, <3>3
  <2>2. watcher' = watcher \/ watcher'.pc = "recv"
    BY <1>18 DEF SampleFails, Rested
  <2>3. /\ faults' \in Nat
        /\ UNCHANGED <<now, table, agents, bridge, health, freed, nextReg>>
    BY <1>18 DEF SampleFails, Types
  <2>4. QED
    BY <2>1, <2>2, <2>3 DEF table, agents, health, Types, TypeOK, Entries, Exists
<1>19. CASE UNCHANGED vars
  BY <1>19 DEF vars, table, link, agents, health, Types, TypeOK, Entries, Exists
<1>20. QED
  BY <1>1, <1>2, <1>4, <1>5, <1>6, <1>8, <1>9, <1>10, <1>11, <1>12, <1>13, <1>14, <1>15,
     <1>16, <1>17, <1>18, <1>19 DEF Next

-----------------------------------------------------------------------------
(* Stamps.                                                                 *)

(* A step leaves the devices as they are, adds one under a free row id, or *)
(* takes one away.                                                         *)
LEMMA DevicesStep ==
  ASSUME Types, [Next]_vars
  PROVE  \/ UNCHANGED <<devices, freed, nextReg>>
         \/ \E id \in DeviceIds :
              /\ ~ Exists(devices, id) /\ devices'[id].reg = nextReg
              /\ \A i \in DeviceIds : i # id => devices'[i] = devices[i]
              /\ nextReg' = nextReg + 1 /\ freed' = freed
         \/ \E id \in DeviceIds :
              /\ ~ Exists(devices, id)' /\ freed'[id] = now
              /\ \A i \in DeviceIds : i # id => devices'[i] = devices[i] /\ freed'[i] = freed[i]
              /\ nextReg' = nextReg
<1>1. ASSUME NEW id \in DeviceIds, NEW zid \in Zids, NEW org \in Orgs,
             NEW from \in Origins \cup {None}, Insert(id, zid, org, from)
      PROVE  /\ ~ Exists(devices, id) /\ devices'[id].reg = nextReg
             /\ \A i \in DeviceIds : i # id => devices'[i] = devices[i]
             /\ nextReg' = nextReg + 1
  BY <1>1, InsertEffect
<1>2. CASE RegisterDevice
  BY <1>1, <1>2 DEF RegisterDevice
<1>3. CASE InsertSeen
  <2>1. watcher.zid \in Zids /\ watcher.org \in Orgs /\ "own" \in Origins
    BY <1>3 DEF InsertSeen, Types, Origins
  <2>2. QED
    BY <1>1, <1>3, <2>1 DEF InsertSeen
<1>4. CASE DeleteDevice
  <2>1. nextReg' = nextReg
    BY <1>4 DEF DeleteDevice
  <2>2. QED
    BY <1>4, <2>1, DeleteEffect
<1>5. CASE ~ RegisterDevice /\ ~ InsertSeen /\ ~ DeleteDevice
  BY <1>5 DEF Next, Tick, Start, Stop, Redeclare, Select, Update, MarkOffline, SampleFails,
              OpenBridge, EndBridge,
              ReadRow, CacheGet, Probe, CachePut, Restart, vars, table
<1>6. QED
  BY <1>2, <1>3, <1>4, <1>5

LEMMA WatcherStep ==
  ASSUME Types, WatcherInv, [Next]_vars
  PROVE  WatcherInv'
<1>0. /\ nextReg \in Nat
      /\ \A id \in DeviceIds : Exists(devices, id) => devices[id].reg \in Nat
  BY DEF Types, TypeOK, Table, Device, Exists
<1>1. \A id \in DeviceIds : Exists(devices, id)' => devices'[id].reg < nextReg'
  BY <1>0, DevicesStep DEF WatcherInv, Exists
<1>2. CASE Select
  <2>1. /\ watcher'.pc = "update" =>
             /\ watcher'.id \in DeviceIds /\ Finds(watcher'.id, watcher'.zid, watcher'.org)
             /\ watcher'.reg = devices[watcher'.id].reg
        /\ UNCHANGED <<devices, nextReg>>
    BY <1>2, SelectEffect DEF Select, table
  <2>2. QED
    BY <1>1, <2>1 DEF WatcherInv, Finds, InOrg
<1>3. CASE watcher'.pc = "recv"
  BY <1>1, <1>3 DEF WatcherInv
<1>4. CASE watcher' = watcher
  <2>1. ASSUME watcher.pc = "update"
        PROVE  /\ watcher.reg < nextReg'
               /\ Exists(devices, watcher.id)' /\ devices'[watcher.id].reg = watcher.reg =>
                    devices'[watcher.id].zid = watcher.zid /\ devices'[watcher.id].org = watcher.org
    <3>1. /\ watcher.id \in DeviceIds /\ watcher.reg \in Nat /\ watcher.reg < nextReg
          /\ Exists(devices, watcher.id) /\ devices[watcher.id].reg = watcher.reg =>
               devices[watcher.id].zid = watcher.zid /\ devices[watcher.id].org = watcher.org
      BY <2>1 DEF WatcherInv, Types
    <3>2. watcher.reg < nextReg'
      BY <1>0, <3>1, DevicesStep
    <3>3. ASSUME Exists(devices, watcher.id)', devices'[watcher.id].reg = watcher.reg
          PROVE  devices'[watcher.id] = devices[watcher.id]
      BY <1>0, <1>4, <3>1, <3>3, DevicesStep DEF Exists
    <3>4. QED
      BY <1>4, <3>1, <3>2, <3>3 DEF Exists
  <2>2. QED
    BY <1>1, <1>4, <2>1 DEF WatcherInv
<1>5. Select \/ watcher' = watcher \/ watcher' = Rested
  BY DEF Next, Tick, RegisterDevice, DeleteDevice, Start, Stop, Redeclare, Update, InsertSeen,
         MarkOffline, SampleFails, OpenBridge, EndBridge, ReadRow, CacheGet, Probe, CachePut,
         Restart, vars
<1>6. QED
  BY <1>2, <1>3, <1>4, <1>5 DEF Rested

(* Where a stamp comes from. *)
LEMMA SeenStep ==
  ASSUME Types, [Next]_vars, NEW i \in DeviceIds
  PROVE  \/ seen'[i] = seen[i] /\ devices'[i] = devices[i]
         \/ seen'[i] \in {None, "bridge"}
         \/ /\ Update /\ i = watcher.id /\ Exists(devices, i)
            /\ seen'[i] = From(i) /\ devices' = devices
         \/ /\ InsertSeen /\ seen'[i] = "own"
            /\ devices'[i].zid = watcher.zid /\ devices'[i].org = watcher.org
<1>1. CASE RegisterDevice
  <2>1. PICK id \in DeviceIds :
          /\ seen'[id] = None
          /\ \A k \in DeviceIds : k # id => devices'[k] = devices[k] /\ seen'[k] = seen[k]
    BY <1>1, InsertEffect DEF RegisterDevice
  <2>2. QED
    BY <2>1
<1>2. CASE DeleteDevice
  BY <1>2, DeleteEffect
<1>3. CASE Update
  BY <1>3 DEF Update, Stamped, Types, TypeOK, Exists
<1>4. CASE InsertSeen
  <2>1. watcher.zid \in Zids /\ watcher.org \in Orgs /\ "own" \in Origins
    BY <1>4 DEF InsertSeen, Types, Origins
  <2>2. CASE ZidFree(devices, watcher.zid)
    <3>1. PICK id \in DeviceIds : Insert(id, watcher.zid, watcher.org, "own")
      BY <1>4, <2>2 DEF InsertSeen
    <3>2. /\ seen'[id] = "own"
          /\ devices'[id].zid = watcher.zid /\ devices'[id].org = watcher.org
          /\ \A k \in DeviceIds : k # id => devices'[k] = devices[k] /\ seen'[k] = seen[k]
      BY <2>1, <3>1, InsertEffect
    <3>3. QED
      BY <1>4, <3>2
  <2>3. CASE ~ ZidFree(devices, watcher.zid)
    BY <1>4, <2>3 DEF InsertSeen
  <2>4. QED
    BY <2>2, <2>3
<1>5. CASE MarkOffline
  BY <1>5 DEF MarkOffline
<1>6. CASE EndBridge
  BY <1>6 DEF EndBridge, Stamped, Types, TypeOK
<1>7. CASE /\ ~ RegisterDevice /\ ~ DeleteDevice /\ ~ Update /\ ~ InsertSeen
           /\ ~ MarkOffline /\ ~ EndBridge
  BY <1>7 DEF Next, Tick, Start, Stop, Redeclare, Select, SampleFails, OpenBridge,
              ReadRow, CacheGet, Probe, CachePut,
              Restart, vars, table
<1>8. QED
  BY <1>1, <1>2, <1>3, <1>4, <1>5, <1>6, <1>7

(* An upsert stamps the row it selected, or knows that it is gone. *)
LEMMA UpdateStamps ==
  ASSUME Types, WatcherInv, watcher.pc = "update", Exists(devices, watcher.id)
  PROVE  From(watcher.id) \in {"own", "gone"}
  BY DEF From, WatcherInv

LEMMA StampStep ==
  ASSUME Types, WatcherInv, StampIsOwn, [Next]_vars
  PROVE  StampIsOwn'
<1> SUFFICES ASSUME NEW i \in DeviceIds PROVE seen'[i] # "other"
  BY DEF StampIsOwn
<1>1. "other" # None /\ seen[i] # "other"
  BY Facts DEF Origins, StampIsOwn
<1>2. ASSUME Update, i = watcher.id, Exists(devices, i), seen'[i] = From(i)
      PROVE  seen'[i] # "other"
  BY <1>2, UpdateStamps DEF Update
<1>3. QED
  BY <1>1, <1>2, SeenStep

(* Tokens: what is in the queue when a sample is added, and when one is    *)
(* read.                                                                   *)
LEMMA HeldSent ==
  ASSUME Types, NEW z \in Zids, Start(z) \/ (Stop(z) /\ z \notin away) \/ Redeclare(z),
         NEW i \in 0 .. Len(samples), NEW k \in Zids, NEW org \in Orgs, HeldBeyond(i, k, org)
  PROVE  HeldBeyond(i, k, org)'
<1>1. Len(samples) \in Nat
  BY DEF Types, TypeOK
<1>2. PICK s \in Sample :
        /\ samples' = Append(samples, s)
        /\ \/ agent[z] = None \/ agent'[z] = agent[z]
           \/ s = [kind |-> "Delete", zid |-> z, org |-> agent[z]]
        /\ \A y \in Zids : y # z => agent'[y] = agent[y]
  BY SentEffect
<1>3. /\ DOMAIN samples = 1 .. Len(samples)
      /\ DOMAIN samples' = 1 .. (Len(samples) + 1)
      /\ \A j \in DOMAIN samples : samples'[j] = samples[j]
      /\ samples'[Len(samples) + 1] = s
  BY <1>2, QueueGrows
<1>4. CASE agent[k] = org
  <2>1. CASE agent'[k] = org
    BY <2>1 DEF HeldBeyond
  <2>2. CASE agent'[k] # org
    <3>1. samples'[Len(samples) + 1] = [kind |-> "Delete", zid |-> k, org |-> org]
      BY <1>2, <1>3, <1>4, <2>2, Facts
    <3>2. QED
      BY <1>1, <1>3, <3>1 DEF HeldBeyond
  <2>3. QED
    BY <2>1, <2>2
<1>5. ASSUME NEW j \in DOMAIN samples, j > i,
             samples[j] = [kind |-> "Delete", zid |-> k, org |-> org]
      PROVE  HeldBeyond(i, k, org)'
  BY <1>1, <1>3, <1>5 DEF HeldBeyond
<1>6. QED
  BY <1>4, <1>5 DEF HeldBeyond

LEMMA HeldRead ==
  ASSUME Types, samples # <<>>, samples' = Tail(samples), agent' = agent,
         NEW i \in Nat, NEW z \in Zids, NEW org \in Orgs
  PROVE  /\ HeldBeyond(i + 1, z, org) => HeldBeyond(i, z, org)'
         /\ /\ HeldBeyond(0, z, org)
            /\ Head(samples) # [kind |-> "Delete", zid |-> z, org |-> org]
            => HeldBeyond(0, z, org)'
<1>1. /\ Head(samples) = samples[1] /\ Len(samples) \in Nat \ {0}
      /\ DOMAIN samples = 1 .. Len(samples)
      /\ DOMAIN samples' = 1 .. (Len(samples) - 1)
      /\ \A k \in DOMAIN samples' : samples'[k] = samples[k + 1]
  BY QueueRead
<1>2. \A j \in DOMAIN samples :
        j # 1 => j - 1 \in DOMAIN samples' /\ samples'[j - 1] = samples[j]
  BY <1>1
<1>3. ASSUME NEW j \in DOMAIN samples, j > i + 1,
             samples[j] = [kind |-> "Delete", zid |-> z, org |-> org]
      PROVE  HeldBeyond(i, z, org)'
  <2>1. j - 1 \in DOMAIN samples' /\ samples'[j - 1] = samples[j] /\ j - 1 > i
    BY <1>1, <1>2, <1>3
  <2>2. QED
    BY <1>3, <2>1 DEF HeldBeyond
<1>4. ASSUME NEW j \in DOMAIN samples, j # 1,
             samples[j] = [kind |-> "Delete", zid |-> z, org |-> org]
      PROVE  HeldBeyond(0, z, org)'
  <2>1. j - 1 \in DOMAIN samples' /\ samples'[j - 1] = samples[j] /\ j - 1 > 0
    BY <1>1, <1>2, <1>4
  <2>2. QED
    BY <1>4, <2>1 DEF HeldBeyond
<1>5. ASSUME agent[z] = org PROVE HeldBeyond(i, z, org)' /\ HeldBeyond(0, z, org)'
  BY <1>5 DEF HeldBeyond
<1>6. QED
  BY <1>1, <1>3, <1>4, <1>5 DEF HeldBeyond

(* What the watcher has and what is stamped, one at a time, with types. *)
LEMMA TokenTypes ==
  ASSUME Types, TokenInv
  PROVE  /\ Len(samples) \in Nat /\ DOMAIN samples = 1 .. Len(samples)
         /\ \A i \in DOMAIN samples : samples[i] \in Sample
         /\ watcher.pc # "recv" => watcher.zid \in Zids /\ watcher.org \in Orgs
         /\ \A id \in DeviceIds :
              seen[id] = "own" => devices[id].zid \in Zids /\ devices[id].org \in Orgs
<1>1. /\ samples \in Seq(Sample)
      /\ watcher.pc # "recv" => watcher.zid \in Zids /\ watcher.org \in Orgs
  BY DEF Types, TypeOK
<1>2. \A id \in DeviceIds :
        seen[id] = "own" => devices[id].zid \in Zids /\ devices[id].org \in Orgs
  BY Facts DEF Types, TypeOK, Table, Device, Exists, Origins
<1>3. QED
  BY <1>1, <1>2

LEMMA TokenSent ==
  ASSUME Types, TokenInv, NEW z \in Zids,
         Start(z) \/ (Stop(z) /\ z \notin away) \/ Redeclare(z)
  PROVE  TokenInv'
<1>1. UNCHANGED <<devices, seen, watcher>>
  BY DEF Start, Stop, Redeclare, table
<1>2. PICK s \in Sample :
        /\ samples' = Append(samples, s) /\ s.zid = z
        /\ s.kind = "Put" => agent'[z] = s.org
        /\ away' = away \ {z} /\ unheard' = unheard
  BY SentEffect
<1>3. /\ DOMAIN samples = 1 .. Len(samples) /\ Len(samples) \in Nat
      /\ DOMAIN samples' = 1 .. (Len(samples) + 1)
      /\ \A j \in DOMAIN samples : samples'[j] = samples[j]
      /\ samples'[Len(samples) + 1] = s
  BY <1>2, QueueGrows
<1>4. ASSUME NEW i \in DOMAIN samples'
      PROVE  /\ samples'[i].kind = "Put" => HeldBeyond(i, samples[i].zid, samples[i].org)'
             /\ samples'[i].zid \notin away'
  <2>1. CASE i \in DOMAIN samples
    <3>1. PICK k \in Sample : k = samples[i] /\ k = samples'[i]
      BY <1>3, <2>1, TokenTypes
    <3>2. /\ k.kind = "Put" => HeldBeyond(i, k.zid, k.org)
          /\ k.zid \notin away
      BY <2>1, <3>1 DEF TokenInv
    <3>3. i \in 0 .. Len(samples) /\ k.zid \in Zids /\ k.org \in Orgs
      BY <1>3, <2>1 DEF Sample
    <3>4. k.kind = "Put" => HeldBeyond(i, k.zid, k.org)'
      BY <3>2, <3>3, HeldSent
    <3>5. QED
      BY <1>2, <3>1, <3>2, <3>4
  <2>2. CASE i = Len(samples) + 1
    BY <1>2, <1>3, <2>2 DEF HeldBeyond
  <2>3. QED
    BY <1>3, <2>1, <2>2
<1>5. ASSUME NEW k \in Zids, NEW org \in Orgs, HeldBeyond(0, k, org)
      PROVE  HeldBeyond(0, k, org)'
  <2>1. 0 \in 0 .. Len(samples)
    BY <1>3
  <2>2. QED
    BY <1>5, <2>1, HeldSent
<1>6. ASSUME watcher'.pc # "recv"
      PROVE  HeldBeyond(0, watcher.zid, watcher.org)' /\ watcher'.zid \notin away'
  <2>1. PICK k \in Zids, org \in Orgs : k = watcher.zid /\ org = watcher.org
    BY <1>1, <1>6, TokenTypes
  <2>2. HeldBeyond(0, k, org) /\ k \notin away
    BY <1>1, <1>6, <2>1 DEF TokenInv
  <2>3. HeldBeyond(0, k, org)'
    BY <1>5, <2>2
  <2>4. QED
    BY <1>1, <1>2, <2>1, <2>2, <2>3
<1>7. ASSUME NEW id \in DeviceIds, seen'[id] = "own"
      PROVE  \/ HeldBeyond(0, devices[id].zid, devices[id].org)'
             \/ <<devices'[id].zid, devices'[id].org>> \in unheard'
  <2>1. PICK k \in Zids, org \in Orgs : k = devices[id].zid /\ org = devices[id].org
    BY <1>1, <1>7, TokenTypes
  <2>2. HeldBeyond(0, k, org) \/ <<k, org>> \in unheard
    BY <1>1, <1>7, <2>1 DEF TokenInv
  <2>3. HeldBeyond(0, k, org)' \/ <<k, org>> \in unheard'
    BY <1>2, <1>5, <2>2
  <2>4. QED
    BY <1>1, <2>1, <2>3
<1>8. QED
  BY <1>4, <1>6, <1>7 DEF TokenInv

(* Nothing the watcher has is of an agent that stops unheard. *)
LEMMA TokenLost ==
  ASSUME Types, TokenInv, NEW z \in Zids, Stop(z), z \in away
  PROVE  TokenInv'
<1>1. /\ UNCHANGED <<devices, seen, watcher, samples>>
      /\ unheard' = unheard \cup {<<z, agent[z]>>}
      /\ \A k \in Zids : k # z => agent'[k] = agent[k]
      /\ away' = away \ {z}
  BY LostEffect DEF Stop, table
<1>2. ASSUME NEW i \in Nat, NEW k \in Zids, NEW org \in Orgs, k # z, HeldBeyond(i, k, org)
      PROVE  HeldBeyond(i, k, org)'
  BY <1>1, <1>2 DEF HeldBeyond
<1>3. ASSUME NEW i \in DOMAIN samples
      PROVE  /\ samples[i].kind = "Put" => HeldBeyond(i, samples[i].zid, samples[i].org)'
             /\ samples[i].zid \notin away'
  <2>1. PICK k \in Sample : k = samples[i]
    BY TokenTypes
  <2>2. /\ k.kind = "Put" => HeldBeyond(i, k.zid, k.org)
        /\ k.zid \notin away
    BY <2>1 DEF TokenInv
  <2>3. i \in Nat /\ k.zid \in Zids /\ k.org \in Orgs /\ k.zid # z
    BY <2>2, TokenTypes DEF Sample
  <2>4. k.kind = "Put" => HeldBeyond(i, k.zid, k.org)'
    BY <1>2, <2>2, <2>3
  <2>5. QED
    BY <1>1, <2>1, <2>2, <2>4
<1>4. ASSUME watcher.pc # "recv"
      PROVE  HeldBeyond(0, watcher.zid, watcher.org)' /\ watcher.zid \notin away'
  <2>1. PICK k \in Zids, org \in Orgs : k = watcher.zid /\ org = watcher.org
    BY <1>4, TokenTypes
  <2>2. HeldBeyond(0, k, org) /\ k \notin away /\ k # z
    BY <1>4, <2>1 DEF TokenInv
  <2>3. HeldBeyond(0, k, org)'
    BY <1>2, <2>2
  <2>4. QED
    BY <1>1, <2>1, <2>2, <2>3
<1>5. ASSUME NEW id \in DeviceIds, seen[id] = "own"
      PROVE  \/ HeldBeyond(0, devices[id].zid, devices[id].org)'
             \/ <<devices[id].zid, devices[id].org>> \in unheard'
  <2>1. PICK k \in Zids, org \in Orgs : k = devices[id].zid /\ org = devices[id].org
    BY <1>5, TokenTypes
  <2>2. HeldBeyond(0, k, org) \/ <<k, org>> \in unheard
    BY <1>5, <2>1 DEF TokenInv
  <2>3. CASE k # z
    <3>1. HeldBeyond(0, k, org)' \/ <<k, org>> \in unheard'
      BY <1>1, <1>2, <2>2, <2>3
    <3>2. QED
      BY <1>1, <2>1, <3>1
  <2>4. CASE k = z
    <3>1. \A j \in DOMAIN samples : samples[j] # [kind |-> "Delete", zid |-> z, org |-> org]
      BY DEF TokenInv
    <3>2. agent[z] = org \/ <<z, org>> \in unheard
      BY <2>2, <2>4, <3>1 DEF HeldBeyond
    <3>3. QED
      BY <1>1, <2>1, <2>4, <3>2
  <2>5. QED
    BY <2>3, <2>4
<1>6. QED
  BY <1>1, <1>3, <1>4, <1>5 DEF TokenInv

(* A sample is read: it is handled, or it fails. *)
LEMMA TokenRead ==
  ASSUME Types, TokenInv, samples # <<>>, samples' = Tail(samples), UNCHANGED agents,
         \/ Select
         \/ watcher' = watcher /\ (MarkOffline \/ SampleFails)
  PROVE  TokenInv'
<1>1. /\ DOMAIN samples = 1 .. Len(samples) /\ Len(samples) \in Nat \ {0}
      /\ DOMAIN samples' = 1 .. (Len(samples) - 1)
      /\ \A k \in DOMAIN samples' : samples'[k] = samples[k + 1]
      /\ Head(samples) = samples[1] /\ Head(samples) \in Sample
  BY QueueRead
<1>2. UNCHANGED <<agent, away, devices>>
  BY DEF agents, table, Select, MarkOffline, SampleFails
<1>3. ASSUME NEW i \in DOMAIN samples'
      PROVE  /\ samples'[i].kind = "Put" => HeldBeyond(i, samples[i].zid, samples[i].org)'
             /\ samples'[i].zid \notin away'
  <2>1. i \in Nat /\ i + 1 \in DOMAIN samples
    BY <1>1
  <2>2. PICK k \in Sample : k = samples[i + 1] /\ k = samples'[i]
    BY <1>1, <2>1, TokenTypes
  <2>3. /\ k.kind = "Put" => HeldBeyond(i + 1, k.zid, k.org)
        /\ k.zid \notin away
    BY <2>1, <2>2 DEF TokenInv
  <2>4. k.zid \in Zids /\ k.org \in Orgs
    BY DEF Sample
  <2>5. k.kind = "Put" => HeldBeyond(i, k.zid, k.org)'
    BY <1>2, <2>1, <2>3, <2>4, HeldRead
  <2>6. QED
    BY <1>2, <2>2, <2>3, <2>5
<1>4. ASSUME watcher'.pc # "recv"
      PROVE  HeldBeyond(0, watcher.zid, watcher.org)' /\ watcher'.zid \notin away'
  <2>1. CASE Select
    <3>1. /\ Head(samples).kind = "Put"
          /\ watcher'.zid = Head(samples).zid /\ watcher'.org = Head(samples).org
      BY <2>1, SelectEffect
    <3>2. PICK k \in Zids, org \in Orgs : k = samples[1].zid /\ org = samples[1].org
      BY <1>1 DEF Sample
    <3>3. HeldBeyond(0 + 1, k, org) /\ k \notin away
      BY <1>1, <3>1, <3>2 DEF TokenInv
    <3>4. HeldBeyond(0, k, org)'
      BY <1>2, <3>3, HeldRead
    <3>5. QED
      BY <1>1, <1>2, <3>1, <3>2, <3>3, <3>4
  <2>2. CASE ~ Select
    <3>1. watcher' = watcher /\ watcher.pc = "recv"
      BY <2>2 DEF MarkOffline, SampleFails, Rested
    <3>2. QED
      BY <1>4, <3>1
  <2>3. QED
    BY <2>1, <2>2
<1>5. ASSUME NEW id \in DeviceIds, seen'[id] = "own"
      PROVE  \/ HeldBeyond(0, devices[id].zid, devices[id].org)'
             \/ <<devices'[id].zid, devices'[id].org>> \in unheard'
  <2>1. /\ seen[id] = "own"
        /\ MarkOffline => id \notin Offline(Head(samples).zid, Head(samples).org)
    BY <1>5, Facts DEF Select, SampleFails, MarkOffline, table, Origins
  <2>2. PICK k \in Zids, org \in Orgs : k = devices[id].zid /\ org = devices[id].org
    BY <2>1, TokenTypes
  <2>3. HeldBeyond(0, k, org) \/ <<k, org>> \in unheard
    BY <2>1, <2>2 DEF TokenInv
  <2> DEFINE end == [kind |-> "Delete", zid |-> k, org |-> org]
  <2>4. CASE Select
    <3>1. Head(samples) # end /\ unheard' = unheard
      BY <2>4, SelectEffect DEF Select
    <3>2. HeldBeyond(0, k, org)' \/ <<k, org>> \in unheard'
      BY <1>2, <2>3, <3>1, HeldRead
    <3>3. QED
      BY <1>2, <2>2, <3>2
  <2>5. CASE MarkOffline
    <3>1. ~ (Head(samples).zid = k /\ Head(samples).org = org)
      <4>1. Exists(devices, id)
        BY <2>1, Facts DEF Types, TypeOK, Origins
      <4>2. QED
        BY <2>1, <2>2, <2>5, <4>1 DEF Offline, Finds, InOrg
    <3>2. unheard' = unheard \ Retracted(Head(samples))
      BY <2>5 DEF MarkOffline
    <3>3. <<k, org>> \notin Retracted(Head(samples))
      BY <3>1 DEF Retracted
    <3>4. Head(samples) # end
      BY <3>1
    <3>5. HeldBeyond(0, k, org)' \/ <<k, org>> \in unheard'
      BY <1>2, <2>3, <3>2, <3>3, <3>4, HeldRead
    <3>6. QED
      BY <1>2, <2>2, <3>5
  <2>6. CASE SampleFails /\ watcher' = watcher
    <3>1. unheard' = unheard \cup Retracted(Head(samples))
      <4>1. watcher.pc # "recv" => watcher'.pc = "recv"
        BY <2>6 DEF SampleFails, Rested
      <4>2. QED
        BY <2>6, <4>1 DEF SampleFails
    <3>2. CASE Head(samples) = end
      <4>1. <<k, org>> \in Retracted(Head(samples))
        BY <3>2 DEF Retracted
      <4>2. QED
        BY <1>2, <2>2, <3>1, <4>1
    <3>3. CASE Head(samples) # end
      <4>1. HeldBeyond(0, k, org)' \/ <<k, org>> \in unheard'
        BY <1>2, <2>3, <3>1, <3>3, HeldRead
      <4>2. QED
        BY <1>2, <2>2, <4>1
    <3>4. QED
      BY <3>2, <3>3
  <2>7. QED
    BY <2>4, <2>5, <2>6
<1>6. QED
  BY <1>3, <1>4, <1>5 DEF TokenInv

(* The queue of a gateway that restarts is lost, and so are the ends of    *)
(* tokens in it.                                                           *)
LEMMA TokenRestart ==
  ASSUME Types, TokenInv, Restart
  PROVE  TokenInv'
<1>1. /\ samples' = <<>> /\ watcher'.pc = "recv" /\ UNCHANGED <<devices, seen, agent>>
      /\ unheard' = unheard \cup UNION {Retracted(samples[i]) : i \in DOMAIN samples}
  BY DEF Restart, Rested, table
<1>2. ASSUME NEW id \in DeviceIds, seen'[id] = "own"
      PROVE  \/ HeldBeyond(0, devices[id].zid, devices[id].org)'
             \/ <<devices'[id].zid, devices'[id].org>> \in unheard'
  <2>1. PICK k \in Zids, org \in Orgs : k = devices[id].zid /\ org = devices[id].org
    BY <1>1, <1>2, TokenTypes
  <2>2. HeldBeyond(0, k, org) \/ <<k, org>> \in unheard
    BY <1>1, <1>2, <2>1 DEF TokenInv
  <2>3. CASE agent[k] = org
    BY <1>1, <2>1, <2>3 DEF HeldBeyond
  <2>4. ASSUME NEW j \in DOMAIN samples,
               samples[j] = [kind |-> "Delete", zid |-> k, org |-> org]
        PROVE  <<k, org>> \in unheard'
    <3>1. <<k, org>> \in Retracted(samples[j])
      BY <2>4 DEF Retracted
    <3>2. QED
      BY <1>1, <3>1
  <2>5. QED
    BY <1>1, <2>1, <2>2, <2>3, <2>4 DEF HeldBeyond
<1>3. DOMAIN samples' = {}
  BY <1>1
<1>4. QED
  BY <1>1, <1>2, <1>3 DEF TokenInv

(* What a stamp is worth is what the watcher had in hand. *)
LEMMA TokenKept ==
  ASSUME Types, WatcherInv, TokenInv, [Next]_vars,
         UNCHANGED <<agents, samples, unheard>>, watcher' = watcher \/ watcher'.pc = "recv"
  PROVE  TokenInv'
<1>1. \A i, z, org : HeldBeyond(i, z, org)' <=> HeldBeyond(i, z, org)
  BY DEF HeldBeyond, agents
<1>2. UNCHANGED <<away, samples, unheard>>
  BY DEF agents
<1>3. ASSUME NEW id \in DeviceIds, seen'[id] = "own"
      PROVE  \/ HeldBeyond(0, devices'[id].zid, devices'[id].org)
             \/ <<devices'[id].zid, devices'[id].org>> \in unheard
  <2>1. "own" # None
    BY Facts DEF Origins
  <2>2. CASE seen'[id] = seen[id] /\ devices'[id] = devices[id]
    BY <1>3, <2>2 DEF TokenInv
  <2>3. CASE /\ Update /\ id = watcher.id /\ Exists(devices, id)
             /\ seen'[id] = From(id) /\ devices' = devices
    <3>1. watcher.pc = "update"
      BY <2>3 DEF Update
    <3>2. devices[id].zid = watcher.zid /\ devices[id].org = watcher.org
      BY <1>3, <2>3 DEF From
    <3>3. QED
      BY <2>3, <3>1, <3>2 DEF TokenInv
  <2>4. CASE /\ InsertSeen
             /\ devices'[id].zid = watcher.zid /\ devices'[id].org = watcher.org
    <3>1. watcher.pc = "insert"
      BY <2>4 DEF InsertSeen
    <3>2. QED
      BY <2>4, <3>1 DEF TokenInv
  <2>5. QED
    BY <1>3, <2>1, <2>2, <2>3, <2>4, SeenStep
<1>4. ASSUME NEW id \in DeviceIds, seen'[id] = "own"
      PROVE  \/ HeldBeyond(0, devices[id].zid, devices[id].org)'
             \/ <<devices'[id].zid, devices'[id].org>> \in unheard'
  BY <1>2, <1>3, <1>4 DEF HeldBeyond, agents
<1>5. \A i \in DOMAIN samples' :
        /\ samples'[i].kind = "Put" => HeldBeyond(i, samples[i].zid, samples[i].org)'
        /\ samples'[i].zid \notin away'
  BY <1>2 DEF TokenInv, HeldBeyond, agents
<1>6. watcher'.pc # "recv" =>
        HeldBeyond(0, watcher.zid, watcher.org)' /\ watcher'.zid \notin away'
  BY <1>2 DEF TokenInv, HeldBeyond, agents
<1>7. QED
  BY <1>4, <1>5, <1>6 DEF TokenInv

LEMMA TokenStep ==
  ASSUME Types, WatcherInv, TokenInv, [Next]_vars
  PROVE  TokenInv'
<1>1. ASSUME NEW z \in Zids, Start(z) \/ Stop(z) \/ Redeclare(z) PROVE TokenInv'
  BY <1>1, TokenSent, TokenLost
<1>2. CASE Select
  <2>1. samples # <<>> /\ samples' = Tail(samples) /\ UNCHANGED agents
    BY <1>2 DEF Select
  <2>2. QED
    BY <1>2, <2>1, TokenRead
<1>3. CASE MarkOffline
  <2>1. /\ samples # <<>> /\ samples' = Tail(samples)
        /\ UNCHANGED agents /\ watcher' = watcher
    BY <1>3 DEF MarkOffline
  <2>2. QED
    BY <1>3, <2>1, TokenRead
<1>4. CASE SampleFails
  <2>1. CASE samples # <<>> /\ samples' = Tail(samples) /\ watcher' = watcher
    <3>1. UNCHANGED agents
      BY <1>4 DEF SampleFails
    <3>2. QED
      BY <1>4, <2>1, <3>1, TokenRead
  <2>2. CASE watcher' = Rested /\ UNCHANGED <<samples, unheard>>
    <3>1. UNCHANGED agents /\ watcher'.pc = "recv"
      BY <1>4, <2>2 DEF SampleFails, Rested
    <3>2. QED
      BY <2>2, <3>1, TokenKept
  <2>3. QED
    BY <1>4, <2>1, <2>2 DEF SampleFails
<1>5. ASSUME UNCHANGED link, watcher' = watcher \/ watcher'.pc = "recv" PROVE TokenInv'
  <2>1. UNCHANGED <<agents, samples, unheard>>
    BY <1>5 DEF link
  <2>2. QED
    BY <1>5, <2>1, TokenKept
<1>6. \/ \E z \in Zids : Start(z) \/ Stop(z) \/ Redeclare(z)
      \/ Select \/ MarkOffline \/ SampleFails \/ Restart
      \/ UNCHANGED link /\ (watcher' = watcher \/ watcher' = Rested)
  BY DEF Next, Tick, RegisterDevice, DeleteDevice, Update, InsertSeen, OpenBridge, EndBridge,
         ReadRow, CacheGet, Probe, CachePut, vars
<1>7. QED
  BY <1>1, <1>2, <1>3, <1>4, <1>5, <1>6, TokenRestart DEF Rested

-----------------------------------------------------------------------------
(* Answers.                                                                *)

LEMMA HadRowLasts ==
  ASSUME Types, [Next]_vars, NEW id \in DeviceIds, NEW z \in Zids,
         NEW time \in Times, time <= now, HadRow(id, z, time)
  PROVE  HadRow(id, z, time)'
<1>1. \A i \in DeviceIds : freed[i] \in Times \cup {None}
  BY DEF Types
<1>2. None \notin Times /\ now \in Times /\ Times \subseteq Nat
  BY Facts DEF Types, TypeOK
<1>3. CASE UNCHANGED <<devices, freed, nextReg>>
  BY <1>3 DEF HadRow, Exists
<1>4. ASSUME NEW i \in DeviceIds, ~ Exists(devices, i), freed' = freed,
             \A k \in DeviceIds : k # i => devices'[k] = devices[k]
      PROVE  HadRow(id, z, time)'
  BY <1>4 DEF HadRow, Exists
<1>5. ASSUME NEW i \in DeviceIds, freed'[i] = now,
             \A k \in DeviceIds : k # i => devices'[k] = devices[k] /\ freed'[k] = freed[k]
      PROVE  HadRow(id, z, time)'
  BY <1>2, <1>5 DEF HadRow, Exists
<1>6. QED
  BY <1>3, <1>4, <1>5, DevicesStep

(* Time passes, and polls keep what they have. *)
LEMMA Clock ==
  ASSUME Types, [Next]_vars
  PROVE  /\ now \in Times /\ now' \in Times /\ now <= now' /\ Times \subseteq Nat
         /\ Tick \/ now' = now
<1>1. Types'
  BY TypesStep
<1>2. Tick \/ now' = now
  BY DEF Next, RegisterDevice, DeleteDevice, Start, Stop, Redeclare, Select, Update, InsertSeen,
         MarkOffline, SampleFails, OpenBridge, EndBridge, ReadRow, CacheGet, Probe,
         CachePut, Restart, vars
<1>3. QED
  BY <1>1, <1>2, Facts DEF Tick, Types, TypeOK

LEMMA PollStep ==
  ASSUME Types, PollInv, [Next]_vars
  PROVE  PollInv'
<1>0. /\ now \in Times /\ now' \in Times /\ now <= now' /\ Times \subseteq Nat
      /\ Tick \/ now' = now
  BY Clock
<1>1. ASSUME NEW p \in Polls, poll[p].pc # "idle"
      PROVE  /\ poll[p].started \in Times /\ poll[p].started <= now
             /\ now' - poll[p].started <= ProbeTime
             /\ HadRow(poll[p].id, poll[p].zid, poll[p].started)
             /\ poll[p].id \in DeviceIds /\ poll[p].zid \in Zids
             /\ poll[p].pc = "reply" =>
                  /\ poll[p].rtt.of = poll[p].zid /\ poll[p].rtt.at \in Times
                  /\ poll[p].started <= poll[p].rtt.at /\ poll[p].rtt.at <= now
  <2>1. /\ poll[p].started \in Times /\ poll[p].id \in DeviceIds /\ poll[p].zid \in Zids
        /\ poll[p].pc = "reply" => poll[p].rtt.at \in Times
    BY <1>1 DEF Types, Poll, Rtt
  <2>2. now' - poll[p].started <= ProbeTime
    <3>1. CASE Tick
      <4>1. now - poll[p].started < ProbeTime /\ now' = now + 1
        BY <1>1, <3>1 DEF Tick
      <4>2. now \in Nat /\ poll[p].started \in Nat /\ ProbeTime \in Nat
        BY <1>0, <2>1, HealthAssumptions
      <4>3. QED
        BY <4>1, <4>2
    <3>2. CASE now' = now
      BY <1>1, <3>2 DEF PollInv
    <3>3. QED
      BY <1>0, <3>1, <3>2
  <2>3. QED
    BY <1>1, <2>1, <2>2 DEF PollInv
<1>2. ASSUME NEW p \in Polls, poll[p].pc # "idle", NEW id, NEW z, NEW started,
             id = poll[p].id, z = poll[p].zid, started = poll[p].started
      PROVE  HadRow(id, z, started)'
  BY <1>1, <1>2, HadRowLasts
<1>3. ASSUME NEW p \in Polls, poll'[p].pc # "idle"
      PROVE  /\ poll'[p].started <= now' /\ now' - poll'[p].started <= ProbeTime
             /\ HadRow(poll[p].id, poll[p].zid, poll[p].started)'
             /\ poll'[p].pc = "reply" =>
                  /\ poll'[p].rtt.of = poll'[p].zid
                  /\ poll'[p].started <= poll'[p].rtt.at /\ poll'[p].rtt.at <= now'
  <2>1. CASE poll'[p] = poll[p]
    <3>1. PICK id, z, started : id = poll[p].id /\ z = poll[p].zid /\ started = poll[p].started
      OBVIOUS
    <3>2. HadRow(id, z, started)'
      BY <1>2, <1>3, <2>1, <3>1
    <3>3. HadRow(poll[p].id, poll[p].zid, poll[p].started)'
      BY <2>1, <3>1, <3>2
    <3>4. QED
      BY <1>0, <1>1, <1>3, <2>1, <3>3
  <2>2. CASE ReadRow(p)
    <3>1. /\ poll'[p].pc = "cache" /\ poll'[p].started = now
          /\ Exists(devices, poll'[p].id) /\ poll'[p].zid = devices[poll'[p].id].zid
      BY <2>2, ReadRowEffect
    <3>2. UNCHANGED <<now, devices>>
      BY <2>2 DEF ReadRow, table
    <3>3. HadRow(poll[p].id, poll[p].zid, poll[p].started)'
      BY <3>1, <3>2 DEF HadRow, Exists
    <3>4. QED
      BY <1>0, <3>1, <3>2, <3>3, HealthAssumptions
  <2>3. CASE /\ poll[p].pc # "idle" /\ now' = now
             /\ poll'[p].id = poll[p].id /\ poll'[p].zid = poll[p].zid
             /\ poll'[p].started = poll[p].started
             /\ poll'[p].pc = "reply" => /\ poll'[p].rtt.of = poll[p].zid
                                         /\ poll'[p].rtt.at = now
    <3>1. PICK id, z, started : id = poll[p].id /\ z = poll[p].zid /\ started = poll[p].started
      OBVIOUS
    <3>2. HadRow(id, z, started)'
      BY <1>2, <2>3, <3>1
    <3>3. HadRow(poll[p].id, poll[p].zid, poll[p].started)'
      BY <2>3, <3>1, <3>2
    <3>4. QED
      BY <1>0, <1>1, <2>3, <3>3
  <2>4. CASE CacheGet(p)
    <3>1. /\ poll[p].pc = "cache" /\ poll'[p].pc = "probe"
          /\ poll'[p].id = poll[p].id /\ poll'[p].zid = poll[p].zid
          /\ poll'[p].started = poll[p].started
      BY <1>3, <2>4, CacheGetEffect
    <3>2. now' = now
      BY <2>4 DEF CacheGet
    <3>3. QED
      BY <2>3, <3>1, <3>2
  <2>5. CASE Probe(p)
    <3>1. /\ poll[p].pc = "probe"
          /\ poll'[p].id = poll[p].id /\ poll'[p].zid = poll[p].zid
          /\ poll'[p].started = poll[p].started
          /\ poll'[p].rtt.of = poll[p].zid /\ poll'[p].rtt.at = now
      BY <2>5, ProbeEffect
    <3>2. now' = now
      BY <2>5 DEF Probe
    <3>3. QED
      BY <2>3, <3>1, <3>2
  <2>6. CASE CachePut(p)
    BY <1>3, <2>6, CachePutEffect
  <2>7. ASSUME NEW q \in Polls, q # p, ReadRow(q) \/ CacheGet(q) \/ Probe(q) \/ CachePut(q)
        PROVE  poll'[p] = poll[p]
    BY <2>7, ReadRowEffect, CacheGetEffect, ProbeEffect, CachePutEffect
  <2>8. CASE Restart
    BY <1>3, <2>8, NoPollType DEF Restart
  <2>9. \/ poll' = poll \/ Restart
        \/ \E q \in Polls : ReadRow(q) \/ CacheGet(q) \/ Probe(q) \/ CachePut(q)
    BY DEF Next, Tick, RegisterDevice, DeleteDevice, Start, Stop, Redeclare, Select, Update,
           InsertSeen, MarkOffline, SampleFails, OpenBridge, EndBridge, vars, health
  <2>10. QED
    BY <2>1, <2>2, <2>4, <2>5, <2>6, <2>7, <2>8, <2>9
<1>4. QED
  BY <1>3 DEF PollInv

(* What CacheInv says of one entry. *)
Dated(key, entry) ==
  /\ entry.rtt.at <= entry.at /\ entry.at <= now
  /\ \E started \in Times :
       /\ started <= entry.rtt.at /\ entry.at - started <= ProbeTime
       /\ HadRow(key[2], entry.rtt.of, started)

LEMMA DatedLasts ==
  ASSUME Types, [Next]_vars, NEW key \in Keys, NEW entry \in Entry, Dated(key, entry)
  PROVE  Dated(key, entry)'
<1>1. /\ now \in Times /\ now' \in Times /\ now <= now' /\ Times \subseteq Nat
  BY Clock
<1>2. /\ key[2] \in DeviceIds /\ entry.at \in Times
      /\ entry.rtt.at \in Times /\ entry.rtt.of \in Zids
  BY DEF Keys, Entry, Rtt
<1>3. PICK started \in Times :
        /\ started <= entry.rtt.at /\ entry.at - started <= ProbeTime
        /\ HadRow(key[2], entry.rtt.of, started)
  BY DEF Dated
<1>4. entry.rtt.at <= entry.at /\ entry.at <= now
  BY DEF Dated
<1>5. started <= now
  <2>1. /\ entry.at \in Nat /\ entry.rtt.at \in Nat
        /\ now \in Nat /\ started \in Nat
    BY <1>1, <1>2, <1>3
  <2>2. QED
    BY <1>3, <1>4, <2>1
<1>6. HadRow(key[2], entry.rtt.of, started)'
  BY <1>2, <1>3, <1>5, HadRowLasts
<1>7. entry.at <= now'
  <2>1. entry.at \in Nat /\ now \in Nat /\ now' \in Nat /\ now <= now'
    BY <1>1, <1>2
  <2>2. QED
    BY <1>4, <2>1
<1>8. QED
  BY <1>3, <1>4, <1>6, <1>7 DEF Dated

LEMMA CacheStep ==
  ASSUME Types, PollInv, CacheInv, [Next]_vars
  PROVE  CacheInv'
<1>1. ASSUME NEW key \in Keys, cache'[key] # None
      PROVE  Dated(key, cache[key])'
  <2>1. CASE cache'[key] = cache[key]
    <3>1. PICK entry \in Entry : entry = cache[key]
      BY <1>1, <2>1 DEF Types, TypeOK, Entry
    <3>2. Dated(key, entry)
      BY <1>1, <2>1, <3>1 DEF CacheInv, Dated
    <3>3. Dated(key, entry)'
      BY <3>2, DatedLasts
    <3>4. QED
      BY <2>1, <3>1, <3>3
  <2>2. ASSUME NEW p \in Polls, CachePut(p), key = Key(p)
        PROVE  Dated(key, cache[key])'
    <3>1. poll[p].pc = "reply" /\ cache'[key] = [at |-> now, rtt |-> poll[p].rtt]
      BY <2>2, CachePutEffect
    <3>2. PICK entry \in Entry : entry = [at |-> now, rtt |-> poll[p].rtt]
      BY <3>1 DEF Types, TypeOK, Entry
    <3>3. /\ poll[p].started <= entry.rtt.at /\ entry.rtt.at <= now
          /\ entry.at = now /\ now - poll[p].started <= ProbeTime
          /\ HadRow(key[2], entry.rtt.of, poll[p].started)
          /\ poll[p].started \in Times
      BY <2>2, <3>1, <3>2 DEF PollInv, Key, Types, Poll
    <3>4. now \in Nat
      BY Facts DEF Types, TypeOK
    <3>5. Dated(key, entry)
      BY <3>3, <3>4 DEF Dated
    <3>6. Dated(key, entry)'
      BY <3>5, DatedLasts
    <3>7. QED
      BY <3>1, <3>2, <3>6
  <2>3. ASSUME NEW p \in Polls, CachePut(p), key # Key(p)
        PROVE  cache'[key] = cache[key]
    BY <1>1, <2>3, CachePutEffect
  <2>4. CASE Restart
    BY <1>1, <2>4 DEF Restart
  <2>5. cache' = cache \/ Restart \/ \E p \in Polls : CachePut(p)
    BY DEF Next, Tick, RegisterDevice, DeleteDevice, Start, Stop, Redeclare, Select, Update,
           InsertSeen, MarkOffline, SampleFails, OpenBridge, EndBridge, ReadRow, CacheGet,
           Probe, vars, health
  <2>6. QED
    BY <2>1, <2>2, <2>3, <2>4, <2>5
<1>2. QED
  BY <1>1 DEF CacheInv, Dated

LEMMA AnswerStep ==
  ASSUME Types, PollInv, CacheInv, [Next]_vars, NEW p \in Polls, Answers(p)
  PROVE  LET rtt == AnswerOf(p) id == poll[p].id IN
         /\ now - rtt.at <= Ttl + ProbeTime
         /\ rtt.of # poll[p].zid
              => freed[id] # None /\ now - freed[id] <= Ttl + ProbeTime
<1> DEFINE id == poll[p].id
<1>1. /\ now \in Nat /\ Ttl \in Nat /\ ProbeTime \in Nat
      /\ id \in DeviceIds /\ poll[p].zid \in Zids /\ poll[p].started \in Nat
      /\ freed[id] # None => freed[id] \in Nat
  BY Facts, HealthAssumptions DEF Answers, Types, TypeOK, Poll
<1>2. /\ poll[p].started <= now /\ now - poll[p].started <= ProbeTime
      /\ HadRow(id, poll[p].zid, poll[p].started)
  BY DEF Answers, PollInv
<1>3. CASE CachePut(p)
  <2>1. /\ poll[p].pc = "reply" /\ AnswerOf(p) = poll[p].rtt
        /\ poll[p].rtt.of = poll[p].zid /\ poll[p].rtt.at \in Nat
        /\ poll[p].started <= poll[p].rtt.at /\ poll[p].rtt.at <= now
    BY <1>3, Facts DEF CachePut, AnswerOf, PollInv, Types, Rtt
  <2>2. QED
    BY <1>1, <1>2, <2>1
<1>4. CASE CacheGet(p)
  <2>1. poll[p].pc = "cache" /\ Fresh(Key(p)) /\ AnswerOf(p) = cache[Key(p)].rtt
    BY <1>4, CacheGetEffect DEF Answers, AnswerOf
  <2>2. Key(p) \in Keys /\ Key(p)[2] = id
    BY <2>1 DEF Key, Keys, Types
  <2>3. PICK entry \in Entry : entry = cache[Key(p)]
    BY <2>1, <2>2 DEF Fresh, Types, TypeOK, Entry
  <2>4. /\ entry.at \in Nat /\ entry.rtt.at \in Nat /\ entry.rtt.of \in Zids
        /\ now - entry.at <= Ttl /\ entry.rtt.at <= entry.at
    BY <2>1, <2>2, <2>3, Facts DEF CacheInv, Fresh, Entry, Rtt
  <2>5. PICK started \in Nat :
          /\ started <= entry.rtt.at /\ entry.at - started <= ProbeTime
          /\ HadRow(id, entry.rtt.of, started)
    BY <2>1, <2>2, <2>3, Facts DEF CacheInv, Fresh
  <2>6. now - started <= Ttl + ProbeTime /\ now - entry.rtt.at <= Ttl + ProbeTime
    BY <1>1, <2>4, <2>5
  <2>7. ASSUME entry.rtt.of # poll[p].zid
        PROVE  freed[id] # None /\ now - freed[id] <= Ttl + ProbeTime
    <3>1. CASE freed[id] # None /\ freed[id] >= started
      BY <1>1, <2>6, <3>1
    <3>2. CASE freed[id] # None /\ freed[id] >= poll[p].started
      BY <1>1, <1>2, <3>2
    <3>3. QED
      BY <1>2, <2>5, <2>7, <3>1, <3>2 DEF HadRow
  <2>8. QED
    BY <2>1, <2>3, <2>6, <2>7
<1>5. CachePut(p) \/ CacheGet(p)
  <2>1. ASSUME NEW q \in Polls, q # p, ReadRow(q) \/ CacheGet(q) \/ Probe(q) \/ CachePut(q)
        PROVE  FALSE
    BY <2>1, ReadRowEffect, CacheGetEffect, ProbeEffect, CachePutEffect DEF Answers
  <2>2. ~ ReadRow(p) /\ ~ Probe(p)
    BY ReadRowEffect, ProbeEffect DEF Answers
  <2>3. ~ Restart
    BY DEF Restart, Answers, Types
  <2>4. \/ poll' = poll \/ Restart
        \/ \E q \in Polls : ReadRow(q) \/ CacheGet(q) \/ Probe(q) \/ CachePut(q)
    BY DEF Next, Tick, RegisterDevice, DeleteDevice, Start, Stop, Redeclare, Select, Update,
           InsertSeen, MarkOffline, SampleFails, OpenBridge, EndBridge, vars, health
  <2>5. QED
    BY <2>1, <2>2, <2>3, <2>4 DEF Answers
<1>6. QED
  BY <1>3, <1>4, <1>5

-----------------------------------------------------------------------------
(* The invariant, and what follows from it.                                *)

IInv == Types /\ StampInv /\ AnswerInv

LEMMA Inductive == Spec => []IInv
<1>1. Init => IInv
  <2> SUFFICES ASSUME Init PROVE IInv
    OBVIOUS
  <2>1. Types
    BY TypesInit
  <2>2. StampInv
    BY Facts
    DEF Init, EmptyTable, Rested, Exists, Origins, StampInv, WatcherInv, StampIsOwn, TokenInv
  <2>3. AnswerInv
    BY DEF Init, NoPoll, AnswerInv, PollInv, CacheInv
  <2>4. QED
    BY <2>1, <2>2, <2>3 DEF IInv
<1>2. IInv /\ [Next]_vars => IInv'
  BY TypesStep, WatcherStep, StampStep, TokenStep, PollStep, CacheStep
  DEF IInv, StampInv, AnswerInv
<1>3. QED
  BY <1>1, <1>2, PTL DEF Spec

(* Every variable keeps its type, no row that is gone has a stamp, and the *)
(* cache stays within its bound, however many organisations there are.     *)
THEOREM HealthTypes == Spec => []TypeOK
<1>1. IInv => TypeOK
  BY DEF IInv, Types
<1>2. QED
  BY <1>1, Inductive, PTL

(* No stamp comes from the token of another device. *)
THEOREM StampsAreOwn == Spec => []StampIsOwn
<1>1. IInv => StampIsOwn
  BY DEF IInv, StampInv
<1>2. QED
  BY <1>1, Inductive, PTL

(* A token that was given up takes its stamp with it once the watcher has  *)
(* caught up, whatever the agents did meanwhile, and whatever other samples *)
(* the watcher or a gateway that restarted lost.                           *)
THEOREM RetractedOffline == Spec => []RetractedIsOffline
<1>1. ASSUME IInv PROVE RetractedIsOffline
  <2> SUFFICES ASSUME NEW id \in DeviceIds, Exists(devices, id), agent[devices[id].zid] = None,
                      Quiet, seen[id] # None,
                      <<devices[id].zid, devices[id].org>> \notin unheard
               PROVE  seen[id] \in {"bridge", "gone"}
    BY DEF RetractedIsOffline
  <2>1. seen[id] \in {"own", "gone", "bridge"}
    BY <1>1 DEF IInv, Types, TypeOK, Origins, StampInv, StampIsOwn
  <2>2. ASSUME seen[id] = "own" PROVE FALSE
    <3>1. HeldBeyond(0, devices[id].zid, devices[id].org)
      BY <1>1, <2>2 DEF IInv, StampInv, TokenInv
    <3>2. devices[id].org \in Orgs
      BY <1>1 DEF IInv, Types, TypeOK, Table, Device, Exists
    <3>3. QED
      BY <3>1, <3>2, Facts DEF HeldBeyond, Quiet
  <2>3. QED
    BY <2>1, <2>2
<1>2. QED
  BY <1>1, Inductive, PTL

(* An answer is recent, and of the device asked about unless the row id    *)
(* passed on a moment ago: an action property, from the invariant.         *)
THEOREM AnswersAreCurrent == Spec => RttIsCurrent
<1>1. IInv /\ [Next]_vars =>
        [\A p \in Polls : Answers(p) =>
           LET rtt == AnswerOf(p) id == poll[p].id IN
           /\ now - rtt.at <= Ttl + ProbeTime
           /\ rtt.of # poll[p].zid
                => freed[id] # None /\ now - freed[id] <= Ttl + ProbeTime]_vars
  BY AnswerStep DEF IInv, AnswerInv
<1>2. QED
  BY <1>1, Inductive, PTL DEF Spec, RttIsCurrent
=============================================================================
