----------------------------- MODULE DeviceHealth ------------------------------
(***************************************************************************)
(* Whether a device is online: the liveliness tokens of the agents, the    *)
(* watcher that keeps `last_seen_at`, the bridges that stamp it too, and   *)
(* the health handlers with their cache of round-trip times.               *)
(*                                                                         *)
(* One atomic step is one SQLite statement, one sample, one operation on   *)
(* the cache.  GET /v1/devices/health is a poll per device.  Time counts   *)
(* in ticks.  A round-trip time, or that there was no answer, is known by  *)
(* the device it was measured of and the moment it was.                    *)
(*                                                                         *)
(* Operators named Mutant... are no part of the model: each is the next    *)
(* definition with a bug put in, for the check that a property notices it. *)
(***************************************************************************)
EXTENDS DeviceTable, Sequences, FiniteSets

CONSTANTS
  Polls,       \* concurrent GET .../health requests
  AgentOrgs,   \* organisations that agents are configured with
  Ttl,         \* of the cache, 1 s
  ProbeTime,   \* longest a probe may take, 2 x 250 ms
  MaxEntries,  \* of the cache: 4096
  None,        \* NULL, nothing
  MaxTime,     \* bound on the clock
  MaxReg,      \* bound on the registrations of devices
  MaxSwitches, \* bound on agents coming and going
  MaxFaults    \* bound on restarts of the gateway and errors of the watcher

(* Where a last_seen_at comes from. *)
Origins == {"own", "gone", "bridge", "other"}

ASSUME HealthAssumptions ==
  /\ Ttl \in Nat /\ ProbeTime \in Nat /\ MaxEntries \in Nat \ {0}
  /\ MaxTime \in Nat /\ MaxReg \in Nat /\ MaxSwitches \in Nat /\ MaxFaults \in Nat
  /\ AgentOrgs \subseteq Orgs /\ None \notin Orgs \cup Zids \cup Nat \cup Origins

Times == 0 .. MaxTime

VARIABLES
  now,
  devices, \* the devices table without
  seen,    \* last_seen_at, of which it is known where it comes from: the "own"
           \* token of the device, an upsert for a "gone" device, a "bridge",
           \* the token of an "other" device, or None when it is NULL
  agent,   \* the organisation of a running agent
  away,    \* running agents whose token the session of the gateway has not met
  samples, \* liveliness samples for the watcher
  watcher, \* liveliness::handle_sample
  bridge,  \* the row id a bridge will stamp when it ends
  cache,   \* RttCache
  poll,    \* health handlers
  \* history
  freed,   \* when a row id was last given up
  unheard, \* zid and organisation of tokens retracted with the watcher not told
  nextReg, switches, faults

table == <<devices, seen>>
agents == <<agent, away, switches>>
link == <<agents, samples, unheard>>
health == <<cache, poll>>
vars == <<now, table, link, watcher, bridge, health, freed, nextReg, faults>>

Keys == Orgs \X DeviceIds

Rested == [pc |-> "recv", zid |-> None, org |-> None, id |-> 0, reg |-> 0]

NoPoll == [pc |-> "idle", org |-> None, id |-> 0, zid |-> None, started |-> 0, rtt |-> None]

Init ==
  /\ now = 0
  /\ devices = EmptyTable /\ seen = [id \in DeviceIds |-> None]
  /\ agent = [z \in Zids |-> None] /\ away = {} /\ samples = <<>> /\ watcher = Rested
  /\ bridge = [id |-> 0]
  /\ cache = [key \in Keys |-> None] /\ poll = [p \in Polls |-> NoPoll]
  /\ freed = [id \in DeviceIds |-> None]
  /\ unheard = {} /\ nextReg = 1 /\ switches = 0 /\ faults = 0

(* The clock waits for no one but the health handlers: a tick is long, and  *)
(* of what they do after the row is read, only the probe takes time.        *)
Tick ==
  /\ now < MaxTime
  /\ \A p \in Polls : poll[p].pc # "idle" => now - poll[p].started < ProbeTime
  /\ now' = now + 1
  /\ UNCHANGED <<table, link, watcher, bridge, health, freed, nextReg, faults>>

-----------------------------------------------------------------------------
(* Agents: each holds one token, from its start on.                        *)

Sends(kind, z, org) ==
  samples' = Append(samples, [kind |-> kind, zid |-> z, org |-> org])

Start(z) ==
  /\ agent[z] = None /\ switches < MaxSwitches
  /\ \E org \in AgentOrgs :
       agent' = [agent EXCEPT ![z] = org] /\ Sends("Put", z, org)
  /\ switches' = switches + 1
  /\ UNCHANGED <<now, table, away, unheard, watcher, bridge, health, freed, nextReg,
                 faults>>

(* The process exits, or its session is lost.  Of a token that the session *)
(* of the gateway never met, it does not hear the end either.              *)
Stop(z) ==
  /\ agent[z] # None /\ switches < MaxSwitches
  /\ \/ z \notin away /\ Sends("Delete", z, agent[z]) /\ UNCHANGED unheard
     \/ z \in away /\ unheard' = unheard \cup {<<z, agent[z]>>} /\ UNCHANGED samples
  /\ agent' = [agent EXCEPT ![z] = None]
  /\ away' = away \ {z} /\ switches' = switches + 1
  /\ UNCHANGED <<now, table, watcher, bridge, health, freed, nextReg, faults>>

(* The agent and a gateway that restarted find each other again, and the   *)
(* new session is told of the token as of one just declared.               *)
Redeclare(z) ==
  /\ z \in away /\ Sends("Put", z, agent[z])
  /\ away' = away \ {z}
  /\ UNCHANGED <<now, table, agent, switches, unheard, watcher, bridge, health, freed,
                 nextReg, faults>>

-----------------------------------------------------------------------------
(* The table. *)

Stamped(id, from) == seen' = [seen EXCEPT ![id] = from]

Insert(id, zid, org, from) ==
  /\ nextReg <= MaxReg /\ IsNextId(devices, id)
  /\ devices' = Inserted(devices, id, zid, org, nextReg)
  /\ Stamped(id, from)
  /\ nextReg' = nextReg + 1

(* POST /v1/devices *)
RegisterDevice ==
  /\ \E id \in DeviceIds, zid \in Zids, org \in Orgs :
       ZidFree(devices, zid) /\ Insert(id, zid, org, None)
  /\ UNCHANGED <<now, link, watcher, bridge, health, freed, faults>>

DeleteDevice ==
  /\ \E id \in DeviceIds :
       /\ Exists(devices, id)
       /\ devices' = Removed(devices, id)
       /\ Stamped(id, None)
       /\ freed' = [freed EXCEPT ![id] = now]
  /\ UNCHANGED <<now, link, watcher, bridge, health, nextReg, faults>>

-----------------------------------------------------------------------------
(* The watcher. *)

MutantFinds(id, zid, org) == Exists(devices, id) /\ devices[id].zid = zid

(* WHERE org_id = ?1 AND zid = ?2 *)
Finds(id, zid, org) == InOrg(devices, org, id) /\ devices[id].zid = zid

(* upsert_seen, its SELECT. *)
Select ==
  /\ watcher.pc = "recv" /\ samples # <<>> /\ Head(samples).kind = "Put"
  /\ samples' = Tail(samples)
  /\ LET s == Head(samples) IN
       \/ \E id \in DeviceIds :
            /\ Finds(id, s.zid, s.org)
            /\ watcher' = [pc |-> "update", zid |-> s.zid, org |-> s.org, id |-> id,
                           reg |-> devices[id].reg]
       \/ /\ \A id \in DeviceIds : ~ Finds(id, s.zid, s.org)
          /\ watcher' = [pc |-> "insert", zid |-> s.zid, org |-> s.org, id |-> 0, reg |-> 0]
  /\ UNCHANGED <<now, table, agents, unheard, bridge, health, freed, nextReg, faults>>

From(id) ==
  CASE devices[id].reg # watcher.reg -> "gone"
    [] devices[id].zid = watcher.zid /\ devices[id].org = watcher.org -> "own"
    [] OTHER -> "other"

(* Its UPDATE, of whatever row has the id by now. *)
Update ==
  /\ watcher.pc = "update" /\ watcher' = Rested
  /\ IF Exists(devices, watcher.id)
       THEN Stamped(watcher.id, From(watcher.id))
       ELSE UNCHANGED seen
  /\ UNCHANGED <<now, devices, link, bridge, health, freed, nextReg, faults>>

(* Its INSERT, which fails when the zid is taken. *)
InsertSeen ==
  /\ watcher.pc = "insert" /\ watcher' = Rested
  /\ IF ZidFree(devices, watcher.zid)
       THEN \E id \in DeviceIds : Insert(id, watcher.zid, watcher.org, "own")
       ELSE UNCHANGED <<devices, seen, nextReg>>
  /\ UNCHANGED <<now, link, bridge, health, freed, faults>>

(* The zid and organisation a sample says are gone. *)
Retracted(s) == IF s.kind = "Delete" THEN {<<s.zid, s.org>>} ELSE {}

MutantOffline(zid, org) == {} \* the row is left to go stale

Offline(zid, org) == {id \in DeviceIds : Finds(id, zid, org)}

(* mark_offline *)
MarkOffline ==
  /\ watcher.pc = "recv" /\ samples # <<>> /\ Head(samples).kind = "Delete"
  /\ samples' = Tail(samples)
  /\ LET ids == Offline(Head(samples).zid, Head(samples).org)
     IN  seen' = [id \in DeviceIds |-> IF id \in ids THEN None ELSE seen[id]]
  /\ unheard' = unheard \ Retracted(Head(samples))
  /\ UNCHANGED <<now, devices, agents, watcher, bridge, health, freed, nextReg, faults>>

(* No connection from the pool, or a database that is busy or in error, at *)
(* any statement: the loop logs that, and the sample is gone.              *)
SampleFails ==
  /\ faults < MaxFaults /\ faults' = faults + 1
  /\ \/ /\ watcher.pc = "recv" /\ samples # <<>>
        /\ samples' = Tail(samples)
        /\ unheard' = unheard \cup Retracted(Head(samples))
        /\ UNCHANGED watcher
     \/ watcher.pc # "recv" /\ watcher' = Rested /\ UNCHANGED <<samples, unheard>>
  /\ UNCHANGED <<now, table, agents, bridge, health, freed, nextReg>>

(* A bridge to a device begins, and stamps the row when it is over. *)
OpenBridge ==
  /\ bridge.id = 0
  /\ \E id \in DeviceIds :
       /\ Exists(devices, id) /\ agent[devices[id].zid] = devices[id].org
       /\ bridge' = [id |-> id]
  /\ UNCHANGED <<now, table, link, watcher, health, freed, nextReg, faults>>

EndBridge ==
  /\ bridge.id # 0 /\ bridge' = [id |-> 0]
  /\ \/ Exists(devices, bridge.id) /\ Stamped(bridge.id, "bridge")
     \/ UNCHANGED seen \* it failed, or the row is gone
  /\ UNCHANGED <<now, devices, link, watcher, health, freed, nextReg, faults>>

-----------------------------------------------------------------------------
(* The health handlers. *)

ReadRow(p) ==
  /\ poll[p].pc = "idle"
  /\ \E id \in DeviceIds :
       /\ Exists(devices, id)
       /\ poll' = [poll EXCEPT ![p] =
            [pc |-> "cache", org |-> devices[id].org, id |-> id, zid |-> devices[id].zid,
             started |-> now, rtt |-> None]]
  /\ UNCHANGED <<now, table, link, watcher, bridge, cache, freed, nextReg, faults>>

Key(p) == <<poll[p].org, poll[p].id>>

MutantFresh(key) == cache[key] # None

Fresh(key) == cache[key] # None /\ now - cache[key].at <= Ttl

(* RttCache::get.  On a hit that is the answer, else the probe starts. *)
CacheGet(p) ==
  /\ poll[p].pc = "cache"
  /\ poll' = IF Fresh(Key(p))
               THEN [poll EXCEPT ![p] = NoPoll]
               ELSE [poll EXCEPT ![p].pc = "probe"]
  /\ UNCHANGED <<now, table, link, watcher, bridge, cache, freed, nextReg, faults>>

(* The agent under the zid answers, or does not: that is remembered too. *)
Probe(p) ==
  /\ poll[p].pc = "probe"
  /\ poll' = [poll EXCEPT ![p].pc = "reply", ![p].rtt =
       [of |-> poll[p].zid, at |-> now]]
  /\ UNCHANGED <<now, table, link, watcher, bridge, cache, freed, nextReg, faults>>

MutantKept == \* overflow clears nothing
  [key \in Keys |-> IF Fresh(key) THEN cache[key] ELSE None]

(* Expired entries go, and on overflow all do. *)
Kept ==
  LET fresh == {key \in Keys : Fresh(key)}
  IN  [key \in Keys |->
         IF key \in fresh /\ Cardinality(fresh) < MaxEntries THEN cache[key] ELSE None]

(* RttCache::put, and the answer. *)
CachePut(p) ==
  /\ poll[p].pc = "reply"
  /\ cache' = [Kept EXCEPT ![Key(p)] = [at |-> now, rtt |-> poll[p].rtt]]
  /\ poll' = [poll EXCEPT ![p] = NoPoll]
  /\ UNCHANGED <<now, table, link, watcher, bridge, freed, nextReg, faults>>

-----------------------------------------------------------------------------
(* The gateway restarts, with a new session and an empty queue.  Its        *)
(* subscriber asks for no history: it has to wait for each running agent.   *)
Restart ==
  /\ faults < MaxFaults /\ faults' = faults + 1
  /\ samples' = <<>> /\ away' = {z \in Zids : agent[z] # None}
  /\ unheard' = unheard \cup UNION {Retracted(samples[i]) : i \in DOMAIN samples}
  /\ watcher' = Rested /\ bridge' = [id |-> 0]
  /\ cache' = [key \in Keys |-> None] /\ poll' = [p \in Polls |-> NoPoll]
  /\ UNCHANGED <<now, table, agent, switches, freed, nextReg>>

Next ==
  \/ Tick \/ RegisterDevice \/ DeleteDevice
  \/ \E z \in Zids : Start(z) \/ Stop(z) \/ Redeclare(z)
  \/ Select \/ Update \/ InsertSeen \/ MarkOffline \/ SampleFails
  \/ OpenBridge \/ EndBridge
  \/ \E p \in Polls : ReadRow(p) \/ CacheGet(p) \/ Probe(p) \/ CachePut(p)
  \/ Restart

Spec == Init /\ [][Next]_vars

-----------------------------------------------------------------------------
(* Properties. *)

Rtt == [of : Zids, at : Times]

Sample == [kind : {"Put", "Delete"}, zid : Zids, org : Orgs]

TypeOK ==
  /\ now \in Times /\ devices \in Table
  /\ seen \in [DeviceIds -> Origins \cup {None}]
  /\ \A id \in DeviceIds : seen[id] # None => Exists(devices, id)
  /\ agent \in [Zids -> Orgs \cup {None}]
  /\ away \in SUBSET {z \in Zids : agent[z] # None}
  /\ samples \in Seq(Sample) /\ unheard \in SUBSET (Zids \X Orgs)
  /\ watcher.pc \in {"recv", "update", "insert"}
  /\ cache \in [Keys -> [at : Times, rtt : Rtt] \cup {None}]
  /\ Cardinality({key \in Keys : cache[key] # None}) <= MaxEntries
  /\ \A p \in Polls : poll[p].pc \in {"idle", "cache", "probe", "reply"}

(* The watcher has nothing to do. *)
Quiet == samples = <<>> /\ watcher.pc = "recv"

(* `last_seen_at` never comes from the token of another device, or of the  *)
(* same zid in another organisation, unless the row was replaced within an *)
(* upsert.                                                                 *)
StampIsOwn == \A id \in DeviceIds : seen[id] # "other"

(* When the watcher has caught up, a device whose agent is gone has no     *)
(* `last_seen_at`, unless the end of a bridge stamped it again, an upsert  *)
(* hit a row that was replaced, or the last retraction of that very token  *)
(* was lost: its sample failed in the watcher or went with a gateway that  *)
(* stopped, or the token ended before a new session met it.                *)
RetractedIsOffline ==
  \A id \in DeviceIds :
    Exists(devices, id) /\ agent[devices[id].zid] = None /\ Quiet /\ seen[id] # None
      => \/ seen[id] \in {"bridge", "gone"}
         \/ <<devices[id].zid, devices[id].org>> \in unheard

(* The step in which a health handler answers, and with what. *)
Answers(p) == poll[p].pc # "idle" /\ poll'[p].pc = "idle" /\ faults' = faults
AnswerOf(p) == IF poll[p].pc = "reply" THEN poll[p].rtt ELSE cache[Key(p)].rtt

(* A round-trip time in an answer is no older than the TTL of the cache    *)
(* and the time of one probe, also when a slow probe overwrites a later    *)
(* one, and it is that of the device asked about, unless the row id passed *)
(* from one device to another a moment ago.                                *)
RttIsCurrent ==
  [][\A p \in Polls : Answers(p) =>
       LET rtt == AnswerOf(p) id == poll[p].id IN
       /\ now - rtt.at <= Ttl + ProbeTime
       /\ rtt.of # poll[p].zid
            => freed[id] # None /\ now - freed[id] <= Ttl + ProbeTime]_vars
=============================================================================
