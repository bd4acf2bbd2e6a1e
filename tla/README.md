# TLA+ models of the hackline gateway and of ai-runner

This directory holds TLA+ models of the parts of this repository that keep
state and act concurrently, the TLC configurations that check them on small
instances, and TLAPS proofs of their safety properties for every instance.
Paths below are relative to `src/`; `gateway/` stands for
`hackline/crates/hackline-gateway/src/`.

## 1. Inventory

The repository is a workspace of two programs. `hackline/` is the larger: a
gateway that lets operators reach devices behind NAT over a Zenoh network,
with an agent on each device. `ai-runner/` is a library that launches coding
tools as child processes and turns their output into events.

| Component | State | Operations | Interacts through |
|---|---|---|---|
| Command plane: `gateway/cmd_delivery.rs`, `db/cmd_outbox.rs`, `api/cmd/` | table `cmd_outbox`; a tokio `Notify`; the pusher's rows | enqueue, cancel, publish and mark, record an ack | the table, the `Notify`, Zenoh puts and acks |
| Device registry: `db/devices.rs`, `api/devices/` | table `devices` | create, delete (with cascades), look up | its row ids, held by every other component |
| Liveliness and health: `liveliness.rs`, `rtt_cache.rs`, `api/devices/health*.rs` | `last_seen_at`, a cache of probe results | a token appears or goes, a bridge ends, a probe | table `devices`, liveliness tokens |
| Tunnels: `tunnel/`, `db/tunnels.rs`, `api/tunnels/` | table `tunnels`, listening sockets, a channel of 64 events | create, delete, accept, bridge | the channel, the table, ports |
| Bridge: `hackline-core/src/bridge.rs`, `hackline-agent/src/connect.rs` | two byte streams per connection | request, reply, copy, end of stream | Zenoh queries and subscriptions |
| Claim and users: `db/claim.rs`, `db/users.rs`, `api/claim/`, `api/users/`, `auth/` | tables `claim_pending`, `users` | boot, claim, create, delete, mint a token | the tables |
| Message plane: `msg_fanin.rs`, `events_bus.rs`, `db/events.rs`, `db/logs.rs`, `api/events/`, `api/logs/` | ring tables, a broadcast channel of 1024 | receive, insert and prune, publish, page, stream | the channel, the tables |
| Audit: `db/audit.rs`, `api/audit/` | table `audit` | insert, finalise a session, list | foreign keys to users, devices, tunnels |
| TLS and ACME: `tls.rs` | certificate files, the acceptor in use | acquire, write, reload, renew | files, the acceptor swap |
| Connection pool: `db/pool.rs` | 16 connections; who waits for one, on which thread | get, drop | every handler |
| Migrations: `db/migrations.rs` | schema version | run at boot | everything that uses SQLite |
| API call: `api/api_call/` | none | query a device with two timeouts | Zenoh, audit |
| Agent: `hackline-agent/src/` | queryables, liveliness token | answer a connect query, bridge | Zenoh |
| Runners: `ai-runner/src/` | a child process or a request, a channel of events, a configuration file | start, read, emit, cancel | the channel, a `CancellationToken`, a file named after the process |
| CLI, TypeScript client, web UI, metrics, config, wire types | none that another part relies on | | |

What is hard in it, by component, and the property that makes it right:

- **Command plane.** Handlers, the pusher, the ack task and deletions of
  devices interleave at every await, all against one table. The process may
  die, and a statement or a put may fail, between any two of their steps.
  It is right if commands are not lost by the gateway (no lost wakeup, no row
  that blocks the others), are published a bounded number of times, in order,
  to the device they were meant for, and not after they were settled.
- **Tunnels.** The table and the sockets are kept in step by events only. It
  is right if each stored tunnel has a listener that routes to its device and
  each listener has a stored tunnel.
- **Bridge.** It is right if what one side writes before it closes is what the
  other side reads before it sees the end, and both sides end.
- **Claim and users.** It is right if a gateway is claimed once, a gateway
  without users can be claimed, and an organisation does not lose its last
  owner unnoticed.
- **Message plane.** It is right if the rings keep the newest rows, a client
  sees its own organisation only, reads all history page by page, and misses
  nothing between its history and its live stream.
- **Liveliness and health.** It is right if a stamp comes from the device it
  is on, goes when the device does, and an answer about the link is recent.
- **Connection pool.** It is right if every request is answered, although
  waiting for a connection is not async and takes a worker.
- **TLS, migrations.** They are right if a crash at any point leaves a state
  from which the next start gets on, or else one that can be named, and if a
  certificate is replaced in time.
- **Runners.** They are right if the events of a run agree with its result, no
  process or file outlives it, and a cancelled run ends.

`PROJECT.json` lists the individual hazards, each at the line where it bites.

## 2. Plan

The order was: what the gateway promises most firmly first. Done are, in this
order,

1. `DeviceTable`, `CmdOutbox`, `CmdLifecycle`, with proofs;
2. `Claim`, with proofs;
3. `Tunnels` on `DeviceTable`, and `ConnPool`, with proofs;
4. `Bridge` and its abstract specification `BytePipes`, with proofs;
5. `MessagePlane` on `DeviceTable`, with proofs;
6. `DeviceHealth` on `DeviceTable`, and `Startup`, with proofs;
7. `AiRunner`, with proofs.

What would come next: `POST /v1/orgs` in `Claim`, and one composition of `Tunnels`
with `Bridge`. Of the safety properties that the passing runs check, none is
left without a theorem.

Each component gets at most one run per question, and where a theorem covers
every instance, the run is kept small. Each type invariant is a theorem.

## 3. The modules

| Module | Content |
|---|---|
| `DeviceTable` | The `devices` table as a function of row ids; SQLite's choice of row ids; the lookups and statements. Shared by the modules that hold a `devices` variable. |
| `CmdOutbox` | The command plane: 21 variables, one action per statement or put. |
| `CmdOutboxProps` | Its type invariant, safety, action and liveness properties, and fairness. |
| `CmdLifecycle` | The abstract specification: the statuses a command goes through. |
| `MCCmdOutbox` | Instance for TLC; symmetry of commands. |
| `CmdOutboxProofs` | Theorems: types, what goes on the wire, order, and the refinement of `CmdLifecycle`. |
| `Claim` | Boot, claim, users and their tokens: 10 variables, one action per statement or transaction, and the properties. |
| `MCClaim` | Instance for TLC; symmetry of requests and organisations. |
| `ClaimProofs` | Theorems about `Claim`. |
| `Tunnels` | Tunnels, their listeners and connections, on `DeviceTable`: 14 variables, one action per statement, message or socket call, and the properties. |
| `MCTunnels`, `TunnelsProofs` | Instance for TLC, with symmetry of creations, Zenoh ids and organisations; theorems. |
| `ConnPool` | The connection pool, the requests that wait for it and the threads they wait on: 1 variable, and the properties. |
| `MCConnPool` | Instance for TLC. |
| `BytePipes` | Abstract specification of what a bridge does with bytes: a pipe in each direction. |
| `Bridge` | One connection, from the connect query to the end of both bridges: 14 variables, one action per call of Zenoh or of the socket. |
| `MCBridge`, `BridgeProofs` | Instance for TLC; theorems, the refinement of `BytePipes` among them. |
| `MessagePlane` | Agents that publish, the two fan-ins, the rings, the bus, a client, on `DeviceTable`. |
| `MCMessagePlane`, `MessageProofs` | Instance for TLC, with symmetry of agents, organisations and kinds; theorems. |
| `DeviceHealth`, `MCDeviceHealth`, `DeviceHealthProofs` | Liveliness, `last_seen_at`, the health handlers and their cache, on `DeviceTable`; instance with symmetry of agents and requests; theorems. |
| `Startup`, `MCStartup`, `StartupProofs` | Migrations, the ACME cache, the served certificates, renewal; instance; theorems, those about `ConnPool` among them. |
| `AiRunner`, `MCAiRunner`, `AiRunnerProofs` | The runners of `ai-runner`; instance: one run of each, and two of claude at once; theorems. |

### How `CmdOutbox` follows the code

**Grain.** An action is what runs between two points where another actor can
be seen to act: one SQLite statement or transaction (each runs in its own
`spawn_blocking`), or one Zenoh put. The send handler is therefore three
actions (`SendCheck`, `SendEnqueue` or `SendRefused`, `SendFinish`), the
pusher five (`Drain`, `Lookup`, `Put`, `Mark`, and waking).

| State | In the code |
|---|---|
| `devices`, `audit` | the tables (only `cmd.send` and `cmd.cancel` rows of `audit`) |
| `cmd` | the columns of a row that never change, known once the handler has made them: device, expiry, organisation checked, row id |
| `outbox` | the columns that change: is the row there, `delivered_at`, `ack_result` |
| `sendPc`, `cancelPc`, `dismissed` | where each handler is; handlers whose caller was deleted from `users` after the extractor read that row |
| `pc`, `batch`, `cur`, `target`, `since` | the pusher: rows still to handle, current row, device looked up for it, the clock `drain_pending` read first |
| `permit` | the permit a `Notify` stores |
| `ackq` | samples in the ack subscriber |
| `pubs`, `raced`, `missed`, `faults`, `nextReg` | history, which no guard but those of bounds reads |

| Action | In the code |
|---|---|
| `SendCheck` | `api/cmd/send.rs`, up to the uuid and the expiry |
| `SendEnqueue`, `SendRefused` | `cmd_outbox::enqueue`: cap, foreign key, insert, one transaction |
| `SendFinish`, `SendDropped` | audit row, then `notify`; the server may drop the handler at its await |
| `CancelDelete`, `CancelAudit` | `api/cmd/cancel.rs` |
| `Drain` | `list_pending`, with the clock read at the wakeup |
| `Lookup` | `get_with_org_slug`, or `continue` |
| `Put` | key, envelope and put, or `continue` |
| `Mark` | `mark_delivered`, whose error is discarded |
| `WakeNotified`, `WakeTimer` | the two arms of the `select!` |
| `DeviceAck`, `RecordAck` | `CmdHandle::ack`; `handle_ack` |
| `RegisterDevice`, `DeleteDevice` | `api/devices/`, liveliness; the cascade of the foreign key |
| `DismissCaller` | `api/users/delete.rs`, for the caller of a handler that runs; bounded by `MaxDismissed` |
| `Crash`, `Restart` | the process ends (also by leaving the `select!` of `serve.rs`), and boots |

**Errors.** Each statement and each put may fail (`Fault`): the pool has no
connection, the database is busy for 5 s, the session is closed. The code's
reaction differs by place (refuse, log and continue, discard), and each is
modelled. `missed` remembers what an error made the code pass over, so that
properties can say "unless an error". The audit insert can fail with no error of
the database: its foreign keys refuse a device or a caller that is gone, and the
handlers discard that. The device is in the table as long as the row of the command
is; of the caller nothing keeps hold, and `StoredRowsAudited` names him.

**The life cycle.** `Status` is `derive_status` read with the clock of the model, and
`CmdLifecycle` has its four values: a command that expires while it is pending never
becomes pending again, though the pusher's copy of it may still be delivered and acked.
The clock is taken not to go back. The abstract specification knows which devices
exist (`known`), so that rows go all at once only with their device.

**Row ids.** Both tables have `INTEGER PRIMARY KEY` without `AUTOINCREMENT`:
the next row has the largest id in use plus one, so the id of a deleted newest
row is given out again. `reg` numbers the registrations of devices and is no
column; with it properties can tell a device from its successor.

**Abstractions.** Payloads, headers and topics are left out but for one bit,
`sendable`: whether the row makes a valid key and envelope. The columns of a
row that never change are not copied into the pusher's batch. The lookups of
the cancel handler are part of its DELETE, because what they read cannot
change while the row exists. The payload-size limit and the scope check of the
send handler refuse before any state changes. Acks that do not parse are
dropped and change nothing. Two cancels of one command cannot both delete the
row. `metrics` is never read. A put and its delivery are one step: the gateway
is told nothing of the second, so only the acks of a device, which may come at
any later time, any number of times, or never, are seen of it.

### How `Claim` follows the code

| State | In the code |
|---|---|
| `pending` | the row of `claim_pending`, 0 for none |
| `users` | the table: organisation, role and token of each row; `reg` is the token it was inserted with, no column, which tells a user from a later one with the same row id |
| `boot` | where `main` is between opening the database and serving |
| `req` | for each request: where its handler is, the token it presented, the `users` row it read and that row's id, the id it acts on or has inserted |
| `known` | tokens that were printed or answered: only these can be presented |
| `won`, `seated`, `orphaned` | history, read by no guard |

| Action | In the code |
|---|---|
| `Boot`, `PrintToken` | `ensure_pending`; the `println!` after it. Nothing listens before that, so its two counts and its insert are one step |
| `ClaimCompare`, `ClaimConsume`, `ClaimAnswer` | `claim::consume` up to the comparison; its transaction; the rest of the handler, which searches for an owner |
| `Authenticate` | the extractor `AuthedUser`, and the role checks on the row it read |
| `CreateUser`, `DeleteUser` | one statement each |
| `MintRead`, `MintUpdate` | reading the target for its organisation; updating it by its id |
| `Crash` | every request ends without an answer |

An answer may arrive or be lost. A request the code refuses, and one whose
statement fails, changes nothing and has no action. Tokens are drawn in order
and stand for their hashes. Roles are `owner` and one other, as no handler here
tells the others apart. Left out: `last_used_at`, which nothing reads; the
scopes of devices, which no handler sets; the creation of organisations, which
exist from the start. Two claims with the same new slug cannot both insert it
(`orgs.slug` is unique), so the second finds it.

### How `Tunnels` follows the code

| State | In the code |
|---|---|
| `devices`, `tunnels` | the tables; a tunnel row is known by the request that made it (`by`), which is no column |
| `audit` | the `tunnel.session` row of each connection: open or closed, and the tunnel its `tunnel_id` refers to |
| `manager` | the process is down, its manager has not run its query yet, or it reads the channel |
| `chan`, `binding`, `sockets` | the `mpsc` channel; listener tasks that were spawned; the listener that holds each port |
| `create`, `conn` | where each handler and each connection is, and what it has in hand |
| `raced`, `missed`, `failed`, `nextReg`, `faults` | history, read by no guard but those of bounds |

| Action | In the code |
|---|---|
| `CreateCheck` | `api/tunnels/create.rs`, `get_in_org` |
| `CreateInsert`, `CreateRefused` | the INSERT, with its constraints |
| `CreateReadBack`, `CreateLookup`, `CreateSend` | reading the row by its id; the second `get_in_org`; the event |
| `CreateGivesUp` | after the INSERT: an error, nothing found, or the handler is dropped |
| `DeleteTunnel`, `DeleteDevice`, `RegisterDevice` | the handlers, with ON DELETE CASCADE of `tunnels` and SET NULL of `audit` |
| `Load`, `Receive` | `manager::run`: the query, the loop |
| `Bind`, `AcceptError` | `run_tcp_listener` up to `accept`; its error ends the task |
| `Accept`, `Route` | a listener accepts; the host router reads the row for each connection |
| `OpenSession`, `EndBridge`, `TouchDevice`, `CloseSession` | `run_bridged_connection`, and `handle_connection` without the touch |
| `Crash`, `Restart` | the process ends and boots |

Ports are numbers, and a listener asks for its port modulo 2^16, as the code's
`as u16` does. Ports that are multiples of 2^16 are excluded: the system picks
any free port for them. The rows `tunnel.create` and `tunnel.delete` of the
audit refer to nothing and are left out, as is the column `enabled`, which is
always 1. What a bridge does between its start and its end belongs to `Bridge`.

### How `ConnPool` follows the code

`Pool::get` blocks its thread. Most handlers call it on a worker and move the
connection into a closure for a blocking thread, which drops it at its end; the
extractor and the audit call it inside such a closure. `POST /v1/tunnels` calls
it twice in a row, and its first connection waits, with the handler, for the
check to end and for a worker. `at` says where each request is; how many
connections it has follows from that (`Holds`). A request that was answered may
arrive again. A get that finds no connection for 30 s returns an error
(`Timeout`), which is what the pool's builder sets by default.

### How `Bridge` follows the code

| State | In the code |
|---|---|
| `task` | the gateway from its query to `join!` of both pumps, the agent from its queryable to the same |
| `reply`, `heard` | the `ConnectAck`; whether a subscriber is known to the other session |
| `end`, `wrote`, `took` | the program at the other end of each socket, and what was read of it |
| `up`, `down` | `tcp_to_zenoh`, `zenoh_to_tcp` of each side |
| `wire`, `eof` | samples on their way; behind them the empty one |
| `got`, `lost` | what was written to the socket; history of what nobody received |

`Accept` to `GiveUp` are the query and its answer on both sides; `Declare` the
declarations, of which the other session learns later (`Propagate`); `Read`,
`ReadPutFails` and `ReadEnd` the up pump, `Write`, `WriteFails` and `WriteEnd`
the down pump, `Join` the end of both. Zenoh is external: it keeps the order
of a publisher, and drops what finds no subscriber. Chunks are numbered; a
read returns one. The byte counters are left out. `write_all` waits while the program
at the socket does not read, for ever if need be: nothing obliges a `Write` to
happen before that program is gone (`Drains`).

The HTTP router has a copy of the initiating side, `bridge_with_prefix` in
`gateway/tunnel/http_router.rs`, which is not modelled. It differs in its first
put, which is what was read of the request so far, and in that its down pump shuts the
socket down when it ends.

### How `MessagePlane` follows the code

| State | In the code |
|---|---|
| `net`, `fanin` | samples before a subscriber of `msg_fanin.rs`; what `handle_sample` has in hand |
| `rows` | the tables `events` and `logs` |
| `bus` | what was sent on the broadcast channel; its last `BusSize` messages are those a receiver can still get |
| `stream`, `pager` | `GET /v1/<kind>/stream` and `GET /v1/<kind>` of one client |
| `stored`, `raced` | history: every row ever stored, and messages whose device was replaced between lookup and insert |

`Receive` is the lookup by Zenoh id with its check of the organisation,
`Insert` one transaction with its prune, `Broadcast` the send after it; the organisation it
sends under is that of the row looked up, which `Known` has found equal to that of the key.
`NextFrame` and `SkipLag` are the two things a lagging receiver can see, of
which the handler passes on the first. `Page` is one request of the pager, with the
clamp and the cursor. Topics, levels, times and payloads are left out, and so
are samples that do not parse: they are dropped. An error of a statement drops
the sample as well, and shows nothing that a lost sample does not.

### How `DeviceHealth` follows the code

`Select`, `Update`, `InsertSeen` are the statements of `upsert_seen`, which has
no transaction; `MarkOffline` is one statement, `SampleFails` the error of any. `OpenBridge` and `EndBridge`
stand for the tunnels that stamp the row when they are over. `ReadRow`,
`CacheGet`, `Probe` and `CachePut` are a health handler; `GET
/v1/devices/health` does the same for each device at once. `seen` holds not
the time of a stamp but whose it is, and the 60 s window in which a device counts as online is left
out. The clock waits for health handlers and the
timeout of a probe only: a tick is a long time for a handler that has its
answer. A sample whose handling fails at any statement is dropped, with a warning
(`SampleFails`); so are samples of keys that do not parse and of unknown organisations, which
change nothing and are left out. A gateway that restarts has a new session, to which
each running agent declares its token again in its own time (`away`, `Redeclare`), and
which is not told of one that ended before (`unheard`). A subscriber that closes ends
the watcher, but only the end of the session closes it. A round-trip time is known by the device and the moment of its measurement.

### How `Startup` follows the code

`Start` to `DatabaseReady` are `migrations::run`: `execute_batch` commits each
statement of a file that opens no transaction, and the record of the version
comes after. `UseCached`, `CachedRefused` and `FirstCertificate` are `init_acme`,
`TryRenew` one round of the renewer, and `LoadAccount` to `Install`
`acquire_and_cache`, with two steps for each file: `tokio::fs::write` truncates,
then writes. `Validate` is the certificate authority. `Failed` is what an error
does: it ends the boot, or the round, and leaves the challenge server running,
as its handle is aborted on success only. `interrupted` is history. Only the
ACME mode is modelled; the others build their state once. Of the data, two
columns that V006 divides are kept, and whether a statement may run twice.

### How `AiRunner` follows the code

One action goes from one await to the next. `Send` and `SendEvent` are
`send(..).await`; the callback of the claude runner puts without waiting
(`TryEmit`). `Hello`, `Text`, `Tool`, `Final`, `EndOfStream`, `StreamFails` are what an
upstream may say; `Notices` is the other arm of the `select!`, which each runner
has around its reads only; that of claude starts the process as well, which may fail
after the file was written (`SpawnFails`), or not happen when the token is cancelled
already. `WriteConfig`, `RemoveConfig` and `CleanUp` handle the
file of the claude runner, whose name has the id of the process. `DropRun`
drops the future, which kills a process that was spawned (`kill_on_drop`),
`CloseReceiver` the receiver of its events. Copilot is the
same code as codex. Every claude run has a configuration file here; the discovery
of binaries, flags and prompts are left out.

## 4. What the runs check

The runs `cmd_...` use the module `MCCmdOutbox`. Bounds are constants in each cfg:
`MaxTime` (clock), `MaxReg` (registrations), `MaxFaults` (crashes and errors
together), `MaxAcks` (acks in flight), `MaxDeviceId`, `MaxMsgs`, `MaxChunks`,
`MaxItems`, `MaxSwitches` (agents that come or go), `MaxDrops`,
`MaxDismissed` (callers deleted while their handler runs).

| Run | Instance | States | Shows |
|---|---|---|---|
| `cmd_plane` | 2 commands, 1 device, 1 fault, 1 ack | 1.1 M | `RedeliveryNeedsFault`, `NoLostWakeup`, `FirstPutsInOrder` |
| `cmd_live` | 2 commands, fair, no fault | 0.2 M | `PendingIsPublished` |
| `cmd_recovery` | 1 command, fair, 2 faults, clock, 2 registrations on 1 row id, 1 caller deleted | 0.7 M | `PendingIsPublished`, `SettledStaysOffWire`, `MisdeliveryOnlyByRace`, `StoredRowsAudited`, `ImplementsLifecycle` |
| `cmd_redeliver` | 1 command, fair | | violates `UnackedIsRedelivered` |
| `claim` | 5 requests, 2 organisations, 3 row ids, 6 tokens, 1 crash | 0.5 M | `PendingExcludesUsers`, `ClaimAnswerIsOwn`, `KeepsAnOwner`, `SomebodyCanAdminister` |
| `tunnels` | 2 creations on 2 ports or a host, 1 connection, 2 Zenoh ids, 2 organisations, 1 device row id, 3 registrations, 1 fault, channel of 1 | 1.2 M | `TypeOK`, `StoredTunnelServed`, `ListenerMatchesRow`, `ListenersStayInOrg`, `SessionRecorded`, `SeenDeviceIsOwn` |
| `conn_pool` | 3 creations and 1 other request, 2 connections, 2 workers, fair | 20 k | `FreezeNeedsFullPoolOfCreates`, `Answered` |
| `bridge` | 2 chunks each way, 1 fault, fair | 91 k | `NoSilentTruncation`, `ImplementsPipes`, `BothCloseEndsBridge` |
| `messages` | 3 messages, 2 agents, 2 organisations, 2 device row ids, 2 registrations, rings of 2, bus of 1, pages of 1 | 3.2 M | `RingHoldsNewest`, `StaysInOrg`, `PagerReadsAllHistory`, `ReplayMissesNothing` |
| `health` | 2 agents, 1 row id, 2 registrations, 2 requests, 2 ticks, 2 switches, 1 restart or lost sample, cache of 1 | 2.7 M | `TypeOK`, `StampIsOwn`, `RetractedIsOffline`, `RttIsCurrent` |
| `startup` | 3 migrations, 5 ticks, 3 faults, fair, from the database of any older version | 18 k | `ServesFullSchema`, `StuckOnlyByInterruption`, `ServesCached`, `CertificateRenewed` |
| `runner` | 1 run of 2 items of each runner, or 2 of claude at once, channel of 1, 1 drop, fair | 0.6 M | `TypeOK`, `EventsMatchRun`, `ResourcesAreOwn`, `CancelEndsRun` |

**Why the bounds are enough.** Two commands are needed for order and for one
row standing in another's way; the pusher treats its rows one by one, so a third adds no new
pair. What `cmd_recovery` checks is about one command at a time, and but for
`PendingIsPublished` it is proved for any number. One fault between any two steps shows each reaction to an error; two
faults (`cmd_recovery`) show a crash after an error. Two registrations show a
row id handed on. One tick of the clock splits each pair of steps into before
and after expiry. Five requests (`claim`) are a claim, the creation of a second owner and
the two deletions that cross, with one more beside them; the last row id in use
can be given to another user. Requests and tokens run out there, so that run
does not ask for the absence of deadlock; the same goes for the runs `tunnels`,
`bridge`, `messages`, `health`, `startup` and `runner`, whose requests,
chunks, messages, ticks or runs come to an end. In `tunnels`, two ports that differ by 2^16 compete for one
socket, and a channel of one event makes handlers wait; two creations are what
it takes to reuse a row id or a port, and one connection may be accepted before
or after any of it. Three registrations are what it takes for a device id to leave an
organisation and come back to it, which only a handler that holds the id can notice. The
constraint `FewTogether` cuts off what the manager, the connections and faults would do
after the third, and a connection beside both a second registration and a fault; the
theorems of `TunnelsProofs` need no bound. In `conn_pool` two creations already fill the pool, with one more
request of each kind waiting beside them.

In `bridge`, two chunks show loss of the first, of the last and reordering, and
its safety is proved for any number. In `messages`, three messages overflow a
ring of two, two messages make a bus of one lag, and three pages of one row follow
each other with a limit that the server clamps (0 to 1); a device that is
deleted and another that gets its row id are two registrations. In `health`, two requests race for one entry of the
cache, a TTL of 0 and a probe of 1 tick make both ages differ, and one restart,
or one sample that failed, loses what the watcher knew. In `startup`, the three migrations are one that may
not be repeated, V006, and one in a transaction; a certificate lives 3
ticks and is due 1 before its end, so that in 5 ticks it is renewed twice; three
faults are a crash, an error after it, and one during the renewal. In `runner`, two
items fill a channel of one, and two tools are what it takes to close one and leave
one open; runs share nothing but the file of claude, hence only these two at once.

**Fairness.** `FairSpec` of the command plane asks that the pusher, the ack task, a restart and
each handler that has begun keep going. Tokio polls tasks that are ready, the
pusher's timer of 30 s always fires, statements end (with an error after
5 s of a busy database), and a gateway that died is started again, which is
what its state on a volume is for (`deploy/fly/gateway.toml`). Nothing is asked of senders, operators
or devices. Faults are bounded in every run, so liveness says: once errors
stop, pending commands are published.

For `ConnPool`, a get
returns, with a connection or too late, statements end, and a task that is
ready is polled if workers keep becoming free: tokio queues tasks that are ready.
For `Bridge`, tasks go on and declarations are propagated; the programs at the
ends owe nothing, neither to write, nor to close, nor to read on once they have shut
their sending half: the down pump is asked only for what needs no such program, taking the
sentinel, and a write to a socket whose program is gone. `BothCloseEndsBridge`
therefore begins where both have closed, and has it as a condition of its own that no
write waits for ever.
For `Startup`, the process runs and is restarted, and the authority validates
each order some time. For `AiRunner`, a run is polled, the caller takes its
events, and a process that was killed dies; the upstream may be silent for ever.

**What the violation shows.** `cmd_redeliver`: the documents promise
redelivery until the ack; the code marks a row delivered when the put returns,
which it does with nobody subscribed. A command sent to a device that is
offline at that moment is never sent again.

**What the properties except, and why.**

- `StoredTunnelServed`: a tunnel of the table has its
  listener, or its port is held by the listener of a deleted tunnel or by that of
  a port equal modulo 2^16, or its event or its bind was lost (`missed`: the row is
  committed before the event is sent), or a listener on that port failed.
  `ListenersStayInOrg` depends on the second `get_in_org` of the handler: without
  it a device id that changed hands between insert and event opens a port to the
  device of another organisation. It excepts two ways out (`raced`): the device was deleted
  between check and insert; or the row of a handler was deleted with its device, another request
  was given the row id, the handler read that row back as its own, and the device id changed
  hands once more before the lookup, back to the caller's organisation (`Misread`). The event then says that the
  other request's tunnel leads there.
- `Answered`: `conn_pool` finds the freeze that `POST /v1/tunnels` can cause and shows that it
  ends: gets run out of time, and each request is answered. While it lasts, every
  worker is in a get, and the tasks that could give a connection back wait for a
  worker. `FreezeNeedsFullPoolOfCreates` says what it takes: 16 such requests at once.
- `SomebodyCanAdminister` lists the ways a gateway can be left with nobody who
  can administer or claim it: a crash between storing and printing the claim token
  (no later boot prints it, as only its hash is stored), a lost answer with a token, and owners
  who delete each other (`orphaned`). The two programs meant to recover,
  `bin/reset_claim.rs` and `bin/print_claim.rs`, are stubs.
- `MisdeliveryOnlyByRace`: the device was deleted while a handler or the pusher
  held its id. `SettledStaysOffWire`: the copy of the current
  round, and the clock read before the query.
- `NoSilentTruncation`, `ImplementsPipes`, `BothCloseEndsBridge`: the agent answers before it declares
  its subscriber, so what the gateway sends at once may be lost, the empty
  sample included, and nobody is told. A bridge whose other side died waits
  until its own socket closes, and for the sentinel that never comes after it. A bridge also
  waits, in `write_all`, for a program that has shut its sending half and does not read
  what is left, until that program goes away.
- `ReplayMissesNothing`: a client that lags behind the bus is not told, although the
  handler's comment expects it to replay; `stream.lagged` is
  knowledge that it does not have. `PagerReadsAllHistory` is about limits
  that the server does not clamp down.
- `StaysInOrg`, `StampIsOwn`: a row id that passes to another device between two statements.
- `StoredRowsAudited`: an error lost the audit row, or the sender was deleted between
  his authentication and the insert, which then fails with nobody told.
- `RetractedIsOffline`: the end of a bridge stamps a device that is gone; an upsert
  stamps whatever row has the id by now; and a retraction can be lost for good, because the watcher
  drops a sample whose handling fails, and a gateway that was down when the token went
  does not learn of it. `unheard` holds just the tokens whose last retraction was lost so.
- `StuckOnlyByInterruption` names the three places where a crash leaves a disk
  on which no later boot gets on: within a migration that is not a
  transaction (V001, V003 and others repeat `CREATE` or `ADD COLUMN`), between the
  two files of a certificate, within the write of the account.
- `CertificateRenewed`: an error during an order leaves its challenge server on port 80, where
  no later order gets one; renewals fail until the process restarts.
- `EventsMatchRun`: claude drops events of a full channel; claude and openai go on after
  `Done`, and may return an error after it.
- `ResourcesAreOwn`: two claude runs at once in one process share a file, so that
  one can run with the configuration and the token of the other, or with none.
- `CancelEndsRun`: cancellation is raced with reading only; a codex run that waits
  for a process which has closed its output and does not exit does not end.

### Divergences from the documents

Beside the finding of `PROJECT.json`, these were met while modelling:

- Expired rows count against the cap (`db/cmd_outbox.rs:66`), and nothing
  prunes them; `SCOPE.md:833-836` refuses only while the oldest is alive. A device whose
  rows are never acked is refused new commands until somebody cancels them.
- The organisation is checked in one statement and the row inserted in another
  (`api/cmd/send.rs:40`, `71`); `MisdeliveryOnlyByRace` has the exception.
- Two simultaneous claims can both win (`db/claim.rs:77`: the comparison is
  outside the transaction, and its DELETE may remove nothing); `SCOPE.md:596`
  says exactly one does. Both had the token; the damage is a second owner, and an
  answer that may name the other (`ClaimAnswerIsOwn`).
- `DELETE /v1/tunnels/:id` closes no listener; `api/tunnels/delete.rs:1` and `REST-API.md:283`
  say that it does, `manager.rs:53` logs that it will. Such a listener records its
  sessions under a tunnel id that may have been given to another.
- A bridge ends when both directions have ended (`bridge.rs:270`), not when
  either side closes (`bridge.rs:187`). The `ok` of a `ConnectAck` does not
  mean that the channels are ready (`hackline-proto/src/connect.rs:18`).
- A page that is full after the clamp has no cursor when the limit asked for was
  larger (`api/events/list.rs:57`): there may be more history.
- `online` follows `last_seen_at` and a window, which a token stamps when it
  appears and never again; `SCOPE.md:1048` says that it is online while the token
  is visible. `rtt_ms` may be there when `online` is false (`REST-API.md:222`).
- `migrations.rs:1` calls the boot's run idempotent; see
  `StuckOnlyByInterruption`.
- `ai-runner/src/runner.rs:15` says that every CLI runner drops events of a full
  channel; codex waits. `types.rs:277` calls `Done` a successful end; claude and openai
  may fail after it.
- The TypeScript client reads unnamed server-sent events while the server names
  them, and the CLI reads `entries` where the API answers `items`. Both are outside the models.

## 5. What is proved

TLAPS proves the following for all values of the constants that satisfy the
named assumptions: any finite set of commands, any devices, organisations,
times to live, results, caps, capacities and bounds; any requests, chunks,
messages, migrations, faults, and runs of any runners.

| Theorem | Property |
|---|---|
| `Typing` | `TypeOK` of `CmdOutbox` |
| `Redelivery` | `RedeliveryNeedsFault` |
| `Misdelivery` | `MisdeliveryOnlyByRace` |
| `Wakeup` | `NoLostWakeup` |
| `FirstPutOrder` | `FirstPutsInOrder` |
| `Audited` | `StoredRowsAudited` |
| `Cap` | `WithinCap` |
| `SettledOffWire` | `SettledStaysOffWire` |
| `Refinement` | `ImplementsLifecycle` |
| `ClaimTyping` | `TypeOK` of `Claim` |
| `Exclusion` | `PendingExcludesUsers` |
| `LastOwner` | `KeepsAnOwner` |
| `OwnAnswer` | `ClaimAnswerIsOwn` |
| `Administered` | `SomebodyCanAdminister` |
| `TunnelTypes` | `TypeOK` of `Tunnels` |
| `ListenersMatch` | `ListenerMatchesRow` |
| `ListenersInOrg` | `ListenersStayInOrg` |
| `SessionsRecorded` | `SessionRecorded` |
| `SeenOwn` | `SeenDeviceIsOwn` |
| `StoredServed` | `StoredTunnelServed` |
| `PoolTyping` | `PoolTypeOK` of `ConnPool` |
| `FreezeByCreates` | `FreezeNeedsFullPoolOfCreates` |
| `BridgeTypes` | `TypeOK` of `Bridge` |
| `NothingTruncated` | `NoSilentTruncation` |
| `NeverAlone` | `GatewayNeverBridgesAlone` |
| `BridgeImplementsPipes` | `ImplementsPipes` |
| `MessageTyping` | `TypeOK` of `MessagePlane` |
| `OrganisationsApart` | `StaysInOrg` |
| `RingNewest` | `RingHoldsNewest` |
| `PagesComplete` | `PagerReadsAllHistory` |
| `ReplayComplete` | `ReplayMissesNothing` |
| `HealthTypes` | `TypeOK` of `DeviceHealth` |
| `StampsAreOwn` | `StampIsOwn` |
| `RetractedOffline` | `RetractedIsOffline` |
| `AnswersAreCurrent` | `RttIsCurrent` |
| `StartupTypes` | `TypeOK` of `Startup` |
| `FullSchema` | `ServesFullSchema` |
| `StuckAfterInterruption` | `StuckOnlyByInterruption` |
| `CachedIsServed` | `ServesCached` |
| `RunnerTypes` | `TypeOK` of `AiRunner` |
| `EventsAgree` | `EventsMatchRun` |
| `ResourcesOwn` | `ResourcesAreOwn` |

The assumptions (`BoundsAssumption`,
`SentinelAssumption`, `FiniteCmdIds`, `MaxDeviceIdAssumption`,
`NoDeviceAssumption`, `ClaimBounds`, `NoUserAssumption`, `TunnelBounds`, `NoneAssumption`, `PoolAssumptions`,
`BridgeAssumptions`, `PlaneAssumptions`, `HealthAssumptions`, `StartupAssumptions`, `RunnerAssumptions`) say that bounds are naturals, caps, capacities and times
to live positive (the TTL of the health cache and the time of a probe may be 0), that the "none" values are no members of their sets, that
ports are no host names and no multiples of 2^16, that agents belong to known organisations, and, for
`Startup`, that V006 may be repeated and has two statements. TLC evaluates them in each run.

The argument for the command plane is layered, each invariant inductive given those before it.

1. `TypeOK` is inductive alone. It includes which of `batch`, `cur` and
   `target` the pusher holds at each `pc`.
2. `SentInv`: a command that has not passed the enqueue is not stored, not in
   the batch and was not published. With it, the fixed columns of such a command never change
   (`FixedColumns`), which is what lets a copy in the batch stand for the row.
3. `RowInv`: a stored row has its device in the table. Only the cascade keeps
   this: without it the pusher would hold rows of nobody, and the audit rows
   of stored commands would be refused (`StoredRowsAudited`).
4. `WireInv`: delivered or acked rows, and acks under way, are of commands
   that were published. The refinement needs it: `Settle` and `Acknowledge`
   of the abstract specification ask for it.
5. `RedeliveryInv` counts: publications of a command that is not marked are
   at most the faults so far; one between its put and its mark, and one that
   is marked, has at most one more. The bound of
   `RedeliveryNeedsFault` is not inductive without that case distinction.
6. `TargetInv`: a row not in `raced` has its sender's registration under its
   device id, and so has `target`. It gives `Misdelivery`.
7. `WakeInv`: between two queries, a sendable pending row that was not
   published is still in the batch, or a permit is stored, or its handler has
   not notified, or it is in `missed`. At `pc = "wait"` the batch is empty.
8. `OrderInv`: with a row in the batch, each earlier pending row of the table
   is in the batch too, or published, or missed, and `cur` is the first of
   the batch. Row ids grow with the order of acceptance among stored rows
   (`IsNextRowId`), which orders the rest.

Each step of an invariant is proved action by action; lemmas such as
`RowBefore`, `BatchBefore` and `PubsEffect` say once what a step can do to one
variable, and the later modules cite them.

For `Claim`, `TypeOK` is inductive, and says that a gateway which does not
serve handles no request; `PendingExcludesUsers` is inductive given that.
`KeepsAnOwner` needs `CallerInv`: the row in the hands of a deleting handler is
still in the table as it was read, or its user was deleted; the `reg` of a later
row with its id is larger than any before. `ClaimAnswerIsOwn` needs
`AnswerInv`: a claim that has matched finds the row still pending or another
claim of its token has won; and while an uncontested claim awaits its answer,
its user is the only one, nobody knows that user's token, and nothing is under
way but claims of the same token.

`SomebodyCanAdminister` is not inductive: a user may go whose token was the last
known one of an owner. `AdminInv` says who holds what as long as nothing was lost
(`HeldInv`): somebody has an owner's token, or a claim is pending, or has inserted
its owner and not answered, or the first boot has yet to make one; and whoever is
about to delete a user has a token himself. With `CallerInv`, an owner who
is deleted leaves behind the one who deleted him, or is in `orphaned`.

For `Tunnels` the invariant has layers. `RegInv`: registrations are numbered, and a request
knows that of its device. `OrgInv`: its device is in the caller's organisation, or the request is in
`raced`. `RowInv`: a row of `tunnels` has its device in the table, the one its request checked, and
shares its endpoint with no other row; these are the foreign key and the unique columns, and only
the cascade keeps the first. `HandInv`: the row that a handler read back is its own, as
long as that row is there; what it may be otherwise is what `Misread` is about, which the attempt at this
proof brought up. `ListenerInv`: an event, a bind and a socket agree with the row of their
tunnel as long as it is stored, and with its organisation always. `ConnInv`: a connection
goes by the row of its tunnel and has the session row to go with it. Given these,
`StoredTunnelServed` is inductive: an event moves from the handler to the channel, to a
task, to a socket, and what loses it on the way adds to `missed` or `failed`.

For `ConnPool`, `PoolTypeOK` is inductive because a step takes a connection only
while one is free (`Taken`), or takes none (`Released`). In a frozen gateway
the connections that are out are one for each request in `Waiting`
(`FrozenHolders`), and none is free, so there are as many as the pool has.

For `Bridge` the invariant counts: what a side read and did not lose is
written to the other socket or on its way to it (`Counted`); a direction is
closed only after its pump ended, and its bytes come before (`Closed`); without
a fault, a side nobody has heard of has been sent nothing (`Unheard`), which is
why the refinement may let a pipe lose only what comes before the first chunk
it carries; and a positive answer means that the agent went on (`Answered`).

For `MessagePlane`, `TypeOK` is inductive alone; that two rows of one table have two
ids rests on the choice of the next one, and that a cursor is a row id on the least
element of a set of naturals (`LeastExists`). `StaysInOrg` compares what a client has seen with
what was stored, which no step relates directly. The invariant names the organisation
each message was published under (`Provenance`, an existential witness that
only `Publish` extends): samples, tasks, rows, bus and client agree with it (`Attributed`), and a
stored row is of a device of that organisation, unless the message is in
`raced` (`Owned`). Rows of a deleted device must be gone before another one takes its id,
which the cascade sees to.

`RingHoldsNewest` compares what is kept with all that was stored, and needs to count. Messages of
a kind are handled and stored in the order of their numbers (`InOrder`), and so a
table is in the same order by row ids as by numbers (`RowsInOrder`), although ids are reused:
only the newest row's id is given out again. Ids and numbers of the rows of a device are then
one to one (`CountByNumber`), and the rows with `Cap` larger ids, which the prune deletes, are
those with `Cap` newer messages; an insert makes exactly one message fall behind.
`PagerReadsAllHistory` needs that the pages so far have all that is above the cursor (`PagerInv`); a page
that is not full has the rest, because fewer rows match than were asked for (`FewAreAll`).
`ReplayMissesNothing` needs `StreamInv`: each row that is kept was there at the first page, or
was seen in the stream, or waits on the bus, or is about to be sent.

For `DeviceHealth`, `StampIsOwn` needs that the row that an upsert selected still has the zid and organisation of the
token, if it is the same registration (`WatcherInv`). `RetractedIsOffline` compares the
row with an agent that no step looks at when it stamps; in between, every token
in the queue, in the watcher's hands or on a row is one that its agent still holds, or has a
retraction behind it in the queue (`HeldBeyond`, `TokenInv`), or, if on a row, is in
`unheard`. A token in the queue or in hand is of an agent that the session has met, so that
its end will be heard. `RttIsCurrent` follows
one measurement: a health handler is no older than one probe and knows when it read the row
(`PollInv`), and an entry of the cache was measured for what was the device at a time from
which to the entry is at most one probe (`CacheInv`); a row id that changed hands
since has its time in `freed` (`HadRow`).

For `Startup`, a version that is not recorded has run just the statements before
the cursor, unless a boot was cut short within one (`Progress`); the unit of a
column follows from the statements that ran (`Units`); the cached certificate and
key fit, but while they are written or once that was cut short (`Paired`); and what
is served is what was cached or is being installed (`Served`).

For `AiRunner`, three of the four parts of the invariant are about one run. `Shape` says where a
run of each runner may be, with which event in hand and which error so far. `Child` says what
its process is doing there: codex returns only after a process that has exited, or with none.
`Counts` is what `EventsMatchRun` becomes in the middle of a run: the events received and
those in the channel, with the one about to be put counted in (`Pending`), are the texts and
tools of the result so far; for claude they are at most those, with the tool that is
open counted in, since a full channel drops events. What an event adds to a count is
`CountAppend`; that receiving one changes none is `TakeKeeps`. The fourth part, `File`, is
where runs meet: two that have written the file and not removed it are both in
`shared`, one that is alone finds its own configuration in it, and what it holds is
of a run that will remove it, or was dropped. Each action has a lemma that it keeps the
invariant of its run and touches nothing else of another (`Stays`, `OthersLast`). One step of
the model was corrected in the course of this: a run of codex dropped before it had spawned
a process has none to kill.

**Checked by TLC only.** `PendingIsPublished`, `Answered`, `BothCloseEndsBridge`,
`CertificateRenewed` and `CancelEndsRun`, being liveness under fairness, which is out of
the prover's reach.

## 6. What is not modelled

`PROJECT.json` lists each component with what is left out of it. Not modelled
are: API calls (one handler without state, one query and one row), the CLI, the
clients and the UI (callers of the REST API), metrics and configuration, the
formatting and parsing of key expressions and messages. Partly modelled are the
device registry (labels and customer ids, which nothing else reads), claim
and users (`POST /v1/orgs`, scopes), TLS (the manual and self-signed modes keep no
file), the audit log (rows that only the listing reads), organisations, and the
agent (its info queryable and its diagnostic page). The times of `last_seen_at` and the
window after which a device is shown offline are left out of `DeviceHealth`, the
content of events and prompts out of `AiRunner`.

## 7. Running

    tlasany CmdOutboxProps.tla
    tlc -workers 2 -config MCCmdPlane.cfg MCCmdOutbox
    tlapm CmdOutboxProofs.tla

and in the same way `MCCmdLive`, `MCCmdRecovery`, `MCCmdRedeliver` (module
`MCCmdOutbox`) and each other cfg with the module of its name: `MCClaim`,
`MCTunnels`, `MCConnPool`, `MCBridge`, `MCMessagePlane`, `MCDeviceHealth`, `MCStartup`,
`MCAiRunner`. The modules with theorems are those whose names end with `Proofs`; `tlapm`
takes a few minutes for the largest, `TunnelsProofs` and `MessageProofs`.

The longest runs take two to three minutes on two cores. Operators whose
names begin with `Mutant` are variants of the definition they precede, with a
bug put in; each property of a passing run is broken by one of them
(`PROJECT.json`, "mutants").
