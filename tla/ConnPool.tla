------------------------------- MODULE ConnPool --------------------------------
(***************************************************************************)
(* The pool of SQLite connections and the threads that wait for one.       *)
(*                                                                         *)
(* Handlers run on the worker threads of tokio.  Pool::get is not async: a *)
(* handler that calls it keeps its worker until it has a connection, or    *)
(* gives up.  Most move the connection into a closure that a blocking      *)
(* thread runs, and that drops it.  POST /v1/tunnels asks for a second one *)
(* while it has the first, and has the first until it is polled again.     *)
(*                                                                         *)
(* The state is how far each request is.  What the requests do with their  *)
(* connections is left out: it does not depend on the other requests.      *)
(*                                                                         *)
(* Operators named Mutant... are no part of the model: each is the next    *)
(* definition with a bug put in, for the check that a property notices it. *)
(***************************************************************************)
EXTENDS Naturals, FiniteSets

CONSTANTS
  Creates, \* requests to POST /v1/tunnels
  Others,  \* requests to the handlers that use one connection
  MaxSize, \* connections of the pool, 16 in db/pool.rs
  Workers  \* worker threads: one per core

ASSUME PoolAssumptions ==
  /\ MaxSize \in Nat \ {0} /\ Workers \in Nat \ {0}
  /\ IsFiniteSet(Creates) /\ IsFiniteSet(Others) /\ Creates \cap Others = {}

Requests == Creates \cup Others

VARIABLE at

(* In Pool::get on a worker, and on a blocking thread. *)
GetOnWorker == {"get", "first", "second", "third"}
GetOnBlocking == {"auth", "audit"}

(* In a closure on a blocking thread, with a connection. *)
Jobs == {"authing", "job", "checking", "inserting", "lookup", "auditing"}

(* To be polled by a worker. *)
Ready == {"authed", "checked", "inserted", "looked_up", "answer"}

MutantHolds(p) == \* the closure borrows the connection
  IF p \in {"checking"} THEN 2
  ELSE IF p \in Jobs \cup {"second", "checked", "answer"} THEN 1 ELSE 0

(* Connections that a request has at a point. *)
Holds(p) ==
  IF p \in {"checking"} THEN 2 ELSE IF p \in Jobs \cup {"second", "checked"} THEN 1 ELSE 0

Held == {slot \in Requests \X {1, 2} : slot[2] <= Holds(at[slot[1]])}

Free == Cardinality(Held) < MaxSize

Blocked == {r \in Requests : at[r] \in GetOnWorker}

WorkerFree == Cardinality(Blocked) < Workers

PoolInit == at = [r \in Requests |-> "idle"]

Goto(r, from, to) == at[r] = from /\ at' = [at EXCEPT ![r] = to]

-----------------------------------------------------------------------------
(* A request arrives, and its extractor spawns the lookup of the token. *)
Arrive(r) == WorkerFree /\ Goto(r, "idle", "auth")

(* A worker polls the handler, as far as its next get or await. *)
Poll(r) ==
  /\ WorkerFree
  /\ \/ Goto(r, "authed", IF r \in Creates THEN "first" ELSE "get")
     \/ Goto(r, "checked", "inserting") \/ Goto(r, "checked", "idle")
     \/ Goto(r, "inserted", "third") \/ Goto(r, "inserted", "audit")
     \/ Goto(r, "looked_up", "audit")
     \/ Goto(r, "answer", "idle")

(* Pool::get returns a connection. *)
Connect(r) ==
  /\ Free
  /\ \/ Goto(r, "auth", "authing")
     \/ Goto(r, "get", "job")
     \/ Goto(r, "first", "second")
     \/ Goto(r, "second", "checking")
     \/ Goto(r, "third", "lookup")
     \/ Goto(r, "audit", "auditing")

MutantTimeout(r) == \* the second get waits without end
  /\ ~ Free
  /\ \/ \E p \in GetOnWorker \ {"second"} : Goto(r, p, "idle")
     \/ \E p \in GetOnBlocking : Goto(r, p, "answer")

(* Pool::get gives up after 30 s, and the request fails with what it has;  *)
(* the error of the audit row alone is discarded.                          *)
Timeout(r) ==
  /\ ~ Free
  /\ \/ \E p \in GetOnWorker : Goto(r, p, "idle")
     \/ \E p \in GetOnBlocking : Goto(r, p, "answer")

(* The closure ends, well or not, and drops its connection. *)
Finish(r) ==
  \/ Goto(r, "authing", "authed") \/ Goto(r, "authing", "answer")
  \/ Goto(r, "job", "answer")
  \/ Goto(r, "checking", "checked")
  \/ Goto(r, "inserting", "inserted") \/ Goto(r, "inserting", "answer")
  \/ Goto(r, "lookup", "looked_up")
  \/ Goto(r, "auditing", "answer")

PoolNext == \E r \in Requests : Arrive(r) \/ Poll(r) \/ Connect(r) \/ Timeout(r) \/ Finish(r)

PoolSpec == PoolInit /\ [][PoolNext]_at

(* Statements end.  A get always returns: with a connection, or too late.  *)
(* Tasks that are ready wait in a queue, so that each is polled whenever   *)
(* workers keep becoming free.                                             *)
PoolFairness ==
  \A r \in Requests :
    WF_at(Connect(r) \/ Timeout(r)) /\ WF_at(Finish(r)) /\ SF_at(Poll(r))

PoolFairSpec == PoolSpec /\ PoolFairness

-----------------------------------------------------------------------------
(* Properties.                                                             *)

Points == {"idle"} \cup GetOnWorker \cup GetOnBlocking \cup Jobs \cup Ready

(* A request is at a point of its own handler, and the pool gives out no   *)
(* more connections than it has.                                           *)
PoolTypeOK ==
  /\ at \in [Requests -> Points]
  /\ \A r \in Others : at[r] \in {"idle", "auth", "authing", "authed", "get", "job", "answer"}
  /\ \A r \in Creates : at[r] \notin {"get", "job"}
  /\ Cardinality(Held) <= MaxSize

(* Nothing goes on but that a get runs out of time: every worker is in one, *)
(* no connection is free, and no closure that could free one runs.         *)
Frozen == ~ WorkerFree /\ ~ Free /\ \A r \in Requests : at[r] \notin Jobs

Waiting == {r \in Creates : at[r] \in {"second", "checked"}}

(* Only POST /v1/tunnels freezes the gateway, and only as many of them at  *)
(* once as the pool has connections: each has one and waits, for another   *)
(* or for a worker.                                                        *)
FreezeNeedsFullPoolOfCreates ==
  Frozen => Cardinality(Waiting) = MaxSize

(* Every request is answered, although handlers wait for connections while *)
(* they have one.                                                          *)
Answered == \A r \in Requests : at[r] = "auth" ~> at[r] = "idle"
=============================================================================
