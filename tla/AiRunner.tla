-------------------------------- MODULE AiRunner -------------------------------
(***************************************************************************)
(* The runs of src/ai-runner: a child process or a streaming request whose *)
(* output a runner turns into events on a bounded channel and a result.    *)
(* `kind` is the runner: "claude" (claude-wrapper), "codex" (copilot is    *)
(* the same code), "anthropic", "openai".                                  *)
(*                                                                         *)
(* One atomic step goes from one await to the next: an item is read, an    *)
(* event is put, a process is spawned or waited for.  The callback of the  *)
(* claude runner cannot wait: it reads and puts in one step, or drops.     *)
(* Texts and tools are counted; what an item contains is left out.         *)
(*                                                                         *)
(* Operators named Mutant... are no part of the model: each is the next    *)
(* definition with a bug put in, for the check that a property notices it. *)
(***************************************************************************)
EXTENDS Integers, Sequences, FiniteSets

CONSTANTS
  Runs,
  Plans,    \* the runner of each run, or None when there is no such run
  Capacity, \* of the channel of events
  None,
  MaxItems, \* bound on the items each upstream says between its first and last
  MaxDrops  \* bound on runs whose future is dropped by the caller

Kinds == {"claude", "codex", "anthropic", "openai"}
Rest == {"anthropic", "openai"}
Events == {"Connected", "Text", "ToolUse", "Done", "Error"}
Errors == {"failed", "cancelled", "wrong_input"}

ASSUME RunnerAssumptions ==
  /\ Plans \subseteq [Runs -> Kinds \cup {None}]
  /\ None \notin Runs \cup Kinds \cup Events \cup Errors
  /\ Capacity \in Nat \ {0} /\ MaxItems \in [Runs -> Nat] /\ MaxDrops \in Nat

VARIABLES
  kind,
  run,       \* the local variables of `run` and its result
  cancelled, \* CancellationToken
  stream,    \* what the upstream may still say
  child,     \* the process: "none", "started", "running", "killed", "exited"
  chan,      \* channel of events, and whether its receiver was dropped
  got,       \* events the caller received
  mcpFile,   \* whose configuration the file of this process holds
  \* history
  config,    \* whose configuration the child read: "unread", or "late" when
             \* its run was over by then
  shared,    \* claude runs that overlapped with another one
  drops

vars == <<kind, run, cancelled, stream, child, chan, got, mcpFile, config, shared, drops>>

New == [pc |-> "new", texts |-> 0, tools |-> 0, open |-> FALSE, connected |-> FALSE,
        event |-> None, then |-> "loop", error |-> None]

Init ==
  /\ kind \in Plans
  /\ run = [r \in Runs |-> New]
  /\ cancelled = [r \in Runs |-> FALSE]
  /\ stream = [r \in Runs |-> [items |-> 0, final |-> FALSE, closed |-> FALSE]]
  /\ child = [r \in Runs |-> "none"]
  /\ chan = [r \in Runs |-> [events |-> <<>>, closed |-> FALSE]]
  /\ got = [r \in Runs |-> <<>>]
  /\ mcpFile = None /\ config = [r \in Runs |-> "unread"] /\ shared = {} /\ drops = 0

At(r, pc) == run[r].pc = pc
Cli(r) == kind[r] \notin Rest
Active(r) == run[r].pc \notin {"new", "returned", "dropped"}

(* send(..).await: the event is put in a step of its own. *)
Send(r, event, then, new) ==
  run' = [run EXCEPT ![r] = [new EXCEPT !.pc = "send", !.event = event, !.then = then]]

Goto(r, pc, new) == run' = [run EXCEPT ![r] = [new EXCEPT !.pc = pc]]

Return(r, error) == Goto(r, "returned", [run[r] EXCEPT !.error = error])

FailWith(r) == Send(r, "Error", "returned", [run[r] EXCEPT !.error = "failed"])

-----------------------------------------------------------------------------
(* The beginning of `run`. *)

(* The input is of the other transport: an Err, without an event. *)
WrongInput(r) ==
  /\ At(r, "new") /\ kind[r] # None /\ Return(r, "wrong_input")
  /\ UNCHANGED <<kind, cancelled, stream, child, chan, got, mcpFile, config, shared, drops>>

(* No binary, no key, no client: an event and an error. *)
NotReady(r) ==
  /\ At(r, "new") /\ kind[r] # None /\ FailWith(r)
  /\ UNCHANGED <<kind, cancelled, stream, child, chan, got, mcpFile, config, shared, drops>>

Others(r) == {q \in Runs \ {r} : kind[q] = "claude" /\ Active(q)}

(* The file is named after the process of the caller, not after the run. *)
WriteConfig(r) ==
  /\ At(r, "new") /\ kind[r] = "claude"
  /\ mcpFile' = r /\ Goto(r, "spawn", run[r])
  /\ shared' = IF Others(r) = {} THEN shared ELSE shared \cup Others(r) \cup {r}
  /\ UNCHANGED <<kind, cancelled, stream, child, chan, got, config, drops>>

Spawn(r) ==
  /\ \/ kind[r] = "claude" /\ At(r, "spawn") /\ Goto(r, "loop", run[r])
     \/ kind[r] = "codex" /\ At(r, "new")
        /\ Send(r, "Connected", "loop", [run[r] EXCEPT !.connected = TRUE])
  /\ child' = [child EXCEPT ![r] = "started"]
  /\ UNCHANGED <<kind, cancelled, stream, chan, got, mcpFile, config, shared, drops>>

(* stream_query cannot start the process, with the configuration written:  *)
(* the stream is an error before it began, told and cleaned up after.      *)
SpawnFails(r) ==
  /\ kind[r] = "claude" /\ At(r, "spawn")
  /\ Send(r, "Error", "clean_up", [run[r] EXCEPT !.error = "failed"])
  /\ UNCHANGED <<kind, cancelled, stream, child, chan, got, mcpFile, config, shared, drops>>

(* create_stream, which is not raced with the cancellation. *)
Request(r) ==
  /\ kind[r] \in Rest
  /\ \/ At(r, "new") /\ Goto(r, "request", run[r])
     \/ At(r, "request") /\ (Goto(r, "loop", run[r]) \/ FailWith(r))
  /\ UNCHANGED <<kind, cancelled, stream, child, chan, got, mcpFile, config, shared, drops>>

-----------------------------------------------------------------------------
(* Events. *)

Full(r) == Len(chan[r].events) >= Capacity

Put(r, event) ==
  chan' = IF chan[r].closed THEN chan ELSE [chan EXCEPT ![r].events = Append(@, event)]

SendEvent(r) ==
  /\ At(r, "send") /\ (chan[r].closed \/ ~ Full(r))
  /\ Put(r, run[r].event)
  /\ Goto(r, run[r].then, [run[r] EXCEPT !.event = None])
  /\ UNCHANGED <<kind, cancelled, stream, child, got, mcpFile, config, shared, drops>>

MutantTryEmit(r, event) == Put(r, event) \* an unbounded send

(* cb_emit of the claude runner *)
TryEmit(r, event) == IF Full(r) THEN UNCHANGED chan ELSE Put(r, event)

(* Every runner puts the event, each in its way, and goes on reading. *)
Emit(r, event, then, new) ==
  IF kind[r] = "claude" THEN TryEmit(r, event) /\ Goto(r, then, new)
                        ELSE Send(r, event, then, new) /\ UNCHANGED chan

-----------------------------------------------------------------------------
(* The loop: what the upstream says, raced with the cancellation. *)

Says(r, more) ==
  /\ At(r, "loop") /\ ~ stream[r].closed
  /\ Cli(r) => child[r] = "running"
  /\ stream' = [stream EXCEPT ![r] = more]

Hello(r) ==
  /\ ~ run[r].connected /\ Says(r, stream[r])
  /\ Emit(r, "Connected", "loop", [run[r] EXCEPT !.connected = TRUE])
  /\ UNCHANGED <<kind, cancelled, child, got, mcpFile, config, shared, drops>>

Item(r) ==
  /\ stream[r].items < MaxItems[r] /\ ~ stream[r].final /\ run[r].connected
  /\ Says(r, [stream[r] EXCEPT !.items = @ + 1])

Text(r) ==
  /\ Item(r)
  /\ Emit(r, "Text", "loop", [run[r] EXCEPT !.texts = @ + 1])
  /\ UNCHANGED <<kind, cancelled, child, got, mcpFile, config, shared, drops>>

(* A tool: claude logs it when the next begins, or the stream ends.  *)
(* anthropic collects its input in `pending` from one block event to *)
(* another; the others have none.                                    *)
MutantClosed(r) == [run[r] EXCEPT !.open = TRUE] \* without take()

Closed(r) == [run[r] EXCEPT !.tools = @ + (IF run[r].open THEN 1 ELSE 0), !.open = TRUE]

Tool(r) ==
  /\ Item(r)
  /\ \/ kind[r] = "claude" /\ Emit(r, "ToolUse", "loop", Closed(r))
     \/ kind[r] = "anthropic" /\ ~ run[r].open
        /\ Goto(r, "loop", [run[r] EXCEPT !.open = TRUE]) /\ UNCHANGED chan
     \/ kind[r] = "anthropic" /\ run[r].open
        /\ Emit(r, "ToolUse", "loop", [run[r] EXCEPT !.tools = @ + 1, !.open = FALSE])
  /\ UNCHANGED <<kind, cancelled, child, got, mcpFile, config, shared, drops>>

(* The result of claude, MessageStop, a finish_reason: only anthropic *)
(* leaves the loop.                                                   *)
Final(r) ==
  /\ kind[r] # "codex" /\ ~ stream[r].final /\ run[r].connected
  /\ Says(r, [stream[r] EXCEPT !.final = TRUE])
  /\ Emit(r, "Done", IF kind[r] = "anthropic" THEN "returned" ELSE "loop", run[r])
  /\ UNCHANGED <<kind, cancelled, child, got, mcpFile, config, shared, drops>>

Over(r) == Says(r, [stream[r] EXCEPT !.closed = TRUE])

RemoveConfig(r) == mcpFile' = IF kind[r] = "claude" THEN None ELSE mcpFile

Logged(r) == IF kind[r] = "claude" /\ run[r].open
               THEN [run[r] EXCEPT !.tools = @ + 1, !.open = FALSE] ELSE run[r]

(* The stream ends. *)
EndOfStream(r) ==
  /\ Over(r)
  /\ Goto(r, IF kind[r] = "codex" THEN "wait" ELSE "returned", Logged(r))
  /\ RemoveConfig(r)
  /\ UNCHANGED <<kind, cancelled, child, chan, got, config, shared, drops>>

(* The stream fails; codex takes that for its end. *)
StreamFails(r) ==
  /\ kind[r] # "codex" /\ Over(r)
  /\ Send(r, "Error", IF kind[r] = "claude" THEN "clean_up" ELSE "returned",
          [Logged(r) EXCEPT !.error = "failed"])
  /\ UNCHANGED <<kind, cancelled, child, chan, got, mcpFile, config, shared, drops>>

CleanUp(r) ==
  /\ At(r, "clean_up") /\ RemoveConfig(r) /\ Goto(r, "returned", run[r])
  /\ UNCHANGED <<kind, cancelled, stream, child, chan, got, config, shared, drops>>

(* child.wait() of codex, which is not raced with the cancellation. *)
Waited(r) ==
  /\ At(r, "wait") /\ child[r] = "exited"
  /\ \/ Send(r, "Done", "returned", run[r])
     \/ FailWith(r)
  /\ UNCHANGED <<kind, cancelled, stream, child, chan, got, mcpFile, config, shared, drops>>

MutantNotices(r) == \* between two items only
  At(r, "loop") /\ cancelled[r] /\ stream[r].items = MaxItems[r]

(* select! may look at a token that was cancelled before it first polls    *)
(* the stream of claude, which is what starts the process.                 *)
Notices(r) == (At(r, "loop") \/ At(r, "spawn")) /\ cancelled[r]

MutantCancel(r) == \* the child is killed, and not waited for; the file stays
  /\ Notices(r) /\ Return(r, "cancelled")
  /\ child' = IF kind[r] = "codex" THEN [child EXCEPT ![r] = "killed"] ELSE child
  /\ UNCHANGED <<kind, cancelled, stream, chan, got, mcpFile, config, shared, drops>>

(* Codex kills and waits; claude drops the stream, and the child may linger. *)
Cancel(r) ==
  /\ Notices(r)
  /\ IF kind[r] = "codex"
       THEN /\ Goto(r, "reap", run[r])
            /\ child' = [child EXCEPT ![r] = IF @ = "exited" THEN @ ELSE "killed"]
       ELSE Return(r, "cancelled") /\ UNCHANGED child
  /\ RemoveConfig(r)
  /\ UNCHANGED <<kind, cancelled, stream, chan, got, config, shared, drops>>

Reap(r) ==
  /\ At(r, "reap") /\ child[r] = "exited" /\ Return(r, "cancelled")
  /\ UNCHANGED <<kind, cancelled, stream, child, chan, got, mcpFile, config, shared, drops>>

-----------------------------------------------------------------------------
(* The caller and the processes. *)

FireCancel(r) ==
  /\ Active(r) /\ ~ cancelled[r] /\ cancelled' = [cancelled EXCEPT ![r] = TRUE]
  /\ UNCHANGED <<kind, run, stream, child, chan, got, mcpFile, config, shared, drops>>

Receive(r) ==
  /\ chan[r].events # <<>>
  /\ got' = [got EXCEPT ![r] = Append(@, Head(chan[r].events))]
  /\ chan' = [chan EXCEPT ![r].events = Tail(@)]
  /\ UNCHANGED <<kind, run, cancelled, stream, child, mcpFile, config, shared, drops>>

CloseReceiver(r) ==
  /\ drops < MaxDrops /\ drops' = drops + 1
  /\ Active(r) /\ ~ chan[r].closed
  /\ chan' = [chan EXCEPT ![r] = [events |-> <<>>, closed |-> TRUE]]
  /\ UNCHANGED <<kind, run, cancelled, stream, child, got, mcpFile, config, shared>>

(* The future is dropped: kill_on_drop, and nothing is cleaned up. *)
DropRun(r) ==
  /\ drops < MaxDrops /\ drops' = drops + 1
  /\ Active(r) /\ Goto(r, "dropped", run[r])
  /\ child' = IF kind[r] = "codex" /\ child[r] \in {"started", "running"}
                THEN [child EXCEPT ![r] = "killed"] ELSE child
  /\ UNCHANGED <<kind, cancelled, stream, chan, got, mcpFile, config, shared>>

(* A child starts, and reads the configuration it was told of. *)
ChildReads(r) ==
  /\ child[r] = "started" /\ child' = [child EXCEPT ![r] = "running"]
  /\ config' = IF kind[r] = "claude"
                 THEN [config EXCEPT ![r] = IF Active(r) THEN mcpFile ELSE "late"] ELSE config
  /\ UNCHANGED <<kind, run, cancelled, stream, chan, got, mcpFile, shared, drops>>

(* A child that has closed its output exits, some time or never. *)
ChildExits(r) ==
  /\ child[r] = "running" /\ stream[r].closed
  /\ child' = [child EXCEPT ![r] = "exited"]
  /\ UNCHANGED <<kind, run, cancelled, stream, chan, got, mcpFile, config, shared, drops>>

Dies(r) ==
  /\ child[r] = "killed" /\ child' = [child EXCEPT ![r] = "exited"]
  /\ UNCHANGED <<kind, run, cancelled, stream, chan, got, mcpFile, config, shared, drops>>

Works(r) == \* steps that wait for no upstream
  Spawn(r) \/ SpawnFails(r) \/ SendEvent(r) \/ CleanUp(r) \/ Waited(r) \/ Cancel(r) \/ Reap(r)

Upstream(r) ==
  Hello(r) \/ Text(r) \/ Tool(r) \/ Final(r) \/ EndOfStream(r) \/ StreamFails(r)

Next ==
  \E r \in Runs :
    \/ WrongInput(r) \/ NotReady(r) \/ WriteConfig(r) \/ Request(r)
    \/ Works(r) \/ Upstream(r)
    \/ FireCancel(r) \/ Receive(r) \/ CloseReceiver(r) \/ DropRun(r)
    \/ ChildReads(r) \/ ChildExits(r) \/ Dies(r)

Spec == Init /\ [][Next]_vars

(* The runtime polls the run, the caller takes its events, a killed process *)
(* dies.  The upstream may be silent for ever.                              *)
FairSpec ==
  Spec /\ \A r \in Runs : WF_vars(Works(r)) /\ WF_vars(Receive(r)) /\ WF_vars(Dies(r))

-----------------------------------------------------------------------------
(* Properties. *)

Points == {"new", "spawn", "request", "loop", "send", "wait", "reap", "clean_up", "returned",
           "dropped"}

Thens == {"loop", "clean_up", "returned"}

Run == [pc : Points, texts : Nat, tools : Nat, open : BOOLEAN, connected : BOOLEAN,
        event : Events \cup {None}, then : Thens,
        error : Errors \cup {None}]

TypeOK ==
  /\ kind \in Plans /\ run \in [Runs -> Run] /\ cancelled \in [Runs -> BOOLEAN]
  /\ stream \in [Runs -> [items : Nat, final : BOOLEAN, closed : BOOLEAN]]
  /\ child \in [Runs -> {"none", "started", "running", "killed", "exited"}]
  /\ chan \in [Runs -> [events : Seq(Events), closed : BOOLEAN]]
  /\ got \in [Runs -> Seq(Events)]
  /\ mcpFile \in Runs \cup {None} /\ config \in [Runs -> Runs \cup {None, "unread", "late"}]
  /\ shared \subseteq Runs /\ drops \in 0 .. MaxDrops
  /\ \A r \in Runs :
       /\ Len(chan[r].events) <= Capacity
       /\ At(r, "send") => run[r].event # None
       /\ At(r, "returned") => run[r].event = None
       /\ At(r, "loop") /\ Cli(r) => child[r] \in {"started", "running", "exited"}

Told(r) == got[r] \o chan[r].events
Occurrences(s, event) == {i \in DOMAIN s : s[i] = event}
Count(r, event) == Cardinality(Occurrences(Told(r), event))

(* The result of a run that returned and the events of it agree: on the    *)
(* text and the tools, except that the claude runner drops events of a     *)
(* channel that is full, and that one whose output was cancelled loses the *)
(* last tool it had begun.                                                 *)
ResultMatchesEvents ==
  \A r \in Runs :
    At(r, "returned") /\ ~ chan[r].closed =>
      /\ Count(r, "Text") <= run[r].texts
      /\ kind[r] # "claude" =>
           Count(r, "Text") = run[r].texts /\ Count(r, "ToolUse") = run[r].tools
      /\ kind[r] = "claude" =>
           Count(r, "ToolUse") <= run[r].tools + (IF run[r].error = "cancelled" THEN 1 ELSE 0)

(* How the run ended is told in its events: an upstream failure always is, *)
(* and no run of codex or anthropic says Done and returns an error.  The   *)
(* other two go on reading after Done, and may fail or be cancelled there. *)
OutcomeIsTold ==
  \A r \in Runs :
    At(r, "returned") /\ ~ chan[r].closed =>
      /\ run[r].error = "failed" => Count(r, "Error") = 1
      /\ Count(r, "Done") > 0 /\ run[r].error # None => kind[r] \in {"claude", "openai"}
      /\ kind[r] = "codex" /\ run[r].error = None => Count(r, "Done") = 1

(* The events of a run tell what it did. *)
EventsMatchRun == ResultMatchesEvents /\ OutcomeIsTold

(* No process of codex outlives its run; when the run was dropped, it was  *)
(* killed.                                                                 *)
ChildReaped ==
  \A r \in Runs : kind[r] = "codex" =>
    /\ At(r, "returned") => child[r] \in {"none", "exited"}
    /\ At(r, "dropped") => child[r] \in {"none", "killed", "exited"}

(* A child of claude reads the configuration, with its token, of its own   *)
(* run, unless the run is over or overlapped with another one in this      *)
(* process; the file is gone when no run is active, unless one was dropped. *)
ConfigIsOwn ==
  /\ \A r \in Runs : config[r] \in {"unread", "late", r} \/ r \in shared
  /\ (\A r \in Runs : ~ Active(r)) => mcpFile = None \/ \E r \in Runs : At(r, "dropped")

(* What a run acquires is its own and is given back. *)
ResourcesAreOwn == ChildReaped /\ ConfigIsOwn

(* A run that is cancelled while it reads returns, also when the upstream  *)
(* is silent, unless it went on to wait for a process that does not exit.  *)
CancelEndsRun ==
  \A r \in Runs :
    (cancelled[r] /\ At(r, "loop")) ~> ~ Active(r) \/ At(r, "wait")
=============================================================================
