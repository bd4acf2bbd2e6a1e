---------------------------- MODULE AiRunnerProofs -----------------------------
(***************************************************************************)
(* The safety properties of a run, for any runs, capacity of the channel   *)
(* and bounds.                                                             *)
(*                                                                         *)
(* All but the file of claude is about one run at a time: where it may be  *)
(* and how it got there (Shape), its process (Child), and its events       *)
(* counted against its result, with the event it is about to put counted   *)
(* in (Counts).  Runs meet in the file: two that have written it and not   *)
(* removed it are both in `shared`, and one that is alone finds its own.   *)
(***************************************************************************)
EXTENDS AiRunner, SequenceTheorems, FiniteSetTheorems, TLAPS

Sends(r, then) == At(r, "send") /\ run[r].then = then

(* The points of each runner, and the error a run has there. *)
Shape(r) ==
  /\ kind[r] = None => At(r, "new")
  /\ kind[r] \in Rest => run[r].pc \in {"new", "request", "loop", "send", "returned", "dropped"}
  /\ kind[r] = "codex" =>
       run[r].pc \in {"new", "loop", "send", "wait", "reap", "returned", "dropped"}
  /\ kind[r] = "claude" =>
       run[r].pc \in {"new", "spawn", "loop", "send", "clean_up", "returned", "dropped"}
  /\ Sends(r, "clean_up") => kind[r] = "claude"
  /\ At(r, "send") =>
       /\ run[r].event # None /\ (run[r].event = "Error" <=> run[r].error = "failed")
       /\ run[r].error \in {None, "failed"}
       /\ kind[r] = "claude" => run[r].event = "Error"
       /\ run[r].event = "Error" => run[r].then # "loop"
       /\ kind[r] \in {"codex", "anthropic"} /\ run[r].event = "Done" => run[r].then = "returned"
       /\ kind[r] = "codex" /\ run[r].then = "returned" => run[r].event \in {"Done", "Error"}
  /\ run[r].pc \in {"new", "spawn", "request", "loop", "wait", "reap"} => run[r].error = None
  /\ At(r, "clean_up") => run[r].error = "failed"
  /\ run[r].pc \notin {"send", "dropped"} => run[r].event = None
  /\ kind[r] = "claude" /\ run[r].open =>
       At(r, "loop") \/ At(r, "dropped") \/ run[r].error = "cancelled"

(* The process of a run at each point. *)
Child(r) ==
  /\ kind[r] = "claude" =>
       /\ child[r] # "killed" /\ (At(r, "loop") => child[r] # "none")
       /\ At(r, "new") \/ At(r, "spawn") \/ Sends(r, "returned") => child[r] = "none"
  /\ kind[r] = "codex" =>
       /\ At(r, "new") => child[r] = "none"
       /\ At(r, "loop") \/ Sends(r, "loop") =>
            child[r] \in {"started", "running"} /\ ~ stream[r].closed
       /\ At(r, "new") => ~ stream[r].closed
       /\ At(r, "wait") => child[r] \in {"running", "exited"}
       /\ At(r, "reap") => child[r] \in {"killed", "exited"}
       /\ At(r, "returned") \/ Sends(r, "returned") => child[r] \in {"none", "exited"}
       /\ At(r, "dropped") => child[r] \in {"none", "killed", "exited"}

(* 1 while the event is being put. *)
Pending(r, event) == IF At(r, "send") /\ run[r].event = event THEN 1 ELSE 0

Counts(r) ==
  ~ chan[r].closed /\ ~ At(r, "dropped") =>
    /\ kind[r] # "claude" =>
         /\ Count(r, "Text") + Pending(r, "Text") = run[r].texts
         /\ Count(r, "ToolUse") + Pending(r, "ToolUse") = run[r].tools
    /\ kind[r] = "claude" =>
         /\ Count(r, "Text") <= run[r].texts
         /\ Count(r, "ToolUse") <= run[r].tools + (IF run[r].open THEN 1 ELSE 0)
    /\ Count(r, "Error") + Pending(r, "Error") = IF run[r].error = "failed" THEN 1 ELSE 0
    /\ kind[r] \in {"codex", "anthropic"} =>
         Count(r, "Done") = 0 \/ (At(r, "returned") /\ run[r].error = None)
    /\ kind[r] = "codex" /\ At(r, "returned") /\ run[r].error = None => Count(r, "Done") = 1

(* The run has written the file, and will remove it unless it is dropped. *)
Wrote(r) ==
  kind[r] = "claude" /\ (run[r].pc \in {"spawn", "loop", "clean_up"} \/ Sends(r, "clean_up"))

File ==
  /\ \A r, q \in Runs : r # q /\ Wrote(r) /\ Wrote(q) => r \in shared
  /\ \A r \in Runs : Wrote(r) /\ r \notin shared => mcpFile = r
  /\ mcpFile # None => Wrote(mcpFile) \/ At(mcpFile, "dropped")
  /\ \A r \in Runs : kind[r] = "claude" /\ child[r] = "started" /\ Active(r) => Wrote(r)
  /\ \A r \in Runs : config[r] \in {"unread", "late", r} \/ r \in shared

Local(r) == Shape(r) /\ Child(r) /\ Counts(r)

IInv == TypeOK /\ File /\ \A r \in Runs : Local(r)

LEMMA Distinct == None \notin Runs /\ None \notin Kinds /\ None \notin Events /\ None \notin Errors
BY RunnerAssumptions

-----------------------------------------------------------------------------
(* Counting events. *)

LEMMA TakeKeeps == \* the same as in BridgeProofs, for events
  ASSUME NEW s \in Seq(Events), NEW t \in Seq(Events), t # <<>>
  PROVE  /\ Append(s, Head(t)) \in Seq(Events) /\ Tail(t) \in Seq(Events)
         /\ Len(Tail(t)) <= Len(t) /\ Append(s, Head(t)) \o Tail(t) = s \o t
<1>1. /\ Head(t) \in Events /\ Tail(t) \in Seq(Events) /\ Append(s, Head(t)) \in Seq(Events)
      /\ Len(t) \in Nat \ {0} /\ Len(Tail(t)) = Len(t) - 1
  BY HeadTailProperties, AppendProperties
<1>2. Len(Append(s, Head(t)) \o Tail(t)) = Len(s \o t)
  BY <1>1
<1>3. \A i \in 1 .. Len(s \o t) : (Append(s, Head(t)) \o Tail(t))[i] = (s \o t)[i]
  BY <1>1
<1>4. QED
  BY <1>1, <1>2, <1>3, SeqEqual

LEMMA AppendAtEnd ==
  ASSUME NEW s \in Seq(Events), NEW t \in Seq(Events), NEW e \in Events
  PROVE  s \o Append(t, e) = Append(s \o t, e)
<1>1. /\ Append(t, e) \in Seq(Events) /\ Append(s \o t, e) \in Seq(Events)
      /\ s \o Append(t, e) \in Seq(Events) /\ s \o t \in Seq(Events)
  BY AppendProperties, ConcatProperties
<1>2. Len(s \o Append(t, e)) = Len(Append(s \o t, e))
  BY <1>1
<1>3. \A i \in 1 .. Len(s \o Append(t, e)) : (s \o Append(t, e))[i] = Append(s \o t, e)[i]
  BY <1>1
<1>4. QED
  BY <1>1, <1>2, <1>3, SeqEqual

LEMMA CountIsNat ==
  ASSUME NEW s \in Seq(Events), NEW event
  PROVE  IsFiniteSet(Occurrences(s, event)) /\ Cardinality(Occurrences(s, event)) \in Nat
<1>1. DOMAIN s = 1 .. Len(s) /\ Len(s) \in Nat /\ IsFiniteSet(1 .. Len(s))
  BY FS_Interval
<1>2. IsFiniteSet(Occurrences(s, event))
  BY <1>1, FS_Subset, Occurrences(s, event) \in SUBSET (1 .. Len(s)) DEF Occurrences
<1>3. QED
  BY <1>2, FS_CardinalityType

LEMMA CountAppend ==
  ASSUME NEW s \in Seq(Events), NEW event, NEW e \in Events
  PROVE  Cardinality(Occurrences(Append(s, e), event)) =
           Cardinality(Occurrences(s, event)) + (IF e = event THEN 1 ELSE 0)
<1>1. /\ DOMAIN s = 1 .. Len(s) /\ Len(s) \in Nat /\ DOMAIN Append(s, e) = 1 .. Len(s) + 1
      /\ Append(s, e)[Len(s) + 1] = e /\ \A i \in 1 .. Len(s) : Append(s, e)[i] = s[i]
  BY AppendProperties
<1>2. CASE e = event
  <2>1. Occurrences(Append(s, e), event) = Occurrences(s, event) \cup {Len(s) + 1}
    BY <1>1, <1>2 DEF Occurrences
  <2>2. Len(s) + 1 \notin Occurrences(s, event)
    BY <1>1 DEF Occurrences
  <2>3. QED
    BY <1>2, <2>1, <2>2, CountIsNat, FS_AddElement
<1>3. CASE e # event
  <2>1. Occurrences(Append(s, e), event) = Occurrences(s, event)
    BY <1>1, <1>3 DEF Occurrences
  <2>2. QED
    BY <1>3, <2>1, CountIsNat
<1>4. QED
  BY <1>2, <1>3

LEMMA ToldTypes ==
  ASSUME TypeOK, NEW r \in Runs
  PROVE  /\ got[r] \in Seq(Events) /\ chan[r].events \in Seq(Events) /\ Told(r) \in Seq(Events)
         /\ chan[r].closed \in BOOLEAN /\ \A event : Count(r, event) \in Nat
<1>1. chan[r] \in [events : Seq(Events), closed : BOOLEAN] /\ got[r] \in Seq(Events)
  BY DEF TypeOK
<1>2. Told(r) \in Seq(Events)
  BY <1>1, ConcatProperties DEF Told
<1>3. QED
  BY <1>1, <1>2, CountIsNat DEF Count

-----------------------------------------------------------------------------
(* What the helpers do to a run. *)

LEMMA GotoEffect ==
  ASSUME TypeOK, NEW r \in Runs, NEW pc \in Points, NEW new \in Run, Goto(r, pc, new)
  PROVE  /\ run' \in [Runs -> Run] /\ \A q \in Runs \ {r} : run'[q] = run[q]
         /\ run'[r].pc = pc /\ run'[r].event = new.event /\ run'[r].then = new.then
         /\ run'[r].texts = new.texts /\ run'[r].tools = new.tools /\ run'[r].open = new.open
         /\ run'[r].connected = new.connected /\ run'[r].error = new.error
<1>1. [new EXCEPT !.pc = pc] \in Run
  BY DEF Run
<1>2. run' = [run EXCEPT ![r] = [new EXCEPT !.pc = pc]] /\ run \in [Runs -> Run]
  BY DEF Goto, TypeOK
<1>3. run'[r] = [new EXCEPT !.pc = pc]
  BY <1>2
<1>4. QED
  BY <1>1, <1>2, <1>3 DEF Run

LEMMA SendEffect ==
  ASSUME TypeOK, NEW r \in Runs, NEW event \in Events,
         NEW then \in Thens, NEW new \in Run,
         Send(r, event, then, new)
  PROVE  /\ run' \in [Runs -> Run] /\ \A q \in Runs \ {r} : run'[q] = run[q]
         /\ run'[r].pc = "send" /\ run'[r].event = event /\ run'[r].then = then
         /\ run'[r].texts = new.texts /\ run'[r].tools = new.tools /\ run'[r].open = new.open
         /\ run'[r].connected = new.connected /\ run'[r].error = new.error
<1>1. [new EXCEPT !.pc = "send", !.event = event, !.then = then] \in Run
  BY DEF Run, Points
<1>2. /\ run' = [run EXCEPT ![r] = [new EXCEPT !.pc = "send", !.event = event, !.then = then]]
      /\ run \in [Runs -> Run]
  BY DEF Send, TypeOK
<1>3. run'[r] = [new EXCEPT !.pc = "send", !.event = event, !.then = then]
  BY <1>2
<1>4. QED
  BY <1>1, <1>2, <1>3 DEF Run

LEMMA PutEffect ==
  ASSUME TypeOK, NEW r \in Runs, NEW event \in Events, Put(r, event), got' = got,
         chan[r].closed \/ ~ Full(r)
  PROVE  /\ chan' \in [Runs -> [events : Seq(Events), closed : BOOLEAN]]
         /\ \A q \in Runs \ {r} : chan'[q] = chan[q]
         /\ chan'[r].closed = chan[r].closed /\ Len(chan'[r].events) <= Capacity
         /\ ~ chan[r].closed => \A e \in Events :
              Count(r, e)' = Count(r, e) + (IF event = e THEN 1 ELSE 0)
<1>1. chan \in [Runs -> [events : Seq(Events), closed : BOOLEAN]] /\ Len(chan[r].events) <= Capacity
  BY DEF TypeOK
<1>2. CASE chan[r].closed
  BY <1>1, <1>2 DEF Put
<1>3. CASE ~ chan[r].closed
  <2>1. chan' = [chan EXCEPT ![r].events = Append(@, event)]
    BY <1>3 DEF Put
  <2>2. chan'[r].events = Append(chan[r].events, event) /\ chan'[r].closed = chan[r].closed
    BY <1>1, <2>1
  <2>3. /\ Append(chan[r].events, event) \in Seq(Events)
        /\ Len(Append(chan[r].events, event)) = Len(chan[r].events) + 1
    BY <1>1, AppendProperties
  <2>4. Len(chan[r].events) < Capacity
    BY <1>1, <1>3, RunnerAssumptions DEF Full
  <2>5. Len(chan'[r].events) <= Capacity
    <3>1. Len(chan[r].events) \in Nat /\ Capacity \in Nat
      BY <1>1, RunnerAssumptions
    <3>2. Len(chan'[r].events) = Len(chan[r].events) + 1
      BY <2>2, <2>3
    <3>3. QED
      BY <2>4, <3>1, <3>2
  <2>6. Told(r)' = Append(Told(r), event)
    <3>1. got[r] \in Seq(Events) /\ chan[r].events \in Seq(Events)
      BY ToldTypes
    <3>2. got[r] \o Append(chan[r].events, event) = Append(got[r] \o chan[r].events, event)
      BY <3>1, AppendAtEnd
    <3>3. QED
      BY <2>2, <3>2 DEF Told
  <2>7. \A e \in Events : Count(r, e)' = Count(r, e) + (IF event = e THEN 1 ELSE 0)
    BY <2>6, CountAppend, ToldTypes DEF Count
  <2>8. chan' \in [Runs -> [events : Seq(Events), closed : BOOLEAN]]
    BY <1>1, <2>1, <2>3
  <2>9. QED
    BY <1>1, <2>1, <2>2, <2>5, <2>7, <2>8
<1>4. QED
  BY <1>2, <1>3

(* Every runner puts the event: claude at once or not at all, the others in *)
(* their next step.                                                         *)
LEMMA EmitEffect ==
  ASSUME TypeOK, NEW r \in Runs, NEW event \in Events, NEW then \in Thens,
         NEW new \in Run, Emit(r, event, then, new), got' = got
  PROVE  /\ run' \in [Runs -> Run] /\ \A q \in Runs \ {r} : run'[q] = run[q]
         /\ run'[r].texts = new.texts /\ run'[r].tools = new.tools /\ run'[r].open = new.open
         /\ run'[r].error = new.error
         /\ chan' \in [Runs -> [events : Seq(Events), closed : BOOLEAN]]
         /\ \A q \in Runs \ {r} : chan'[q] = chan[q]
         /\ chan'[r].closed = chan[r].closed /\ Len(chan'[r].events) <= Capacity
         /\ kind[r] # "claude" =>
              /\ run'[r].pc = "send" /\ run'[r].event = event /\ run'[r].then = then
              /\ \A e : Count(r, e)' = Count(r, e)
         /\ kind[r] = "claude" =>
              /\ run'[r].pc = then /\ run'[r].event = new.event
              /\ ~ chan[r].closed => \A e \in Events :
                   \/ Count(r, e)' = Count(r, e)
                   \/ e = event /\ Count(r, e)' = Count(r, e) + 1
<1>1. /\ chan \in [Runs -> [events : Seq(Events), closed : BOOLEAN]]
      /\ Len(chan[r].events) <= Capacity
  BY DEF TypeOK
<1>0. then \in Points
  BY DEF Points, Thens
<1>2. CASE kind[r] # "claude"
  <2>1. Send(r, event, then, new) /\ chan' = chan
    BY <1>2 DEF Emit
  <2>2. \A e : Count(r, e)' = Count(r, e)
    BY <2>1 DEF Count, Told
  <2>3. /\ run' \in [Runs -> Run] /\ \A q \in Runs \ {r} : run'[q] = run[q]
        /\ run'[r].texts = new.texts /\ run'[r].tools = new.tools /\ run'[r].open = new.open
        /\ run'[r].error = new.error
        /\ run'[r].pc = "send" /\ run'[r].event = event /\ run'[r].then = then
    BY <2>1, SendEffect
  <2>4. QED
    BY <1>1, <1>2, <2>1, <2>2, <2>3
<1>3. CASE kind[r] = "claude"
  <2>1. TryEmit(r, event) /\ Goto(r, then, new)
    BY <1>3 DEF Emit
  <2>2. /\ run' \in [Runs -> Run] /\ \A q \in Runs \ {r} : run'[q] = run[q]
        /\ run'[r].texts = new.texts /\ run'[r].tools = new.tools /\ run'[r].open = new.open
        /\ run'[r].error = new.error /\ run'[r].pc = then /\ run'[r].event = new.event
    BY <1>0, <2>1, GotoEffect
  <2>3. CASE Full(r)
    <3>1. chan' = chan
      BY <2>1, <2>3 DEF TryEmit
    <3>2. \A e : Count(r, e)' = Count(r, e)
      BY <3>1 DEF Count, Told
    <3>3. QED
      BY <1>1, <1>3, <2>2, <3>1, <3>2
  <2>4. CASE ~ Full(r)
    <3>1. Put(r, event)
      BY <2>1, <2>4 DEF TryEmit
    <3>2. ~ chan[r].closed => \A e \in Events :
            Count(r, e)' = Count(r, e) \/ (e = event /\ Count(r, e)' = Count(r, e) + 1)
      BY <2>4, <3>1, PutEffect, ToldTypes
    <3>3. /\ chan' \in [Runs -> [events : Seq(Events), closed : BOOLEAN]]
          /\ \A q \in Runs \ {r} : chan'[q] = chan[q]
          /\ chan'[r].closed = chan[r].closed /\ Len(chan'[r].events) <= Capacity
      BY <2>4, <3>1, PutEffect
    <3>4. QED
      BY <1>3, <2>2, <3>2, <3>3
  <2>5. QED
    BY <2>3, <2>4
<1>4. QED
  BY <1>2, <1>3

-----------------------------------------------------------------------------
(* One run at a time. *)

(* Nothing of another run changes but what TypeOK alone speaks of. *)
Only(r) ==
  /\ kind' = kind
  /\ \A q \in Runs \ {r} :
       /\ run'[q] = run[q] /\ stream'[q] = stream[q] /\ child'[q] = child[q]
       /\ chan'[q] = chan[q] /\ got'[q] = got[q]

LEMMA OthersLast ==
  ASSUME IInv, NEW r \in Runs, Only(r), NEW q \in Runs \ {r}
  PROVE  Local(q)'
<1>1. /\ run'[q] = run[q] /\ stream'[q] = stream[q] /\ child'[q] = child[q]
      /\ chan'[q] = chan[q] /\ got'[q] = got[q] /\ kind' = kind
  BY DEF Only
<1>2. Shape(q) /\ Child(q) /\ Counts(q)
  BY DEF IInv, Local
<1>3. Shape(q)'
  BY <1>1, <1>2 DEF Shape, At, Sends
<1>4. Child(q)'
  BY <1>1, <1>2 DEF Child, At, Sends
<1>5. Counts(q)'
  <2>1. \A e : Count(q, e)' = Count(q, e)
    BY <1>1 DEF Count, Told
  <2>2. \A e : Pending(q, e)' = Pending(q, e)
    BY <1>1 DEF Pending, At
  <2>3. QED
    BY <1>1, <1>2, <2>1, <2>2 DEF Counts, At
<1>6. QED
  BY <1>3, <1>4, <1>5 DEF Local

LEMMA Fields ==
  ASSUME TypeOK, NEW r \in Runs
  PROVE  /\ run[r] \in Run /\ kind[r] \in Kinds \cup {None}
         /\ run[r].pc \in Points /\ run[r].texts \in Nat /\ run[r].tools \in Nat
         /\ run[r].open \in BOOLEAN /\ run[r].connected \in BOOLEAN
         /\ run[r].event \in Events \cup {None} /\ run[r].error \in Errors \cup {None}
         /\ run[r].then \in Thens
<1>1. run[r] \in Run
  BY DEF TypeOK
<1>2. kind[r] \in Kinds \cup {None}
  BY RunnerAssumptions DEF TypeOK
<1>3. QED
  BY <1>1, <1>2 DEF Run

LEMMA TypesFrom ==
  ASSUME TypeOK, NEW r \in Runs, Only(r), Local(r)', run' \in [Runs -> Run],
         cancelled' \in [Runs -> BOOLEAN],
         stream' \in [Runs -> [items : Nat, final : BOOLEAN, closed : BOOLEAN]],
         child' \in [Runs -> {"none", "started", "running", "killed", "exited"}],
         chan' \in [Runs -> [events : Seq(Events), closed : BOOLEAN]],
         Len(chan'[r].events) <= Capacity, got' \in [Runs -> Seq(Events)],
         mcpFile' \in Runs \cup {None},
         config' \in [Runs -> Runs \cup {None, "unread", "late"}],
         shared' \subseteq Runs, drops' \in 0 .. MaxDrops
  PROVE  TypeOK'
<1>1. kind' \in Plans /\ kind' = kind /\ kind[r] \in Kinds \cup {None}
  BY Fields DEF TypeOK, Only
<1>2. /\ At(r, "send")' => run'[r].event # None
      /\ At(r, "returned")' => run'[r].event = None
  BY DEF Local, Shape, At
<1>3. At(r, "loop")' /\ Cli(r)' => child'[r] \in {"started", "running", "exited"}
  <2>1. SUFFICES ASSUME At(r, "loop")', Cli(r)' PROVE child'[r] \in {"started", "running", "exited"}
    OBVIOUS
  <2>2. kind'[r] \in {"claude", "codex"}
    BY <1>1, <2>1, Distinct DEF Local, Shape, At, Cli, Kinds, Rest
  <2>3. QED
    BY <2>1, <2>2 DEF Local, Child
<1>4. ASSUME NEW q \in Runs \ {r}
      PROVE  /\ Len(chan'[q].events) <= Capacity
             /\ At(q, "send")' => run'[q].event # None
             /\ At(q, "returned")' => run'[q].event = None
             /\ At(q, "loop")' /\ Cli(q)' => child'[q] \in {"started", "running", "exited"}
  <2>1. /\ Len(chan[q].events) <= Capacity
        /\ At(q, "send") => run[q].event # None
        /\ At(q, "returned") => run[q].event = None
        /\ At(q, "loop") /\ Cli(q) => child[q] \in {"started", "running", "exited"}
    BY DEF TypeOK
  <2>2. run'[q] = run[q] /\ child'[q] = child[q] /\ chan'[q] = chan[q] /\ kind' = kind
    BY DEF Only
  <2>3. QED
    BY <2>1, <2>2 DEF At, Cli
<1>5. QED
  BY <1>1, <1>2, <1>3, <1>4 DEF TypeOK

-----------------------------------------------------------------------------
(* The file. *)

LEMMA FileKeeps ==
  ASSUME IInv, NEW r \in Runs, Only(r), shared' = shared,
         Wrote(r)' => Wrote(r), At(r, "dropped") => At(r, "dropped")',
         \/ mcpFile' = mcpFile /\ (Wrote(r) => Wrote(r)' \/ At(r, "dropped")')
         \/ mcpFile' = None /\ Wrote(r) /\ ~ Wrote(r)',
         kind[r] = "claude" /\ child'[r] = "started" /\ Active(r)' => Wrote(r)',
         \A q \in Runs : \/ config'[q] = config[q]
                         \/ config'[q] \in {"unread", "late", q} \/ q \in shared
  PROVE  File'
<1>1. \A q \in Runs \ {r} : /\ Wrote(q)' = Wrote(q) /\ At(q, "dropped")' = At(q, "dropped")
                            /\ Active(q)' = Active(q) /\ child'[q] = child[q]
  BY DEF Only, Wrote, Sends, At, Active
<1>2. File /\ mcpFile \in Runs \cup {None} /\ kind' = kind
  BY DEF IInv, TypeOK, Only
<1>3. (\A q, p \in Runs : q # p /\ Wrote(q) /\ Wrote(p) => q \in shared)'
  BY <1>1, <1>2 DEF File
<1>4. (\A q \in Runs : Wrote(q) /\ q \notin shared => mcpFile = q)'
  <2>1. SUFFICES ASSUME NEW q \in Runs, Wrote(q)', q \notin shared PROVE mcpFile' = q
    OBVIOUS
  <2>2. Wrote(q)
    BY <1>1, <2>1
  <2>3. mcpFile = q
    BY <1>2, <2>1, <2>2 DEF File
  <2>4. CASE mcpFile' = None /\ Wrote(r) /\ ~ Wrote(r)'
    BY <1>2, <2>1, <2>2, <2>4 DEF File
  <2>5. QED
    BY <2>3, <2>4
<1>5. (mcpFile # None => Wrote(mcpFile) \/ At(mcpFile, "dropped"))'
  <2>1. SUFFICES ASSUME mcpFile' # None PROVE Wrote(mcpFile)' \/ At(mcpFile, "dropped")'
    OBVIOUS
  <2>2. mcpFile' = mcpFile /\ (Wrote(r) => Wrote(r)' \/ At(r, "dropped")')
    BY <2>1
  <2>3. Wrote(mcpFile) \/ At(mcpFile, "dropped")
    BY <1>2, <2>1, <2>2 DEF File
  <2>4. CASE mcpFile = r
    BY <2>2, <2>3, <2>4 DEF Wrote, At, Sends
  <2>5. CASE mcpFile # r
    BY <1>1, <1>2, <2>1, <2>2, <2>3, <2>5 DEF Wrote, At, Sends
  <2>6. QED
    BY <2>4, <2>5
<1>6. (\A q \in Runs : kind[q] = "claude" /\ child[q] = "started" /\ Active(q) => Wrote(q))'
  BY <1>1, <1>2 DEF File
<1>7. (\A q \in Runs : config[q] \in {"unread", "late", q} \/ q \in shared)'
  BY <1>2 DEF File
<1>8. QED
  BY <1>3, <1>4, <1>5, <1>6, <1>7 DEF File

LEMMA FileOther ==
  ASSUME IInv, NEW r \in Runs, Only(r), kind[r] # "claude", UNCHANGED <<mcpFile, config, shared>>,
         At(r, "dropped") => At(r, "dropped")'
  PROVE  File'
<1>1. ~ Wrote(r) /\ ~ Wrote(r)'
  BY DEF Wrote, Only
<1>2. QED
  BY <1>1, FileKeeps

LEMMA WriteFile ==
  ASSUME IInv, NEW r \in Runs, Only(r), WriteConfig(r), At(r, "spawn")'
  PROVE  File'
<1>1. /\ mcpFile' = r /\ config' = config /\ child' = child /\ kind' = kind /\ kind[r] = "claude"
      /\ shared' = IF Others(r) = {} THEN shared ELSE shared \cup Others(r) \cup {r}
  BY DEF WriteConfig
<1>2. \A q \in Runs \ {r} : Wrote(q)' = Wrote(q) /\ Active(q)' = Active(q)
  BY DEF Only, Wrote, Sends, At, Active
<1>3. Wrote(r)'
  BY <1>1 DEF Wrote, At
<1>4. \A q \in Runs \ {r} : Wrote(q) => q \in Others(r)
  BY DEF Wrote, Others, Active, At, Sends
<1>5. \A q \in Runs \ {r} : Wrote(q) => q \in shared' /\ r \in shared'
  BY <1>1, <1>4
<1>6. File /\ shared \subseteq shared'
  BY <1>1 DEF IInv
<1>7. (\A q, p \in Runs : q # p /\ Wrote(q) /\ Wrote(p) => q \in shared)'
  BY <1>2, <1>5
<1>8. (\A q \in Runs : Wrote(q) /\ q \notin shared => mcpFile = q)'
  BY <1>1, <1>2, <1>5
<1>9. (\A q \in Runs : kind[q] = "claude" /\ child[q] = "started" /\ Active(q) => Wrote(q))'
  BY <1>1, <1>2, <1>3, <1>6 DEF File
<1>10. (\A q \in Runs : config[q] \in {"unread", "late", q} \/ q \in shared)'
  BY <1>1, <1>6 DEF File
<1>11. QED
  BY <1>1, <1>3, <1>7, <1>8, <1>9, <1>10 DEF File

-----------------------------------------------------------------------------
(* The steps before the loop. *)

Stays(r) == TypeOK' /\ File' /\ Only(r) /\ Local(r)'

LEMMA Literals ==
  /\ "new" \in Points /\ "spawn" \in Points /\ "request" \in Points /\ "loop" \in Points
  /\ "send" \in Points /\ "wait" \in Points /\ "reap" \in Points
  /\ "clean_up" \in Points /\ "returned" \in Points /\ "dropped" \in Points
  /\ "loop" \in Thens /\ "clean_up" \in Thens /\ "returned" \in Thens
  /\ "Connected" \in Events /\ "Text" \in Events /\ "ToolUse" \in Events
  /\ "Done" \in Events /\ "Error" \in Events
  /\ "failed" \in Errors /\ "cancelled" \in Errors /\ "wrong_input" \in Errors
BY DEF Points, Thens, Events, Errors

(* The fields that may be set. *)
LEMMA Updates ==
  ASSUME TypeOK, NEW r \in Runs
  PROVE  /\ [run[r] EXCEPT !.error = "failed"] \in Run
         /\ [run[r] EXCEPT !.error = "cancelled"] \in Run
         /\ [run[r] EXCEPT !.error = "wrong_input"] \in Run
         /\ [run[r] EXCEPT !.event = None] \in Run
         /\ [run[r] EXCEPT !.connected = TRUE] \in Run
         /\ [run[r] EXCEPT !.open = TRUE] \in Run
BY Fields, Literals DEF Run

LEMMA QuietCounts ==
  ASSUME NEW r \in Runs, chan' = chan, got' = got
  PROVE  \A e : Count(r, e)' = Count(r, e)
BY DEF Count, Told

LEMMA FailEffect ==
  ASSUME TypeOK, NEW r \in Runs, FailWith(r)
  PROVE  /\ run' \in [Runs -> Run] /\ \A q \in Runs \ {r} : run'[q] = run[q]
         /\ run'[r].pc = "send" /\ run'[r].event = "Error" /\ run'[r].then = "returned"
         /\ run'[r].texts = run[r].texts /\ run'[r].tools = run[r].tools
         /\ run'[r].open = run[r].open /\ run'[r].error = "failed"
<1> DEFINE new == [run[r] EXCEPT !.error = "failed"]
<1>1. Send(r, "Error", "returned", new)
  BY DEF FailWith
<1>2. run[r] \in Run /\ new \in Run
  BY Fields, Updates
<1>3. /\ new.texts = run[r].texts /\ new.tools = run[r].tools /\ new.open = run[r].open
      /\ new.error = "failed"
  BY <1>2 DEF Run
<1> HIDE DEF new
<1>4. QED
  BY <1>1, <1>2, <1>3, SendEffect, Literals

LEMMA ReturnEffect ==
  ASSUME TypeOK, NEW r \in Runs, NEW error \in Errors, Return(r, error)
  PROVE  /\ run' \in [Runs -> Run] /\ \A q \in Runs \ {r} : run'[q] = run[q]
         /\ run'[r].pc = "returned" /\ run'[r].event = run[r].event
         /\ run'[r].texts = run[r].texts /\ run'[r].tools = run[r].tools
         /\ run'[r].open = run[r].open /\ run'[r].error = error
<1> DEFINE new == [run[r] EXCEPT !.error = error]
<1>1. Goto(r, "returned", new)
  BY DEF Return
<1>2. run[r] \in Run /\ new \in Run
  BY Fields DEF Run
<1>3. /\ new.texts = run[r].texts /\ new.tools = run[r].tools /\ new.open = run[r].open
      /\ new.event = run[r].event /\ new.error = error
  BY <1>2 DEF Run
<1> HIDE DEF new
<1>4. QED
  BY <1>1, <1>2, <1>3, GotoEffect, Literals

LEMMA MoveEffect ==
  ASSUME TypeOK, NEW r \in Runs, NEW pc \in Points, Goto(r, pc, run[r])
  PROVE  /\ run' \in [Runs -> Run] /\ \A q \in Runs \ {r} : run'[q] = run[q]
         /\ run'[r].pc = pc /\ run'[r].event = run[r].event /\ run'[r].then = run[r].then
         /\ run'[r].texts = run[r].texts /\ run'[r].tools = run[r].tools
         /\ run'[r].open = run[r].open /\ run'[r].error = run[r].error
BY Fields, GotoEffect

LEMMA BeginStep ==
  ASSUME IInv, NEW r \in Runs, WrongInput(r) \/ NotReady(r) \/ WriteConfig(r) \/ Request(r)
  PROVE  Stays(r)
<1>1. TypeOK /\ Shape(r) /\ Child(r) /\ Counts(r)
  BY DEF IInv, Local
<1>2. /\ UNCHANGED <<kind, cancelled, stream, child, chan, got, config, drops>>
      /\ mcpFile' \in Runs \cup {None} /\ shared' \subseteq Runs /\ kind[r] # None
      /\ At(r, "new") \/ (At(r, "request") /\ kind[r] \in Rest)
  BY <1>1, Distinct DEF WrongInput, NotReady, WriteConfig, Request, TypeOK, Others, Kinds, Rest
<1>3. /\ run' \in [Runs -> Run] /\ \A q \in Runs \ {r} : run'[q] = run[q]
      /\ run'[r].texts = run[r].texts /\ run'[r].tools = run[r].tools
      /\ run'[r].open = run[r].open
      /\ \/ /\ run'[r].pc = "returned" /\ run'[r].event = run[r].event
            /\ run'[r].error = "wrong_input"
         \/ /\ run'[r].pc = "send" /\ run'[r].event = "Error" /\ run'[r].then = "returned"
            /\ run'[r].error = "failed"
         \/ /\ run'[r].event = run[r].event /\ run'[r].error = run[r].error
            /\ \/ run'[r].pc = "spawn" /\ kind[r] = "claude" /\ At(r, "new")
               \/ run'[r].pc \in {"request", "loop"} /\ kind[r] \in Rest
  <2>1. CASE WrongInput(r)
    BY <1>1, <2>1, ReturnEffect, Literals DEF WrongInput
  <2>2. CASE NotReady(r)
    BY <1>1, <2>2, FailEffect DEF NotReady
  <2>3. CASE WriteConfig(r)
    BY <1>1, <2>3, MoveEffect, Literals DEF WriteConfig
  <2>4. CASE Request(r)
    BY <1>1, <2>4, MoveEffect, FailEffect, Literals DEF Request
  <2>5. QED
    BY <2>1, <2>2, <2>3, <2>4
<1>4. run[r].error = None /\ run[r].event = None
  BY <1>1, <1>2 DEF Shape, At
<1>5. Shape(r)'
  BY <1>1, <1>2, <1>3, <1>4, Distinct DEF Shape, At, Sends, Events, Errors, Rest
<1>6. Child(r)'
  BY <1>1, <1>2, <1>3 DEF Child, At, Sends, Rest
<1>7. Counts(r)'
  <2>1. \A e : Count(r, e)' = Count(r, e) /\ Count(r, e) \in Nat
    BY <1>1, <1>2, QuietCounts, ToldTypes
  <2>2. \A e \in {"Text", "ToolUse"} : Pending(r, e) = 0 /\ Pending(r, e)' = 0
    BY <1>2, <1>3 DEF Pending, At
  <2>3. /\ Pending(r, "Error") = 0
        /\ Pending(r, "Error")' = IF run'[r].error = "failed" THEN 1 ELSE 0
    BY <1>2, <1>3, <1>4, Distinct DEF Pending, At, Errors
  <2>4. QED
    BY <1>1, <1>2, <1>3, <1>4, <2>1, <2>2, <2>3, Distinct DEF Counts, At, Errors, Rest
<1>8. Only(r)
  BY <1>2, <1>3 DEF Only
<1>9. TypeOK'
  BY <1>1, <1>2, <1>3, <1>5, <1>6, <1>7, <1>8, TypesFrom DEF Local, TypeOK
<1>10. File'
  <2>1. CASE WriteConfig(r)
    <3>1. At(r, "spawn")'
      BY <1>1, <2>1, MoveEffect, Literals DEF WriteConfig, At
    <3>2. QED
      BY <1>8, <2>1, <3>1, WriteFile
  <2>2. CASE ~ WriteConfig(r)
    <3>1. UNCHANGED <<mcpFile, config, shared, child>>
      BY <2>2 DEF WrongInput, NotReady, Request
    <3>2. ~ Wrote(r) /\ ~ At(r, "dropped")
      BY <1>2 DEF Wrote, At, Sends
    <3>3. run'[r].pc \in {"returned", "send", "request", "loop"}
      BY <1>3, <2>2, MoveEffect, ReturnEffect, FailEffect, Literals, <1>1
         DEF WrongInput, NotReady, Request
    <3>4. ~ Wrote(r)' /\ (kind[r] = "claude" => child[r] = "none")
      BY <1>1, <1>2, <1>3, <3>3 DEF Wrote, At, Sends, Rest, Child
    <3>5. QED
      BY <1>8, <3>1, <3>2, <3>4, FileKeeps
  <2>3. QED
    BY <2>1, <2>2
<1>11. QED
  BY <1>5, <1>6, <1>7, <1>8, <1>9, <1>10 DEF Stays, Local

LEMMA SpawnStep ==
  ASSUME IInv, NEW r \in Runs, Spawn(r)
  PROVE  Stays(r)
<1>1. TypeOK /\ Shape(r) /\ Child(r) /\ Counts(r)
  BY DEF IInv, Local
<1>2. /\ UNCHANGED <<kind, cancelled, stream, chan, got, mcpFile, config, shared, drops>>
      /\ child' = [child EXCEPT ![r] = "started"]
      /\ \/ kind[r] = "claude" /\ At(r, "spawn")
         \/ kind[r] = "codex" /\ At(r, "new")
  BY DEF Spawn
<1>3. /\ run' \in [Runs -> Run] /\ \A q \in Runs \ {r} : run'[q] = run[q]
      /\ run'[r].texts = run[r].texts /\ run'[r].tools = run[r].tools
      /\ run'[r].open = run[r].open /\ run'[r].error = run[r].error
      /\ \/ kind[r] = "claude" /\ run'[r].pc = "loop" /\ run'[r].event = run[r].event
         \/ /\ kind[r] = "codex" /\ run'[r].pc = "send"
            /\ run'[r].event = "Connected" /\ run'[r].then = "loop"
  <2>1. CASE kind[r] = "claude"
    <3>1. Goto(r, "loop", run[r])
      BY <2>1 DEF Spawn
    <3>2. QED
      BY <1>1, <2>1, <3>1, MoveEffect, Literals
  <2>2. CASE kind[r] = "codex"
    <3> DEFINE new == [run[r] EXCEPT !.connected = TRUE]
    <3>1. Send(r, "Connected", "loop", new)
      BY <2>2 DEF Spawn
    <3>2. run[r] \in Run /\ new \in Run
      BY <1>1, Fields, Updates
    <3>3. /\ new.texts = run[r].texts /\ new.tools = run[r].tools /\ new.open = run[r].open
          /\ new.error = run[r].error
      BY <3>2 DEF Run
    <3> HIDE DEF new
    <3>4. QED
      BY <1>1, <2>2, <3>1, <3>2, <3>3, SendEffect, Literals
  <2>3. QED
    BY <1>2, <2>1, <2>2
<1>4. child' \in [Runs -> {"none", "started", "running", "killed", "exited"}]
      /\ child'[r] = "started" /\ \A q \in Runs \ {r} : child'[q] = child[q]
  BY <1>1, <1>2 DEF TypeOK
<1>5. run[r].error = None /\ run[r].event = None
  BY <1>1, <1>2 DEF Shape, At
<1>6. Shape(r)'
  <2>1. kind[r] # None
    BY <1>2, Distinct DEF Kinds
  <2>2. QED
    BY <1>1, <1>2, <1>3, <1>5, <2>1, Distinct DEF Shape, At, Sends, Events, Errors, Rest
<1>7. Child(r)'
  BY <1>1, <1>2, <1>3, <1>4 DEF Child, At, Sends
<1>8. Counts(r)'
  <2>1. \A e : Count(r, e)' = Count(r, e) /\ Count(r, e) \in Nat
    BY <1>1, <1>2, QuietCounts, ToldTypes
  <2>2. \A e \in {"Text", "ToolUse", "Error"} : Pending(r, e) = 0 /\ Pending(r, e)' = 0
    BY <1>2, <1>3 DEF Pending, At
  <2>3. QED
    BY <1>1, <1>2, <1>3, <1>5, <2>1, <2>2 DEF Counts, At
<1>9. Only(r)
  BY <1>2, <1>3, <1>4 DEF Only
<1>10. TypeOK'
  BY <1>1, <1>2, <1>3, <1>4, <1>6, <1>7, <1>8, <1>9, TypesFrom DEF Local, TypeOK
<1>11. File'
  <2>1. CASE kind[r] = "claude"
    <3>1. Wrote(r) /\ Wrote(r)' /\ ~ At(r, "dropped")
      BY <1>2, <1>3, <2>1 DEF Wrote, At
    <3>2. QED
      BY <1>2, <1>9, <3>1, FileKeeps
  <2>2. CASE kind[r] # "claude"
    BY <1>2, <1>9, <2>2, FileOther DEF At
  <2>3. QED
    BY <2>1, <2>2
<1>12. QED
  BY <1>6, <1>7, <1>8, <1>9, <1>10, <1>11 DEF Stays, Local

LEMMA SendStep ==
  ASSUME IInv, NEW r \in Runs, SendEvent(r)
  PROVE  Stays(r)
<1>1. TypeOK /\ Shape(r) /\ Child(r) /\ Counts(r)
  BY DEF IInv, Local
<1>2. /\ UNCHANGED <<kind, cancelled, stream, child, got, mcpFile, config, shared, drops>>
      /\ At(r, "send") /\ (chan[r].closed \/ ~ Full(r)) /\ Put(r, run[r].event)
  BY DEF SendEvent
<1>3. run[r].event \in Events /\ run[r].then \in Thens /\ run[r].then \in Points
  BY <1>1, <1>2, Fields, Literals DEF Shape, Thens
<1>4. /\ run' \in [Runs -> Run] /\ \A q \in Runs \ {r} : run'[q] = run[q]
      /\ run'[r].pc = run[r].then /\ run'[r].event = None
      /\ run'[r].texts = run[r].texts /\ run'[r].tools = run[r].tools
      /\ run'[r].open = run[r].open /\ run'[r].error = run[r].error
  <2> DEFINE new == [run[r] EXCEPT !.event = None]
  <2>1. Goto(r, run[r].then, new)
    BY DEF SendEvent
  <2>2. run[r] \in Run /\ new \in Run
    BY <1>1, Fields, Updates
  <2>3. /\ new.texts = run[r].texts /\ new.tools = run[r].tools /\ new.open = run[r].open
        /\ new.error = run[r].error /\ new.event = None
    BY <2>2 DEF Run
  <2> HIDE DEF new
  <2>4. QED
    BY <1>1, <1>3, <2>1, <2>2, <2>3, GotoEffect
<1>5. /\ chan' \in [Runs -> [events : Seq(Events), closed : BOOLEAN]]
      /\ \A q \in Runs \ {r} : chan'[q] = chan[q]
      /\ chan'[r].closed = chan[r].closed /\ Len(chan'[r].events) <= Capacity
      /\ ~ chan[r].closed => \A e \in Events :
           Count(r, e)' = Count(r, e) + (IF run[r].event = e THEN 1 ELSE 0)
  BY <1>1, <1>2, <1>3, PutEffect
<1>6. Shape(r)'
  BY <1>1, <1>2, <1>3, <1>4, Distinct DEF Shape, At, Sends, Errors, Events, Rest, Thens
<1>7. Child(r)'
  BY <1>1, <1>2, <1>3, <1>4 DEF Child, Shape, At, Sends, Thens
<1>8. Counts(r)'
  <2>1. SUFFICES ASSUME ~ chan[r].closed, ~ At(r, "dropped")' PROVE Counts(r)'
    BY <1>5 DEF Counts
  <2>2. \A e \in Events : /\ Count(r, e)' + Pending(r, e)' = Count(r, e) + Pending(r, e)
                         /\ Pending(r, e)' = 0 /\ Pending(r, e) \in Nat
    <3>1. \A e \in Events : Pending(r, e)' = 0
      BY <1>3, <1>4, Distinct DEF Pending, At, Thens
    <3>2. \A e \in Events : Pending(r, e) = IF run[r].event = e THEN 1 ELSE 0
      BY <1>2 DEF Pending
    <3>3. ASSUME NEW e \in Events
          PROVE  /\ Count(r, e)' + Pending(r, e)' = Count(r, e) + Pending(r, e)
                 /\ Pending(r, e)' = 0 /\ Pending(r, e) \in Nat
      <4>1. Pending(r, e)' = 0 /\ Pending(r, e) = IF run[r].event = e THEN 1 ELSE 0
        BY <3>1, <3>2
      <4>2. Count(r, e) \in Nat
        BY <1>1, ToldTypes
      <4>3. Count(r, e)' = Count(r, e) + (IF run[r].event = e THEN 1 ELSE 0)
        BY <1>5, <2>1
      <4>4. QED
        BY <4>1, <4>2, <4>3
    <3>4. QED
      BY <3>3
  <2>3. \A e \in Events : Count(r, e) \in Nat /\ Count(r, e)' \in Nat
    BY <1>1, <1>5, <2>1, ToldTypes
  <2>4. kind[r] # "claude" =>
         /\ Count(r, "Text")' + Pending(r, "Text")' = run'[r].texts
         /\ Count(r, "ToolUse")' + Pending(r, "ToolUse")' = run'[r].tools
    BY <1>1, <1>2, <1>4, <2>1, <2>2, Literals DEF Counts, At
  <2>5. kind[r] = "claude" =>
         /\ Count(r, "Text")' <= run'[r].texts
         /\ Count(r, "ToolUse")' <= run'[r].tools + (IF run'[r].open THEN 1 ELSE 0)
    <3>1. CASE kind[r] = "claude"
      <4>1. run[r].event = "Error"
        BY <1>1, <1>2, <3>1 DEF Shape
      <4>2. Count(r, "Text")' = Count(r, "Text") /\ Count(r, "ToolUse")' = Count(r, "ToolUse")
        BY <1>5, <2>1, <2>3, <4>1, Literals
      <4>3. QED
        BY <1>1, <1>2, <1>4, <2>1, <3>1, <4>2 DEF Counts, At
    <3>2. QED
      BY <3>1
  <2>6. Count(r, "Error")' + Pending(r, "Error")' = IF run'[r].error = "failed" THEN 1 ELSE 0
    BY <1>1, <1>2, <1>4, <2>1, <2>2, Literals DEF Counts, At
  <2>7. kind[r] \in {"codex", "anthropic"} => 
          /\ Count(r, "Done")' = 0 \/ (At(r, "returned")' /\ run'[r].error = None)
          /\ kind[r] = "codex" /\ At(r, "returned")' /\ run'[r].error = None =>
               Count(r, "Done")' = 1
    BY <1>1, <1>2, <1>4, <1>5, <2>1, <2>3, Literals, Distinct DEF Counts, Shape, At, Errors
  <2>8. QED
    BY <1>2, <2>4, <2>5, <2>6, <2>7 DEF Counts
<1>9. Only(r)
  BY <1>2, <1>4, <1>5 DEF Only
<1>10. TypeOK'
  BY <1>1, <1>2, <1>4, <1>5, <1>6, <1>7, <1>8, <1>9, TypesFrom DEF Local, TypeOK
<1>11. File'
  <2>1. CASE kind[r] = "claude"
    <3>1. /\ run[r].then \in {"clean_up", "returned"}
          /\ run[r].then = "returned" => child[r] = "none"
      BY <1>1, <1>2, <1>3, <2>1 DEF Shape, Child, Sends, Thens
    <3>2. Wrote(r)' = Wrote(r) /\ (run[r].then = "clean_up" => Wrote(r)') /\ ~ At(r, "dropped")
      BY <1>2, <1>4, <2>1, <3>1 DEF Wrote, At, Sends
    <3>3. QED
      BY <1>2, <1>9, <3>1, <3>2, FileKeeps
  <2>2. CASE kind[r] # "claude"
    BY <1>2, <1>9, <2>2, FileOther DEF At
  <2>3. QED
    BY <2>1, <2>2
<1>12. QED
  BY <1>6, <1>7, <1>8, <1>9, <1>10, <1>11 DEF Stays, Local

(* A step of the loop that puts an event, or nothing but counts a tool that *)
(* was open.                                                                *)
LEMMA EmitStep ==
  ASSUME IInv, NEW r \in Runs, NEW event \in Events, NEW then \in Thens, NEW new \in Run,
         At(r, "loop"), kind[r] # None, Emit(r, event, then, new),
         UNCHANGED <<kind, cancelled, child, got, mcpFile, config, shared, drops>>,
         stream' \in [Runs -> [items : Nat, final : BOOLEAN, closed : BOOLEAN]],
         \A q \in Runs \ {r} : stream'[q] = stream[q],
         stream'[r].closed = stream[r].closed,
         event # "Error", then = "loop" \/ (then = "returned" /\ kind[r] = "anthropic"),
         event = "Done" /\ kind[r] = "anthropic" => then = "returned",
         event = "Done" => kind[r] # "codex",
         new.event = None, new.error = None,
         new.texts = run[r].texts + (IF event = "Text" THEN 1 ELSE 0),
         kind[r] # "claude" => new.tools = run[r].tools + (IF event = "ToolUse" THEN 1 ELSE 0),
         kind[r] = "claude" =>
           new.tools + (IF new.open THEN 1 ELSE 0) =
             run[r].tools + (IF run[r].open THEN 1 ELSE 0) + (IF event = "ToolUse" THEN 1 ELSE 0)
  PROVE  Stays(r)
<1>1. TypeOK /\ Shape(r) /\ Child(r) /\ Counts(r)
  BY DEF IInv, Local
<1>2. /\ run' \in [Runs -> Run] /\ \A q \in Runs \ {r} : run'[q] = run[q]
      /\ run'[r].texts = new.texts /\ run'[r].tools = new.tools /\ run'[r].open = new.open
      /\ run'[r].error = None
      /\ chan' \in [Runs -> [events : Seq(Events), closed : BOOLEAN]]
      /\ \A q \in Runs \ {r} : chan'[q] = chan[q]
      /\ chan'[r].closed = chan[r].closed /\ Len(chan'[r].events) <= Capacity
      /\ kind[r] # "claude" =>
           /\ run'[r].pc = "send" /\ run'[r].event = event /\ run'[r].then = then
           /\ \A e : Count(r, e)' = Count(r, e)
      /\ kind[r] = "claude" =>
           /\ run'[r].pc = "loop" /\ run'[r].event = None
           /\ ~ chan[r].closed => \A e \in Events :
                \/ Count(r, e)' = Count(r, e)
                \/ e = event /\ Count(r, e)' = Count(r, e) + 1
  BY <1>1, EmitEffect
<1>3. run[r].error = None /\ run[r].event = None /\ \A e : Pending(r, e) = 0
  BY <1>1 DEF Shape, At, Pending
<1>4. Shape(r)'
  BY <1>1, <1>2, <1>3, Distinct DEF Shape, At, Sends, Events, Errors, Rest
<1>5. Child(r)'
  BY <1>1, <1>2 DEF Child, At, Sends
<1>6. Counts(r)'
  <2>1. SUFFICES ASSUME ~ chan[r].closed PROVE Counts(r)'
    BY <1>2 DEF Counts
  <2>2. \A e \in Events : Count(r, e) \in Nat
    BY <1>1, ToldTypes
  <2>3. new.texts \in Nat /\ new.tools \in Nat /\ run[r].texts \in Nat /\ run[r].tools \in Nat
        /\ new.open \in BOOLEAN /\ run[r].open \in BOOLEAN
    BY <1>1, Fields DEF Run
  <2>4. CASE kind[r] # "claude"
    <3>1. \A e \in Events : Pending(r, e)' = IF event = e THEN 1 ELSE 0
      BY <1>2, <2>4 DEF Pending, At
    <3>2. /\ Count(r, "Text") = run[r].texts /\ Count(r, "ToolUse") = run[r].tools
          /\ Count(r, "Error") = 0
          /\ kind[r] \in {"codex", "anthropic"} => Count(r, "Done") = 0
      BY <1>1, <1>3, <2>1, <2>2, <2>4, Literals, Distinct DEF Counts, At, Errors
    <3>3. QED
      BY <1>2, <2>2, <2>3, <2>4, <3>1, <3>2, Literals, Distinct DEF Counts, At, Errors
  <2>5. CASE kind[r] = "claude"
    <3>1. \A e : Pending(r, e)' = 0
      BY <1>2, <2>5 DEF Pending, At
    <3>2. /\ Count(r, "Text") <= run[r].texts /\ Count(r, "Error") = 0
          /\ Count(r, "ToolUse") <= run[r].tools + (IF run[r].open THEN 1 ELSE 0)
      BY <1>1, <1>3, <2>1, <2>2, <2>5, Literals, Distinct DEF Counts, At, Errors
    <3>3. Count(r, "Error")' = 0
      BY <1>2, <2>1, <2>5, <3>2, Literals
    <3>4. Count(r, "Text")' <= run'[r].texts
      <4>1. /\ Count(r, "Text") \in Nat
            /\ \/ Count(r, "Text")' = Count(r, "Text")
               \/ event = "Text" /\ Count(r, "Text")' = Count(r, "Text") + 1
        BY <1>2, <2>1, <2>2, <2>5, Literals
      <4>2. run'[r].texts = run[r].texts + (IF event = "Text" THEN 1 ELSE 0)
        BY <1>2
      <4>3. QED
        BY <2>3, <3>2, <4>1, <4>2
    <3>5. Count(r, "ToolUse")' <= run'[r].tools + (IF run'[r].open THEN 1 ELSE 0)
      <4>1. /\ Count(r, "ToolUse") \in Nat
            /\ \/ Count(r, "ToolUse")' = Count(r, "ToolUse")
               \/ event = "ToolUse" /\ Count(r, "ToolUse")' = Count(r, "ToolUse") + 1
        BY <1>2, <2>1, <2>2, <2>5, Literals
      <4>2. run'[r].tools = new.tools /\ run'[r].open = new.open
        BY <1>2
      <4>3. \/ event # "ToolUse" /\ new.tools + (IF new.open THEN 1 ELSE 0) =
                 run[r].tools + (IF run[r].open THEN 1 ELSE 0)
            \/ event = "ToolUse" /\ new.tools + (IF new.open THEN 1 ELSE 0) =
                 run[r].tools + (IF run[r].open THEN 1 ELSE 0) + 1
        BY <2>3, <2>5
      <4>4. QED
        BY <2>3, <3>2, <4>1, <4>2, <4>3
    <3>6. QED
      BY <1>2, <2>5, <3>1, <3>3, <3>4, <3>5, Distinct DEF Counts, Errors
  <2>6. QED
    BY <2>4, <2>5
<1>7. Only(r)
  BY <1>2 DEF Only
<1>8. TypeOK'
  BY <1>1, <1>2, <1>4, <1>5, <1>6, <1>7, TypesFrom DEF Local, TypeOK
<1>9. File'
  <2>1. CASE kind[r] = "claude"
    <3>1. Wrote(r) /\ Wrote(r)' /\ ~ At(r, "dropped")
      BY <1>2, <2>1 DEF Wrote, At
    <3>2. QED
      BY <1>7, <3>1, FileKeeps
  <2>2. CASE kind[r] # "claude"
    BY <1>7, <2>2, FileOther DEF At
  <2>3. QED
    BY <2>1, <2>2
<1>10. QED
  BY <1>4, <1>5, <1>6, <1>7, <1>8, <1>9 DEF Stays, Local

(* A step that puts nothing and receives nothing. *)
LEMMA QuietStep ==
  ASSUME IInv, NEW r \in Runs, UNCHANGED <<kind, chan, got, config, shared>>,
         cancelled' \in [Runs -> BOOLEAN], drops' \in 0 .. MaxDrops,
         mcpFile' \in Runs \cup {None},
         run' \in [Runs -> Run], \A q \in Runs \ {r} : run'[q] = run[q],
         stream' \in [Runs -> [items : Nat, final : BOOLEAN, closed : BOOLEAN]],
         \A q \in Runs \ {r} : stream'[q] = stream[q],
         child' \in [Runs -> {"none", "started", "running", "killed", "exited"}],
         \A q \in Runs \ {r} : child'[q] = child[q],
         Shape(r)', Child(r)', File',
         \/ At(r, "dropped")'
         \/ /\ run[r].pc \notin {"send", "returned", "dropped"}
            /\ run'[r].texts = run[r].texts
            /\ kind[r] # "claude" => run'[r].tools = run[r].tools
            /\ kind[r] = "claude" => run'[r].tools + (IF run'[r].open THEN 1 ELSE 0) =
                                     run[r].tools + (IF run[r].open THEN 1 ELSE 0)
            /\ \/ /\ At(r, "send")' /\ run'[r].event = "Error"
                  /\ run'[r].error = "failed" /\ run[r].error = None
               \/ /\ At(r, "send")' => run'[r].event = "Done"
                  /\ run'[r].error = "failed" <=> run[r].error = "failed"
            /\ kind[r] = "codex" /\ At(r, "returned")' => run'[r].error # None
  PROVE  Stays(r)
<1>1. TypeOK /\ Shape(r) /\ Child(r) /\ Counts(r)
  BY DEF IInv, Local
<1>2. Counts(r)'
  <2>1. SUFFICES ASSUME ~ chan[r].closed, ~ At(r, "dropped")' PROVE Counts(r)'
    BY DEF Counts
  <2>2. /\ \A e : Count(r, e)' = Count(r, e) /\ Count(r, e) \in Nat
        /\ \A e : Pending(r, e) = 0
    BY <1>1, <2>1, QuietCounts, ToldTypes DEF Pending, At
  <2>3. \A e \in {"Text", "ToolUse"} : Pending(r, e)' = 0
    BY <2>1 DEF Pending, At
  <2>4. /\ run[r].texts \in Nat /\ run[r].tools \in Nat /\ run'[r].tools \in Nat
        /\ run[r].open \in BOOLEAN /\ run'[r].open \in BOOLEAN
    BY <1>1, Fields DEF Run
  <2>5. kind[r] # "claude" =>
         /\ Count(r, "Text")' + Pending(r, "Text")' = run'[r].texts
         /\ Count(r, "ToolUse")' + Pending(r, "ToolUse")' = run'[r].tools
    BY <1>1, <2>1, <2>2, <2>3 DEF Counts, At
  <2>6. kind[r] = "claude" =>
         /\ Count(r, "Text")' <= run'[r].texts
         /\ Count(r, "ToolUse")' <= run'[r].tools + (IF run'[r].open THEN 1 ELSE 0)
    BY <1>1, <2>1, <2>2 DEF Counts, At
  <2>7. Count(r, "Error")' + Pending(r, "Error")' = IF run'[r].error = "failed" THEN 1 ELSE 0
    <3>1. Count(r, "Error") = IF run[r].error = "failed" THEN 1 ELSE 0
      BY <1>1, <2>1, <2>2 DEF Counts, At
    <3>2. CASE /\ At(r, "send")' /\ run'[r].event = "Error"
               /\ run'[r].error = "failed" /\ run[r].error = None
      <4>1. Pending(r, "Error")' = 1 /\ Count(r, "Error") = 0
        BY <3>1, <3>2, Distinct DEF Pending, Errors
      <4>2. QED
        BY <2>2, <3>2, <4>1
    <3>3. CASE /\ At(r, "send")' => run'[r].event = "Done"
               /\ run'[r].error = "failed" <=> run[r].error = "failed"
      <4>1. Pending(r, "Error")' = 0
        BY <3>3 DEF Pending
      <4>2. QED
        BY <2>2, <3>1, <3>3, <4>1
    <3>4. QED
      BY <2>1, <3>2, <3>3
  <2>8. kind[r] \in {"codex", "anthropic"} => Count(r, "Done")' = 0
    BY <1>1, <2>1, <2>2 DEF Counts, At
  <2>9. QED
    BY <2>1, <2>5, <2>6, <2>7, <2>8 DEF Counts
<1>3. Only(r)
  BY DEF Only
<1>4. TypeOK'
  BY <1>1, <1>2, <1>3, TypesFrom DEF Local, TypeOK
<1>5. QED
  BY <1>2, <1>3, <1>4 DEF Stays, Local

-----------------------------------------------------------------------------
(* The loop. *)

LEMMA SaysEffect ==
  ASSUME TypeOK, NEW r \in Runs,
         NEW more \in [items : Nat, final : BOOLEAN, closed : BOOLEAN], Says(r, more)
  PROVE  /\ stream' \in [Runs -> [items : Nat, final : BOOLEAN, closed : BOOLEAN]]
         /\ \A q \in Runs \ {r} : stream'[q] = stream[q]
         /\ stream'[r] = more /\ At(r, "loop") /\ ~ stream[r].closed
         /\ Cli(r) => child[r] = "running"
BY DEF TypeOK, Says

LEMMA ItemEffect ==
  ASSUME TypeOK, NEW r \in Runs, Item(r)
  PROVE  /\ stream' \in [Runs -> [items : Nat, final : BOOLEAN, closed : BOOLEAN]]
         /\ \A q \in Runs \ {r} : stream'[q] = stream[q]
         /\ stream'[r].closed = stream[r].closed /\ At(r, "loop")
<1> DEFINE more == [stream[r] EXCEPT !.items = @ + 1]
<1>1. stream[r] \in [items : Nat, final : BOOLEAN, closed : BOOLEAN]
  BY DEF TypeOK
<1>2. more \in [items : Nat, final : BOOLEAN, closed : BOOLEAN] /\ more.closed = stream[r].closed
  BY <1>1
<1>3. Says(r, more)
  BY DEF Item
<1> HIDE DEF more
<1>4. QED
  BY <1>2, <1>3, SaysEffect

LEMMA LoopFields ==
  ASSUME IInv, NEW r \in Runs, At(r, "loop")
  PROVE  /\ kind[r] # None /\ run[r] \in Run /\ run[r].event = None /\ run[r].error = None
         /\ run[r].texts \in Nat /\ run[r].tools \in Nat /\ run[r].open \in BOOLEAN
BY Fields DEF IInv, Local, Shape, At

LEMMA HelloStep ==
  ASSUME IInv, NEW r \in Runs, Hello(r)
  PROVE  Stays(r)
<1> DEFINE new == [run[r] EXCEPT !.connected = TRUE]
<1>1. TypeOK /\ stream[r] \in [items : Nat, final : BOOLEAN, closed : BOOLEAN]
  BY DEF IInv, TypeOK
<1>2. /\ Says(r, stream[r]) /\ Emit(r, "Connected", "loop", new)
      /\ UNCHANGED <<kind, cancelled, child, got, mcpFile, config, shared, drops>>
  BY DEF Hello
<1>3. /\ stream' \in [Runs -> [items : Nat, final : BOOLEAN, closed : BOOLEAN]]
      /\ \A q \in Runs \ {r} : stream'[q] = stream[q]
      /\ stream'[r].closed = stream[r].closed /\ At(r, "loop")
  BY <1>1, <1>2, SaysEffect
<1>4. run[r] \in Run /\ new \in Run
  BY <1>1, Fields, Updates
<1>5. /\ new.event = run[r].event /\ new.error = run[r].error
      /\ new.texts = run[r].texts /\ new.tools = run[r].tools /\ new.open = run[r].open
  BY <1>4 DEF Run
<1> HIDE DEF new
<1>6. QED
  BY <1>2, <1>3, <1>4, <1>5, LoopFields, EmitStep, Literals

LEMMA TextStep ==
  ASSUME IInv, NEW r \in Runs, Text(r)
  PROVE  Stays(r)
<1> DEFINE new == [run[r] EXCEPT !.texts = @ + 1]
<1>1. TypeOK
  BY DEF IInv
<1>2. /\ Item(r) /\ Emit(r, "Text", "loop", new)
      /\ UNCHANGED <<kind, cancelled, child, got, mcpFile, config, shared, drops>>
  BY DEF Text
<1>3. run[r] \in Run /\ new \in Run
  BY <1>1, Fields DEF Run
<1>4. /\ new.event = run[r].event /\ new.error = run[r].error
      /\ new.texts = run[r].texts + 1 /\ new.tools = run[r].tools /\ new.open = run[r].open
  BY <1>3 DEF Run
<1> HIDE DEF new
<1>5. QED
  BY <1>1, <1>2, <1>3, <1>4, ItemEffect, LoopFields, EmitStep, Literals

LEMMA FinalStep ==
  ASSUME IInv, NEW r \in Runs, Final(r)
  PROVE  Stays(r)
<1> DEFINE more == [stream[r] EXCEPT !.final = TRUE]
           then == IF kind[r] = "anthropic" THEN "returned" ELSE "loop"
<1>1. TypeOK /\ stream[r] \in [items : Nat, final : BOOLEAN, closed : BOOLEAN]
  BY DEF IInv, TypeOK
<1>2. /\ Says(r, more) /\ Emit(r, "Done", then, run[r]) /\ kind[r] # "codex"
      /\ UNCHANGED <<kind, cancelled, child, got, mcpFile, config, shared, drops>>
  BY DEF Final
<1>3. more \in [items : Nat, final : BOOLEAN, closed : BOOLEAN] /\ more.closed = stream[r].closed
  BY <1>1
<1>4. then \in Thens /\ (then = "loop" \/ (then = "returned" /\ kind[r] = "anthropic"))
      /\ (kind[r] = "anthropic" => then = "returned")
  BY Literals
<1> HIDE DEF more, then
<1>5. /\ stream' \in [Runs -> [items : Nat, final : BOOLEAN, closed : BOOLEAN]]
      /\ \A q \in Runs \ {r} : stream'[q] = stream[q]
      /\ stream'[r].closed = stream[r].closed /\ At(r, "loop")
  BY <1>1, <1>2, <1>3, SaysEffect
<1>6. QED
  BY <1>2, <1>4, <1>5, LoopFields, EmitStep, Literals

LEMMA ToolFields ==
  ASSUME NEW old \in Run, NEW tools \in Nat, NEW open \in BOOLEAN
  PROVE  /\ [old EXCEPT !.tools = tools, !.open = open] \in Run
         /\ [old EXCEPT !.tools = tools, !.open = open].tools = tools
         /\ [old EXCEPT !.tools = tools, !.open = open].open = open
         /\ [old EXCEPT !.tools = tools, !.open = open].texts = old.texts
         /\ [old EXCEPT !.tools = tools, !.open = open].event = old.event
         /\ [old EXCEPT !.tools = tools, !.open = open].error = old.error
BY DEF Run

LEMMA ToolStep ==
  ASSUME IInv, NEW r \in Runs, Tool(r)
  PROVE  Stays(r)
<1>1. TypeOK /\ Shape(r) /\ Child(r)
  BY DEF IInv, Local
<1>2. Item(r) /\ UNCHANGED <<kind, cancelled, child, got, mcpFile, config, shared, drops>>
  BY DEF Tool
<1>3. /\ stream' \in [Runs -> [items : Nat, final : BOOLEAN, closed : BOOLEAN]]
      /\ \A q \in Runs \ {r} : stream'[q] = stream[q]
      /\ stream'[r].closed = stream[r].closed /\ At(r, "loop")
  BY <1>1, <1>2, ItemEffect
<1>4. CASE kind[r] = "claude" /\ Emit(r, "ToolUse", "loop", Closed(r))
  <2> DEFINE new == Closed(r)
             tools == run[r].tools + (IF run[r].open THEN 1 ELSE 0)
  <2>1. run[r] \in Run /\ tools \in Nat
    BY <1>3, LoopFields
  <2>2. new = [run[r] EXCEPT !.tools = tools, !.open = TRUE]
    BY DEF Closed
  <2> HIDE DEF new, tools
  <2>3. new \in Run
    BY <2>1, <2>2, ToolFields
  <2>4. /\ new.event = run[r].event /\ new.error = run[r].error /\ new.texts = run[r].texts
        /\ new.tools = tools /\ new.open = TRUE
    BY <2>1, <2>2, ToolFields
  <2>5. new.tools = run[r].tools + (IF run[r].open THEN 1 ELSE 0)
    BY <2>4 DEF tools
  <2>6. new.tools + (IF new.open THEN 1 ELSE 0) =
          run[r].tools + (IF run[r].open THEN 1 ELSE 0) + 1
    BY <1>3, <2>4, <2>5, LoopFields
  <2>7. Emit(r, "ToolUse", "loop", new)
    BY <1>4 DEF new
  <2>8. QED
    BY <1>2, <1>3, <1>4, <2>3, <2>4, <2>6, <2>7, LoopFields, EmitStep, Literals
<1>5. CASE /\ kind[r] = "anthropic" /\ ~ run[r].open /\ chan' = chan
           /\ Goto(r, "loop", [run[r] EXCEPT !.open = TRUE])
  <2> DEFINE new == [run[r] EXCEPT !.open = TRUE]
  <2>1. run[r] \in Run /\ new \in Run
    BY <1>1, Fields, Updates
  <2>2. /\ new.event = run[r].event /\ new.error = run[r].error
        /\ new.texts = run[r].texts /\ new.tools = run[r].tools
    BY <2>1 DEF Run
  <2>3. Goto(r, "loop", new)
    BY <1>5
  <2> HIDE DEF new
  <2>4. /\ run' \in [Runs -> Run] /\ \A q \in Runs \ {r} : run'[q] = run[q]
        /\ run'[r].pc = "loop" /\ run'[r].event = None /\ run'[r].error = None
        /\ run'[r].texts = run[r].texts /\ run'[r].tools = run[r].tools
    BY <1>1, <1>3, <2>1, <2>2, <2>3, GotoEffect, LoopFields, Literals
  <2>5. Shape(r)' /\ Child(r)'
    BY <1>1, <1>2, <1>3, <1>5, <2>4, LoopFields DEF Shape, Child, At, Sends, Rest
  <2>6. /\ cancelled' \in [Runs -> BOOLEAN] /\ drops' \in 0 .. MaxDrops
        /\ mcpFile' \in Runs \cup {None}
        /\ child' \in [Runs -> {"none", "started", "running", "killed", "exited"}]
        /\ \A q \in Runs \ {r} : child'[q] = child[q]
    BY <1>1, <1>2 DEF TypeOK
  <2>7. /\ At(r, "send")' => run'[r].event = "Done"
        /\ run'[r].error = "failed" <=> run[r].error = "failed"
        /\ run[r].pc \notin {"send", "returned", "dropped"} /\ ~ At(r, "returned")'
    BY <1>3, <2>4, LoopFields DEF At
  <2>8. Only(r)
    BY <1>2, <1>3, <1>5, <2>4 DEF Only
  <2>9. File'
    BY <1>2, <1>3, <1>5, <2>8, FileOther DEF At
  <2>10. QED
    BY <1>2, <1>3, <1>5, <2>4, <2>5, <2>6, <2>7, <2>9, QuietStep
<1>6. CASE /\ kind[r] = "anthropic" /\ run[r].open
           /\ Emit(r, "ToolUse", "loop", [run[r] EXCEPT !.tools = @ + 1, !.open = FALSE])
  <2> DEFINE new == [run[r] EXCEPT !.tools = @ + 1, !.open = FALSE]
  <2>0. run[r] \in Run /\ run[r].tools + 1 \in Nat
    BY <1>3, LoopFields
  <2>1. new \in Run
    BY <2>0, ToolFields
  <2>2. /\ new.event = run[r].event /\ new.error = run[r].error
        /\ new.texts = run[r].texts /\ new.tools = run[r].tools + 1
    BY <2>0, ToolFields
  <2>3. Emit(r, "ToolUse", "loop", new)
    BY <1>6
  <2> HIDE DEF new
  <2>4. QED
    BY <1>2, <1>3, <1>6, <2>1, <2>2, <2>3, LoopFields, EmitStep, Literals
<1>7. QED
  BY <1>4, <1>5, <1>6 DEF Tool

LEMMA LoggedFields ==
  ASSUME IInv, NEW r \in Runs, At(r, "loop")
  PROVE  /\ Logged(r) \in Run /\ Logged(r).texts = run[r].texts
         /\ Logged(r).event = None /\ Logged(r).error = None
         /\ kind[r] # "claude" => Logged(r).tools = run[r].tools
         /\ kind[r] = "claude" =>
              /\ Logged(r).open = FALSE
              /\ Logged(r).tools = run[r].tools + (IF run[r].open THEN 1 ELSE 0)
<1>1. /\ run[r] \in Run /\ run[r].event = None /\ run[r].error = None
      /\ run[r].tools \in Nat /\ run[r].open \in BOOLEAN
  BY LoopFields
<1>2. CASE kind[r] = "claude" /\ run[r].open
  <2> DEFINE new == [run[r] EXCEPT !.tools = @ + 1, !.open = FALSE]
  <2>1. run[r].tools + 1 \in Nat
    BY <1>1
  <2>2. /\ new \in Run /\ new.texts = run[r].texts /\ new.event = run[r].event
        /\ new.error = run[r].error /\ new.open = FALSE /\ new.tools = run[r].tools + 1
    BY <1>1, <2>1, ToolFields
  <2>3. Logged(r) = new
    BY <1>2 DEF Logged
  <2> HIDE DEF new
  <2>4. QED
    BY <1>1, <1>2, <2>2, <2>3
<1>3. CASE ~ (kind[r] = "claude" /\ run[r].open)
  BY <1>1, <1>3 DEF Logged
<1>4. QED
  BY <1>2, <1>3

LEMMA OverEffect ==
  ASSUME TypeOK, NEW r \in Runs, Over(r)
  PROVE  /\ stream' \in [Runs -> [items : Nat, final : BOOLEAN, closed : BOOLEAN]]
         /\ \A q \in Runs \ {r} : stream'[q] = stream[q]
         /\ stream'[r].closed = TRUE /\ At(r, "loop") /\ (Cli(r) => child[r] = "running")
<1> DEFINE more == [stream[r] EXCEPT !.closed = TRUE]
<1>1. stream[r] \in [items : Nat, final : BOOLEAN, closed : BOOLEAN]
  BY DEF TypeOK
<1>2. more \in [items : Nat, final : BOOLEAN, closed : BOOLEAN] /\ more.closed = TRUE
  BY <1>1
<1>3. Says(r, more)
  BY DEF Over
<1> HIDE DEF more
<1>4. QED
  BY <1>2, <1>3, SaysEffect

LEMMA EndStep ==
  ASSUME IInv, NEW r \in Runs, EndOfStream(r)
  PROVE  Stays(r)
<1>1. TypeOK /\ Shape(r) /\ Child(r)
  BY DEF IInv, Local
<1>2. /\ Over(r) /\ UNCHANGED <<kind, cancelled, child, chan, got, config, shared, drops>>
      /\ mcpFile' \in Runs \cup {None}
  BY <1>1 DEF EndOfStream, RemoveConfig, TypeOK
<1>3. /\ stream' \in [Runs -> [items : Nat, final : BOOLEAN, closed : BOOLEAN]]
      /\ \A q \in Runs \ {r} : stream'[q] = stream[q]
      /\ At(r, "loop") /\ (kind[r] = "codex" => child[r] = "running")
  BY <1>1, <1>2, OverEffect DEF Cli, Rest
<1>4. /\ run' \in [Runs -> Run] /\ \A q \in Runs \ {r} : run'[q] = run[q]
      /\ run'[r].pc = IF kind[r] = "codex" THEN "wait" ELSE "returned"
      /\ run'[r].event = None /\ run'[r].error = None
      /\ run'[r].texts = run[r].texts /\ run'[r].tools = Logged(r).tools
      /\ run'[r].open = Logged(r).open
  <2> DEFINE new == Logged(r)
             pc == IF kind[r] = "codex" THEN "wait" ELSE "returned"
  <2>1. /\ new \in Run /\ new.texts = run[r].texts /\ new.event = None /\ new.error = None
        /\ pc \in Points /\ Goto(r, pc, new)
    BY <1>3, LoggedFields, Literals DEF EndOfStream
  <2> HIDE DEF new, pc
  <2>2. /\ run' \in [Runs -> Run] /\ \A q \in Runs \ {r} : run'[q] = run[q]
        /\ run'[r].pc = pc /\ run'[r].event = None /\ run'[r].error = None
        /\ run'[r].texts = run[r].texts /\ run'[r].tools = new.tools /\ run'[r].open = new.open
    BY <1>1, <2>1, GotoEffect
  <2>3. QED
    BY <2>2 DEF new, pc
<1>5. Shape(r)'
  BY <1>1, <1>2, <1>3, <1>4, LoopFields, LoggedFields DEF Shape, At, Sends, Rest, Kinds
<1>6. Child(r)'
  BY <1>1, <1>2, <1>3, <1>4 DEF Child, At, Sends
<1>7. /\ cancelled' \in [Runs -> BOOLEAN] /\ drops' \in 0 .. MaxDrops
      /\ child' \in [Runs -> {"none", "started", "running", "killed", "exited"}]
      /\ \A q \in Runs \ {r} : child'[q] = child[q]
  BY <1>1, <1>2 DEF TypeOK
<1>8. /\ kind[r] # "claude" => run'[r].tools = run[r].tools
      /\ kind[r] = "claude" => run'[r].tools + (IF run'[r].open THEN 1 ELSE 0) =
                               run[r].tools + (IF run[r].open THEN 1 ELSE 0)
  <2>1. run[r].tools \in Nat /\ run[r].open \in BOOLEAN
    BY <1>3, LoopFields
  <2>2. /\ run'[r].tools = Logged(r).tools /\ run'[r].open = Logged(r).open
        /\ kind[r] # "claude" => Logged(r).tools = run[r].tools
        /\ kind[r] = "claude" =>
             /\ Logged(r).open = FALSE
             /\ Logged(r).tools = run[r].tools + (IF run[r].open THEN 1 ELSE 0)
    BY <1>3, <1>4, LoggedFields
  <2>3. QED
    BY <2>1, <2>2
<1>9. /\ At(r, "send")' => run'[r].event = "Done"
      /\ run'[r].error = "failed" <=> run[r].error = "failed"
      /\ run[r].pc \notin {"send", "returned", "dropped"}
      /\ kind[r] = "codex" => ~ At(r, "returned")'
  BY <1>3, <1>4, LoopFields DEF At
<1>10. Only(r)
  BY <1>2, <1>3, <1>4 DEF Only
<1>11. File'
  <2>1. CASE kind[r] = "claude"
    <3>1. Wrote(r) /\ ~ Wrote(r)' /\ ~ At(r, "dropped") /\ ~ Active(r)' /\ mcpFile' = None
      BY <1>3, <1>4, <2>1 DEF Wrote, At, Sends, Active, EndOfStream, RemoveConfig
    <3>2. QED
      BY <1>2, <1>10, <3>1, FileKeeps
  <2>2. CASE kind[r] # "claude"
    BY <1>2, <1>3, <1>10, <2>2, FileOther DEF At, EndOfStream, RemoveConfig
  <2>3. QED
    BY <2>1, <2>2
<1>12. QED
  BY <1>2, <1>3, <1>4, <1>5, <1>6, <1>7, <1>8, <1>9, <1>11, QuietStep

LEMMA StreamFailsStep ==
  ASSUME IInv, NEW r \in Runs, StreamFails(r)
  PROVE  Stays(r)
<1>1. TypeOK /\ Shape(r) /\ Child(r)
  BY DEF IInv, Local
<1>2. /\ Over(r) /\ kind[r] # "codex"
      /\ UNCHANGED <<kind, cancelled, child, chan, got, mcpFile, config, shared, drops>>
  BY DEF StreamFails
<1>3. /\ stream' \in [Runs -> [items : Nat, final : BOOLEAN, closed : BOOLEAN]]
      /\ \A q \in Runs \ {r} : stream'[q] = stream[q] /\ At(r, "loop")
  BY <1>1, <1>2, OverEffect
<1>4. /\ run' \in [Runs -> Run] /\ \A q \in Runs \ {r} : run'[q] = run[q]
      /\ run'[r].pc = "send" /\ run'[r].event = "Error" /\ run'[r].error = "failed"
      /\ run'[r].then = IF kind[r] = "claude" THEN "clean_up" ELSE "returned"
      /\ run'[r].texts = run[r].texts /\ run'[r].tools = Logged(r).tools
      /\ run'[r].open = Logged(r).open
  <2> DEFINE old == Logged(r)
             new == [old EXCEPT !.error = "failed"]
             then == IF kind[r] = "claude" THEN "clean_up" ELSE "returned"
  <2>1. Send(r, "Error", then, new)
    BY DEF StreamFails
  <2>2. old \in Run /\ old.texts = run[r].texts
    BY <1>1, <1>2, OverEffect, LoggedFields
  <2> HIDE DEF old
  <2>3. new \in Run /\ then \in Thens
    BY <2>2, Literals DEF Run
  <2>4. /\ new.texts = run[r].texts /\ new.tools = old.tools /\ new.open = old.open
        /\ new.error = "failed"
    BY <2>2 DEF Run
  <2> HIDE DEF new, then
  <2>5. /\ run' \in [Runs -> Run] /\ \A q \in Runs \ {r} : run'[q] = run[q]
        /\ run'[r].pc = "send" /\ run'[r].event = "Error" /\ run'[r].error = "failed"
        /\ run'[r].then = then
        /\ run'[r].texts = run[r].texts /\ run'[r].tools = old.tools /\ run'[r].open = old.open
    BY <1>1, <2>1, <2>3, <2>4, SendEffect, Literals
  <2>6. QED
    BY <2>5 DEF old, then
<1>5. At(r, "loop")
  BY <1>1, <1>2, OverEffect
<1>6. Shape(r)'
  BY <1>1, <1>2, <1>4, <1>5, LoopFields, LoggedFields, Distinct
     DEF Shape, At, Sends, Rest, Kinds, Events
<1>7. Child(r)'
  BY <1>1, <1>2, <1>3, <1>4, <1>5 DEF Child, At, Sends
<1>8. /\ cancelled' \in [Runs -> BOOLEAN] /\ drops' \in 0 .. MaxDrops
      /\ mcpFile' \in Runs \cup {None}
      /\ child' \in [Runs -> {"none", "started", "running", "killed", "exited"}]
      /\ \A q \in Runs \ {r} : child'[q] = child[q]
  BY <1>1, <1>2 DEF TypeOK
<1>9. /\ kind[r] # "claude" => run'[r].tools = run[r].tools
      /\ kind[r] = "claude" => run'[r].tools + (IF run'[r].open THEN 1 ELSE 0) =
                               run[r].tools + (IF run[r].open THEN 1 ELSE 0)
  <2>1. run[r].tools \in Nat /\ run[r].open \in BOOLEAN
    BY <1>5, LoopFields
  <2>2. /\ run'[r].tools = Logged(r).tools /\ run'[r].open = Logged(r).open
        /\ kind[r] # "claude" => Logged(r).tools = run[r].tools
        /\ kind[r] = "claude" =>
             /\ Logged(r).open = FALSE
             /\ Logged(r).tools = run[r].tools + (IF run[r].open THEN 1 ELSE 0)
    BY <1>4, <1>5, LoggedFields
  <2>3. QED
    BY <2>1, <2>2
<1>10. /\ At(r, "send")' /\ ~ At(r, "returned")' /\ run[r].error = None
       /\ run[r].pc \notin {"send", "returned", "dropped"}
  BY <1>4, <1>5, LoopFields DEF At
<1>11. Only(r)
  BY <1>1, <1>2, <1>3, <1>4, OverEffect DEF Only
<1>12. File'
  <2>1. CASE kind[r] = "claude"
    <3>1. Wrote(r) /\ Wrote(r)' /\ ~ At(r, "dropped")
      BY <1>4, <1>5, <2>1 DEF Wrote, At, Sends, StreamFails
    <3>2. QED
      BY <1>2, <1>11, <3>1, FileKeeps
  <2>2. CASE kind[r] # "claude"
    BY <1>2, <1>5, <1>11, <2>2, FileOther DEF At
  <2>3. QED
    BY <2>1, <2>2
<1>13. QED
  BY <1>1, <1>2, <1>3, <1>4, <1>6, <1>7, <1>8, <1>9, <1>10, <1>12, OverEffect, QuietStep

LEMMA SpawnFailsStep ==
  ASSUME IInv, NEW r \in Runs, SpawnFails(r)
  PROVE  Stays(r)
<1>1. TypeOK /\ Shape(r) /\ Child(r)
  BY DEF IInv, Local
<1>2. /\ UNCHANGED <<kind, cancelled, stream, child, chan, got, mcpFile, config, shared, drops>>
      /\ kind[r] = "claude" /\ At(r, "spawn")
  BY DEF SpawnFails
<1>3. run[r].error = None /\ run[r].event = None /\ run[r] \in Run
  BY <1>1, <1>2, Fields DEF Shape, At
<1>4. /\ run' \in [Runs -> Run] /\ \A q \in Runs \ {r} : run'[q] = run[q]
      /\ run'[r].pc = "send" /\ run'[r].event = "Error" /\ run'[r].error = "failed"
      /\ run'[r].then = "clean_up"
      /\ run'[r].texts = run[r].texts /\ run'[r].tools = run[r].tools
      /\ run'[r].open = run[r].open
  <2> DEFINE new == [run[r] EXCEPT !.error = "failed"]
  <2>1. Send(r, "Error", "clean_up", new)
    BY DEF SpawnFails
  <2>2. new \in Run
    BY <1>1, Updates
  <2>3. /\ new.texts = run[r].texts /\ new.tools = run[r].tools /\ new.open = run[r].open
        /\ new.error = "failed"
    BY <1>3 DEF Run
  <2> HIDE DEF new
  <2>4. QED
    BY <1>1, <2>1, <2>2, <2>3, SendEffect, Literals
<1>5. Shape(r)'
  <2>1. ~ run[r].open /\ kind[r] # None
    BY <1>1, <1>2, <1>3, Distinct DEF Shape, At, Errors, Kinds
  <2>2. "Error" # None
    BY Distinct, Literals
  <2>3. QED
    BY <1>2, <1>4, <2>1, <2>2 DEF Shape, At, Sends, Rest
<1>6. Child(r)'
  BY <1>1, <1>2, <1>4 DEF Child, At, Sends
<1>7. /\ cancelled' \in [Runs -> BOOLEAN] /\ drops' \in 0 .. MaxDrops
      /\ mcpFile' \in Runs \cup {None}
      /\ stream' \in [Runs -> [items : Nat, final : BOOLEAN, closed : BOOLEAN]]
      /\ child' \in [Runs -> {"none", "started", "running", "killed", "exited"}]
      /\ \A q \in Runs \ {r} : child'[q] = child[q] /\ stream'[q] = stream[q]
  BY <1>1, <1>2 DEF TypeOK
<1>8. Only(r)
  BY <1>2, <1>4, <1>7 DEF Only
<1>9. File'
  <2>1. Wrote(r) /\ Wrote(r)' /\ ~ At(r, "dropped")
    BY <1>2, <1>4 DEF Wrote, At, Sends
  <2>2. QED
    BY <1>2, <1>8, <2>1, FileKeeps
<1>10. /\ At(r, "send")' /\ ~ At(r, "returned")'
       /\ run[r].pc \notin {"send", "returned", "dropped"}
  BY <1>2, <1>4 DEF At
<1>11. QED
  BY <1>1, <1>2, <1>3, <1>4, <1>5, <1>6, <1>7, <1>9, <1>10, QuietStep

-----------------------------------------------------------------------------
(* After the loop. *)

LEMMA CleanUpStep ==
  ASSUME IInv, NEW r \in Runs, CleanUp(r)
  PROVE  Stays(r)
<1>1. TypeOK /\ Shape(r) /\ Child(r)
  BY DEF IInv, Local
<1>2. /\ UNCHANGED <<kind, cancelled, stream, child, chan, got, config, shared, drops>>
      /\ At(r, "clean_up") /\ kind[r] = "claude" /\ mcpFile' = None
      /\ run[r].error = "failed" /\ run[r].event = None /\ ~ run[r].open
  <2>1. UNCHANGED <<kind, cancelled, stream, child, chan, got, config, shared, drops>>
        /\ At(r, "clean_up") /\ RemoveConfig(r)
    BY DEF CleanUp
  <2>2. kind[r] = "claude"
    BY <1>1, <2>1, Fields DEF Shape, At, Kinds, Rest
  <2>3. run[r].error = "failed" /\ run[r].event = None
    BY <1>1, <2>1 DEF Shape, At
  <2>4. ~ run[r].open
    BY <1>1, <2>1, <2>2, <2>3 DEF Shape, At
  <2>5. QED
    BY <2>1, <2>2, <2>3, <2>4 DEF RemoveConfig
<1>3. /\ run' \in [Runs -> Run] /\ \A q \in Runs \ {r} : run'[q] = run[q]
      /\ run'[r].pc = "returned" /\ run'[r].event = None
      /\ run'[r].texts = run[r].texts /\ run'[r].tools = run[r].tools
      /\ run'[r].open = run[r].open /\ run'[r].error = "failed"
  BY <1>1, <1>2, MoveEffect, Literals DEF CleanUp
<1>4. Shape(r)' /\ Child(r)'
  BY <1>1, <1>2, <1>3, Distinct DEF Shape, Child, At, Sends, Rest, Kinds
<1>5. Only(r)
  BY <1>2, <1>3 DEF Only
<1>6. Wrote(r) /\ ~ Wrote(r)' /\ ~ At(r, "dropped") /\ ~ Active(r)'
  BY <1>2, <1>3 DEF Wrote, At, Sends, Active
<1>7. File'
  BY <1>2, <1>5, <1>6, FileKeeps
<1>8. /\ stream' \in [Runs -> [items : Nat, final : BOOLEAN, closed : BOOLEAN]]
      /\ cancelled' \in [Runs -> BOOLEAN] /\ drops' \in 0 .. MaxDrops
      /\ mcpFile' \in Runs \cup {None}
      /\ child' \in [Runs -> {"none", "started", "running", "killed", "exited"}]
      /\ \A q \in Runs \ {r} : child'[q] = child[q] /\ stream'[q] = stream[q]
  BY <1>1, <1>2 DEF TypeOK
<1>9. /\ run[r].pc \notin {"send", "returned", "dropped"} /\ kind[r] # "codex"
      /\ ~ At(r, "send")' /\ (run'[r].error = "failed" <=> run[r].error = "failed")
  BY <1>2, <1>3 DEF At
<1>10. QED
  BY <1>2, <1>3, <1>4, <1>7, <1>8, <1>9, QuietStep

LEMMA WaitedStep ==
  ASSUME IInv, NEW r \in Runs, Waited(r)
  PROVE  Stays(r)
<1>1. TypeOK /\ Shape(r) /\ Child(r)
  BY DEF IInv, Local
<1>2. /\ UNCHANGED <<kind, cancelled, stream, child, chan, got, mcpFile, config, shared, drops>>
      /\ At(r, "wait") /\ child[r] = "exited"
  BY DEF Waited
<1>3. kind[r] = "codex" /\ run[r].error = None
  BY <1>1, <1>2, Fields DEF Shape, At, Kinds, Rest
<1>4. /\ run' \in [Runs -> Run] /\ \A q \in Runs \ {r} : run'[q] = run[q]
      /\ run'[r].pc = "send" /\ run'[r].then = "returned"
      /\ run'[r].texts = run[r].texts /\ run'[r].tools = run[r].tools
      /\ run'[r].open = run[r].open
      /\ \/ run'[r].event = "Done" /\ run'[r].error = None
         \/ run'[r].event = "Error" /\ run'[r].error = "failed"
  <2>1. CASE FailWith(r)
    BY <1>1, <2>1, FailEffect
  <2>2. CASE Send(r, "Done", "returned", run[r])
    BY <1>1, <1>3, <2>2, SendEffect, Fields, Literals
  <2>3. QED
    BY <2>1, <2>2 DEF Waited
<1>5. Shape(r)' /\ Child(r)'
  BY <1>1, <1>2, <1>3, <1>4, Distinct
     DEF Shape, Child, At, Sends, Rest, Kinds, Events, Errors
<1>6. Only(r)
  BY <1>2, <1>4 DEF Only
<1>7. File'
  BY <1>2, <1>3, <1>6, FileOther DEF At
<1>8. /\ stream' \in [Runs -> [items : Nat, final : BOOLEAN, closed : BOOLEAN]]
      /\ cancelled' \in [Runs -> BOOLEAN] /\ drops' \in 0 .. MaxDrops
      /\ mcpFile' \in Runs \cup {None}
      /\ child' \in [Runs -> {"none", "started", "running", "killed", "exited"}]
      /\ \A q \in Runs \ {r} : child'[q] = child[q] /\ stream'[q] = stream[q]
  BY <1>1, <1>2 DEF TypeOK
<1>9. /\ run[r].pc \notin {"send", "returned", "dropped"} /\ kind[r] # "claude"
      /\ At(r, "send")' /\ ~ At(r, "returned")'
      /\ \/ run'[r].event = "Error" /\ run'[r].error = "failed" /\ run[r].error = None
         \/ run'[r].event = "Done" /\ (run'[r].error = "failed" <=> run[r].error = "failed")
  BY <1>2, <1>3, <1>4 DEF At
<1>10. QED
  BY <1>2, <1>4, <1>5, <1>7, <1>8, <1>9, QuietStep

LEMMA CancelStep ==
  ASSUME IInv, NEW r \in Runs, Cancel(r)
  PROVE  Stays(r)
<1>1. TypeOK /\ Shape(r) /\ Child(r)
  BY DEF IInv, Local
<1>2. /\ UNCHANGED <<kind, cancelled, stream, chan, got, config, shared, drops>>
      /\ run[r].pc \in {"loop", "spawn"} /\ RemoveConfig(r)
  BY DEF Cancel, Notices, At
<1>3. kind[r] # None /\ run[r].error = None /\ run[r].event = None
  BY <1>1, <1>2 DEF Shape, At
<1>4. /\ run' \in [Runs -> Run] /\ \A q \in Runs \ {r} : run'[q] = run[q]
      /\ run'[r].event = None
      /\ run'[r].texts = run[r].texts /\ run'[r].tools = run[r].tools
      /\ run'[r].open = run[r].open
      /\ kind[r] = "codex" => run'[r].pc = "reap" /\ run'[r].error = None
      /\ kind[r] # "codex" => run'[r].pc = "returned" /\ run'[r].error = "cancelled"
  <2>1. CASE kind[r] = "codex"
    BY <1>1, <1>3, <2>1, MoveEffect, Literals DEF Cancel
  <2>2. CASE kind[r] # "codex"
    BY <1>1, <1>3, <2>2, ReturnEffect, Literals DEF Cancel
  <2>3. QED
    BY <2>1, <2>2
<1>5. /\ child' \in [Runs -> {"none", "started", "running", "killed", "exited"}]
      /\ \A q \in Runs \ {r} : child'[q] = child[q]
      /\ kind[r] = "codex" => child'[r] \in {"killed", "exited"}
      /\ kind[r] # "codex" => child'[r] = child[r]
  BY <1>1 DEF TypeOK, Cancel
<1>6. Shape(r)' /\ Child(r)'
  BY <1>1, <1>2, <1>3, <1>4, <1>5, Distinct DEF Shape, Child, At, Sends, Rest, Errors
<1>7. Only(r)
  BY <1>2, <1>4, <1>5 DEF Only
<1>8. File'
  <2>1. CASE kind[r] = "claude"
    <3>1. Wrote(r) /\ ~ Wrote(r)' /\ ~ At(r, "dropped") /\ ~ Active(r)' /\ mcpFile' = None
      BY <1>2, <1>4, <2>1 DEF Wrote, At, Sends, Active, RemoveConfig
    <3>2. QED
      BY <1>2, <1>7, <3>1, FileKeeps
  <2>2. CASE kind[r] # "claude"
    BY <1>2, <1>7, <2>2, FileOther DEF At, RemoveConfig
  <2>3. QED
    BY <2>1, <2>2
<1>9. /\ stream' \in [Runs -> [items : Nat, final : BOOLEAN, closed : BOOLEAN]]
      /\ cancelled' \in [Runs -> BOOLEAN] /\ drops' \in 0 .. MaxDrops
      /\ mcpFile' \in Runs \cup {None}
      /\ \A q \in Runs \ {r} : stream'[q] = stream[q]
  BY <1>1, <1>2 DEF TypeOK, RemoveConfig
<1>10. /\ run[r].pc \notin {"send", "returned", "dropped"} /\ ~ At(r, "send")'
       /\ run'[r].error # "failed" /\ run[r].error # "failed"
       /\ (kind[r] = "codex" => ~ At(r, "returned")')
  BY <1>2, <1>3, <1>4, Distinct DEF At, Errors
<1>11. QED
  BY <1>2, <1>4, <1>5, <1>6, <1>8, <1>9, <1>10, QuietStep

LEMMA ReapStep ==
  ASSUME IInv, NEW r \in Runs, Reap(r)
  PROVE  Stays(r)
<1>1. TypeOK /\ Shape(r) /\ Child(r)
  BY DEF IInv, Local
<1>2. /\ UNCHANGED <<kind, cancelled, stream, child, chan, got, mcpFile, config, shared, drops>>
      /\ At(r, "reap") /\ child[r] = "exited"
  BY DEF Reap
<1>3. kind[r] = "codex" /\ run[r].error = None /\ run[r].event = None
  BY <1>1, <1>2, Fields DEF Shape, At, Kinds, Rest
<1>4. /\ run' \in [Runs -> Run] /\ \A q \in Runs \ {r} : run'[q] = run[q]
      /\ run'[r].pc = "returned" /\ run'[r].event = None
      /\ run'[r].texts = run[r].texts /\ run'[r].tools = run[r].tools
      /\ run'[r].open = run[r].open /\ run'[r].error = "cancelled"
  BY <1>1, <1>3, ReturnEffect, Literals DEF Reap
<1>5. Shape(r)' /\ Child(r)'
  BY <1>1, <1>2, <1>3, <1>4, Distinct DEF Shape, Child, At, Sends, Rest, Kinds, Errors
<1>6. Only(r)
  BY <1>2, <1>4 DEF Only
<1>7. File'
  BY <1>2, <1>3, <1>6, FileOther DEF At
<1>8. /\ stream' \in [Runs -> [items : Nat, final : BOOLEAN, closed : BOOLEAN]]
      /\ cancelled' \in [Runs -> BOOLEAN] /\ drops' \in 0 .. MaxDrops
      /\ mcpFile' \in Runs \cup {None}
      /\ child' \in [Runs -> {"none", "started", "running", "killed", "exited"}]
      /\ \A q \in Runs \ {r} : child'[q] = child[q] /\ stream'[q] = stream[q]
  BY <1>1, <1>2 DEF TypeOK
<1>9. /\ run[r].pc \notin {"send", "returned", "dropped"} /\ kind[r] # "claude"
      /\ ~ At(r, "send")' /\ run'[r].error # None
      /\ run'[r].error # "failed" /\ run[r].error # "failed"
  BY <1>2, <1>3, <1>4, Distinct DEF At, Errors
<1>10. QED
  BY <1>2, <1>4, <1>5, <1>7, <1>8, <1>9, QuietStep

LEMMA DropStep ==
  ASSUME IInv, NEW r \in Runs, DropRun(r)
  PROVE  Stays(r)
<1>1. TypeOK /\ Shape(r) /\ Child(r)
  BY DEF IInv, Local
<1>2. /\ UNCHANGED <<kind, cancelled, stream, chan, got, mcpFile, config, shared>>
      /\ Active(r) /\ drops' \in 0 .. MaxDrops
  BY <1>1, RunnerAssumptions DEF DropRun, TypeOK
<1>3. /\ run' \in [Runs -> Run] /\ \A q \in Runs \ {r} : run'[q] = run[q]
      /\ run'[r].pc = "dropped"
  BY <1>1, MoveEffect, Literals DEF DropRun
<1>4. /\ child' \in [Runs -> {"none", "started", "running", "killed", "exited"}]
      /\ \A q \in Runs \ {r} : child'[q] = child[q]
      /\ kind[r] = "codex" => child'[r] \in {"none", "killed", "exited"}
      /\ kind[r] # "codex" => child'[r] = child[r]
  BY <1>1 DEF TypeOK, DropRun
<1>5. kind[r] # None
  BY <1>1, <1>2 DEF Shape, Active, At
<1>6. Shape(r)' /\ Child(r)'
  BY <1>1, <1>2, <1>3, <1>4, <1>5 DEF Shape, Child, At, Sends, Rest
<1>7. Only(r)
  BY <1>2, <1>3, <1>4 DEF Only
<1>8. ~ Wrote(r)' /\ At(r, "dropped")' /\ ~ Active(r)'
  BY <1>3 DEF Wrote, At, Sends, Active
<1>9. File'
  BY <1>2, <1>7, <1>8, FileKeeps
<1>10. /\ stream' \in [Runs -> [items : Nat, final : BOOLEAN, closed : BOOLEAN]]
       /\ cancelled' \in [Runs -> BOOLEAN] /\ mcpFile' \in Runs \cup {None}
       /\ \A q \in Runs \ {r} : stream'[q] = stream[q]
  BY <1>1, <1>2 DEF TypeOK
<1>11. QED
  BY <1>2, <1>3, <1>4, <1>6, <1>8, <1>9, <1>10, QuietStep

-----------------------------------------------------------------------------
(* The caller and the processes. *)

(* A step that no run takes. *)
LEMMA OutsideStep ==
  ASSUME IInv, NEW r \in Runs, UNCHANGED <<kind, run, stream, mcpFile, shared>>,
         cancelled' \in [Runs -> BOOLEAN], drops' \in 0 .. MaxDrops,
         config' \in [Runs -> Runs \cup {None, "unread", "late"}],
         \A q \in Runs : \/ config'[q] = config[q]
                         \/ config'[q] \in {"unread", "late", q} \/ q \in shared,
         child' \in [Runs -> {"none", "started", "running", "killed", "exited"}],
         \A q \in Runs \ {r} : child'[q] = child[q],
         child'[r] = "started" => child[r] = "started", Child(r)',
         chan' \in [Runs -> [events : Seq(Events), closed : BOOLEAN]],
         \A q \in Runs \ {r} : chan'[q] = chan[q] /\ got'[q] = got[q],
         Len(chan'[r].events) <= Capacity, got' \in [Runs -> Seq(Events)],
         \/ chan'[r].closed
         \/ chan'[r].closed = chan[r].closed /\ Told(r)' = Told(r)
  PROVE  Stays(r)
<1>1. TypeOK /\ Shape(r) /\ Counts(r) /\ File
  BY DEF IInv, Local
<1>2. Shape(r)'
  BY <1>1 DEF Shape, At, Sends
<1>3. Counts(r)'
  <2>1. CASE chan'[r].closed
    BY <2>1 DEF Counts
  <2>2. CASE chan'[r].closed = chan[r].closed /\ Told(r)' = Told(r)
    <3>1. \A e : Count(r, e)' = Count(r, e) /\ Pending(r, e)' = Pending(r, e)
      BY <2>2 DEF Count, Pending, At
    <3>2. QED
      BY <1>1, <2>2, <3>1 DEF Counts, At
  <2>3. QED
    BY <2>1, <2>2
<1>4. Only(r)
  BY DEF Only
<1>5. File'
  <2>1. Wrote(r)' = Wrote(r) /\ At(r, "dropped")' = At(r, "dropped") /\ Active(r)' = Active(r)
    BY DEF Wrote, Sends, At, Active
  <2>2. kind[r] = "claude" /\ child'[r] = "started" /\ Active(r)' => Wrote(r)'
    BY <1>1, <2>1 DEF File
  <2>3. QED
    BY <1>4, <2>1, <2>2, FileKeeps
<1>6. TypeOK'
  BY <1>1, <1>2, <1>3, <1>4, TypesFrom DEF Local, TypeOK
<1>7. QED
  BY <1>2, <1>3, <1>4, <1>5, <1>6 DEF Stays, Local

LEMMA CallerStep ==
  ASSUME IInv, NEW r \in Runs, FireCancel(r) \/ Receive(r) \/ CloseReceiver(r)
  PROVE  Stays(r)
<1>1. TypeOK /\ Child(r)
  BY DEF IInv, Local
<1>2. /\ UNCHANGED <<kind, run, stream, child, mcpFile, config, shared>>
      /\ cancelled' \in [Runs -> BOOLEAN] /\ drops' \in 0 .. MaxDrops
  <2>1. cancelled \in [Runs -> BOOLEAN] /\ drops \in 0 .. MaxDrops /\ MaxDrops \in Nat
    BY <1>1, RunnerAssumptions DEF TypeOK
  <2>2. CASE FireCancel(r)
    BY <2>1, <2>2 DEF FireCancel
  <2>3. CASE Receive(r)
    BY <2>1, <2>3 DEF Receive
  <2>4. CASE CloseReceiver(r)
    BY <2>1, <2>4 DEF CloseReceiver
  <2>5. QED
    BY <2>2, <2>3, <2>4
<1>3. Child(r)'
  BY <1>1, <1>2 DEF Child, At, Sends
<1>4. /\ chan[r] \in [events : Seq(Events), closed : BOOLEAN] /\ got[r] \in Seq(Events)
      /\ chan \in [Runs -> [events : Seq(Events), closed : BOOLEAN]]
      /\ got \in [Runs -> Seq(Events)] /\ Len(chan[r].events) <= Capacity
      /\ Len(chan[r].events) \in Nat
  BY <1>1 DEF TypeOK
<1>5. /\ chan' \in [Runs -> [events : Seq(Events), closed : BOOLEAN]]
      /\ \A q \in Runs \ {r} : chan'[q] = chan[q] /\ got'[q] = got[q]
      /\ Len(chan'[r].events) <= Capacity /\ got' \in [Runs -> Seq(Events)]
      /\ \/ chan'[r].closed
         \/ chan'[r].closed = chan[r].closed /\ Told(r)' = Told(r)
  <2>1. CASE FireCancel(r)
    BY <1>4, <2>1 DEF FireCancel, Told
  <2>2. CASE Receive(r)
    <3> DEFINE left == Tail(chan[r].events)
               gets == Append(got[r], Head(chan[r].events))
    <3>1. /\ chan' = [chan EXCEPT ![r].events = left] /\ got' = [got EXCEPT ![r] = gets]
          /\ chan[r].events # <<>>
      BY <2>2 DEF Receive
    <3>2. /\ left \in Seq(Events) /\ Len(left) <= Len(chan[r].events) /\ Len(left) \in Nat
          /\ gets \in Seq(Events) /\ gets \o left = Told(r)
      <4>1. chan[r].events \in Seq(Events)
        BY <1>4
      <4>2. /\ left \in Seq(Events) /\ Len(left) <= Len(chan[r].events)
            /\ gets \in Seq(Events) /\ gets \o left = got[r] \o chan[r].events
        BY <1>4, <3>1, <4>1, TakeKeeps
      <4> HIDE DEF left, gets
      <4>3. Len(left) \in Nat
        BY <4>2
      <4>4. QED
        BY <4>2, <4>3 DEF Told
    <3> HIDE DEF left, gets
    <3>3. /\ chan' \in [Runs -> [events : Seq(Events), closed : BOOLEAN]]
          /\ chan'[r].events = left /\ chan'[r].closed = chan[r].closed
          /\ \A q \in Runs \ {r} : chan'[q] = chan[q]
      BY <1>4, <3>1, <3>2
    <3>4. /\ got' \in [Runs -> Seq(Events)] /\ got'[r] = gets
          /\ \A q \in Runs \ {r} : got'[q] = got[q]
      BY <1>4, <3>1, <3>2
    <3>5. Told(r)' = Told(r)
      BY <3>2, <3>3, <3>4 DEF Told
    <3>6. Len(chan'[r].events) <= Capacity
      BY <1>4, <3>2, <3>3, RunnerAssumptions
    <3>7. QED
      BY <3>3, <3>4, <3>5, <3>6
  <2>3. CASE CloseReceiver(r)
    <3>1. /\ chan' = [chan EXCEPT ![r] = [events |-> <<>>, closed |-> TRUE]] /\ got' = got
      BY <2>3 DEF CloseReceiver
    <3>2. /\ <<>> \in Seq(Events) /\ Len(<<>>) = 0
          /\ chan'[r] = [events |-> <<>>, closed |-> TRUE]
      BY <1>4, <3>1
    <3>3. QED
      BY <1>4, <3>1, <3>2, RunnerAssumptions
  <2>4. QED
    BY <2>1, <2>2, <2>3
<1>6. QED
  BY <1>1, <1>2, <1>3, <1>5, OutsideStep DEF TypeOK

LEMMA ProcessStep ==
  ASSUME IInv, NEW r \in Runs, ChildReads(r) \/ ChildExits(r) \/ Dies(r)
  PROVE  Stays(r)
<1>1. TypeOK /\ Child(r) /\ File
  BY DEF IInv, Local
<1>2. UNCHANGED <<kind, run, cancelled, stream, chan, got, mcpFile, shared, drops>>
  BY DEF ChildReads, ChildExits, Dies
<1>3. /\ child' \in [Runs -> {"none", "started", "running", "killed", "exited"}]
      /\ \A q \in Runs \ {r} : child'[q] = child[q]
      /\ \/ child[r] = "started" /\ child'[r] = "running"
         \/ child[r] = "running" /\ child'[r] = "exited" /\ stream[r].closed
         \/ child[r] = "killed" /\ child'[r] = "exited"
  BY <1>1 DEF ChildReads, ChildExits, Dies, TypeOK
<1>4. Child(r)'
  BY <1>1, <1>2, <1>3 DEF Child, At, Sends
<1>5. /\ config' \in [Runs -> Runs \cup {None, "unread", "late"}]
      /\ \A q \in Runs : \/ config'[q] = config[q]
                         \/ config'[q] \in {"unread", "late", q} \/ q \in shared
  <2>1. config \in [Runs -> Runs \cup {None, "unread", "late"}] /\ mcpFile \in Runs \cup {None}
    BY <1>1 DEF TypeOK
  <2>2. CASE config' = config
    BY <2>1, <2>2
  <2>3. CASE ChildReads(r) /\ kind[r] = "claude"
    <3> DEFINE read == IF Active(r) THEN mcpFile ELSE "late"
    <3>1. config' = [config EXCEPT ![r] = read] /\ read \in Runs \cup {None, "unread", "late"}
      BY <2>1, <2>3 DEF ChildReads
    <3>2. r \notin shared => read \in {"late", r}
      BY <1>1, <2>3 DEF File, ChildReads
    <3> HIDE DEF read
    <3>3. QED
      BY <2>1, <3>1, <3>2
  <2>4. QED
    BY <2>2, <2>3 DEF ChildReads, ChildExits, Dies
<1>6. /\ cancelled' \in [Runs -> BOOLEAN] /\ drops' \in 0 .. MaxDrops
      /\ chan' \in [Runs -> [events : Seq(Events), closed : BOOLEAN]]
      /\ Len(chan'[r].events) <= Capacity /\ got' \in [Runs -> Seq(Events)]
  BY <1>1, <1>2 DEF TypeOK
<1>7. chan' = chan /\ got' = got /\ Told(r)' = Told(r)
  BY <1>2 DEF Told
<1>8. QED
  BY <1>2, <1>3, <1>4, <1>5, <1>6, <1>7, OutsideStep

-----------------------------------------------------------------------------
(* The theorems. *)

LEMMA Step ==
  ASSUME IInv, [Next]_vars
  PROVE  IInv'
<1>1. CASE Next
  <2>1. PICK r \in Runs :
          \/ WrongInput(r) \/ NotReady(r) \/ WriteConfig(r) \/ Request(r)
          \/ Works(r) \/ Upstream(r)
          \/ FireCancel(r) \/ Receive(r) \/ CloseReceiver(r) \/ DropRun(r)
          \/ ChildReads(r) \/ ChildExits(r) \/ Dies(r)
    BY <1>1 DEF Next
  <2>2. Stays(r)
    <3>1. CASE WrongInput(r) \/ NotReady(r) \/ WriteConfig(r) \/ Request(r)
      BY <3>1, BeginStep
    <3>2. CASE Works(r)
      BY <3>2, SpawnStep, SpawnFailsStep, SendStep, CleanUpStep, WaitedStep, CancelStep, ReapStep DEF Works
    <3>3. CASE Upstream(r)
      BY <3>3, HelloStep, TextStep, ToolStep, FinalStep, EndStep, StreamFailsStep DEF Upstream
    <3>4. CASE FireCancel(r) \/ Receive(r) \/ CloseReceiver(r)
      BY <3>4, CallerStep
    <3>5. CASE DropRun(r)
      BY <3>5, DropStep
    <3>6. CASE ChildReads(r) \/ ChildExits(r) \/ Dies(r)
      BY <3>6, ProcessStep
    <3>7. QED
      BY <2>1, <3>1, <3>2, <3>3, <3>4, <3>5, <3>6
  <2>3. \A q \in Runs \ {r} : Local(q)'
    BY <2>2, OthersLast DEF Stays
  <2>4. QED
    BY <2>2, <2>3 DEF Stays, IInv
<1>2. CASE UNCHANGED vars
  <2>1. TypeOK' /\ File'
    BY <1>2 DEF vars, IInv, TypeOK, File, Wrote, Sends, At, Active, Cli
  <2>2. ASSUME NEW r \in Runs PROVE Local(r)'
    <3>1. Shape(r) /\ Child(r) /\ Counts(r)
      BY DEF IInv, Local
    <3>2. Shape(r)' /\ Child(r)'
      BY <1>2, <3>1 DEF vars, Shape, Child, Sends, At
    <3>3. \A e : Count(r, e)' = Count(r, e) /\ Pending(r, e)' = Pending(r, e)
      BY <1>2 DEF vars, Count, Told, Pending, At
    <3>4. Counts(r)'
      BY <1>2, <3>1, <3>3 DEF vars, Counts, At
    <3>5. QED
      BY <3>2, <3>4 DEF Local
  <2>3. QED
    BY <2>1, <2>2 DEF IInv
<1>3. QED
  BY <1>1, <1>2

LEMMA Start == Init => IInv
<1>1. SUFFICES ASSUME Init PROVE IInv
  OBVIOUS
<1>2. New \in Run /\ \A r \in Runs : run[r] = New
  <2>1. New \in Run
    BY DEF New, Run, Points, Thens
  <2>2. QED
    BY <1>1, <2>1 DEF Init
<1>3. \A r \in Runs :
        /\ run[r].pc = "new" /\ run[r].texts = 0 /\ run[r].tools = 0 /\ run[r].open = FALSE
        /\ run[r].event = None /\ run[r].error = None
  BY <1>2 DEF New
<1>4. /\ <<>> \in Seq(Events) /\ Len(<<>>) = 0
      /\ \A r \in Runs : chan[r] = [events |-> <<>>, closed |-> FALSE] /\ got[r] = <<>>
  BY <1>1 DEF Init
<1>5. TypeOK
  BY <1>1, <1>2, <1>3, <1>4, RunnerAssumptions DEF Init, TypeOK, At
<1>6. File
  BY <1>1, <1>3 DEF Init, File, Wrote, Sends, At, Active
<1>7. ASSUME NEW r \in Runs PROVE Local(r)
  <2>1. Shape(r)
    BY <1>1, <1>3, <1>5, Fields, Distinct DEF Shape, Sends, At, Kinds
  <2>2. Child(r)
    BY <1>1, <1>3 DEF Init, Child, Sends, At
  <2>3. \A e : Count(r, e) = 0 /\ Pending(r, e) = 0
    <3>1. Told(r) = <<>>
      BY <1>4 DEF Told
    <3>2. \A e : Occurrences(<<>>, e) = {}
      BY DEF Occurrences
    <3>3. QED
      BY <1>3, <3>1, <3>2, FS_EmptySet DEF Count, Pending, At
  <2>4. Counts(r)
    BY <1>3, <2>3, Distinct DEF Counts, At, Errors
  <2>5. QED
    BY <2>1, <2>2, <2>4 DEF Local
<1>8. QED
  BY <1>5, <1>6, <1>7 DEF IInv

LEMMA Always == Spec => []IInv
<1>1. IInv /\ [Next]_vars => IInv'
  BY Step
<1>2. QED
  BY <1>1, Start, PTL DEF Spec

(* Whatever the runners, a run is at one of its points, with a channel no  *)
(* longer than its capacity, an event to put where it puts one, and, while *)
(* it reads from a process, a process to read from.                        *)
THEOREM RunnerTypes == Spec => []TypeOK
<1>1. IInv => TypeOK
  BY DEF IInv
<1>2. QED
  BY <1>1, Always, PTL

(* When a run has returned and nobody closed its channel, its events and    *)
(* its result agree: texts and tools are the ones told, apart from what     *)
(* claude drops at a full channel, and a failure is told exactly once.      *)
THEOREM EventsAgree == Spec => []EventsMatchRun
<1>1. IInv => EventsMatchRun
  <2>1. SUFFICES ASSUME IInv, NEW r \in Runs, At(r, "returned"), ~ chan[r].closed
                 PROVE  /\ Count(r, "Text") <= run[r].texts
                        /\ kind[r] # "claude" =>
                             /\ Count(r, "Text") = run[r].texts
                             /\ Count(r, "ToolUse") = run[r].tools
                        /\ kind[r] = "claude" =>
                             Count(r, "ToolUse") <=
                               run[r].tools + (IF run[r].error = "cancelled" THEN 1 ELSE 0)
                        /\ run[r].error = "failed" => Count(r, "Error") = 1
                        /\ Count(r, "Done") > 0 /\ run[r].error # None =>
                             kind[r] \in {"claude", "openai"}
                        /\ kind[r] = "codex" /\ run[r].error = None => Count(r, "Done") = 1
    BY DEF EventsMatchRun, ResultMatchesEvents, OutcomeIsTold
  <2>2. TypeOK /\ Shape(r) /\ Counts(r)
    BY <2>1 DEF IInv, Local
  <2>3. /\ \A e : Count(r, e) \in Nat /\ Pending(r, e) = 0
        /\ run[r].texts \in Nat /\ run[r].tools \in Nat /\ run[r].open \in BOOLEAN
        /\ kind[r] \in Kinds
    BY <2>1, <2>2, ToldTypes, Fields DEF Pending, At, Shape
  <2>4. /\ kind[r] # "claude" =>
             Count(r, "Text") = run[r].texts /\ Count(r, "ToolUse") = run[r].tools
        /\ Count(r, "Error") = IF run[r].error = "failed" THEN 1 ELSE 0
        /\ kind[r] \in {"codex", "anthropic"} => Count(r, "Done") = 0 \/ run[r].error = None
        /\ kind[r] = "codex" /\ run[r].error = None => Count(r, "Done") = 1
    BY <2>1, <2>2, <2>3 DEF Counts, At
  <2>5. kind[r] = "claude" =>
          /\ Count(r, "Text") <= run[r].texts
          /\ Count(r, "ToolUse") <= run[r].tools + (IF run[r].error = "cancelled" THEN 1 ELSE 0)
    <3>1. CASE run[r].open /\ kind[r] = "claude"
      BY <2>1, <2>2, <2>3, <3>1 DEF Counts, Shape, At
    <3>2. CASE ~ run[r].open /\ kind[r] = "claude"
      BY <2>1, <2>2, <2>3, <3>2 DEF Counts, At
    <3>3. QED
      BY <2>3, <3>1, <3>2
  <2>6. QED
    BY <2>3, <2>4, <2>5 DEF Kinds
<1>2. QED
  BY <1>1, Always, PTL

(* No process of codex is left behind by a run that returned, and a child  *)
(* of claude reads the configuration of its own run unless two overlapped; *)
(* the file is gone when no run is active and none was dropped.            *)
THEOREM ResourcesOwn == Spec => []ResourcesAreOwn
<1>1. IInv => ResourcesAreOwn
  <2>1. SUFFICES ASSUME IInv PROVE ResourcesAreOwn
    OBVIOUS
  <2>2. ChildReaped
    BY <2>1 DEF IInv, Local, Child, ChildReaped
  <2>3. ASSUME \A r \in Runs : ~ Active(r), mcpFile # None
        PROVE  \E r \in Runs : At(r, "dropped")
    <3>1. mcpFile \in Runs /\ (Wrote(mcpFile) \/ At(mcpFile, "dropped"))
      BY <2>1, <2>3 DEF IInv, TypeOK, File
    <3>2. ~ Wrote(mcpFile)
      BY <2>3, <3>1 DEF Wrote, Active, Sends, At
    <3>3. QED
      BY <3>1, <3>2
  <2>4. ConfigIsOwn
    BY <2>1, <2>3 DEF IInv, File, ConfigIsOwn
  <2>5. QED
    BY <2>2, <2>4 DEF ResourcesAreOwn
<1>2. QED
  BY <1>1, Always, PTL
=============================================================================
