----------------------------- MODULE BridgeProofs ------------------------------
(***************************************************************************)
(* The bridge, for any number of chunks and faults: its safety properties, *)
(* and that its two directions implement the pipes of BytePipes.           *)
(*                                                                         *)
(* The argument counts: whatever a side read and did not lose is written   *)
(* to the other socket or on its way to it (Counted), nothing follows the  *)
(* close of a direction (Closed), and a side nobody has heard of has been  *)
(* sent nothing (Unheard).                                                 *)
(***************************************************************************)
EXTENDS Bridge, SequenceTheorems, TLAPS

(* Nothing is sent to a side that is not known. *)
Unheard ==
  faults = 0 => \A s \in Sides : ~ heard[s] => got[s] = <<>> /\ wire[s] = <<>>

(* What is read is lost, on its way or written. *)
Counted ==
  \A s \in Sides : lost[Peer(s)] = {} => Len(got[s]) + Len(wire[s]) = took[Peer(s)]

(* The end of a direction comes after its pump, and after its bytes. *)
Closed ==
  \A s \in Sides :
    /\ eof[s] => up[Peer(s)] = "done" /\ end[Peer(s)] # "open"
    /\ eof[s] /\ end[Peer(s)] = "shut" => took[Peer(s)] = wrote[Peer(s)]
    /\ down[s] = "ended" => eof[s] /\ wire[s] = <<>>

(* An answer means that the agent went on to bridge. *)
Answered ==
  faults = 0 =>
    /\ reply = "ok" => task["dev"] \in {"declaring", "bridging", "ended"}
    /\ task["gw"] \in {"declaring", "bridging", "ended"} => reply = "ok"

IInv == TypeOK /\ Unheard /\ Counted /\ Closed /\ Answered

LEMMA PeerFacts ==
  /\ \A s \in Sides : Peer(s) \in Sides /\ Peer(Peer(s)) = s /\ Peer(s) # s
  /\ \A s, t \in Sides : t = s \/ t = Peer(s)
BY DEF Sides, Peer

LEMMA Initially == Init => IInv
<1> SUFFICES ASSUME Init PROVE IInv
  OBVIOUS
<1>1. TypeOK
  BY BridgeAssumptions DEF Init, TypeOK, Sides
<1>2. Unheard /\ Counted /\ Closed /\ Answered
  BY PeerFacts DEF Init, Unheard, Counted, Closed, Answered, Sides
<1>3. QED
  BY <1>1, <1>2 DEF IInv

(* Steps of the handshake and of the ends touch no pump. *)
LEMMA HandshakeStep ==
  ASSUME IInv, Handshake
  PROVE  IInv'
<1> USE DEF Goto, life, ends, pumps, Fault
<1>0. Sides = {"gw", "dev"} /\ "gw" # "dev"
  BY DEF Sides
<1>1. TypeOK'
  <2>1. CASE Accept
    BY <2>1, <1>0 DEF IInv, TypeOK, Accept
  <2>2. CASE Refuse
    BY <2>2, <1>0 DEF IInv, TypeOK, Refuse
  <2>3. CASE Acknowledge
    BY <2>3, <1>0 DEF IInv, TypeOK, Acknowledge
  <2>4. CASE AcknowledgeFails
    BY <2>4, <1>0, BridgeAssumptions DEF IInv, TypeOK, AcknowledgeFails
  <2>5. CASE ReceiveAck
    BY <2>5, <1>0 DEF IInv, TypeOK, ReceiveAck
  <2>6. CASE GiveUp
    BY <2>6, <1>0 DEF IInv, TypeOK, GiveUp
  <2>7. QED
    BY <2>1, <2>2, <2>3, <2>4, <2>5, <2>6 DEF Handshake
<1>2. UNCHANGED <<heard, ends, pumps>> /\ (faults' = 0 => faults = 0)
  BY DEF IInv, TypeOK, Handshake, Accept, Refuse, Acknowledge, AcknowledgeFails, ReceiveAck, GiveUp
<1>3. Unheard' /\ Counted' /\ Closed'
  BY <1>2 DEF IInv, Unheard, Counted, Closed
<1>4. Answered'
  <2>1. CASE Accept
    BY <2>1, <1>0 DEF IInv, TypeOK, Answered, Accept
  <2>2. CASE Refuse
    BY <2>2, <1>0 DEF IInv, TypeOK, Answered, Refuse
  <2>3. CASE Acknowledge
    BY <2>3, <1>0 DEF IInv, TypeOK, Answered, Acknowledge
  <2>4. CASE AcknowledgeFails
    BY <2>4, <1>0 DEF IInv, TypeOK, Answered, AcknowledgeFails
  <2>5. CASE ReceiveAck
    BY <2>5, <1>0 DEF IInv, TypeOK, Answered, ReceiveAck
  <2>6. CASE GiveUp
    BY <2>6, <1>0 DEF IInv, TypeOK, Answered, GiveUp
  <2>7. QED
    BY <2>1, <2>2, <2>3, <2>4, <2>5, <2>6 DEF Handshake
<1>5. QED
  BY <1>1, <1>3, <1>4 DEF IInv

LEMMA SideStep ==
  ASSUME IInv, NEW s \in Sides,
         Declare(s) \/ DeclareFails(s) \/ Propagate(s) \/ Join(s) \/ Crash(s)
  PROVE  IInv'
<1> USE DEF Goto, life, ends, pumps, Fault
<1>0. Sides = {"gw", "dev"} /\ "gw" # "dev"
  BY DEF Sides
<1>1. CASE Declare(s)
  <2>1. TypeOK'
    BY <1>1, <1>0 DEF IInv, TypeOK, Declare
  <2>2. Unheard' /\ Counted'
    BY <1>1 DEF IInv, Unheard, Counted, Declare
  <2>3. Closed'
    BY <1>1, <1>0, PeerFacts, ZenonT(40) DEF IInv, TypeOK, Closed, Declare
  <2>4. Answered'
    BY <1>1, <1>0 DEF IInv, TypeOK, Answered, Declare
  <2>5. QED
    BY <2>1, <2>2, <2>3, <2>4 DEF IInv
<1>2. CASE DeclareFails(s)
  <2>1. TypeOK'
    BY <1>2, <1>0, BridgeAssumptions DEF IInv, TypeOK, DeclareFails
  <2>2. faults' # 0 /\ UNCHANGED <<heard, ends, pumps>>
    BY <1>2 DEF IInv, TypeOK, DeclareFails
  <2>3. Unheard' /\ Counted' /\ Closed' /\ Answered'
    BY <2>2 DEF IInv, Unheard, Counted, Closed, Answered
  <2>4. QED
    BY <2>1, <2>3 DEF IInv
<1>3. CASE Propagate(s)
  <2>1. TypeOK'
    BY <1>3, <1>0 DEF IInv, TypeOK, Propagate
  <2>2. Unheard' /\ Counted' /\ Closed' /\ Answered'
    <3>1. UNCHANGED <<life, ends, pumps, faults>> /\ \A t \in Sides : heard[t] => heard'[t]
      BY <1>3 DEF IInv, TypeOK, Propagate
    <3>2. Unheard'
      BY <3>1 DEF IInv, Unheard
    <3>3. Counted' /\ Closed' /\ Answered'
      BY <3>1 DEF IInv, Counted, Closed, Answered
    <3>4. QED
      BY <3>2, <3>3
  <2>3. QED
    BY <2>1, <2>2 DEF IInv
<1>4. CASE Join(s)
  <2>1. TypeOK'
    BY <1>4, <1>0 DEF IInv, TypeOK, Join
  <2>2. Unheard' /\ Counted' /\ Closed'
    BY <1>4 DEF IInv, Unheard, Counted, Closed, Join
  <2>3. Answered'
    BY <1>4, <1>0 DEF IInv, TypeOK, Answered, Join
  <2>4. QED
    BY <2>1, <2>2, <2>3 DEF IInv
<1>5. CASE Crash(s)
  <2>1. TypeOK'
    BY <1>5, <1>0, BridgeAssumptions DEF IInv, TypeOK, Crash
  <2>2. faults' # 0
    BY <1>5 DEF IInv, TypeOK, Crash
  <2>3. Unheard' /\ Counted' /\ Answered'
    BY <1>5, <2>2 DEF IInv, Unheard, Counted, Answered, Crash
  <2>4. Closed'
    BY <1>5, <1>0, PeerFacts DEF IInv, TypeOK, Closed, Crash
  <2>5. QED
    BY <2>1, <2>3, <2>4 DEF IInv
<1>6. QED
  BY <1>1, <1>2, <1>3, <1>4, <1>5

LEMMA EndStep ==
  ASSUME IInv, NEW s \in Sides, Supply(s) \/ Close(s)
  PROVE  IInv'
<1> USE DEF life, ends, pumps
<1>0. Sides = {"gw", "dev"} /\ "gw" # "dev"
  BY DEF Sides
<1>1. CASE Supply(s)
  <2>1. TypeOK'
    BY <1>1, <1>0, BridgeAssumptions DEF IInv, TypeOK, Supply
  <2>2. Unheard' /\ Counted' /\ Answered'
    BY <1>1 DEF IInv, Unheard, Counted, Answered, Supply
  <2>3. Closed'
    BY <1>1, <1>0, PeerFacts DEF IInv, TypeOK, Closed, Supply
  <2>4. QED
    BY <2>1, <2>2, <2>3 DEF IInv
<1>2. CASE Close(s)
  <2>1. TypeOK'
    BY <1>2, <1>0 DEF IInv, TypeOK, Close
  <2>2. Unheard' /\ Counted' /\ Answered'
    BY <1>2 DEF IInv, Unheard, Counted, Answered, Close
  <2>3. Closed'
    BY <1>2, <1>0, PeerFacts DEF IInv, TypeOK, Closed, Close
  <2>4. QED
    BY <2>1, <2>2, <2>3 DEF IInv
<1>3. QED
  BY <1>1, <1>2

LEMMA UpStep ==
  ASSUME IInv, NEW s \in Sides, UpPump(s)
  PROVE  IInv'
<1> USE DEF life, ends, Fault
<1> DEFINE p == Peer(s)
<1>0. /\ p \in Sides /\ Peer(p) = s /\ p # s
      /\ \A t \in Sides : t = s \/ t = p
  BY PeerFacts
<1> HIDE DEF p
<1>1. CASE Read(s)
  <2>1. took[s] < wrote[s] /\ up[s] = "run" /\ took' = [took EXCEPT ![s] = @ + 1]
    BY <1>1 DEF Read
  <2>2. UNCHANGED <<life, heard, ends, up, down, eof, got>>
    BY <1>1 DEF Read
  <2>3. \/ /\ heard[p]
           /\ wire' = [wire EXCEPT ![p] = Append(@, took[s] + 1)]
           /\ UNCHANGED <<lost, faults>>
        \/ /\ IF heard[p] THEN Fault ELSE UNCHANGED faults
           /\ lost' = [lost EXCEPT ![s] = @ \cup {"chunk"}]
           /\ UNCHANGED wire
    BY <1>1 DEF Read, PutChunk, p
  <2>4. wire' \in [Sides -> Seq(Nat)] /\ lost' \in [Sides -> SUBSET {"chunk", "end"}]
    <3>1. wire[p] \in Seq(Nat) /\ took[s] + 1 \in Nat /\ lost[s] \in SUBSET {"chunk", "end"}
      BY <1>0 DEF IInv, TypeOK
    <3>2. Append(wire[p], took[s] + 1) \in Seq(Nat)
      BY <3>1, AppendProperties
    <3>3. lost[s] \cup {"chunk"} \in SUBSET {"chunk", "end"}
      BY <3>1
    <3>4. [wire EXCEPT ![p] = Append(@, took[s] + 1)] \in [Sides -> Seq(Nat)]
      BY <3>2 DEF IInv, TypeOK
    <3>5. [lost EXCEPT ![s] = @ \cup {"chunk"}] \in [Sides -> SUBSET {"chunk", "end"}]
      BY <3>3 DEF IInv, TypeOK
    <3>6. QED
      BY <2>3, <3>4, <3>5 DEF IInv, TypeOK
  <2>5. took' \in [Sides -> Nat] /\ \A t \in Sides : took'[t] <= wrote[t]
    BY <2>1 DEF IInv, TypeOK
  <2>6. faults' \in 0..MaxFaults /\ (faults' = 0 => faults = 0)
    BY <2>3, BridgeAssumptions DEF IInv, TypeOK
  <2>7. TypeOK'
    BY <2>2, <2>4, <2>5, <2>6 DEF IInv, TypeOK
  <2>8. Unheard'
    BY <2>2, <2>3, <2>6, <1>0 DEF IInv, TypeOK, Unheard
  <2>9. Counted'
    <3>1. lost'[s] = {} => Len(got'[p]) + Len(wire'[p]) = took'[s]
      <4>1. ASSUME lost'[s] = {}
            PROVE  wire' = [wire EXCEPT ![p] = Append(@, took[s] + 1)] /\ lost[s] = {}
        <5>1. ASSUME lost' = [lost EXCEPT ![s] = @ \cup {"chunk"}]
              PROVE  FALSE
          <6>1. lost'[s] = lost[s] \cup {"chunk"}
            BY <5>1 DEF IInv, TypeOK
          <6>2. QED
            BY <4>1, <6>1
        <5>2. QED
          BY <4>1, <5>1, <2>3
      <4>2. ASSUME wire' = [wire EXCEPT ![p] = Append(@, took[s] + 1)]
            PROVE  Len(wire'[p]) = Len(wire[p]) + 1
        <5>1. wire[p] \in Seq(Nat) /\ took[s] + 1 \in Nat
          BY <1>0 DEF IInv, TypeOK
        <5>2. Len(Append(wire[p], took[s] + 1)) = Len(wire[p]) + 1
          BY <5>1, AppendProperties
        <5>3. wire'[p] = Append(wire[p], took[s] + 1)
          BY <4>2, <1>0 DEF IInv, TypeOK
        <5>4. QED
          BY <5>2, <5>3
      <4>3. Len(wire[p]) \in Nat /\ Len(got[p]) \in Nat /\ took[s] \in Nat
        BY <1>0 DEF IInv, TypeOK
      <4>4. lost[s] = {} => Len(got[p]) + Len(wire[p]) = took[s]
        BY <1>0 DEF IInv, Counted
      <4>5. took'[s] = took[s] + 1 /\ got' = got
        BY <2>1, <2>2 DEF IInv, TypeOK
      <4>6. \A a, b, c \in Nat : a + b = c => a + (b + 1) = c + 1
        OBVIOUS
      <4>7. SUFFICES ASSUME lost'[s] = {} PROVE Len(got'[p]) + Len(wire'[p]) = took'[s]
        OBVIOUS
      <4>8. Len(wire'[p]) = Len(wire[p]) + 1 /\ Len(got'[p]) = Len(got[p])
        BY <4>1, <4>2, <4>5, <4>7
      <4>9. Len(got[p]) + Len(wire[p]) = took[s]
        BY <4>1, <4>4, <4>7
      <4>10. Len(got[p]) + (Len(wire[p]) + 1) = took[s] + 1
        BY <4>3, <4>6, <4>9, ZenonT(40)
      <4>11. QED
        BY <4>5, <4>8, <4>10
    <3>2. lost'[p] = lost[p] /\ wire'[s] = wire[s] /\ took'[p] = took[p] /\ got' = got
      BY <2>1, <2>2, <2>3, <1>0 DEF IInv, TypeOK
    <3>3. lost'[p] = {} => Len(got'[s]) + Len(wire'[s]) = took'[p]
      BY <3>2, <1>0 DEF IInv, Counted, p
    <3>4. QED
      BY <3>1, <3>3, <1>0 DEF Counted, p
  <2>10. Closed'
    <3>1. ~ eof[p] /\ eof' = eof /\ down' = down
      BY <2>1, <2>2, <1>0 DEF IInv, Closed
    <3>2. wire'[s] = wire[s] /\ took'[p] = took[p] /\ up' = up /\ end' = end /\ wrote' = wrote
      BY <2>1, <2>2, <2>3, <1>0 DEF IInv, TypeOK
    <3>3. \A t \in Sides : eof[t] \/ down[t] = "ended" => t = s
      BY <3>1, <1>0 DEF IInv, Closed
    <3>4. QED
      BY <3>1, <3>2, <3>3, <1>0 DEF IInv, Closed, p
  <2>11. Answered'
    BY <2>2, <2>6 DEF IInv, Answered
  <2>12. QED
    BY <2>7, <2>8, <2>9, <2>10, <2>11 DEF IInv
<1>2. CASE ReadPutFails(s)
  <2>1. TypeOK'
    BY <1>2, BridgeAssumptions DEF IInv, TypeOK, ReadPutFails
  <2>2. Unheard' /\ Answered'
    BY <1>2 DEF IInv, TypeOK, Unheard, Answered, ReadPutFails
  <2>3. Counted'
    BY <1>2, <1>0, PeerFacts DEF IInv, TypeOK, Counted, ReadPutFails
  <2>4. Closed'
    BY <1>2, <1>0, PeerFacts DEF IInv, TypeOK, Closed, ReadPutFails
  <2>5. QED
    BY <2>1, <2>2, <2>3, <2>4 DEF IInv
<1>3. CASE ReadEnd(s)
  <2>1. up[s] = "run" /\ EndOfInput(s) /\ up' = [up EXCEPT ![s] = "done"]
    BY <1>3 DEF ReadEnd
  <2>2. UNCHANGED <<life, heard, ends, took, down, wire, got>>
    BY <1>3 DEF ReadEnd
  <2>3. \/ eof' = [eof EXCEPT ![p] = TRUE] /\ UNCHANGED <<lost, faults>>
        \/ /\ Fault \/ UNCHANGED faults
           /\ lost' = [lost EXCEPT ![s] = @ \cup {"end"}] /\ UNCHANGED eof
    BY <1>3 DEF ReadEnd, PutEnd, p
  <2>4. faults' \in 0..MaxFaults /\ (faults' = 0 => faults = 0)
    BY <2>3, BridgeAssumptions DEF IInv, TypeOK
  <2>5. eof' \in [Sides -> BOOLEAN] /\ lost' \in [Sides -> SUBSET {"chunk", "end"}]
    <3>1. [eof EXCEPT ![p] = TRUE] \in [Sides -> BOOLEAN]
      BY DEF IInv, TypeOK
    <3>2. lost[s] \cup {"end"} \in SUBSET {"chunk", "end"}
      BY DEF IInv, TypeOK
    <3>3. [lost EXCEPT ![s] = @ \cup {"end"}] \in [Sides -> SUBSET {"chunk", "end"}]
      BY <3>2 DEF IInv, TypeOK
    <3>4. QED
      BY <2>3, <3>1, <3>3 DEF IInv, TypeOK
  <2>6. TypeOK'
    BY <2>1, <2>2, <2>4, <2>5 DEF IInv, TypeOK
  <2>7. Unheard' /\ Answered'
    BY <2>2, <2>4 DEF IInv, Unheard, Answered
  <2>8. \A t \in Sides : lost'[t] = {} => lost[t] = {}
    <3>1. ASSUME lost' = [lost EXCEPT ![s] = @ \cup {"end"}], NEW t \in Sides, lost'[t] = {}
          PROVE  lost[t] = {}
      <4>1. lost'[t] = lost[t] \/ lost'[t] = lost[t] \cup {"end"}
        BY <3>1 DEF IInv, TypeOK
      <4>2. QED
        BY <3>1, <4>1
    <3>2. QED
      BY <2>3, <3>1
  <2>9. Counted'
    BY <2>2, <2>8, PeerFacts DEF IInv, Counted
  <2>10. Closed'
    <3>1. eof'[s] = eof[s]
      BY <2>3, <1>0 DEF IInv, TypeOK
    <3>2. up'[p] = up[p] /\ up'[s] = "done"
      BY <2>1, <1>0 DEF IInv, TypeOK
    <3>3. end[s] # "open" /\ (end[s] = "shut" => took[s] = wrote[s])
      BY <2>1 DEF EndOfInput
    <3>4. down[p] = "ended" => eof'[p] /\ wire[p] = <<>>
      BY <2>3, <1>0 DEF IInv, TypeOK, Closed
    <3>5. QED
      BY <2>2, <3>1, <3>2, <3>3, <3>4, <1>0 DEF IInv, Closed, p
  <2>11. QED
    BY <2>6, <2>7, <2>9, <2>10 DEF IInv
<1>4. QED
  BY <1>1, <1>2, <1>3 DEF UpPump

LEMMA DownStep ==
  ASSUME IInv, NEW s \in Sides, DownPump(s)
  PROVE  IInv'
<1> USE DEF life, ends
<1>1. CASE Write(s)
  <2>1. /\ wire[s] # <<>> /\ down[s] = "run"
        /\ got' = [got EXCEPT ![s] = Append(@, Head(wire[s]))]
        /\ wire' = [wire EXCEPT ![s] = Tail(@)]
        /\ UNCHANGED <<life, heard, ends, took, up, down, eof, lost, faults>>
    BY <1>1 DEF Write
  <2>2. Head(wire[s]) \in Nat /\ Tail(wire[s]) \in Seq(Nat) /\ Len(wire[s]) \in Nat
        /\ Len(Tail(wire[s])) = Len(wire[s]) - 1
    BY <2>1, HeadTailProperties DEF IInv, TypeOK
  <2>3. got[s] \in Seq(Nat) /\ Len(Append(got[s], Head(wire[s]))) = Len(got[s]) + 1
        /\ Append(got[s], Head(wire[s])) \in Seq(Nat) /\ Len(got[s]) \in Nat
    BY <2>2 DEF IInv, TypeOK
  <2>4. wire' \in [Sides -> Seq(Nat)] /\ got' \in [Sides -> Seq(Nat)]
    BY <2>1, <2>2, <2>3 DEF IInv, TypeOK
  <2>5. TypeOK'
    BY <2>1, <2>4 DEF IInv, TypeOK
  <2>6. Unheard' /\ Answered'
    BY <2>1 DEF IInv, TypeOK, Unheard, Answered
  <2>7. Counted'
    <3>1. Len(got'[s]) = Len(got[s]) + 1 /\ Len(wire'[s]) = Len(wire[s]) - 1
      BY <2>1, <2>2, <2>3 DEF IInv, TypeOK
    <3>2. \A t \in Sides : t # s => got'[t] = got[t] /\ wire'[t] = wire[t]
      BY <2>1 DEF IInv, TypeOK
    <3>3. Len(got'[s]) + Len(wire'[s]) = Len(got[s]) + Len(wire[s])
      <4>1. Len(wire[s]) \in Nat /\ Len(got[s]) \in Nat
        BY <2>2, <2>3
      <4>2. \A a, b \in Nat : (a + 1) + (b - 1) = a + b
        OBVIOUS
      <4>3. (Len(got[s]) + 1) + (Len(wire[s]) - 1) = Len(got[s]) + Len(wire[s])
        BY <4>1, <4>2
      <4>4. QED
        BY <3>1, <4>3
    <3>4. QED
      BY <2>1, <3>2, <3>3 DEF IInv, Counted
  <2>8. Closed'
    <3>1. \A t \in Sides : down[t] = "ended" => t # s
      BY <2>1
    <3>2. \A t \in Sides : t # s => wire'[t] = wire[t]
      BY <2>1 DEF IInv, TypeOK
    <3>3. QED
      BY <2>1, <3>1, <3>2 DEF IInv, Closed
  <2>9. QED
    BY <2>5, <2>6, <2>7, <2>8 DEF IInv
<1>2. CASE WriteFails(s)
  <2>1. TypeOK'
    BY <1>2 DEF IInv, TypeOK, WriteFails
  <2>2. Unheard' /\ Counted' /\ Closed' /\ Answered'
    BY <1>2, ZenonT(40) DEF IInv, TypeOK, Unheard, Counted, Closed, Answered, WriteFails
  <2>3. QED
    BY <2>1, <2>2 DEF IInv
<1>3. CASE WriteEnd(s)
  <2>1. TypeOK'
    BY <1>3 DEF IInv, TypeOK, WriteEnd
  <2>2. Unheard' /\ Counted' /\ Closed' /\ Answered'
    BY <1>3 DEF IInv, TypeOK, Unheard, Counted, Closed, Answered, WriteEnd
  <2>3. QED
    BY <2>1, <2>2 DEF IInv
<1>4. QED
  BY <1>1, <1>2, <1>3 DEF DownPump

LEMMA NextStep ==
  ASSUME IInv, [Next]_vars
  PROVE  IInv'
<1>1. CASE UNCHANGED vars
  BY <1>1 DEF vars, life, ends, pumps, IInv, TypeOK, Unheard, Counted, Closed, Answered
<1>2. CASE Handshake
  BY <1>2, HandshakeStep
<1>3. ASSUME NEW s \in Sides,
             Declare(s) \/ DeclareFails(s) \/ Propagate(s) \/ Join(s) \/ Crash(s)
      PROVE  IInv'
  BY <1>3, SideStep
<1>4. ASSUME NEW s \in Sides, Supply(s) \/ Close(s)
      PROVE  IInv'
  BY <1>4, EndStep
<1>5. ASSUME NEW s \in Sides, UpPump(s)
      PROVE  IInv'
  BY <1>5, UpStep
<1>6. ASSUME NEW s \in Sides, DownPump(s)
      PROVE  IInv'
  BY <1>6, DownStep
<1>7. QED
  BY <1>1, <1>2, <1>3, <1>4, <1>5, <1>6 DEF Next

(* The invariant that carries the safety properties of the bridge. *)
THEOREM Invariance == Spec => []IInv
<1>1. Init => IInv
  BY Initially
<1>2. IInv /\ [Next]_vars => IInv'
  BY NextStep
<1>3. QED
  BY <1>1, <1>2, PTL DEF Spec

(* The state of a bridge is well typed, and its pumps live within it. *)
THEOREM BridgeTypes == Spec => []TypeOK
BY Invariance, PTL DEF IInv

LEMMA IInvImpliesComplete == IInv => NoSilentTruncation
<1> SUFFICES ASSUME IInv, NEW s \in Sides,
                    down[s] = "ended", end[Peer(s)] = "shut", lost[Peer(s)] = {}
             PROVE  Len(got[s]) = wrote[Peer(s)]
  BY DEF NoSilentTruncation
<1>1. eof[s] /\ wire[s] = <<>>
  BY DEF IInv, Closed
<1>2. took[Peer(s)] = wrote[Peer(s)]
  BY <1>1 DEF IInv, Closed
<1>3. Len(got[s]) + Len(wire[s]) = took[Peer(s)]
  BY DEF IInv, Counted
<1>4. Len(wire[s]) = 0 /\ Len(got[s]) \in Nat
  BY <1>1 DEF IInv, TypeOK
<1>5. QED
  BY <1>2, <1>3, <1>4

(* Whoever is told the end of a stream has all of it. *)
THEOREM NothingTruncated == Spec => []NoSilentTruncation
BY Invariance, IInvImpliesComplete, PTL

LEMMA IInvImpliesPartner == IInv => GatewayNeverBridgesAlone
BY DEF IInv, Answered, GatewayNeverBridgesAlone

(* An acknowledged connection has a bridge at the device, unless it broke. *)
THEOREM NeverAlone == Spec => []GatewayNeverBridgesAlone
BY Invariance, IInvImpliesPartner, PTL

-----------------------------------------------------------------------------
(* The pipes. *)

LEMMA AppendToConcat ==
  ASSUME NEW g \in Seq(Nat), NEW w \in Seq(Nat), NEW n \in Nat
  PROVE  g \o Append(w, n) = Append(g \o w, n)
<1>1. Append(w, n) = w \o <<n>> /\ <<n>> \in Seq(Nat)
  BY AppendIsConcat
<1>2. g \o w \in Seq(Nat)
  BY ConcatProperties
<1>3. Append(g \o w, n) = (g \o w) \o <<n>>
  BY <1>2, AppendIsConcat
<1>4. (g \o w) \o <<n>> = g \o (w \o <<n>>)
  BY <1>1, ConcatAssociative, SMTT(30)
<1>5. QED
  BY <1>1, <1>3, <1>4

LEMMA HeadThenTail ==
  ASSUME NEW w \in Seq(Nat), w # <<>>
  PROVE  w = <<Head(w)>> \o Tail(w)
<1>1. Head(w) \in Nat /\ Tail(w) \in Seq(Nat) /\ Len(Tail(w)) = Len(w) - 1
      /\ \A i \in 1 .. Len(Tail(w)) : Tail(w)[i] = w[i + 1]
  BY HeadTailProperties
<1>2. <<Head(w)>> \in Seq(Nat) /\ Len(<<Head(w)>>) = 1 /\ <<Head(w)>>[1] = Head(w)
  BY <1>1
<1>3. /\ <<Head(w)>> \o Tail(w) \in Seq(Nat)
      /\ Len(<<Head(w)>> \o Tail(w)) = 1 + Len(Tail(w))
      /\ \A i \in 1 .. 1 + Len(Tail(w)) : (<<Head(w)>> \o Tail(w))[i] =
              IF i <= 1 THEN <<Head(w)>>[i] ELSE Tail(w)[i - 1]
  BY <1>1, <1>2, ConcatProperties
<1>4. Len(w) \in Nat /\ Head(w) = w[1] /\ Len(<<Head(w)>> \o Tail(w)) = Len(w)
  BY <1>1, <1>3
<1>5. ASSUME NEW i \in 1 .. Len(w)
      PROVE  (<<Head(w)>> \o Tail(w))[i] = w[i]
  <2>1. CASE i = 1
    BY <2>1, <1>1, <1>2, <1>3, <1>4
  <2>2. CASE i > 1
    <3>1. i - 1 \in 1 .. Len(Tail(w)) /\ i \in 1 .. 1 + Len(Tail(w)) /\ ~ (i <= 1)
          /\ (i - 1) + 1 = i
      BY <2>2, <1>1, <1>4
    <3>2. (<<Head(w)>> \o Tail(w))[i] = Tail(w)[i - 1] /\ Tail(w)[i - 1] = w[(i - 1) + 1]
      BY <3>1, <1>1, <1>3
    <3>3. QED
      BY <3>1, <3>2
  <2>3. QED
    BY <2>1, <2>2
<1>6. QED
  BY <1>3, <1>4, <1>5, SeqEqual

LEMMA MoveHead ==
  ASSUME NEW g \in Seq(Nat), NEW w \in Seq(Nat), w # <<>>
  PROVE  Append(g, Head(w)) \o Tail(w) = g \o w
<1>1. Head(w) \in Nat /\ Tail(w) \in Seq(Nat) /\ <<Head(w)>> \in Seq(Nat)
  BY HeadTailProperties
<1>2. Append(g, Head(w)) = g \o <<Head(w)>>
  BY <1>1, AppendIsConcat
<1>3. (g \o <<Head(w)>>) \o Tail(w) = g \o (<<Head(w)>> \o Tail(w))
  BY <1>1, ConcatAssociative, SMTT(30)
<1>4. QED
  BY <1>2, <1>3, HeadThenTail

(* A step that moves no byte. *)
LEMMA StillStep ==
  ASSUME UNCHANGED <<took, wire, got>>, faults \in Nat, Fault \/ UNCHANGED faults
  PROVE  [Pipes!Next]_Pipes!vars
<1>1. CASE UNCHANGED faults
  BY <1>1 DEF Pipes!vars
<1>2. CASE Fault
  BY <1>2 DEF Fault, Pipes!Next, Pipes!Break
<1>3. QED
  BY <1>1, <1>2

LEMMA CarryStep ==
  ASSUME IInv, NEW s \in Sides,
         took' = [took EXCEPT ![s] = @ + 1],
         wire' = [wire EXCEPT ![Peer(s)] = Append(@, took[s] + 1)],
         UNCHANGED <<got, faults>>
  PROVE  Pipes!Next
<1>1. /\ Peer(s) \in Sides
      /\ \A t \in Sides : Peer(t) \in Sides /\ (t # s => Peer(t) # Peer(s))
  BY PeerFacts
<1>2. got[Peer(s)] \in Seq(Nat) /\ wire[Peer(s)] \in Seq(Nat) /\ took[s] + 1 \in Nat
  BY <1>1 DEF IInv, TypeOK
<1>3. wire'[Peer(s)] = Append(wire[Peer(s)], took[s] + 1)
  BY <1>1 DEF IInv, TypeOK
<1>4. got[Peer(s)] \o wire'[Peer(s)] = Append(got[Peer(s)] \o wire[Peer(s)], took[s] + 1)
  BY <1>2, <1>3, AppendToConcat
<1>5. \A t \in Sides : t # s => wire'[Peer(t)] = wire[Peer(t)]
  BY <1>1 DEF IInv, TypeOK
<1>6. [t \in Sides |-> got'[Peer(t)] \o wire'[Peer(t)]]
        = [[t \in Sides |-> got[Peer(t)] \o wire[Peer(t)]]
             EXCEPT ![s] = Append(@, took[s] + 1)]
  <2> DEFINE old(t) == got[Peer(t)] \o wire[Peer(t)]
  <2> DEFINE new(t) == got'[Peer(t)] \o wire'[Peer(t)]
  <2>1. got' = got
    OBVIOUS
  <2>2. new(s) = Append(old(s), took[s] + 1)
    BY <1>4, <2>1
  <2>3. ASSUME NEW t \in Sides, t # s
        PROVE  new(t) = old(t)
    BY <1>5, <2>1, <2>3
  <2> HIDE DEF old, new
  <2>4. [t \in Sides |-> new(t)]
          = [[t \in Sides |-> old(t)] EXCEPT ![s] = Append(@, took[s] + 1)]
    BY <2>2, <2>3
  <2>5. QED
    BY <2>4 DEF old, new
<1>7. Pipes!Carry(s)
  BY <1>6 DEF Pipes!Carry
<1>8. QED
  BY <1>7 DEF Pipes!Next

LEMMA MissStep ==
  ASSUME IInv, NEW s \in Sides,
         took' = [took EXCEPT ![s] = @ + 1],
         UNCHANGED <<wire, got>>,
         Fault \/ (~ heard[Peer(s)] /\ UNCHANGED faults)
  PROVE  Pipes!Next
<1>1. faults \in Nat
  BY BridgeAssumptions DEF IInv, TypeOK
<1>2. (faults > 0 => faults' > 0) /\ (Fault => faults' > 0)
  BY <1>1 DEF Fault
<1>3. ASSUME ~ (faults' > 0)
      PROVE  got[Peer(s)] \o wire[Peer(s)] = <<>>
  <2>1. ~ heard[Peer(s)] /\ faults = 0
    BY <1>1, <1>2, <1>3
  <2>2. got[Peer(s)] = <<>> /\ wire[Peer(s)] = <<>>
    BY <2>1, PeerFacts DEF IInv, Unheard
  <2>3. <<>> \o <<>> = <<>>
    BY ConcatEmptySeq, <<>> \in Seq(Nat)
  <2>4. QED
    BY <2>2, <2>3
<1>4. [t \in Sides |-> got[Peer(t)] \o wire[Peer(t)]][s] = got[Peer(s)] \o wire[Peer(s)]
  OBVIOUS
<1>5. Pipes!Miss(s)
  BY <1>2, <1>3, <1>4 DEF Pipes!Miss
<1>6. QED
  BY <1>5 DEF Pipes!Next

LEMMA ArriveStep ==
  ASSUME IInv, NEW s \in Sides, Write(s)
  PROVE  Pipes!Next
<1>1. /\ wire[s] # <<>>
      /\ got' = [got EXCEPT ![s] = Append(@, Head(wire[s]))]
      /\ wire' = [wire EXCEPT ![s] = Tail(@)]
      /\ UNCHANGED <<took, faults>>
  BY DEF Write
<1>2. got[s] \in Seq(Nat) /\ wire[s] \in Seq(Nat) /\ Head(wire[s]) \in Nat
  BY <1>1, HeadTailProperties DEF IInv, TypeOK
<1>3. got'[s] = Append(got[s], Head(wire[s])) /\ wire'[s] = Tail(wire[s])
  BY <1>1 DEF IInv, TypeOK
<1>4. got'[s] \o wire'[s] = got[s] \o wire[s]
  BY <1>1, <1>2, <1>3, MoveHead
<1>5. \A t \in Sides : t # s => got'[t] = got[t] /\ wire'[t] = wire[t]
  BY <1>1 DEF IInv, TypeOK
<1>6. \A t \in Sides : got'[Peer(t)] \o wire'[Peer(t)] = got[Peer(t)] \o wire[Peer(t)]
  BY <1>4, <1>5, PeerFacts
<1>7. Len(got[s] \o wire[s]) = Len(got[s]) + Len(wire[s]) /\ Len(wire[s]) > 0
      /\ Len(got[s]) \in Nat /\ Len(wire[s]) \in Nat
  BY <1>1, <1>2, ConcatProperties, EmptySeq
<1>8. Len(got[s]) < Len(got[s] \o wire[s])
  <2>1. \A a, b \in Nat : b > 0 => a < a + b
    OBVIOUS
  <2>2. Len(got[s]) < Len(got[s]) + Len(wire[s])
    BY <1>7, <2>1
  <2>3. QED
    BY <1>7, <2>2
<1>9. Len(got'[s]) = Len(got[s]) + 1
  BY <1>2, <1>3, AppendProperties
<1>10. Peer(s) \in Sides /\ Peer(Peer(s)) = s
       /\ \A t \in Sides : t # Peer(s) => Peer(t) # s
  BY PeerFacts
<1>11. [t \in Sides |-> Len(got'[Peer(t)])]
         = [[t \in Sides |-> Len(got[Peer(t)])] EXCEPT ![Peer(s)] = @ + 1]
  <2> DEFINE old == [t \in Sides |-> Len(got[Peer(t)])]
  <2> DEFINE new == [t \in Sides |-> Len(got'[Peer(t)])]
  <2>1. new[Peer(s)] = old[Peer(s)] + 1
    BY <1>9, <1>10
  <2>2. \A t \in Sides : t # Peer(s) => new[t] = old[t]
    BY <1>5, <1>10, PeerFacts
  <2>3. new = [t \in Sides |-> new[t]] /\ old = [t \in Sides |-> old[t]]
    OBVIOUS
  <2> HIDE DEF old, new
  <2>4. new = [old EXCEPT ![Peer(s)] = @ + 1]
    BY <2>1, <2>2, <2>3, <1>10
  <2>5. QED
    BY <2>4 DEF old, new
<1>12. Pipes!Arrive(Peer(s))
  BY <1>1, <1>6, <1>8, <1>10, <1>11, ZenonT(40) DEF Pipes!Arrive
<1>13. QED
  BY <1>10, <1>12 DEF Pipes!Next

LEMMA PipesStep ==
  ASSUME IInv, [Next]_vars
  PROVE  [Pipes!Next]_Pipes!vars
<1>1. faults \in Nat
  BY BridgeAssumptions DEF IInv, TypeOK
<1>2. CASE UNCHANGED vars
  BY <1>1, <1>2, StillStep DEF vars, pumps
<1>3. CASE Handshake
  BY <1>1, <1>3, StillStep
  DEF Handshake, Accept, Refuse, Acknowledge, AcknowledgeFails, ReceiveAck, GiveUp, pumps
<1>4. ASSUME NEW s \in Sides,
             \/ Declare(s) \/ DeclareFails(s) \/ Propagate(s) \/ Supply(s) \/ Close(s)
             \/ Join(s) \/ Crash(s) \/ ReadEnd(s) \/ WriteFails(s) \/ WriteEnd(s)
      PROVE  [Pipes!Next]_Pipes!vars
  <2>1. UNCHANGED <<took, wire, got>> /\ (Fault \/ UNCHANGED faults)
    BY <1>4 DEF Declare, DeclareFails, Propagate, Supply, Close, Join, Crash, ReadEnd,
                PutEnd, WriteFails, WriteEnd, pumps
  <2>2. QED
    BY <1>1, <2>1, StillStep
<1>5. ASSUME NEW s \in Sides, Read(s)
      PROVE  Pipes!Next
  <2>1. took' = [took EXCEPT ![s] = @ + 1] /\ got' = got
    BY <1>5 DEF Read
  <2>2. CASE wire' = [wire EXCEPT ![Peer(s)] = Append(@, took[s] + 1)] /\ UNCHANGED faults
    BY <2>1, <2>2, CarryStep
  <2>3. CASE wire' = wire /\ (Fault \/ (~ heard[Peer(s)] /\ UNCHANGED faults))
    BY <2>1, <2>3, MissStep
  <2>4. QED
    BY <1>5, <2>2, <2>3 DEF Read, PutChunk
<1>6. ASSUME NEW s \in Sides, ReadPutFails(s)
      PROVE  Pipes!Next
  BY <1>6, MissStep DEF ReadPutFails
<1>7. ASSUME NEW s \in Sides, Write(s)
      PROVE  Pipes!Next
  BY <1>7, ArriveStep
<1>8. QED
  BY <1>2, <1>3, <1>4, <1>5, <1>6, <1>7 DEF Next, UpPump, DownPump

LEMMA PipesInit == Init => Pipes!Init
<1> SUFFICES ASSUME Init PROVE Pipes!Init
  OBVIOUS
<1>1. \A t \in Sides : got[Peer(t)] = <<>> /\ wire[Peer(t)] = <<>>
  BY PeerFacts DEF Init
<1>2. <<>> \o <<>> = <<>> /\ Len(<<>>) = 0
  BY ConcatEmptySeq, <<>> \in Seq(Nat)
<1>3. QED
  BY <1>1, <1>2 DEF Init, Pipes!Init

(* Each direction of the bridge is a pipe: in order, each chunk once, and   *)
(* without a fault complete from the first chunk that is carried.           *)
THEOREM BridgeImplementsPipes == Spec => ImplementsPipes
<1>1. Init => Pipes!Init
  BY PipesInit
<1>2. IInv /\ [Next]_vars => [Pipes!Next]_Pipes!vars
  BY PipesStep
<1>3. QED
  BY <1>1, <1>2, Invariance, PTL DEF Spec, ImplementsPipes, Pipes!Spec
=============================================================================
