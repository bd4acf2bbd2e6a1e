------------------------------- MODULE BytePipes -------------------------------
(***************************************************************************)
(* What a bridge promises of the bytes it moves: one pipe per direction,   *)
(* named after its source.  A source hands over numbered chunks.  Those    *)
(* that are carried arrive in order, each once.  Unless something broke, a *)
(* pipe loses nothing but the chunks before the first it carries.          *)
(***************************************************************************)
EXTENDS Naturals, Sequences

CONSTANT Sources

VARIABLES
  taken,   \* chunks handed over, per source
  carried, \* the chunks that will arrive, in order
  arrived, \* how many of those have
  broken   \* a fault happened

vars == <<taken, carried, arrived, broken>>

Init ==
  /\ taken = [s \in Sources |-> 0]
  /\ carried = [s \in Sources |-> <<>>]
  /\ arrived = [s \in Sources |-> 0]
  /\ broken = FALSE

Carry(s) ==
  /\ taken' = [taken EXCEPT ![s] = @ + 1]
  /\ carried' = [carried EXCEPT ![s] = Append(@, taken[s] + 1)]
  /\ UNCHANGED <<arrived, broken>>

Miss(s) ==
  /\ carried[s] = <<>> \/ broken'
  /\ taken' = [taken EXCEPT ![s] = @ + 1]
  /\ broken => broken'
  /\ UNCHANGED <<carried, arrived>>

Arrive(s) ==
  /\ arrived[s] < Len(carried[s])
  /\ arrived' = [arrived EXCEPT ![s] = @ + 1]
  /\ UNCHANGED <<taken, carried, broken>>

Break == broken' = TRUE /\ UNCHANGED <<taken, carried, arrived>>

Next == Break \/ \E s \in Sources : Carry(s) \/ Miss(s) \/ Arrive(s)

Spec == Init /\ [][Next]_vars
=============================================================================
