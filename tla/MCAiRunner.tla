------------------------------ MODULE MCAiRunner -------------------------------
(* Instance for TLC: one run, of each runner in turn, or two of claude at    *)
(* once, which share a file.                                                *)
EXTENDS AiRunner, TLC
CONSTANTS r1, r2, r3
NoRun == [r \in Runs |-> None]
MCPlans ==
  {[NoRun EXCEPT ![r1] = k] : k \in Kinds} \cup {[NoRun EXCEPT ![r2] = "claude", ![r3] = "claude"]}
MCItems == (r1 :> 2) @@ (r2 :> 0) @@ (r3 :> 0)
=============================================================================
