------------------------------- MODULE MCTunnels -------------------------------
(* Instances of the tunnels for TLC. *)
EXTENDS Tunnels, TLC

\* Creates are interchangeable, and so are Zenoh ids and organisations.
TunnelSymmetry ==
  Permutations(Creates) \cup Permutations(Zids) \cup Permutations(Orgs)

NoConnections == \A c \in Conns : conn[c].pc = "idle"

\* The third registration, which a device id that comes back to its first
\* organisation takes, is explored for the handlers only, and the second not
\* with a fault and a connection at once.
FewTogether ==
  /\ nextReg > 3 => faults = 0 /\ manager = "load" /\ NoConnections
  /\ nextReg > 2 /\ faults > 0 => NoConnections
=============================================================================
