--------------------------- MODULE MCSessionDaemon ---------------------------
(* SessionDaemon on one key: the connections that carry a spawn spec are the *)
(* contenders for it, the others only reattach.                              *)
EXTENDS SessionDaemon, TLC

CONSTANTS Reattachers  \* connections without a spawn spec

TheKey == CHOOSE k \in Key : TRUE
AllTheKey == [c \in Conn |-> TheKey]
ForTheKey == [ch \in Child |-> TheKey]
WithSpec == Conn \ Reattachers

\* A reattaching client comes alone, or when the spawning ones have left
\* (bound).
ReattachesAlone ==
  \A r \in Reattachers : pc[r] # "idle" => \A c \in WithSpec : pc[c] \in {"idle", "closed"}

Symmetry == Permutations(Conn \ Reattachers) \cup Permutations(Reattachers) \cup Permutations(Child)
=============================================================================
