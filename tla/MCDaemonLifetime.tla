--------------------------- MODULE MCDaemonLifetime ---------------------------
(* DaemonLifetime on a few connections, with a finite and an infinite grace.  *)
EXTENDS DaemonLifetime

CONSTANT Graces   \* the finite periods clients ask for

MCRequests == Graces \cup {Never}
=============================================================================
