----------------------------- MODULE MCDaemonLive -----------------------------
(***************************************************************************)
(* The two halves of the session daemon under the fairness of its threads  *)
(* and tasks, checked by one run: its sessions and their connections, and  *)
(* its run loop.  A behaviour picks one half and runs it; the other owes   *)
(* nothing meanwhile, the sessions because no connection has come, the run *)
(* loop because it has ended.  The state space is the sum of the two.      *)
(***************************************************************************)
EXTENDS MCSessionDaemon, MCDaemonLifetime

VARIABLE half  \* the half this behaviour runs

daemonVars == <<half, vars, lifeVars>>

DaemonInit ==
  /\ half \in {"sessions", "loop"}
  /\ Init
  /\ Unused
  /\ \/ half = "loop" /\ loop = "select"
     \/ half = "sessions" /\ loop = "gone" /\ grace = Never

SessionsHalf == half = "sessions" /\ Next     /\ UNCHANGED lifeVars
LoopHalf     == half = "loop"     /\ LifeNext /\ UNCHANGED vars

DaemonNext == (SessionsHalf \/ LoopHalf) /\ UNCHANGED half

FairDaemonSpec == DaemonInit /\ [][DaemonNext]_daemonVars /\ Fairness /\ LifeFairness
===============================================================================
