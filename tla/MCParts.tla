------------------------------- MODULE MCParts -------------------------------
(***************************************************************************)
(* Four parts of rimeterm that share no state, checked by one run: the     *)
(* session daemon with clients that only reattach, the todo store, the Git *)
(* pane and the workspace tabs.  A behaviour picks one part and runs it;   *)
(* the others stay as they start.  The state space is the sum of the four, *)
(* and an invariant holds here exactly if it holds of each part by itself. *)
(***************************************************************************)
EXTENDS MCSessionDaemon, TodoStore, GitPane, MCWorkbench

\* Rows are interchangeable.
PartsSymmetry == Permutations(Row)

VARIABLE part  \* the part this behaviour runs

partsVars == <<part, vars, todoVars, gitVars, benchVars>>

PartsInit ==
  /\ part \in {"sessions", "todo", "git", "workbench"}
  /\ Init /\ TodoInit /\ GitInit /\ BenchInit

SessionsRun  == part = "sessions"  /\ Next      /\ UNCHANGED <<todoVars, gitVars, benchVars>>
TodoRun      == part = "todo"      /\ TodoNext  /\ UNCHANGED <<vars, gitVars, benchVars>>
GitRun       == part = "git"       /\ GitNext   /\ UNCHANGED <<vars, todoVars, benchVars>>
WorkbenchRun == part = "workbench" /\ BenchNext /\ UNCHANGED <<vars, todoVars, gitVars>>

PartsNext == (SessionsRun \/ TodoRun \/ GitRun \/ WorkbenchRun) /\ UNCHANGED part

PartsSpec == PartsInit /\ [][PartsNext]_partsVars
==============================================================================
