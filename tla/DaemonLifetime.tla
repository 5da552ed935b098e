---------------------------- MODULE DaemonLifetime ----------------------------
(***************************************************************************)
(* When the session daemon stops: the run loop of sessiond (accept,        *)
(* shutdown and one-second tick branches), the grace window after the last *)
(* client, and the connections whose first frame is List, SetGrace,        *)
(* Shutdown or Attach.  Sessions appear here only as the set that is live. *)
(*                                                                         *)
(* The loop runs on a multi-threaded runtime: connection tasks go on while *)
(* a branch of the select executes, and the Notified future that a         *)
(* shutdown can wake exists only while the loop waits in the select.       *)
(* Time is counted in ticks of the loop's interval.                        *)
(***************************************************************************)
EXTENDS Naturals

CONSTANTS
  Client,        \* client connections, each made once
  Session,       \* sessions that may be live
  Never,         \* GRACE_NEVER
  Unset,         \* idle_since = None
  Requests,      \* grace periods clients ask for, in ticks, or Never
  IdleExitAfter, \* IDLE_EXIT_AFTER, in ticks
  QuietCap       \* where the history counter quiet saturates (bound)

ASSUME LifetimeAssumption ==
  /\ Never \notin Nat /\ Unset \notin Nat
  /\ Requests \subseteq Nat \cup {Never} /\ Requests # {}
  /\ IdleExitAfter \in Nat \ {0}
  /\ QuietCap \in Nat /\ \A g \in Requests \ {Never} : g <= QuietCap /\ 1 <= QuietCap

VARIABLES
  acceptor, \* the accept task: "listening" or "failed"
  loop,     \* where the run loop is
  woken,    \* the Notified future the loop waits on has been notified
  idle,     \* ticks since idle_since was set, or Unset
  grace,    \* the grace atomic
  at,       \* [Client -> where a connection is]
  counted,  \* Registry::conns, as the set of connections counted
  stop,     \* connections whose ConnOutcome has shutdown set
  live,     \* sessions with a Live entry
  quiet     \* history: ticks since a client was last counted

loopVars == <<acceptor, loop, woken, idle, quiet>>
clientVars == <<at, counted, stop>>
lifeVars == <<loopVars, clientVars, grace, live>>

Up == loop # "gone"
Move(c, l) == at' = [at EXCEPT ![c] = l]

\* (Definitions named X_slip are mistakes a change to X could introduce; no
\* action uses them.  They exist to see that the properties notice.)

\* Slip: a configured zero is stored as it is.
GraceToAtomic_unclamped(g) == g

\* grace_to_atomic: never, or at least one second.
GraceToAtomic(g) == IF g = Never THEN Never ELSE IF g = 0 THEN 1 ELSE g

\* A client holds a connection the daemon has not finished with.
Connected == {c \in Client : at[c] \notin {"idle", "notify", "closed"}}

\* A daemon that has served nobody yet.
Unused ==
  /\ acceptor = "listening"
  /\ woken = FALSE
  /\ idle = Unset
  /\ quiet = 0
  /\ grace \in {GraceToAtomic(g) : g \in Requests}
  /\ at = [c \in Client |-> "idle"]
  /\ counted = {}
  /\ stop = {}
  /\ live = {}

LifeInit == Unused /\ loop = "select"

-----------------------------------------------------------------------------
(* Connections.                                                            *)

\* The accept task hands a stream to the loop; it waits in accept_rx.
ClientConnect(c) ==
  /\ Up /\ acceptor = "listening" /\ at[c] = "idle"
  /\ Move(c, "queued")
  /\ UNCHANGED <<loopVars, counted, stop, grace, live>>

\* The accept call fails: the task queues the error behind the streams it has
\* handed over, and ends.
AcceptFails ==
  /\ Up /\ acceptor = "listening"
  /\ acceptor' = "failed"
  /\ UNCHANGED <<loop, woken, idle, quiet, clientVars, grace, live>>

\* handle_conn starts.
ConnStart(c) ==
  /\ Up /\ at[c] = "spawned"
  /\ counted' = counted \cup {c}
  /\ Move(c, "first")
  /\ UNCHANGED <<loopVars, stop, grace, live>>

\* List, a refused first frame, an EOF: answered or not, the connection ends.
FirstOther(c) ==
  /\ Up /\ at[c] = "first"
  /\ Move(c, "flush")
  /\ UNCHANGED <<loopVars, counted, stop, grace, live>>

FirstSetGrace(c, g) ==
  /\ Up /\ at[c] = "first"
  /\ grace' = GraceToAtomic(g)
  /\ Move(c, "flush")
  /\ UNCHANGED <<loopVars, counted, stop, live>>

\* Shutdown is acknowledged at once and acted on after the connection drained.
FirstShutdown(c) ==
  /\ Up /\ at[c] = "first"
  /\ stop' = stop \cup {c}
  /\ Move(c, "flush")
  /\ UNCHANGED <<loopVars, counted, grace, live>>

\* Attach, to a live session or to one spawned for it.
FirstAttach(c, s) ==
  /\ Up /\ at[c] = "first"
  /\ live' = live \cup {s}
  /\ Move(c, "serving")
  /\ UNCHANGED <<loopVars, counted, stop, grace>>

ClientEnds(c) ==
  /\ Up /\ at[c] = "serving"
  /\ Move(c, "flush")
  /\ UNCHANGED <<loopVars, counted, stop, grace, live>>

\* The writer drained (the Ack included): discount the connection.
ConnFlush(c) ==
  /\ Up /\ at[c] = "flush"
  /\ counted' = counted \ {c}
  /\ quiet' = 0
  /\ Move(c, IF c \in stop THEN "notify" ELSE "closed")
  /\ UNCHANGED <<acceptor, loop, woken, idle, stop, grace, live>>

\* notify_waiters stores no permit: it wakes the future the loop is waiting
\* on, and nobody if the loop is busy in another branch.
ConnNotify(c) ==
  /\ Up /\ at[c] = "notify"
  /\ woken' = (woken \/ loop = "select")
  /\ Move(c, "closed")
  /\ UNCHANGED <<acceptor, loop, idle, quiet, counted, stop, grace, live>>

\* A session's child exits or is killed.
SessionEnd(s) ==
  /\ Up /\ s \in live
  /\ live' = live \ {s}
  /\ UNCHANGED <<loopVars, clientVars, grace>>

-----------------------------------------------------------------------------
(* The run loop.                                                           *)

\* Slip: accepting a client leaves the idle clock running.
LoopAccept_keepsIdle(c) ==
  /\ loop = "select" /\ at[c] = "queued"
  /\ loop' = "accepting"
  /\ woken' = FALSE
  /\ Move(c, "spawned")
  /\ UNCHANGED <<acceptor, idle, quiet, counted, stop, grace, live>>

\* The accept branch: the future of this round is dropped with the select.
LoopAccept(c) ==
  /\ loop = "select" /\ at[c] = "queued"
  /\ loop' = "accepting"
  /\ woken' = FALSE
  /\ idle' = Unset
  /\ Move(c, "spawned")
  /\ UNCHANGED <<acceptor, quiet, counted, stop, grace, live>>

\* The error of the accept call, after every stream queued before it: run
\* returns it at once.  Nothing is drained or killed.
LoopAcceptFails ==
  /\ loop = "select" /\ acceptor = "failed"
  /\ \A c \in Client : at[c] # "queued"
  /\ loop' = "gone"
  /\ UNCHANGED <<acceptor, woken, idle, quiet, clientVars, grace, live>>

LoopResume ==
  /\ loop = "accepting"
  /\ loop' = "select"
  /\ UNCHANGED <<acceptor, woken, idle, quiet, clientVars, grace, live>>

LoopShutdown ==
  /\ loop = "select" /\ woken
  /\ loop' = "draining"
  /\ UNCHANGED <<acceptor, woken, idle, quiet, clientVars, grace, live>>

\* A second has passed.  A task spawned by the accept branch is assumed to
\* have been polled within it.
LoopTick ==
  /\ loop = "select"
  /\ \A c \in Client : at[c] # "spawned"
  /\ loop' = "ticking"
  /\ woken' = FALSE
  /\ idle' = IF idle = Unset THEN Unset ELSE idle + 1
  /\ quiet' = IF counted # {} THEN 0 ELSE IF quiet < QuietCap THEN quiet + 1 ELSE quiet
  /\ UNCHANGED <<acceptor, clientVars, grace, live>>

\* Slip: the clock is restarted on every idle tick.
StartIdle_always == 0

\* get_or_insert_with: start the idle clock if it is not running.
StartIdle == IF idle = Unset THEN 0 ELSE idle

\* The tick branch under the registry lock: clients stop the clock; without
\* them it runs against IdleExitAfter when nothing is hosted and against the
\* grace period otherwise.
TickDecide ==
  /\ loop = "ticking"
  /\ \/ /\ counted # {}
        /\ idle' = Unset
        /\ loop' = "select"
     \/ /\ counted = {} /\ live = {}
        /\ idle' = StartIdle
        /\ loop' = IF idle' >= IdleExitAfter THEN "draining" ELSE "select"
     \/ /\ counted = {} /\ live # {} /\ grace = Never
        /\ loop' = "select"
        /\ UNCHANGED idle
     \/ /\ counted = {} /\ live # {} /\ grace # Never
        /\ idle' = StartIdle
        /\ loop' = IF idle' >= grace THEN "draining" ELSE "select"
  /\ UNCHANGED <<acceptor, woken, quiet, clientVars, grace, live>>

\* After the loop: the registry is emptied under the lock and the sessions
\* are killed on the blocking pool, while connection tasks still run.
LoopDrain ==
  /\ loop = "draining"
  /\ live' = {}
  /\ loop' = "killing"
  /\ UNCHANGED <<acceptor, woken, idle, quiet, clientVars, grace>>

\* The socket is removed, run returns, and the process exits.
LoopExit ==
  /\ loop = "killing"
  /\ loop' = "gone"
  /\ UNCHANGED <<acceptor, woken, idle, quiet, clientVars, grace, live>>

-----------------------------------------------------------------------------
LoopStep ==
  \/ \E c \in Client : LoopAccept(c)
  \/ LoopAcceptFails \/ LoopResume \/ LoopShutdown \/ LoopTick \/ TickDecide \/ LoopDrain \/ LoopExit

TaskStep(c) == ConnStart(c) \/ ConnFlush(c) \/ ConnNotify(c)

LifeNext ==
  \/ LoopStep \/ AcceptFails
  \/ \E c \in Client :
       \/ TaskStep(c)
       \/ ClientConnect(c) \/ FirstOther(c) \/ FirstShutdown(c) \/ ClientEnds(c)
       \/ \E g \in Requests : FirstSetGrace(c, g)
       \/ \E s \in Session : FirstAttach(c, s)
  \/ \E s \in Session : SessionEnd(s)

\* The loop and the connection tasks are polled when ready, and time passes:
\* a tick is not put off for ever, and the select, which picks at random among
\* ready branches, does not pass over a woken shutdown for ever.  Clients and
\* children owe nothing, and the accept call need not fail.
LifeFairness ==
  /\ WF_lifeVars(LoopStep) /\ WF_lifeVars(LoopTick) /\ SF_lifeVars(LoopShutdown)
  /\ \A c \in Client : WF_lifeVars(TaskStep(c))

LifeSpec == LifeInit /\ [][LifeNext]_lifeVars
FairLifeSpec == LifeSpec /\ LifeFairness

-----------------------------------------------------------------------------
(* Properties.                                                             *)

LifeTypeOK ==
  /\ acceptor \in {"listening", "failed"}
  /\ loop \in {"select", "accepting", "ticking", "draining", "killing", "gone"}
  /\ woken \in BOOLEAN
  /\ idle \in Nat \cup {Unset}
  /\ quiet \in Nat
  /\ grace \in (Nat \ {0}) \cup {Never}
  /\ at \in [Client -> {"idle", "queued", "spawned", "first", "serving", "flush", "notify", "closed"}]
  /\ counted = {c \in Client : at[c] \in {"first", "serving", "flush"}}
  /\ stop \subseteq Client
  /\ live \subseteq Session

\* A tick stops the loop while sessions are live only after a whole grace
\* period in which no client was served: a probe that comes and goes between two ticks
\* starts the period anew, although no tick ever counts it.  (A failed accept
\* call ends the loop without a tick, whatever is live: LoopAcceptFails.)
GraceHonoured ==
  [][loop = "ticking" /\ loop' = "draining" /\ live # {}
       => grace # Never /\ quiet >= grace]_lifeVars

\* The daemon does not outlive its use: when clients stay away and either
\* nothing is live or the grace is finite, it exits.
UnusedDaemonExits ==
  <>[](Connected = {} /\ (live = {} \/ grace # Never)) => <>(loop = "gone")

\* The documentation of Ack: for Shutdown the whole daemon process exits
\* right after.
ShutdownExits == \A c \in Client : c \in stop ~> loop = "gone"
=============================================================================
