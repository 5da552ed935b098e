------------------------------ MODULE PtyControl ------------------------------
(***************************************************************************)
(* The control path of one hosted session: connections that resize or kill *)
(* it, the one-slot resize mailbox, and the resize and kill worker threads *)
(* of its ControlWorker (rimeterm-pty, pty_control and the control loop of *)
(* sessiond).                                                              *)
(*                                                                         *)
(* A connection records the requested size under the registry lock, and    *)
(* hands it to the mailbox after releasing the lock.  The mailbox is a     *)
(* mutex and a condition variable; setting it and notifying are two steps. *)
(* The worker resizes the headless replica and then the PTY; the call that *)
(* resizes the PTY may park for ever on a wedged pseudoconsole, and it may *)
(* fail, which is logged and nothing more.                                 *)
(***************************************************************************)
EXTENDS Naturals

CONSTANTS
  Conn,     \* connections attached to the session
  Size,     \* terminal sizes
  InitSize, \* the size the session was spawned with
  NoSize,   \* an empty mailbox
  MaxReq    \* resize requests each connection sends (bound)

ASSUME ControlAssumption ==
  InitSize \in Size /\ NoSize \notin Size /\ MaxReq \in Nat

VARIABLES
  hosted,   \* the session has its Live entry
  grid,     \* LiveSession.cols, rows: the size a Welcome reports
  pc,       \* [Conn -> where a connection is]
  want,     \* [Conn -> the size it is about to enqueue]
  reqs,     \* [Conn -> resizes it has requested]
  mailbox,  \* ResizeState.size
  closed,   \* ResizeState.closed
  closer,   \* ControlWorker::drop: "no", "notify", "done"
  worker,   \* resize_loop: "checking", "asleep", "taken", "resizing", "exited"
  inflight, \* the size the resize worker has taken
  headless, \* the size of the headless replica
  ptySize,  \* the size of the PTY
  refused,  \* history: the PTY refused the size of the last call that returned
  newest,   \* history: the size enqueued last
  killChan, \* requests in the kill channel
  killer,   \* kill_loop: "waiting", "killing", "exited"
  child     \* "running" or "dead"

connVars   == <<pc, want, reqs>>
sizeVars   == <<headless, ptySize, refused>>
resizeVars == <<mailbox, closed, closer, worker, inflight, sizeVars, newest>>
killVars   == <<killChan, killer, child>>
vars == <<hosted, grid, connVars, resizeVars, killVars>>

Init ==
  /\ hosted = TRUE
  /\ grid = InitSize
  /\ pc = [c \in Conn |-> "idle"]
  /\ want = [c \in Conn |-> NoSize]
  /\ reqs = [c \in Conn |-> 0]
  /\ mailbox = NoSize
  /\ closed = FALSE
  /\ closer = "no"
  /\ worker = "checking"
  /\ inflight = NoSize
  /\ headless = InitSize
  /\ ptySize = InitSize
  /\ refused = FALSE
  /\ newest = InitSize
  /\ killChan = 0
  /\ killer = "waiting"
  /\ child = "running"

\* (Definitions named X_slip are mistakes a change to X could introduce; no
\* action uses them.  They exist to see that the properties notice.)

Goto(c, l) == pc' = [pc EXCEPT ![c] = l]

\* Condvar notify: a sleeping resize worker looks at the mailbox again.
WakeWorker == worker' = IF worker = "asleep" THEN "checking" ELSE worker

\* Some connection holds a clone of the ControlWorker handle.
Held == \E c \in Conn : pc[c] \in {"recorded", "notify", "killing"}

-----------------------------------------------------------------------------
(* Connections (the control loop of serve_attached).                       *)

\* A Resize frame, under the registry lock: record the size, clone the handle.
Record(c, s) ==
  /\ pc[c] = "idle" /\ hosted
  /\ reqs[c] < MaxReq
  /\ grid' = s
  /\ want' = [want EXCEPT ![c] = s]
  /\ reqs' = [reqs EXCEPT ![c] = @ + 1]
  /\ Goto(c, "recorded")
  /\ UNCHANGED <<hosted, resizeVars, killVars>>

\* Slip: a pending size is kept, as if the mailbox were a queue of one.
Enqueue_firstWins(c) ==
  /\ pc[c] = "recorded"
  /\ mailbox' = IF closed \/ mailbox # NoSize THEN mailbox ELSE want[c]
  /\ Goto(c, IF closed THEN "left" ELSE "notify")
  /\ newest' = IF closed THEN newest ELSE want[c]
  /\ UNCHANGED <<hosted, grid, want, reqs, closed, closer, worker, inflight, sizeVars, killVars>>

\* ResizeShared::enqueue with the mailbox lock: the newest size wins; a closed
\* worker ends the connection's loop.
Enqueue(c) ==
  /\ pc[c] = "recorded"
  /\ mailbox' = IF closed THEN mailbox ELSE want[c]
  /\ Goto(c, IF closed THEN "left" ELSE "notify")
  /\ newest' = IF closed THEN newest ELSE want[c]
  /\ UNCHANGED <<hosted, grid, want, reqs, closed, closer, worker, inflight, sizeVars, killVars>>

\* ... and notify_one after the lock is dropped.
EnqueueNotify(c) ==
  /\ pc[c] = "notify"
  /\ WakeWorker
  /\ Goto(c, "idle")
  /\ UNCHANGED <<hosted, grid, want, reqs, mailbox, closed, closer, inflight, sizeVars, newest, killVars>>

\* A Kill frame: request_kill takes the handle under the registry lock.
RequestKill(c) ==
  /\ pc[c] = "idle" /\ hosted
  /\ Goto(c, "killing")
  /\ UNCHANGED <<hosted, grid, want, reqs, resizeVars, killVars>>

\* Slip: requests pile up in the channel.
KillSend_unbounded(c) ==
  /\ pc[c] = "killing"
  /\ killChan' = killChan + 1
  /\ Goto(c, "idle")
  /\ UNCHANGED <<hosted, grid, want, reqs, resizeVars, killer, child>>

\* ControlWorker::kill: try_send into a channel of one; a second is dropped,
\* and so is one to a worker that has ended.
KillSend(c) ==
  /\ pc[c] = "killing"
  /\ killChan' = IF killer = "exited" THEN killChan ELSE 1
  /\ Goto(c, "idle")
  /\ UNCHANGED <<hosted, grid, want, reqs, resizeVars, killer, child>>

\* Detach, EOF, or input for a session that is gone.
Leave(c) ==
  /\ pc[c] = "idle"
  /\ Goto(c, "left")
  /\ UNCHANGED <<hosted, grid, want, reqs, resizeVars, killVars>>

-----------------------------------------------------------------------------
(* The session.                                                            *)

ChildExit ==
  /\ child = "running"
  /\ child' = "dead"
  /\ UNCHANGED <<hosted, grid, connVars, resizeVars, killChan, killer>>

\* The reaper evicts the entry of a dead child.
Evict ==
  /\ hosted /\ child = "dead"
  /\ hosted' = FALSE
  /\ UNCHANGED <<grid, connVars, resizeVars, killVars>>

\* Slip: eviction closes the worker under the connections that still use it.
DropHandle_early ==
  /\ ~hosted /\ closer = "no"
  /\ closed' = TRUE
  /\ closer' = "notify"
  /\ UNCHANGED <<hosted, grid, connVars, mailbox, worker, inflight, sizeVars, newest, killVars>>

\* The last handle is dropped: close the mailbox ...
DropHandle ==
  /\ ~hosted /\ ~Held /\ closer = "no"
  /\ closed' = TRUE
  /\ closer' = "notify"
  /\ UNCHANGED <<hosted, grid, connVars, mailbox, worker, inflight, sizeVars, newest, killVars>>

\* Slip: the mailbox is closed without telling a sleeping worker.
DropNotify_silent ==
  /\ closer = "notify"
  /\ closer' = "done"
  /\ UNCHANGED <<hosted, grid, connVars, mailbox, closed, worker, inflight, sizeVars, newest, killVars>>

\* ... notify_all, and drop kill_tx.
DropNotify ==
  /\ closer = "notify"
  /\ WakeWorker
  /\ closer' = "done"
  /\ UNCHANGED <<hosted, grid, connVars, mailbox, closed, inflight, sizeVars, newest, killVars>>

-----------------------------------------------------------------------------
(* The worker threads.                                                     *)

\* resize_loop with the mailbox lock: take a size, end, or wait (atomically
\* releasing the lock).
ResizeCheck ==
  /\ worker = "checking"
  /\ \/ /\ mailbox # NoSize
        /\ inflight' = mailbox
        /\ mailbox' = NoSize
        /\ worker' = "taken"
     \/ /\ mailbox = NoSize
        /\ worker' = IF closed THEN "exited" ELSE "asleep"
        /\ UNCHANGED <<inflight, mailbox>>
  /\ UNCHANGED <<hosted, grid, connVars, closed, closer, sizeVars, newest, killVars>>

\* resize_session: first the replica, under its own lock ...
ResizeReplica ==
  /\ worker = "taken"
  /\ headless' = inflight
  /\ worker' = "resizing"
  /\ UNCHANGED <<hosted, grid, connVars, mailbox, closed, closer, inflight, ptySize, refused, newest, killVars>>

\* Slip: the worker waits without looking at the mailbox again.
ResizeReturn_waits ==
  /\ worker = "resizing"
  /\ \/ ptySize' = inflight /\ refused' = FALSE
     \/ refused' = TRUE /\ UNCHANGED ptySize
  /\ inflight' = NoSize
  /\ worker' = "asleep"
  /\ UNCHANGED <<hosted, grid, connVars, mailbox, closed, closer, headless, newest, killVars>>

\* ... then the PTY.  The call returns: the PTY has the size, or it refused it,
\* which is logged; the size is not tried again.
ResizeReturn ==
  /\ worker = "resizing"
  /\ \/ ptySize' = inflight /\ refused' = FALSE
     \/ refused' = TRUE /\ UNCHANGED ptySize
  /\ inflight' = NoSize
  /\ worker' = "checking"
  /\ UNCHANGED <<hosted, grid, connVars, mailbox, closed, closer, headless, newest, killVars>>

\* Slip: one thread serves both mailboxes.
KillRecv_sharedThread ==
  /\ killer = "waiting" /\ killChan > 0 /\ worker \notin {"taken", "resizing"}
  /\ killChan' = killChan - 1
  /\ killer' = "killing"
  /\ UNCHANGED <<hosted, grid, connVars, resizeVars, child>>

KillRecv ==
  /\ killer = "waiting" /\ killChan > 0
  /\ killChan' = killChan - 1
  /\ killer' = "killing"
  /\ UNCHANGED <<hosted, grid, connVars, resizeVars, child>>

\* The tree kill returns; the kill closure runs once.
KillReturn ==
  /\ killer = "killing"
  /\ child' = "dead"
  /\ killer' = "exited"
  /\ UNCHANGED <<hosted, grid, connVars, resizeVars, killChan>>

\* The channel is closed and empty: exit without killing.
KillClosed ==
  /\ killer = "waiting" /\ killChan = 0 /\ closer = "done"
  /\ killer' = "exited"
  /\ UNCHANGED <<hosted, grid, connVars, resizeVars, killChan, child>>

-----------------------------------------------------------------------------
ConnStep(c) == Enqueue(c) \/ EnqueueNotify(c) \/ KillSend(c)
ResizeStep == ResizeCheck \/ ResizeReplica \/ ResizeReturn
KillStep == KillRecv \/ KillReturn \/ KillClosed
SessionStep == Evict \/ DropHandle \/ DropNotify

Next ==
  \/ \E c \in Conn : ConnStep(c) \/ RequestKill(c) \/ Leave(c) \/ (\E s \in Size : Record(c, s))
  \/ ChildExit \/ SessionStep \/ ResizeStep \/ KillStep

\* Tasks and threads run; the resize call need not return, clients and the
\* child owe nothing.
Fairness ==
  /\ \A c \in Conn : WF_vars(ConnStep(c))
  /\ WF_vars(SessionStep) /\ WF_vars(ResizeCheck \/ ResizeReplica) /\ WF_vars(KillStep)

Spec == Init /\ [][Next]_vars
FairSpec == Spec /\ Fairness

-----------------------------------------------------------------------------
(* Properties.                                                             *)

TypeOK ==
  /\ hosted \in BOOLEAN
  /\ grid \in Size
  /\ pc \in [Conn -> {"idle", "recorded", "notify", "killing", "left"}]
  /\ want \in [Conn -> Size \cup {NoSize}]
  /\ \A c \in Conn : pc[c] = "recorded" => want[c] \in Size
  /\ reqs \in [Conn -> Nat]
  /\ mailbox \in Size \cup {NoSize}
  /\ closed \in BOOLEAN
  /\ closer \in {"no", "notify", "done"}
  /\ worker \in {"checking", "asleep", "taken", "resizing", "exited"}
  /\ inflight \in Size \cup {NoSize}
  /\ worker \in {"taken", "resizing"} <=> inflight # NoSize
  /\ headless \in Size
  /\ ptySize \in Size
  /\ refused \in BOOLEAN
  /\ newest \in Size
  /\ killChan \in 0..1
  /\ killer \in {"waiting", "killing", "exited"}
  /\ child \in {"running", "dead"}

\* The resize worker never sleeps on something to do: a size in the mailbox,
\* or the close of the handle, always has a notification still to come.
NoLostWakeup ==
  worker = "asleep" =>
    /\ mailbox # NoSize => \E c \in Conn : pc[c] = "notify"
    /\ closed => closer = "notify"

\* The worker that has ended has nothing left to do and nobody can hand it
\* more: no requested size is dropped with it.
ExitedLeavesNothing ==
  worker = "exited" => mailbox = NoSize /\ closed /\ ~Held

\* Coalescing drops superseded sizes only: once the mailbox is drained the
\* replica has the size enqueued last, and the PTY has it or refused that very
\* size, whichever connections enqueued it, however long a resize call was
\* parked and whatever earlier calls answered.
LatestWins ==
  mailbox = NoSize /\ inflight = NoSize => headless = newest /\ (ptySize = newest \/ refused)

\* LiveSession::set_grid: the recorded size may briefly lead the real one, so
\* once no resize is under way the PTY has the recorded size.  What the PTY
\* refused is left out: the recorded size was then tried, as the replica shows,
\* and stays wrong until somebody resizes again.
GridSettles ==
  (mailbox = NoSize /\ inflight = NoSize /\ \A c \in Conn : pc[c] \notin {"recorded"})
    => ptySize = grid \/ (refused /\ headless = grid)

\* A kill is carried out even while a resize is parked for ever.
KillNotDelayed == (\E c \in Conn : pc[c] = "killing") ~> child = "dead"

\* After the session is gone and its connections let go, neither worker is
\* left behind, unless a resize call never returns.
WorkersEnd == [](closed => <>(killer = "exited" /\ worker \in {"exited", "resizing"}))
=============================================================================
