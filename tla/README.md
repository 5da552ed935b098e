# Formal models of rimeterm

rimeterm is a terminal workbench: a TUI whose panes host shells, coding agents
and tools. What its correctness rests on is the *session daemon*: a background
process that owns every child process and its pseudo-terminal, so that closing
the TUI does not end the work. This directory holds TLA+ models of the daemon and
of the input path that leads to it, and of three parts of the TUI that keep
state of their own: the todo store, the Git pane with its worker, and the
workspaces with their tabs. It holds the TLC runs that check them and the proofs
that TLAPS checks. Everything is written from the Rust sources; `PROJECT.json` maps each definition to the
lines it models. Paths below are relative to `src/crates/`.

## 1. Inventory

| component | state | operations and interactions | hard behaviour |
|---|---|---|---|
| Session registry, `rimeterm-pty/src/sessiond/daemon.rs` | `Registry` (sessions by key, generation counter, connection count), `LiveSession` (ring, attached senders, `killed`, silence flag), one spawn gate | `Attach`, input, `Resize`, `Kill`, `Detach`; a pump and a reaper thread per child; a writer task per connection | tasks and threads meet at one lock and hold decisions across it; a key may be respawned while threads of its former child still run |
| Run loop, `daemon.rs` `run` | accept queue, idle clock, grace atomic, shutdown notification | accept, one-second tick, `SetGrace`, `List`, `Shutdown`, drain and exit | notifications without a permit; clients between two ticks; exit while connections run |
| Control workers, `pty_control.rs` | one-slot resize mailbox with a condition variable, kill channel of one | resize worker, kill worker, enqueue, close | lost wakeups, a resize that never returns, the order of record and enqueue |
| Output ring, `sessiond/ring.rs` | the newest bytes of a session | push, snapshot | eviction at the capacity |
| PTY host and stdin writer, `pty_host.rs`, `pty_writer.rs` | OS handles; FIFO of stdin buffers | start-up, tree kill; enqueue, drain, failure | partial start-up; buffers queued at an error |
| Frame codec and transport, `sessiond/mod.rs`, `transport.rs` | socket or pipe | encode, decode, bind, accept | size limits, stale sockets |
| Client side, `session.rs`, `sessiond/client.rs` | replica grid, stdin and control channels | attach with autostart, writer task, pump | kill against close of stdin; two autostarts at once |
| Pacing, `resize_throttle.rs`, `sync_timeout.rs` | pending size; deadline of a synchronized update | request, poll, flush; publish, expire | timer against new data |
| Agent status, `rimeterm-agent-status`, `rimeterm-tui/src/agent_status_store.rs` | newest status per pane | update over OSC or IPC | late and duplicate reports |
| Local IPC, `rimeterm-ipc`, `rimectl` | lockfiles, one socket per process | discover, sweep, request | stale lockfiles, reused pids |
| Todo store, `tuxedo/src/core` | task list, archive, undo history, last file contents seen | reconcile, mutate, archive, drain of the inbox, undo | two files written in turn, outside edits, crashes between writes |
| Git pane, `rimeterm-tui/src/git_pane.rs`, `git_worker.rs` | requested and applied generations, commit window, overlays | refresh, load more, diff, detail; a worker thread that coalesces | answers out of order, requests that are dropped for newer ones |
| Workspaces and tabs, `rimeterm-tui/src/app.rs`, `app/workspace_builder.rs`, `workspace.rs`, `rimeterm-core/src/tabs.rs` | parallel lists of roots, instances and titles; the active workspace in the fields of the App, the others in a stash; tab groups; sessions and agent slots by pane | open, activate, duplicate, close a workspace; open, close, focus, rename a tab | one index with two meanings, three copies of a tab list, keys that are reused |
| TUI, other workers, updater, configuration, feature panes, vendored explorer | view state | event loop, background polling, presentation | the updater's steps |

What makes them correct, in a sentence each. *Registry*: a client reads one
session's output, whole and in order, whatever is respawned, killed or evicted
around it, and every hosted child has threads that will notice its end. *Run
loop*: the daemon is there as long as it was promised to be and not for ever.
*Control workers*: the newest size wins, a kill waits for nobody. *Ring*: it is
the tail of the output. *Writer*: accepted input arrives in order or is reported
lost. *Codec*: what was encoded is decoded. *Client*: a kill reaches the wire.
*Agent status*: no report goes back in time. *Todo store*: no task is lost by a
failure between two writes, none is doubled, an undo takes back one's own work
only. *Git pane*: it settles on what was asked for last. *Workspaces*: every
index means what it says, a session lives as long as its tab, and no two tabs
share one.

The hazards behind these sentences, each at its line, are in `PROJECT.json`
with the property that covers it, or the reason why none does yet.

## 2. The modules

### SessionDaemon (checked through MCSessionDaemon, proved in SessionDaemonProofs)

The registry with its connections, children and threads. One step is one hold
of the registry lock, one await or one blocking call, since that is where the
code lets others run.

| state | code |
|---|---|
| `entry`, `nextGen`, `conns` | `Registry::sessions`, `next_generation`, `conns` |
| `gen`, `killed`, `silence`, `ring`, `attached` | the fields of `LiveSession` (a child stands for its `LiveSession`) |
| `pc`, `mine`, `respawned`, `gate` | where a connection task is in `serve_attached`, its local `session` and flag, the holder of the spawn gate |
| `sent` | every frame queued for the connection's writer task |
| `proc`, `wrote`, `pulled`, `pump`, `reaper`, `killReq` | the process, its output, `child_pump`, `child_reaper`, the kill worker's channel |

The attach protocol is `FastHit`, `FastSilent` and `KillStale` (a silent child
is replaced), `FastMiss`, `SlowDeny`, `GateAcquire`, `SpawnOk`, `SpawnFail`,
`Probe`, `KillDup`, `Rejoin`, `Insert`; the control loop `ClientKill`,
`ClientInputToDead`, `ClientLeave`; the end `Unregister` and `Drain`. The
threads are `PumpRead`, `PumpPush`, `PumpRetire` (together `PumpServe`), `PumpEof`,
`ReaperStart`, `ReaperFinalize`, `ReaperGiveUp` and `KillWorker`. A read may end the
pump at any time (`PumpEof`): `child_pump` returns on every read error, and on an EOF,
whether or not the child still runs and whatever it has yet to write. Its session stays
hosted and nobody reads it any more, until the reaper sees the child's end.

Abstractions. Output is counted in chunks, one per read of the PTY, and the ring
in chunks too. The 15-second age of a silent child is nondeterministic: when a
child that never wrote is looked at it may be on either side of it. A connection
that leaves drops its log (`Drain`), for its writer has ended. Requests on input
and resize do not touch the registry, so only their failing branch appears
(`ClientInputToDead`); the resize path is in PtyControl. `ClientKill` takes the
lock and sends to the kill worker in one step; PtyControl splits them. A writer
task whose socket fails is not modelled: its session keeps sending into a
channel nobody reads.

### DaemonLifetime (MCDaemonLifetime, DaemonLifetimeProofs)

`run`'s select loop as a machine whose branches take time: `LoopAccept` and
`LoopResume`, `LoopShutdown`, `LoopTick` and `TickDecide`, then `LoopDrain` and
`LoopExit`. `acceptor` is the accept task: a failed accept call (`AcceptFails`) puts
the error in the queue behind the streams it has handed over, and when the loop gets to
it `run` returns at once (`LoopAcceptFails`), without `LoopDrain`. Connections go on during every branch. The `Notified` future lives
only while the loop is in the select (`loop = "select"`), which is what
`ConnNotify` depends on. `idle` is `idle_since` in ticks, `grace` the atomic,
`counted` the connection count. `quiet` is a history variable: ticks since a
client was last counted; it saturates at `QuietCap`, which is at least every
grace asked for. One assumption about scheduling is built in: a task that the
accept branch spawned has been polled once before the next one-second tick
(guard of `LoopTick`).

### PtyControl (PtyControlProofs)

One session's control path. A connection records a size under the registry lock
(`Record`), then sets the mailbox (`Enqueue`), then notifies (`EnqueueNotify`):
three steps, as in the code. `ResizeCheck` looks at the mailbox and goes to
sleep in one step, because a condition variable releases its mutex atomically. The
worker then resizes the headless replica (`ResizeReplica`) and the PTY.
`ResizeReturn` is the return of the OS call: it need not happen, and it may be an error,
which the code logs and forgets, so that the PTY keeps its size. `RequestKill`
and `KillSend` are the two halves of a kill; `KillRecv`, `KillReturn` and
`KillClosed` the kill thread. `DropHandle` and `DropNotify` are the drop of the
last reference to the workers. `newest` and `refused` are history variables: the size
enqueued last, and whether the call that returned last was an error.

### StdinQueue and PtyWriter (StdinPathProofs)

`StdinQueue` is the promise of a session's stdin: what was accepted is delivered
in order, none skipped and none twice, nothing is accepted after a close or a
break, and only the delivery of a buffer can break the queue. `PtyWriter` is the
queue the code puts in front of a PTY: `Write` and `WriteNotify`, `DropWriter`
and `DropNotify` for the caller (one at a time, as the adapter lives behind a
mutex), `Take`, `RawWritten`, `RawFailed`, `RecordFailure`, `Flush` and `End` for
the worker. Its module instantiates StdinQueue with `delivered <- raw`, and with
the state broken once the failure is *recorded*: between the failed write and
the record, callers still have buffers accepted that are then discarded, which
the promise allows and a reader of "fail fast" may not expect.

### RemoteSession and StdinPath (StdinPathProofs)

`RemoteSession` is the client's half of a pane's input. `Write` and `Resize` are
the calls of the pane, `KillQueue` and `KillCloseStdin` the two halves of
`Session::kill` (the Kill is queued, then stdin is closed), `DropStdin` and
`DropControl` the drop of the handle. The writer task selects with a bias for
controls, which is two polls, and the pane may act between them: first the control
channel (`RecvControl`, `ControlClosed`, or `PollControl` when it is empty), then stdin
(`RecvBytes`, `BytesClosed`, or `PollPending`, when the select waits for either). Once
stdin is closed `Drain` takes what controls are left, those queued between the two polls
among them, before the task ends.
Between taking a frame and having written it the task is at an await: `FrameSent`
or `FrameFails`. `cut` records that the socket failed, `wire` what was written.

`StdinPath` puts it in front of the daemon's connection (`ConnWriteFrame` looks
the session up under the lock, `ConnWriteStdin` writes to its writer after it)
and of PtyWriter, whose actions it uses as they are. `Evict` is the exit of the
child, `DropLast` the drop of the last reference to the writer. It instantiates
StdinQueue a second time, for the whole path: `accepted` is what was typed,
`delivered` what the PTY got, and the path is broken when both ends are done and
something typed has not arrived.

Abstractions. The socket is in order and loses nothing until it fails. A handle
is used by one thread at a time, as the pane does. Resizes are markers here; what
becomes of them is in PtyControl.

### TodoStore (TodoStoreProofs)

The store of tuxedo over four files: todo, archive, inbox and the staging file of
a drain. One step is one file operation with the changes in memory around it.
`Abort` and `Proceed` are the two outcomes of `reconcile`. `Add`/`AddWrite`,
`Delete`/`DeleteWrite`, `Undo`/`UndoWrite` are the mutations; `Archive`,
`ArchiveRead`, `ArchiveWrite`, `ArchiveTodo`, `ArchiveBack` and `Unarchive` …
`UnarchiveTodo` the two that write two files; `Poll`, `DrainStage`, `DrainWrite`,
`DrainClean` the drain. `LoaderRead` and `PollArchive` are the background loader
of the archive. The poll drains whatever its reconcile found: after a read error the
drain is `blind` to what an editor may have written. `EditorAdds`, `EditorRemoves` and `Capture` are other programs,
which act between any two steps (a capture not while a drain holds the inbox
lock). `Fault` lets an operation fail, `Down` ends the process anywhere; files
survive, memory does not.

| state | code |
|---|---|
| `todoF`, `archF`, `inboxF`, `staging` | the four files |
| `tasks`, `seen`, `hist` | `Store::tasks`, `last_disk`, `history` |
| `archive`, `loader`, `loaded` | `Archive::tasks`, its loader thread and what that has read |
| `step`, `job`, `prev`, `blind` | where a call is, what it works on, the archive body it found, whether its poll failed to read |
| `used`, `late`, `theirs`, `excused`, `unread` | history variables for the properties |

Abstractions. A row is a task; edits of its text in place (priority, tags,
completion and recurrence) leave no trace. Text that does not parse is one value,
`Junk`. `write_atomic` is one step, as other programs see only its rename.

What the store may lose or bring back without breaking a promise is named by the
history variables. An edit that lands while an operation is under way is `late`; what
the operation overwrites of it is `excused`. An edit that was there before a poll, which
the poll could not read and its drain wrote over, is `unread`: the code's comments promise
that this does not happen, `UnreadKept` says so and the run `unread_drain` refutes it, and
`NoRowLost` is about the other rows. Neither counts as the editor's any more (`theirs`).

### GitPane (GitPaneProofs)

The pane and its worker with the channels between them. `RefreshFor`, `Refresh`,
`RequestMoreCommits`, `RequestDiff`, `RequestCommitDetail`, `CloseOverlay` are the
pane's calls; `Collect` takes all that waits, `AnswerSnapshot` and `AnswerOverlay`
answer it in the worker's order, or skip it when the build panics;
`PollBackground` applies all answers that wait. A directory stands for all of one
repository, a snapshot for its root and its number of commit pages. `lastAsk` is
a history variable, the last snapshot asked for.

### Workbench (checked through MCWorkbench, proved in WorkbenchProofs)

The workspaces of the App. `order` and `instances` are `ws_order` and
`ws_instances`; `bench` is the workspace whose parts are swapped into the App's
fields, `stash` the others, at the slot `stash_slot` computes. `session` maps a
pane to the daemon key of its session (`session_writes`), `agentOf` and `slotOf`
are `pane_agent_id` and `pane_agent_slot`, `number` the number a shell tab's title
shows. Workspace actions: `OpenWorkspace`, `ActivateWorkspace`,
`DuplicateWorkspace`, `CloseWorkspace`; tab actions: `OpenShell`, `OpenAgent`,
`CloseShell`, `CloseAgent`, `RenamePane`, `FocusPane`. Each is one step, for the
App is sequential: what is hard here is the length of the sequence. `Preset` is
the configuration's list of agent tabs.

Abstractions. Two ways to an agent tab are left out. A tab *resumed* from an earlier
conversation (`new_resumed_agent_tab`, app.rs:6134–6212) has a session under a key of its
own kind and no entry in `pane_agent_id` nor in the remembered tabs; in the model a pane
of the agents group without an agent is the picker. Tabs that a launch restores from disk
are left out too: roots opened have no remembered tabs (a duplicate has those of its
original). What the properties of this module say, they say of the other tabs; section 5
has what reading the resumed ones showed. Every agent's program is installed; the groups on the left
are one pane, `LeftPane`; `kept`, the shell tabs a duplicate starts with, is any
selection that sampling their directories may yield.

### Lists and ListLemmas

`Lists` is the one operator that TodoStore and GitPane need beside the library's:
`Keep`, the elements of a list at given positions, and `Without`, the others. It is
a recursive function, not a RECURSIVE operator, so that it can be proved about.
`ListLemmas` has what TodoStoreProofs, GitPaneProofs and WorkbenchProofs share.

### MCParts

The todo store, the Git pane, the workspaces and the daemon share no state in the
models, as they share none in the program but what StdinPath composes. MCParts
lets a behaviour choose one of them and run it, so that one run checks the four:
its state space is the sum of theirs and not their product, and each invariant
says what it says of its own part. It is not a composition and claims nothing of
one.

### MCDaemonLive

The same for the two halves of the daemon, SessionDaemon and DaemonLifetime, with the
fairness of both: a behaviour runs the sessions or the run loop. The half that does not
run owes nothing, since no connection has come to it (the sessions) or it has ended (the
loop), so the fairness assumed of it is vacuous. DaemonLifetime names its specification
`LifeSpec`, its type invariant `LifeTypeOK` and so on, so that the two modules can be
extended together.

Definitions named `X_slip` next to a definition `X` are mistakes a change to `X`
could introduce. Nothing uses them; they document that the properties notice.

## 3. The runs

| run | instance | what it shows |
|---|---|---|
| `session_daemon` | 1 key, 2 spawning clients, 1 reattaching one alone or after them, 2 children, rings of 2, 3 chunks between the children | the registry's safety properties and the shape of the streams through respawn, kill, silence eviction and the spawn race |
| `daemon_live` | sessions: 2 spawning clients and 1 reattaching one, 1 child, no output; loop: 2 clients, 1 session, graces 0, 3 and never | attach settles, detach completes, exits are finalized; grace honoured, an unused daemon exits |
| `pty_control` | 2 connections, 2 sizes, 2 requests each, any call refused | no lost wakeup, newest size wins unless refused, kills are not delayed, threads end |
| `stdin_path` | 2 different buffers, 2 calls, each a write or a resize | what is typed arrives in order up to a break, a kill is not lost and is obeyed, the writer implements the abstract queue behind a real environment and releases the PTY |
| `parts` | sessions: 1 spawning and 1 reattaching client, 2 children, for one of which `wait()` fails, ring of 2, 3 chunks; todo: 2 rows, undo of 2, 1 fault; Git: 3 directories, 4 requests, 2 pages; workspaces: 2 roots, 1 agent, groups of 2, 3 workspaces, 6 panes | attached clients stay in sync through replays of several chunks; rows are not lost nor doubled and undo spares outside edits; the Git pane settles and shows what it was asked; indices, sessions, agent and shell keys and focus of the workspaces |
| `trailing_output`, `spawn_race`, `attach_answered`, `shutdown`, `resize_race` | as above, smaller where that is enough | five places where the daemon does not do what its comments say; see section 5 |
| `preset_agent` | the workspaces of `parts` with one configured agent tab | a sixth one, of the tabs |
| `unread_drain` | the todo store of `parts` | a seventh one, of the todo store |

Bounds. One key is enough for a run: steps for different keys share nothing but
the connection count, the generation counter and the spawn gate, each of which
one key exercises; the proofs are for any number of keys. Two children let a
key be evicted as silent, or its child be killed or exit, and respawned while the threads
of the former child are still about, with output of its own in hand; longer chains of
children and clients are left to the proofs. Two spawning clients are what the spawn race
takes; the reattaching one is denied, or finds what they left behind. (The CONSTRAINT
`ReattachesAlone` of that run keeps it from being there together with them, which would
make the state space several times as large; `daemon_live`, with one child, and `parts`, with
one spawning client, are without it.) A ring of two chunks and three chunks of output are the least with which a ring
has an order, and evicts the oldest of several: a push that drops the wrong one, or puts
one in the wrong place, is seen (`RingIsTail`), as is a replay of several (`parts`). Two
clients and a grace of three
ticks let a probe come and go inside a grace window that another client began.
Two connections with two requests each can cross in `Record` and `Enqueue` while
a third size is parked in the resize call. Two buffers, different ones, are the
least of which one can overtake, double or skip the other; the second write lets
a break fall before, between and after them. For the todo store two rows make an
edit of one visible beside the store's work on the other, a history of two
snapshots evicts at the third and lets one undo follow another, and one fault,
which may be a crash, falls at every step of every operation (what takes two is
left to the proofs, which are for any number). Four Git requests are a burst that
is coalesced, and after it an overlay or a load that it races; of three directories one is outside a repository. Three workspaces let the one
closed lie before, at or behind the active one; two tabs in a group make the next
one find it full, six panes are two workspaces with a new tab each, and their
duplicates. Connections, children and keys are
interchangeable in the safety runs and declared symmetric there; the liveness
runs use no symmetry.

Deadlock checking is off in every run: clients may all have closed and every
child have exited, the store may be down for good, counters are at their bounds, and
then there really is nothing left to do.

Fairness. Weak fairness of every connection task and thread: the Tokio runtime
polls ready tasks and the OS schedules threads. Nothing is assumed of clients
and children: they may stay, leave, write or exit at any time or never. The
spawn gate needs no strong fairness since a connection passes it at most once. The pump
goes on serving what there is to read (`PumpServe`), while a read need not end it.
In DaemonLifetime the tick is weakly fair and a woken shutdown is taken
eventually (strong fairness: the select picks among ready branches at random); nothing is
assumed of when an accept call fails, nor of when the loop takes its error.
In PtyControl the return of the resize call is *not* fair, so that what holds,
holds with a wedged pseudo-console. In
StdinPath a write to the socket or to the PTY does return, with success or an
error (for a peer that neither reads nor goes away neither is so, and then
nothing arrives), and a child that was killed
exits; nothing makes the pane type, kill or close. `parts` states no liveness:
its action properties and invariants need no fairness.

## 4. The proofs

Proved for all values of the constants, from the named assumptions of the
modules only (distinct sentinels, requests of the right type, positive ring
capacity, idle time and so on). Where a comment of the code is refuted by a run,
the proofs say under which hypothesis it holds; each such hypothesis stands in the
statement of its theorem, and below.

* `SessionDaemonProofs`: `TypeOK`, `RegistrationsOwned`, `HostedIsWatched`,
  `RingIsTail`, `ForgottenIffKilled`. `HostedIsWatched` does not say that a session is
  read for as long as it is hosted, since the code does not see to that: a read may end
  the pump. It says that nothing else takes its threads from it. None of the five is
  inductive by itself. The invariant
  `IInv` adds `OwnerInv` (a child spawned but not yet published belongs to one
  connection, for the key it asked for), `ThreadInv` (threads start at
  publication), `HomeInv` (a key hosts a published child of that key), `GenInv`
  (published children have distinct generations below the counter), `CountedInv`
  and `RingInv`. The argument turns on `OwnSessionIsOwn`: by `GenInv` the
  generation check of a pump or reaper accepts its own session and no other, so
  threads of a former child cannot disturb the newcomer. `RingPushTail` says what
  a push does to a tail, for any capacity.
* `DaemonLifetimeProofs`: `LifeTypeOK` (which includes that the connection count
  matches the connections being served, and that the grace is never zero) and
  the action property `GraceHonoured`. `ClockInv` relates the idle clock to the
  history variable: while it runs without a waiting client, no client has been
  counted for as many ticks as it shows. `StopsForReason` says all that makes the loop
  stop: a client asked for it (`AskedInv`: what wakes the loop is a request); an accept
  call failed, and then `run` returns without emptying the registry; or, with neither, no
  connection is accepted and unfinished and the idle period, or with live sessions the
  grace, has passed since the last. Its hypothesis is on the history counter only,
  which must not saturate below `IdleExitAfter`.
* `PtyControlProofs`: `TypeOK`, `NoLostWakeup`, `ExitedLeavesNothing`,
  `LatestWins`, which says what a refusal leaves of "the newest size wins": once the
  mailbox is drained the replica has the newest size, and the PTY has it or refused that
  very size, never one before it. `HandleInv` says the mailbox is closed only when no connection
  holds the handle, `NewestInv` where the newest size is (mailbox, in flight or
  applied), `WorkerInv` who owes the sleeping worker a notification.
* `SessionDaemonProofs`, second part: `StreamWellFormed` and `AttachedInSync`, on
  top of `IInv`. The two need each other: a client's log can only be continued
  soundly if it ends where its session's ring ends, so `StreamInv` has both, and that a connection that has not joined has no log.
  `InSync` says a log is a welcome and a run of one child's chunks that covers the
  ring; the lemmas on `Story` say that appending the next chunk keeps it so and
  appending an exit ends it. What a replay joins is settled by `RingInv`: the
  ring's chunks are consecutive.
* `SessionDaemonProofs`, third part: what is left of three refuted comments. Each
  theorem excludes one race, on a behaviour of `Spec`, and nothing else: kills,
  exits at any moment, silent children that are replaced, replays and respawns
  stay.
  `EvictsOnlyDead`: an insert finds no live session if no two connections stand
  between lookup and insert of one key (`InsertsAlone`; `ClearInv`: what the lookup
  saw is still so). `AttachIsAnswered`: no client is left without a frame if those
  that may spawn do not overlap under one key (`SpawnsAlone`; `SoloInv`: then nobody
  loses a race). The exit follows all output under two hypotheses, and it takes both. If a
  child is finalized only after its pump is done (`PumpReaps`, which is what the comment
  says of the code), the exit follows every chunk the pump *read*, whatever ended the pump
  (`ExitsFollowReads`; `EndInv`: a stream that has its exit is closed by it, and ends with
  the last chunk read). If moreover no read fails early (`PtyDrains`: a pump ends only
  with the child gone and all its output read), it follows all the child *wrote*
  (`ExitsFollowOutput`; `DrainedInv`: such a pump has read all that was written). A single client with the spawn specification satisfies the
  hypotheses of the first two; a reaper that waits for its pump satisfies `PumpReaps`, so
  that the three say what a repair has to establish, while `PtyDrains` is the operating
  system's to keep.
* `SessionDaemonProofs`, fourth part: `WaitsServed`, the safety half of
  `AttachSettles`, `DetachCompletes` and `ExitFinalized`. A connection that waits
  for the spawn gate waits for another that is spawning, one that drains is no longer
  among those any session sends to, and a session whose kill was requested has the
  request pending or a process that has exited. `WaitInv` makes it inductive: the
  gate is held exactly while its holder spawns.
* `PtyControlProofs`, second part: `GridSettlesUncrossed`, that the recorded size ends as
  the newest one if no two connections stand between record and enqueue at once
  (`RecordedAlone`; `GridInv`), and its corollary for a session with one client. Once no
  resize is under way the PTY has the recorded size or refused exactly that one. So the
  crossing that `resize_race` shows and a refusal of the newest size are the only ways the
  two can part.
* `StdinPathProofs`, of the writer: `TypeOK` and the refinement
  `ImplementsStdinQueue` (`Spec => Queue!QSpec`). `QueueInv` says where the accepted
  buffers are (written, being written, pending), `FailureInv` that the record of a
  failure is the last the worker does; `Simulation` maps each step to an abstract
  step or a stutter.
* `StdinPathProofs`, of the path: `PathTypeOK`, `KillNotLost` of every behaviour of
  `PathSpec`, and that `PathSpec` implements StdinQueue twice, through PtyWriter and
  as a whole (`TypedArrivesInOrder`). `KillInv` relates the open
  channels to the task: it ends of its own accord only with the kill on the wire,
  with the socket cut, or when stdin was closed and the controls were drained;
  and stdin is closed only after the kill was queued or by the drop of the handle. The
  kill that is queued between the two polls of the select is in the channel when the task
  finds stdin closed, and the drain meets it there.
  The refinement through PtyWriter has no new argument: each step of the path is a
  step of PtyWriter or leaves it alone, which is what allows its own theorem to be
  used. The refinement of the whole path needs `OrderInv`. What was typed is, in this order, on the wire, in the
  task's hands and in its channel; controls lie between, so the invariant says that
  *some* function numbers the typed buffers along the wire (`Sent`). On the daemon's
  side the writer has accepted as many as the connection has read, but for the one
  it holds (`Received`), as long as nobody has closed or failed; after that what has
  been accepted stays a prefix of what was typed, which is all that is needed.
* `StdinPathProofs`, the safety halves of the liveness of the path. `WriterServed`, of
  `AcceptedArrives` and `DropReleasesRaw`: while the worker sleeps nothing is queued
  and nothing closed but what a notification is still to come for, and when it ends,
  all that was accepted is written or a failure is on record. `KillObeyed`, of
  `KillArrives`: when the client's task and the daemon's connection are both done, a
  kill that was asked for has reached a session that was there, unless the socket
  broke; `ObeyInv` says that the connection stops reading early only without a session.
* `WorkbenchProofs`: `BundlesInPlace` and `FocusShown`. `Placed` says of two lists,
  an index, an active workspace and a stash that they fit; three lemmas about
  sequences, for a switch, an insertion and a removal, lead from lists that fit to
  lists that fit, and every workspace action is made of them. For the focus the
  invariant is `Sound`: each workspace is focused on a pane it shows.
* `WorkbenchProofs`, of the tabs: `BenchTypeOK`, `SessionsHaveTabs` and
  `AgentKeysDistinct`, from `PlaceInv`, `MapsInv`, `IdInv` and `TabsInv`. A pane is
  in one workspace and shown once, and root and instance name one workspace, so a
  key that says workspace, agent and slot is the key of one tab. `AgentKeysDistinct`
  is proved under `Preset = <<>>`, no configured agents; without that it is false
  (`preset_agent`). `ShellKeysDistinct` needs no hypothesis: by `ShellInv` a shell
  whose title has a number is hosted under the key of that number, and within a
  workspace the numbers differ. A new number is above all that titles show
  (`NextNumber`), and a copy takes over its original's numbers in order, one for each
  tab (`NumberChosen`).
* `GitPaneProofs`: `GitTypeOK`, `SnapshotSettles`, `LoadMoreAnswered` and the action
  property `OverlayNotOvertaken`. Requests, the worker's batch and the responses are
  one pipeline. Answers of different kinds overtake each other in it, those of one
  kind do not (`PipelineInv`); the newest snapshot request is in one of the three or
  shown (`NewestInv`). `AppliedShows` says what a poll that applies a whole queue
  shows: the last answer of each kind.
* `TodoStoreProofs`: `TodoTypeOK` with `TypesInv`, and three properties, each with an
  invariant of its own.
  `NoRowLost` (`KeptInv`): file, what the store has seen of it and its memory have the
  same rows, up to what is late, carried, excused or, for a blind drain, unread; what any
  other operation writes over, it has read. It holds through any number of faults and
  crashes. Of the rows in `unread` it says nothing: `UnreadKept` would, and is false.
  `UndoSparesEdits` (`EditInv`): of a row that is an editor's, every snapshot in the
  history has as many copies as the store has last seen, unless the store has yet to
  see that the editor took it out, and then it will reload first. That is why
  `apply_external_state` clears the history.
  `NoRowDoubled` (`CountInv`): as long as no fault has happened, the copies of a row
  in the four files are one, and one more exactly while an archive or a drain has
  written the file it moves the row to and not yet the one it takes it from.
* `ListLemmas`: the installed provers cannot use an induction theorem over a
  predicate. `LeastNatural` gets the least element of a set of numbers from the
  library's well-foundedness of `<`; `Induction` (over a *set*) and `Recursion`
  (functions defined by recursion up to n) follow, and from them what `Keep` returns:
  the elements at the positions, in order, each as often as it is there.

The provers cannot evaluate arithmetic on a `Cardinality` of unknown sets, so the
counting in TodoStoreProofs rests on lemmas on `Copies` (of a concatenation, of what
`Keep` and `Without` leave, of an appended row).

Only model-checked: the liveness properties (`AttachSettles`, `DetachCompletes`,
`ExitFinalized`, `UnusedDaemonExits`, `KillNotDelayed`, `WorkersEnd`,
`AcceptedArrives`, `DropReleasesRaw`, `KillArrives`), since TLAPS does not reason
about fairness and ENABLED. Every invariant, action property and refinement of a
passing run is a theorem about the specification of its part; that MCParts runs four
of those side by side is not proved. The violation runs are counterexamples and stay
with TLC; section 5 names the theorems that complement them.

## 5. Where the code and its comments differ

1. `trailing_output`: the module comment of `daemon.rs` says the pump reaps, so
   `Exited` follows all output. Reaping is a thread of its own, and a session can
   be finalized while its pump holds a chunk, which is then dropped. With
   finalization after the pump, and reads that fail only at the end, the comment holds
   (`ExitsFollowOutput`).
2. `spawn_race`: "Only a `Dead` record can be evicted here". Probe and insert are
   separate lock holds outside the gate, so a live session can be evicted, and
   its child goes on without a host. Without two of them between probe and insert
   it cannot (`EvictsOnlyDead`).
3. `attach_answered`: the loser of a spawn race whose winner has already ended
   enters its control loop with no frame queued; its client waits for an answer
   that never comes. Only the loser of a race does (`AttachIsAnswered`).
4. `shutdown`: `notify_waiters` stores no permit, so a shutdown acknowledged
   while the loop runs another branch is lost.
5. `resize_race`: the recorded size "may briefly lead the real size"; after two
   crossing resizes it differs for good. Else it does so only when the PTY refuses the
   recorded size, an error that `resize_session` logs and does not try again
   (`GridSettlesUncrossed`). `GridSettles` leaves that second case out, so that the run
   shows the first.
6. `preset_agent`: "two tabs of the same agent no longer collide on one daemon
   session". A tab that comes from the configuration's `agents.tabs` has slot 0's
   key but no entry among the slots in use, so the first tab of that agent opened
   by hand gets the same key. `AgentKeysDistinct` holds in `parts`, which checks
   it as the program comes, with no agents configured.
7. `unread_drain`: after an error reading the todo file `apply_external_state`
   "preserves in-memory tasks and signals the caller to abort, since persisting on top of
   an unverified file could overwrite content we couldn't read" (`external.rs:18`). Mutators
   do abort; the poll does not (`app/mod.rs:682`, and `check_external_changes` after it):
   it reports the error and drains the inbox, whose write puts the tasks in memory over
   the file. A row that an editor had added is then in no file. (`read_to_string` fails of
   any file that is not UTF-8, so the error need not be one of the disk.) `UnreadKept` is
   what the comment promises, and `NoRowLost` says what holds of all other rows.

Read in the code and not run: the comment at the end of `run` that no session can
be live when the loop breaks (shutdown and a finite grace break with live ones);
a connection whose session was respawned writes, resizes and kills the newer one,
as requests name a key and not a generation; `remote_pump` tells its pane nothing when the socket
ends without `Exited`.

In the daemon, modelled and against no comment: an accept error ends `run` without a
kill of the live sessions (`LoopAcceptFails`), and the read error that ends a pump leaves
its session hosted with nobody reading it (`PumpEof`); attaching clients get the ring and
then nothing.

In the todo store: an unarchive writes
the archive first, and a failure after it leaves the row in neither file, as does
an undo of an unarchive (`NoRowLost` excuses both); the reconcile of a drain comes
before the lock; when the write of a drain fails, `history.pop` takes back the
push but not the snapshot that push evicted at the limit; `complete_many` spawns recurring successors without the check `toggle_complete`
makes.

A blind drain (item 7) also keeps the undo snapshots from before the edit it writes over.
It takes two failures for an undo to reach one: the store deletes a task and cannot write the
file, an editor removes the same line, the poll cannot read that, the drain adds a
captured task, and the second undo brings the line back. The proof of
`UndoSparesEdits` is what showed it, when its invariant would not hold; an edit that
was overwritten therefore no longer counts as the editor's.

In the tabs: the number of a new shell comes from titles, so renaming a live shell
gives its number and its daemon key out again (`ShellKeysDistinct` is a theorem and
speaks of shells that were not renamed; it cannot say more); `tabs_state.rs:19` calls the next agent slot
a monotonic tombstone, the code takes the smallest free one; an agent tab refused
by a full group keeps its session (`refused`); a status report that arrives for a
closed pane is stored again. A resumed agent tab is keyed by a fresh pane number, "unique
per launch" (app.rs:6162), but numbers start at 1 in every launch (pane.rs:22), so under a
daemon that outlived the launch before, "a unique key means the daemon spawns a new child
even if a same-key session lingers" need not hold: a resumed tab may be given the session
of another conversation that was resumed earlier. Closing a resumed tab takes it out of
the tab group and not out of `landscape_tabs.agents`, which `close_tab_in_group` does for
tabs in `pane_agent_id` only (app.rs:6500–6542), so that a later rebuild of the layout
brings back a tab without a pane. In the Git pane, `refresh` while the answer to
`refresh_for` is pending asks for the directory shown before, with the higher
generation.

## 6. Not modelled, and the plan

Not modelled: text parsing and presentation (terminal emulation, markdown,
natural-language dates, panes), OS calls beyond their effect, network front ends
(GitLab, stocks, models), configuration files, third-party code.

Within the parts that are modelled: of the client, the output direction
(`remote_pump`, the parser thread) and connecting with autostart; of the todo
store, edits of a row's text; of the workspaces, resumed agent tabs, split ratios, the
left groups, placeholder panes and the restart with remembered tabs; of the session daemon,
writer tasks whose socket fails. The agent status store is left out for good: its
update rule is one comparison and the sources of its reports are outside.

Order of work:

1. *(done)* SessionDaemon, DaemonLifetime, PtyControl, StdinQueue and PtyWriter,
   their runs and first proofs.
2. *(done)* Proofs of `StreamWellFormed` and `AttachedInSync`.
3. *(done)* RemoteSession and its composition with the daemon's connection and
   PtyWriter in StdinPath; the kill reaches the wire, proved.
4. *(done)* TodoStore, GitPane, Workbench, and the proofs of the workspaces' lists.
5. *(done)* Proofs of `TypedArrivesInOrder`, of the properties of the tabs, of
   GitPane and of TodoStore: every safety property of the runs is a theorem.
6. `DaemonEndpoint`: connect, autostart, bind and removal of the socket with two
   clients and two daemons, crash and early return; the composition of
   DaemonLifetime with SessionDaemon at exit.
7. `FrameCodec`: framing and its limits against a reference definition, with the
   chunks of a replay; `ResizeThrottle` and `SyncTimeout`; the updater.
8. *(done in part)* Stronger statements about what is modelled: distinct keys of shells
   that were not renamed, what remains of the refuted comments, the safety halves of
   the liveness properties. Left: what an unarchive guarantees when it fails.
9. Launches of the workbench under one lasting daemon: remembered and resumed tabs, and
   whose keys meet whose sessions.
