---------------------------- MODULE SessionDaemon ----------------------------
(***************************************************************************)
(* The session registry of rimeterm's daemon (rimeterm-pty, sessiond):     *)
(* client connections that attach to sessions, the children they spawn,    *)
(* and the pump, reaper and kill threads that serve each child.            *)
(*                                                                         *)
(* One step is one hold of the registry lock, one await, or one blocking   *)
(* call: that is the grain at which connection tasks and child threads     *)
(* interleave in the daemon.  A Child is both the OS process and the       *)
(* LiveSession that owns it; entry maps a key to the LiveSession hosted    *)
(* there.  Output is counted in chunks (one successful read of the PTY),   *)
(* and the age test of the silent-child rule is nondeterministic: a child  *)
(* may be on either side of the 15 s threshold whenever it is looked at.   *)
(* What a connection's queue carries to its socket is FIFO, so the         *)
(* connection's whole outbound log stands for what its client reads.       *)
(***************************************************************************)
EXTENDS Naturals, Sequences, FiniteSets

CONSTANTS
  Key,      \* session keys
  Conn,     \* client connections; each is accepted once (its conn_id)
  Child,    \* children that may be spawned (bound)
  Absent,   \* no entry under a key
  Dead,     \* Entry::Dead
  Nobody,   \* no connection holds the spawn gate
  None,     \* a connection's local `session` before it spawned one
  AttachKey,\* the key each connection's Attach names
  Spawners, \* the connections whose Attach carries a spawn spec
  Home,     \* the key each child would be spawned for
  WaitFails,\* the children whose wait() returns an error
  RingCap,  \* chunks a session's ring retains
  MaxOut    \* chunks the children write between them (bound)

ASSUME ConstantsDistinct ==
  /\ Absent \notin Child /\ Dead \notin Child /\ None \notin Child
  /\ Absent # Dead
  /\ Nobody \notin Conn
ASSUME RequestsAssumption ==
  /\ AttachKey \in [Conn -> Key] /\ Spawners \subseteq Conn
  /\ Home \in [Child -> Key] /\ WaitFails \subseteq Child
ASSUME BoundsAssumption == RingCap \in Nat \ {0} /\ MaxOut \in Nat

VARIABLES
  \* Registry, under the lock
  entry,    \* [Key -> Child \cup {Absent, Dead}]: Registry::sessions
  nextGen,  \* Registry::next_generation
  conns,    \* Registry::conns, as the set of connections counted
  \* LiveSession, under the lock
  gen, killed, silence, ring, attached,
  \* connection tasks
  pc, mine, respawned, sent, gate,
  \* the child process and its threads
  proc, killReq, wrote, pulled, pump, reaper

regVars   == <<entry, nextGen, conns>>
sessVars  == <<gen, killed, silence, ring, attached>>
connVars  == <<pc, mine, respawned, sent, gate>>
childVars == <<proc, killReq, wrote, pulled, pump, reaper>>
vars == <<regVars, sessVars, connVars, childVars>>

ConnPc == { "idle", "fast", "killStale", "slow", "spawning", "probe",
            "killDup", "rejoin", "insert", "serving", "detach", "drain", "closed" }

\* Frames the daemon queues for a client.  child and n identify the session
\* and the chunk for the properties; the wire carries only the payload.
Frame == [kind : {"welcome", "out", "exited", "denied"},
          child : Child \cup {None}, n : Nat]
Welcome(ch)  == [kind |-> "welcome", child |-> ch, n |-> 0]
Output(ch,i) == [kind |-> "out",     child |-> ch, n |-> i]
Exited(ch)   == [kind |-> "exited",  child |-> ch, n |-> 0]
Denied       == [kind |-> "denied",  child |-> None, n |-> 0]

Live(k) == entry[k] \in Child

\* (Definitions named X_slip are mistakes a change to X could introduce; no
\* action uses them.  They exist to see that the properties notice.)

\* Slip: a thread takes any live session under its key for its own.
OwnSession_anyGeneration(ch) == Live(Home[ch])

\* The live session of child ch's key, if it carries ch's generation: the
\* check with which a pump or reaper thread finds its own session.
OwnSession(ch) == Live(Home[ch]) /\ gen[entry[Home[ch]]] = gen[ch]

-----------------------------------------------------------------------------
Init ==
  /\ entry = [k \in Key |-> Absent]
  /\ nextGen = 0
  /\ conns = {}
  /\ gen = [ch \in Child |-> 0]
  /\ killed = [ch \in Child |-> FALSE]
  /\ silence = [ch \in Child |-> FALSE]
  /\ ring = [ch \in Child |-> <<>>]
  /\ attached = [ch \in Child |-> {}]
  /\ pc = [c \in Conn |-> "idle"]
  /\ mine = [c \in Conn |-> None]
  /\ respawned = [c \in Conn |-> FALSE]
  /\ sent = [c \in Conn |-> <<>>]
  /\ gate = Nobody
  /\ proc = [ch \in Child |-> "unborn"]
  /\ killReq = [ch \in Child |-> FALSE]
  /\ wrote = [ch \in Child |-> 0]
  /\ pulled = [ch \in Child |-> 0]
  /\ pump = [ch \in Child |-> "off"]
  /\ reaper = [ch \in Child |-> "off"]

Goto(c, l) == pc' = [pc EXCEPT ![c] = l]
Send(c, frames) == sent' = [sent EXCEPT ![c] = @ \o frames]

\* A blocking tree kill by the thread that runs it: SIGKILL, so the child is
\* gone afterwards whether or not it was still running.
KillTree(ch) == proc' = [proc EXCEPT ![ch] = "exited"]

-----------------------------------------------------------------------------
(* Connection tasks: handle_conn, serve_client, serve_attached.            *)

\* A new connection is counted and its first frame is an Attach for
\* AttachKey[c].  (Probes and refused first frames: module DaemonLifetime.)
Connect(c) ==
  /\ pc[c] = "idle"
  /\ conns' = conns \cup {c}
  /\ Goto(c, "fast")
  /\ UNCHANGED <<entry, nextGen, sessVars, mine, respawned, sent, gate, childVars>>

\* EOF or a malformed first frame: nothing was registered, so the connection
\* goes straight to dropping its sender.
ConnectGone(c) ==
  /\ pc[c] = "idle"
  /\ conns' = conns \cup {c}
  /\ Goto(c, "drain")
  /\ UNCHANGED <<entry, nextGen, sessVars, mine, respawned, sent, gate, childVars>>

\* Slip: the client is welcomed without the replay.
Register_noReplay(c, ch) ==
  /\ attached' = [attached EXCEPT ![ch] = @ \cup {c}]
  /\ Send(c, <<Welcome(ch)>>)
  /\ Goto(c, "serving")

\* Slip: the two slices of the ring's deque are replayed in the wrong order.
Register_swappedSlices(c, ch) ==
  /\ attached' = [attached EXCEPT ![ch] = @ \cup {c}]
  /\ Send(c, <<Welcome(ch)>> \o (IF ring[ch] = <<>> THEN <<>> ELSE Tail(ring[ch]) \o <<Head(ring[ch])>>))
  /\ Goto(c, "serving")

\* Attach c to the live session ch: register its sender and queue Welcome and
\* the replay of the ring, all in one hold of the registry lock.
Register(c, ch) ==
  /\ attached' = [attached EXCEPT ![ch] = @ \cup {c}]
  /\ Send(c, <<Welcome(ch)>> \o ring[ch])
  /\ Goto(c, "serving")

\* is_silent_child without the age: never wrote, not itself a replacement for
\* a silent child, and the client brought the means to respawn it.
MaybeSilent(c, ch) == ring[ch] = <<>> /\ ~silence[ch] /\ c \in Spawners

FastHit(c) ==
  /\ pc[c] = "fast"
  /\ Live(AttachKey[c])
  /\ Register(c, entry[AttachKey[c]])
  /\ UNCHANGED <<regVars, gen, killed, silence, ring, mine, respawned, gate, childVars>>

\* A silent child: its clients are dropped without a word, it is marked
\* killed and taken out of the registry, to be killed off the lock.
FastSilent(c) ==
  /\ pc[c] = "fast"
  /\ Live(AttachKey[c])
  /\ LET ch == entry[AttachKey[c]] IN
       /\ MaybeSilent(c, ch)
       /\ attached' = [attached EXCEPT ![ch] = {}]
       /\ killed' = [killed EXCEPT ![ch] = TRUE]
       /\ mine' = [mine EXCEPT ![c] = ch]
  /\ entry' = [entry EXCEPT ![AttachKey[c]] = Absent]
  /\ respawned' = [respawned EXCEPT ![c] = TRUE]
  /\ Goto(c, "killStale")
  /\ UNCHANGED <<nextGen, conns, gen, silence, ring, sent, gate, childVars>>

KillStale(c) ==
  /\ pc[c] = "killStale"
  /\ KillTree(mine[c])
  /\ mine' = [mine EXCEPT ![c] = None]
  /\ Goto(c, "slow")
  /\ UNCHANGED <<regVars, sessVars, respawned, sent, gate,
                 killReq, wrote, pulled, pump, reaper>>

FastMiss(c) ==
  /\ pc[c] = "fast"
  /\ ~Live(AttachKey[c])
  /\ Goto(c, "slow")
  /\ UNCHANGED <<regVars, sessVars, mine, respawned, sent, gate, childVars>>

\* A pure reattach that missed is denied, whatever the key hosts by now.
SlowDeny(c) ==
  /\ pc[c] = "slow"
  /\ c \notin Spawners
  /\ Send(c, <<Denied>>)
  /\ Goto(c, "drain")
  /\ UNCHANGED <<regVars, sessVars, mine, respawned, gate, childVars>>

\* The spawn gate serializes openpty + CreateProcess across connections.
GateAcquire(c) ==
  /\ pc[c] = "slow"
  /\ c \in Spawners
  /\ gate = Nobody
  /\ gate' = c
  /\ Goto(c, "spawning")
  /\ UNCHANGED <<regVars, sessVars, mine, respawned, sent, childVars>>

\* spawn_session returns: the child runs, the gate guard is dropped, and the
\* new LiveSession is still local to the connection.
SpawnOk(c, ch) ==
  /\ pc[c] = "spawning"
  /\ proc[ch] = "unborn"
  /\ Home[ch] = AttachKey[c]
  /\ proc' = [proc EXCEPT ![ch] = "running"]
  /\ mine' = [mine EXCEPT ![c] = ch]
  /\ silence' = [silence EXCEPT ![ch] = respawned[c]]
  /\ gate' = Nobody
  /\ Goto(c, "probe")
  /\ UNCHANGED <<regVars, gen, killed, ring, attached, respawned, sent,
                 killReq, wrote, pulled, pump, reaper>>

\* Slip: the early return leaks the gate.
SpawnFail_keepsGate(c) ==
  /\ pc[c] = "spawning"
  /\ Send(c, <<Denied>>)
  /\ Goto(c, "drain")
  /\ UNCHANGED <<regVars, sessVars, mine, respawned, gate, childVars>>

\* openpty, the program or the control workers failed to start.
SpawnFail(c) ==
  /\ pc[c] = "spawning"
  /\ gate' = Nobody
  /\ Send(c, <<Denied>>)
  /\ Goto(c, "drain")
  /\ UNCHANGED <<regVars, sessVars, mine, respawned, childVars>>

\* Did another connection host this key meanwhile?  The answer outlives the
\* lock it was read under.
Probe(c) ==
  /\ pc[c] = "probe"
  /\ Goto(c, IF Live(AttachKey[c]) THEN "killDup" ELSE "insert")
  /\ UNCHANGED <<regVars, sessVars, mine, respawned, sent, gate, childVars>>

KillDup(c) ==
  /\ pc[c] = "killDup"
  /\ KillTree(mine[c])
  /\ mine' = [mine EXCEPT ![c] = None]
  /\ Goto(c, "rejoin")
  /\ UNCHANGED <<regVars, sessVars, respawned, sent, gate,
                 killReq, wrote, pulled, pump, reaper>>

\* Attach to the earlier session if it is still there; the connection enters
\* the control loop either way.
Rejoin(c) ==
  /\ pc[c] = "rejoin"
  /\ \/ /\ Live(AttachKey[c])
        /\ Register(c, entry[AttachKey[c]])
     \/ /\ ~Live(AttachKey[c])
        /\ Goto(c, "serving")
        /\ UNCHANGED <<attached, sent>>
  /\ UNCHANGED <<regVars, gen, killed, silence, ring, mine, respawned, gate, childVars>>

\* Slip: the threads start before the entry is published and may have given
\* up by the time it is.
Insert_afterThreads(c) ==
  /\ pc[c] = "insert"
  /\ LET ch == mine[c] IN
       /\ gen' = [gen EXCEPT ![ch] = nextGen]
       /\ entry' = [entry EXCEPT ![AttachKey[c]] = ch]
       /\ attached' = [attached EXCEPT ![ch] = {c}]
       /\ Send(c, <<Welcome(ch)>>)
       /\ pump' \in {[pump EXCEPT ![ch] = st] : st \in {"reading", "retired"}}
       /\ reaper' \in {[reaper EXCEPT ![ch] = st] : st \in {"starting", "done"}}
  /\ nextGen' = nextGen + 1
  /\ mine' = [mine EXCEPT ![c] = None]
  /\ Goto(c, "serving")
  /\ UNCHANGED <<conns, killed, silence, ring, respawned, gate, proc, killReq, wrote, pulled>>

\* Publish the new session under a fresh generation and start its threads.
\* Whatever was under the key is replaced; a live session evicted this way is
\* dropped, and its senders with it.
Insert(c) ==
  /\ pc[c] = "insert"
  /\ LET ch == mine[c] IN
       /\ gen' = [gen EXCEPT ![ch] = nextGen]
       /\ entry' = [entry EXCEPT ![AttachKey[c]] = ch]
       /\ attached' = [x \in Child |-> IF x = ch THEN {c}
                                       ELSE IF x = entry[AttachKey[c]] THEN {} ELSE attached[x]]
       /\ Send(c, <<Welcome(ch)>>)
       /\ pump' = [pump EXCEPT ![ch] = "reading"]
       /\ reaper' = [reaper EXCEPT ![ch] = "starting"]
  /\ nextGen' = nextGen + 1
  /\ mine' = [mine EXCEPT ![c] = None]
  /\ Goto(c, "serving")
  /\ UNCHANGED <<conns, killed, silence, ring, respawned, gate,
                 proc, killReq, wrote, pulled>>

-----------------------------------------------------------------------------
(* The control loop of an attached connection.                             *)

\* Slip: the kill is recorded but the worker is never notified.
ClientKill_marksOnly(c) ==
  /\ pc[c] = "serving"
  /\ Live(AttachKey[c])
  /\ killed' = [killed EXCEPT ![entry[AttachKey[c]]] = TRUE]
  /\ UNCHANGED <<regVars, gen, silence, ring, attached, connVars, childVars>>

\* Kill: mark whatever the key hosts now and notify its kill worker.  The
\* connection stays; without a live session the request has no effect.
ClientKill(c) ==
  /\ pc[c] = "serving"
  /\ Live(AttachKey[c])
  /\ killed' = [killed EXCEPT ![entry[AttachKey[c]]] = TRUE]
  /\ killReq' = [killReq EXCEPT ![entry[AttachKey[c]]] = TRUE]
  /\ UNCHANGED <<regVars, gen, silence, ring, attached, connVars,
                 proc, wrote, pulled, pump, reaper>>

\* stdin bytes or a resize for a key that hosts nothing live end the loop.
\* (For a live session they feed its writer queue and its resize mailbox,
\* neither of which the registry reads back.)
ClientInputToDead(c) ==
  /\ pc[c] = "serving"
  /\ ~Live(AttachKey[c])
  /\ Goto(c, "detach")
  /\ UNCHANGED <<regVars, sessVars, mine, respawned, sent, gate, childVars>>

\* EOF, Detach, a second Attach or an unreadable frame.
ClientLeave(c) ==
  /\ pc[c] = "serving"
  /\ Goto(c, "detach")
  /\ UNCHANGED <<regVars, sessVars, mine, respawned, sent, gate, childVars>>

\* Slip: the registration stays behind (the deadlock handle_conn describes).
Unregister_nothing(c) ==
  /\ pc[c] = "detach"
  /\ Goto(c, "drain")
  /\ UNCHANGED <<regVars, sessVars, mine, respawned, sent, gate, childVars>>

\* Remove exactly this connection's sender from the session under its key.
Unregister(c) ==
  /\ pc[c] = "detach"
  /\ attached' = [ch \in Child |->
                    IF ch = entry[AttachKey[c]] THEN attached[ch] \ {c} ELSE attached[ch]]
  /\ Goto(c, "drain")
  /\ UNCHANGED <<regVars, gen, killed, silence, ring, mine, respawned, sent, gate,
                 childVars>>

\* The writer task ends when no clone of the sender is left in a hosted
\* session; then its channel is freed and the connection discounted.
Drain(c) ==
  /\ pc[c] = "drain"
  /\ \A k \in Key : Live(k) => c \notin attached[entry[k]]
  /\ conns' = conns \ {c}
  /\ sent' = [sent EXCEPT ![c] = <<>>]
  /\ Goto(c, "closed")
  /\ UNCHANGED <<entry, nextGen, sessVars, mine, respawned, gate, childVars>>

-----------------------------------------------------------------------------
(* The child process and its threads.                                      *)

\* The chunks written so far.
Written == {x \in Child \X (1..MaxOut) : x[2] <= wrote[x[1]]}

ChildWrite(ch) ==
  /\ proc[ch] = "running"
  /\ Cardinality(Written) < MaxOut
  /\ wrote' = [wrote EXCEPT ![ch] = @ + 1]
  /\ UNCHANGED <<regVars, sessVars, connVars, proc, killReq, pulled, pump, reaper>>

ChildExit(ch) ==
  /\ proc[ch] = "running"
  /\ proc' = [proc EXCEPT ![ch] = "exited"]
  /\ UNCHANGED <<regVars, sessVars, connVars, killReq, wrote, pulled, pump, reaper>>

\* The session's kill worker serves the one request its channel holds.
KillWorker(ch) ==
  /\ killReq[ch] /\ proc[ch] = "running"
  /\ KillTree(ch)
  /\ UNCHANGED <<regVars, sessVars, connVars, killReq, wrote, pulled, pump, reaper>>

\* child_pump: a read returns the next chunk; no lock is held.
PumpRead(ch) ==
  /\ pump[ch] = "reading"
  /\ pulled[ch] < wrote[ch]
  /\ pulled' = [pulled EXCEPT ![ch] = @ + 1]
  /\ pump' = [pump EXCEPT ![ch] = "holding"]
  /\ UNCHANGED <<regVars, sessVars, connVars, proc, killReq, wrote, reaper>>

\* Slips: a full ring evicts the chunk behind the oldest, or nothing.
RingPush_second(r, x) == LET s == Append(r, x) IN
  IF Len(s) > RingCap THEN <<Head(s)>> \o Tail(Tail(s)) ELSE s
RingPush_never(r, x) == Append(r, x)

\* ByteRing::push, in chunks: the oldest falls off the front.
RingPush(r, x) == LET s == Append(r, x) IN IF Len(s) > RingCap THEN Tail(s) ELSE s

\* Every sender registered with session s gets the frame.
Broadcast(s, f) ==
  sent' = [c \in Conn |-> IF c \in attached[s] THEN Append(sent[c], f) ELSE sent[c]]

\* child_pump with the lock: retain the chunk and broadcast it, if the key
\* still hosts this pump's generation.
PumpPush(ch) ==
  /\ pump[ch] = "holding"
  /\ OwnSession(ch)
  /\ LET s == entry[Home[ch]]
         f == Output(ch, pulled[ch])
     IN  /\ ring' = [ring EXCEPT ![s] = RingPush(@, f)]
         /\ Broadcast(s, f)
  /\ pump' = [pump EXCEPT ![ch] = "reading"]
  /\ UNCHANGED <<regVars, gen, killed, silence, attached, pc, mine, respawned, gate,
                 proc, killReq, wrote, pulled, reaper>>

\* Finalized, forgotten or respawned meanwhile: the chunk is dropped.
PumpRetire(ch) ==
  /\ pump[ch] = "holding"
  /\ ~OwnSession(ch)
  /\ pump' = [pump EXCEPT ![ch] = "retired"]
  /\ UNCHANGED <<regVars, sessVars, connVars, proc, killReq, wrote, pulled, reaper>>

\* A read returns EOF or an error.  The PTY may answer so at any time, with the
\* child still running and output left: nobody reads that session any more,
\* and it stays hosted.
PumpEof(ch) ==
  /\ pump[ch] = "reading"
  /\ pump' = [pump EXCEPT ![ch] = "ended"]
  /\ UNCHANGED <<regVars, sessVars, connVars, proc, killReq, wrote, pulled, reaper>>

\* child_reaper takes the child handle out of its own session, or gives up.
ReaperStart(ch) ==
  /\ reaper[ch] = "starting"
  /\ reaper' = [reaper EXCEPT ![ch] = IF OwnSession(ch) THEN "waiting" ELSE "done"]
  /\ UNCHANGED <<regVars, sessVars, connVars, proc, killReq, wrote, pulled, pump>>

\* Slip: the killed flag is ignored.
ReaperFinalize_alwaysDead(ch) ==
  /\ reaper[ch] = "waiting"
  /\ proc[ch] = "exited" /\ ch \notin WaitFails
  /\ OwnSession(ch)
  /\ LET s == entry[Home[ch]] IN
       /\ Broadcast(s, Exited(ch))
       /\ attached' = [attached EXCEPT ![s] = {}]
       /\ entry' = [entry EXCEPT ![Home[ch]] = Dead]
  /\ reaper' = [reaper EXCEPT ![ch] = "done"]
  /\ UNCHANGED <<nextGen, conns, gen, killed, silence, ring, pc, mine, respawned, gate,
                 proc, killReq, wrote, pulled, pump>>

\* wait() returned: finalize_exit tells every client, then forgets a killed
\* session or leaves a Dead record.
ReaperFinalize(ch) ==
  /\ reaper[ch] = "waiting"
  /\ proc[ch] = "exited" /\ ch \notin WaitFails
  /\ OwnSession(ch)
  /\ LET s == entry[Home[ch]] IN
       /\ Broadcast(s, Exited(ch))
       /\ attached' = [attached EXCEPT ![s] = {}]
       /\ entry' = [entry EXCEPT ![Home[ch]] = IF killed[s] THEN Absent ELSE Dead]
  /\ reaper' = [reaper EXCEPT ![ch] = "done"]
  /\ UNCHANGED <<nextGen, conns, gen, killed, silence, ring, pc, mine, respawned, gate,
                 proc, killReq, wrote, pulled, pump>>

\* wait() failed, or it returned for a session that is no longer hosted.
ReaperGiveUp(ch) ==
  /\ reaper[ch] = "waiting"
  /\ \/ /\ ch \in WaitFails
        /\ reaper' = [reaper EXCEPT ![ch] = "failed"]
     \/ /\ ch \notin WaitFails
        /\ proc[ch] = "exited" /\ ~OwnSession(ch)
        /\ reaper' = [reaper EXCEPT ![ch] = "done"]
  /\ UNCHANGED <<regVars, sessVars, connVars, proc, killReq, wrote, pulled, pump>>

-----------------------------------------------------------------------------
ConnStep(c) ==
  \/ FastHit(c) \/ FastSilent(c) \/ KillStale(c) \/ FastMiss(c)
  \/ SlowDeny(c) \/ GateAcquire(c) \/ (\E ch \in Child : SpawnOk(c, ch)) \/ SpawnFail(c)
  \/ Probe(c) \/ KillDup(c) \/ Rejoin(c) \/ Insert(c)
  \/ Unregister(c) \/ Drain(c)

ClientStep(c) ==
  Connect(c) \/ ConnectGone(c)
  \/ ClientKill(c) \/ ClientInputToDead(c) \/ ClientLeave(c)

PumpServe(ch)  == PumpRead(ch) \/ PumpPush(ch) \/ PumpRetire(ch)
PumpStep(ch)   == PumpServe(ch) \/ PumpEof(ch)
ReaperStep(ch) == ReaperStart(ch) \/ ReaperFinalize(ch) \/ ReaperGiveUp(ch)
ChildStep(ch)  == ChildWrite(ch) \/ ChildExit(ch)

Next ==
  \/ \E c \in Conn : ClientStep(c) \/ ConnStep(c)
  \/ \E ch \in Child :
       ChildStep(ch) \/ KillWorker(ch) \/ PumpStep(ch) \/ ReaperStep(ch)

\* The Tokio runtime keeps polling a ready connection task and every OS
\* thread runs.  Weak fairness is enough for the spawn gate because each
\* connection passes it once.  Clients and children owe nothing, and a read
\* need not end the pump.
Fairness ==
  /\ \A c \in Conn : WF_vars(ConnStep(c))
  /\ \A ch \in Child : WF_vars(KillWorker(ch)) /\ WF_vars(PumpServe(ch)) /\ WF_vars(ReaperStep(ch))

Spec == Init /\ [][Next]_vars
FairSpec == Spec /\ Fairness

-----------------------------------------------------------------------------
(* Properties.                                                             *)

TypeOK ==
  /\ entry \in [Key -> Child \cup {Absent, Dead}]
  /\ nextGen \in Nat
  /\ conns \subseteq Conn
  /\ gen \in [Child -> Nat]
  /\ killed \in [Child -> BOOLEAN]
  /\ silence \in [Child -> BOOLEAN]
  /\ ring \in [Child -> Seq(Frame)]
  /\ attached \in [Child -> SUBSET Conn]
  /\ pc \in [Conn -> ConnPc]
  /\ mine \in [Conn -> Child \cup {None}]
  /\ respawned \in [Conn -> BOOLEAN]
  /\ sent \in [Conn -> Seq(Frame)]
  /\ gate \in Conn \cup {Nobody}
  /\ proc \in [Child -> {"unborn", "running", "exited"}]
  /\ killReq \in [Child -> BOOLEAN]
  /\ wrote \in [Child -> Nat]
  /\ pulled \in [Child -> Nat]
  /\ pump \in [Child -> {"off", "reading", "holding", "ended", "retired"}]
  /\ reaper \in [Child -> {"off", "starting", "waiting", "done", "failed"}]
  /\ \A ch \in Child : Len(ring[ch]) <= RingCap /\ pulled[ch] <= wrote[ch]

\* What a client reads is one session's story: a refusal, or Welcome, then
\* chunks of that one child without a gap, repeat or reordering, then at most
\* one Exited with nothing after it -- across replay, live output, respawns
\* of the key and the spawn race.
StreamWellFormed ==
  \A c \in Conn :
    LET s == sent[c] IN
      \/ s = <<>> \/ s = <<Denied>>
      \/ /\ s[1].kind = "welcome"
         /\ \A i \in 2..Len(s) :
              /\ s[i].child = s[1].child
              /\ \/ s[i].kind = "out" /\ (i > 2 => s[i].n = s[i-1].n + 1)
                 \/ s[i].kind = "exited" /\ i = Len(s)

\* A client attached to a hosted session has been sent that session's Welcome
\* and everything the ring retains, up to the newest chunk: no live chunk falls
\* between the replay snapshot and the registration of the sender.
AttachedInSync ==
  \A k \in Key : Live(k) => \A c \in attached[entry[k]] :
    LET s == sent[c]  r == ring[entry[k]] IN
      /\ s # <<>> /\ s[1] = Welcome(entry[k])
      /\ IF r = <<>> THEN Len(s) = 1
         ELSE /\ Len(s) > 1
              /\ s[Len(s)] = r[Len(r)]
              /\ s[2].n <= r[1].n

\* A session's ring holds its own child's newest chunks in order, and drops
\* none while it has room; between two chunks it ends with the last one read.
\* A pump that reaches the lock after its key was respawned leaves the
\* newcomer's ring alone.
RingIsTail ==
  \A ch \in Child :
    LET r == ring[ch] IN
      /\ \A i \in 1..Len(r) : r[i] = Output(ch, r[1].n + i - 1)
      /\ r # <<>> => Len(r) = RingCap \/ r[1].n = 1
      /\ pump[ch] \in {"reading", "ended"} => pulled[ch] = IF r = <<>> THEN 0 ELSE r[Len(r)].n

\* A sender registered with a hosted session belongs to a connection that
\* attached under that key and has not unregistered yet: no sender outlives
\* its connection, so its writer task can end.
RegistrationsOwned ==
  \A k \in Key : Live(k) => \A c \in attached[entry[k]] :
    AttachKey[c] = k /\ pc[c] \in {"serving", "detach"} /\ c \in conns

\* A hosted session is watched: its reaper is on its way to, or blocked in,
\* wait() (or wait() itself failed), and its pump reads on unless a read ended
\* it.  Neither thread takes its own session for another's, or for one that is
\* gone, and gives it up while it is hosted.
HostedIsWatched ==
  \A k \in Key : Live(k) =>
    LET ch == entry[k] IN
      /\ reaper[ch] \in {"starting", "waiting", "failed"}
      /\ pump[ch] \in {"reading", "holding", "ended"}

\* A session leaves the registry without a Dead record exactly when it was
\* killed: a natural exit stays known as Dead, an explicit kill is forgotten.
ForgottenIffKilled ==
  [][\A k \in Key : Live(k) /\ ~Live(k)'
        => (entry'[k] = Absent <=> killed'[entry[k]])]_vars

\* An Attach is settled: the connection reaches its control loop or its end,
\* whatever the other connections do at the spawn gate (clients may sit
\* attached forever).
AttachSettles ==
  \A c \in Conn : pc[c] = "fast" ~> pc[c] \in {"serving", "detach", "drain", "closed"}

\* A detached connection is fully torn down and discounted: its writer is not
\* kept alive by a sender left behind in a session.
DetachCompletes == \A c \in Conn : pc[c] \in {"detach", "drain"} ~> c \notin conns

\* A hosted child that is killed or exits by itself is finalized, unless
\* wait() fails; a kill never waits for anything but the kill worker.
ExitFinalized ==
  \A ch \in Child :
    (killed[ch] \/ proc[ch] = "exited") ~>
      (entry[Home[ch]] # ch \/ reaper[ch] = "failed")

\* The module header of daemon.rs: Exited is always the last frame after all
\* output -- every chunk the child wrote precedes it.
ExitedAfterAllOutput ==
  \A c \in Conn : \A i \in 1..Len(sent[c]) :
    LET f == sent[c][i] IN
      f.kind = "exited" /\ wrote[f.child] > 0 => sent[c][i-1].n = wrote[f.child]

\* The comment at the insert in serve_attached: only a Dead record can be
\* evicted there.
OnlyDeadEvicted == [][\A c \in Conn : Insert(c) => ~Live(AttachKey[c])]_vars

\* The protocol: an Attach is answered with a session or a refusal before the
\* connection enters its control loop.
AttachAnswered == \A c \in Conn : pc[c] = "serving" => sent[c] # <<>>
=============================================================================
