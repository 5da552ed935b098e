------------------------- MODULE SessionDaemonProofs -------------------------
(***************************************************************************)
(* Proofs about SessionDaemon, for any keys, connections, children, ring   *)
(* capacity and output bound: type correctness, the registry's safety      *)
(* invariants, the rule by which a session is forgotten, and what a client *)
(* is sent.                                                                *)
(*                                                                         *)
(* The inductive argument has four parts.  OwnerInv: a child that is       *)
(* spawned and not yet published belongs to exactly one connection, for    *)
(* the key that connection asked for.  ThreadInv: a child's threads start  *)
(* when it is published and not before.  HomeInv: a key hosts a published  *)
(* child spawned for that key.  GenInv: published children have different  *)
(* generations, so the generation check of a pump or reaper accepts its    *)
(* own session and no other.                                               *)
(*                                                                         *)
(* The streams rest on these and on StreamInv.  A connection has been sent *)
(* nothing until it is registered or refused; while it is registered its   *)
(* stream is Welcome and the chunks up to the newest of the ring; and the  *)
(* frame that may end it is sent by the step that removes the              *)
(* registration.                                                           *)
(*                                                                         *)
(* Three comments of the code are refuted by runs (spawn_race,             *)
(* attach_answered, trailing_output).  Each is proved here under a         *)
(* hypothesis on the behaviour that excludes the one race behind it.  The  *)
(* third takes two: that the pump is done before its child is reaped,      *)
(* which puts Exited behind all output the daemon read, and that the PTY   *)
(* ends the reading only after all output, without which no order of the   *)
(* daemon's own steps could do it.  WaitsServed is the safety half of the  *)
(* liveness properties.                                                    *)
(***************************************************************************)
EXTENDS SessionDaemon, SequenceTheorems, TLAPS

\* The connections that have spawned a child and not yet published it.
Holding == {c \in Conn : pc[c] \in {"probe", "killDup", "insert"}}

OwnerInv ==
  /\ \A c \in Conn : pc[c] = "killStale" => mine[c] \in Child /\ pump[mine[c]] # "off"
  /\ \A c \in Holding : /\ mine[c] \in Child
                        /\ Home[mine[c]] = AttachKey[c]
                        /\ proc[mine[c]] # "unborn"
                        /\ pump[mine[c]] = "off"
  /\ \A c, d \in Holding : c # d => mine[c] # mine[d]

ThreadInv ==
  \A ch \in Child :
    /\ pump[ch] = "off" <=> reaper[ch] = "off"
    /\ proc[ch] = "unborn" => pump[ch] = "off"

HomeInv == \A k \in Key : Live(k) => Home[entry[k]] = k /\ pump[entry[k]] # "off"

GenInv ==
  /\ \A ch \in Child : pump[ch] # "off" => gen[ch] < nextGen
  /\ \A a, b \in Child : pump[a] # "off" /\ pump[b] # "off" /\ a # b => gen[a] # gen[b]

CountedInv == \A c \in Conn : pc[c] \notin {"idle", "closed"} => c \in conns

-----------------------------------------------------------------------------
(* Frames and rings.                                                       *)

\* What the daemon queues for a client is a frame.
LEMMA FrameTypes ==
  /\ Denied \in Frame
  /\ \A ch \in Child : Welcome(ch) \in Frame /\ Exited(ch) \in Frame
  /\ \A ch \in Child, n \in Nat : Output(ch, n) \in Frame
BY DEF Denied, Welcome, Exited, Output, Frame

\* ByteRing::push keeps a ring of frames within its capacity.
LEMMA RingPushType ==
  ASSUME NEW r \in Seq(Frame), NEW f \in Frame, Len(r) <= RingCap
  PROVE  RingPush(r, f) \in Seq(Frame) /\ Len(RingPush(r, f)) <= RingCap
<1> DEFINE s == Append(r, f)
<1>1. s \in Seq(Frame) /\ Len(s) = Len(r) + 1 /\ s # <<>>
  OBVIOUS
<1>2. Tail(s) \in Seq(Frame) /\ Len(Tail(s)) = Len(s) - 1
  BY <1>1
<1> HIDE DEF s
<1> QED
  BY <1>1, <1>2, BoundsAssumption DEF BoundsAssumption, RingPush, s

-----------------------------------------------------------------------------
(* Type correctness.                                                       *)

\* The initial state is well typed.
LEMMA TypeInit == Init => TypeOK
<1> SUFFICES ASSUME Init PROVE TypeOK
  OBVIOUS
<1> USE BoundsAssumption DEF BoundsAssumption, Init
<1>1. entry \in [Key -> Child \cup {Absent, Dead}] /\ nextGen \in Nat /\ conns \subseteq Conn
  OBVIOUS
<1>2. /\ gen \in [Child -> Nat] /\ killed \in [Child -> BOOLEAN] /\ silence \in [Child -> BOOLEAN]
      /\ attached \in [Child -> SUBSET Conn]
  OBVIOUS
<1>3. ring \in [Child -> Seq(Frame)] /\ sent \in [Conn -> Seq(Frame)]
  OBVIOUS
<1>4. /\ pc \in [Conn -> ConnPc] /\ mine \in [Conn -> Child \cup {None}]
      /\ respawned \in [Conn -> BOOLEAN] /\ gate \in Conn \cup {Nobody}
  BY DEF ConnPc
<1>5. /\ proc \in [Child -> {"unborn", "running", "exited"}] /\ killReq \in [Child -> BOOLEAN]
      /\ wrote \in [Child -> Nat] /\ pulled \in [Child -> Nat]
      /\ pump \in [Child -> {"off", "reading", "holding", "ended", "retired"}]
      /\ reaper \in [Child -> {"off", "starting", "waiting", "done", "failed"}]
  OBVIOUS
<1>6. \A ch \in Child : Len(ring[ch]) <= RingCap /\ pulled[ch] <= wrote[ch]
  OBVIOUS
<1> QED
  BY <1>1, <1>2, <1>3, <1>4, <1>5, <1>6 DEF TypeOK

\* Registering a client keeps the registrations and its outbound log typed.
LEMMA RegisterTypes ==
  ASSUME TypeOK, NEW c \in Conn, NEW ch \in Child, Register(c, ch)
  PROVE  /\ attached' \in [Child -> SUBSET Conn]
         /\ sent' \in [Conn -> Seq(Frame)]
         /\ pc' \in [Conn -> ConnPc]
BY FrameTypes DEF TypeOK, ConnPc, Register, Send, Goto

\* The steps of connection tasks and clients preserve the types; Insert needs
\* to know that the connection still owns the child it publishes.
LEMMA TypeConn ==
  ASSUME TypeOK, OwnerInv, NEW c \in Conn, ClientStep(c) \/ ConnStep(c)
  PROVE  TypeOK'
<1> USE RequestsAssumption DEF RequestsAssumption
<1> USE DEF TypeOK, ConnPc, regVars, sessVars, connVars, childVars, Goto, Send
<1>1. CASE Connect(c)
  BY <1>1 DEF Connect
<1>2. CASE ConnectGone(c)
  BY <1>2 DEF ConnectGone
<1>3. CASE ClientKill(c)
  BY <1>3 DEF ClientKill, Live
<1>4. CASE ClientInputToDead(c)
  BY <1>4 DEF ClientInputToDead
<1>5. CASE ClientLeave(c)
  BY <1>5 DEF ClientLeave
<1>6. CASE FastMiss(c)
  BY <1>6 DEF FastMiss
<1>7. CASE GateAcquire(c)
  BY <1>7 DEF GateAcquire
<1>8. CASE Probe(c)
  BY <1>8 DEF Probe
<1>9. CASE FastHit(c)
  BY <1>9, RegisterTypes DEF FastHit, Live
<1>10. CASE FastSilent(c)
  BY <1>10 DEF FastSilent, Live
<1>11. CASE KillStale(c)
  BY <1>11 DEF KillStale, KillTree
<1>12. CASE KillDup(c)
  BY <1>12 DEF KillDup, KillTree
<1>13. CASE SlowDeny(c)
  BY <1>13, FrameTypes DEF SlowDeny
<1>14. CASE SpawnFail(c)
  BY <1>14, FrameTypes DEF SpawnFail
<1>15. ASSUME NEW ch \in Child, SpawnOk(c, ch) PROVE TypeOK'
  BY <1>15 DEF SpawnOk
<1>16. CASE Rejoin(c)
  <2>1. CASE Live(AttachKey[c])
    BY <1>16, <2>1, RegisterTypes DEF Rejoin, Live
  <2>2. CASE ~Live(AttachKey[c])
    BY <1>16, <2>2 DEF Rejoin
  <2> QED
    BY <2>1, <2>2
<1>17. CASE Insert(c)
  <2>1. mine[c] \in Child
    BY <1>17 DEF Insert, OwnerInv, Holding
  <2> QED
    BY <1>17, <2>1, FrameTypes DEF Insert
<1>18. CASE Unregister(c)
  BY <1>18 DEF Unregister
<1>19. CASE Drain(c)
  BY <1>19 DEF Drain
<1> QED
  BY <1>1, <1>2, <1>3, <1>4, <1>5, <1>6, <1>7, <1>8, <1>9, <1>10, <1>11, <1>12,
     <1>13, <1>14, <1>15, <1>16, <1>17, <1>18, <1>19
  DEF ClientStep, ConnStep

\* So do the steps of a child and its threads.
LEMMA TypeChild ==
  ASSUME TypeOK, NEW ch \in Child,
         ChildStep(ch) \/ KillWorker(ch) \/ PumpStep(ch) \/ ReaperStep(ch)
  PROVE  TypeOK'
<1> USE RequestsAssumption DEF RequestsAssumption
<1> USE DEF TypeOK, regVars, sessVars, connVars, childVars
<1>1. CASE ChildWrite(ch)
  BY <1>1 DEF ChildWrite
<1>2. CASE ChildExit(ch) \/ KillWorker(ch)
  BY <1>2 DEF ChildExit, KillWorker, KillTree
<1>3. CASE PumpRead(ch)
  BY <1>3 DEF PumpRead
<1>4. CASE PumpPush(ch)
  <2> DEFINE s == entry[Home[ch]]
             f == Output(ch, pulled[ch])
  <2>1. s \in Child /\ f \in Frame
    BY <1>4, FrameTypes DEF PumpPush, OwnSession, Live
  <2>2. RingPush(ring[s], f) \in Seq(Frame) /\ Len(RingPush(ring[s], f)) <= RingCap
    BY <2>1, RingPushType
  <2>3. ring' = [ring EXCEPT ![s] = RingPush(@, f)]
    BY <1>4 DEF PumpPush
  <2>4. ring' \in [Child -> Seq(Frame)] /\ \A x \in Child : Len(ring'[x]) <= RingCap
    BY <2>1, <2>2, <2>3
  <2>5. sent' \in [Conn -> Seq(Frame)]
    BY <1>4, <2>1 DEF PumpPush, Broadcast
  <2>6. pump' \in [Child -> {"off", "reading", "holding", "ended", "retired"}]
    BY <1>4 DEF PumpPush
  <2> QED
    BY <1>4, <2>4, <2>5, <2>6 DEF PumpPush
<1>5. CASE PumpRetire(ch) \/ PumpEof(ch)
  BY <1>5 DEF PumpRetire, PumpEof
<1>6. CASE ReaperStart(ch) \/ ReaperGiveUp(ch)
  BY <1>6 DEF ReaperStart, ReaperGiveUp
<1>7. CASE ReaperFinalize(ch)
  <2>1. sent' \in [Conn -> Seq(Frame)]
    BY <1>7, FrameTypes DEF ReaperFinalize, Broadcast
  <2> QED
    BY <1>7, <2>1 DEF ReaperFinalize
<1> QED
  BY <1>1, <1>2, <1>3, <1>4, <1>5, <1>6, <1>7 DEF ChildStep, PumpStep, PumpServe, ReaperStep

\* Types are preserved.
LEMMA TypeStep == TypeOK /\ OwnerInv /\ [Next]_vars => TypeOK'
<1> SUFFICES ASSUME TypeOK, OwnerInv, [Next]_vars PROVE TypeOK'
  OBVIOUS
<1>1. CASE UNCHANGED vars
  BY <1>1 DEF vars, regVars, sessVars, connVars, childVars, TypeOK
<1> QED
  BY <1>1, TypeConn, TypeChild DEF Next

-----------------------------------------------------------------------------
(* Who owns a child, and which session a thread takes for its own.         *)

\* Moving on to a place where no child is held keeps the ownership of others.
LEMMA OwnerMove ==
  ASSUME TypeOK, OwnerInv, NEW c \in Conn, NEW l \in ConnPc \ {"killStale", "probe", "killDup", "insert"},
         Goto(c, l), UNCHANGED <<mine, proc, pump>>
  PROVE  OwnerInv'
BY DEF TypeOK, OwnerInv, Holding, Goto

\* A child has one owner until it is published, and only its owner publishes
\* it: the steps of connections.
LEMMA OwnerConn ==
  ASSUME TypeOK, OwnerInv, ThreadInv, HomeInv, NEW c \in Conn, ClientStep(c) \/ ConnStep(c)
  PROVE  OwnerInv'
<1> USE RequestsAssumption DEF RequestsAssumption
<1>1. CASE \/ Connect(c) \/ ConnectGone(c) \/ ClientInputToDead(c) \/ ClientLeave(c)
           \/ FastHit(c) \/ FastMiss(c) \/ SlowDeny(c) \/ GateAcquire(c) \/ SpawnFail(c)
           \/ Rejoin(c) \/ Unregister(c) \/ Drain(c)
  <2>1. UNCHANGED <<mine, proc, pump>>
    BY <1>1 DEF Connect, ConnectGone, ClientInputToDead, ClientLeave, FastHit, FastMiss, SlowDeny,
                GateAcquire, SpawnFail, Rejoin, Unregister, Drain, childVars
  <2>2. \E l \in ConnPc \ {"killStale", "probe", "killDup", "insert"} : Goto(c, l)
    BY <1>1 DEF Connect, ConnectGone, ClientInputToDead, ClientLeave, FastHit, FastMiss, SlowDeny,
                GateAcquire, SpawnFail, Rejoin, Unregister, Drain, Register, ConnPc
  <2> QED
    BY <2>1, <2>2, OwnerMove
<1> USE DEF TypeOK, OwnerInv, Holding, regVars, sessVars, connVars, childVars, Goto
<1>2. CASE ClientKill(c)
  BY <1>2 DEF ClientKill
<1>3. CASE FastSilent(c)
  BY <1>3 DEF FastSilent, HomeInv, Live
<1>4. CASE KillStale(c)
  BY <1>4 DEF KillStale, KillTree
<1>5. ASSUME NEW ch \in Child, SpawnOk(c, ch) PROVE OwnerInv'
  <2>1. pump[ch] = "off" /\ \A d \in Holding : mine[d] # ch
    BY <1>5 DEF SpawnOk, ThreadInv
  <2> QED
    BY <1>5, <2>1 DEF SpawnOk
<1>6. CASE Probe(c)
  BY <1>6 DEF Probe
<1>7. CASE KillDup(c)
  BY <1>7 DEF KillDup, KillTree
<1>8. CASE Insert(c)
  BY <1>8, SMTT(20) DEF Insert
<1> QED
  BY <1>1, <1>2, <1>3, <1>4, <1>5, <1>6, <1>7, <1>8
  DEF ClientStep, ConnStep

\* A child's own steps do not start its threads, nor undo its birth.
LEMMA OwnerChild ==
  ASSUME TypeOK, OwnerInv, NEW ch \in Child,
         ChildStep(ch) \/ KillWorker(ch) \/ PumpStep(ch) \/ ReaperStep(ch)
  PROVE  OwnerInv'
<1> USE DEF TypeOK, OwnerInv, Holding, regVars, sessVars, connVars, childVars
<1>1. CASE ChildStep(ch) \/ KillWorker(ch)
  BY <1>1 DEF ChildStep, ChildWrite, ChildExit, KillWorker, KillTree
<1>2. CASE PumpStep(ch)
  <2>1. UNCHANGED <<mine, pc, proc>>
    BY <1>2 DEF PumpStep, PumpServe, PumpRead, PumpPush, PumpRetire, PumpEof
  <2>2. \A x \in Child : pump[x] = "off" <=> pump'[x] = "off"
    BY <1>2 DEF PumpStep, PumpServe, PumpRead, PumpPush, PumpRetire, PumpEof
  <2> QED
    BY <2>1, <2>2
<1>3. CASE ReaperStep(ch)
  <2>1. CASE ReaperStart(ch)
    BY <2>1 DEF ReaperStart
  <2>2. CASE ReaperFinalize(ch)
    BY <2>2 DEF ReaperFinalize
  <2>3. CASE ReaperGiveUp(ch)
    BY <2>3 DEF ReaperGiveUp
  <2> QED
    BY <1>3, <2>1, <2>2, <2>3 DEF ReaperStep
<1> QED
  BY <1>1, <1>2, <1>3

\* Pump and reaper start together, for a child that runs.
LEMMA ThreadStep == TypeOK /\ OwnerInv /\ ThreadInv /\ [Next]_vars => ThreadInv'
<1> SUFFICES ASSUME TypeOK, OwnerInv, ThreadInv, [Next]_vars PROVE ThreadInv'
  OBVIOUS
<1> USE DEF TypeOK, ThreadInv, regVars, sessVars, connVars, childVars
<1>1. ASSUME NEW c \in Conn, Insert(c) PROVE ThreadInv'
  BY <1>1 DEF Insert, OwnerInv, Holding
<1>2. ASSUME NEW c \in Conn, \/ \E ch \in Child : SpawnOk(c, ch)
                             \/ KillStale(c) \/ KillDup(c)
      PROVE ThreadInv'
  BY <1>2 DEF SpawnOk, KillStale, KillDup, KillTree
<1>3. ASSUME NEW c \in Conn, \/ ClientStep(c)
                             \/ FastHit(c) \/ FastSilent(c) \/ FastMiss(c) \/ SlowDeny(c)
                             \/ GateAcquire(c) \/ SpawnFail(c) \/ Probe(c) \/ Rejoin(c)
                             \/ Unregister(c) \/ Drain(c)
      PROVE ThreadInv'
  <2>1. UNCHANGED <<proc, pump, reaper>>
    BY <1>3 DEF ClientStep, Connect, ConnectGone, ClientKill, ClientInputToDead, ClientLeave,
                FastHit, FastSilent, FastMiss, SlowDeny, GateAcquire, SpawnFail, Probe, Rejoin,
                Unregister, Drain
  <2> QED
    BY <2>1
<1>4. ASSUME NEW ch \in Child, ChildStep(ch) \/ KillWorker(ch) PROVE ThreadInv'
  BY <1>4 DEF ChildStep, ChildWrite, ChildExit, KillWorker, KillTree
<1>5. ASSUME NEW ch \in Child, PumpStep(ch) PROVE ThreadInv'
  BY <1>5 DEF PumpStep, PumpServe, PumpRead, PumpPush, PumpRetire, PumpEof
<1>6. ASSUME NEW ch \in Child, ReaperStep(ch) PROVE ThreadInv'
  BY <1>6 DEF ReaperStep, ReaperStart, ReaperFinalize, ReaperGiveUp
<1>7. CASE UNCHANGED vars
  BY <1>7 DEF vars
<1> QED
  BY <1>1, <1>2, <1>3, <1>4, <1>5, <1>6, <1>7 DEF Next, ConnStep

\* Steps that leave the registry's map and the starts of threads alone.
LEMMA QuietSteps ==
  ASSUME [Next]_vars
  PROVE  \/ \E c \in Conn : FastSilent(c) \/ Insert(c)
         \/ \E ch \in Child : ReaperFinalize(ch)
         \/ /\ UNCHANGED <<entry, gen, nextGen>>
            /\ \/ UNCHANGED pump
               \/ \E ch \in Child : PumpStep(ch)
<1>1. ASSUME NEW c \in Conn, ClientStep(c) \/ ConnStep(c), ~FastSilent(c), ~Insert(c)
      PROVE  UNCHANGED <<entry, gen, nextGen, pump>>
  <2> USE DEF regVars, sessVars, childVars
  <2>1. CASE ClientStep(c)
    BY <2>1 DEF ClientStep, Connect, ConnectGone, ClientKill, ClientInputToDead, ClientLeave
  <2>2. CASE ConnStep(c)
    BY <1>1, <2>2 DEF ConnStep, FastHit, KillStale, FastMiss, SlowDeny, GateAcquire, SpawnOk,
                      SpawnFail, Probe, KillDup, Rejoin, Unregister, Drain
  <2> QED
    BY <1>1, <2>1, <2>2
<1>2. ASSUME NEW ch \in Child, ChildStep(ch) \/ KillWorker(ch) \/ ReaperStep(ch), ~ReaperFinalize(ch)
      PROVE  UNCHANGED <<entry, gen, nextGen, pump>>
  BY <1>2 DEF ChildStep, ChildWrite, ChildExit, KillWorker, ReaperStep, ReaperStart, ReaperGiveUp,
              regVars, sessVars
<1>3. ASSUME NEW ch \in Child, PumpStep(ch) PROVE UNCHANGED <<entry, gen, nextGen>>
  BY <1>3 DEF PumpStep, PumpServe, PumpRead, PumpPush, PumpRetire, PumpEof, regVars, sessVars
<1>4. CASE UNCHANGED vars
  BY <1>4 DEF vars, regVars, sessVars, childVars
<1> QED
  BY <1>1, <1>2, <1>3, <1>4 DEF Next

\* A thread that was started stays started.
LEMMA PumpsStay ==
  ASSUME TypeOK, NEW ch \in Child, PumpStep(ch), NEW x \in Child
  PROVE  pump'[x] # "off" <=> pump[x] # "off"
BY DEF TypeOK, PumpStep, PumpServe, PumpRead, PumpPush, PumpRetire, PumpEof

\* A key hosts a child of its own: Insert publishes a child under the key it
\* was spawned for.
LEMMA HomeStep == TypeOK /\ OwnerInv /\ HomeInv /\ [Next]_vars => HomeInv'
<1> USE RequestsAssumption, ConstantsDistinct DEF RequestsAssumption, ConstantsDistinct
<1> SUFFICES ASSUME TypeOK, OwnerInv, HomeInv, [Next]_vars PROVE HomeInv'
  OBVIOUS
<1> USE DEF TypeOK, HomeInv, Live, regVars, sessVars, connVars, childVars
<1>1. ASSUME NEW c \in Conn, FastSilent(c) PROVE HomeInv'
  BY <1>1 DEF FastSilent
<1>2. ASSUME NEW c \in Conn, Insert(c) PROVE HomeInv'
  <2>1. mine[c] \in Child /\ Home[mine[c]] = AttachKey[c] /\ AttachKey[c] \in Key
    BY <1>2 DEF Insert, OwnerInv, Holding
  <2> QED
    BY <1>2, <2>1 DEF Insert
<1>3. ASSUME NEW ch \in Child, ReaperFinalize(ch) PROVE HomeInv'
  BY <1>3 DEF ReaperFinalize
<1>4. CASE UNCHANGED <<entry, pump>>
  BY <1>4
<1>5. ASSUME NEW ch \in Child, PumpStep(ch), UNCHANGED entry PROVE HomeInv'
  BY <1>5, PumpsStay
<1> QED
  BY <1>1, <1>2, <1>3, <1>4, <1>5, QuietSteps

\* Generations are handed out once each.
LEMMA GenStep == TypeOK /\ OwnerInv /\ GenInv /\ [Next]_vars => GenInv'
<1> SUFFICES ASSUME TypeOK, OwnerInv, GenInv, [Next]_vars PROVE GenInv'
  OBVIOUS
<1> USE DEF TypeOK, GenInv, regVars, sessVars, connVars, childVars
<1>1. ASSUME NEW c \in Conn, FastSilent(c) PROVE GenInv'
  BY <1>1 DEF FastSilent
<1>2. ASSUME NEW c \in Conn, Insert(c) PROVE GenInv'
  <2>1. mine[c] \in Child
    BY <1>2 DEF Insert, OwnerInv, Holding
  <2>2. /\ nextGen' = nextGen + 1
        /\ gen' = [gen EXCEPT ![mine[c]] = nextGen]
        /\ pump' = [pump EXCEPT ![mine[c]] = "reading"]
    BY <1>2 DEF Insert
  <2>3. nextGen \in Nat /\ \A ch \in Child : gen[ch] \in Nat
    OBVIOUS
  <2>4. /\ gen'[mine[c]] = nextGen
        /\ \A ch \in Child : ch # mine[c] => gen'[ch] = gen[ch] /\ pump'[ch] = pump[ch]
    BY <2>1, <2>2
  <2>5. \A ch \in Child : pump'[ch] # "off" => gen'[ch] < nextGen'
    BY <2>2, <2>3, <2>4
  <2>6. ASSUME NEW a \in Child, NEW b \in Child, pump'[a] # "off", pump'[b] # "off", a # b
        PROVE  gen'[a] # gen'[b]
    <3>1. \A ch \in Child : ch # mine[c] /\ pump'[ch] # "off" => gen'[ch] # nextGen
      BY <2>3, <2>4, SMTT(20)
    <3>2. CASE a = mine[c] \/ b = mine[c]
      BY <2>4, <2>6, <3>1, <3>2
    <3>3. CASE a # mine[c] /\ b # mine[c]
      BY <2>4, <2>6, <3>3
    <3> QED
      BY <3>2, <3>3
  <2> QED
    BY <2>5, <2>6
<1>3. ASSUME NEW ch \in Child, ReaperFinalize(ch) PROVE GenInv'
  BY <1>3 DEF ReaperFinalize
<1>4. CASE UNCHANGED <<gen, nextGen, pump>>
  BY <1>4
<1>5. ASSUME NEW ch \in Child, PumpStep(ch), UNCHANGED <<gen, nextGen>> PROVE GenInv'
  BY <1>5, PumpsStay
<1> QED
  BY <1>1, <1>2, <1>3, <1>4, <1>5, QuietSteps

\* The generation check is exact: a started thread that passes it holds the
\* session of its own child.
LEMMA OwnSessionIsOwn ==
  ASSUME TypeOK, HomeInv, GenInv, NEW ch \in Child, pump[ch] # "off"
  PROVE  OwnSession(ch) <=> entry[Home[ch]] = ch
BY RequestsAssumption DEF RequestsAssumption, TypeOK, HomeInv, GenInv, OwnSession, Live

-----------------------------------------------------------------------------
(* Registrations.                                                          *)

\* Registry::conns counts every connection from its first to its last step.
LEMMA CountedStep == TypeOK /\ CountedInv /\ [Next]_vars => CountedInv'
<1> SUFFICES ASSUME TypeOK, CountedInv, [Next]_vars PROVE CountedInv'
  OBVIOUS
<1> USE DEF TypeOK, CountedInv, regVars, sessVars, connVars, childVars, Goto
<1>1. ASSUME NEW c \in Conn, Connect(c) \/ ConnectGone(c) PROVE CountedInv'
  BY <1>1 DEF Connect, ConnectGone
<1>2. ASSUME NEW c \in Conn, Drain(c) PROVE CountedInv'
  BY <1>2 DEF Drain
<1>3. ASSUME NEW c \in Conn, ClientKill(c) PROVE CountedInv'
  BY <1>3 DEF ClientKill
<1>4. ASSUME NEW c \in Conn,
             \/ ClientInputToDead(c) \/ ClientLeave(c) \/ FastHit(c) \/ FastSilent(c) \/ KillStale(c)
             \/ FastMiss(c) \/ SlowDeny(c) \/ GateAcquire(c) \/ (\E ch \in Child : SpawnOk(c, ch))
             \/ SpawnFail(c) \/ Probe(c) \/ KillDup(c) \/ Rejoin(c) \/ Insert(c) \/ Unregister(c)
      PROVE CountedInv'
  <2>1. conns' = conns /\ pc[c] \notin {"idle", "closed"} /\ \A d \in Conn \ {c} : pc'[d] = pc[d]
    BY <1>4 DEF ClientInputToDead, ClientLeave, FastHit, FastSilent, KillStale, FastMiss, SlowDeny,
                GateAcquire, SpawnOk, SpawnFail, Probe, KillDup, Rejoin, Insert, Unregister, Register
  <2> QED
    BY <2>1
<1>5. ASSUME NEW ch \in Child, ChildStep(ch) \/ KillWorker(ch) \/ PumpStep(ch) \/ ReaperStep(ch)
      PROVE CountedInv'
  <2>1. UNCHANGED <<pc, conns>>
    BY <1>5 DEF ChildStep, ChildWrite, ChildExit, KillWorker, PumpStep, PumpServe, PumpRead, PumpPush,
                PumpRetire, PumpEof, ReaperStep, ReaperStart, ReaperFinalize, ReaperGiveUp
  <2> QED
    BY <2>1
<1>6. CASE UNCHANGED vars
  BY <1>6 DEF vars
<1> QED
  BY <1>1, <1>2, <1>3, <1>4, <1>5, <1>6 DEF Next, ClientStep, ConnStep

\* A connection registers under its own key only, and leaves its control loop
\* through Unregister only.
LEMMA RegistrationsStep ==
  TypeOK /\ OwnerInv /\ HomeInv /\ CountedInv /\ RegistrationsOwned /\ [Next]_vars
    => RegistrationsOwned'
<1> USE RequestsAssumption, ConstantsDistinct DEF RequestsAssumption, ConstantsDistinct
<1> SUFFICES ASSUME TypeOK, OwnerInv, HomeInv, CountedInv, RegistrationsOwned, [Next]_vars
             PROVE  RegistrationsOwned'
  OBVIOUS
<1>a. \A k, l \in Key : Live(k) /\ entry[k] = entry[l] => k = l
  BY DEF HomeInv, Live
<1> USE DEF TypeOK, RegistrationsOwned, Live, regVars, sessVars, connVars, childVars, Goto
<1>1. ASSUME NEW c \in Conn, FastHit(c) \/ Rejoin(c) PROVE RegistrationsOwned'
  <2>1. c \in conns /\ entry' = entry /\ conns' = conns
    BY <1>1 DEF FastHit, Rejoin, CountedInv
  <2>2. CASE Live(AttachKey[c]) /\ Register(c, entry[AttachKey[c]])
    BY <2>1, <2>2, <1>a DEF Register
  <2>3. CASE UNCHANGED attached /\ Goto(c, "serving")
    BY <2>1, <2>3
  <2> QED
    BY <1>1, <2>2, <2>3 DEF FastHit, Rejoin
<1>2. ASSUME NEW c \in Conn, Insert(c) PROVE RegistrationsOwned'
  <2>1. mine[c] \in Child /\ pump[mine[c]] = "off" /\ c \in conns
    BY <1>2 DEF Insert, OwnerInv, Holding, CountedInv
  <2>2. \A k \in Key : Live(k) => entry[k] # mine[c]
    BY <2>1 DEF HomeInv
  <2>3. /\ entry' = [entry EXCEPT ![AttachKey[c]] = mine[c]]
        /\ attached'[mine[c]] = {c}
        /\ \A x \in Child : x # mine[c] => attached'[x] \subseteq attached[x]
        /\ pc' = [pc EXCEPT ![c] = "serving"] /\ conns' = conns
    BY <1>2, <2>1 DEF Insert
  <2> QED
    BY <2>1, <2>2, <2>3
<1>3. ASSUME NEW c \in Conn, FastSilent(c) PROVE RegistrationsOwned'
  BY <1>3 DEF FastSilent
<1>4. ASSUME NEW c \in Conn, Unregister(c) PROVE RegistrationsOwned'
  BY <1>4 DEF Unregister
<1>5. ASSUME NEW c \in Conn, ClientInputToDead(c) \/ ClientLeave(c) PROVE RegistrationsOwned'
  <2>1. UNCHANGED <<entry, attached, conns>> /\ pc' = [pc EXCEPT ![c] = "detach"]
    BY <1>5 DEF ClientInputToDead, ClientLeave
  <2> QED
    BY <2>1
<1>6. ASSUME NEW c \in Conn, ClientKill(c) PROVE RegistrationsOwned'
  BY <1>6 DEF ClientKill
<1>7. ASSUME NEW c \in Conn,
             \/ Connect(c) \/ ConnectGone(c) \/ KillStale(c) \/ FastMiss(c) \/ SlowDeny(c)
             \/ GateAcquire(c) \/ (\E ch \in Child : SpawnOk(c, ch)) \/ SpawnFail(c) \/ Probe(c)
             \/ KillDup(c) \/ Drain(c)
      PROVE RegistrationsOwned'
  <2>1. pc[c] \notin {"serving", "detach"} /\ UNCHANGED <<entry, attached>>
    BY <1>7 DEF Connect, ConnectGone, KillStale, FastMiss, SlowDeny, GateAcquire, SpawnOk, SpawnFail,
                Probe, KillDup, Drain
  <2>2. conns \ {c} \subseteq conns' /\ \A d \in Conn \ {c} : pc'[d] = pc[d]
    BY <1>7 DEF Connect, ConnectGone, KillStale, FastMiss, SlowDeny, GateAcquire, SpawnOk, SpawnFail,
                Probe, KillDup, Drain
  <2> QED
    BY <2>1, <2>2
<1>8. ASSUME NEW ch \in Child, ChildStep(ch) \/ KillWorker(ch) \/ PumpStep(ch)
                                \/ ReaperStart(ch) \/ ReaperGiveUp(ch)
      PROVE RegistrationsOwned'
  <2>1. UNCHANGED <<entry, conns, attached, pc>>
    BY <1>8 DEF ChildStep, ChildWrite, ChildExit, KillWorker, PumpStep, PumpServe, PumpRead, PumpPush,
                 PumpRetire, PumpEof, ReaperStart, ReaperGiveUp
  <2> QED
    BY <2>1
<1>9. ASSUME NEW ch \in Child, ReaperFinalize(ch) PROVE RegistrationsOwned'
  BY <1>9 DEF ReaperFinalize
<1>10. CASE UNCHANGED vars
  BY <1>10 DEF vars
<1> QED
  BY <1>1, <1>2, <1>3, <1>4, <1>5, <1>6, <1>7, <1>8, <1>9, <1>10
  DEF Next, ClientStep, ConnStep, ReaperStep

-----------------------------------------------------------------------------
(* Threads.                                                                *)

\* A hosted child's threads recognise its session, so neither gives up while
\* it is hosted; the reaper ends by taking it out of the registry, the pump because
\* a read of the PTY ended it.
LEMMA WatchedStep ==
  TypeOK /\ OwnerInv /\ ThreadInv /\ HomeInv /\ HostedIsWatched /\ [Next]_vars => HostedIsWatched'
<1> USE RequestsAssumption, ConstantsDistinct DEF RequestsAssumption, ConstantsDistinct
<1> SUFFICES ASSUME TypeOK, OwnerInv, ThreadInv, HomeInv, HostedIsWatched, [Next]_vars
             PROVE  HostedIsWatched'
  OBVIOUS
<1>a. \A k \in Key : Live(k) => OwnSession(entry[k])
  BY DEF HomeInv, OwnSession
<1> USE DEF TypeOK, HostedIsWatched, Live, regVars, sessVars, connVars, childVars
<1>1. ASSUME NEW c \in Conn, FastSilent(c) PROVE HostedIsWatched'
  BY <1>1 DEF FastSilent
<1>2. ASSUME NEW c \in Conn, Insert(c) PROVE HostedIsWatched'
  <2>1. mine[c] \in Child
    BY <1>2 DEF Insert, OwnerInv, Holding
  <2> QED
    BY <1>2, <2>1 DEF Insert
<1>3. ASSUME NEW c \in Conn, (\E ch \in Child : SpawnOk(c, ch)) \/ KillStale(c) \/ KillDup(c)
      PROVE HostedIsWatched'
  <2>1. UNCHANGED <<entry, reaper, pump, wrote, pulled>>
    BY <1>3 DEF SpawnOk, KillStale, KillDup
  <2>2. \A x \in Child : proc[x] = "exited" => proc'[x] = "exited"
    BY <1>3 DEF SpawnOk, KillStale, KillDup, KillTree
  <2> QED
    BY <2>1, <2>2
<1>4. ASSUME NEW c \in Conn,
             \/ ClientStep(c) \/ FastHit(c) \/ FastMiss(c) \/ SlowDeny(c) \/ GateAcquire(c)
             \/ SpawnFail(c) \/ Probe(c) \/ Rejoin(c) \/ Unregister(c) \/ Drain(c)
      PROVE HostedIsWatched'
  <2>1. UNCHANGED <<entry, proc, reaper, pump, wrote, pulled>>
    BY <1>4 DEF ClientStep, Connect, ConnectGone, ClientKill, ClientInputToDead, ClientLeave, FastHit,
                FastMiss, SlowDeny, GateAcquire, SpawnFail, Probe, Rejoin, Unregister, Drain
  <2> QED
    BY <2>1
<1>5. ASSUME NEW ch \in Child, ChildWrite(ch) PROVE HostedIsWatched'
  BY <1>5 DEF ChildWrite
<1>6. ASSUME NEW ch \in Child, ChildExit(ch) \/ KillWorker(ch) PROVE HostedIsWatched'
  BY <1>6 DEF ChildExit, KillWorker, KillTree
<1>7. ASSUME NEW ch \in Child, PumpStep(ch) PROVE HostedIsWatched'
  <2>1. CASE PumpRead(ch)
    BY <1>7, <2>1 DEF PumpRead
  <2>2. CASE PumpPush(ch)
    BY <1>7, <2>2 DEF PumpPush
  <2>3. CASE PumpRetire(ch)
    BY <1>7, <2>3, <1>a DEF PumpRetire
  <2>4. CASE PumpEof(ch)
    BY <1>7, <2>4 DEF PumpEof
  <2> QED
    BY <1>7, <2>1, <2>2, <2>3, <2>4 DEF PumpStep, PumpServe
<1>8. ASSUME NEW ch \in Child, ReaperStep(ch) PROVE HostedIsWatched'
  <2>1. CASE ReaperStart(ch)
    BY <1>8, <2>1, <1>a DEF ReaperStart
  <2>2. CASE ReaperFinalize(ch)
    BY <1>8, <2>2 DEF ReaperFinalize, HomeInv
  <2>3. CASE ReaperGiveUp(ch)
    <3>1. reaper'[ch] = "failed" \/ \A k \in Key : Live(k) => entry[k] # ch
      BY <2>3, <1>a DEF ReaperGiveUp
    <3>2. \A x \in Child \ {ch} : reaper'[x] = reaper[x]
      BY <2>3 DEF ReaperGiveUp
    <3>3. UNCHANGED <<entry, proc, pump, wrote, pulled>>
      BY <2>3 DEF ReaperGiveUp
    <3> QED
      BY <3>1, <3>2, <3>3
  <2> QED
    BY <1>8, <2>1, <2>2, <2>3 DEF ReaperStep
<1>9. CASE UNCHANGED vars
  BY <1>9 DEF vars
<1> QED
  BY <1>1, <1>2, <1>3, <1>4, <1>5, <1>6, <1>7, <1>8, <1>9 DEF Next, ConnStep, ChildStep

-----------------------------------------------------------------------------
(* The ring.                                                               *)

\* The number of the newest chunk in a ring.
LastChunk(r) == IF r = <<>> THEN 0 ELSE r[Len(r)].n

\* r holds the newest chunks of ch in order, from the first one on unless full.
Tailed(ch, r) ==
  /\ \A i \in 1..Len(r) : r[i] = Output(ch, r[1].n + i - 1)
  /\ r # <<>> => Len(r) = RingCap \/ r[1].n = 1

\* The pump pushes every chunk it reads before it reads another, or ends.
RingInv ==
  \A ch \in Child :
    /\ Tailed(ch, ring[ch])
    /\ pump[ch] \in {"reading", "ended"} => pulled[ch] = LastChunk(ring[ch])
    /\ pump[ch] = "holding" => pulled[ch] = LastChunk(ring[ch]) + 1
    /\ pump[ch] = "off" => ring[ch] = <<>> /\ pulled[ch] = 0

\* Pushing the next chunk keeps a ring the tail of its child's output.
LEMMA RingPushTail ==
  ASSUME NEW ch \in Child, NEW r \in Seq(Frame), Len(r) <= RingCap, Tailed(ch, r)
  PROVE  LET t == RingPush(r, Output(ch, LastChunk(r) + 1)) IN
           Tailed(ch, t) /\ LastChunk(t) = LastChunk(r) + 1
<1> USE BoundsAssumption DEF BoundsAssumption
<1> DEFINE f == Output(ch, LastChunk(r) + 1)
           s == Append(r, f)
           m == IF r = <<>> THEN 1 ELSE r[1].n
<1>1. m \in Nat /\ LastChunk(r) \in Nat
  <2>1. r # <<>> => r[1] \in Frame /\ r[Len(r)] \in Frame
    OBVIOUS
  <2> QED
    BY <2>1 DEF Frame, LastChunk
<1>2. LastChunk(r) + 1 = m + Len(r)
  <2>1. CASE r = <<>>
    BY <2>1 DEF LastChunk
  <2>2. CASE r # <<>>
    <3>1. Len(r) \in 1..Len(r)
      BY <2>2
    <3>2. r[Len(r)] = Output(ch, r[1].n + Len(r) - 1)
      BY <3>1 DEF Tailed
    <3> QED
      BY <1>1, <2>2, <3>2 DEF LastChunk, Output
  <2> QED
    BY <2>1, <2>2
<1>3. /\ Len(s) = Len(r) + 1
      /\ \A i \in 1..Len(s) : s[i] = Output(ch, m + i - 1)
  <2>1. Len(s) = Len(r) + 1 /\ s[Len(s)] = f /\ \A i \in 1..Len(r) : s[i] = r[i]
    BY DEF Output, Frame
  <2>2. \A i \in 1..Len(r) : r[i] = Output(ch, m + i - 1)
    BY DEF Tailed
  <2>3. f = Output(ch, m + Len(s) - 1)
    BY <1>1, <1>2, <2>1
  <2> QED
    BY <2>1, <2>2, <2>3
<1>4. s \in Seq(Frame) /\ s # <<>>
  <2>1. LastChunk(r) + 1 \in Nat
    BY <1>1
  <2>2. f \in Frame
    BY <2>1, FrameTypes
  <2> HIDE DEF f
  <2> QED
    BY <2>2
<1> HIDE DEF s, f, m
<1>5. CASE Len(s) <= RingCap
  <2>1. RingPush(r, f) = s
    BY <1>5, <1>4 DEF RingPush, s
  <2>2. s[1].n = m /\ s[Len(s)].n = m + Len(r)
    BY <1>1, <1>3, <1>4 DEF Output
  <2>3. m = 1
    BY <1>3, <1>5 DEF m, Tailed
  <2> QED
    BY <1>2, <1>3, <1>4, <2>1, <2>2, <2>3 DEF Tailed, LastChunk, f
<1>6. CASE Len(s) > RingCap
  <2> DEFINE t == Tail(s)
  <2>1. RingPush(r, f) = t
    BY <1>6 DEF RingPush, s
  <2>2. Len(t) = RingCap /\ t # <<>> /\ Len(t) = Len(r) /\ \A i \in 1..Len(t) : t[i] = s[i + 1]
    BY <1>3, <1>4, <1>6
  <2>3. \A i \in 1..Len(t) : t[i] = Output(ch, m + i)
    BY <1>1, <1>3, <2>2
  <2> HIDE DEF t
  <2>4. t[1].n = m + 1 /\ t[Len(t)].n = m + Len(r)
    <3>1. 1 \in 1..Len(t) /\ Len(t) \in 1..Len(t)
      BY <2>2
    <3>2. t[1] = Output(ch, m + 1) /\ t[Len(t)] = Output(ch, m + Len(t))
      BY <2>3, <3>1
    <3> QED
      BY <2>2, <3>2 DEF Output
  <2>5. \A i \in 1..Len(t) : t[i] = Output(ch, t[1].n + i - 1)
    BY <1>1, <2>2, <2>3, <2>4
  <2> QED
    BY <1>2, <2>1, <2>2, <2>4, <2>5 DEF Tailed, LastChunk, f
<1> QED
  BY <1>3, <1>5, <1>6 DEF f

\* Only the pump of its own child writes to a ring: a retired pump that takes
\* the lock after a respawn of its key fails the generation check.
LEMMA RingStep ==
  TypeOK /\ OwnerInv /\ HomeInv /\ GenInv /\ RingInv /\ [Next]_vars => RingInv'
<1> SUFFICES ASSUME TypeOK, OwnerInv, HomeInv, GenInv, RingInv, [Next]_vars PROVE RingInv'
  OBVIOUS
<1> USE DEF regVars, sessVars, connVars, childVars
<1>1. ASSUME NEW c \in Conn, Insert(c) PROVE RingInv'
  <2>1. mine[c] \in Child /\ pump[mine[c]] = "off"
    BY <1>1 DEF Insert, OwnerInv, Holding
  <2>2. pump' = [pump EXCEPT ![mine[c]] = "reading"] /\ UNCHANGED <<ring, pulled>>
    BY <1>1 DEF Insert
  <2> QED
    BY <2>1, <2>2 DEF RingInv, TypeOK, LastChunk
<1>2. ASSUME NEW c \in Conn, ClientStep(c) \/ ConnStep(c), ~Insert(c) PROVE RingInv'
  <2>1. CASE ClientStep(c)
    BY <2>1 DEF ClientStep, Connect, ConnectGone, ClientKill, ClientInputToDead, ClientLeave, RingInv
  <2>2. CASE ConnStep(c)
    <3>1. UNCHANGED <<ring, pulled, pump>>
      BY <1>2, <2>2 DEF ConnStep, FastHit, FastSilent, KillStale, FastMiss, SlowDeny, GateAcquire,
                        SpawnOk, SpawnFail, Probe, KillDup, Rejoin, Unregister, Drain
    <3> QED
      BY <3>1 DEF RingInv
  <2> QED
    BY <1>2, <2>1, <2>2
<1>3. ASSUME NEW ch \in Child, ChildStep(ch) \/ KillWorker(ch) \/ ReaperStep(ch) PROVE RingInv'
  <2>1. UNCHANGED <<ring, pulled, pump>>
    BY <1>3 DEF ChildStep, ChildWrite, ChildExit, KillWorker, ReaperStep, ReaperStart, ReaperFinalize,
                ReaperGiveUp
  <2> QED
    BY <2>1 DEF RingInv
<1>4. ASSUME NEW ch \in Child, PumpRead(ch) PROVE RingInv'
  <2>1. /\ pump[ch] = "reading" /\ pump' = [pump EXCEPT ![ch] = "holding"]
        /\ pulled' = [pulled EXCEPT ![ch] = @ + 1] /\ UNCHANGED ring
    BY <1>4 DEF PumpRead
  <2> USE DEF TypeOK
  <2>2. ASSUME NEW x \in Child, x # ch PROVE pump'[x] = pump[x] /\ pulled'[x] = pulled[x]
    BY <2>1, <2>2
  <2>3. pump'[ch] = "holding" /\ pulled'[ch] = LastChunk(ring[ch]) + 1
    BY <2>1 DEF RingInv
  <2> QED
    BY <2>1, <2>2, <2>3 DEF RingInv
<1>5. ASSUME NEW ch \in Child, PumpPush(ch) PROVE RingInv'
  <2>1. entry[Home[ch]] = ch /\ pump[ch] = "holding"
    BY <1>5, OwnSessionIsOwn DEF PumpPush, TypeOK
  <2>2. pulled[ch] = LastChunk(ring[ch]) + 1 /\ Tailed(ch, ring[ch])
    BY <2>1 DEF RingInv
  <2> DEFINE t == RingPush(ring[ch], Output(ch, LastChunk(ring[ch]) + 1))
  <2>3. Tailed(ch, t) /\ LastChunk(t) = LastChunk(ring[ch]) + 1
    BY <2>2, RingPushTail DEF TypeOK
  <2>4. /\ ring' = [ring EXCEPT ![ch] = t]
        /\ pump' = [pump EXCEPT ![ch] = "reading"]
        /\ UNCHANGED pulled
    BY <1>5, <2>1, <2>2 DEF PumpPush
  <2> HIDE DEF t
  <2> USE DEF TypeOK
  <2>5. ASSUME NEW x \in Child, x # ch PROVE ring'[x] = ring[x] /\ pump'[x] = pump[x] /\ pulled'[x] = pulled[x]
    BY <2>4, <2>5
  <2>6. ring'[ch] = t /\ pump'[ch] = "reading" /\ pulled'[ch] = LastChunk(t)
    BY <2>2, <2>3, <2>4
  <2> QED
    BY <2>3, <2>5, <2>6 DEF RingInv
<1>6. ASSUME NEW ch \in Child, PumpRetire(ch) \/ PumpEof(ch) PROVE RingInv'
  BY <1>6 DEF PumpRetire, PumpEof, RingInv, TypeOK
<1>7. CASE UNCHANGED vars
  BY <1>7 DEF vars, RingInv
<1> QED
  BY <1>1, <1>2, <1>3, <1>4, <1>5, <1>6, <1>7 DEF Next, PumpStep, PumpServe

-----------------------------------------------------------------------------
(* The theorems.                                                           *)

\* The strengthened invariant.
IInv ==
  /\ TypeOK /\ OwnerInv /\ ThreadInv /\ HomeInv /\ GenInv /\ CountedInv
  /\ RegistrationsOwned /\ HostedIsWatched /\ RingInv

\* Every reachable state satisfies it.
LEMMA Inductive == Spec => []IInv
<1>1. Init => IInv
  <2> SUFFICES ASSUME Init PROVE IInv
    OBVIOUS
  <2>1. \A k \in Key : ~Live(k)
    BY ConstantsDistinct DEF ConstantsDistinct, Init, Live
  <2>2. HomeInv /\ RegistrationsOwned /\ HostedIsWatched
    BY <2>1 DEF HomeInv, RegistrationsOwned, HostedIsWatched
  <2>3. OwnerInv /\ CountedInv
    BY DEF Init, OwnerInv, Holding, CountedInv
  <2>4. ThreadInv /\ GenInv
    BY DEF Init, ThreadInv, GenInv
  <2>5. RingInv
    BY DEF Init, RingInv, Tailed, LastChunk
  <2> QED
    BY <2>2, <2>3, <2>4, <2>5, TypeInit DEF IInv
<1>2. IInv /\ [Next]_vars => IInv'
  <2> SUFFICES ASSUME IInv, [Next]_vars PROVE IInv'
    OBVIOUS
  <2>1. TypeOK' /\ ThreadInv' /\ HomeInv' /\ GenInv' /\ CountedInv'
    BY TypeStep, ThreadStep, HomeStep, GenStep, CountedStep DEF IInv
  <2>2. OwnerInv'
    <3>1. CASE UNCHANGED vars
      BY <3>1 DEF IInv, OwnerInv, Holding, vars, connVars, childVars
    <3> QED
      BY <3>1, OwnerConn, OwnerChild DEF IInv, Next
  <2>3. RegistrationsOwned' /\ HostedIsWatched' /\ RingInv'
    BY RegistrationsStep, WatchedStep, RingStep DEF IInv
  <2> QED
    BY <2>1, <2>2, <2>3 DEF IInv
<1> QED
  BY <1>1, <1>2, PTL DEF Spec

\* The registry, the connection tasks and the threads are type correct; in
\* particular Insert never publishes anything but a spawned child.
THEOREM TypeCorrect == Spec => []TypeOK
<1>1. IInv => TypeOK
  BY DEF IInv
<1> QED
  BY <1>1, Inductive, PTL

\* No sender outlives its connection in a hosted session, and no session sends
\* to a client of another key.
THEOREM RegistrationsAreOwned == Spec => []RegistrationsOwned
<1>1. IInv => RegistrationsOwned
  BY DEF IInv
<1> QED
  BY <1>1, Inductive, PTL

\* A hosted session always has the thread that will take it out again, and a
\* pump unless the PTY ended its reading.
THEOREM HostedAreWatched == Spec => []HostedIsWatched
<1>1. IInv => HostedIsWatched
  BY DEF IInv
<1> QED
  BY <1>1, Inductive, PTL

\* Every session's ring is the tail of its own child's output, whatever stale
\* pumps of its key still run.
THEOREM RingsAreTails == Spec => []RingIsTail
<1>1. IInv => RingIsTail
  BY DEF IInv, RingInv, Tailed, LastChunk, RingIsTail
<1> QED
  BY <1>1, Inductive, PTL

\* A session that leaves the registry was killed if nothing of it is left, and
\* was not if it is remembered as Dead.
THEOREM ForgottenMeansKilled == Spec => ForgottenIffKilled
<1> DEFINE Step == \A k \in Key : Live(k) /\ ~Live(k)'
                     => (entry'[k] = Absent <=> killed'[entry[k]])
<1>1. IInv /\ [Next]_vars => [Step]_vars
  <2> USE RequestsAssumption, ConstantsDistinct DEF RequestsAssumption, ConstantsDistinct
  <2> SUFFICES ASSUME IInv, Next, NEW k \in Key, Live(k), ~Live(k)'
               PROVE  entry'[k] = Absent <=> killed'[entry[k]]
    OBVIOUS
  <2> USE DEF TypeOK, Live, regVars
  <2>1. ASSUME NEW c \in Conn, FastSilent(c) PROVE entry'[k] = Absent <=> killed'[entry[k]]
    BY <2>1 DEF FastSilent, IInv
  <2>2. ASSUME NEW c \in Conn, Insert(c) PROVE FALSE
    BY <2>2 DEF Insert, IInv, OwnerInv, Holding
  <2>3. ASSUME NEW ch \in Child, ReaperFinalize(ch) PROVE entry'[k] = Absent <=> killed'[entry[k]]
    BY <2>3 DEF ReaperFinalize, IInv
  <2>4. entry' # entry
    OBVIOUS
  <2> QED
    BY <2>1, <2>2, <2>3, <2>4, QuietSteps
<1> QED
  BY <1>1, Inductive, PTL DEF Spec, ForgottenIffKilled

-----------------------------------------------------------------------------
(* What the daemon sends a client: the stream of every client is one       *)
(* session's story, and an attached client is in step with the ring of its *)
(* session.                                                                *)

\* Connections that are not registered yet.
Early == {"idle", "fast", "killStale", "slow", "spawning", "probe", "killDup", "rejoin", "insert"}

\* StreamWellFormed, of one stream.
WellFormed(s) ==
  \/ s = <<>> \/ s = <<Denied>>
  \/ /\ s[1].kind = "welcome"
     /\ \A i \in 2..Len(s) :
          /\ s[i].child = s[1].child
          /\ \/ s[i].kind = "out" /\ (i > 2 => s[i].n = s[i-1].n + 1)
             \/ s[i].kind = "exited" /\ i = Len(s)

\* s tells of ch from the chunk it starts with.
Story(ch, s) ==
  /\ s \in Seq(Frame) /\ s # <<>> /\ s[1] = Welcome(ch)
  /\ \A i \in 2..Len(s) : s[i] = Output(ch, s[2].n + i - 2)

\* It tells all that the ring r holds, up to the newest chunk.
InSync(ch, s, r) ==
  /\ Story(ch, s)
  /\ IF r = <<>> THEN Len(s) = 1
     ELSE Len(s) > 1 /\ s[Len(s)] = r[Len(r)] /\ s[2].n <= r[1].n

StreamInv ==
  /\ \A c \in Conn : pc[c] \in Early => sent[c] = <<>>
  /\ \A c \in Conn : WellFormed(sent[c])
  /\ \A k \in Key : Live(k) => \A c \in attached[entry[k]] :
       InSync(entry[k], sent[c], ring[entry[k]])

\* What SessionDaemonProofs knows of every state.
BaseInv ==
  TypeOK /\ OwnerInv /\ ThreadInv /\ HomeInv /\ GenInv /\ RegistrationsOwned /\ RingInv

-----------------------------------------------------------------------------
(* Streams.                                                                *)

\* A frame of a stream has a number.
LEMMA FrameNumber ==
  ASSUME NEW s \in Seq(Frame), NEW i \in 1..Len(s)
  PROVE  s[i] \in Frame /\ s[i].n \in Nat
<1>1. s[i] \in Frame
  OBVIOUS
<1> QED
  BY <1>1 DEF Frame

\* Welcome and the replay bring a client in step with the ring.
LEMMA ReplaySyncs ==
  ASSUME NEW ch \in Child, NEW r \in Seq(Frame), Tailed(ch, r)
  PROVE  InSync(ch, <<Welcome(ch)>> \o r, r)
<1> DEFINE w == <<Welcome(ch)>>
           s == w \o r
<1>1. w \in Seq(Frame) /\ Len(w) = 1 /\ w[1] = Welcome(ch)
  BY FrameTypes
<1> HIDE DEF w
<1>2. /\ s \in Seq(Frame) /\ Len(s) = Len(r) + 1 /\ s[1] = Welcome(ch)
      /\ \A i \in 2..Len(s) : s[i] = r[i - 1]
  <2>1. /\ s \in Seq(Frame) /\ Len(s) = 1 + Len(r)
        /\ \A i \in 1..(1 + Len(r)) : s[i] = IF i <= 1 THEN w[i] ELSE r[i - 1]
    <3>1. /\ w \o r \in Seq(Frame) /\ Len(w \o r) = Len(w) + Len(r)
          /\ \A i \in 1..(Len(w) + Len(r)) :
               (w \o r)[i] = IF i <= Len(w) THEN w[i] ELSE r[i - Len(w)]
      BY <1>1, ConcatProperties
    <3> QED
      BY <1>1, <3>1
  <2> HIDE DEF s
  <2> QED
    BY <1>1, <2>1
<1>3. \A i \in 1..Len(r) : r[i] = Output(ch, r[1].n + i - 1) /\ r[i] \in Frame
  BY DEF Tailed
<1> HIDE DEF s
<1>4. s # <<>>
  BY <1>2
<1>5. ASSUME r # <<>>
      PROVE  /\ Len(s) > 1 /\ s[Len(s)] = r[Len(r)] /\ s[2] = r[1]
             /\ r[1].n \in Nat
  <2>1. Len(r) >= 1 /\ 1 \in 1..Len(r)
    BY <1>5
  <2>2. Len(s) \in 2..Len(s) /\ 2 \in 2..Len(s) /\ Len(s) - 1 = Len(r)
    BY <1>2, <2>1
  <2>3. s[Len(s)] = r[Len(s) - 1] /\ s[2] = r[2 - 1]
    BY <1>2, <2>2
  <2> QED
    BY <1>2, <1>3, <2>1, <2>2, <2>3 DEF Frame
<1>6. ASSUME NEW i \in 2..Len(s) PROVE s[i] = Output(ch, s[2].n + i - 2)
  <2>1. i - 1 \in 1..Len(r) /\ r # <<>>
    BY <1>2
  <2>2. s[i] = Output(ch, r[1].n + (i - 1) - 1)
    BY <1>2, <1>3, <2>1
  <2>3. r[1].n + (i - 1) - 1 = s[2].n + i - 2
    BY <1>5, <2>1
  <2> QED
    BY <2>2, <2>3
<1>7. InSync(ch, s, r)
  <2>1. Story(ch, s)
    BY <1>2, <1>4, <1>6 DEF Story
  <2>2. CASE r = <<>>
    BY <1>2, <2>1, <2>2 DEF InSync
  <2>3. CASE r # <<>>
    BY <1>5, <2>1, <2>3 DEF InSync
  <2> QED
    BY <2>2, <2>3
<1> QED
  BY <1>7 DEF s, w

\* A chunk that is retained and broadcast keeps a client in step.
LEMMA PushSyncs ==
  ASSUME NEW ch \in Child, NEW r \in Seq(Frame), Len(r) <= RingCap, Tailed(ch, r),
         NEW s, InSync(ch, s, r)
  PROVE  LET f == Output(ch, LastChunk(r) + 1) IN InSync(ch, Append(s, f), RingPush(r, f))
<1> USE BoundsAssumption DEF BoundsAssumption
<1> DEFINE f == Output(ch, LastChunk(r) + 1)
           t == RingPush(r, f)
           a == Append(s, f)
<1>1. LastChunk(r) \in Nat /\ f \in Frame /\ f.n = LastChunk(r) + 1
  <2>1. r # <<>> => r[Len(r)] \in Frame
    OBVIOUS
  <2>2. LastChunk(r) \in Nat
    BY <2>1 DEF Frame, LastChunk
  <2> QED
    BY <2>2, FrameTypes DEF Output
<1>2. /\ Tailed(ch, t) /\ LastChunk(t) = LastChunk(r) + 1
      /\ t \in Seq(Frame) /\ Len(t) <= RingCap
  BY <1>1, RingPushTail, RingPushType
<1>3. t # <<>>
  <2>1. LastChunk(r) + 1 # 0
    BY <1>1
  <2> QED
    BY <1>2, <2>1 DEF LastChunk
<1>4. s \in Seq(Frame) /\ s # <<>> /\ s[1] = Welcome(ch) /\ Len(s) \in Nat /\ Len(s) >= 1
      /\ \A i \in 2..Len(s) : s[i] = Output(ch, s[2].n + i - 2)
  BY DEF InSync, Story
<1> HIDE DEF f, t
<1>5. /\ a \in Seq(Frame) /\ a # <<>> /\ Len(a) = Len(s) + 1 /\ a[Len(s) + 1] = f
      /\ \A i \in 1..Len(s) : a[i] = s[i]
  BY <1>1, <1>4
<1> HIDE DEF a
<1>6. t[Len(t)] = f
  <2>1. Len(t) \in 1..Len(t) /\ 1 \in 1..Len(t)
    BY <1>2, <1>3
  <2>2. t[Len(t)] = Output(ch, t[1].n + Len(t) - 1)
    BY <1>2, <2>1 DEF Tailed
  <2>3. t[1].n \in Nat /\ Len(t) \in Nat
    BY <1>2, <2>1, FrameNumber
  <2>4. t[Len(t)].n = t[1].n + Len(t) - 1
    BY <2>2, <2>3 DEF Output
  <2>5. t[Len(t)].n = LastChunk(r) + 1
    BY <1>2, <1>3 DEF LastChunk
  <2> QED
    BY <2>2, <2>4, <2>5 DEF f
<1>7. CASE r = <<>>
  <2>1. Len(s) = 1 /\ LastChunk(r) = 0
    BY <1>7 DEF InSync, LastChunk
  <2>2. Len(a) = 2 /\ a[2] = f /\ a[1] = Welcome(ch)
    BY <1>4, <1>5, <2>1
  <2>3. a[2].n = 1 /\ f = Output(ch, 1)
    BY <2>1, <2>2 DEF f, Output
  <2>4. Story(ch, a)
    <3>1. \A i \in 2..Len(a) : a[i] = Output(ch, a[2].n + i - 2)
      BY <2>2, <2>3
    <3> QED
      BY <1>5, <2>2, <3>1 DEF Story
  <2>5. t = <<f>>
    BY <1>1, <1>7 DEF t, RingPush
  <2> QED
    BY <1>3, <2>2, <2>3, <2>4, <2>5 DEF InSync, f, t, a
<1>8. CASE r # <<>>
  <2>1. Len(s) > 1 /\ s[Len(s)] = r[Len(r)] /\ s[2].n <= r[1].n
    BY <1>8 DEF InSync
  <2>2. 2 \in 2..Len(s) /\ Len(s) \in 2..Len(s) /\ 2 \in 1..Len(s) /\ s[2].n \in Nat
    BY <1>4, <2>1, FrameNumber
  <2>3. LastChunk(r) = s[2].n + Len(s) - 2
    <3>1. s[Len(s)] = Output(ch, s[2].n + Len(s) - 2)
      BY <1>4, <2>2
    <3>2. LastChunk(r) = s[Len(s)].n
      BY <1>8, <2>1 DEF LastChunk
    <3> QED
      BY <3>1, <3>2 DEF Output
  <2>4. f = Output(ch, s[2].n + (Len(s) + 1) - 2)
    <3>1. LastChunk(r) + 1 = s[2].n + (Len(s) + 1) - 2
      <4>1. s[2].n \in Nat /\ Len(s) \in Nat
        BY <1>4, <2>2
      <4> HIDE DEF f
      <4> QED
        BY <2>3, <4>1
    <3> QED
      BY <3>1 DEF f
  <2>5. a[2] = s[2] /\ a[1] = Welcome(ch)
    BY <1>4, <1>5, <2>2
  <2>6. Story(ch, a)
    <3>1. ASSUME NEW i \in 2..Len(a) PROVE a[i] = Output(ch, a[2].n + i - 2)
      <4>1. CASE i = Len(s) + 1
        BY <1>5, <2>4, <2>5, <4>1
      <4>2. CASE i # Len(s) + 1
        <5>1. i \in 2..Len(s) /\ i \in 1..Len(s)
          BY <1>4, <1>5, <4>2
        <5> QED
          BY <1>4, <1>5, <2>5, <5>1
      <4> QED
        BY <4>1, <4>2
    <3> QED
      BY <1>5, <2>5, <3>1 DEF Story
  <2>7. s[2].n <= t[1].n
    <3>1. Len(r) >= 1 /\ 1 \in 1..Len(r) /\ r[1].n \in Nat /\ Len(r) \in Nat /\ r[1] \in Frame
      <4>1. Len(r) >= 1 /\ 1 \in 1..Len(r) /\ Len(r) \in Nat
        BY <1>8
      <4> QED
        BY <4>1, FrameNumber
    <3> DEFINE q == Append(r, f)
    <3>2. /\ q \in Seq(Frame) /\ Len(q) = Len(r) + 1 /\ q[1] = r[1]
          /\ q[2] = IF Len(r) = 1 THEN f ELSE r[2]
      <4>1. /\ q \in Seq(Frame) /\ Len(q) = Len(r) + 1 /\ q[Len(r) + 1] = f
            /\ \A i \in 1..Len(r) : q[i] = r[i]
        BY <1>1
      <4>2. Len(r) # 1 => 2 \in 1..Len(r)
        <5>1. Len(r) \in Nat /\ Len(r) >= 1
          BY <3>1
        <5>2. \A n \in Nat : n >= 1 /\ n # 1 => 2 \in 1..n
          OBVIOUS
        <5> QED
          BY <5>1, <5>2
      <4> HIDE DEF q
      <4> QED
        BY <3>1, <4>1, <4>2
    <3>3. q[2].n >= r[1].n
      <4>1. CASE Len(r) = 1
        BY <1>1, <3>1, <3>2, <4>1 DEF LastChunk
      <4>2. CASE Len(r) # 1
        <5>0. Len(r) \in Nat /\ Len(r) >= 1
          BY <3>1
        <5>1. 2 \in 1..Len(r)
          BY <4>2, <5>0
        <5>2. r[2] = Output(ch, r[1].n + 2 - 1)
          BY <5>1 DEF Tailed
        <5> QED
          BY <3>1, <3>2, <4>2, <5>2 DEF Output
      <4> QED
        BY <4>1, <4>2
    <3>4. t = IF Len(q) > RingCap THEN Tail(q) ELSE q
      BY DEF t, RingPush
    <3> HIDE DEF q
    <3>5. Tail(q)[1] = q[2]
      BY <3>1, <3>2
    <3>6. q[2].n \in Nat
      <4>1. 2 \in 1..Len(q)
        BY <3>1, <3>2
      <4> QED
        BY <3>2, <4>1, FrameNumber
    <3>7. t[1] = q[1] \/ t[1] = q[2]
      BY <3>4, <3>5
    <3> QED
      BY <2>1, <2>2, <3>1, <3>2, <3>3, <3>6, <3>7
  <2>8. InSync(ch, a, t)
    <3>1. Len(a) > 1 /\ a[Len(a)] = t[Len(t)] /\ a[2].n <= t[1].n
      BY <1>4, <1>5, <1>6, <2>5, <2>7
    <3> QED
      BY <1>3, <2>6, <3>1 DEF InSync
  <2> QED
    BY <2>8 DEF a, t, f
<1> QED
  BY <1>7, <1>8

\* A story is well formed.
LEMMA StoryForms ==
  ASSUME NEW ch \in Child, NEW s, Story(ch, s)
  PROVE  WellFormed(s)
<1>1. s[1] = Welcome(ch) /\ s \in Seq(Frame) /\ Len(s) \in Nat
  BY DEF Story
<1>2. ASSUME NEW i \in 2..Len(s)
      PROVE  s[i].child = s[1].child /\ s[i].kind = "out" /\ (i > 2 => s[i].n = s[i-1].n + 1)
  <2>1. s[i] = Output(ch, s[2].n + i - 2)
    BY DEF Story
  <2>2. 2 \in 1..Len(s) /\ s[2].n \in Nat
    <3>1. 2 \in 1..Len(s)
      BY <1>1
    <3> QED
      BY <1>1, <3>1, FrameNumber
  <2>3. ASSUME i > 2 PROVE s[i].n = s[i-1].n + 1
    <3>1. i - 1 \in 2..Len(s)
      BY <1>1, <2>3
    <3>2. s[i - 1] = Output(ch, s[2].n + (i - 1) - 2)
      BY <3>1 DEF Story
    <3>3. s[2].n + i - 2 = (s[2].n + (i - 1) - 2) + 1
      BY <2>2
    <3> QED
      BY <2>1, <3>2, <3>3 DEF Output
  <2> QED
    BY <1>1, <2>1, <2>3 DEF Output, Welcome
<1> QED
  BY <1>1, <1>2 DEF WellFormed, Welcome

\* And still is with Exited at its end.
LEMMA EndForms ==
  ASSUME NEW ch \in Child, NEW s, Story(ch, s)
  PROVE  WellFormed(Append(s, Exited(ch)))
<1> DEFINE e == Exited(ch)
           a == Append(s, e)
<1>1. s \in Seq(Frame) /\ s # <<>> /\ Len(s) \in Nat /\ s[1] = Welcome(ch) /\ Exited(ch) \in Frame
  BY FrameTypes DEF Story
<1>2. /\ a[1] = s[1] /\ Len(a) = Len(s) + 1 /\ a[Len(s) + 1] = Exited(ch)
      /\ \A i \in 1..Len(s) : a[i] = s[i]
  BY <1>1
<1>3. Len(s) >= 1
  BY <1>1
<1> HIDE DEF a
<1>4. ASSUME NEW i \in 2..Len(a)
      PROVE  /\ a[i].child = a[1].child
             /\ \/ a[i].kind = "out" /\ (i > 2 => a[i].n = a[i-1].n + 1)
                \/ a[i].kind = "exited" /\ i = Len(a)
  <2>1. CASE i = Len(s) + 1
    BY <1>1, <1>2, <2>1 DEF Exited, Welcome
  <2>2. CASE i # Len(s) + 1
    <3>1. i \in 2..Len(s) /\ i \in 1..Len(s) /\ i - 1 \in 1..Len(s)
      BY <1>1, <1>2, <2>2
    <3>2. s[i] = Output(ch, s[2].n + i - 2)
      BY <3>1 DEF Story
    <3>3. ASSUME i > 2 PROVE s[i].n = s[i-1].n + 1
      <4>1. i - 1 \in 2..Len(s) /\ 2 \in 1..Len(s)
        BY <1>1, <3>1, <3>3
      <4>2. s[i - 1] = Output(ch, s[2].n + (i - 1) - 2) /\ s[2].n \in Nat
        BY <1>1, <4>1, FrameNumber DEF Story
      <4>3. s[2].n + i - 2 = (s[2].n + (i - 1) - 2) + 1
        BY <4>2
      <4> QED
        BY <3>2, <4>2, <4>3 DEF Output
    <3> QED
      BY <1>1, <1>2, <3>1, <3>2, <3>3 DEF Output, Welcome
  <2> QED
    BY <2>1, <2>2
<1>5. a[1].kind = "welcome"
  BY <1>1, <1>2 DEF Welcome
<1> QED
  BY <1>4, <1>5 DEF WellFormed, a

-----------------------------------------------------------------------------
(* The steps.                                                              *)

\* A registered connection is past its attach, and only the session under
\* its own key has it.
LEMMA Registered ==
  ASSUME BaseInv, NEW k \in Key, Live(k), NEW c \in attached[entry[k]]
  PROVE  c \in Conn /\ entry[k] \in Child /\ AttachKey[c] = k /\ pc[c] \notin Early
BY DEF BaseInv, TypeOK, Live, RegistrationsOwned, Early

\* Steps that send nothing and register nobody.
LEMMA SilentStep ==
  ASSUME StreamInv, TypeOK, UNCHANGED <<sent, ring>>,
         \A c \in Conn : pc'[c] \in Early => pc[c] \in Early,
         \A k \in Key : Live(k)' => Live(k) /\ entry'[k] = entry[k],
         \A ch \in Child : attached'[ch] \subseteq attached[ch]
  PROVE  StreamInv'
<1>1. ASSUME NEW k \in Key, Live(k)', NEW c \in attached'[entry'[k]]
      PROVE  InSync(entry'[k], sent'[c], ring'[entry'[k]])
  <2>1. Live(k) /\ entry'[k] = entry[k] /\ entry[k] \in Child
    BY <1>1 DEF Live
  <2>2. c \in attached[entry[k]]
    BY <1>1, <2>1
  <2> QED
    BY <2>1, <2>2 DEF StreamInv
<1>2. \A c \in Conn : pc'[c] \in Early => sent'[c] = <<>>
  BY DEF StreamInv
<1>3. \A c \in Conn : WellFormed(sent'[c])
  BY DEF StreamInv
<1> QED
  BY <1>1, <1>2, <1>3 DEF StreamInv

\* Only c's stream changes, and c is not registered afterwards.
LEMMA PartingStep ==
  ASSUME StreamInv, TypeOK, NEW c \in Conn, NEW s, WellFormed(s),
         sent' = [sent EXCEPT ![c] = s], pc'[c] \notin Early,
         \A d \in Conn \ {c} : pc'[d] = pc[d],
         UNCHANGED <<ring, entry, attached>>,
         \A k \in Key : Live(k) => c \notin attached[entry[k]]
  PROVE  StreamInv'
<1>1. ASSUME NEW d \in Conn, d # c PROVE sent'[d] = sent[d]
  BY <1>1 DEF TypeOK
<1>2. sent'[c] = s
  BY DEF TypeOK
<1>3. ASSUME NEW k \in Key, Live(k)', NEW d \in attached'[entry'[k]]
      PROVE  InSync(entry'[k], sent'[d], ring'[entry'[k]])
  <2>1. Live(k) /\ entry[k] \in Child /\ d \in attached[entry[k]] /\ d # c /\ d \in Conn
    BY <1>3 DEF Live, TypeOK
  <2> QED
    BY <1>1, <2>1 DEF StreamInv
<1>4. \A d \in Conn : pc'[d] \in Early => sent'[d] = <<>>
  BY <1>1 DEF StreamInv
<1>5. \A d \in Conn : WellFormed(sent'[d])
  BY <1>1, <1>2 DEF StreamInv
<1> QED
  BY <1>3, <1>4, <1>5 DEF StreamInv

\* A connection that has been sent nothing is welcomed by session ch, which
\* from then on is the one under its key.
LEMMA WelcomeStep ==
  ASSUME BaseInv, StreamInv, NEW c \in Conn, NEW ch \in Child,
         pc[c] \in Early, pc' = [pc EXCEPT ![c] = "serving"],
         Send(c, <<Welcome(ch)>> \o ring[ch]), UNCHANGED ring,
         \A k \in Key : Live(k)' /\ entry'[k] # ch => Live(k) /\ entry'[k] = entry[k],
         \A k \in Key : Live(k)' /\ entry'[k] = ch =>
           \/ attached'[ch] = {c}
           \/ Live(k) /\ entry[k] = ch /\ attached'[ch] = attached[ch] \cup {c},
         \A x \in Child \ {ch} : attached'[x] \subseteq attached[x]
  PROVE  StreamInv'
<1> DEFINE s == <<Welcome(ch)>> \o ring[ch]
<1>1. sent[c] = <<>> /\ s \in Seq(Frame) /\ InSync(ch, s, ring[ch])
  <2>1. Tailed(ch, ring[ch]) /\ ring[ch] \in Seq(Frame)
    BY DEF BaseInv, RingInv, TypeOK
  <2>2. sent[c] = <<>>
    BY DEF StreamInv
  <2>3. InSync(ch, s, ring[ch])
    BY <2>1, ReplaySyncs
  <2> QED
    BY <2>2, <2>3 DEF InSync, Story
<1> HIDE DEF s
<1>2. sent' = [sent EXCEPT ![c] = s]
  <2>1. <<>> \o s = s
    BY <1>1
  <2> QED
    BY <1>1, <2>1 DEF Send, s
<1>3. sent \in [Conn -> Seq(Frame)] /\ pc \in [Conn -> ConnPc]
  BY DEF BaseInv, TypeOK
<1>4. sent'[c] = s /\ \A d \in Conn \ {c} : sent'[d] = sent[d] /\ pc'[d] = pc[d]
  BY <1>2, <1>3
<1>5. pc'[c] \notin Early
  BY <1>3 DEF Early
<1>6. ASSUME NEW k \in Key, Live(k)', NEW d \in attached'[entry'[k]]
      PROVE  InSync(entry'[k], sent'[d], ring'[entry'[k]])
  <2>1. CASE entry'[k] = ch
    <3>1. CASE d = c
      BY <1>1, <1>4, <2>1, <3>1
    <3>2. CASE d # c
      <4>1. Live(k) /\ entry[k] = ch /\ d \in attached[entry[k]]
        BY <1>6, <2>1, <3>2
      <4>2. d \in Conn
        BY <4>1, Registered
      <4> QED
        BY <1>4, <2>1, <3>2, <4>1, <4>2 DEF StreamInv
    <3> QED
      BY <3>1, <3>2
  <2>2. CASE entry'[k] # ch
    <3>1. Live(k) /\ entry'[k] = entry[k] /\ entry[k] \in Child
      BY <1>6, <2>2 DEF Live
    <3>2. d \in attached[entry[k]]
      BY <1>6, <2>2, <3>1
    <3>3. d \in Conn /\ d # c
      BY <3>1, <3>2, Registered
    <3> QED
      BY <1>4, <3>1, <3>2, <3>3 DEF StreamInv
  <2> QED
    BY <2>1, <2>2
<1>7. \A d \in Conn : pc'[d] \in Early => sent'[d] = <<>>
  BY <1>4, <1>5 DEF StreamInv
<1>8. \A d \in Conn : WellFormed(sent'[d])
  <2>1. WellFormed(s)
    BY <1>1, StoryForms DEF InSync
  <2> QED
    BY <1>4, <2>1 DEF StreamInv
<1> QED
  BY <1>6, <1>7, <1>8 DEF StreamInv

\* What connections do keeps streams in order.
LEMMA StreamConn ==
  ASSUME BaseInv, StreamInv, NEW c \in Conn, ClientStep(c) \/ ConnStep(c)
  PROVE  StreamInv'
<1> USE DEF regVars, sessVars, connVars, childVars
<1>1. TypeOK /\ AttachKey[c] \in Key /\ pc \in [Conn -> ConnPc]
  BY RequestsAssumption DEF BaseInv, TypeOK, RequestsAssumption
<1>2. CASE \/ Connect(c) \/ ConnectGone(c) \/ ClientKill(c) \/ ClientInputToDead(c) \/ ClientLeave(c)
           \/ KillStale(c) \/ FastMiss(c) \/ GateAcquire(c) \/ (\E ch \in Child : SpawnOk(c, ch))
           \/ Probe(c) \/ KillDup(c)
  <2>1. UNCHANGED <<sent, ring, entry, attached>>
    BY <1>2 DEF Connect, ConnectGone, ClientKill, ClientInputToDead, ClientLeave, KillStale, FastMiss,
                GateAcquire, SpawnOk, Probe, KillDup
  <2>2. \A d \in Conn : pc'[d] \in Early => pc[d] \in Early
    BY <1>1, <1>2 DEF Connect, ConnectGone, ClientKill, ClientInputToDead, ClientLeave, KillStale,
                FastMiss, GateAcquire, SpawnOk, Probe, KillDup, Goto, Early
  <2> QED
    BY <1>1, <2>1, <2>2, SilentStep DEF Live
<1>3. CASE FastSilent(c)
  <2>1. Live(AttachKey[c]) /\ entry[AttachKey[c]] \in Child
    BY <1>3 DEF FastSilent, Live
  <2>2. /\ UNCHANGED <<sent, ring>> /\ entry' = [entry EXCEPT ![AttachKey[c]] = Absent]
        /\ attached' = [attached EXCEPT ![entry[AttachKey[c]]] = {}]
        /\ pc[c] = "fast" /\ pc' = [pc EXCEPT ![c] = "killStale"]
    BY <1>3 DEF FastSilent, Goto
  <2>3. \A d \in Conn : pc'[d] \in Early => pc[d] \in Early
    BY <1>1, <2>2 DEF Early
  <2>4. \A k \in Key : Live(k)' => Live(k) /\ entry'[k] = entry[k]
    BY <1>1, <2>2, ConstantsDistinct DEF ConstantsDistinct, Live, TypeOK
  <2>5. \A ch \in Child : attached'[ch] \subseteq attached[ch]
    BY <1>1, <2>2 DEF TypeOK
  <2> QED
    BY <1>1, <2>2, <2>3, <2>4, <2>5, SilentStep
<1>4. CASE Unregister(c)
  <2>1. UNCHANGED <<sent, ring, entry>> /\ pc' = [pc EXCEPT ![c] = "drain"]
    BY <1>4 DEF Unregister, Goto
  <2>2. \A d \in Conn : pc'[d] \in Early => pc[d] \in Early
    BY <1>1, <2>1 DEF Early
  <2>3. \A ch \in Child : attached'[ch] \subseteq attached[ch]
    BY <1>4 DEF Unregister
  <2> QED
    BY <1>1, <2>1, <2>2, <2>3, SilentStep DEF Live
<1>5. CASE SlowDeny(c) \/ SpawnFail(c)
  <2>1. /\ pc[c] \in Early /\ Send(c, <<Denied>>) /\ pc' = [pc EXCEPT ![c] = "drain"]
        /\ UNCHANGED <<ring, entry, attached>>
    BY <1>5 DEF SlowDeny, SpawnFail, Goto, Early
  <2>2. sent[c] = <<>> /\ \A k \in Key : Live(k) => c \notin attached[entry[k]]
    BY <2>1, Registered DEF StreamInv
  <2>3. <<>> \o <<Denied>> = <<Denied>>
    BY FrameTypes
  <2>4. sent' = [sent EXCEPT ![c] = <<Denied>>]
    BY <2>1, <2>2, <2>3 DEF Send
  <2>5. WellFormed(<<Denied>>)
    BY DEF WellFormed
  <2>6. pc'[c] \notin Early /\ \A d \in Conn \ {c} : pc'[d] = pc[d]
    BY <1>1, <2>1 DEF Early
  <2> QED
    BY <1>1, <2>1, <2>2, <2>4, <2>5, <2>6, PartingStep
<1>6. CASE Drain(c)
  <2>1. /\ sent' = [sent EXCEPT ![c] = <<>>] /\ pc' = [pc EXCEPT ![c] = "closed"]
        /\ UNCHANGED <<ring, entry, attached>>
        /\ \A k \in Key : Live(k) => c \notin attached[entry[k]]
    BY <1>6 DEF Drain, Goto
  <2>2. WellFormed(<<>>)
    BY DEF WellFormed
  <2>3. pc'[c] \notin Early /\ \A d \in Conn \ {c} : pc'[d] = pc[d]
    BY <1>1, <2>1 DEF Early
  <2> QED
    BY <1>1, <2>1, <2>2, <2>3, PartingStep
<1>7. CASE (FastHit(c) \/ Rejoin(c)) /\ Live(AttachKey[c]) /\ Register(c, entry[AttachKey[c]])
  <2> DEFINE ch == entry[AttachKey[c]]
  <2>1. /\ ch \in Child /\ pc[c] \in Early /\ pc' = [pc EXCEPT ![c] = "serving"]
        /\ Send(c, <<Welcome(ch)>> \o ring[ch]) /\ UNCHANGED <<ring, entry>>
        /\ attached' = [attached EXCEPT ![ch] = attached[ch] \cup {c}]
    BY <1>7 DEF FastHit, Rejoin, Register, Goto, Live, Early
  <2> HIDE DEF ch
  <2>2. /\ attached'[ch] = attached[ch] \cup {c}
        /\ \A x \in Child \ {ch} : attached'[x] \subseteq attached[x]
    BY <1>1, <2>1 DEF TypeOK
  <2> QED
    BY <2>1, <2>2, WelcomeStep DEF Live
<1>8. CASE Rejoin(c) /\ ~Live(AttachKey[c])
  <2>1. UNCHANGED <<sent, ring, entry, attached>> /\ pc' = [pc EXCEPT ![c] = "serving"]
    BY <1>8 DEF Rejoin, Goto
  <2>2. \A d \in Conn : pc'[d] \in Early => pc[d] \in Early
    BY <1>1, <2>1 DEF Early
  <2> QED
    BY <1>1, <2>1, <2>2, SilentStep DEF Live
<1>9. CASE Insert(c)
  <2> DEFINE ch == mine[c]
  <2>1. ch \in Child /\ pump[ch] = "off" /\ pc[c] = "insert"
    BY <1>9 DEF Insert, BaseInv, OwnerInv, Holding
  <2>2. /\ pc' = [pc EXCEPT ![c] = "serving"] /\ Send(c, <<Welcome(ch)>>) /\ UNCHANGED ring
        /\ entry' = [entry EXCEPT ![AttachKey[c]] = ch]
        /\ attached'[ch] = {c}
        /\ \A x \in Child \ {ch} : attached'[x] \subseteq attached[x]
    BY <1>9, <2>1 DEF Insert, Goto
  <2>3. ring[ch] = <<>>
    BY <2>1 DEF BaseInv, RingInv
  <2>4. Send(c, <<Welcome(ch)>> \o ring[ch])
    <3>1. <<Welcome(ch)>> \o <<>> = <<Welcome(ch)>>
      BY <2>1, FrameTypes
    <3> QED
      BY <2>2, <2>3, <3>1
  <2> HIDE DEF ch
  <2>5. \A k \in Key : Live(k)' /\ entry'[k] # ch => Live(k) /\ entry'[k] = entry[k]
    BY <1>1, <2>2 DEF Live, TypeOK
  <2>6. pc[c] \in Early
    BY <2>1 DEF Early
  <2> QED
    BY <2>1, <2>2, <2>4, <2>5, <2>6, WelcomeStep
<1>10. CASE FastHit(c) \/ Rejoin(c)
  BY <1>7, <1>8, <1>10 DEF FastHit, Rejoin
<1> QED
  BY <1>2, <1>3, <1>4, <1>5, <1>6, <1>9, <1>10 DEF ClientStep, ConnStep

\* What children and their threads do keeps streams in order: a pump pushes
\* to the clients of its own session only, and Exited parts with them.
LEMMA StreamChild ==
  ASSUME BaseInv, StreamInv, NEW ch \in Child,
         ChildStep(ch) \/ KillWorker(ch) \/ PumpStep(ch) \/ ReaperStep(ch)
  PROVE  StreamInv'
<1> USE DEF regVars, sessVars, connVars, childVars
<1>1. TypeOK /\ HomeInv /\ GenInv /\ Home[ch] \in Key
  BY RequestsAssumption DEF BaseInv, RequestsAssumption
<1>2. CASE ChildStep(ch) \/ KillWorker(ch) \/ PumpRead(ch) \/ PumpRetire(ch) \/ PumpEof(ch)
           \/ ReaperStart(ch) \/ ReaperGiveUp(ch)
  <2>1. UNCHANGED <<sent, ring, entry, attached, pc>>
    BY <1>2 DEF ChildStep, ChildWrite, ChildExit, KillWorker, PumpRead, PumpRetire, PumpEof,
                ReaperStart, ReaperGiveUp
  <2> QED
    BY <1>1, <2>1, SilentStep DEF Live
<1>3. CASE PumpPush(ch)
  <2> DEFINE r == ring[ch]
             f == Output(ch, LastChunk(r) + 1)
  <2>1. entry[Home[ch]] = ch /\ pump[ch] = "holding" /\ Live(Home[ch])
    BY <1>1, <1>3, OwnSessionIsOwn DEF PumpPush, Live
  <2>2. pulled[ch] = LastChunk(r) + 1 /\ Tailed(ch, r) /\ r \in Seq(Frame) /\ Len(r) <= RingCap
    BY <1>1, <2>1 DEF BaseInv, RingInv, TypeOK
  <2>3. /\ ring' = [ring EXCEPT ![ch] = RingPush(r, f)]
        /\ sent' = [c \in Conn |-> IF c \in attached[ch] THEN Append(sent[c], f) ELSE sent[c]]
        /\ UNCHANGED <<entry, attached, pc>>
    BY <1>3, <2>1, <2>2 DEF PumpPush, Broadcast
  <2>4. ASSUME NEW c \in attached[ch]
        PROVE  /\ c \in Conn /\ pc[c] \notin Early
               /\ sent'[c] = Append(sent[c], f) /\ InSync(ch, sent'[c], RingPush(r, f))
    <3>1. c \in Conn /\ pc[c] \notin Early /\ InSync(ch, sent[c], r)
      <4>1. c \in attached[entry[Home[ch]]]
        BY <2>1
      <4>2. c \in Conn /\ pc[c] \notin Early
        BY <1>1, <2>1, <4>1, Registered
      <4>3. InSync(entry[Home[ch]], sent[c], ring[entry[Home[ch]]])
        BY <1>1, <2>1, <4>1 DEF StreamInv
      <4> QED
        BY <2>1, <4>2, <4>3
    <3>2. InSync(ch, Append(sent[c], f), RingPush(r, f))
      BY <2>2, <3>1, PushSyncs
    <3> QED
      BY <2>3, <3>1, <3>2
  <2>5. ring'[ch] = RingPush(r, f) /\ \A x \in Child \ {ch} : ring'[x] = ring[x]
    BY <1>1, <2>3 DEF TypeOK
  <2> HIDE DEF r, f
  <2>6. \A c \in Conn : c \notin attached[ch] => sent'[c] = sent[c]
    BY <2>3
  <2>7. ASSUME NEW k \in Key, Live(k)', NEW c \in attached'[entry'[k]]
        PROVE  InSync(entry'[k], sent'[c], ring'[entry'[k]])
    <3>1. Live(k) /\ entry[k] \in Child /\ c \in attached[entry[k]] /\ entry'[k] = entry[k]
      BY <2>3, <2>7 DEF Live
    <3>2. c \in Conn /\ AttachKey[c] = k
      BY <3>1, Registered
    <3>3. CASE entry[k] = ch
      BY <2>4, <2>5, <3>1, <3>3
    <3>4. CASE entry[k] # ch
      <4>1. c \notin attached[ch]
        <5>1. c \in attached[entry[Home[ch]]] => AttachKey[c] = Home[ch]
          BY <1>1, <2>1, Registered
        <5> QED
          BY <2>1, <3>2, <3>4, <5>1
      <4> QED
        BY <2>5, <2>6, <3>1, <3>2, <3>4, <4>1 DEF StreamInv
    <3> QED
      BY <3>3, <3>4
  <2>8. \A c \in Conn : pc'[c] \in Early => sent'[c] = <<>>
    BY <2>3, <2>4, <2>6 DEF StreamInv
  <2>9. ASSUME NEW c \in Conn PROVE WellFormed(sent'[c])
    <3>1. CASE c \in attached[ch]
      BY <2>4, <3>1, StoryForms DEF InSync
    <3>2. CASE c \notin attached[ch]
      BY <2>6, <3>2 DEF StreamInv
    <3> QED
      BY <3>1, <3>2
  <2> QED
    BY <2>7, <2>8, <2>9 DEF StreamInv
<1>4. CASE ReaperFinalize(ch)
  <2>1. pump[ch] # "off"
    BY <1>4 DEF ReaperFinalize, BaseInv, ThreadInv
  <2>2. entry[Home[ch]] = ch /\ Live(Home[ch])
    BY <1>1, <1>4, <2>1, OwnSessionIsOwn DEF ReaperFinalize, Live
  <2> DEFINE e == Exited(ch)
  <2>3. /\ sent' = [c \in Conn |-> IF c \in attached[ch] THEN Append(sent[c], e) ELSE sent[c]]
        /\ attached' = [attached EXCEPT ![ch] = {}]
        /\ entry' = [entry EXCEPT ![Home[ch]] = IF killed[ch] THEN Absent ELSE Dead]
        /\ UNCHANGED <<ring, pc>>
    BY <1>4, <2>2 DEF ReaperFinalize, Broadcast
  <2>4. ASSUME NEW c \in attached[ch]
        PROVE  c \in Conn /\ pc[c] \notin Early /\ WellFormed(Append(sent[c], e))
    <3>1. c \in attached[entry[Home[ch]]]
      BY <2>2
    <3>2. c \in Conn /\ pc[c] \notin Early
      BY <1>1, <2>2, <3>1, Registered
    <3>3. InSync(entry[Home[ch]], sent[c], ring[entry[Home[ch]]])
      BY <1>1, <2>2, <3>1 DEF StreamInv
    <3>4. Story(ch, sent[c])
      BY <2>2, <3>3 DEF InSync
    <3> QED
      BY <3>2, <3>4, EndForms
  <2> HIDE DEF e
  <2>5. ASSUME NEW k \in Key, Live(k)', NEW c \in attached'[entry'[k]]
        PROVE  InSync(entry'[k], sent'[c], ring'[entry'[k]])
    <3>1. k # Home[ch] /\ entry'[k] = entry[k] /\ Live(k) /\ entry[k] \in Child
      BY <1>1, <2>3, <2>5, ConstantsDistinct DEF ConstantsDistinct, Live, TypeOK
    <3>2. c \in attached[entry[k]]
      BY <1>1, <2>3, <2>5, <3>1 DEF TypeOK
    <3>3. c \in Conn /\ AttachKey[c] = k
      BY <3>1, <3>2, Registered
    <3>4. c \notin attached[ch]
      <4>1. c \in attached[entry[Home[ch]]] => AttachKey[c] = Home[ch]
        BY <1>1, <2>2, Registered
      <4> QED
        BY <2>2, <3>1, <3>3, <4>1
    <3>5. sent'[c] = sent[c]
      BY <2>3, <3>3, <3>4
    <3> QED
      BY <2>3, <3>1, <3>2, <3>5 DEF StreamInv
  <2>6. \A c \in Conn : pc'[c] \in Early => sent'[c] = <<>>
    BY <2>3, <2>4 DEF StreamInv
  <2>7. \A c \in Conn : WellFormed(sent'[c])
    BY <2>3, <2>4 DEF StreamInv
  <2> QED
    BY <2>5, <2>6, <2>7 DEF StreamInv
<1> QED
  BY <1>2, <1>3, <1>4 DEF PumpStep, PumpServe, ReaperStep

-----------------------------------------------------------------------------
(* The theorems.                                                           *)

\* In every reachable state streams are in order.
LEMMA StreamInductive == Spec => []StreamInv
<1>1. Init => StreamInv
  <2> SUFFICES ASSUME Init PROVE StreamInv
    OBVIOUS
  <2>1. \A k \in Key : ~Live(k)
    BY ConstantsDistinct DEF ConstantsDistinct, Init, Live
  <2>2. \A c \in Conn : sent[c] = <<>>
    BY DEF Init
  <2> QED
    BY <2>1, <2>2 DEF StreamInv, WellFormed
<1>2. IInv /\ StreamInv /\ [Next]_vars => StreamInv'
  <2> SUFFICES ASSUME IInv, StreamInv, [Next]_vars PROVE StreamInv'
    OBVIOUS
  <2>1. BaseInv
    BY DEF IInv, BaseInv
  <2>2. CASE UNCHANGED vars
    BY <2>1, <2>2, SilentStep DEF vars, regVars, sessVars, connVars, childVars, Live, BaseInv
  <2> QED
    BY <2>1, <2>2, StreamConn, StreamChild DEF Next
<1> QED
  BY <1>1, <1>2, Inductive, PTL DEF Spec

\* What a client reads is one session's story, across replay, live output,
\* respawns of the key and the spawn race.
THEOREM StreamsAreWellFormed == Spec => []StreamWellFormed
<1>1. StreamInv => StreamWellFormed
  BY DEF StreamInv, WellFormed, StreamWellFormed
<1> QED
  BY <1>1, StreamInductive, PTL

\* No chunk falls between the replay of the ring and the registration of the
\* client, and none is sent twice.
THEOREM AttachedAreInSync == Spec => []AttachedInSync
<1>1. StreamInv => AttachedInSync
  BY DEF StreamInv, InSync, Story, AttachedInSync
<1> QED
  BY <1>1, StreamInductive, PTL

-----------------------------------------------------------------------------
(* When the comments about the spawn race hold (spawn_race and             *)
(* attach_answered show behaviours in which they do not).                  *)

\* A step of a connection moves that one; the others stay where they are.
LEMMA OneMoves ==
  ASSUME TypeOK, [Next]_vars
  PROVE  \/ UNCHANGED pc
         \/ \E c \in Conn : /\ ClientStep(c) \/ ConnStep(c)
                            /\ \A d \in Conn \ {c} : pc'[d] = pc[d]
<1> USE DEF TypeOK, connVars, childVars, Goto
<1>1. ASSUME NEW c \in Conn, ClientStep(c)
      PROVE  \A d \in Conn \ {c} : pc'[d] = pc[d]
  BY <1>1 DEF ClientStep, Connect, ConnectGone, ClientKill, ClientInputToDead, ClientLeave
<1>2. ASSUME NEW c \in Conn, ConnStep(c)
      PROVE  \A d \in Conn \ {c} : pc'[d] = pc[d]
  BY <1>2 DEF ConnStep, FastHit, FastSilent, KillStale, FastMiss, SlowDeny, GateAcquire, SpawnOk,
              SpawnFail, Probe, KillDup, Rejoin, Insert, Unregister, Drain, Register
<1>3. ASSUME NEW ch \in Child, ChildStep(ch) \/ KillWorker(ch) \/ PumpStep(ch) \/ ReaperStep(ch)
      PROVE  UNCHANGED pc
  BY <1>3 DEF ChildStep, ChildWrite, ChildExit, KillWorker, PumpStep, PumpServe, PumpRead, PumpPush, PumpRetire,
              PumpEof, ReaperStep, ReaperStart, ReaperFinalize, ReaperGiveUp
<1>4. CASE UNCHANGED vars
  BY <1>4 DEF vars
<1> QED
  BY <1>1, <1>2, <1>3, <1>4 DEF Next

\* No two connections stand at once between the second lookup of a key and
\* the insert under it, as if one hold of the lock covered both.
InsertsAlone ==
  \A c, d \in Conn :
    AttachKey[c] = AttachKey[d] /\ pc[c] = "insert" /\ pc[d] = "insert" => c = d

\* What the lookup saw is still so.
ClearInv == \A c \in Conn : pc[c] = "insert" => ~Live(AttachKey[c])

\* Only another insert could have filled the key.
LEMMA ClearStep == IInv /\ ClearInv /\ InsertsAlone /\ [Next]_vars => ClearInv'
<1> USE RequestsAssumption, ConstantsDistinct DEF RequestsAssumption, ConstantsDistinct
<1> SUFFICES ASSUME IInv, ClearInv, InsertsAlone, [Next]_vars,
                    NEW c \in Conn, pc'[c] = "insert", Live(AttachKey[c])'
             PROVE  FALSE
  BY DEF ClearInv
<1>1. TypeOK /\ AttachKey[c] \in Key
  BY DEF IInv
<1>2. ASSUME NEW d \in Conn, Insert(d) PROVE FALSE
  <2>1. pc[d] = "insert" /\ pc'[d] = "serving" /\ d # c
    BY <1>1, <1>2 DEF Insert, Goto, TypeOK
  <2>2. pc[c] = "insert"
    BY <1>1, <1>2, <2>1 DEF Insert, Goto, TypeOK
  <2>3. AttachKey[c] # AttachKey[d] /\ ~Live(AttachKey[c])
    BY <2>1, <2>2 DEF InsertsAlone, ClearInv
  <2>4. entry'[AttachKey[c]] = entry[AttachKey[c]]
    BY <1>1, <1>2, <2>3 DEF Insert, TypeOK
  <2> QED
    BY <2>3, <2>4 DEF Live
<1>3. ASSUME \A d \in Conn : ~Insert(d) PROVE Live(AttachKey[c])
  <2>1. ASSUME NEW d \in Conn, FastSilent(d) PROVE Live(AttachKey[c])
    BY <1>1, <2>1 DEF FastSilent, Live, TypeOK
  <2>2. ASSUME NEW ch \in Child, ReaperFinalize(ch) PROVE Live(AttachKey[c])
    BY <1>1, <2>2 DEF ReaperFinalize, Live, TypeOK
  <2>3. CASE UNCHANGED entry
    BY <2>3 DEF Live
  <2> QED
    BY <1>3, <2>1, <2>2, <2>3, QuietSteps
<1>4. ASSUME pc[c] # "insert", Live(AttachKey[c]) PROVE FALSE
  <2>1. ClientStep(c) \/ ConnStep(c)
    BY <1>1, <1>4, OneMoves
  <2> USE DEF TypeOK, Goto, connVars
  <2>2. CASE ClientStep(c)
    BY <1>1, <1>4, <2>2 DEF ClientStep, Connect, ConnectGone, ClientKill, ClientInputToDead, ClientLeave
  <2>3. CASE ConnStep(c)
    BY <1>1, <1>4, <2>3 DEF ConnStep, FastHit, FastSilent, KillStale, FastMiss, SlowDeny, GateAcquire,
                            SpawnOk, SpawnFail, Probe, KillDup, Rejoin, Insert, Unregister, Drain, Register
  <2> QED
    BY <2>1, <2>2, <2>3
<1> QED
  BY <1>2, <1>3, <1>4 DEF ClearInv

\* Only a Dead record, or none, is evicted by an insert as long as no two
\* connections stand between lookup and insert of one key: the spawn gate,
\* which they have both left by then, is the only thing that is missing.
THEOREM EvictsOnlyDead == Spec /\ []InsertsAlone => OnlyDeadEvicted
<1>1. Init => ClearInv
  BY DEF Init, ClearInv
<1>2. ClearInv => \A c \in Conn : Insert(c) => ~Live(AttachKey[c])
  BY DEF ClearInv, Insert
<1> QED
  BY <1>1, <1>2, Inductive, ClearStep, PTL DEF Spec, OnlyDeadEvicted

\* A connection is on its way to a child of its own.
Spawning == {"killStale", "slow", "spawning", "probe", "killDup", "rejoin", "insert"}

\* Clients that bring a spawn spec attach to a key one after another.
SpawnsAlone ==
  \A c, d \in Spawners :
    AttachKey[c] = AttachKey[d] /\ pc[c] \in Spawning /\ pc[d] \in Spawning => c = d

\* Nobody hosts the key meanwhile, so that nobody is found to have won a race.
SoloInv ==
  \A c \in Conn :
    /\ pc[c] \in {"killStale", "spawning", "probe", "insert"} => c \in Spawners
    /\ pc[c] \notin {"killDup", "rejoin"}
    /\ c \in Spawners /\ pc[c] \in Spawning => ~Live(AttachKey[c])
    /\ pc[c] = "serving" => sent[c] # <<>>

\* A stream to which something is added is not empty.
LEMMA AddedTo ==
  ASSUME NEW s \in Seq(Frame)
  PROVE  /\ \A f \in Frame : Append(s, f) # <<>>
         /\ \A t \in Seq(Frame) : t # <<>> => s \o t # <<>> /\ t \o s # <<>>
<1>1. ASSUME NEW f \in Frame PROVE Append(s, f) # <<>>
  <2>1. Len(Append(s, f)) = Len(s) + 1 /\ Len(s) \in Nat /\ Len(<<>>) = 0
    OBVIOUS
  <2> QED
    BY <2>1
<1>2. ASSUME NEW t \in Seq(Frame), t # <<>> PROVE s \o t # <<>> /\ t \o s # <<>>
  <2>1. Len(s \o t) = Len(s) + Len(t) /\ Len(t \o s) = Len(t) + Len(s)
    BY ConcatProperties
  <2>2. Len(t) \in Nat /\ Len(s) \in Nat /\ Len(t) # 0 /\ Len(<<>>) = 0
    BY <1>2, EmptySeq
  <2> QED
    BY <2>1, <2>2
<1> QED
  BY <1>1, <1>2

\* What the step of one connection does to its own place.
LEMMA SoloOwn ==
  ASSUME IInv, SoloInv, NEW c \in Conn, ClientStep(c) \/ ConnStep(c)
  PROVE  /\ pc'[c] \in {"killStale", "spawning", "probe", "insert"} => c \in Spawners
         /\ pc'[c] \notin {"killDup", "rejoin"}
         /\ c \in Spawners /\ pc'[c] \in Spawning => ~Live(AttachKey[c])'
         /\ pc'[c] = "serving" => sent'[c] # <<>>
<1> USE RequestsAssumption, ConstantsDistinct DEF RequestsAssumption, ConstantsDistinct
<1> USE DEF Spawning, Goto, connVars, regVars
<1>1. /\ pc \in [Conn -> ConnPc] /\ entry \in [Key -> Child \cup {Absent, Dead}]
      /\ sent \in [Conn -> Seq(Frame)] /\ ring \in [Child -> Seq(Frame)] /\ AttachKey[c] \in Key
  BY DEF IInv, TypeOK
<1>2. /\ pc[c] \in {"killStale", "spawning", "probe", "insert"} => c \in Spawners
      /\ pc[c] \notin {"killDup", "rejoin"}
      /\ c \in Spawners /\ pc[c] \in Spawning => ~Live(AttachKey[c])
      /\ pc[c] = "serving" => sent[c] # <<>>
  BY DEF SoloInv
<1>3. ASSUME NEW ch \in Child, Register(c, ch) PROVE pc'[c] = "serving" /\ sent'[c] # <<>>
  <2> DEFINE w == <<Welcome(ch)>>
  <2>1. w \in Seq(Frame) /\ w # <<>> /\ sent[c] \in Seq(Frame) /\ ring[ch] \in Seq(Frame)
    BY <1>1, FrameTypes
  <2>2. pc'[c] = "serving" /\ sent'[c] = sent[c] \o (w \o ring[ch])
    BY <1>1, <1>3 DEF Register, Send
  <2> HIDE DEF w
  <2>3. w \o ring[ch] \in Seq(Frame) /\ w \o ring[ch] # <<>>
    BY <2>1, AddedTo, ConcatProperties
  <2>4. sent[c] \o (w \o ring[ch]) # <<>>
    BY <2>1, <2>3, AddedTo
  <2> QED
    BY <2>2, <2>4
<1>4. CASE ClientStep(c)
  BY <1>1, <1>2, <1>4 DEF ClientStep, Connect, ConnectGone, ClientKill, ClientInputToDead, ClientLeave, Live
<1>5. CASE FastHit(c)
  BY <1>3, <1>5 DEF FastHit, Live
<1>6. CASE FastSilent(c)
  BY <1>1, <1>6 DEF FastSilent, MaybeSilent, Live
<1>7. CASE KillStale(c) \/ FastMiss(c) \/ SlowDeny(c) \/ GateAcquire(c) \/ (\E ch \in Child : SpawnOk(c, ch))
           \/ SpawnFail(c) \/ Probe(c)
  BY <1>1, <1>2, <1>7 DEF KillStale, FastMiss, SlowDeny, GateAcquire, SpawnOk, SpawnFail, Probe, Live
<1>8. CASE KillDup(c) \/ Rejoin(c)
  BY <1>2, <1>8 DEF KillDup, Rejoin
<1>9. CASE Insert(c)
  <2> DEFINE w == <<Welcome(mine[c])>>
  <2>1. mine[c] \in Child
    BY <1>9 DEF IInv, OwnerInv, Holding, Insert
  <2>2. w \in Seq(Frame) /\ w # <<>> /\ sent[c] \in Seq(Frame)
    BY <1>1, <2>1, FrameTypes
  <2>3. pc'[c] = "serving" /\ sent'[c] = sent[c] \o w
    BY <1>1, <1>9 DEF Insert, Send
  <2> HIDE DEF w
  <2>4. sent[c] \o w # <<>>
    BY <2>2, AddedTo
  <2> QED
    BY <2>3, <2>4
<1>10. CASE Unregister(c) \/ Drain(c)
  BY <1>1, <1>10 DEF Unregister, Drain
<1> QED
  BY <1>4, <1>5, <1>6, <1>7, <1>8, <1>9, <1>10 DEF ConnStep

\* A connection that has been sent something keeps it until it is drained.
LEMMA SentStays ==
  ASSUME TypeOK, [Next]_vars, NEW c \in Conn, pc'[c] = pc[c], pc[c] = "serving", sent[c] # <<>>
  PROVE  sent'[c] # <<>>
<1> USE DEF TypeOK, Goto, connVars
<1>1. ASSUME NEW d \in Conn, ClientStep(d) \/ ConnStep(d) PROVE sent'[c] = sent[c]
  <2>1. CASE ClientStep(d)
    BY <2>1 DEF ClientStep, Connect, ConnectGone, ClientKill, ClientInputToDead, ClientLeave
  <2>2. CASE ConnStep(d)
    <3>1. CASE FastHit(d) \/ Rejoin(d)
      BY <3>1 DEF FastHit, Rejoin, Register, Send
    <3>2. CASE FastSilent(d) \/ KillStale(d) \/ FastMiss(d) \/ SlowDeny(d) \/ GateAcquire(d)
      BY <3>2 DEF FastSilent, KillStale, FastMiss, SlowDeny, GateAcquire, Send
    <3>3. CASE (\E ch \in Child : SpawnOk(d, ch)) \/ SpawnFail(d) \/ Probe(d) \/ KillDup(d) \/ Insert(d)
      BY <3>3 DEF SpawnOk, SpawnFail, Probe, KillDup, Insert, Send
    <3>4. CASE Unregister(d) \/ Drain(d)
      BY <3>4 DEF Unregister, Drain
    <3> QED
      BY <2>2, <3>1, <3>2, <3>3, <3>4 DEF ConnStep
  <2> QED
    BY <1>1, <2>1, <2>2
<1>2. ASSUME NEW ch \in Child, PumpPush(ch) \/ ReaperFinalize(ch) PROVE sent'[c] # <<>>
  <2>1. PICK f \in Frame : sent'[c] \in {sent[c], Append(sent[c], f)}
    <3>1. CASE PumpPush(ch)
      <4>1. Output(ch, pulled[ch]) \in Frame
        BY FrameTypes
      <4>2. sent'[c] \in {sent[c], Append(sent[c], Output(ch, pulled[ch]))}
        BY <3>1 DEF PumpPush, Broadcast
      <4> QED
        BY <4>1, <4>2
    <3>2. CASE ReaperFinalize(ch)
      <4>1. Exited(ch) \in Frame
        BY FrameTypes
      <4>2. sent'[c] \in {sent[c], Append(sent[c], Exited(ch))}
        BY <3>2 DEF ReaperFinalize, Broadcast
      <4> QED
        BY <4>1, <4>2
    <3> QED
      BY <1>2, <3>1, <3>2
  <2>2. sent[c] \in Seq(Frame)
    OBVIOUS
  <2>3. Append(sent[c], f) # <<>>
    BY <2>2, AddedTo
  <2> QED
    BY <2>1, <2>3
<1>3. ASSUME NEW ch \in Child, \/ ChildStep(ch) \/ KillWorker(ch)
                               \/ PumpRead(ch) \/ PumpRetire(ch) \/ PumpEof(ch)
                               \/ ReaperStart(ch) \/ ReaperGiveUp(ch)
      PROVE  sent' = sent
  BY <1>3 DEF ChildStep, ChildWrite, ChildExit, KillWorker, PumpRead, PumpRetire, PumpEof,
              ReaperStart, ReaperGiveUp
<1>4. CASE UNCHANGED vars
  BY <1>4 DEF vars
<1> QED
  BY <1>1, <1>2, <1>3, <1>4 DEF Next, PumpStep, PumpServe, ReaperStep

\* Another connection of the key that inserts would not be alone.
LEMMA SoloStep == IInv /\ SoloInv /\ SpawnsAlone /\ [Next]_vars => SoloInv'
<1> USE RequestsAssumption, ConstantsDistinct DEF RequestsAssumption, ConstantsDistinct
<1> SUFFICES ASSUME IInv, SoloInv, SpawnsAlone, [Next]_vars, NEW c \in Conn
             PROVE  /\ pc'[c] \in {"killStale", "spawning", "probe", "insert"} => c \in Spawners
                    /\ pc'[c] \notin {"killDup", "rejoin"}
                    /\ c \in Spawners /\ pc'[c] \in Spawning => ~Live(AttachKey[c])'
                    /\ pc'[c] = "serving" => sent'[c] # <<>>
  BY DEF SoloInv
<1>1. TypeOK /\ AttachKey[c] \in Key
  BY DEF IInv
<1>2. CASE ClientStep(c) \/ ConnStep(c)
  BY <1>2, SoloOwn
<1>3. CASE ~(ClientStep(c) \/ ConnStep(c))
  <2>1. pc'[c] = pc[c]
    BY <1>1, <1>3, OneMoves
  <2>2. ASSUME c \in Spawners, pc[c] \in Spawning, Live(AttachKey[c])' PROVE FALSE
    <3>1. ASSUME NEW d \in Conn, Insert(d) PROVE FALSE
      <4>1. d \in Spawners /\ pc[d] \in Spawning /\ d # c
        BY <1>3, <3>1 DEF SoloInv, Insert, Spawning, ConnStep
      <4>2. AttachKey[c] # AttachKey[d] /\ ~Live(AttachKey[c])
        BY <2>2, <4>1 DEF SpawnsAlone, SoloInv
      <4>3. entry'[AttachKey[c]] = entry[AttachKey[c]]
        BY <1>1, <3>1, <4>2 DEF Insert, TypeOK
      <4> QED
        BY <2>2, <4>2, <4>3 DEF Live
    <3>2. ASSUME NEW d \in Conn, FastSilent(d) PROVE Live(AttachKey[c])
      BY <1>1, <2>2, <3>2 DEF FastSilent, Live, TypeOK
    <3>3. ASSUME NEW ch \in Child, ReaperFinalize(ch) PROVE Live(AttachKey[c])
      BY <1>1, <2>2, <3>3 DEF ReaperFinalize, Live, TypeOK
    <3>4. CASE UNCHANGED entry
      BY <2>2, <3>4 DEF SoloInv, Live
    <3> QED
      BY <2>2, <3>1, <3>2, <3>3, <3>4, QuietSteps DEF SoloInv
  <2>3. pc[c] = "serving" => sent'[c] # <<>>
    BY <1>1, <2>1, SentStays DEF SoloInv
  <2> QED
    BY <2>1, <2>2, <2>3 DEF SoloInv
<1> QED
  BY <1>2, <1>3

\* Every Attach is answered as long as those that may spawn do not overlap
\* under one key: a session evicted, an exit at any moment and a replaced
\* silent child leave no client without an answer, only the lost race does.
THEOREM AttachIsAnswered == Spec /\ []SpawnsAlone => []AttachAnswered
<1>1. Init => SoloInv
  BY DEF Init, SoloInv, Spawning
<1>2. SoloInv => AttachAnswered
  BY DEF SoloInv, AttachAnswered
<1> QED
  BY <1>1, <1>2, Inductive, SoloStep, PTL DEF Spec

-----------------------------------------------------------------------------
(* When Exited follows all output (trailing_output shows that it need not).*)

\* A child is reaped when its pump has ended, as it would be if the pump did
\* the reaping.
PumpReaps == [][\A ch \in Child : ReaperFinalize(ch) => pump[ch] = "ended"]_vars

\* The PTY ends a pump's reading only when the child is gone and all it wrote
\* has been read: no early EOF and no read error.
PtyDrains ==
  [][\A ch \in Child : PumpEof(ch) => proc[ch] = "exited" /\ pulled[ch] = wrote[ch]]_vars

\* The exit in a stream follows the last chunk the pump read.
Closed(s) ==
  \A i \in 2..Len(s) :
    s[i].kind = "exited" =>
      /\ s[i].child \in Child /\ pump[s[i].child] = "ended"
      /\ pulled[s[i].child] > 0 => s[i-1].n = pulled[s[i].child]

EndInv == \A c \in Conn : Closed(sent[c])

\* What PtyDrains gives: a pump that ended has read all its child will write.
DrainedInv ==
  \A ch \in Child : pump[ch] = "ended" => proc[ch] = "exited" /\ pulled[ch] = wrote[ch]

\* No exit is among these frames.
NoExit(t) == \A i \in 1..Len(t) : t[i].kind # "exited"

\* Frames other than an exit leave a stream as it is up to them.
LEMMA ClosedConcat ==
  ASSUME NEW s \in Seq(Frame), NEW t \in Seq(Frame), Closed(s), NoExit(t)
  PROVE  Closed(s \o t)
<1>1. /\ Len(s \o t) = Len(s) + Len(t) /\ Len(s) \in Nat /\ Len(t) \in Nat
      /\ \A i \in 1..(Len(s) + Len(t)) :
           (s \o t)[i] = IF i <= Len(s) THEN s[i] ELSE t[i - Len(s)]
  BY ConcatProperties
<1> SUFFICES ASSUME NEW i \in 2..Len(s \o t), (s \o t)[i].kind = "exited"
             PROVE  /\ (s \o t)[i].child \in Child /\ pump[(s \o t)[i].child] = "ended"
                    /\ pulled[(s \o t)[i].child] > 0 => (s \o t)[i - 1].n = pulled[(s \o t)[i].child]
  BY DEF Closed
<1>2. i \in 1..(Len(s) + Len(t)) /\ i - 1 \in 1..(Len(s) + Len(t))
  BY <1>1
<1>3. i <= Len(s)
  <2> SUFFICES ASSUME ~(i <= Len(s)) PROVE FALSE
    OBVIOUS
  <2>1. (s \o t)[i] = t[i - Len(s)]
    BY <1>1, <1>2
  <2>2. i - Len(s) \in 1..Len(t)
    BY <1>1, <1>2
  <2> QED
    BY <2>1, <2>2 DEF NoExit
<1>4. (s \o t)[i] = s[i] /\ (s \o t)[i - 1] = s[i - 1] /\ i \in 2..Len(s)
  <2>1. i - 1 <= Len(s) /\ i \in 2..Len(s)
    BY <1>1, <1>2, <1>3
  <2> QED
    BY <1>1, <1>2, <1>3, <2>1
<1>5. s[i].kind = "exited"
  BY <1>4
<1>6. s[i].child \in Child /\ pump[s[i].child] = "ended" /\ (pulled[s[i].child] > 0 => s[i - 1].n = pulled[s[i].child])
  BY <1>4, <1>5 DEF Closed
<1> QED
  BY <1>4, <1>6

\* An exit may follow when the stream ends with all its pump read.
LEMMA ClosedExit ==
  ASSUME NEW s \in Seq(Frame), NEW ch \in Child, Closed(s), pump[ch] = "ended",
         pulled[ch] > 0 => s # <<>> /\ s[Len(s)].n = pulled[ch]
  PROVE  Closed(Append(s, Exited(ch)))
<1> DEFINE a == Append(s, Exited(ch))
<1>1. /\ Len(a) = Len(s) + 1 /\ Len(s) \in Nat /\ a[Len(s) + 1] = Exited(ch)
      /\ \A i \in 1..Len(s) : a[i] = s[i]
  BY FrameTypes
<1> HIDE DEF a
<1> SUFFICES ASSUME NEW i \in 2..Len(a), a[i].kind = "exited"
             PROVE  /\ a[i].child \in Child /\ pump[a[i].child] = "ended"
                    /\ pulled[a[i].child] > 0 => a[i - 1].n = pulled[a[i].child]
  BY DEF Closed, a
<1>2. CASE i = Len(s) + 1
  <2>1. a[i].child = ch /\ i - 1 = Len(s) /\ Len(s) \in 1..Len(s)
    BY <1>1, <1>2 DEF Exited
  <2>2. a[i - 1] = s[Len(s)]
    BY <1>1, <2>1
  <2> QED
    BY <2>1, <2>2
<1>3. CASE i # Len(s) + 1
  <2>1. i \in 2..Len(s) /\ i \in 1..Len(s) /\ i - 1 \in 1..Len(s)
    BY <1>1, <1>3
  <2>2. a[i] = s[i] /\ a[i - 1] = s[i - 1]
    BY <1>1, <2>1
  <2> QED
    BY <2>1, <2>2 DEF Closed
<1> QED
  BY <1>2, <1>3

\* A pump that ended reads no more.
LEMMA EndedStays ==
  ASSUME IInv, [Next]_vars, NEW x \in Child, pump[x] = "ended"
  PROVE  pump'[x] = "ended" /\ pulled'[x] = pulled[x]
<1> USE DEF childVars
<1>1. TypeOK
  BY DEF IInv
<1> USE DEF TypeOK
<1>2. ASSUME NEW c \in Conn, Insert(c) PROVE pump'[x] = "ended" /\ pulled'[x] = pulled[x]
  <2>1. mine[c] \in Child /\ pump[mine[c]] = "off"
    BY <1>2 DEF Insert, IInv, OwnerInv, Holding
  <2> QED
    BY <1>1, <1>2, <2>1 DEF Insert
<1>3. ASSUME NEW c \in Conn, ClientStep(c) \/ ConnStep(c), ~Insert(c) PROVE UNCHANGED <<pump, pulled>>
  BY <1>3 DEF ClientStep, Connect, ConnectGone, ClientKill, ClientInputToDead, ClientLeave, ConnStep,
              FastHit, FastSilent, KillStale, FastMiss, SlowDeny, GateAcquire, SpawnOk, SpawnFail,
              Probe, KillDup, Rejoin, Unregister, Drain
<1>4. ASSUME NEW ch \in Child, ChildStep(ch) \/ KillWorker(ch) \/ ReaperStep(ch)
      PROVE  UNCHANGED <<pump, pulled>>
  BY <1>4 DEF ChildStep, ChildWrite, ChildExit, KillWorker, ReaperStep, ReaperStart, ReaperFinalize,
              ReaperGiveUp
<1>5. ASSUME NEW ch \in Child, PumpStep(ch) PROVE pump'[x] = "ended" /\ pulled'[x] = pulled[x]
  BY <1>1, <1>5 DEF PumpStep, PumpServe, PumpRead, PumpPush, PumpRetire, PumpEof
<1>6. CASE UNCHANGED vars
  BY <1>6 DEF vars
<1> QED
  BY <1>2, <1>3, <1>4, <1>5, <1>6 DEF Next

\* Only an end of the reading ends a pump.
LEMMA EofEnds ==
  ASSUME IInv, [Next]_vars, NEW x \in Child, pump'[x] = "ended", pump[x] # "ended"
  PROVE  PumpEof(x)
<1> USE DEF childVars
<1>1. TypeOK
  BY DEF IInv
<1> USE DEF TypeOK
<1>2. ASSUME NEW c \in Conn, Insert(c) PROVE FALSE
  <2>1. mine[c] \in Child
    BY <1>2 DEF Insert, IInv, OwnerInv, Holding
  <2> QED
    BY <1>1, <1>2, <2>1 DEF Insert
<1>3. ASSUME NEW c \in Conn, ClientStep(c) \/ ConnStep(c), ~Insert(c) PROVE UNCHANGED pump
  BY <1>3 DEF ClientStep, Connect, ConnectGone, ClientKill, ClientInputToDead, ClientLeave, ConnStep,
              FastHit, FastSilent, KillStale, FastMiss, SlowDeny, GateAcquire, SpawnOk, SpawnFail,
              Probe, KillDup, Rejoin, Unregister, Drain
<1>4. ASSUME NEW ch \in Child, ChildStep(ch) \/ KillWorker(ch) \/ ReaperStep(ch)
      PROVE  UNCHANGED pump
  BY <1>4 DEF ChildStep, ChildWrite, ChildExit, KillWorker, ReaperStep, ReaperStart, ReaperFinalize,
              ReaperGiveUp
<1>5. ASSUME NEW ch \in Child, PumpServe(ch) PROVE FALSE
  BY <1>1, <1>5 DEF PumpServe, PumpRead, PumpPush, PumpRetire
<1>6. ASSUME NEW ch \in Child, PumpEof(ch) PROVE ch = x
  BY <1>1, <1>6 DEF PumpEof
<1>7. CASE UNCHANGED vars
  BY <1>7 DEF vars
<1> QED
  BY <1>2, <1>3, <1>4, <1>5, <1>6, <1>7 DEF Next, PumpStep

\* A ring holds no exit.
LEMMA RingHasNoExit ==
  ASSUME NEW ch \in Child, NEW r \in Seq(Frame), Tailed(ch, r)
  PROVE  NoExit(r) /\ NoExit(<<Welcome(ch)>> \o r)
<1>1. ASSUME NEW i \in 1..Len(r) PROVE r[i].kind # "exited"
  <2>1. r[i] = Output(ch, r[1].n + i - 1)
    BY DEF Tailed
  <2> HIDE DEF Tailed
  <2> QED
    BY <2>1 DEF Output
<1>2. <<Welcome(ch)>> \in Seq(Frame) /\ Len(<<Welcome(ch)>>) = 1 /\ <<Welcome(ch)>>[1] = Welcome(ch)
  BY FrameTypes
<1> DEFINE w == <<Welcome(ch)>>
<1> HIDE DEF w
<1>3. /\ Len(w \o r) = Len(w) + Len(r) /\ Len(r) \in Nat
      /\ \A i \in 1..(Len(w) + Len(r)) : (w \o r)[i] = IF i <= Len(w) THEN w[i] ELSE r[i - Len(w)]
  BY <1>2, ConcatProperties DEF w
<1>4. ASSUME NEW i \in 1..Len(w \o r) PROVE (w \o r)[i].kind # "exited"
  <2>1. Len(w) = 1 /\ w[1] = Welcome(ch)
    BY <1>2 DEF w
  <2>2. CASE i = 1
    <3>1. (w \o r)[1] = w[1]
      BY <1>3, <2>1
    <3> QED
      BY <2>1, <2>2, <3>1 DEF Welcome
  <2>3. CASE i # 1
    <3>1. i - 1 \in 1..Len(r) /\ ~(i <= 1) /\ i \in 1..(1 + Len(r))
      BY <1>3, <2>1, <2>3
    <3>2. (w \o r)[i] = r[i - 1]
      BY <1>3, <2>1, <3>1
    <3> QED
      BY <1>1, <3>1, <3>2
  <2> QED
    BY <2>2, <2>3
<1> QED
  BY <1>1, <1>4 DEF NoExit, w

\* How a step changes the stream of c.
LEMMA SentSteps ==
  ASSUME IInv, [Next]_vars, NEW c \in Conn
  PROVE  \/ sent'[c] = sent[c] \/ sent'[c] = <<>>
         \/ \E t \in Seq(Frame) : NoExit(t) /\ sent'[c] = sent[c] \o t
         \/ \E ch \in Child : /\ ReaperFinalize(ch)
                              /\ entry[Home[ch]] = ch /\ c \in attached[ch]
                              /\ sent'[c] = Append(sent[c], Exited(ch))
<1> USE DEF Goto, connVars
<1>1. sent \in [Conn -> Seq(Frame)] /\ TypeOK /\ HomeInv /\ GenInv /\ ThreadInv
  BY DEF IInv, TypeOK
<1>2. ASSUME NEW d \in Conn, NEW ch \in Child, Register(d, ch)
      PROVE  \/ sent'[c] = sent[c]
             \/ \E t \in Seq(Frame) : NoExit(t) /\ sent'[c] = sent[c] \o t
  <2>1. NoExit(<<Welcome(ch)>> \o ring[ch]) /\ <<Welcome(ch)>> \o ring[ch] \in Seq(Frame)
    <3>1. Tailed(ch, ring[ch]) /\ ring[ch] \in Seq(Frame) /\ <<Welcome(ch)>> \in Seq(Frame)
      BY <1>1, FrameTypes DEF IInv, RingInv, TypeOK
    <3> QED
      BY <3>1, RingHasNoExit, ConcatProperties
  <2>2. sent'[c] \in {sent[c], sent[c] \o (<<Welcome(ch)>> \o ring[ch])}
    BY <1>1, <1>2 DEF Register, Send
  <2> QED
    BY <2>1, <2>2
<1>3. ASSUME NEW d \in Conn, NEW f \in Frame, Send(d, <<f>>), f.kind # "exited"
      PROVE  \/ sent'[c] = sent[c]
             \/ \E t \in Seq(Frame) : NoExit(t) /\ sent'[c] = sent[c] \o t
  <2>1. <<f>> \in Seq(Frame) /\ NoExit(<<f>>)
    BY <1>3 DEF NoExit
  <2>2. sent'[c] \in {sent[c], sent[c] \o <<f>>}
    BY <1>1, <1>3 DEF Send
  <2> QED
    BY <2>1, <2>2
<1>4. ASSUME NEW d \in Conn, ClientStep(d) PROVE sent'[c] = sent[c]
  BY <1>4 DEF ClientStep, Connect, ConnectGone, ClientKill, ClientInputToDead, ClientLeave
<1>5. ASSUME NEW d \in Conn, FastHit(d) \/ Rejoin(d)
      PROVE  \/ sent'[c] = sent[c]
             \/ \E t \in Seq(Frame) : NoExit(t) /\ sent'[c] = sent[c] \o t
  BY <1>2, <1>5 DEF FastHit, Rejoin, Live
<1>6. ASSUME NEW d \in Conn, SlowDeny(d) \/ SpawnFail(d)
      PROVE  \/ sent'[c] = sent[c]
             \/ \E t \in Seq(Frame) : NoExit(t) /\ sent'[c] = sent[c] \o t
  <2>1. Denied \in Frame /\ Denied.kind # "exited"
    BY FrameTypes DEF Denied
  <2> QED
    BY <1>3, <1>6, <2>1 DEF SlowDeny, SpawnFail
<1>7. ASSUME NEW d \in Conn, Insert(d)
      PROVE  \/ sent'[c] = sent[c]
             \/ \E t \in Seq(Frame) : NoExit(t) /\ sent'[c] = sent[c] \o t
  <2>1. mine[d] \in Child
    BY <1>7 DEF IInv, OwnerInv, Holding, Insert
  <2>2. Welcome(mine[d]) \in Frame /\ Welcome(mine[d]).kind # "exited"
    BY <2>1, FrameTypes DEF Welcome
  <2> QED
    BY <1>3, <1>7, <2>2 DEF Insert
<1>8. ASSUME NEW d \in Conn, Drain(d) PROVE sent'[c] = sent[c] \/ sent'[c] = <<>>
  BY <1>1, <1>8 DEF Drain
<1>9. ASSUME NEW d \in Conn, FastSilent(d) \/ KillStale(d) \/ FastMiss(d) \/ GateAcquire(d)
                             \/ (\E ch \in Child : SpawnOk(d, ch)) \/ Probe(d) \/ KillDup(d) \/ Unregister(d)
      PROVE  sent'[c] = sent[c]
  BY <1>9 DEF FastSilent, KillStale, FastMiss, GateAcquire, SpawnOk, Probe, KillDup, Unregister
<1>10. ASSUME NEW ch \in Child, PumpPush(ch)
       PROVE  \/ sent'[c] = sent[c]
              \/ \E t \in Seq(Frame) : NoExit(t) /\ sent'[c] = sent[c] \o t
  <2> DEFINE f == Output(ch, pulled[ch])
  <2>1. f \in Frame /\ f.kind # "exited"
    BY <1>1, FrameTypes DEF Output, TypeOK
  <2>2. sent'[c] \in {sent[c], Append(sent[c], f)}
    BY <1>10 DEF PumpPush, Broadcast
  <2> HIDE DEF f
  <2>3. Append(sent[c], f) = sent[c] \o <<f>> /\ <<f>> \in Seq(Frame) /\ NoExit(<<f>>)
    BY <1>1, <2>1 DEF NoExit
  <2> QED
    BY <2>2, <2>3
<1>11. ASSUME NEW ch \in Child, ReaperFinalize(ch)
       PROVE  \/ sent'[c] = sent[c]
              \/ /\ entry[Home[ch]] = ch /\ c \in attached[ch]
                 /\ sent'[c] = Append(sent[c], Exited(ch))
  <2>1. entry[Home[ch]] = ch
    BY <1>1, <1>11, OwnSessionIsOwn DEF ReaperFinalize, ThreadInv
  <2> QED
    BY <1>11, <2>1 DEF ReaperFinalize, Broadcast
<1>12. ASSUME NEW ch \in Child, \/ ChildStep(ch) \/ KillWorker(ch)
                                \/ PumpRead(ch) \/ PumpRetire(ch) \/ PumpEof(ch)
                                \/ ReaperStart(ch) \/ ReaperGiveUp(ch)
       PROVE  sent'[c] = sent[c]
  BY <1>12 DEF ChildStep, ChildWrite, ChildExit, KillWorker, PumpRead, PumpRetire, PumpEof,
              ReaperStart, ReaperGiveUp
<1>13. CASE UNCHANGED vars
  BY <1>13 DEF vars
<1> QED
  BY <1>4, <1>5, <1>6, <1>7, <1>8, <1>9, <1>10, <1>11, <1>12, <1>13
  DEF Next, ConnStep, PumpStep, PumpServe, ReaperStep

\* A child that is gone stays gone and writes no more.
LEMMA GoneStays ==
  ASSUME IInv, [Next]_vars, NEW x \in Child, proc[x] = "exited"
  PROVE  proc'[x] = "exited" /\ wrote'[x] = wrote[x]
<1> USE DEF childVars
<1>1. TypeOK
  BY DEF IInv
<1> USE DEF TypeOK
<1>2. ASSUME NEW c \in Conn, ClientStep(c) PROVE UNCHANGED <<proc, wrote>>
  BY <1>2 DEF ClientStep, Connect, ConnectGone, ClientKill, ClientInputToDead, ClientLeave
<1>3. ASSUME NEW c \in Conn, ConnStep(c) PROVE proc'[x] = "exited" /\ wrote'[x] = wrote[x]
  BY <1>1, <1>3 DEF ConnStep, FastHit, FastSilent, KillStale, FastMiss, SlowDeny, GateAcquire, SpawnOk,
              SpawnFail, Probe, KillDup, Rejoin, Insert, Unregister, Drain, KillTree
<1>4. ASSUME NEW ch \in Child, ChildStep(ch) \/ KillWorker(ch) \/ PumpStep(ch) \/ ReaperStep(ch)
      PROVE  proc'[x] = "exited" /\ wrote'[x] = wrote[x]
  BY <1>1, <1>4 DEF ChildStep, ChildWrite, ChildExit, KillWorker, KillTree, PumpStep, PumpServe, PumpRead, PumpPush,
              PumpRetire, PumpEof, ReaperStep, ReaperStart, ReaperFinalize, ReaperGiveUp
<1>5. CASE UNCHANGED vars
  BY <1>5 DEF vars
<1> QED
  BY <1>2, <1>3, <1>4, <1>5 DEF Next

\* An exit is sent to clients that are in step with a ring that holds the last
\* chunk read.
LEMMA EndStep ==
  IInv /\ StreamInv /\ EndInv /\ [Next]_vars
    /\ (\A ch \in Child : ReaperFinalize(ch) => pump[ch] = "ended") => EndInv'
<1> SUFFICES ASSUME IInv, StreamInv, EndInv, [Next]_vars,
                    \A ch \in Child : ReaperFinalize(ch) => pump[ch] = "ended",
                    NEW c \in Conn
             PROVE  Closed(sent[c])'
  BY DEF EndInv
<1>1. TypeOK /\ sent[c] \in Seq(Frame) /\ Closed(sent[c])
  BY DEF IInv, TypeOK, EndInv
<1>2. ASSUME NEW ch \in Child, ReaperFinalize(ch), entry[Home[ch]] = ch, c \in attached[ch]
      PROVE  Closed(Append(sent[c], Exited(ch)))
  <2>1. pump[ch] = "ended" /\ Home[ch] \in Key /\ Live(Home[ch])
    BY <1>2, RequestsAssumption DEF RequestsAssumption, Live
  <2>2. pulled[ch] = LastChunk(ring[ch])
    BY <2>1 DEF IInv, RingInv
  <2>3. InSync(ch, sent[c], ring[ch])
    <3>1. c \in attached[entry[Home[ch]]]
      BY <1>2
    <3>2. InSync(entry[Home[ch]], sent[c], ring[entry[Home[ch]]])
      BY <2>1, <3>1 DEF StreamInv
    <3> QED
      BY <1>2, <3>2
  <2>4. ASSUME pulled[ch] > 0 PROVE sent[c] # <<>> /\ sent[c][Len(sent[c])].n = pulled[ch]
    <3>1. ring[ch] # <<>> /\ ring[ch][Len(ring[ch])].n = pulled[ch]
      BY <2>2, <2>4 DEF LastChunk
    <3> QED
      BY <2>3, <3>1 DEF InSync, Story
  <2> QED
    BY <1>1, <2>1, <2>4, ClosedExit
<1>3. Closed(sent'[c])
  <2>1. CASE sent'[c] = sent[c]
    BY <1>1, <2>1
  <2>2. CASE sent'[c] = <<>>
    BY <2>2 DEF Closed
  <2>3. ASSUME NEW t \in Seq(Frame), NoExit(t), sent'[c] = sent[c] \o t PROVE Closed(sent'[c])
    BY <1>1, <2>3, ClosedConcat
  <2>4. ASSUME NEW ch \in Child, ReaperFinalize(ch), entry[Home[ch]] = ch, c \in attached[ch],
               sent'[c] = Append(sent[c], Exited(ch))
        PROVE  Closed(sent'[c])
    BY <1>2, <2>4
  <2> QED
    BY <2>1, <2>2, <2>3, <2>4, SentSteps
<1>4. ASSUME NEW i \in 2..Len(sent'[c]), sent'[c][i].kind = "exited"
      PROVE  /\ sent'[c][i].child \in Child /\ pump'[sent'[c][i].child] = "ended"
             /\ pulled'[sent'[c][i].child] > 0 => sent'[c][i - 1].n = pulled'[sent'[c][i].child]
  <2> DEFINE x == sent'[c][i].child
  <2>1. x \in Child /\ pump[x] = "ended" /\ (pulled[x] > 0 => sent'[c][i - 1].n = pulled[x])
    BY <1>3, <1>4 DEF Closed
  <2>2. pump'[x] = "ended" /\ pulled'[x] = pulled[x]
    BY <2>1, EndedStays
  <2> QED
    BY <2>1, <2>2
<1> QED
  BY <1>4 DEF Closed

\* Under PumpReaps, every step keeps each exit behind the last chunk read.
LEMMA EndInductive == Spec /\ PumpReaps => []EndInv
<1>1. Init => EndInv
  BY DEF Init, EndInv, Closed
<1>2. IInv /\ StreamInv /\ EndInv /\ [Next]_vars
        /\ [\A ch \in Child : ReaperFinalize(ch) => pump[ch] = "ended"]_vars => EndInv'
  <2> SUFFICES ASSUME IInv, EndInv, UNCHANGED vars PROVE EndInv'
    BY EndStep
  <2> QED
    BY DEF vars, connVars, childVars, EndInv, Closed
<1> QED
  BY <1>1, <1>2, Inductive, StreamInductive, PTL DEF Spec, PumpReaps

\* What a client reads before Exited is all the daemon read from the PTY.
ExitedAfterAllRead ==
  \A c \in Conn : \A i \in 1..Len(sent[c]) :
    LET f == sent[c][i] IN
      f.kind = "exited" /\ pulled[f.child] > 0 => sent[c][i-1].n = pulled[f.child]

\* If children were reaped by their pumps, as the header of the module says,
\* every exit would follow all output the daemon read, however the PTY ended
\* the reading; nothing else in the daemon comes between: no kill, replay,
\* respawn of the key or lost spawn race.
THEOREM ExitsFollowReads == Spec /\ PumpReaps => []ExitedAfterAllRead
<1>1. IInv /\ StreamInv /\ EndInv => ExitedAfterAllRead
  <2> SUFFICES ASSUME IInv, StreamInv, EndInv, NEW c \in Conn, NEW i \in 1..Len(sent[c]),
                      sent[c][i].kind = "exited", pulled[sent[c][i].child] > 0
               PROVE  sent[c][i-1].n = pulled[sent[c][i].child]
    BY DEF ExitedAfterAllRead
  <2>1. sent[c] \in Seq(Frame) /\ WellFormed(sent[c]) /\ Closed(sent[c])
    BY DEF IInv, TypeOK, StreamInv, EndInv
  <2>2. i # 1
    BY <2>1 DEF WellFormed, Denied
  <2>3. i \in 2..Len(sent[c])
    BY <2>1, <2>2
  <2> QED
    BY <2>1, <2>3 DEF Closed
<1> QED
  BY <1>1, Inductive, StreamInductive, EndInductive, PTL

\* Under PtyDrains, a pump that ended has nothing left to read, ever.
LEMMA DrainedInductive == Spec /\ PtyDrains => []DrainedInv
<1>1. Init => DrainedInv
  BY DEF Init, DrainedInv
<1>2. IInv /\ DrainedInv /\ [Next]_vars
        /\ [\A ch \in Child : PumpEof(ch) => proc[ch] = "exited" /\ pulled[ch] = wrote[ch]]_vars
        => DrainedInv'
  <2> SUFFICES ASSUME IInv, DrainedInv, [Next]_vars,
                      [\A ch \in Child : PumpEof(ch) => proc[ch] = "exited" /\ pulled[ch] = wrote[ch]]_vars,
                      NEW x \in Child, pump'[x] = "ended"
               PROVE  proc'[x] = "exited" /\ pulled'[x] = wrote'[x]
    BY DEF DrainedInv
  <2>1. CASE pump[x] = "ended"
    BY <2>1, EndedStays, GoneStays DEF DrainedInv
  <2>2. CASE pump[x] # "ended"
    <3>1. PumpEof(x)
      BY <2>2, EofEnds
    <3>2. proc[x] = "exited" /\ pulled[x] = wrote[x]
      BY <2>2, <3>1 DEF vars, childVars
    <3> QED
      BY <3>1, <3>2, GoneStays DEF PumpEof, childVars
  <2> QED
    BY <2>1, <2>2
<1> QED
  BY <1>1, <1>2, Inductive, PTL DEF Spec, PtyDrains

\* If, besides, the PTY ended a read only after the last of the output, every
\* exit would follow all output of the child.
THEOREM ExitsFollowOutput == Spec /\ PumpReaps /\ PtyDrains => []ExitedAfterAllOutput
<1>1. IInv /\ StreamInv /\ EndInv /\ DrainedInv /\ ExitedAfterAllRead => ExitedAfterAllOutput
  <2> SUFFICES ASSUME IInv, StreamInv, EndInv, DrainedInv, ExitedAfterAllRead,
                      NEW c \in Conn, NEW i \in 1..Len(sent[c]),
                      sent[c][i].kind = "exited", wrote[sent[c][i].child] > 0
               PROVE  sent[c][i-1].n = wrote[sent[c][i].child]
    BY DEF ExitedAfterAllOutput
  <2>1. sent[c] \in Seq(Frame) /\ WellFormed(sent[c]) /\ Closed(sent[c])
    BY DEF IInv, TypeOK, StreamInv, EndInv
  <2>2. i # 1
    BY <2>1 DEF WellFormed, Denied
  <2>3. i \in 2..Len(sent[c])
    BY <2>1, <2>2
  <2>4. pulled[sent[c][i].child] = wrote[sent[c][i].child]
    BY <2>1, <2>3 DEF Closed, DrainedInv
  <2> QED
    BY <2>4 DEF ExitedAfterAllRead
<1> QED
  BY <1>1, Inductive, StreamInductive, EndInductive, DrainedInductive, ExitsFollowReads, PTL

-----------------------------------------------------------------------------
(* What the liveness properties rest on: who waits, waits for something    *)
(* that some thread is about to do.                                        *)

\* A spawn waits at the gate only for a connection that is spawning; the writer
\* task of a connection that detached has no sender left to wait for; and a
\* hosted session marked killed has its request with the kill worker, or its
\* child is gone.
WaitsServed ==
  /\ \A c \in Conn : pc[c] = "slow" /\ gate # Nobody => gate \in Conn /\ pc[gate] = "spawning"
  /\ \A c \in Conn : pc[c] = "drain" => \A k \in Key : Live(k) => c \notin attached[entry[k]]
  /\ \A k \in Key : Live(k) /\ killed[entry[k]] => killReq[entry[k]] \/ proc[entry[k]] = "exited"

\* The gate is held exactly while its holder spawns, and a child is not killed
\* by request before it is published.
WaitInv ==
  /\ \A c \in Conn : pc[c] = "spawning" <=> gate = c
  /\ \A ch \in Child : pump[ch] = "off" => ~killed[ch]
  /\ \A ch \in Child : entry[Home[ch]] = ch /\ killed[ch] => killReq[ch] \/ proc[ch] = "exited"

\* The gate changes hands with the place of its holder.
LEMMA GateStep ==
  ASSUME IInv, WaitInv, [Next]_vars, NEW c \in Conn
  PROVE  pc'[c] = "spawning" <=> gate' = c
<1> USE ConstantsDistinct DEF ConstantsDistinct, connVars, Goto, WaitInv
<1>1. TypeOK
  BY DEF IInv
<1> USE DEF TypeOK
<1>2. ASSUME NEW d \in Conn, ClientStep(d) PROVE pc'[c] = "spawning" <=> gate' = c
  BY <1>1, <1>2 DEF ClientStep, Connect, ConnectGone, ClientKill, ClientInputToDead, ClientLeave
<1>3. ASSUME NEW d \in Conn, ConnStep(d) PROVE pc'[c] = "spawning" <=> gate' = c
  BY <1>1, <1>3 DEF ConnStep, FastHit, FastSilent, KillStale, FastMiss, SlowDeny, GateAcquire, SpawnOk,
              SpawnFail, Probe, KillDup, Rejoin, Insert, Unregister, Drain, Register
<1>4. ASSUME NEW ch \in Child, ChildStep(ch) \/ KillWorker(ch) \/ PumpStep(ch) \/ ReaperStep(ch)
      PROVE  UNCHANGED <<pc, gate>>
  BY <1>4 DEF ChildStep, ChildWrite, ChildExit, KillWorker, PumpStep, PumpServe, PumpRead, PumpPush, PumpRetire,
              PumpEof, ReaperStep, ReaperStart, ReaperFinalize, ReaperGiveUp
<1>5. CASE UNCHANGED vars
  BY <1>5 DEF vars
<1> QED
  BY <1>2, <1>3, <1>4, <1>5 DEF Next

\* A session is marked killed together with the request, or as it is taken out
\* of the registry.
LEMMA KilledStep ==
  ASSUME IInv, WaitInv, [Next]_vars, NEW x \in Child
  PROVE  /\ pump'[x] = "off" => ~killed'[x]
         /\ entry'[Home[x]] = x /\ killed'[x] => killReq'[x] \/ proc'[x] = "exited"
<1> USE RequestsAssumption, ConstantsDistinct DEF RequestsAssumption, ConstantsDistinct
<1> USE DEF regVars, sessVars, childVars
<1>1. TypeOK /\ HomeInv /\ Home[x] \in Key
  BY DEF IInv
<1>2. /\ pump[x] = "off" => ~killed[x]
      /\ entry[Home[x]] = x /\ killed[x] => killReq[x] \/ proc[x] = "exited"
  BY DEF WaitInv
<1>3. ASSUME NEW c \in Conn, Insert(c) PROVE pump'[x] = "off" => ~killed'[x]
  BY <1>1, <1>2, <1>3 DEF Insert, TypeOK
<1>4. ASSUME NEW c \in Conn, Insert(c), entry'[Home[x]] = x, killed'[x]
      PROVE  killReq'[x] \/ proc'[x] = "exited"
  <2>1. mine[c] \in Child /\ pump[mine[c]] = "off" /\ ~killed[mine[c]] /\ killed[x]
    BY <1>4 DEF Insert, IInv, OwnerInv, Holding, WaitInv
  <2>2. entry[Home[x]] = x
    BY <1>1, <1>4, <2>1 DEF Insert, TypeOK
  <2> QED
    BY <1>2, <1>4, <2>1, <2>2 DEF Insert
<1>5. ASSUME NEW c \in Conn, FastSilent(c)
      PROVE  /\ pump'[x] = "off" => ~killed'[x]
             /\ entry'[Home[x]] = x /\ killed'[x] => killReq'[x] \/ proc'[x] = "exited"
  <2>1. AttachKey[c] \in Key /\ Live(AttachKey[c])
    BY <1>5 DEF FastSilent
  <2> DEFINE ch == entry[AttachKey[c]]
  <2>2. ch \in Child /\ Home[ch] = AttachKey[c] /\ pump[ch] # "off"
    BY <1>1, <2>1 DEF HomeInv, Live
  <2>3. /\ killed' = [killed EXCEPT ![ch] = TRUE] /\ entry' = [entry EXCEPT ![AttachKey[c]] = Absent]
        /\ UNCHANGED <<pump, killReq, proc>>
    BY <1>5 DEF FastSilent
  <2>4. CASE x = ch
    BY <1>1, <2>2, <2>3, <2>4 DEF TypeOK
  <2>5. CASE x # ch
    <3>1. killed'[x] = killed[x]
      BY <1>1, <2>3, <2>5 DEF TypeOK
    <3>2. entry'[Home[x]] = x => entry[Home[x]] = x
      BY <1>1, <2>3 DEF TypeOK
    <3> QED
      BY <1>2, <2>3, <3>1, <3>2
  <2> QED
    BY <2>4, <2>5
<1>6. ASSUME NEW c \in Conn, ClientKill(c)
      PROVE  /\ pump'[x] = "off" => ~killed'[x]
             /\ entry'[Home[x]] = x /\ killed'[x] => killReq'[x] \/ proc'[x] = "exited"
  <2> DEFINE ch == entry[AttachKey[c]]
  <2>1. ch \in Child /\ pump[ch] # "off"
    BY <1>1, <1>6 DEF ClientKill, HomeInv, Live
  <2>2. /\ killed' = [killed EXCEPT ![ch] = TRUE] /\ killReq' = [killReq EXCEPT ![ch] = TRUE]
        /\ UNCHANGED <<pump, proc, entry>>
    BY <1>6 DEF ClientKill
  <2> HIDE DEF ch
  <2> QED
    BY <1>1, <1>2, <2>1, <2>2 DEF TypeOK
<1>7. ASSUME NEW c \in Conn, ClientStep(c) \/ ConnStep(c), ~Insert(c), ~FastSilent(c), ~ClientKill(c)
      PROVE  /\ UNCHANGED <<pump, killed, entry, killReq>>
             /\ proc[x] = "exited" => proc'[x] = "exited"
  <2>1. UNCHANGED <<pump, killed, entry, killReq>>
    BY <1>7 DEF ClientStep, Connect, ConnectGone, ClientInputToDead, ClientLeave, ConnStep, FastHit,
                KillStale, FastMiss, SlowDeny, GateAcquire, SpawnOk, SpawnFail, Probe, KillDup, Rejoin,
                Unregister, Drain
  <2> QED
    BY <2>1, GoneStays
<1>8. ASSUME NEW ch \in Child, ChildStep(ch) \/ KillWorker(ch) \/ PumpStep(ch) \/ ReaperStep(ch)
      PROVE  /\ pump'[x] # "off" <=> pump[x] # "off"
             /\ UNCHANGED <<killed, killReq>>
             /\ entry'[Home[x]] = x => entry[Home[x]] = x
  <2>1. UNCHANGED <<killed, killReq>>
    BY <1>8 DEF ChildStep, ChildWrite, ChildExit, KillWorker, PumpStep, PumpServe, PumpRead, PumpPush, PumpRetire,
              PumpEof, ReaperStep, ReaperStart, ReaperFinalize, ReaperGiveUp
  <2>2. pump'[x] # "off" <=> pump[x] # "off"
    <3>1. CASE PumpStep(ch)
      BY <1>1, <3>1, PumpsStay
    <3>2. CASE ~PumpStep(ch)
      BY <1>8, <3>2 DEF ChildStep, ChildWrite, ChildExit, KillWorker, ReaperStep, ReaperStart,
                        ReaperFinalize, ReaperGiveUp
    <3> QED
      BY <3>1, <3>2
  <2>3. entry'[Home[x]] = x => entry[Home[x]] = x
    <3>1. CASE ReaperFinalize(ch)
      BY <1>1, <3>1 DEF ReaperFinalize, TypeOK
    <3>2. CASE ~ReaperFinalize(ch)
      BY <1>8, <3>2 DEF ChildStep, ChildWrite, ChildExit, KillWorker, PumpStep, PumpServe, PumpRead, PumpPush,
                        PumpRetire, PumpEof, ReaperStep, ReaperStart, ReaperGiveUp
    <3> QED
      BY <3>1, <3>2
  <2> QED
    BY <2>1, <2>2, <2>3
<1>9. CASE UNCHANGED vars
  BY <1>2, <1>9 DEF vars
<1> QED
  BY <1>2, <1>3, <1>4, <1>5, <1>6, <1>7, <1>8, <1>9, GoneStays DEF Next

\* The safety half of AttachSettles, DetachCompletes and ExitFinalized, for any
\* number of connections, keys and children: nobody waits at the spawn gate, for
\* a writer task or for a kill unless somebody is at work on it.
THEOREM WaitsAreServed == Spec => []WaitsServed
<1>1. Init => WaitInv
  <2> SUFFICES ASSUME Init PROVE WaitInv
    OBVIOUS
  <2>1. \A c \in Conn : pc[c] = "idle" /\ gate # c
    BY ConstantsDistinct DEF ConstantsDistinct, Init
  <2>2. \A ch \in Child : ~killed[ch]
    BY DEF Init
  <2> QED
    BY <2>1, <2>2 DEF WaitInv
<1>2. IInv /\ WaitInv /\ [Next]_vars => WaitInv'
  <2> SUFFICES ASSUME IInv, WaitInv, [Next]_vars PROVE WaitInv'
    OBVIOUS
  <2>1. \A c \in Conn : pc'[c] = "spawning" <=> gate' = c
    BY GateStep
  <2>2. \A x \in Child : /\ pump'[x] = "off" => ~killed'[x]
                         /\ entry'[Home[x]] = x /\ killed'[x] => killReq'[x] \/ proc'[x] = "exited"
    BY KilledStep
  <2> QED
    BY <2>1, <2>2 DEF WaitInv
<1>3. IInv /\ WaitInv => WaitsServed
  <2> SUFFICES ASSUME IInv, WaitInv PROVE WaitsServed
    OBVIOUS
  <2>1. \A c \in Conn : pc[c] = "slow" /\ gate # Nobody => gate \in Conn /\ pc[gate] = "spawning"
    BY DEF IInv, TypeOK, WaitInv
  <2>2. ASSUME NEW c \in Conn, pc[c] = "drain", NEW k \in Key, Live(k) PROVE c \notin attached[entry[k]]
    BY <2>2 DEF IInv, RegistrationsOwned
  <2>3. ASSUME NEW k \in Key, Live(k), killed[entry[k]] PROVE killReq[entry[k]] \/ proc[entry[k]] = "exited"
    <3>1. entry[k] \in Child /\ Home[entry[k]] = k
      BY <2>3 DEF IInv, HomeInv, Live
    <3> QED
      BY <2>3, <3>1 DEF WaitInv
  <2> QED
    BY <2>1, <2>2, <2>3 DEF WaitsServed
<1> QED
  BY <1>1, <1>2, <1>3, Inductive, PTL DEF Spec
=============================================================================
