------------------------- MODULE DaemonLifetimeProofs -------------------------
(***************************************************************************)
(* Proofs about DaemonLifetime, for any connections, sessions and periods: *)
(* type correctness, that the grace period is honoured, and that the loop  *)
(* ends for no other reason than a request, a period without clients or a  *)
(* failed accept call.                                                     *)
(*                                                                         *)
(* The run loop looks at the clients once a second only.  That it never    *)
(* cuts a grace period short rests on ClockInv: a connection stops the     *)
(* idle clock when it is accepted, and the clock stays stopped until the   *)
(* connection is discounted, so the ticks the clock has counted all lie    *)
(* after the last client.                                                  *)
(***************************************************************************)
EXTENDS DaemonLifetime, TLAPS

\* Some connection was accepted and is not yet discounted.
Serving == \E c \in Client : at[c] \in {"spawned", "first", "serving", "flush"}

ClockInv ==
  /\ Serving => idle = Unset
  /\ loop = "ticking" => \A c \in Client : at[c] # "spawned"
  /\ idle # Unset => quiet >= idle \/ quiet >= QuietCap
  /\ grace # Never => grace <= QuietCap

\* Whatever is asked for, the stored grace is positive or infinite, and within
\* the range the history counter can tell apart.
LEMMA GraceRange ==
  ASSUME NEW g \in Requests
  PROVE  /\ GraceToAtomic(g) \in (Nat \ {0}) \cup {Never}
         /\ GraceToAtomic(g) # Never => GraceToAtomic(g) <= QuietCap
BY LifetimeAssumption DEF LifetimeAssumption, GraceToAtomic

-----------------------------------------------------------------------------
\* Every step of the model preserves the types; in particular the registry
\* counts exactly the connections between handle_conn's increment and its
\* decrement.
LEMMA TypeStep == LifeTypeOK /\ [LifeNext]_lifeVars => LifeTypeOK'
<1> USE LifetimeAssumption
<1> SUFFICES ASSUME LifeTypeOK, [LifeNext]_lifeVars PROVE LifeTypeOK'
  OBVIOUS
<1> USE DEF LifetimeAssumption, LifeTypeOK, loopVars, clientVars, Move
<1>1. ASSUME NEW c \in Client, ClientConnect(c) PROVE LifeTypeOK'
  BY <1>1 DEF ClientConnect
<1>2. ASSUME NEW c \in Client, ConnStart(c) PROVE LifeTypeOK'
  BY <1>2 DEF ConnStart
<1>3. ASSUME NEW c \in Client, FirstOther(c) \/ FirstShutdown(c) \/ ClientEnds(c) PROVE LifeTypeOK'
  BY <1>3 DEF FirstOther, FirstShutdown, ClientEnds
<1>4. ASSUME NEW c \in Client, NEW g \in Requests, FirstSetGrace(c, g) PROVE LifeTypeOK'
  BY <1>4, GraceRange DEF FirstSetGrace
<1>5. ASSUME NEW c \in Client, NEW s \in Session, FirstAttach(c, s) PROVE LifeTypeOK'
  BY <1>5 DEF FirstAttach
<1>6. ASSUME NEW c \in Client, ConnFlush(c) PROVE LifeTypeOK'
  BY <1>6 DEF ConnFlush
<1>7. ASSUME NEW c \in Client, ConnNotify(c) PROVE LifeTypeOK'
  BY <1>7 DEF ConnNotify
<1>8. ASSUME NEW c \in Client, LoopAccept(c) PROVE LifeTypeOK'
  <2>1. at' \in [Client -> {"idle", "queued", "spawned", "first", "serving", "flush", "notify", "closed"}]
    BY <1>8 DEF LoopAccept
  <2>2. \A d \in Client : at'[d] \in {"first", "serving", "flush"} <=> at[d] \in {"first", "serving", "flush"}
    BY <1>8 DEF LoopAccept
  <2> QED
    BY <1>8, <2>1, <2>2 DEF LoopAccept
<1>9. CASE LoopTick
  <2>1. idle' \in Nat \cup {Unset} /\ quiet' \in Nat
    BY <1>9 DEF LoopTick
  <2>2. loop' = "ticking" /\ woken' = FALSE
    BY <1>9 DEF LoopTick
  <2>3. UNCHANGED <<acceptor, clientVars, grace, live>>
    BY <1>9 DEF LoopTick
  <2> QED
    BY <2>1, <2>2, <2>3
<1>10. CASE TickDecide
  BY <1>10 DEF TickDecide, StartIdle
<1>11. CASE LoopAcceptFails \/ LoopResume \/ LoopShutdown \/ LoopDrain \/ LoopExit
  BY <1>11 DEF LoopAcceptFails, LoopResume, LoopShutdown, LoopDrain, LoopExit
<1>12. CASE \E s \in Session : SessionEnd(s)
  BY <1>12 DEF SessionEnd
<1>13. CASE UNCHANGED lifeVars
  BY <1>13 DEF lifeVars
<1>14. CASE AcceptFails
  BY <1>14 DEF AcceptFails
<1> QED
  BY <1>1, <1>2, <1>3, <1>4, <1>5, <1>6, <1>7, <1>8, <1>9, <1>10, <1>11, <1>12, <1>13, <1>14
  DEF LifeNext, LoopStep, TaskStep

\* The model is type correct: Registry::conns counts what it says.
THEOREM TypeCorrect == LifeSpec => []LifeTypeOK
<1>1. LifeInit => LifeTypeOK
  <2> SUFFICES ASSUME LifeInit PROVE LifeTypeOK
    OBVIOUS
  <2>1. at \in [Client -> {"idle", "queued", "spawned", "first", "serving", "flush", "notify", "closed"}]
    BY DEF LifeInit, Unused
  <2>2. counted = {c \in Client : at[c] \in {"first", "serving", "flush"}}
    BY DEF LifeInit, Unused
  <2>3. grace \in (Nat \ {0}) \cup {Never}
    BY GraceRange DEF LifeInit, Unused
  <2> QED
    BY <2>1, <2>2, <2>3 DEF LifeInit, Unused, LifeTypeOK
<1> QED
  BY <1>1, TypeStep, PTL DEF LifeSpec

-----------------------------------------------------------------------------
\* The idle clock runs only while nobody is served, and the history counter
\* keeps up with it.
LEMMA ClockStep == LifeTypeOK /\ ClockInv /\ [LifeNext]_lifeVars => ClockInv'
<1> USE LifetimeAssumption
<1> SUFFICES ASSUME LifeTypeOK, ClockInv, [LifeNext]_lifeVars PROVE ClockInv'
  OBVIOUS
<1> USE DEF LifetimeAssumption, LifeTypeOK, ClockInv, Serving, loopVars, clientVars, Move
<1>1. ASSUME NEW c \in Client, ClientConnect(c) \/ ConnStart(c) \/ ConnNotify(c) PROVE ClockInv'
  BY <1>1 DEF ClientConnect, ConnStart, ConnNotify
<1>2. ASSUME NEW c \in Client, FirstOther(c) \/ FirstShutdown(c) \/ ClientEnds(c) PROVE ClockInv'
  BY <1>2 DEF FirstOther, FirstShutdown, ClientEnds
<1>3. ASSUME NEW c \in Client, NEW g \in Requests, FirstSetGrace(c, g) PROVE ClockInv'
  BY <1>3, GraceRange DEF FirstSetGrace
<1>4. ASSUME NEW c \in Client, NEW s \in Session, FirstAttach(c, s) PROVE ClockInv'
  BY <1>4 DEF FirstAttach
<1>5. ASSUME NEW c \in Client, ConnFlush(c) PROVE ClockInv'
  BY <1>5 DEF ConnFlush
<1>6. ASSUME NEW c \in Client, LoopAccept(c) PROVE ClockInv'
  BY <1>6 DEF LoopAccept
<1>7. CASE LoopTick
  <2>1. Serving' => idle' = Unset
    BY <1>7 DEF LoopTick
  <2>2. ASSUME idle' # Unset PROVE quiet' >= idle' \/ quiet' >= QuietCap
    <3>1. idle \in Nat /\ idle' = idle + 1 /\ counted = {}
      BY <1>7, <2>2 DEF LoopTick
    <3> QED
      BY <1>7, <3>1 DEF LoopTick
  <2> QED
    BY <1>7, <2>1, <2>2 DEF LoopTick
<1>8. CASE TickDecide
  <2>1. CASE counted # {}
    BY <1>8, <2>1 DEF TickDecide
  <2>2. CASE counted = {}
    <3>1. ~Serving
      BY <1>8, <2>2 DEF TickDecide
    <3>2. idle' = idle \/ (idle = Unset /\ idle' = 0)
      BY <1>8, <2>2 DEF TickDecide, StartIdle
    <3> QED
      BY <1>8, <3>1, <3>2 DEF TickDecide
  <2> QED
    BY <2>1, <2>2
<1>9. CASE LoopAcceptFails \/ LoopResume \/ LoopShutdown \/ LoopDrain \/ LoopExit
  BY <1>9 DEF LoopAcceptFails, LoopResume, LoopShutdown, LoopDrain, LoopExit
<1>10. CASE \E s \in Session : SessionEnd(s)
  BY <1>10 DEF SessionEnd
<1>11. CASE UNCHANGED lifeVars
  BY <1>11 DEF lifeVars
<1>12. CASE AcceptFails
  BY <1>12 DEF AcceptFails
<1> QED
  BY <1>1, <1>2, <1>3, <1>4, <1>5, <1>6, <1>7, <1>8, <1>9, <1>10, <1>11, <1>12
  DEF LifeNext, LoopStep, TaskStep

\* The loop never stops on its own while sessions are live before a whole
\* grace period has passed since the last client was counted.
THEOREM GraceIsHonoured == LifeSpec => GraceHonoured
<1> DEFINE Step == loop = "ticking" /\ loop' = "draining" /\ live # {}
                     => grace # Never /\ quiet >= grace
<1>1. LifeInit => ClockInv
  BY LifetimeAssumption, GraceRange DEF LifetimeAssumption, LifeInit, Unused, ClockInv, Serving
<1>2. LifeTypeOK /\ ClockInv /\ [LifeNext]_lifeVars => [Step]_lifeVars
  <2> SUFFICES ASSUME LifeTypeOK, ClockInv, LifeNext,
                      loop = "ticking", loop' = "draining", live # {}
               PROVE  grace # Never /\ quiet >= grace
    OBVIOUS
  <2>1. TickDecide
    BY DEF LifeNext, LoopStep, TaskStep, LoopAccept, AcceptFails, LoopAcceptFails, LoopResume, LoopShutdown, LoopTick,
           LoopDrain, LoopExit, ConnStart, ConnFlush, ConnNotify, ClientConnect, FirstOther,
           FirstShutdown, ClientEnds, FirstSetGrace, FirstAttach, SessionEnd, loopVars, clientVars
  <2>2. grace # Never /\ StartIdle >= grace
    BY <2>1 DEF TickDecide
  <2>3. grace \in Nat \ {0} /\ idle \in Nat /\ idle >= grace
    BY <2>2, LifetimeAssumption DEF LifeTypeOK, StartIdle, LifetimeAssumption
  <2> QED
    BY <2>2, <2>3, LifetimeAssumption DEF LifeTypeOK, ClockInv, LifetimeAssumption
<1> QED
  BY <1>1, <1>2, TypeCorrect, ClockStep, PTL DEF LifeSpec, GraceHonoured
-----------------------------------------------------------------------------
\* A shutdown that is told to the loop, or about to be, was asked for.
AskedInv ==
  /\ \A c \in Client : at[c] = "notify" => c \in stop
  /\ woken => stop # {}

LEMMA AskedStep == LifeTypeOK /\ AskedInv /\ [LifeNext]_lifeVars => AskedInv'
<1> SUFFICES ASSUME LifeTypeOK, AskedInv, [LifeNext]_lifeVars PROVE AskedInv'
  OBVIOUS
<1> USE DEF LifeTypeOK, AskedInv, Move, loopVars, clientVars
<1>1. ASSUME NEW c \in Client, ClientConnect(c) \/ ConnStart(c) \/ FirstOther(c) \/ ClientEnds(c)
      PROVE  AskedInv'
  BY <1>1 DEF ClientConnect, ConnStart, FirstOther, ClientEnds
<1>2. ASSUME NEW c \in Client, NEW g \in Requests, FirstSetGrace(c, g) PROVE AskedInv'
  BY <1>2 DEF FirstSetGrace
<1>3. ASSUME NEW c \in Client, FirstShutdown(c) PROVE AskedInv'
  BY <1>3 DEF FirstShutdown
<1>4. ASSUME NEW c \in Client, NEW s \in Session, FirstAttach(c, s) PROVE AskedInv'
  BY <1>4 DEF FirstAttach
<1>5. ASSUME NEW c \in Client, ConnFlush(c) PROVE AskedInv'
  BY <1>5 DEF ConnFlush
<1>6. ASSUME NEW c \in Client, ConnNotify(c) PROVE AskedInv'
  BY <1>6 DEF ConnNotify
<1>7. ASSUME NEW c \in Client, LoopAccept(c) PROVE AskedInv'
  BY <1>7 DEF LoopAccept
<1>8. CASE LoopAcceptFails \/ LoopResume \/ LoopShutdown \/ LoopTick \/ TickDecide \/ LoopDrain \/ LoopExit
  BY <1>8 DEF LoopAcceptFails, LoopResume, LoopShutdown, LoopTick, TickDecide, LoopDrain, LoopExit
<1>9. CASE \E s \in Session : SessionEnd(s)
  BY <1>9 DEF SessionEnd
<1>10. CASE UNCHANGED lifeVars
  BY <1>10 DEF lifeVars
<1>11. CASE AcceptFails
  BY <1>11 DEF AcceptFails
<1> QED
  BY <1>1, <1>2, <1>3, <1>4, <1>5, <1>6, <1>7, <1>8, <1>9, <1>10, <1>11 DEF LifeNext, LoopStep, TaskStep

\* The loop goes round.
Running(l) == l \in {"select", "accepting", "ticking"}

\* The loop ends in one of three ways: a client asked for it; an accept call
\* failed, and then run returns at once, without emptying the registry; or,
\* with neither, while no connection is accepted and unfinished, after the idle
\* period without sessions and after the grace period with them.  In the first
\* and the last the sessions are killed before the process goes.
StopsForReason ==
  [][Running(loop) /\ ~Running(loop')
       => \/ loop' = "draining" /\ stop # {}
          \/ loop' = "gone" /\ acceptor = "failed"
          \/ /\ loop' = "draining"
             /\ ~Serving
             /\ quiet >= (IF live = {} THEN IdleExitAfter ELSE grace)
             /\ live # {} => grace # Never]_lifeVars

\* What run promises in the other direction than UnusedDaemonExits: not to
\* leave a client that came between two ticks, nor before its time, as long as
\* it can accept.  (The history counter must be able to tell the idle period
\* apart.)
THEOREM StopsHaveReason ==
  ASSUME IdleExitAfter <= QuietCap
  PROVE  LifeSpec => StopsForReason
<1> DEFINE Rested == /\ ~Serving
                     /\ quiet >= (IF live = {} THEN IdleExitAfter ELSE grace)
                     /\ live # {} => grace # Never
<1> DEFINE Step == Running(loop) /\ ~Running(loop')
                     => \/ loop' = "draining" /\ stop # {}
                        \/ loop' = "gone" /\ acceptor = "failed"
                        \/ loop' = "draining" /\ Rested
<1>1. LifeInit => ClockInv /\ AskedInv
  BY LifetimeAssumption, GraceRange DEF LifetimeAssumption, LifeInit, Unused, ClockInv, Serving, AskedInv
<1>2. LifeTypeOK /\ ClockInv /\ AskedInv /\ [LifeNext]_lifeVars => [Step]_lifeVars
  <2> SUFFICES ASSUME LifeTypeOK, ClockInv, AskedInv, LifeNext, Running(loop), ~Running(loop')
               PROVE  Step
    OBVIOUS
  <2>1. LoopAcceptFails \/ LoopShutdown \/ TickDecide
    BY DEF Running, LifeNext, LoopStep, TaskStep, LoopAccept, AcceptFails, LoopResume, LoopTick,
           LoopDrain, LoopExit, ConnStart, ConnFlush, ConnNotify, ClientConnect, FirstOther,
           FirstShutdown, ClientEnds, FirstSetGrace, FirstAttach, SessionEnd, loopVars, clientVars
  <2>2. CASE LoopAcceptFails
    BY <2>2 DEF LoopAcceptFails
  <2>3. CASE LoopShutdown
    BY <2>3 DEF LoopShutdown, AskedInv
  <2>4. CASE TickDecide
    <3>1. loop' = "draining" /\ counted = {} /\ loop = "ticking"
      BY <2>4 DEF TickDecide, Running
    <3>2. ~Serving
      BY <3>1 DEF Serving, ClockInv, LifeTypeOK
    <3>3. CASE live = {}
      <4>1. StartIdle >= IdleExitAfter
        BY <2>4, <3>1, <3>3 DEF TickDecide
      <4>2. idle \in Nat /\ idle >= IdleExitAfter
        BY <4>1, LifetimeAssumption DEF LifeTypeOK, StartIdle, LifetimeAssumption
      <4> QED
        BY <3>1, <3>2, <3>3, <4>2, LifetimeAssumption DEF LifeTypeOK, ClockInv, LifetimeAssumption
    <3>4. CASE live # {}
      <4>1. grace # Never /\ StartIdle >= grace
        BY <2>4, <3>1, <3>4 DEF TickDecide
      <4>2. grace \in Nat \ {0} /\ idle \in Nat /\ idle >= grace
        BY <4>1, LifetimeAssumption DEF LifeTypeOK, StartIdle, LifetimeAssumption
      <4> QED
        BY <3>1, <3>2, <3>4, <4>1, <4>2, LifetimeAssumption DEF LifeTypeOK, ClockInv, LifetimeAssumption
    <3> QED
      BY <3>3, <3>4
  <2> QED
    BY <2>1, <2>2, <2>3, <2>4
<1> QED
  BY <1>1, <1>2, TypeCorrect, ClockStep, AskedStep, PTL DEF LifeSpec, StopsForReason
=============================================================================
