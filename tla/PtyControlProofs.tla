--------------------------- MODULE PtyControlProofs ---------------------------
(***************************************************************************)
(* Proofs about PtyControl, for any connections, sizes and request bound:  *)
(* type correctness, and what the resize mailbox promises.                 *)
(*                                                                         *)
(* None of the three mailbox properties is inductive alone.  They rest on  *)
(* the life time of the handle (HandleInv): the mailbox is closed only     *)
(* when nobody can reach it any more, and on which of mailbox, worker and  *)
(* replica holds the newest size (NewestInv).                              *)
(*                                                                         *)
(* GridSettles, which the run resize_race refutes, is proved for           *)
(* behaviours in which records and enqueues of two connections do not      *)
(* cross.                                                                  *)
(***************************************************************************)
EXTENDS PtyControl, TLAPS

\* The mailbox is closed by the drop of the last handle: the session is gone
\* and no connection is using a clone.
HandleInv ==
  /\ closed <=> closer # "no"
  /\ closed => ~hosted /\ ~Held

\* The newest size is in the mailbox, or taken out of it, or applied to the
\* replica and tried on the PTY.
NewestInv ==
  /\ mailbox # NoSize => mailbox = newest
  /\ mailbox = NoSize /\ inflight # NoSize => inflight = newest
  /\ worker = "resizing" => headless = inflight
  /\ LatestWins

\* A notification is under way whenever the sleeping worker has a reason to
\* look; a worker that ended saw the close and an empty mailbox.
WorkerInv ==
  /\ NoLostWakeup
  /\ worker = "exited" => mailbox = NoSize /\ closed

-----------------------------------------------------------------------------
\* Every step of the model preserves the types.
LEMMA TypeStep == TypeOK /\ [Next]_vars => TypeOK'
<1> USE ControlAssumption
<1> SUFFICES ASSUME TypeOK, [Next]_vars PROVE TypeOK'
  OBVIOUS
<1> USE DEF ControlAssumption, TypeOK, connVars, resizeVars, sizeVars, killVars, Goto, WakeWorker
<1>1. ASSUME NEW c \in Conn, NEW s \in Size, Record(c, s) PROVE TypeOK'
  BY <1>1 DEF Record
<1>2. ASSUME NEW c \in Conn, Enqueue(c) PROVE TypeOK'
  BY <1>2 DEF Enqueue
<1>3. ASSUME NEW c \in Conn, EnqueueNotify(c) PROVE TypeOK'
  BY <1>3 DEF EnqueueNotify
<1>4. ASSUME NEW c \in Conn, RequestKill(c) \/ KillSend(c) \/ Leave(c) PROVE TypeOK'
  <2>1. CASE RequestKill(c)
    BY <2>1 DEF RequestKill
  <2>2. CASE KillSend(c)
    BY <2>2 DEF KillSend
  <2>3. CASE Leave(c)
    BY <2>3 DEF Leave
  <2> QED
    BY <1>4, <2>1, <2>2, <2>3
<1>5. CASE ChildExit \/ Evict \/ DropHandle \/ DropNotify
  <2>1. CASE ChildExit
    BY <2>1 DEF ChildExit
  <2>2. CASE Evict
    BY <2>2 DEF Evict
  <2>3. CASE DropHandle
    BY <2>3 DEF DropHandle
  <2>4. CASE DropNotify
    BY <2>4 DEF DropNotify
  <2> QED
    BY <1>5, <2>1, <2>2, <2>3, <2>4
<1>6. CASE ResizeCheck
  BY <1>6 DEF ResizeCheck
<1>7. CASE ResizeReplica \/ ResizeReturn
  BY <1>7 DEF ResizeReplica, ResizeReturn
<1>8. CASE KillRecv \/ KillReturn \/ KillClosed
  BY <1>8 DEF KillRecv, KillReturn, KillClosed
<1>9. CASE UNCHANGED vars
  BY <1>9 DEF vars
<1> QED
  BY <1>1, <1>2, <1>3, <1>4, <1>5, <1>6, <1>7, <1>8, <1>9
  DEF Next, ConnStep, SessionStep, ResizeStep, KillStep

\* The model is type correct; in particular the kill channel never holds more
\* than the one request its capacity allows.
THEOREM TypeCorrect == Spec => []TypeOK
<1>1. Init => TypeOK
  <2> SUFFICES ASSUME Init PROVE TypeOK
    OBVIOUS
  <2>1. pc \in [Conn -> {"idle", "recorded", "notify", "killing", "left"}] /\ reqs \in [Conn -> Nat]
    BY DEF Init
  <2>2. want \in [Conn -> Size \cup {NoSize}]
    BY DEF Init
  <2>3. \A c \in Conn : pc[c] = "recorded" => want[c] \in Size
    BY DEF Init
  <2>4. killChan \in 0..1
    BY DEF Init
  <2> QED
    BY ControlAssumption, <2>1, <2>2, <2>3, <2>4 DEF ControlAssumption, Init, TypeOK
<1> QED
  BY <1>1, TypeStep, PTL DEF Spec

-----------------------------------------------------------------------------
\* A clone of the handle is taken only while the session is hosted, so after
\* the drop nobody holds one and nobody gets one.
LEMMA HandleStep == TypeOK /\ HandleInv /\ [Next]_vars => HandleInv'
<1> SUFFICES ASSUME TypeOK, HandleInv, [Next]_vars PROVE HandleInv'
  OBVIOUS
<1> USE DEF TypeOK, HandleInv, Held, connVars, resizeVars, sizeVars, killVars, Goto, WakeWorker
<1>1. ASSUME NEW c \in Conn, NEW s \in Size, Record(c, s) PROVE HandleInv'
  BY <1>1 DEF Record
<1>2. ASSUME NEW c \in Conn, ConnStep(c) \/ RequestKill(c) \/ Leave(c) PROVE HandleInv'
  BY <1>2 DEF ConnStep, Enqueue, EnqueueNotify, KillSend, RequestKill, Leave
<1>3. CASE SessionStep
  BY <1>3 DEF SessionStep, Evict, DropHandle, DropNotify
<1>4. CASE ChildExit \/ ResizeStep \/ KillStep
  BY <1>4 DEF ChildExit, ResizeStep, ResizeCheck, ResizeReplica, ResizeReturn,
              KillStep, KillRecv, KillReturn, KillClosed
<1>5. CASE UNCHANGED vars
  BY <1>5 DEF vars
<1> QED
  BY <1>1, <1>2, <1>3, <1>4, <1>5 DEF Next

\* Enqueue puts the newest size into the mailbox, the worker's check moves it
\* to the worker, which sets the replica and tries it on the PTY.
LEMMA NewestStep == TypeOK /\ HandleInv /\ NewestInv /\ [Next]_vars => NewestInv'
<1> USE ControlAssumption
<1> SUFFICES ASSUME TypeOK, HandleInv, NewestInv, [Next]_vars PROVE NewestInv'
  OBVIOUS
<1> USE DEF ControlAssumption, TypeOK, NewestInv, LatestWins, connVars, resizeVars, sizeVars, killVars,
            WakeWorker
<1>1. ASSUME NEW c \in Conn, Enqueue(c) PROVE NewestInv'
  <2>1. ~closed
    BY <1>1 DEF HandleInv, Held, Enqueue
  <2>2. mailbox' = want[c] /\ newest' = want[c] /\ want[c] # NoSize
    BY <1>1, <2>1 DEF Enqueue
  <2>3. worker' = worker /\ inflight' = inflight /\ headless' = headless
    BY <1>1 DEF Enqueue
  <2> QED
    BY <2>2, <2>3
<1>2. ASSUME NEW c \in Conn,
             EnqueueNotify(c) \/ KillSend(c) \/ RequestKill(c) \/ Leave(c) \/ \E s \in Size : Record(c, s)
      PROVE NewestInv'
  BY <1>2 DEF EnqueueNotify, KillSend, RequestKill, Leave, Record
<1>3. CASE ResizeCheck
  BY <1>3 DEF ResizeCheck
<1>4. CASE ResizeReplica \/ ResizeReturn
  BY <1>4 DEF ResizeReplica, ResizeReturn
<1>5. CASE ChildExit \/ SessionStep \/ KillStep
  BY <1>5 DEF ChildExit, SessionStep, Evict, DropHandle, DropNotify,
              KillStep, KillRecv, KillReturn, KillClosed
<1>6. CASE UNCHANGED vars
  BY <1>6 DEF vars
<1> QED
  BY <1>1, <1>2, <1>3, <1>4, <1>5, <1>6 DEF Next, ConnStep, ResizeStep

\* The worker falls asleep only over an empty, open mailbox, and whoever fills
\* or closes it owes the notification that wakes it.
LEMMA WorkerStep == TypeOK /\ HandleInv /\ WorkerInv /\ [Next]_vars => WorkerInv'
<1> USE ControlAssumption
<1> SUFFICES ASSUME TypeOK, HandleInv, WorkerInv, [Next]_vars PROVE WorkerInv'
  OBVIOUS
<1> USE DEF ControlAssumption, TypeOK, WorkerInv, NoLostWakeup, connVars, resizeVars, sizeVars, killVars, Goto, WakeWorker
<1>1. ASSUME NEW c \in Conn, Enqueue(c) PROVE WorkerInv'
  <2>1. ~closed
    BY <1>1 DEF HandleInv, Held, Enqueue
  <2>2. pc'[c] = "notify" /\ closed' = closed /\ worker' = worker /\ worker # "exited"
    BY <1>1, <2>1 DEF Enqueue
  <2> QED
    BY <2>1, <2>2
<1>2. ASSUME NEW c \in Conn, EnqueueNotify(c) PROVE WorkerInv'
  BY <1>2 DEF EnqueueNotify
<1>3. ASSUME NEW c \in Conn,
             KillSend(c) \/ RequestKill(c) \/ Leave(c) \/ \E s \in Size : Record(c, s)
      PROVE WorkerInv'
  BY <1>3 DEF KillSend, RequestKill, Leave, Record
<1>4. CASE SessionStep
  BY <1>4 DEF SessionStep, Evict, DropHandle, DropNotify
<1>5. CASE ResizeStep
  BY <1>5 DEF ResizeStep, ResizeCheck, ResizeReplica, ResizeReturn
<1>6. CASE ChildExit \/ KillStep
  BY <1>6 DEF ChildExit, KillStep, KillRecv, KillReturn, KillClosed
<1>7. CASE UNCHANGED vars
  BY <1>7 DEF vars
<1> QED
  BY <1>1, <1>2, <1>3, <1>4, <1>5, <1>6, <1>7 DEF Next, ConnStep

\* The strengthened invariant.
LEMMA Inductive == Spec => [](TypeOK /\ HandleInv /\ NewestInv /\ WorkerInv)
<1>1. Init => HandleInv /\ NewestInv /\ WorkerInv
  BY DEF Init, HandleInv, Held, NewestInv, LatestWins, WorkerInv, NoLostWakeup
<1> QED
  BY <1>1, TypeCorrect, HandleStep, NewestStep, WorkerStep, PTL DEF Spec

\* resize_loop never sleeps through a size or through the close of the handle.
THEOREM NoWakeupLost == Spec => []NoLostWakeup
<1>1. WorkerInv => NoLostWakeup
  BY DEF WorkerInv
<1> QED
  BY <1>1, Inductive, PTL

\* When resize_loop returns, no size is left behind and no connection can
\* enqueue another.
THEOREM NothingLeftBehind == Spec => []ExitedLeavesNothing
<1>1. HandleInv /\ WorkerInv => ExitedLeavesNothing
  BY DEF HandleInv, WorkerInv, ExitedLeavesNothing
<1> QED
  BY <1>1, Inductive, PTL

\* Once the mailbox is drained the replica has the size that was enqueued last,
\* and the PTY has it or refused it.
THEOREM NewestSizeWins == Spec => []LatestWins
<1>1. NewestInv => LatestWins
  BY DEF NewestInv
<1> QED
  BY <1>1, Inductive, PTL

-----------------------------------------------------------------------------
(* When the recorded size is the size of the PTY.                          *)

\* No two connections are at once between recording a size and handing it to
\* the mailbox: so it is with one client, and so it would be with the enqueue
\* inside the hold of the registry lock.
RecordedAlone == \A c, d \in Conn : pc[c] = "recorded" /\ pc[d] = "recorded" => c = d

\* The recorded size is the newest one, or about to be.
GridInv ==
  /\ \A c \in Conn : pc[c] = "recorded" => want[c] = grid
  /\ (\A c \in Conn : pc[c] # "recorded") => newest = grid

\* A size is recorded and, before the next is, enqueued.
LEMMA GridStep ==
  TypeOK /\ HandleInv /\ GridInv /\ RecordedAlone /\ RecordedAlone' /\ [Next]_vars => GridInv'
<1> SUFFICES ASSUME TypeOK, HandleInv, GridInv, RecordedAlone, RecordedAlone', [Next]_vars
             PROVE  GridInv'
  OBVIOUS
<1> USE DEF TypeOK, GridInv, RecordedAlone, connVars, resizeVars, sizeVars, killVars, Goto
<1>1. ASSUME NEW c \in Conn, NEW s \in Size, Record(c, s) PROVE GridInv'
  <2>1. pc'[c] = "recorded" /\ want'[c] = s /\ grid' = s
    BY <1>1 DEF Record
  <2> QED
    BY <2>1
<1>2. ASSUME NEW c \in Conn, Enqueue(c) PROVE GridInv'
  <2>1. ~closed
    BY <1>2 DEF HandleInv, Held, Enqueue
  <2>2. newest' = want[c] /\ want[c] = grid /\ grid' = grid /\ want' = want /\ pc'[c] = "notify"
    BY <1>2, <2>1 DEF Enqueue
  <2>3. \A d \in Conn : pc'[d] # "recorded"
    BY <1>2, <2>2 DEF Enqueue
  <2> QED
    BY <2>2, <2>3
<1>3. ASSUME NEW c \in Conn, EnqueueNotify(c) \/ KillSend(c) \/ RequestKill(c) \/ Leave(c)
      PROVE  GridInv'
  BY <1>3 DEF EnqueueNotify, KillSend, RequestKill, Leave
<1>4. CASE ChildExit \/ SessionStep \/ ResizeStep \/ KillStep
  BY <1>4 DEF ChildExit, SessionStep, Evict, DropHandle, DropNotify, ResizeStep, ResizeCheck,
              ResizeReplica, ResizeReturn, KillStep, KillRecv, KillReturn, KillClosed
<1>5. CASE UNCHANGED vars
  BY <1>5 DEF vars
<1> QED
  BY <1>1, <1>2, <1>3, <1>4, <1>5 DEF Next, ConnStep

\* set_grid's comment holds whenever resizes do not cross (GridSettles, which
\* fails when they do: the run resize_race), but for a size the PTY refused.
\* Of the two ways in which the recorded size can stay wrong, the crossing and
\* a refusal of the recorded size itself, this leaves the second: a parked
\* resize call, coalescing, a refusal of an earlier size, a kill or the end of
\* the session is not one.
THEOREM GridSettlesUncrossed == Spec /\ []RecordedAlone => []GridSettles
<1>1. Init => GridInv
  BY DEF Init, GridInv
<1>2. NewestInv /\ GridInv => GridSettles
  BY DEF NewestInv, LatestWins, GridInv, GridSettles
<1> QED
  BY <1>1, <1>2, Inductive, GridStep, PTL DEF Spec

\* A session with a single client: its recorded size is never wrong for good,
\* unless the PTY refused that size.
COROLLARY GridSettlesForOne ==
  ASSUME \A c, d \in Conn : c = d
  PROVE  Spec => []GridSettles
<1>1. RecordedAlone
  BY DEF RecordedAlone
<1> QED
  BY <1>1, GridSettlesUncrossed, PTL
=============================================================================
