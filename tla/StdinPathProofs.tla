---------------------------- MODULE StdinPathProofs ----------------------------
(***************************************************************************)
(* Proofs about PtyWriter and about the stdin path it ends, for any        *)
(* buffers and bounds.                                                     *)
(*                                                                         *)
(* PtyWriter implements StdinQueue: QueueInv says where accepted buffers   *)
(* are; only a raw write that succeeds delivers, and the recording of a    *)
(* failure, not the failed write, breaks the queue.                        *)
(*                                                                         *)
(* The path is composed of its parts: what it does to the writer is what   *)
(* PtyWriter may do, what it does to the remote session is what            *)
(* RemoteSession may do.  So the theorems about PtyWriter hold on the      *)
(* path, and a queued Kill is not lost (KillInv says why).                 *)
(*                                                                         *)
(* And the path as a whole implements StdinQueue.  OrderInv numbers what   *)
(* was typed along the wire: the frames written come first, then the one   *)
(* in the task's hands, then its channel; on the other side the writer has *)
(* accepted what the connection read, but for the buffer that one holds.   *)
(*                                                                         *)
(* WriterServed and KillObeyed are the safety halves of the liveness       *)
(* properties: nobody sleeps over work, and who is done has done it.       *)
(***************************************************************************)
EXTENDS StdinPath, SequenceTheorems, TLAPS

\* Buffers the worker has taken and not finished.
Taken == IF worker = "writing" THEN 1 ELSE 0

\* Until an error, accepted is raw, then the buffer being written, then what
\* is pending; an error strikes a buffer that was accepted.
QueueInv ==
  /\ worker \notin {"failing", "ending", "gone"} =>
       /\ Len(accepted) = Len(raw) + Taken + Len(pending)
       /\ \A i \in 1..Len(pending) : pending[i] = accepted[Len(raw) + Taken + i]
       /\ worker = "writing" => buf = accepted[Len(raw) + 1]
  /\ worker = "failing" => Len(raw) < Len(accepted)

\* The record of a failure is the last the worker does with the queue.
FailureInv == failure => worker \in {"ending", "gone"}

\* The part of the type invariant that is about data.
DataOK ==
  /\ pending \in Seq(Buf) /\ raw \in Seq(Buf) /\ accepted \in Seq(Buf)
  /\ worker \in WorkerPc
  /\ buf \in Buf \cup {NoBuf} /\ (worker = "writing" <=> buf # NoBuf)

\* The initial state is well typed and its queue is empty.
LEMMA InitOK == Init => TypeOK /\ QueueInv /\ FailureInv
<1> SUFFICES ASSUME Init PROVE TypeOK /\ QueueInv /\ FailureInv
  OBVIOUS
<1>1. DataOK
  BY DEF Init, DataOK, WorkerPc
<1>2. /\ closed \in BOOLEAN /\ failure \in BOOLEAN
      /\ caller \in {"ready", "written", "dropping", "gone"}
  BY DEF Init
<1>3. Len(pending) = 0 /\ Len(raw) = 0 /\ Len(accepted) = 0
  BY DEF Init
<1> QED
  BY <1>1, <1>2, <1>3 DEF DataOK, Init, TypeOK, QueueInv, FailureInv, Taken

\* Taking from a queue that is not empty.
LEMMA TakeFirst ==
  ASSUME NEW q \in Seq(Buf), q # <<>>
  PROVE  /\ Head(q) \in Buf /\ Head(q) = q[1]
         /\ Tail(q) \in Seq(Buf) /\ Len(q) \in Nat /\ Len(q) > 0
         /\ Len(Tail(q)) = Len(q) - 1
         /\ \A i \in 1..Len(Tail(q)) : Tail(q)[i] = q[i + 1]
OBVIOUS

\* Every step preserves the types of the data and the whereabouts of buffers.
LEMMA QueueStep == DataOK /\ QueueInv /\ [Next]_vars => DataOK' /\ QueueInv'
<1> SUFFICES ASSUME DataOK, QueueInv, [Next]_vars PROVE DataOK' /\ QueueInv'
  OBVIOUS
<1> USE WriterAssumption DEF WriterAssumption, DataOK, WorkerPc, QueueInv, Taken
<1>1. ASSUME NEW b \in Buf, Write(b) PROVE DataOK' /\ QueueInv'
  <2>1. /\ pending' = Append(pending, b) /\ accepted' = Append(accepted, b)
        /\ UNCHANGED <<worker, buf, raw>>
    BY <1>1 DEF Write
  <2>2. DataOK' /\ Len(pending') = Len(pending) + 1 /\ Len(accepted') = Len(accepted) + 1
    BY <2>1
  <2>3. /\ \A i \in 1..Len(pending) : pending'[i] = pending[i]
        /\ pending'[Len(pending) + 1] = b
        /\ \A i \in 1..Len(accepted) : accepted'[i] = accepted[i]
        /\ accepted'[Len(accepted) + 1] = b
    BY <2>1
  <2>4. ASSUME worker \notin {"failing", "ending", "gone"}, NEW i \in 1..Len(pending')
        PROVE  pending'[i] = accepted'[Len(raw) + Taken + i]
    <3> Taken \in Nat /\ Len(raw) \in Nat /\ Len(pending) \in Nat
      OBVIOUS
    <3> Len(accepted) = Len(raw) + Taken + Len(pending)
      BY <2>4
    <3> HIDE DEF Taken, DataOK, QueueInv
    <3>1. CASE i = Len(pending) + 1
      <4>1. Len(raw) + Taken + i = Len(accepted) + 1
        BY <3>1
      <4> QED
        BY <2>3, <3>1, <4>1
    <3>2. CASE i \in 1..Len(pending)
      <4>1. Len(raw) + Taken + i \in 1..Len(accepted)
        BY <3>2
      <4>2. pending[i] = accepted[Len(raw) + Taken + i]
        BY <2>4, <3>2 DEF QueueInv
      <4> QED
        BY <2>3, <3>2, <4>1, <4>2
    <3> QED
      BY <2>2, <3>1, <3>2
  <2>5. worker = "writing" => accepted'[Len(raw) + 1] = accepted[Len(raw) + 1]
    BY <2>3
  <2>6. /\ Taken' = Taken /\ Taken \in Nat
        /\ Len(raw) \in Nat /\ Len(pending) \in Nat /\ Len(accepted) \in Nat
    BY <2>1
  <2> HIDE DEF Taken, DataOK
  <2>7. worker \notin {"failing", "ending", "gone"} =>
          Len(accepted') = Len(raw) + Taken + Len(pending')
    BY <2>2, <2>6
  <2>8. worker = "failing" => Len(raw) < Len(accepted')
    BY <2>2, <2>6
  <2> QED
    BY <2>1, <2>2, <2>4, <2>5, <2>6, <2>7, <2>8
<1>2. CASE WriteNotify \/ DropWriter \/ DropNotify
  <2>1. /\ UNCHANGED <<pending, buf, raw, accepted>>
        /\ worker' = worker \/ (worker = "asleep" /\ worker' = "checking")
    BY <1>2 DEF WriteNotify, DropWriter, DropNotify, WakeWorker, stateVars
  <2> QED
    BY <2>1
<1>3. CASE Take
  <2>1. worker = "checking" /\ UNCHANGED <<raw, accepted>>
    BY <1>3 DEF Take
  <2>2. CASE pending = <<>>
    <3>1. worker' \in {"flushing", "asleep"} /\ UNCHANGED <<pending, buf>>
      BY <1>3, <2>2 DEF Take
    <3> QED
      BY <2>1, <3>1
  <2>3. CASE pending # <<>>
    <3>1. worker' = "writing" /\ buf' = Head(pending) /\ pending' = Tail(pending)
      BY <1>3, <2>3 DEF Take
    <3> QED
      BY <2>1, <2>3, <3>1, TakeFirst
  <2> QED
    BY <2>2, <2>3
<1>4. CASE RawWritten
  <2>1. /\ worker = "writing" /\ worker' = "checking"
        /\ raw' = Append(raw, buf) /\ buf' = NoBuf
        /\ UNCHANGED <<pending, accepted>>
    BY <1>4 DEF RawWritten, stateVars
  <2> QED
    BY <2>1
<1>5. CASE RawFailed
  <2>1. /\ worker = "writing" /\ worker' = "failing" /\ buf' = NoBuf
        /\ UNCHANGED <<pending, raw, accepted>>
    BY <1>5 DEF RawFailed, stateVars
  <2> QED
    BY <2>1
<1>6. CASE RecordFailure \/ Flush \/ End
  <2>1. /\ worker # "writing" /\ worker' \in {"ending", "gone"}
        /\ pending' \in Seq(Buf)
        /\ UNCHANGED <<buf, raw, accepted>>
    <3>1. CASE RecordFailure
      BY <3>1 DEF RecordFailure
    <3>2. CASE Flush \/ End
      BY <3>2 DEF Flush, End, stateVars
    <3> QED
      BY <1>6, <3>1, <3>2
  <2>2. worker' # "writing" /\ worker' # "failing" /\ worker' \in WorkerPc
    BY <2>1
  <2>3. DataOK'
    BY <2>1, <2>2
  <2> QED
    BY <2>1, <2>2, <2>3
<1>7. CASE UNCHANGED vars
  BY <1>7 DEF vars, stateVars
<1> QED
  BY <1>1, <1>2, <1>3, <1>4, <1>5, <1>6, <1>7 DEF Next, CallerStep, WorkerStep

\* The flags of the queue.
FlagOK ==
  /\ closed \in BOOLEAN /\ failure \in BOOLEAN
  /\ caller \in {"ready", "written", "dropping", "gone"}

\* Every step preserves the types of the flags, and a recorded failure ends
\* the worker's use of the queue.
LEMMA FlagStep == FlagOK /\ FailureInv /\ [Next]_vars => FlagOK' /\ FailureInv'
<1> SUFFICES ASSUME FlagOK, FailureInv, [Next]_vars PROVE FlagOK' /\ FailureInv'
  OBVIOUS
<1> USE DEF FlagOK, FailureInv
<1>1. ASSUME NEW b \in Buf, Write(b) PROVE FlagOK' /\ FailureInv'
  BY <1>1 DEF Write
<1>2. CASE WriteNotify \/ DropWriter \/ DropNotify
  <2>1. FlagOK'
    BY <1>2 DEF WriteNotify, DropWriter, DropNotify, stateVars
  <2>2. failure' = failure /\ (worker # "asleep" => worker' = worker)
    BY <1>2 DEF WriteNotify, DropWriter, DropNotify, WakeWorker, stateVars
  <2> QED
    BY <2>1, <2>2
<1>3. CASE Take
  BY <1>3 DEF Take
<1>4. CASE RawWritten \/ RawFailed
  BY <1>4 DEF RawWritten, RawFailed, stateVars
<1>5. CASE RecordFailure \/ Flush \/ End
  BY <1>5 DEF RecordFailure, Flush, End, stateVars
<1>6. CASE UNCHANGED vars
  BY <1>6 DEF vars, stateVars
<1> QED
  BY <1>1, <1>2, <1>3, <1>4, <1>5, <1>6 DEF Next, CallerStep, WorkerStep

\* The inductive invariant.
IInv == TypeOK /\ QueueInv /\ FailureInv

\* It holds throughout.
LEMMA Inductive == Spec => []IInv
<1>1. TypeOK <=> DataOK /\ FlagOK
  BY DEF TypeOK, DataOK, FlagOK
<1>2. IInv /\ [Next]_vars => IInv'
  BY <1>1, QueueStep, FlagStep DEF IInv, TypeOK, DataOK, FlagOK
<1>3. Init => IInv
  BY InitOK DEF IInv
<1> QED
  BY <1>2, <1>3, PTL DEF Spec

-----------------------------------------------------------------------------
\* The state of the queue, the worker and the caller stays well typed
\* (pty_writer: State and worker_loop).
THEOREM TypeCorrect == Spec => []TypeOK
<1>1. IInv => TypeOK
  BY DEF IInv
<1> QED
  BY Inductive, <1>1, PTL

\* Every step of the writer is a step of the abstract queue or invisible in it.
LEMMA Simulation == IInv /\ [Next]_vars => [Queue!QNext]_(Queue!qvars)
<1> SUFFICES ASSUME IInv, [Next]_vars PROVE [Queue!QNext]_(Queue!qvars)
  OBVIOUS
<1> USE DEF IInv, Queue!QNext, Queue!qvars
<1>1. ASSUME NEW b \in Buf, Write(b) PROVE Queue!Accept(b)
  BY <1>1 DEF Write, Queue!Accept
<1>2. CASE WriteNotify \/ DropNotify
  BY <1>2 DEF WriteNotify, DropNotify, stateVars
<1>3. CASE DropWriter \/ End
  BY <1>3 DEF DropWriter, End, Queue!Close
<1>4. CASE Take \/ RawFailed \/ Flush
  BY <1>4 DEF Take, RawFailed, Flush, stateVars
<1>5. CASE RawWritten
  <2>1. worker = "writing" /\ ~failure
    BY <1>5 DEF RawWritten, FailureInv
  <2>2. Len(raw) < Len(accepted) /\ buf = accepted[Len(raw) + 1]
    BY <2>1 DEF QueueInv, Taken, TypeOK
  <2> QED
    BY <1>5, <2>1, <2>2 DEF RawWritten, stateVars, Queue!Deliver, Queue!Undelivered
<1>6. CASE RecordFailure
  <2>1. ~failure /\ Len(raw) < Len(accepted)
    BY <1>6 DEF RecordFailure, FailureInv, QueueInv
  <2> QED
    BY <1>6, <2>1 DEF RecordFailure, Queue!Break, Queue!Undelivered
<1>7. CASE UNCHANGED vars
  BY <1>7 DEF vars, stateVars
<1> QED
  BY <1>1, <1>2, <1>3, <1>4, <1>5, <1>6, <1>7 DEF Next, CallerStep, WorkerStep

\* PtyWriter implements the stdin promise: buffers reach the PTY in the order
\* in which write accepted them, none skipped and none twice, and nothing is
\* accepted after a recorded failure or a close.
THEOREM WriterIsStdinQueue == Spec => ImplementsStdinQueue
<1>1. Init => Queue!QInit
  BY DEF Init, Queue!QInit
<1> QED
  BY <1>1, Inductive, Simulation, PTL DEF Spec, ImplementsStdinQueue, Queue!QSpec

-----------------------------------------------------------------------------
(* Nothing is left lying.                                                  *)

\* A sleeping worker has nothing to do that nobody is about to wake it for;
\* one that ends has delivered all that was accepted, or recorded a failure.
WriterServed ==
  /\ worker = "asleep" => /\ pending # <<>> => caller = "written"
                          /\ closed => caller = "dropping"
  /\ worker \in {"flushing", "ending", "gone"} =>
       closed /\ (failure \/ Len(raw) = Len(accepted))

\* Each step of the caller or the worker keeps it so.
LEMMA ServedStep == IInv /\ WriterServed /\ [Next]_vars => WriterServed'
<1> SUFFICES ASSUME IInv, WriterServed, [Next]_vars PROVE WriterServed'
  OBVIOUS
<1> USE DEF WriterServed
<1>1. ASSUME NEW b \in Buf, Write(b) PROVE WriterServed'
  BY <1>1 DEF Write
<1>2. CASE WriteNotify
  BY <1>2 DEF WriteNotify, WakeWorker, stateVars
<1>3. CASE DropWriter
  BY <1>3 DEF DropWriter
<1>4. CASE DropNotify
  BY <1>4 DEF DropNotify, WakeWorker, stateVars
<1>5. CASE Take
  <2>1. worker = "checking" /\ UNCHANGED <<closed, failure, raw, accepted>>
    BY <1>5 DEF Take
  <2>2. CASE pending # <<>>
    BY <1>5, <2>1, <2>2 DEF Take
  <2>3. CASE pending = <<>>
    <3>1. Len(raw) = Len(accepted)
      BY <2>1, <2>3 DEF IInv, TypeOK, QueueInv, Taken
    <3>2. pending' = <<>> /\ worker' = IF closed THEN "flushing" ELSE "asleep"
      BY <1>5, <2>3 DEF Take
    <3> QED
      BY <2>1, <3>1, <3>2
  <2> QED
    BY <2>2, <2>3
<1>6. CASE RawWritten \/ RawFailed
  BY <1>6 DEF RawWritten, RawFailed, stateVars
<1>7. CASE RecordFailure \/ Flush \/ End
  BY <1>7 DEF RecordFailure, Flush, End, stateVars
<1>8. CASE UNCHANGED vars
  BY <1>8 DEF vars, stateVars
<1> QED
  BY <1>1, <1>2, <1>3, <1>4, <1>5, <1>6, <1>7, <1>8 DEF Next, CallerStep, WorkerStep

\* The safety half of AcceptedArrives and DropReleasesRaw: no write and no
\* drop is slept through, though both notify after they let the mutex go, and
\* what was accepted before a drop is written before the worker ends.
THEOREM WriterIsServed == Spec => []WriterServed
<1>1. Init => WriterServed
  BY DEF Init, WriterServed
<1> QED
  BY <1>1, Inductive, ServedStep, PTL DEF Spec

-----------------------------------------------------------------------------
(* The path.                                                               *)

\* What the control loop holds is a buffer it read.
HandInv == conn = "holding" => inhand \in Buf

\* The control loop takes only buffers in hand.
LEMMA HandStep == HandInv /\ [PathNext]_pathVars => HandInv'
<1> SUFFICES ASSUME HandInv, [PathNext]_pathVars PROVE HandInv'
  OBVIOUS
<1> USE DEF HandInv
<1>1. CASE ConnWriteFrame
  BY <1>1 DEF ConnWriteFrame, Unread
<1>2. CASE ConnWriteStdin
  BY <1>2 DEF ConnWriteStdin
<1>3. CASE ConnResize \/ ConnKill \/ ConnEof
  BY <1>3 DEF ConnResize, ConnKill, ConnEof
<1>4. CASE SessionStep \/ ClientStep \/ Evict \/ DropLast
  BY <1>4 DEF SessionStep, ClientStep, Evict, DropLast, connVars
<1>5. CASE UNCHANGED pathVars
  BY <1>5 DEF pathVars, connVars
<1> QED
  BY <1>1, <1>2, <1>3, <1>4, <1>5 DEF PathNext, ConnStep

\* A step of the path is a step of the writer, or leaves it alone.
LEMMA StepsWriter == HandInv /\ [PathNext]_pathVars => [Next]_vars
<1> SUFFICES ASSUME HandInv, [PathNext]_pathVars PROVE [Next]_vars
  OBVIOUS
<1>1. CASE ConnWriteStdin
  <2>1. conn = "holding"
    BY <1>1 DEF ConnWriteStdin
  <2>2. CASE Write(inhand)
    BY <2>1, <2>2 DEF HandInv, Next, CallerStep
  <2>3. CASE UNCHANGED vars
    BY <2>3
  <2> QED
    BY <1>1, <2>2, <2>3 DEF ConnWriteStdin
<1>2. CASE ConnWriteFrame \/ ConnResize \/ ConnKill \/ ConnEof \/ Evict
  BY <1>2 DEF ConnWriteFrame, ConnResize, ConnKill, ConnEof, Evict
<1>3. CASE SessionStep \/ DropLast
  BY <1>3 DEF SessionStep, DropLast, Next, CallerStep
<1>4. CASE ClientStep
  BY <1>4 DEF ClientStep
<1>5. CASE UNCHANGED pathVars
  BY <1>5 DEF pathVars
<1> QED
  BY <1>1, <1>2, <1>3, <1>4, <1>5 DEF PathNext, ConnStep

\* A step of the path is a step of the remote session, or leaves it alone.
LEMMA StepsRemote == [PathNext]_pathVars => [Remote!Next]_remoteVars
<1> SUFFICES ASSUME [PathNext]_pathVars PROVE [Remote!Next]_remoteVars
  OBVIOUS
<1>1. CASE ConnStep
  BY <1>1 DEF ConnStep, ConnWriteFrame, ConnWriteStdin, ConnResize, ConnKill, ConnEof
<1>2. CASE SessionStep \/ Evict \/ DropLast
  BY <1>2 DEF SessionStep, Evict, DropLast
<1>3. CASE ClientStep
  BY <1>3 DEF ClientStep, Remote!Next
<1>4. CASE UNCHANGED pathVars
  BY <1>4 DEF pathVars
<1> QED
  BY <1>1, <1>2, <1>3, <1>4 DEF PathNext

\* On the path, the writer behaves as PtyWriter says.
LEMMA PathHasWriter == PathSpec => Spec
<1>1. PathInit => Init /\ HandInv
  BY DEF PathInit, HandInv
<1> QED
  BY <1>1, HandStep, StepsWriter, PTL DEF PathSpec, Spec

-----------------------------------------------------------------------------
(* The Kill.                                                               *)

\* Where the Kill is, and what the end of the task, the drain, a drop and a
\* closed stdin say of each other: the task ends before a Kill was asked for
\* only when the socket broke or the handle is being dropped.
KillInv ==
  /\ KillNotLost
  /\ writeQ \in Seq(Buf)
  /\ controlQ \in Seq(Remote!Control) /\ wire \in Seq(Buf \cup Remote!Control)
  /\ frame \in Buf \cup Remote!Control \cup {NoBuf}
  /\ task \in {"sending", "drainSending"} <=> frame # NoBuf
  /\ task \in {"draining", "drainSending"} => ~stdin
  /\ task = "gone" => cut \/ Remote!Holds(wire, "kill") \/ ~stdin
  /\ handle # "held" => ~stdin
  /\ ~stdin => handle # "held" \/ killing = "done"

\* An appended frame is there, and what was there still is.
LEMMA HoldsAppend ==
  ASSUME NEW S, NEW s \in Seq(S), NEW x \in S, NEW f
  PROVE  Remote!Holds(Append(s, x), f) <=> Remote!Holds(s, f) \/ x = f
<1>1. Len(Append(s, x)) = Len(s) + 1 /\ Len(s) \in Nat
  OBVIOUS
<1>2. \A i \in 1..(Len(s) + 1) : Append(s, x)[i] = IF i = Len(s) + 1 THEN x ELSE s[i]
  OBVIOUS
<1>3. ASSUME Remote!Holds(Append(s, x), f) PROVE Remote!Holds(s, f) \/ x = f
  <2>1. PICK i \in 1..(Len(s) + 1) : Append(s, x)[i] = f
    BY <1>1, <1>3 DEF Remote!Holds
  <2> QED
    BY <1>1, <1>2, <2>1 DEF Remote!Holds
<1>4. ASSUME Remote!Holds(s, f) PROVE Remote!Holds(Append(s, x), f)
  <2>1. PICK i \in 1..Len(s) : s[i] = f
    BY <1>4 DEF Remote!Holds
  <2>2. i \in 1..(Len(s) + 1) /\ Append(s, x)[i] = f
    BY <1>1, <1>2, <2>1
  <2> QED
    BY <1>1, <2>2 DEF Remote!Holds
<1>5. ASSUME x = f PROVE Remote!Holds(Append(s, x), f)
  <2>1. Len(s) + 1 \in 1..(Len(s) + 1) /\ Append(s, x)[Len(s) + 1] = f
    BY <1>1, <1>2, <1>5
  <2> QED
    BY <1>1, <2>1 DEF Remote!Holds
<1> QED
  BY <1>3, <1>4, <1>5

\* A frame that is queued is the first or in the rest.
LEMMA HoldsTail ==
  ASSUME NEW S, NEW s \in Seq(S), s # <<>>, NEW f
  PROVE  /\ Remote!Holds(s, f) => Head(s) = f \/ Remote!Holds(Tail(s), f)
         /\ Head(s) \in S /\ Tail(s) \in Seq(S)
<1>1. /\ Len(s) \in Nat /\ Len(s) > 0 /\ Head(s) = s[1]
      /\ Len(Tail(s)) = Len(s) - 1
      /\ \A i \in 1..(Len(s) - 1) : Tail(s)[i] = s[i + 1]
      /\ Head(s) \in S /\ Tail(s) \in Seq(S)
  OBVIOUS
<1>2. ASSUME Remote!Holds(s, f), Head(s) # f PROVE Remote!Holds(Tail(s), f)
  <2>1. PICK i \in 1..Len(s) : s[i] = f
    BY <1>2 DEF Remote!Holds
  <2>2. i # 1
    BY <1>1, <1>2, <2>1
  <2>3. i - 1 \in 1..(Len(s) - 1) /\ Tail(s)[i - 1] = f
    BY <1>1, <2>1, <2>2
  <2> QED
    BY <1>1, <2>3 DEF Remote!Holds
<1> QED
  BY <1>1, <1>2

\* Nothing is held by the empty sequence.
LEMMA HoldsNothing == \A f : ~Remote!Holds(<<>>, f)
BY DEF Remote!Holds

\* Every step of the remote session preserves KillInv.
LEMMA KillStep == KillInv /\ [Remote!Next]_remoteVars => KillInv'
<1> SUFFICES ASSUME KillInv, [Remote!Next]_remoteVars PROVE KillInv'
  OBVIOUS
<1>0. "kill" \in Remote!Control /\ "resize" \in Remote!Control /\ NoBuf \notin Remote!Control
  BY PathAssumption DEF PathAssumption, Remote!Control
<1>0a. NoBuf \notin Buf
  BY WriterAssumption DEF WriterAssumption
<1> USE DEF KillInv, KillNotLost, Remote!KillNotLost
<1>1. ASSUME NEW b \in Buf, Remote!Write(b) PROVE KillInv'
  BY <1>1 DEF Remote!Write, Remote!taskVars
<1>2. ASSUME NEW c \in Remote!Control, Remote!SendControl(c)
      PROVE  /\ controlQ' \in Seq(Remote!Control)
             /\ Remote!Holds(controlQ, "kill") => Remote!Holds(controlQ', "kill")
             /\ c = "kill" /\ task # "gone" => Remote!Holds(controlQ', "kill")
  BY <1>2, HoldsAppend DEF Remote!SendControl
<1>3. CASE Remote!Resize
  BY <1>0, <1>2, <1>3 DEF Remote!Resize, Remote!taskVars
<1>4. CASE Remote!KillQueue
  BY <1>0, <1>2, <1>4 DEF Remote!KillQueue, Remote!taskVars
<1>5. CASE Remote!KillCloseStdin
  BY <1>5 DEF Remote!KillCloseStdin, Remote!channels, Remote!taskVars
<1>6. CASE Remote!DropStdin \/ Remote!DropControl
  BY <1>6 DEF Remote!DropStdin, Remote!DropControl, Remote!channels, Remote!taskVars
<1>7. CASE Remote!RecvControl
  BY <1>0, <1>7, HoldsTail DEF Remote!RecvControl, Remote!callers
<1>8. CASE Remote!ControlClosed
  BY <1>8, HoldsNothing DEF Remote!ControlClosed, Remote!callers, Remote!channels
<1>9. CASE Remote!RecvBytes
  BY <1>0, <1>0a, <1>9, HoldsTail DEF Remote!RecvBytes, Remote!callers
<1>10. CASE Remote!PollControl \/ Remote!PollPending \/ Remote!BytesClosed
  BY <1>10 DEF Remote!PollControl, Remote!PollPending, Remote!BytesClosed, Remote!callers, Remote!channels
<1>11. CASE Remote!Drain
  <2>1. task = "draining" /\ UNCHANGED <<handle, stdin, killing, writeQ, wire, cut>>
    BY <1>11 DEF Remote!Drain, Remote!callers
  <2>2. CASE controlQ # <<>>
    <3>1. /\ frame' = Head(controlQ) /\ controlQ' = Tail(controlQ)
          /\ task' = "drainSending"
      BY <1>11, <2>2 DEF Remote!Drain
    <3> QED
      BY <1>0, <2>1, <2>2, <3>1, HoldsTail
  <2>3. CASE controlQ = <<>>
    <3>1. UNCHANGED <<frame, controlQ>> /\ task' = "gone"
      BY <1>11, <2>3 DEF Remote!Drain
    <3> QED
      BY <2>1, <2>3, <3>1, HoldsNothing
  <2> QED
    BY <2>2, <2>3
<1>12. CASE Remote!FrameSent
  BY <1>0, <1>12, HoldsAppend DEF Remote!FrameSent, Remote!callers, Remote!channels
<1>13. CASE Remote!FrameFails
  BY <1>13 DEF Remote!FrameFails, Remote!callers, Remote!channels
<1>14. CASE UNCHANGED remoteVars
  BY <1>14 DEF remoteVars
<1> QED
  BY <1>1, <1>3, <1>4, <1>5, <1>6, <1>7, <1>8, <1>9, <1>10, <1>11, <1>12, <1>13, <1>14
  DEF Remote!Next, Remote!CallerStep, Remote!TaskStep

-----------------------------------------------------------------------------
\* session.rs, remote_writer_task: a Kill that was queued reaches the wire, or
\* the socket broke, whatever closes around it and whatever the daemon does.
THEOREM KillNeverLost == PathSpec => []KillNotLost
<1>1. PathInit => KillInv
  <2> SUFFICES ASSUME PathInit PROVE KillInv
    OBVIOUS
  <2> QED
    BY DEF PathInit, Remote!Init, KillInv, KillNotLost, Remote!KillNotLost
<1>2. KillInv => KillNotLost
  BY DEF KillInv
<1> QED
  BY <1>1, <1>2, KillStep, StepsRemote, PTL DEF PathSpec

\* On the path as a whole the daemon's writer still implements the stdin
\* promise towards the control loop (pty_writer).
THEOREM WriterOnPath == PathSpec => ImplementsStdinQueue
BY PathHasWriter, WriterIsStdinQueue

-----------------------------------------------------------------------------
(* The types of the path.                                                  *)

\* What RemoteTypeOK says beyond KillInv.
RemoteTypes ==
  /\ handle \in {"held", "dropping", "dropped"}
  /\ stdin \in BOOLEAN /\ killing \in {"no", "queued", "done"}
  /\ typed \in Seq(Buf) /\ cut \in BOOLEAN /\ resizes \in Nat
  /\ task \in Remote!TaskPc

LEMMA RemoteTypeStep == RemoteTypes /\ [Remote!Next]_remoteVars => RemoteTypes'
<1> SUFFICES ASSUME RemoteTypes, [Remote!Next]_remoteVars PROVE RemoteTypes'
  OBVIOUS
<1> USE DEF RemoteTypes, Remote!TaskPc
<1>1. ASSUME NEW b \in Buf, Remote!Write(b) PROVE RemoteTypes'
  BY <1>1 DEF Remote!Write, Remote!taskVars
<1>2. CASE Remote!Resize
  BY <1>2 DEF Remote!Resize, Remote!taskVars
<1>3. CASE Remote!KillQueue \/ Remote!KillCloseStdin
  BY <1>3 DEF Remote!KillQueue, Remote!KillCloseStdin, Remote!channels, Remote!taskVars
<1>4. CASE Remote!DropStdin \/ Remote!DropControl
  BY <1>4 DEF Remote!DropStdin, Remote!DropControl, Remote!channels, Remote!taskVars
<1>5. CASE Remote!RecvControl \/ Remote!ControlClosed
  BY <1>5 DEF Remote!RecvControl, Remote!ControlClosed, Remote!callers, Remote!channels
<1>6. CASE Remote!PollControl \/ Remote!RecvBytes \/ Remote!PollPending \/ Remote!BytesClosed
  BY <1>6 DEF Remote!PollControl, Remote!RecvBytes, Remote!PollPending, Remote!BytesClosed, Remote!callers, Remote!channels
<1>7. CASE Remote!Drain
  BY <1>7 DEF Remote!Drain, Remote!callers
<1>8. CASE Remote!FrameSent
  BY <1>8 DEF Remote!FrameSent, Remote!callers, Remote!channels
<1>9. CASE Remote!FrameFails
  BY <1>9 DEF Remote!FrameFails, Remote!callers, Remote!channels
<1>10. CASE UNCHANGED remoteVars
  BY <1>10 DEF remoteVars
<1> QED
  BY <1>1, <1>2, <1>3, <1>4, <1>5, <1>6, <1>7, <1>8, <1>9, <1>10
  DEF Remote!Next, Remote!CallerStep, Remote!TaskStep

\* The frames on the wire only grow.
LEMMA WireGrows ==
  ASSUME KillInv, [Remote!Next]_remoteVars
  PROVE  \/ wire' = wire
         \/ wire' = Append(wire, frame) /\ frame \in Buf \cup Remote!Control /\ Remote!FrameSent
<1>1. ASSUME NEW b \in Buf, Remote!Write(b) PROVE wire' = wire
  BY <1>1 DEF Remote!Write, Remote!taskVars
<1>2. CASE Remote!Resize \/ Remote!KillQueue \/ Remote!KillCloseStdin
  BY <1>2 DEF Remote!Resize, Remote!KillQueue, Remote!KillCloseStdin, Remote!taskVars
<1>3. CASE Remote!DropStdin \/ Remote!DropControl
  BY <1>3 DEF Remote!DropStdin, Remote!DropControl, Remote!taskVars
<1>4. CASE Remote!RecvControl \/ Remote!ControlClosed \/ Remote!PollControl
           \/ Remote!RecvBytes \/ Remote!PollPending \/ Remote!BytesClosed
           \/ Remote!Drain \/ Remote!FrameFails
  BY <1>4 DEF Remote!RecvControl, Remote!ControlClosed, Remote!PollControl, Remote!RecvBytes,
              Remote!PollPending, Remote!BytesClosed, Remote!Drain, Remote!FrameFails
<1>5. CASE Remote!FrameSent
  BY <1>5 DEF Remote!FrameSent, KillInv
<1>6. CASE UNCHANGED remoteVars
  BY <1>6 DEF remoteVars
<1> QED
  BY <1>1, <1>2, <1>3, <1>4, <1>5, <1>6 DEF Remote!Next, Remote!CallerStep, Remote!TaskStep

\* The types of the control loop.
ConnTypes ==
  /\ conn \in {"reading", "holding", "closed"}
  /\ inhand \in Buf \cup {NoBuf} /\ (conn = "holding" <=> inhand # NoBuf)
  /\ taken \in 0..Len(wire)
  /\ hosted \in BOOLEAN /\ killed \in BOOLEAN

LEMMA ConnTypeStep == KillInv /\ ConnTypes /\ [PathNext]_pathVars => ConnTypes'
<1> SUFFICES ASSUME KillInv, ConnTypes, [PathNext]_pathVars PROVE ConnTypes'
  OBVIOUS
<1>0. Len(wire) \in Nat /\ NoBuf \notin Buf
  BY WriterAssumption DEF KillInv, WriterAssumption
<1>1. CASE ConnWriteFrame
  <2>1. /\ taken < Len(wire) /\ taken' = taken + 1 /\ wire' = wire /\ NextFrame \in Buf
        /\ conn = "reading" /\ UNCHANGED <<hosted, killed>>
    BY <1>1 DEF ConnWriteFrame, Unread, remoteVars
  <2>2. (conn' = "holding" /\ inhand' = NextFrame) \/ (conn' = "closed" /\ inhand' = inhand)
    BY <1>1 DEF ConnWriteFrame
  <2>3. taken' \in 0..Len(wire')
    BY <1>0, <2>1 DEF ConnTypes
  <2> QED
    BY <1>0, <2>1, <2>2, <2>3 DEF ConnTypes
<1>2. CASE ConnWriteStdin
  BY <1>0, <1>2 DEF ConnWriteStdin, ConnTypes, remoteVars
<1>3. CASE ConnResize \/ ConnKill
  <2>1. /\ taken < Len(wire) /\ taken' = taken + 1 /\ wire' = wire /\ inhand' = inhand
        /\ conn = "reading" /\ conn' \in {"reading", "closed"} /\ hosted' = hosted
        /\ killed' \in {killed, hosted, killed \/ hosted}
    BY <1>3 DEF ConnResize, ConnKill, Unread, remoteVars
  <2>2. taken' \in 0..Len(wire')
    BY <1>0, <2>1 DEF ConnTypes
  <2>3. killed' \in BOOLEAN
    BY <2>1 DEF ConnTypes
  <2> QED
    BY <2>1, <2>2, <2>3 DEF ConnTypes
<1>4. CASE ConnEof
  BY <1>4 DEF ConnEof, ConnTypes, remoteVars
<1>5. CASE SessionStep \/ DropLast
  BY <1>5 DEF SessionStep, DropLast, ConnTypes, connVars, remoteVars
<1>6. CASE Evict
  BY <1>6 DEF Evict, ConnTypes, connVars, remoteVars
<1>7. CASE ClientStep
  <2>1. [Remote!Next]_remoteVars /\ UNCHANGED <<conn, inhand, taken, hosted, killed>>
    BY <1>7 DEF ClientStep, Remote!Next, connVars
  <2>2. Len(wire') \in Nat /\ Len(wire) <= Len(wire')
    BY <1>0, <2>1, WireGrows DEF KillInv
  <2>3. taken' \in 0..Len(wire')
    BY <1>0, <2>1, <2>2 DEF ConnTypes
  <2> QED
    BY <2>1, <2>3 DEF ConnTypes
<1>8. CASE UNCHANGED pathVars
  BY <1>8 DEF pathVars, connVars, remoteVars, ConnTypes
<1> QED
  BY <1>1, <1>2, <1>3, <1>4, <1>5, <1>6, <1>7, <1>8 DEF PathNext, ConnStep

\* All that is known of a state of the path but the order of its buffers.
PathTypesInv == KillInv /\ RemoteTypes /\ ConnTypes /\ HandInv

LEMMA PathTypesInductive == PathSpec => []PathTypesInv
<1>1. PathInit => PathTypesInv
  <2> SUFFICES ASSUME PathInit PROVE PathTypesInv
    OBVIOUS
  <2>1. KillInv
    BY DEF PathInit, Remote!Init, KillInv, KillNotLost, Remote!KillNotLost
  <2>2. RemoteTypes
    <3>1. /\ handle = "held" /\ stdin = TRUE /\ killing = "no" /\ cut = FALSE
          /\ resizes = 0 /\ task = "select" /\ typed = <<>>
      BY DEF PathInit, Remote!Init
    <3>2. typed \in Seq(Buf)
      BY <3>1
    <3> QED
      BY <3>1, <3>2 DEF RemoteTypes, Remote!TaskPc
  <2>3. ConnTypes /\ HandInv
    <3>1. /\ conn = "reading" /\ inhand = NoBuf /\ taken = 0 /\ hosted = TRUE
          /\ killed = FALSE /\ wire = <<>>
      BY DEF PathInit, Remote!Init
    <3>2. taken \in 0..Len(wire)
      BY <3>1
    <3> QED
      BY <3>1, <3>2 DEF ConnTypes, HandInv
  <2> QED
    BY <2>1, <2>2, <2>3 DEF PathTypesInv
<1>2. PathTypesInv /\ [PathNext]_pathVars => PathTypesInv'
  BY KillStep, StepsRemote, RemoteTypeStep, ConnTypeStep, HandStep DEF PathTypesInv
<1> QED
  BY <1>1, <1>2, PTL DEF PathSpec

\* Every state of the path is well typed: what the channels, the wire and the
\* writer's queue carry, and where the tasks are.
THEOREM PathTypes == PathSpec => []PathTypeOK
<1>1. TypeOK /\ PathTypesInv => PathTypeOK
  BY DEF PathTypesInv, PathTypeOK, KillInv, RemoteTypes, ConnTypes, Remote!RemoteTypeOK
<1>2. PathSpec => []TypeOK
  BY PathHasWriter, TypeCorrect
<1> QED
  BY <1>1, <1>2, PathTypesInductive, PTL

-----------------------------------------------------------------------------
(* The Kill is obeyed.                                                     *)

\* The control loop ends only when there is no session or nothing more to
\* read, and a Kill it has read has found the session, if there was one.
ObeyInv ==
  /\ conn = "closed" => ~hosted \/ (taken = Len(wire) /\ task = "gone")
  /\ \A i \in 1..taken : wire[i] = "kill" => killed \/ ~hosted

\* What was read off the wire stays where it is, also when frames are added.
LEMMA ObeyStep == PathTypesInv /\ ObeyInv /\ [PathNext]_pathVars => ObeyInv'
<1> SUFFICES ASSUME PathTypesInv, ObeyInv, [PathNext]_pathVars PROVE ObeyInv'
  OBVIOUS
<1>0. /\ taken \in 0..Len(wire) /\ Len(wire) \in Nat
      /\ wire \in Seq(Buf \cup Remote!Control)
      /\ "kill" \notin Buf
  BY PathAssumption DEF PathAssumption, PathTypesInv, ConnTypes, KillInv
<1>1. CASE ConnWriteFrame \/ ConnResize
  <2>1. /\ taken < Len(wire) /\ taken' = taken + 1 /\ wire[taken + 1] # "kill"
        /\ UNCHANGED <<wire, task, hosted, killed>>
        /\ conn' = "closed" => ~hosted
    BY <1>0, <1>1 DEF ConnWriteFrame, ConnResize, Unread, NextFrame, remoteVars
  <2> QED
    BY <1>0, <2>1 DEF ObeyInv
<1>2. CASE ConnKill
  <2>1. /\ taken' = taken + 1 /\ conn' # "closed" /\ killed' = (killed \/ hosted)
        /\ UNCHANGED <<wire, task, hosted>>
    BY <1>2 DEF ConnKill, Unread, remoteVars
  <2> QED
    BY <2>1 DEF ObeyInv
<1>3. CASE ConnWriteStdin \/ ConnEof
  <2>1. /\ UNCHANGED <<wire, task, taken, hosted, killed>>
        /\ conn' = "closed" => taken = Len(wire) /\ task = "gone"
    BY <1>3 DEF ConnWriteStdin, ConnEof, remoteVars
  <2> QED
    BY <2>1 DEF ObeyInv
<1>4. CASE SessionStep \/ Evict \/ DropLast
  <2>1. UNCHANGED <<wire, task, taken, conn, killed>> /\ (hosted' => hosted)
    BY <1>4 DEF SessionStep, Evict, DropLast, remoteVars, connVars
  <2> QED
    BY <2>1 DEF ObeyInv
<1>5. CASE ClientStep
  <2>1. UNCHANGED <<conn, taken, hosted, killed>> /\ [Remote!Next]_remoteVars
    BY <1>5 DEF ClientStep, connVars, Remote!Next
  <2>2. task = "gone" => task' = "gone" /\ wire' = wire
    BY <2>1 DEF Remote!Next, Remote!CallerStep, Remote!TaskStep, Remote!Write, Remote!Resize,
                Remote!KillQueue, Remote!KillCloseStdin, Remote!DropStdin, Remote!DropControl,
                Remote!RecvControl, Remote!ControlClosed, Remote!PollControl, Remote!RecvBytes,
                Remote!PollPending, Remote!BytesClosed,
                Remote!Drain, Remote!FrameSent, Remote!FrameFails, Remote!taskVars, remoteVars
  <2>3. \A i \in 1..taken : wire'[i] = wire[i]
    <3>1. CASE wire' = wire
      BY <3>1
    <3>2. CASE wire' = Append(wire, frame) /\ frame \in Buf \cup Remote!Control
      <4>1. \A i \in 1..Len(wire) : Append(wire, frame)[i] = wire[i]
        BY <1>0, <3>2
      <4> QED
        BY <1>0, <3>2, <4>1
    <3> QED
      BY <2>1, <3>1, <3>2, WireGrows DEF PathTypesInv
  <2> QED
    BY <2>1, <2>2, <2>3 DEF ObeyInv
<1>6. CASE UNCHANGED pathVars
  BY <1>6 DEF pathVars, connVars, remoteVars, ObeyInv
<1> QED
  BY <1>1, <1>2, <1>3, <1>4, <1>5, <1>6 DEF PathNext, ConnStep

\* When both ends of the connection are done with it, a kill that the pane
\* asked for has been obeyed, unless the socket broke.
KillObeyed ==
  killing # "no" /\ task = "gone" /\ conn = "closed" => killed \/ ~hosted \/ cut

\* The safety half of KillArrives: neither the drop of the handle right after
\* a kill, nor what is queued before it, nor an earlier end of the loop makes
\* the daemon miss it.
THEOREM KillIsObeyed == PathSpec => []KillObeyed
<1>1. PathInit => ObeyInv
  BY DEF PathInit, ObeyInv
<1>2. PathTypesInv /\ ObeyInv => KillObeyed
  <2> SUFFICES ASSUME PathTypesInv, ObeyInv, killing # "no", task = "gone", conn = "closed",
                      hosted, ~cut
               PROVE  killed
    BY DEF KillObeyed
  <2>1. frame = NoBuf /\ "kill" # NoBuf
    BY PathAssumption DEF PathAssumption, PathTypesInv, KillInv
  <2>2. Remote!Holds(wire, "kill")
    BY <2>1 DEF PathTypesInv, KillInv, KillNotLost, Remote!KillNotLost
  <2>3. PICK i \in 1..Len(wire) : wire[i] = "kill"
    BY <2>2 DEF Remote!Holds
  <2> QED
    BY <2>3 DEF ObeyInv
<1> QED
  BY <1>1, <1>2, PathTypesInductive, ObeyStep, PTL DEF PathSpec

-----------------------------------------------------------------------------
(* The order of what is typed.                                             *)

Carried == IF frame \in Buf THEN 1 ELSE 0
Held == IF conn = "holding" THEN 1 ELSE 0

\* g numbers what is typed along the wire: among the first i frames are the
\* first g[i] buffers typed, in order; while the task lives, the next is in
\* its hands and the rest in the channel.
Sent(g) ==
  /\ g \in [0..Len(wire) -> 0..Len(typed)] /\ g[0] = 0
  /\ \A i \in 1..Len(wire) :
       IF wire[i] \in Buf THEN g[i] = g[i - 1] + 1 /\ wire[i] = typed[g[i]]
       ELSE g[i] = g[i - 1]
  /\ task # "gone" =>
       /\ g[Len(wire)] + Carried + Len(writeQ) = Len(typed)
       /\ frame \in Buf => frame = typed[g[Len(wire)] + 1]
       /\ \A i \in 1..Len(writeQ) : writeQ[i] = typed[g[Len(wire)] + Carried + i]

\* While the writer accepts what it is given, the control loop has passed on
\* all it has read but the buffer it holds.
Received(g) ==
  conn # "closed" /\ ~failure /\ ~closed =>
    /\ g[taken] = Len(accepted) + Held
    /\ conn = "holding" => inhand = typed[g[taken]]

\* The writer has accepted the first of what was typed.
AcceptedInv ==
  Len(accepted) <= Len(typed) /\ \A i \in 1..Len(accepted) : accepted[i] = typed[i]

OrderInv == AcceptedInv /\ \E g : Sent(g) /\ Received(g)

\* What the proofs of this part use of the types.
OrderTypes ==
  /\ writeQ \in Seq(Buf) /\ typed \in Seq(Buf) /\ wire \in Seq(Buf \cup Remote!Control)
  /\ frame \in Buf \cup Remote!Control \cup {NoBuf}
  /\ task \in {"sending", "drainSending"} <=> frame # NoBuf
  /\ controlQ \in Seq(Remote!Control)

LEMMA NamesApart == Remote!Control \cap Buf = {} /\ NoBuf \notin Buf
BY PathAssumption, WriterAssumption DEF PathAssumption, WriterAssumption, Remote!Control

\* What was typed stays what it was.
LEMMA TypedGrows ==
  ASSUME OrderTypes, [Remote!Next]_remoteVars
  PROVE  /\ typed' \in Seq(Buf) /\ Len(typed) <= Len(typed')
         /\ \A i \in 1..Len(typed) : typed'[i] = typed[i]
<1>1. ASSUME NEW b \in Buf, typed' = Append(typed, b)
      PROVE  /\ typed' \in Seq(Buf) /\ Len(typed) <= Len(typed')
             /\ \A i \in 1..Len(typed) : typed'[i] = typed[i]
  BY <1>1 DEF OrderTypes
<1>2. (\E b \in Buf : typed' = Append(typed, b)) \/ typed' = typed
  BY DEF Remote!Next, Remote!CallerStep, Remote!TaskStep, Remote!Write, Remote!Resize,
         Remote!KillQueue, Remote!KillCloseStdin, Remote!DropStdin, Remote!DropControl,
         Remote!RecvControl, Remote!ControlClosed, Remote!PollControl, Remote!RecvBytes,
         Remote!PollPending, Remote!BytesClosed,
         Remote!Drain, Remote!FrameSent, Remote!FrameFails, Remote!callers, remoteVars
<1> QED
  BY <1>1, <1>2 DEF OrderTypes

\* The numbering of the next state: that of this one, and the new frame's.
Renumber(g, h) == \A i \in 0..Len(wire) : h[i] = g[i]

\* A step that writes no frame keeps the numbering.
LEMMA SentKeeps ==
  ASSUME OrderTypes, NEW g, Sent(g), wire' = wire,
         typed' \in Seq(Buf), Len(typed) <= Len(typed'),
         \A i \in 1..Len(typed) : typed'[i] = typed[i],
         task' # "gone" =>
           /\ g[Len(wire)] + Carried' + Len(writeQ') = Len(typed')
           /\ frame' \in Buf => frame' = typed'[g[Len(wire)] + 1]
           /\ \A i \in 1..Len(writeQ') : writeQ'[i] = typed'[g[Len(wire)] + Carried' + i]
  PROVE  Sent(g)'
<1>1. g \in [0..Len(wire') -> 0..Len(typed')]
  BY DEF Sent, OrderTypes
<1>2. ASSUME NEW i \in 1..Len(wire'), wire[i] \in Buf
      PROVE  g[i] = g[i - 1] + 1 /\ wire[i] = typed'[g[i]]
  <2>1. g[i] = g[i - 1] + 1 /\ wire[i] = typed[g[i]]
    BY <1>2 DEF Sent
  <2>2. i \in 0..Len(wire) /\ i - 1 \in 0..Len(wire) /\ Len(typed) \in Nat
    BY DEF OrderTypes
  <2>3. g[i] \in 0..Len(typed) /\ g[i - 1] \in 0..Len(typed)
    BY <2>2 DEF Sent
  <2>4. g[i] \in 1..Len(typed)
    BY <2>1, <2>2, <2>3
  <2> QED
    BY <2>1, <2>4
<1>3. ASSUME NEW i \in 1..Len(wire'), wire[i] \notin Buf PROVE g[i] = g[i - 1]
  BY <1>3 DEF Sent
<1> QED
  BY <1>1, <1>2, <1>3 DEF Sent

\* Every step of the remote session numbers on.
LEMMA SentStep ==
  ASSUME OrderTypes, NEW g, Sent(g), [Remote!Next]_remoteVars
  PROVE  \E h : Sent(h)' /\ Renumber(g, h)
<1> DEFINE n == g[Len(wire)]
           Rest == task' # "gone" =>
                     /\ n + Carried' + Len(writeQ') = Len(typed')
                     /\ frame' \in Buf => frame' = typed'[n + 1]
                     /\ \A i \in 1..Len(writeQ') : writeQ'[i] = typed'[n + Carried' + i]
<1>0. /\ Len(wire) \in Nat /\ Len(typed) \in Nat /\ Len(writeQ) \in Nat
      /\ n \in 0..Len(typed) /\ n \in Nat
  <2>1. Len(wire) \in Nat /\ Len(typed) \in Nat /\ Len(writeQ) \in Nat
    BY DEF OrderTypes
  <2>2. Len(wire) \in 0..Len(wire)
    BY <2>1
  <2>3. n \in 0..Len(typed)
    BY <2>2 DEF Sent
  <2> QED
    BY <2>1, <2>3
<1>1. /\ typed' \in Seq(Buf) /\ Len(typed) <= Len(typed')
      /\ \A i \in 1..Len(typed) : typed'[i] = typed[i]
  BY TypedGrows
<1>2. ASSUME wire' = wire, Rest PROVE Sent(g)' /\ Renumber(g, g)
  BY <1>1, <1>2, SentKeeps DEF Renumber
<1>3. task # "gone" =>
        /\ n + Carried + Len(writeQ) = Len(typed)
        /\ frame \in Buf => frame = typed[n + 1]
        /\ \A i \in 1..Len(writeQ) : writeQ[i] = typed[n + Carried + i]
  BY DEF Sent
<1> HIDE DEF n
<1>4. ASSUME NEW b \in Buf, Remote!Write(b) PROVE wire' = wire /\ Rest
  <2>1. /\ task # "gone" /\ writeQ' = Append(writeQ, b) /\ typed' = Append(typed, b)
        /\ wire' = wire /\ frame' = frame /\ task' = task
    BY <1>4 DEF Remote!Write, Remote!taskVars
  <2>2. /\ Len(writeQ') = Len(writeQ) + 1 /\ Len(typed') = Len(typed) + 1
        /\ typed'[Len(typed) + 1] = b /\ writeQ'[Len(writeQ) + 1] = b
        /\ \A i \in 1..Len(writeQ) : writeQ'[i] = writeQ[i]
    BY <2>1 DEF OrderTypes
  <2>3. Carried' = Carried /\ Carried \in {0, 1}
    BY <2>1 DEF Carried
  <2>4. n + Carried + Len(writeQ) = Len(typed)
    BY <1>3, <2>1
  <2>5. frame' \in Buf => frame' = typed'[n + 1]
    <3>1. SUFFICES ASSUME frame \in Buf PROVE frame = typed'[n + 1]
      BY <2>1
    <3>2. Carried = 1
      BY <3>1 DEF Carried
    <3>3. n + 1 \in 1..Len(typed)
      BY <1>0, <2>4, <3>2
    <3> QED
      BY <1>1, <1>3, <2>1, <3>1, <3>3
  <2>6. ASSUME NEW i \in 1..Len(writeQ') PROVE writeQ'[i] = typed'[n + Carried' + i]
    <3>1. CASE i = Len(writeQ) + 1
      <4>1. n + Carried + i = Len(typed) + 1
        BY <1>0, <2>3, <2>4, <3>1
      <4> QED
        BY <2>2, <2>3, <3>1, <4>1
    <3>2. CASE i \in 1..Len(writeQ)
      <4>1. n + Carried + i \in 1..Len(typed)
        BY <1>0, <2>3, <2>4, <3>2
      <4> QED
        BY <1>1, <1>3, <2>1, <2>2, <2>3, <3>2, <4>1
    <3> QED
      BY <1>0, <2>2, <3>1, <3>2
  <2>7. n + Carried' + Len(writeQ') = Len(typed')
    BY <1>0, <2>2, <2>3, <2>4
  <2> QED
    BY <2>1, <2>5, <2>6, <2>7
<1>5. ASSUME Remote!Resize \/ Remote!KillQueue \/ Remote!KillCloseStdin
             \/ Remote!DropStdin \/ Remote!DropControl \/ UNCHANGED remoteVars
      PROVE  wire' = wire /\ Rest
  <2>1. UNCHANGED <<wire, typed, writeQ, frame, task>>
    BY <1>5 DEF Remote!Resize, Remote!KillQueue, Remote!KillCloseStdin, Remote!DropStdin,
                Remote!DropControl, Remote!taskVars, Remote!channels, remoteVars
  <2> QED
    BY <1>3, <2>1 DEF Carried
<1>6. ASSUME Remote!RecvControl \/ Remote!Drain
      PROVE  wire' = wire /\ Rest
  <2>1. /\ UNCHANGED <<wire, typed, writeQ>> /\ task \notin {"gone", "sending", "drainSending"}
        /\ \/ task' = "gone"
           \/ controlQ # <<>> /\ frame' = Head(controlQ)
    BY <1>6 DEF Remote!RecvControl, Remote!Drain, Remote!callers
  <2>2. frame = NoBuf /\ Carried = 0
    BY <2>1, NamesApart DEF OrderTypes, Carried
  <2>3. controlQ # <<>> => Head(controlQ) \in Remote!Control
    BY DEF OrderTypes
  <2>4. task' # "gone" => frame' \notin Buf /\ Carried' = 0
    BY <2>1, <2>3, NamesApart DEF Carried
  <2> QED
    BY <1>3, <2>1, <2>2, <2>4
<1>7. ASSUME Remote!RecvBytes
      PROVE  wire' = wire /\ Rest
  <2>1. /\ UNCHANGED <<wire, typed>> /\ task = "polled" /\ writeQ # <<>>
        /\ frame' = Head(writeQ) /\ writeQ' = Tail(writeQ)
    BY <1>7 DEF Remote!RecvBytes, Remote!callers
  <2>2. frame = NoBuf /\ Carried = 0
    BY <2>1, NamesApart DEF OrderTypes, Carried
  <2>3. /\ Head(writeQ) \in Buf /\ Head(writeQ) = writeQ[1] /\ Len(writeQ) > 0
        /\ Len(writeQ') = Len(writeQ) - 1
        /\ \A i \in 1..Len(writeQ') : writeQ'[i] = writeQ[i + 1]
    BY <2>1, TakeFirst DEF OrderTypes
  <2>4. Carried' = 1 /\ frame' = typed[n + 1]
    BY <1>0, <1>3, <2>1, <2>2, <2>3 DEF Carried
  <2>5. ASSUME NEW i \in 1..Len(writeQ') PROVE writeQ'[i] = typed[n + 1 + i]
    <3>1. i + 1 \in 1..Len(writeQ) /\ n + 0 + (i + 1) = n + 1 + i
      BY <1>0, <2>3
    <3> QED
      BY <1>3, <2>1, <2>2, <2>3, <3>1
  <2>6. n + Carried' + Len(writeQ') = Len(typed)
    BY <1>0, <1>3, <2>1, <2>2, <2>3, <2>4
  <2> QED
    BY <2>1, <2>4, <2>5, <2>6
<1>8. ASSUME Remote!PollControl \/ Remote!PollPending \/ Remote!BytesClosed
      PROVE  wire' = wire /\ Rest
  BY <1>3, <1>8 DEF Remote!PollControl, Remote!PollPending, Remote!BytesClosed, Remote!callers, Remote!channels, Carried
<1>9. ASSUME Remote!ControlClosed \/ Remote!FrameFails
      PROVE  wire' = wire /\ Rest
  BY <1>9 DEF Remote!ControlClosed, Remote!FrameFails
<1>10. CASE Remote!FrameSent
  <2>1. /\ task # "gone" /\ wire' = Append(wire, frame) /\ frame' = NoBuf
        /\ frame # NoBuf /\ UNCHANGED <<typed, writeQ>>
    BY <1>10, NamesApart DEF Remote!FrameSent, Remote!callers, Remote!channels, OrderTypes
  <2>2. /\ Len(wire') = Len(wire) + 1 /\ wire'[Len(wire) + 1] = frame
        /\ \A i \in 1..Len(wire) : wire'[i] = wire[i]
    BY <2>1 DEF OrderTypes
  <2>3. Carried' = 0 /\ Carried \in {0, 1}
    BY <2>1, NamesApart DEF Carried
  <2>4. n + Carried + Len(writeQ) = Len(typed)
    BY <1>3, <2>1
  <2>h. PICK h : h = [i \in 0..(Len(wire) + 1) |-> IF i <= Len(wire) THEN g[i] ELSE n + Carried]
    OBVIOUS
  <2>5. h \in [0..Len(wire') -> 0..Len(typed')]
    <3>1. ASSUME NEW i \in 0..(Len(wire) + 1)
          PROVE  (IF i <= Len(wire) THEN g[i] ELSE n + Carried) \in 0..Len(typed)
      <4>1. CASE i <= Len(wire)
        <5>1. i \in 0..Len(wire)
          BY <1>0, <4>1
        <5> QED
          BY <4>1, <5>1 DEF Sent
      <4>2. CASE ~(i <= Len(wire))
        BY <1>0, <2>3, <2>4, <4>2
      <4> QED
        BY <4>1, <4>2
    <3> QED
      BY <2>h, <2>1, <2>2, <3>1
  <2>6. /\ \A i \in 0..Len(wire) : h[i] = g[i]
        /\ h[Len(wire) + 1] = n + Carried
    BY <1>0, <2>h
  <2>7. h[0] = 0
    BY <1>0, <2>6 DEF Sent
  <2>8. ASSUME NEW i \in 1..Len(wire')
        PROVE  IF wire'[i] \in Buf THEN h[i] = h[i - 1] + 1 /\ wire'[i] = typed'[h[i]]
               ELSE h[i] = h[i - 1]
    <3>1. CASE i \in 1..Len(wire)
      <4>1. i \in 0..Len(wire) /\ i - 1 \in 0..Len(wire)
        BY <1>0, <3>1
      <4>2. h[i] = g[i] /\ h[i - 1] = g[i - 1] /\ wire'[i] = wire[i] /\ typed' = typed
        BY <2>1, <2>2, <2>6, <3>1, <4>1
      <4> QED
        BY <3>1, <4>2 DEF Sent
    <3>2. CASE i = Len(wire) + 1
      <4>1. i - 1 = Len(wire) /\ Len(wire) \in 0..Len(wire)
        BY <1>0, <3>2
      <4>2. h[i] = n + Carried /\ h[i - 1] = n /\ wire'[i] = frame /\ typed' = typed
        BY <2>1, <2>2, <2>6, <3>2, <4>1 DEF n
      <4>3. CASE frame \in Buf
        BY <1>3, <2>1, <4>2, <4>3 DEF Carried
      <4>4. CASE frame \notin Buf
        BY <1>0, <4>2, <4>4 DEF Carried
      <4> QED
        BY <4>3, <4>4
    <3> QED
      BY <1>0, <2>2, <3>1, <3>2
  <2>9. /\ h[Len(wire')] = n + Carried
        /\ h[Len(wire')] + Carried' + Len(writeQ') = Len(typed')
        /\ frame' \notin Buf
        /\ \A i \in 1..Len(writeQ') : writeQ'[i] = typed'[h[Len(wire')] + Carried' + i]
    <3>1. h[Len(wire')] = n + Carried
      BY <2>2, <2>6
    <3>2. (n + Carried) + 0 = n + Carried
      BY <1>0, <2>3
    <3>3. \A i \in 1..Len(writeQ) : writeQ[i] = typed[n + Carried + i]
      BY <1>3, <2>1
    <3>4. frame' \notin Buf
      BY <2>1, NamesApart
    <3> QED
      BY <2>1, <2>3, <2>4, <3>1, <3>2, <3>3, <3>4
  <2>10. Sent(h)'
    BY <2>5, <2>7, <2>8, <2>9 DEF Sent
  <2> QED
    BY <2>6, <2>10 DEF Renumber
<1> QED
  BY <1>2, <1>4, <1>5, <1>6, <1>7, <1>8, <1>9, <1>10
  DEF Remote!Next, Remote!CallerStep, Remote!TaskStep

\* A queue that is closed or has failed stays so.
LEMMA FlagsStay == [Next]_vars => (closed => closed') /\ (failure => failure')
BY DEF Next, CallerStep, WorkerStep, Write, WriteNotify, DropWriter, DropNotify, Take,
       RawWritten, RawFailed, RecordFailure, Flush, End, vars, stateVars

\* What the writer has accepted changes only by a write of the control loop.
LEMMA OnlyWritesAccept ==
  HandInv /\ [PathNext]_pathVars => ConnWriteStdin \/ accepted' = accepted
<1> SUFFICES ASSUME HandInv, [PathNext]_pathVars, ~ConnWriteStdin PROVE accepted' = accepted
  OBVIOUS
<1>1. CASE ConnWriteFrame \/ ConnResize \/ ConnKill \/ ConnEof \/ Evict \/ ClientStep
  BY <1>1 DEF ConnWriteFrame, ConnResize, ConnKill, ConnEof, Evict, ClientStep, vars
<1>2. CASE SessionStep \/ DropLast
  BY <1>2 DEF SessionStep, DropLast, WorkerStep, WriteNotify, DropNotify, DropWriter, Take,
              RawWritten, RawFailed, RecordFailure, Flush, End
<1>3. CASE UNCHANGED pathVars
  BY <1>3 DEF pathVars, vars
<1> QED
  BY <1>1, <1>2, <1>3 DEF PathNext, ConnStep

\* Every step of the path passes on, in order, what was read.
LEMMA ReceivedStep ==
  ASSUME OrderTypes, ConnTypes, HandInv, accepted \in Seq(Buf), [PathNext]_pathVars,
         AcceptedInv, NEW g, NEW h, Sent(g), Received(g), Sent(h)', Renumber(g, h)
  PROVE  Received(h)' /\ AcceptedInv'
<1>1. /\ typed' \in Seq(Buf) /\ Len(typed) <= Len(typed')
      /\ \A i \in 1..Len(typed) : typed'[i] = typed[i]
  BY StepsRemote, TypedGrows
<1>2. /\ Len(wire) \in Nat /\ Len(typed) \in Nat /\ Len(accepted) \in Nat
      /\ Len(typed') \in Nat /\ taken \in 0..Len(wire) /\ taken \in Nat
  BY <1>1 DEF OrderTypes, ConnTypes
<1>3. h[taken] = g[taken] /\ g[taken] \in 0..Len(typed)
  BY <1>2 DEF Sent, Renumber
<1>4. (closed => closed') /\ (failure => failure')
  BY StepsWriter, FlagsStay
<1>5. ASSUME accepted' = accepted PROVE AcceptedInv'
  <2>1. \A i \in 1..Len(accepted) : i \in 1..Len(typed)
    BY <1>2 DEF AcceptedInv
  <2> QED
    BY <1>1, <1>2, <1>5, <2>1 DEF AcceptedInv
<1>6. ASSUME accepted' = accepted, UNCHANGED connVars PROVE Received(h)'
  <2>1. SUFFICES ASSUME conn # "closed", ~failure, ~closed
                 PROVE  /\ h[taken] = Len(accepted) + Held
                        /\ conn = "holding" => inhand = typed'[h[taken]]
    BY <1>4, <1>6 DEF Received, connVars, Held
  <2>2. g[taken] = Len(accepted) + Held /\ (conn = "holding" => inhand = typed[g[taken]])
    BY <2>1 DEF Received
  <2>3. ASSUME conn = "holding" PROVE g[taken] \in 1..Len(typed)
    BY <1>2, <1>3, <2>2, <2>3 DEF Held
  <2> QED
    BY <1>1, <1>3, <2>2, <2>3
<1>7. ASSUME conn = "reading", conn' = "reading", accepted' = accepted,
             h[taken'] = g[taken]
      PROVE  Received(h)'
  BY <1>4, <1>7 DEF Received, Held
<1>8. ASSUME taken < Len(wire)
      PROVE  /\ h[taken + 1] = g[taken + 1]
             /\ wire[taken + 1] \in Buf =>
                  g[taken + 1] = g[taken] + 1 /\ wire[taken + 1] = typed[g[taken + 1]]
             /\ wire[taken + 1] \notin Buf => g[taken + 1] = g[taken]
  <2>1. taken + 1 \in 1..Len(wire) /\ taken + 1 \in 0..Len(wire) /\ (taken + 1) - 1 = taken
    BY <1>2, <1>8
  <2> QED
    BY <2>1 DEF Sent, Renumber
<1>9. CASE ConnWriteFrame
  <2>1. /\ taken < Len(wire) /\ wire[taken + 1] \in Buf /\ conn = "reading"
        /\ taken' = taken + 1 /\ UNCHANGED <<typed, accepted, closed, failure>>
    BY <1>9 DEF ConnWriteFrame, Unread, NextFrame, vars, stateVars, remoteVars
  <2>2. (conn' = "holding" /\ inhand' = wire[taken + 1]) \/ conn' = "closed"
    BY <1>9 DEF ConnWriteFrame, NextFrame
  <2>3. SUFFICES ASSUME conn' = "holding", ~failure, ~closed
                 PROVE  h[taken + 1] = Len(accepted) + 1 /\ inhand' = typed[h[taken + 1]]
    BY <1>5, <2>1, <2>2 DEF Received, Held
  <2>4. g[taken] = Len(accepted)
    BY <1>2, <2>1, <2>3 DEF Received, Held
  <2> QED
    BY <1>8, <2>1, <2>2, <2>3, <2>4
<1>10. CASE ConnWriteStdin
  <2>1. /\ conn = "holding" /\ conn' = "reading" /\ taken' = taken /\ typed' = typed
        /\ Write(inhand) \/ (UNCHANGED <<accepted, closed, failure>> /\ (failure \/ closed))
    BY <1>10 DEF ConnWriteStdin, vars, stateVars, remoteVars
  <2>2. CASE UNCHANGED <<accepted, closed, failure>> /\ (failure \/ closed)
    BY <1>5, <2>2 DEF Received
  <2>3. CASE Write(inhand)
    <3>1. /\ accepted' = Append(accepted, inhand) /\ ~failure /\ ~closed
      BY <2>3 DEF Write
    <3>2. /\ Len(accepted') = Len(accepted) + 1 /\ accepted'[Len(accepted) + 1] = inhand
          /\ \A i \in 1..Len(accepted) : accepted'[i] = accepted[i]
      BY <2>1, <3>1 DEF HandInv
    <3>3. g[taken] = Len(accepted) + 1 /\ inhand = typed[g[taken]]
      BY <2>1, <3>1 DEF Received, Held
    <3>4. AcceptedInv'
      <4>1. Len(accepted) + 1 <= Len(typed)
        BY <1>2, <1>3, <3>3
      <4>2. ASSUME NEW i \in 1..Len(accepted') PROVE accepted'[i] = typed[i]
        <5>1. i \in 1..Len(accepted) \/ i = Len(accepted) + 1
          BY <1>2, <3>2
        <5> QED
          BY <3>2, <3>3, <5>1 DEF AcceptedInv
      <4> QED
        BY <2>1, <3>2, <4>1, <4>2 DEF AcceptedInv
    <3>5. Received(h)'
      BY <1>2, <1>3, <2>1, <3>2, <3>3 DEF Received, Held
    <3> QED
      BY <3>4, <3>5
  <2> QED
    BY <2>1, <2>2, <2>3
<1>11. CASE ConnResize \/ ConnKill
  <2>1. /\ taken < Len(wire) /\ wire[taken + 1] \notin Buf /\ conn = "reading"
        /\ taken' = taken + 1 /\ accepted' = accepted
        /\ conn' \in {"reading", "closed"}
    BY <1>11, NamesApart
    DEF ConnResize, ConnKill, Unread, NextFrame, vars, Remote!Control
  <2>2. CASE conn' = "closed"
    BY <1>5, <2>1, <2>2 DEF Received
  <2>3. CASE conn' = "reading"
    BY <1>5, <1>7, <1>8, <2>1, <2>3
  <2> QED
    BY <2>1, <2>2, <2>3
<1>12. CASE ConnEof
  BY <1>5, <1>12 DEF ConnEof, Received, vars
<1>13. CASE SessionStep \/ ClientStep \/ Evict \/ DropLast \/ UNCHANGED pathVars
  <2>1. UNCHANGED connVars
    BY <1>13 DEF SessionStep, ClientStep, Evict, DropLast, pathVars
  <2>2. CASE accepted' = accepted
    BY <1>5, <1>6, <2>1, <2>2
  <2>3. CASE ConnWriteStdin
    BY <1>10, <2>3
  <2> QED
    BY <2>2, <2>3, OnlyWritesAccept
<1> QED
  BY <1>9, <1>10, <1>11, <1>12, <1>13 DEF PathNext, ConnStep

\* The inductive invariant of the path.
PathInv == IInv /\ PathTypesInv /\ OrderInv

LEMMA PathOrders == PathSpec => []PathInv
<1>1. PathTypesInv => OrderTypes /\ KillInv /\ ConnTypes /\ HandInv
  BY DEF PathTypesInv, OrderTypes, KillInv, RemoteTypes
<1>2. PathInit => OrderInv
  <2> SUFFICES ASSUME PathInit PROVE OrderInv
    OBVIOUS
  <2>1. /\ wire = <<>> /\ typed = <<>> /\ writeQ = <<>> /\ frame = NoBuf
        /\ conn = "reading" /\ taken = 0 /\ accepted = <<>>
    BY DEF PathInit, Init, Remote!Init
  <2>2. Len(wire) = 0 /\ Len(typed) = 0 /\ Len(writeQ) = 0 /\ Len(accepted) = 0
    BY <2>1
  <2>3. PICK g : g = [i \in 0..0 |-> 0]
    OBVIOUS
  <2>4. g \in [0..0 -> 0..0] /\ g[0] = 0 /\ Carried = 0 /\ Held = 0
    BY <2>1, <2>3, NamesApart DEF Carried, Held
  <2>5. Sent(g)
    BY <2>2, <2>1, <2>4, NamesApart DEF Sent
  <2>6. Received(g)
    BY <2>1, <2>2, <2>4 DEF Received
  <2>7. AcceptedInv
    BY <2>2 DEF AcceptedInv
  <2> QED
    BY <2>5, <2>6, <2>7 DEF OrderInv
<1>3. IInv /\ PathTypesInv /\ OrderInv /\ [PathNext]_pathVars => OrderInv'
  <2> SUFFICES ASSUME IInv, PathTypesInv, OrderInv, [PathNext]_pathVars PROVE OrderInv'
    OBVIOUS
  <2>1. PICK g : Sent(g) /\ Received(g)
    BY DEF OrderInv
  <2>2. PICK h : Sent(h)' /\ Renumber(g, h)
    BY <1>1, <2>1, StepsRemote, SentStep
  <2>3. Received(h)' /\ AcceptedInv'
    BY <1>1, <2>1, <2>2, ReceivedStep DEF OrderInv, IInv, TypeOK
  <2> QED
    BY <2>2, <2>3 DEF OrderInv
<1> QED
  BY <1>2, <1>3, PathHasWriter, Inductive, PathTypesInductive, PTL DEF PathSpec, PathInv

\* What has happened to the ends of the path is final.
LEMMA EndsStay ==
  ASSUME PathInv, [PathNext]_pathVars
  PROVE  /\ ~stdin => ~stdin' /\ typed' = typed
         /\ task = "gone" => task' = "gone" /\ typed' = typed
         /\ worker \in {"flushing", "ending", "gone"} =>
              worker' \in {"flushing", "ending", "gone"} /\ raw' = raw
<1>1. [Remote!Next]_remoteVars /\ [Next]_vars
  BY StepsRemote, StepsWriter DEF PathInv, PathTypesInv
<1>2. ~stdin => ~stdin' /\ typed' = typed
  BY <1>1
  DEF Remote!Next, Remote!CallerStep, Remote!TaskStep, Remote!Write, Remote!Resize,
      Remote!KillQueue, Remote!KillCloseStdin, Remote!DropStdin, Remote!DropControl,
      Remote!RecvControl, Remote!ControlClosed, Remote!PollControl, Remote!RecvBytes,
      Remote!PollPending, Remote!BytesClosed,
      Remote!Drain, Remote!FrameSent, Remote!FrameFails, Remote!callers, remoteVars
<1>3. task = "gone" => task' = "gone" /\ typed' = typed
  BY <1>1
  DEF Remote!Next, Remote!CallerStep, Remote!TaskStep, Remote!Write, Remote!Resize,
      Remote!KillQueue, Remote!KillCloseStdin, Remote!DropStdin, Remote!DropControl,
      Remote!RecvControl, Remote!ControlClosed, Remote!PollControl, Remote!RecvBytes,
      Remote!PollPending, Remote!BytesClosed,
      Remote!Drain, Remote!FrameSent, Remote!FrameFails, Remote!taskVars, remoteVars
<1>4. worker \in {"flushing", "ending", "gone"} =>
        worker' \in {"flushing", "ending", "gone"} /\ raw' = raw
  BY <1>1
  DEF Next, CallerStep, WorkerStep, Write, WriteNotify, DropWriter, DropNotify, Take,
      RawWritten, RawFailed, RecordFailure, Flush, End, WakeWorker, vars, stateVars
<1> QED
  BY <1>2, <1>3, <1>4

\* A step that types nothing and delivers nothing can only close or break it.
LEMMA StateStep ==
  ASSUME PathInv, [PathNext]_pathVars, typed' = typed, raw' = raw
  PROVE  [Path!QNext]_(Path!qvars)
<1>1. /\ ~stdin => ~stdin'
      /\ task = "gone" => task' = "gone"
      /\ Over => Over'
  BY EndsStay DEF Over
<1>2. CASE Over' /\ Len(raw) < Len(typed)
  <2>1. CASE Over
    BY <1>1, <1>2, <2>1 DEF Path!qvars
  <2>2. CASE ~Over
    BY <1>2, <2>2 DEF Path!QNext, Path!Break, Path!Undelivered
  <2> QED
    BY <2>1, <2>2
<1>3. CASE ~(Over' /\ Len(raw) < Len(typed))
  <2>1. ~(Over /\ Len(raw) < Len(typed))
    BY <1>1, <1>3
  <2>2. CASE task = "gone" \/ ~stdin
    BY <1>1, <1>3, <2>1, <2>2 DEF Path!qvars
  <2>3. CASE ~(task = "gone" \/ ~stdin) /\ (task' = "gone" \/ ~stdin')
    BY <1>3, <2>1, <2>3 DEF Path!QNext, Path!Close
  <2>4. CASE ~(task = "gone" \/ ~stdin) /\ ~(task' = "gone" \/ ~stdin')
    BY <1>3, <2>1, <2>4 DEF Path!qvars
  <2> QED
    BY <2>2, <2>3, <2>4
<1> QED
  BY <1>2, <1>3

\* Every step of the path is a step of the abstract queue or invisible in it.
LEMMA PathSimulation == PathInv /\ [PathNext]_pathVars => [Path!QNext]_(Path!qvars)
<1> SUFFICES ASSUME PathInv, [PathNext]_pathVars PROVE [Path!QNext]_(Path!qvars)
  OBVIOUS
<1>1. CASE typed' = typed /\ raw' = raw
  BY <1>1, StateStep
<1>2. ASSUME NEW b \in Buf, Remote!Write(b), UNCHANGED vars PROVE Path!Accept(b)
  <2>1. /\ task # "gone" /\ stdin /\ Len(typed) < MaxAcc /\ typed' = Append(typed, b)
        /\ task' = task /\ stdin' = stdin /\ raw' = raw
    BY <1>2 DEF Remote!Write, Remote!taskVars, vars
  <2>2. ~Over /\ ~Over'
    BY <2>1 DEF Over
  <2> QED
    BY <2>1, <2>2 DEF Path!Accept
<1>3. ASSUME RawWritten, UNCHANGED remoteVars PROVE Path!Deliver
  <2>1. /\ worker = "writing" /\ worker' = "checking" /\ raw' = Append(raw, buf)
        /\ UNCHANGED <<typed, task, stdin>>
    BY <1>3 DEF RawWritten, remoteVars
  <2>2. /\ Len(accepted) = Len(raw) + 1 + Len(pending)
        /\ buf = accepted[Len(raw) + 1]
    BY <2>1 DEF PathInv, IInv, QueueInv, Taken
  <2>3. Len(raw) \in Nat /\ Len(pending) \in Nat /\ Len(accepted) \in Nat /\ Len(typed) \in Nat
    BY DEF PathInv, IInv, TypeOK, PathTypesInv, RemoteTypes
  <2>4. Len(raw) + 1 \in 1..Len(accepted) /\ Len(accepted) <= Len(typed)
    BY <2>2, <2>3 DEF PathInv, OrderInv, AcceptedInv
  <2>5. Len(raw) < Len(typed) /\ buf = typed[Len(raw) + 1]
    BY <2>2, <2>3, <2>4 DEF PathInv, OrderInv, AcceptedInv
  <2>6. ~Over /\ ~Over'
    BY <2>1 DEF Over
  <2> QED
    BY <2>1, <2>5, <2>6 DEF Path!Deliver, Path!Undelivered
<1>4. \/ typed' = typed /\ raw' = raw
      \/ \E b \in Buf : Remote!Write(b) /\ UNCHANGED vars
      \/ RawWritten /\ UNCHANGED remoteVars
  <2>1. CASE ConnStep \/ Evict
    <3>1. CASE ConnWriteStdin
      BY <3>1 DEF ConnWriteStdin, Write, vars, remoteVars
    <3>2. CASE ConnWriteFrame \/ ConnResize \/ ConnKill \/ ConnEof \/ Evict
      BY <3>2 DEF ConnWriteFrame, ConnResize, ConnKill, ConnEof, Evict, vars, remoteVars
    <3> QED
      BY <2>1, <3>1, <3>2 DEF ConnStep
  <2>2. CASE SessionStep
    BY <2>2 DEF SessionStep, WorkerStep, WriteNotify, DropNotify, Take, RawFailed,
                RecordFailure, Flush, End, remoteVars
  <2>3. CASE DropLast
    BY <2>3 DEF DropLast, DropWriter, remoteVars
  <2>4. CASE ClientStep
    <3>1. UNCHANGED vars /\ raw' = raw
      BY <2>4 DEF ClientStep, vars
    <3>2. typed' = typed \/ \E b \in Buf : Remote!Write(b)
      BY <2>4
      DEF ClientStep, Remote!CallerStep, Remote!TaskStep, Remote!Resize, Remote!KillQueue,
          Remote!KillCloseStdin, Remote!DropStdin, Remote!DropControl, Remote!RecvControl,
          Remote!ControlClosed, Remote!PollControl, Remote!RecvBytes, Remote!PollPending,
          Remote!BytesClosed, Remote!Drain,
          Remote!FrameSent, Remote!FrameFails, Remote!callers
    <3> QED
      BY <3>1, <3>2
  <2>5. CASE UNCHANGED pathVars
    BY <2>5 DEF pathVars, vars, remoteVars
  <2> QED
    BY <2>1, <2>2, <2>3, <2>4, <2>5 DEF PathNext
<1> QED
  BY <1>1, <1>2, <1>3, <1>4 DEF Path!QNext

\* The path implements the stdin promise: what the child reads is what was
\* typed, in order and without a gap, until the path broke, whatever overtakes
\* it (RemoteSession, serve_attached and PtyWriter together).
THEOREM TypedInOrder == PathSpec => TypedArrivesInOrder
<1>1. PathInit => Path!QInit
  <2> SUFFICES ASSUME PathInit PROVE Path!QInit
    OBVIOUS
  <2>1. typed = <<>> /\ raw = <<>> /\ task = "select" /\ stdin = TRUE
    BY DEF PathInit, Init, Remote!Init
  <2> QED
    BY <2>1 DEF Path!QInit, Over
<1> QED
  BY <1>1, PathOrders, PathSimulation, PTL DEF PathSpec, TypedArrivesInOrder, Path!QSpec
=============================================================================
