------------------------------- MODULE PtyWriter -------------------------------
(***************************************************************************)
(* PtyWriter (rimeterm-pty, pty_writer): the queue in front of a PTY's     *)
(* stdin and the worker thread that owns the raw writer.                   *)
(*                                                                         *)
(* Callers share the adapter through a mutex around it, held for the whole *)
(* of a write or of the drop, so there is one caller at a time and its     *)
(* steps interleave only with the worker's.  The state mutex is released   *)
(* before the condition variable is notified: setting and notifying are    *)
(* two steps.  The raw write may block, succeed or fail; a buffer that     *)
(* fails may have been written in part or whole; raw does not count it.    *)
(***************************************************************************)
EXTENDS Naturals, Sequences

CONSTANTS
  Buf,      \* the buffers callers write (not empty: an empty write is a no-op)
  NoBuf,    \* the worker holds no buffer
  MaxAcc    \* buffers accepted (bound)

ASSUME WriterAssumption == NoBuf \notin Buf /\ MaxAcc \in Nat

VARIABLES
  pending, closed, failure,  \* State, under its mutex; failure: is it Some
  caller,   \* "ready", "written" (pushed, not notified), "dropping", "gone"
  worker,   \* where worker_loop is
  buf,      \* the buffer it has taken
  raw,      \* buffers the raw writer has taken in whole
  accepted  \* history: buffers for which write returned Ok

stateVars == <<pending, closed, failure>>
vars == <<stateVars, caller, worker, buf, raw, accepted>>

WorkerPc == {"checking", "asleep", "writing", "failing", "flushing", "ending", "gone"}

Init ==
  /\ pending = <<>> /\ closed = FALSE /\ failure = FALSE
  /\ caller = "ready"
  /\ worker = "checking"
  /\ buf = NoBuf
  /\ raw = <<>>
  /\ accepted = <<>>

\* notify: a sleeping worker looks at the state again.
WakeWorker == worker' = IF worker = "asleep" THEN "checking" ELSE worker

-----------------------------------------------------------------------------
(* The caller.  A write that is refused changes nothing.                   *)

\* write: refused after a failure or a close, queued otherwise.
Write(b) ==
  /\ caller = "ready" /\ ~failure /\ ~closed
  /\ Len(accepted) < MaxAcc
  /\ pending' = Append(pending, b)
  /\ accepted' = Append(accepted, b)
  /\ caller' = "written"
  /\ UNCHANGED <<closed, failure, worker, buf, raw>>

\* (Definitions named X_slip are mistakes a change to X could introduce; no
\* action uses them.  They exist to see that the properties notice.)

WriteNotify ==
  /\ caller = "written"
  /\ WakeWorker
  /\ caller' = "ready"
  /\ UNCHANGED <<stateVars, buf, raw, accepted>>

\* drop: close the queue ...
DropWriter ==
  /\ caller = "ready"
  /\ closed' = TRUE
  /\ caller' = "dropping"
  /\ UNCHANGED <<pending, failure, worker, buf, raw, accepted>>

\* Slip: nobody tells the worker.
DropNotify_silent ==
  /\ caller = "dropping"
  /\ caller' = "gone"
  /\ UNCHANGED <<stateVars, worker, buf, raw, accepted>>

\* ... and notify_all.
DropNotify ==
  /\ caller = "dropping"
  /\ WakeWorker
  /\ caller' = "gone"
  /\ UNCHANGED <<stateVars, buf, raw, accepted>>

-----------------------------------------------------------------------------
(* The worker.                                                             *)

\* Slip: a close is honoured before what is queued.
Take_closeFirst ==
  /\ worker = "checking"
  /\ \/ /\ ~closed /\ pending # <<>>
        /\ buf' = Head(pending) /\ pending' = Tail(pending)
        /\ worker' = "writing"
     \/ /\ closed \/ pending = <<>>
        /\ worker' = IF closed THEN "flushing" ELSE "asleep"
        /\ UNCHANGED <<buf, pending>>
  /\ UNCHANGED <<closed, failure, caller, raw, accepted>>

\* With the state mutex: take the oldest buffer, or end, or wait.
Take ==
  /\ worker = "checking"
  /\ \/ /\ pending # <<>>
        /\ buf' = Head(pending) /\ pending' = Tail(pending)
        /\ worker' = "writing"
     \/ /\ pending = <<>>
        /\ worker' = IF closed THEN "flushing" ELSE "asleep"
        /\ UNCHANGED <<buf, pending>>
  /\ UNCHANGED <<closed, failure, caller, raw, accepted>>

\* Slip: the buffer is kept after it was written.
RawWritten_keepsBuf ==
  /\ worker = "writing"
  /\ raw' = Append(raw, buf)
  /\ worker' = "checking"
  /\ UNCHANGED <<stateVars, caller, buf, accepted>>

\* write_all and flush return Ok.
RawWritten ==
  /\ worker = "writing"
  /\ raw' = Append(raw, buf)
  /\ buf' = NoBuf
  /\ worker' = "checking"
  /\ UNCHANGED <<stateVars, caller, accepted>>

\* Slip: the error is passed over and the worker goes on.
RawFailed_goesOn ==
  /\ worker = "writing"
  /\ buf' = NoBuf
  /\ worker' = "checking"
  /\ UNCHANGED <<stateVars, caller, raw, accepted>>

\* write_all or flush returns an error; the state mutex is not held yet.
RawFailed ==
  /\ worker = "writing"
  /\ buf' = NoBuf
  /\ worker' = "failing"
  /\ UNCHANGED <<stateVars, caller, raw, accepted>>

\* The failure is recorded and what is queued is discarded.
RecordFailure ==
  /\ worker = "failing"
  /\ failure' = TRUE
  /\ pending' = <<>>
  /\ closed' = TRUE
  /\ worker' = "ending"
  /\ UNCHANGED <<caller, buf, raw, accepted>>

\* The last flush, its result ignored.
Flush ==
  /\ worker = "flushing"
  /\ worker' = "ending"
  /\ UNCHANGED <<stateVars, caller, buf, raw, accepted>>

\* The worker marks the queue closed and returns, releasing the raw writer.
End ==
  /\ worker = "ending"
  /\ closed' = TRUE
  /\ worker' = "gone"
  /\ UNCHANGED <<pending, failure, caller, buf, raw, accepted>>

-----------------------------------------------------------------------------
CallerStep == (\E b \in Buf : Write(b)) \/ WriteNotify \/ DropWriter \/ DropNotify
WorkerStep == Take \/ RawWritten \/ RawFailed \/ RecordFailure \/ Flush \/ End

Next == CallerStep \/ WorkerStep

\* The caller completes what it began; the worker runs, and the raw write
\* returns in the end, with success or an error.
Fairness == WF_vars(WriteNotify \/ DropNotify) /\ WF_vars(WorkerStep)

Spec == Init /\ [][Next]_vars
FairSpec == Spec /\ Fairness

-----------------------------------------------------------------------------
(* Properties.                                                             *)

TypeOK ==
  /\ pending \in Seq(Buf) /\ raw \in Seq(Buf) /\ accepted \in Seq(Buf)
  /\ closed \in BOOLEAN /\ failure \in BOOLEAN
  /\ caller \in {"ready", "written", "dropping", "gone"}
  /\ worker \in WorkerPc
  /\ buf \in Buf \cup {NoBuf} /\ (worker = "writing" <=> buf # NoBuf)

\* The queue as its callers see it: broken once the failure is recorded.
Queue == INSTANCE StdinQueue WITH
  delivered <- raw,
  state <- IF failure THEN "broken" ELSE IF closed THEN "closed" ELSE "open"

\* The module documentation: the worker performs the writes in order, and
\* after an error it refuses instead of pretending.  PtyWriter implements
\* StdinQueue.
ImplementsStdinQueue == Queue!QSpec

\* ... and drains what was accepted, a drop of the adapter notwithstanding,
\* unless the raw writer fails.
AcceptedArrives == Queue!QLive

\* Dropping the adapter releases the raw writer: the worker flushes what was
\* accepted and ends, without anybody waiting for it.
DropReleasesRaw == caller = "dropping" ~> worker = "gone"
=============================================================================
