----------------------------- MODULE RemoteSession -----------------------------
(***************************************************************************)
(* The sending half of a session that the daemon hosts (rimeterm-pty,      *)
(* session.rs, Backend::Remote): the handle a pane holds, the stdin and    *)
(* control channels behind it, and remote_writer_task, which turns what    *)
(* they carry into frames.                                                 *)
(*                                                                         *)
(* The handle's methods run on the callers' threads, the task on the       *)
(* runtime: they interleave between the two halves of kill and of a drop,  *)
(* between the two polls of the task's select, and while it awaits a       *)
(* write_frame.  A write_frame may fail at any time; the frame is then not *)
(* on the wire as a whole.  wire is the log of all frames written.  Sizes  *)
(* are left out: a resize is a control frame.                              *)
(***************************************************************************)
EXTENDS Naturals, Sequences

CONSTANTS
  Buf,        \* the buffers callers write
  NoBuf,      \* the task writes no frame
  MaxAcc,     \* buffers accepted (bound)
  MaxCalls    \* writes and resizes of a behaviour (bound)

Control == {"resize", "kill"}

VARIABLES
  handle,    \* the Session: "held", "dropping" (its writer is gone), "dropped"
  stdin,     \* is the writer Option Some, so write_tx open
  killing,   \* "no", "queued" (Kill sent, writer not taken yet), "done"
  writeQ,    \* write_rx
  controlQ,  \* control_rx
  task,      \* where remote_writer_task is
  frame,     \* what its write_frame is writing
  wire,      \* the frames written
  cut,       \* a write_frame failed
  typed,     \* history: buffers for which write returned Ok
  resizes    \* history: resizes asked for

channels == <<writeQ, controlQ>>
callers  == <<handle, stdin, killing, typed, resizes>>
taskVars == <<task, frame, wire, cut>>
remoteVars == <<callers, channels, taskVars>>

TaskPc == {"select", "polled", "sending", "draining", "drainSending", "gone"}

Init ==
  /\ handle = "held" /\ stdin = TRUE /\ killing = "no"
  /\ writeQ = <<>> /\ controlQ = <<>>
  /\ task = "select" /\ frame = NoBuf /\ wire = <<>> /\ cut = FALSE
  /\ typed = <<>> /\ resizes = 0

-----------------------------------------------------------------------------
(* Callers.  A channel whose receiver is gone refuses: write reports it,   *)
(* resize and kill do not.                                                 *)

Write(b) ==
  /\ handle = "held" /\ stdin /\ task # "gone"
  /\ Len(typed) < MaxAcc /\ Len(typed) + resizes < MaxCalls
  /\ writeQ' = Append(writeQ, b)
  /\ typed' = Append(typed, b)
  /\ UNCHANGED <<handle, stdin, killing, resizes, controlQ, taskVars>>

SendControl(c) == controlQ' = IF task = "gone" THEN controlQ ELSE Append(controlQ, c)

Resize ==
  /\ handle = "held" /\ Len(typed) + resizes < MaxCalls
  /\ resizes' = resizes + 1
  /\ SendControl("resize")
  /\ UNCHANGED <<handle, stdin, killing, typed, writeQ, taskVars>>

\* kill: queue the request ...
KillQueue ==
  /\ handle = "held" /\ killing = "no"
  /\ killing' = "queued"
  /\ SendControl("kill")
  /\ UNCHANGED <<handle, stdin, typed, resizes, writeQ, taskVars>>

\* ... then drop the stdin writer.
KillCloseStdin ==
  /\ killing = "queued"
  /\ killing' = "done"
  /\ stdin' = FALSE
  /\ UNCHANGED <<handle, typed, resizes, channels, taskVars>>

\* The last clone of the Session goes: its writer, then its control sender.
DropStdin ==
  /\ handle = "held" /\ killing # "queued"
  /\ handle' = "dropping"
  /\ stdin' = FALSE
  /\ UNCHANGED <<killing, typed, resizes, channels, taskVars>>

DropControl ==
  /\ handle = "dropping"
  /\ handle' = "dropped"
  /\ UNCHANGED <<stdin, killing, typed, resizes, channels, taskVars>>

-----------------------------------------------------------------------------
(* remote_writer_task.                                                     *)

\* The biased select polls the control channel first ...
RecvControl ==
  /\ task = "select" /\ controlQ # <<>>
  /\ frame' = Head(controlQ)
  /\ controlQ' = Tail(controlQ)
  /\ task' = "sending"
  /\ UNCHANGED <<callers, writeQ, wire, cut>>

\* Every control sender is gone.
ControlClosed ==
  /\ task = "select" /\ controlQ = <<>> /\ handle = "dropped"
  /\ task' = "gone"
  /\ UNCHANGED <<callers, channels, frame, wire, cut>>

\* ... and, with no control queued, the stdin channel.  A control may be queued
\* between the two polls.
PollControl ==
  /\ task = "select" /\ controlQ = <<>> /\ handle # "dropped"
  /\ task' = "polled"
  /\ UNCHANGED <<callers, channels, frame, wire, cut>>

RecvBytes ==
  /\ task = "polled" /\ writeQ # <<>>
  /\ frame' = Head(writeQ)
  /\ writeQ' = Tail(writeQ)
  /\ task' = "sending"
  /\ UNCHANGED <<callers, controlQ, wire, cut>>

\* Neither channel is ready: the task waits, to be woken by either.
PollPending ==
  /\ task = "polled" /\ writeQ = <<>> /\ stdin
  /\ task' = "select"
  /\ UNCHANGED <<callers, channels, frame, wire, cut>>

\* Slip: the task leaves when it sees stdin closed, whatever control is queued.
BytesClosed_leaves ==
  /\ task = "polled" /\ writeQ = <<>> /\ ~stdin
  /\ task' = "gone"
  /\ UNCHANGED <<callers, channels, frame, wire, cut>>

\* Stdin is closed and empty.  No control was queued when the select looked:
\* those that have come since are still to be drained.
BytesClosed ==
  /\ task = "polled" /\ writeQ = <<>> /\ ~stdin
  /\ task' = "draining"
  /\ UNCHANGED <<callers, channels, frame, wire, cut>>

Drain ==
  /\ task = "draining"
  /\ \/ /\ controlQ # <<>>
        /\ frame' = Head(controlQ)
        /\ controlQ' = Tail(controlQ)
        /\ task' = "drainSending"
     \/ /\ controlQ = <<>>
        /\ task' = "gone"
        /\ UNCHANGED <<frame, controlQ>>
  /\ UNCHANGED <<callers, writeQ, wire, cut>>

\* write_frame returns Ok.  A Kill is the last frame.
FrameSent ==
  /\ task \in {"sending", "drainSending"}
  /\ wire' = Append(wire, frame)
  /\ frame' = NoBuf
  /\ task' = IF frame = "kill" THEN "gone"
             ELSE IF task = "sending" THEN "select" ELSE "draining"
  /\ UNCHANGED <<callers, channels, cut>>

\* Slip: the error is passed over and the task goes on.
FrameFails_goesOn ==
  /\ task \in {"sending", "drainSending"}
  /\ frame' = NoBuf
  /\ task' = "select"
  /\ UNCHANGED <<callers, channels, wire, cut>>

\* write_frame returns an error.
FrameFails ==
  /\ task \in {"sending", "drainSending"}
  /\ frame' = NoBuf
  /\ task' = "gone"
  /\ cut' = TRUE
  /\ UNCHANGED <<callers, channels, wire>>

-----------------------------------------------------------------------------
CallerStep == (\E b \in Buf : Write(b)) \/ Resize \/ KillQueue \/ KillCloseStdin
              \/ DropStdin \/ DropControl
\* A task with nothing to receive goes round between its two polls; the wake-up
\* of a channel that becomes ready is tokio's.
TaskStep == RecvControl \/ ControlClosed \/ PollControl \/ RecvBytes \/ PollPending
            \/ BytesClosed \/ Drain \/ FrameSent \/ FrameFails

Next == CallerStep \/ TaskStep

Spec == Init /\ [][Next]_remoteVars

-----------------------------------------------------------------------------
RemoteTypeOK ==
  /\ handle \in {"held", "dropping", "dropped"}
  /\ stdin \in BOOLEAN /\ killing \in {"no", "queued", "done"}
  /\ writeQ \in Seq(Buf) /\ typed \in Seq(Buf)
  /\ controlQ \in Seq(Control)
  /\ task \in TaskPc
  /\ frame \in Buf \cup Control \cup {NoBuf}
  /\ task \in {"sending", "drainSending"} => frame # NoBuf
  /\ wire \in Seq(Buf \cup Control) /\ cut \in BOOLEAN
  /\ resizes \in Nat

Holds(seq, f) == \E i \in 1..Len(seq) : seq[i] = f

\* The comment on remote_writer_task: a queued Kill always reaches the wire.
\* Until it is there it is in the channel or in the task's hands, whatever
\* closes around it; only a broken socket excuses its loss.
KillNotLost ==
  killing # "no" =>
    \/ cut
    \/ frame = "kill" \/ Holds(wire, "kill")
    \/ task # "gone" /\ Holds(controlQ, "kill")
=============================================================================
