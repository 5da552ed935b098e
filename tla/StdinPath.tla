------------------------------- MODULE StdinPath -------------------------------
(***************************************************************************)
(* What is typed into a pane, all the way to the child: RemoteSession in   *)
(* the TUI, the connection's control loop in the daemon (sessiond,         *)
(* daemon.rs, the end of serve_attached) and the PtyWriter of the session. *)
(*                                                                         *)
(* One client and one child.  The control loop looks the session up under  *)
(* the registry lock and writes to its writer after the lock is released;  *)
(* in between the session may be evicted.  The answers the daemon itself   *)
(* gives to terminal queries, and what other clients type, are not counted *)
(* in raw.                                                                 *)
(***************************************************************************)
EXTENDS PtyWriter

CONSTANTS MaxCalls   \* writes and resizes of a behaviour (bound)

ASSUME PathAssumption ==
  /\ {"resize", "kill"} \cap (Buf \cup {NoBuf}) = {}
  /\ MaxCalls \in Nat

VARIABLES
  \* RemoteSession
  handle, stdin, killing, writeQ, controlQ, task, frame, wire, cut, typed, resizes,
  \* the daemon
  conn,     \* the control loop: "reading", "holding" (a looked-up writer), "closed"
  inhand,   \* the bytes it is about to write
  taken,    \* frames it has read off the wire
  hosted,   \* is the child's session the Live entry of the key
  killed    \* has request_kill found it

Remote == INSTANCE RemoteSession

remoteVars == <<handle, stdin, killing, writeQ, controlQ, task, frame, wire, cut, typed, resizes>>
connVars == <<conn, inhand, taken>>
pathVars == <<vars, remoteVars, connVars, hosted, killed>>

PathInit ==
  /\ Init /\ Remote!Init
  /\ conn = "reading" /\ inhand = NoBuf /\ taken = 0
  /\ hosted = TRUE /\ killed = FALSE

\* (Definitions named X_slip: see PtyWriter.)

Unread == conn = "reading" /\ taken < Len(wire)
NextFrame == wire[taken + 1]

-----------------------------------------------------------------------------
(* The control loop.                                                       *)

\* ClientWrite: the writer of the live session, or the end of the loop.
ConnWriteFrame ==
  /\ Unread /\ NextFrame \in Buf
  /\ taken' = taken + 1
  /\ \/ hosted /\ conn' = "holding" /\ inhand' = NextFrame
     \/ ~hosted /\ conn' = "closed" /\ UNCHANGED inhand
  /\ UNCHANGED <<vars, remoteVars, hosted, killed>>

\* write_stdin, outside the lock; an error is logged and passed over.
ConnWriteStdin ==
  /\ conn = "holding"
  /\ \/ Write(inhand)
     \/ caller = "ready" /\ (failure \/ closed) /\ UNCHANGED vars
  /\ conn' = "reading" /\ inhand' = NoBuf
  /\ UNCHANGED <<taken, remoteVars, hosted, killed>>

\* Resize: only whether there is a session matters here (module PtyControl).
ConnResize ==
  /\ Unread /\ NextFrame = "resize"
  /\ taken' = taken + 1
  /\ conn' = IF hosted THEN "reading" ELSE "closed"
  /\ UNCHANGED <<vars, remoteVars, inhand, hosted, killed>>

\* Slip: the kill finds no session.
ConnKill_misses ==
  /\ Unread /\ NextFrame = "kill"
  /\ taken' = taken + 1
  /\ UNCHANGED <<vars, remoteVars, conn, inhand, hosted, killed>>

\* Kill: request_kill marks the session; the loop goes on in any case.
ConnKill ==
  /\ Unread /\ NextFrame = "kill"
  /\ taken' = taken + 1
  /\ killed' = (killed \/ hosted)
  /\ UNCHANGED <<vars, remoteVars, conn, inhand, hosted>>

\* Nothing more to read: the client's half is closed.
ConnEof ==
  /\ conn = "reading" /\ taken = Len(wire) /\ task = "gone"
  /\ conn' = "closed"
  /\ UNCHANGED <<vars, remoteVars, inhand, taken, hosted, killed>>

\* The child exits, killed or not, and finalize_exit evicts its session.
Evict ==
  /\ hosted /\ hosted' = FALSE
  /\ UNCHANGED <<vars, remoteVars, connVars, killed>>

\* The last reference to the evicted session's writer goes.
DropLast ==
  /\ ~hosted /\ conn # "holding"
  /\ DropWriter
  /\ UNCHANGED <<remoteVars, connVars, hosted, killed>>

-----------------------------------------------------------------------------
ConnStep == ConnWriteFrame \/ ConnWriteStdin \/ ConnResize \/ ConnKill \/ ConnEof
SessionStep == (WorkerStep \/ WriteNotify \/ DropNotify)
               /\ UNCHANGED <<remoteVars, connVars, hosted, killed>>
ClientStep == (Remote!CallerStep \/ Remote!TaskStep)
              /\ UNCHANGED <<vars, connVars, hosted, killed>>

PathNext == ConnStep \/ SessionStep \/ ClientStep \/ Evict \/ DropLast

\* The tasks and threads run; a caller finishes its kill; a write to the
\* socket and a raw write return, with or without an error; a killed child
\* exits.
PathFairness ==
  /\ WF_pathVars(ConnStep)
  /\ WF_pathVars(WorkerStep /\ UNCHANGED <<remoteVars, connVars, hosted, killed>>)
  /\ WF_pathVars((WriteNotify \/ DropNotify) /\ UNCHANGED <<remoteVars, connVars, hosted, killed>>)
  /\ WF_pathVars(Remote!TaskStep /\ UNCHANGED <<vars, connVars, hosted, killed>>)
  /\ WF_pathVars(killed /\ Evict)

PathSpec == PathInit /\ [][PathNext]_pathVars
FairPathSpec == PathSpec /\ PathFairness

-----------------------------------------------------------------------------
(* Properties.                                                             *)

PathTypeOK ==
  /\ TypeOK /\ Remote!RemoteTypeOK
  /\ conn \in {"reading", "holding", "closed"}
  /\ inhand \in Buf \cup {NoBuf} /\ (conn = "holding" <=> inhand # NoBuf)
  /\ taken \in 0..Len(wire)
  /\ hosted \in BOOLEAN /\ killed \in BOOLEAN

KillNotLost == Remote!KillNotLost

\* The whole path as the pane sees it.  It is closed when its handle's stdin
\* is, or when the task has ended; what has not arrived by the time both the
\* task and the writer's thread are done is lost.
Over == task = "gone" /\ worker \in {"flushing", "ending", "gone"}

Path == INSTANCE StdinQueue WITH
  accepted <- typed,
  delivered <- raw,
  state <- IF Over /\ Len(raw) < Len(typed) THEN "broken"
           ELSE IF task = "gone" \/ ~stdin THEN "closed" ELSE "open"

\* Session::write: success means accepted by the queue.  What the child reads
\* is what was typed, in order, without a gap, up to the point where the path
\* broke, whatever overtakes it: kills, drops, evictions, failed writes.
TypedArrivesInOrder == Path!QSpec

\* Session::kill: the child dies of it, unless the socket broke.
KillArrives == killing # "no" ~> (~hosted \/ cut)
=============================================================================
