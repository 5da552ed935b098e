------------------------------ MODULE StdinQueue ------------------------------
(***************************************************************************)
(* What the stdin path of a session promises its callers: buffers that     *)
(* were accepted reach the terminal in the order of acceptance, none       *)
(* twice and none skipped.  After a close nothing more is accepted but     *)
(* what was accepted still arrives.  A broken queue delivers nothing more  *)
(* and accepts nothing more.                                               *)
(***************************************************************************)
EXTENDS Naturals, Sequences

CONSTANTS
  Buf,     \* what callers write, a buffer at a time
  MaxAcc   \* buffers accepted (bound)

VARIABLES accepted, delivered, state

qvars == <<accepted, delivered, state>>

QInit == accepted = <<>> /\ delivered = <<>> /\ state = "open"

Undelivered == Len(delivered) < Len(accepted)

Accept(b) ==
  /\ state = "open" /\ Len(accepted) < MaxAcc
  /\ accepted' = Append(accepted, b)
  /\ UNCHANGED <<delivered, state>>

Deliver ==
  /\ state # "broken" /\ Undelivered
  /\ delivered' = Append(delivered, accepted[Len(delivered) + 1])
  /\ UNCHANGED <<accepted, state>>

Close ==
  /\ state = "open"
  /\ state' = "closed"
  /\ UNCHANGED <<accepted, delivered>>

\* Only the delivery of a buffer can break the queue.
Break ==
  /\ state # "broken" /\ Undelivered
  /\ state' = "broken"
  /\ UNCHANGED <<accepted, delivered>>

QNext == (\E b \in Buf : Accept(b)) \/ Deliver \/ Close \/ Break

QSpec == QInit /\ [][QNext]_qvars

\* What is accepted does not wait for ever.
QLive == WF_qvars(Deliver \/ Break)
=============================================================================
