------------------------------- MODULE TodoStore -------------------------------
(***************************************************************************)
(* The todo store of tuxedo (crates/tuxedo, core/ and inbox.rs): one store *)
(* process over four files, with the producers and editors that share      *)
(* them.  Every mutation starts by comparing the todo file with what the   *)
(* store read or wrote last (reconcile) and gives up if it differs.        *)
(*                                                                         *)
(* One step is one file operation with the memory changes around it: files *)
(* are shared with an editor that knows no lock and may write between any  *)
(* two steps, and with `tuxedo serve`, which appends to the inbox under a  *)
(* lock that a drain holds from staging to cleanup.  Reads, writes and     *)
(* removals may fail, the process may die between any two steps.           *)
(*                                                                         *)
(* A file is a sequence of rows; an absent file is an empty one.  A row is *)
(* a task; edits of its text in place (priority, tags, completion) leave   *)
(* no trace here.  write_atomic is one step: its rename is what others see.*)
(***************************************************************************)
EXTENDS Lists, FiniteSets, SequencesExt

CONSTANTS
  Row,        \* tasks
  Junk,       \* an inbox line that does not parse
  UndoLimit,  \* snapshots the undo history keeps
  MaxLive,    \* live tasks an unarchive or a drain may leave (bound)
  MaxArchive, \* rows an archive operation may leave in the archive (bound)
  MaxFaults   \* failed file operations and crashes (bound)

ASSUME TodoAssumption ==
  /\ Junk \notin Row
  /\ UndoLimit \in Nat \ {0} /\ {MaxLive, MaxArchive} \subseteq Nat /\ MaxFaults \in Nat

VARIABLES
  \* files
  todoF, archF, inboxF, staging,
  \* the Store
  tasks, seen, hist,          \* tasks, last_disk, history
  archive, loader, loaded,    \* the archive in memory, its loader and what that read
  \* the operation under way
  step, job, prev,              \* what it is at; what it works on; the archive it found
  blind,                        \* its poll could not read the todo file
  \* history variables
  used,       \* rows that were ever introduced
  late,       \* rows an editor put in a file, or took out, behind the operation's back
  theirs,     \* rows whose last change in the todo file is an editor's
  excused,    \* rows removed on purpose, or put at risk (see NoRowLost)
  unread,     \* rows whose edit a drain overwrote although a poll had failed to read it
  faults

files  == <<todoF, archF, inboxF, staging>>
memory == <<tasks, seen, hist>>
arch   == <<archive, loader, loaded>>
op     == <<step, job, prev, blind>>
hvars  == <<used, late, theirs, excused, unread, faults>>
todoVars == <<files, memory, arch, op, hvars>>

TodoStep == {"down", "idle", "add", "delete", "undo", "archRead", "archWrite", "archTodo",
           "archBack", "unarchRead", "unarchWrite", "unarchTodo", "drain", "staged", "merged"}

\* (Definitions named X_slip: see PtyWriter.)

\* Slip: no snapshot is ever dropped.
Snapshot_unbounded(h) == Append(h, tasks)

\* History::push: the oldest snapshot goes when there are UndoLimit of them.
Snapshot(h) == Append(IF Len(h) >= UndoLimit THEN Tail(h) ELSE h, tasks)

Copies(s, r) == Cardinality({i \in 1..Len(s) : s[i] = r})

\* Rows the operation under way carries and that are in no file yet.
Carried ==
  IF step = "add" THEN job ELSE IF step = "unarchTodo" THEN {Last(tasks)} ELSE {}

Fault == faults < MaxFaults /\ faults' = faults + 1

TodoInit ==
  /\ todoF = <<>> /\ archF = <<>> /\ inboxF = <<>> /\ staging = <<>>
  /\ tasks = <<>> /\ seen = <<>> /\ hist = <<>>
  /\ archive = <<>> /\ loader = "off" /\ loaded = <<>>
  /\ step = "down" /\ job = {} /\ prev = <<>> /\ blind = FALSE
  /\ used = {} /\ late = {} /\ theirs = {} /\ excused = {} /\ unread = {} /\ faults = 0

-----------------------------------------------------------------------------
(* The process: Store::new with the archive loader, and its end.           *)

Start ==
  /\ step = "down"
  /\ tasks' = todoF /\ seen' = todoF /\ hist' = <<>>
  /\ archive' = <<>> /\ loader' = "reading" /\ loaded' = <<>>
  /\ step' = "idle"
  /\ UNCHANGED <<files, job, prev, blind, hvars>>

\* The loader thread reads the archive, and takes one it cannot read for
\* empty ...
LoaderRead ==
  /\ loader = "reading" /\ loader' = "ready"
  /\ \/ loaded' = archF /\ UNCHANGED faults
     \/ Fault /\ loaded' = <<>>
  /\ UNCHANGED <<files, memory, archive, op, used, late, theirs, excused, unread>>

\* ... and poll_archive picks that up; later it looks for edits itself.
PollArchive ==
  /\ step = "idle" /\ loader # "reading"
  /\ archive' = IF loader = "ready" THEN loaded ELSE archF
  /\ loader' = "off" /\ loaded' = <<>>
  /\ UNCHANGED <<files, memory, op, hvars>>

\* The process ends: on request when idle, or by a crash.  A lock it held is
\* released with it.
Down ==
  /\ step # "down"
  /\ IF step = "idle" THEN UNCHANGED faults ELSE Fault
  /\ step' = "down" /\ job' = {} /\ prev' = <<>> /\ blind' = FALSE
  /\ tasks' = <<>> /\ seen' = <<>> /\ hist' = <<>>
  /\ archive' = <<>> /\ loader' = "off" /\ loaded' = <<>>
  /\ late' = {}
  /\ excused' = excused \cup Carried
  /\ UNCHANGED <<files, used, theirs, unread>>

-----------------------------------------------------------------------------
(* Others.  An edit that lands while an operation is under way is late.    *)

Late(r) == late' = IF step \in {"down", "idle"} THEN late ELSE late \cup {r}

EditorAdds(r) ==
  /\ r \notin used /\ used' = used \cup {r}
  /\ Late(r)
  /\ \/ todoF' = Append(todoF, r) /\ theirs' = theirs \cup {r} /\ UNCHANGED archF
     \/ archF' = Append(archF, r) /\ UNCHANGED <<todoF, theirs>>
  /\ UNCHANGED <<inboxF, staging, memory, arch, op, excused, unread, faults>>

EditorRemoves(i) ==
  /\ i \in 1..Len(todoF)
  /\ Late(todoF[i]) /\ theirs' = theirs \cup {todoF[i]}
  /\ todoF' = Without(todoF, {i})
  /\ excused' = excused \cup {todoF[i]}
  /\ UNCHANGED <<archF, inboxF, staging, memory, arch, op, used, unread, faults>>

\* append_to_inbox, under the inbox lock.  (Bound: what does not parse comes
\* first, and once; its place among the lines of a drain makes no difference.)
Capture(line) ==
  /\ step \notin {"staged", "merged"}
  /\ line \in (Row \ used) \cup {Junk}
  /\ line = Junk => used = {} /\ inboxF = <<>>
  /\ inboxF' = Append(inboxF, line)
  /\ used' = used \cup ({line} \ {Junk})
  /\ UNCHANGED <<todoF, archF, staging, memory, arch, op, late, theirs, excused, unread, faults>>

-----------------------------------------------------------------------------
(* Reconcile.                                                              *)

\* Slip: the undo history survives the reload.
Reload_keepsHistory == tasks' = todoF /\ seen' = todoF /\ UNCHANGED hist

\* apply_external_state, when the file differs: the edit wins, and snapshots
\* from before it must not come back.
Reload == tasks' = todoF /\ seen' = todoF /\ hist' = <<>>

\* A mutation that finds the file changed reloads and gives up.
Abort ==
  /\ step = "idle" /\ todoF # seen
  /\ Reload
  /\ UNCHANGED <<files, arch, op, hvars>>

\* A mutation that finds the file as the store left it goes ahead.
Proceed(next) ==
  /\ step = "idle" /\ todoF = seen
  /\ step' = next

\* Rows that an edit of the todo file touched since the store saw it last.
Edited == {r \in used : Copies(todoF, r) # Copies(seen, r)}

\* The todo file is written: the store has seen it, and what had landed in
\* it behind its back, or unread, is overwritten.  A row this adds, moves or
\* removes is no longer the editor's.
WriteTodo(rows) ==
  /\ todoF' = rows /\ seen' = rows
  /\ late' = {}
  /\ theirs' = {r \in theirs \ (late \cup Edited) : Copies(rows, r) = Copies(todoF, r)}

Done == step' = "idle" /\ job' = {} /\ prev' = <<>>

-----------------------------------------------------------------------------
(* add, delete, delete_many and the edits of a row: history, memory, file. *)

Add(r) ==
  /\ r \notin used /\ Proceed("add")
  /\ used' = used \cup {r} /\ job' = {r}
  /\ UNCHANGED <<files, memory, arch, prev, blind, late, theirs, excused, unread, faults>>

Delete(I) ==
  /\ I # {} /\ I \subseteq 1..Len(tasks) /\ Proceed("delete")
  /\ job' = I
  /\ UNCHANGED <<files, memory, arch, prev, blind, hvars>>

\* The change is in memory before it is in the file, and stays there when
\* the file cannot be written.
Rewrite(new, history, taken) ==
  /\ tasks' = new /\ hist' = history
  /\ \/ /\ WriteTodo(new)
        /\ excused' = excused \cup taken \cup late
        /\ UNCHANGED faults
     \/ /\ Fault /\ late' = {}
        /\ excused' = excused \cup taken \cup (ToSet(new) \ ToSet(todoF))
        /\ theirs' = theirs \ taken
        /\ UNCHANGED <<todoF, seen>>
  /\ Done
  /\ UNCHANGED <<archF, inboxF, staging, arch, blind, used, unread>>

AddWrite == step = "add" /\ Rewrite(tasks \o SetToSeq(job), Snapshot(hist), {})

DeleteWrite ==
  /\ step = "delete"
  /\ Rewrite(Without(tasks, job), Snapshot(hist), {tasks[i] : i \in job})

Undo ==
  /\ hist # <<>> /\ Proceed("undo")
  /\ UNCHANGED <<files, memory, arch, job, prev, blind, hvars>>

\* undo's pop and persist.  The snapshot is gone in any case.
UndoWrite ==
  /\ step = "undo"
  /\ LET new == Last(hist)
     IN Rewrite(new, Front(hist),
                (ToSet(tasks) \ ToSet(new)) \cup (ToSet(new) \ ToSet(tasks)))

-----------------------------------------------------------------------------
(* archive_many: archive first, then todo; back if the latter fails.       *)

Archive(I) ==
  /\ I # {} /\ I \subseteq 1..Len(tasks) /\ Len(archF) + Cardinality(I) <= MaxArchive
  /\ Proceed("archRead")
  /\ job' = I
  /\ UNCHANGED <<files, memory, arch, prev, blind, hvars>>

Fail == Fault /\ Done /\ late' = {}

\* Slip: the archive in memory is trusted.
ArchiveRead_stale ==
  /\ step = "archRead"
  /\ prev' = archive /\ step' = "archWrite"
  /\ UNCHANGED <<files, memory, arch, job, blind, hvars>>

\* Read fresh, so that an edit of the archive is not lost.
ArchiveRead ==
  /\ step = "archRead"
  /\ \/ /\ prev' = archF /\ step' = "archWrite"
        /\ UNCHANGED <<job, late, faults>>
     \/ Fail
  /\ UNCHANGED <<files, memory, arch, blind, used, theirs, excused, unread>>

\* What landed in the archive since it was read is overwritten.
ArchiveWrite ==
  /\ step = "archWrite"
  /\ \/ /\ archF' = prev \o Keep(tasks, job)
        /\ excused' = excused \cup (late \cap ToSet(archF))
        /\ step' = "archTodo"
        /\ UNCHANGED <<job, prev, late, faults>>
     \/ Fail /\ UNCHANGED <<archF, excused>>
  /\ UNCHANGED <<todoF, inboxF, staging, memory, arch, blind, used, theirs, unread>>

ArchiveTodo ==
  /\ step = "archTodo"
  /\ \/ /\ WriteTodo(Without(tasks, job))
        /\ excused' = excused \cup late
        /\ hist' = Snapshot(hist)
        /\ tasks' = Without(tasks, job)
        /\ archive' = prev \o Keep(tasks, job) /\ loader' = "off" /\ loaded' = <<>>
        /\ Done
        /\ UNCHANGED faults
     \/ /\ Fault
        /\ step' = "archBack"
        /\ UNCHANGED <<todoF, memory, arch, job, prev, late, theirs, excused>>
  /\ UNCHANGED <<archF, inboxF, staging, blind, used, unread>>

\* The rollback; whether it succeeds is ignored.  (It follows a failure, and
\* its own is not counted.)
ArchiveBack ==
  /\ step = "archBack"
  /\ \/ archF' = prev /\ excused' = excused \cup (late \cap ToSet(archF))
     \/ UNCHANGED <<archF, excused>>
  /\ Done /\ late' = {}
  /\ UNCHANGED <<todoF, inboxF, staging, memory, arch, blind, used, theirs, unread, faults>>

-----------------------------------------------------------------------------
(* unarchive: the archive without the row, then the todo file with it.     *)

Unarchive(i) ==
  /\ i \in 1..Len(archive) /\ Len(tasks) < MaxLive /\ Proceed("unarchRead")
  /\ job' = {i}
  /\ UNCHANGED <<files, memory, arch, prev, blind, hvars>>

\* refresh_archive_for_mutation: an archive that changed is loaded and the
\* operation given up, since the index meant another list.
UnarchiveRead ==
  /\ step = "unarchRead"
  /\ \/ /\ archF = archive
        /\ loader' = "off" /\ loaded' = <<>> /\ step' = "unarchWrite"
        /\ UNCHANGED <<archive, job, prev, late, faults>>
     \/ /\ archF # archive
        /\ archive' = archF /\ loader' = "off" /\ loaded' = <<>>
        /\ Done /\ late' = {} /\ UNCHANGED faults
     \/ Fail /\ UNCHANGED arch
  /\ UNCHANGED <<files, memory, blind, used, theirs, excused, unread>>

\* From here the row is in no file until the todo file is written.
UnarchiveWrite ==
  /\ step = "unarchWrite"
  /\ \/ /\ archF' = Without(archive, job) /\ archive' = Without(archive, job)
        /\ hist' = Snapshot(hist)
        /\ tasks' = tasks \o Keep(archive, job)
        /\ excused' = excused \cup (late \cap ToSet(archF))
        /\ theirs' = theirs \ ToSet(Keep(archive, job))
        /\ step' = "unarchTodo"
        /\ UNCHANGED <<job, prev, late, faults>>
     \/ Fail /\ UNCHANGED <<archF, archive, hist, tasks, theirs, excused>>
  /\ UNCHANGED <<todoF, inboxF, staging, seen, loader, loaded, blind, used, unread>>

UnarchiveTodo ==
  /\ step = "unarchTodo"
  /\ \/ /\ WriteTodo(tasks)
        /\ excused' = excused \cup late
        /\ UNCHANGED faults
     \/ /\ Fault /\ late' = {}
        /\ excused' = excused \cup Carried
        /\ UNCHANGED <<todoF, seen, theirs>>
  /\ Done
  /\ UNCHANGED <<archF, inboxF, staging, tasks, hist, arch, blind, used, unread>>

-----------------------------------------------------------------------------
(* The poll: reconcile, then drain_inbox whatever reconcile found.         *)

\* A read error is reported, and the drain goes on all the same, blind to what
\* an editor may have written.
Poll ==
  /\ Len(tasks) + Len(inboxF \o staging) <= MaxLive
  /\ step = "idle" /\ step' = "drain"
  /\ \/ todoF = seen /\ UNCHANGED <<memory, blind, faults>>
     \/ todoF # seen /\ Reload /\ UNCHANGED <<blind, faults>>
     \/ Fault /\ blind' = TRUE /\ UNCHANGED memory
  /\ UNCHANGED <<files, arch, job, prev, used, late, theirs, excused, unread>>

\* With the lock: an interrupted drain's staging file, or the inbox, which
\* may be renamed and then not be readable.
DrainStage ==
  /\ step = "drain"
  /\ \/ /\ staging # <<>> /\ step' = "staged"
        /\ UNCHANGED <<inboxF, staging, job, prev, late, faults>>
     \/ /\ staging = <<>> /\ inboxF # <<>>
        /\ staging' = inboxF /\ inboxF' = <<>>
        /\ step' = "staged"
        /\ UNCHANGED <<job, prev, late, faults>>
     \/ /\ staging = <<>> /\ inboxF = <<>>
        /\ Done /\ late' = {}
        /\ UNCHANGED <<inboxF, staging, faults>>
     \/ /\ Fail
        /\ \/ UNCHANGED <<inboxF, staging>>
           \/ staging = <<>> /\ staging' = inboxF /\ inboxF' = <<>>
  /\ blind' = (blind /\ step' = "staged")
  /\ UNCHANGED <<todoF, archF, memory, arch, used, theirs, excused, unread>>

Parsed == Keep(staging, {i \in 1..Len(staging) : staging[i] \in Row})

\* Lines that do not parse are skipped; if none does there is no write.  The
\* write of a blind drain replaces edits that nobody could read.
DrainWrite ==
  /\ step = "staged"
  /\ \/ /\ Parsed = <<>>
        /\ step' = "merged"
        /\ UNCHANGED <<todoF, memory, late, theirs, excused, unread, faults>>
     \/ /\ Parsed # <<>>
        /\ hist' = Snapshot(hist)
        /\ tasks' = tasks \o Parsed
        /\ WriteTodo(tasks \o Parsed) /\ excused' = excused \cup late
        /\ unread' = IF blind THEN unread \cup (Edited \ late) ELSE unread
        /\ step' = "merged"
        /\ UNCHANGED faults
     \/ /\ Parsed # <<>> /\ Fault
        /\ hist' = Front(Snapshot(hist))
        /\ step' = "idle" /\ late' = {}
        /\ UNCHANGED <<todoF, tasks, seen, theirs, excused, unread>>
  /\ blind' = FALSE
  /\ UNCHANGED <<archF, inboxF, staging, arch, job, prev, used>>

\* Slip: the staging file is left behind.
DrainClean_leavesStaging ==
  /\ step = "merged"
  /\ Done /\ late' = {}
  /\ UNCHANGED <<files, memory, arch, blind, used, theirs, excused, unread, faults>>

\* Only after the write is the staging file removed.
DrainClean ==
  /\ step = "merged"
  /\ \/ staging' = <<>> /\ UNCHANGED faults
     \/ Fault /\ UNCHANGED staging
  /\ Done /\ late' = {}
  /\ UNCHANGED <<todoF, archF, inboxF, memory, arch, blind, used, theirs, excused, unread>>

-----------------------------------------------------------------------------
TodoNext ==
  \/ Start \/ LoaderRead \/ PollArchive \/ Down
  \/ \E r \in Row : EditorAdds(r) \/ Add(r)
  \/ \E i \in 1..Len(todoF) : EditorRemoves(i)
  \/ \E line \in Row \cup {Junk} : Capture(line)
  \/ \E I \in SUBSET (1..Len(tasks)) : Delete(I) \/ Archive(I)
  \/ \E i \in 1..Len(archive) : Unarchive(i)
  \/ Abort \/ AddWrite \/ DeleteWrite \/ Undo \/ UndoWrite
  \/ ArchiveRead \/ ArchiveWrite \/ ArchiveTodo \/ ArchiveBack
  \/ UnarchiveRead \/ UnarchiveWrite \/ UnarchiveTodo
  \/ Poll \/ DrainStage \/ DrainWrite \/ DrainClean

TodoSpec == TodoInit /\ [][TodoNext]_todoVars

-----------------------------------------------------------------------------
(* Properties.                                                             *)

TodoTypeOK ==
  /\ {todoF, archF, tasks, seen, archive, loaded, prev} \subseteq Seq(Row)
  /\ {inboxF, staging} \subseteq Seq(Row \cup {Junk})
  /\ hist \in Seq(Seq(Row)) /\ Len(hist) <= UndoLimit
  /\ loader \in {"off", "reading", "ready"}
  /\ step \in TodoStep /\ blind \in BOOLEAN
  /\ used \subseteq Row /\ faults \in 0..MaxFaults
  /\ late \subseteq used /\ theirs \subseteq used /\ excused \subseteq used /\ unread \subseteq used

Stored(r) == Copies(todoF, r) + Copies(archF, r) + Copies(inboxF, r) + Copies(staging, r)

\* No row is lost by a failed operation, a crash at any point or an edit from
\* outside (archive_many's contract and the comment on staging_path_for): it
\* is in one of the files, unless it was removed on purpose or undone, was
\* never written, landed behind the back of an operation, or was carried by an
\* unarchive that has not written the todo file yet, or never did; or was
\* edited in, could not be read by a poll, and was overwritten by the drain of
\* that poll (unread: UnreadKept says what the code promises of those).
NoRowLost ==
  \A r \in used \ (excused \cup unread \cup Carried) : Stored(r) > 0

\* The comment at apply_external_state: after an error reading the todo file the
\* caller aborts, since writing could overwrite content that was not read.  A
\* row that a poll could not read is still in a file after that poll's drain.
UnreadKept ==
  \A r \in unread \ excused : Stored(r) > 0

\* Without failures and crashes no row is doubled: when the store is idle
\* each row is in one place, and once there (todo file, archive, inbox,
\* staging file), except those an undo took back or brought back.
NoRowDoubled ==
  step = "idle" /\ faults = 0 => \A r \in used \ excused : Stored(r) = 1

\* An undo takes back what the store did, never what an editor did to the
\* todo file, which is why a reload clears the history: a row an editor
\* added or removed is after an undo where it was before, unless the edit
\* landed while the undo was under way.  (An edit that a drain overwrote,
\* because it came too late or could not be read, is no longer the editor's.)
UndoSparesEdits ==
  [][step = "undo" /\ step' = "idle" =>
       \A r \in theirs \ late : Copies(todoF', r) = Copies(todoF, r)]_todoVars
=============================================================================
