-------------------------------- MODULE GitPane --------------------------------
(***************************************************************************)
(* The Git pane and its worker thread (rimeterm-tui, git_pane.rs and       *)
(* git_worker.rs).  The pane asks over one channel for snapshots of a      *)
(* directory, diffs and commit details, and takes the answers from another *)
(* when it is polled.  The worker takes all requests that wait, keeps only *)
(* the newest snapshot request of them, and answers snapshots before diffs *)
(* before details: answers do not come in the order of the questions.      *)
(* Every request has a generation of its own from one counter.             *)
(*                                                                         *)
(* A directory stands for all those of one repository.  Of a snapshot only *)
(* its root and the number of commit pages matter; of an overlay, which    *)
(* request it answers.                                                     *)
(***************************************************************************)
EXTENDS Lists, SequencesExt

CONSTANTS
  Dir,      \* directories the file manager may show
  Repo,     \* those inside a repository
  HomeDir,  \* workspace_root
  NoRoot,   \* the root of an empty snapshot
  MaxGen,   \* requests of a behaviour (bound)
  MaxPages  \* commit pages a pane asks for (bound)

ASSUME GitAssumption ==
  /\ Repo \subseteq Dir /\ HomeDir \in Dir /\ NoRoot \notin Dir
  /\ MaxGen \in Nat \ {0} /\ MaxPages \in Nat \ {0}

VARIABLES
  generation,  \* requested_generation
  commitLimit, \* commit_limit, in pages
  pane,        \* snapshot, applied generations and overlays: see PaneType
  requests,    \* the request channel
  batch,       \* what the worker has taken and not answered, in its order
  responses,   \* the response channel
  lastAsk      \* history: the newest snapshot request

gitVars == <<generation, commitLimit, pane, requests, batch, responses, lastAsk>>

\* diff and detail name the request whose answer the overlay shows, 0 if
\* there is no overlay.
PaneType == [root : Dir \cup {NoRoot}, pages : 0..MaxPages, more : BOOLEAN,
             snapshotGen : 0..MaxGen, diffGen : 0..MaxGen, detailGen : 0..MaxGen,
             diff : 0..MaxGen, detail : 0..MaxGen]

Request(kind, dir, limit) == [kind |-> kind, gen |-> generation + 1, dir |-> dir, limit |-> limit]

Ask(kind, dir, limit) ==
  /\ generation < MaxGen
  /\ generation' = generation + 1
  /\ requests' = Append(requests, Request(kind, dir, limit))
  /\ lastAsk' = IF kind = "snapshot" THEN Request(kind, dir, limit) ELSE lastAsk
  /\ UNCHANGED <<batch, responses>>

\* A new pane asks for the workspace at once.
GitInit ==
  /\ generation = 1 /\ commitLimit = 1
  /\ pane = [root |-> NoRoot, pages |-> 0, more |-> FALSE,
             snapshotGen |-> 0, diffGen |-> 0, detailGen |-> 0, diff |-> 0, detail |-> 0]
  /\ lastAsk = [kind |-> "snapshot", gen |-> 1, dir |-> HomeDir, limit |-> 1]
  /\ requests = <<lastAsk>> /\ batch = <<>> /\ responses = <<>>

-----------------------------------------------------------------------------
(* The pane.                                                               *)

RefreshFor(dir) ==
  /\ commitLimit' = 1
  /\ pane' = [pane EXCEPT !.more = FALSE]
  /\ Ask("snapshot", dir, 1)

\* Slip: the root of an empty snapshot is asked for as it stands.
Refresh_noFallback ==
  /\ Ask("snapshot", pane.root, commitLimit)
  /\ UNCHANGED <<commitLimit, pane>>

\* Where no repository is shown, the workspace is asked for.
Refresh ==
  /\ Ask("snapshot", IF pane.root = NoRoot THEN HomeDir ELSE pane.root, commitLimit)
  /\ UNCHANGED <<commitLimit, pane>>

\* Not while a growth is pending, nor when history is exhausted.
RequestMoreCommits ==
  /\ ~pane.more /\ pane.pages >= commitLimit /\ pane.root # NoRoot
  /\ commitLimit < MaxPages
  /\ commitLimit' = commitLimit + 1
  /\ pane' = [pane EXCEPT !.more = TRUE]
  /\ Ask("snapshot", pane.root, commitLimit + 1)

RequestDiff ==
  /\ pane.root # NoRoot
  /\ Ask("diff", pane.root, 0)
  /\ UNCHANGED <<commitLimit, pane>>

RequestCommitDetail ==
  /\ pane.root # NoRoot /\ pane.pages > 0
  /\ Ask("detail", pane.root, 0)
  /\ UNCHANGED <<commitLimit, pane>>

CloseOverlay ==
  /\ pane.detail # 0 \/ pane.diff # 0
  /\ pane' = IF pane.detail # 0 THEN [pane EXCEPT !.detail = 0] ELSE [pane EXCEPT !.diff = 0]
  /\ UNCHANGED <<generation, commitLimit, requests, batch, responses, lastAsk>>

\* Slip: one applied generation for all kinds of answers.
Apply_shared(p, r) ==
  IF r.gen < p.snapshotGen THEN p
  ELSE LET q == [p EXCEPT !.snapshotGen = r.gen]
       IN CASE r.kind = "snapshot" -> [q EXCEPT !.more = FALSE, !.root = r.root, !.pages = r.pages]
            [] r.kind = "diff"     -> [q EXCEPT !.diff = r.gen]
            [] r.kind = "detail"   -> [q EXCEPT !.detail = r.gen]

\* An answer older than the last of its own kind is dropped.
Apply(p, r) ==
  CASE r.kind = "snapshot" /\ r.gen >= p.snapshotGen ->
         [p EXCEPT !.snapshotGen = r.gen, !.more = FALSE, !.root = r.root, !.pages = r.pages]
    [] r.kind = "diff" /\ r.gen >= p.diffGen ->
         [p EXCEPT !.diffGen = r.gen, !.diff = r.gen]
    [] r.kind = "detail" /\ r.gen >= p.detailGen ->
         [p EXCEPT !.detailGen = r.gen, !.detail = r.gen]
    [] OTHER -> p

\* The answers rs one after the other.
Applied(p, rs) ==
  LET after[i \in 0..Len(rs)] == IF i = 0 THEN p ELSE Apply(after[i - 1], rs[i])
  IN after[Len(rs)]

PollBackground ==
  /\ responses # <<>>
  /\ pane' = Applied(pane, responses)
  /\ responses' = <<>>
  /\ UNCHANGED <<generation, commitLimit, requests, batch, lastAsk>>

-----------------------------------------------------------------------------
(* The worker.                                                             *)

OfKind(s, kind) == Keep(s, {i \in 1..Len(s) : s[i].kind = kind})

\* Slip: the first snapshot request of the burst is kept.
Collect_keepsFirst ==
  /\ batch = <<>> /\ requests # <<>>
  /\ LET snapshots == OfKind(requests, "snapshot")
     IN batch' = (IF snapshots = <<>> THEN <<>> ELSE <<Head(snapshots)>>)
                   \o OfKind(requests, "diff") \o OfKind(requests, "detail")
  /\ requests' = <<>>
  /\ UNCHANGED <<generation, commitLimit, pane, responses, lastAsk>>

\* Generations grow along the channel, so the newest snapshot request is the
\* last; of the others none is dropped.
Collect ==
  /\ batch = <<>> /\ requests # <<>>
  /\ LET snapshots == OfKind(requests, "snapshot")
     IN batch' = (IF snapshots = <<>> THEN <<>> ELSE <<Last(snapshots)>>)
                   \o OfKind(requests, "diff") \o OfKind(requests, "detail")
  /\ requests' = <<>>
  /\ UNCHANGED <<generation, commitLimit, pane, responses, lastAsk>>

Reply(root, pages) ==
  /\ responses' = Append(responses, [kind |-> Head(batch).kind, gen |-> Head(batch).gen,
                                     root |-> root, pages |-> pages])
  /\ batch' = Tail(batch)
  /\ UNCHANGED <<generation, commitLimit, pane, requests, lastAsk>>

Skip ==
  /\ batch' = Tail(batch)
  /\ UNCHANGED <<generation, commitLimit, pane, requests, responses, lastAsk>>

\* Slip: a snapshot that panics is skipped, as a diff is.
AnswerSnapshot_skips ==
  /\ batch # <<>> /\ Head(batch).kind = "snapshot"
  /\ \/ /\ Head(batch).dir \in Repo
        /\ \E n \in 0..Head(batch).limit : Reply(Head(batch).dir, n)
     \/ Skip

\* Outside a repository, and when the build panics, the snapshot is empty.
AnswerSnapshot ==
  /\ batch # <<>> /\ Head(batch).kind = "snapshot"
  /\ \/ /\ Head(batch).dir \in Repo
        /\ \E n \in 0..Head(batch).limit : Reply(Head(batch).dir, n)
     \/ Reply(NoRoot, 0)

\* A diff or detail that panics is skipped.
AnswerOverlay ==
  /\ batch # <<>> /\ Head(batch).kind \in {"diff", "detail"}
  /\ Reply(Head(batch).dir, 0) \/ Skip

-----------------------------------------------------------------------------
GitNext ==
  \/ \E dir \in Dir : RefreshFor(dir)
  \/ Refresh \/ RequestMoreCommits \/ RequestDiff \/ RequestCommitDetail
  \/ CloseOverlay \/ PollBackground
  \/ Collect \/ AnswerSnapshot \/ AnswerOverlay

GitSpec == GitInit /\ [][GitNext]_gitVars

-----------------------------------------------------------------------------
(* Properties.                                                             *)

RequestType == [kind : {"snapshot", "diff", "detail"}, gen : 1..MaxGen, dir : Dir, limit : 0..MaxPages]
ResponseType == [kind : {"snapshot", "diff", "detail"}, gen : 1..MaxGen,
                 root : Dir \cup {NoRoot}, pages : 0..MaxPages]

GitTypeOK ==
  /\ generation \in 1..MaxGen /\ commitLimit \in 1..MaxPages
  /\ pane \in PaneType
  /\ requests \in Seq(RequestType) /\ batch \in Seq(RequestType)
  /\ responses \in Seq(ResponseType)
  /\ lastAsk \in RequestType

\* When nothing is under way the pane shows the answer to the newest
\* snapshot request, however bursts were coalesced and answers reordered.
SnapshotSettles ==
  requests = <<>> /\ batch = <<>> /\ responses = <<>> =>
    pane.snapshotGen = lastAsk.gen /\ pane.root \in {lastAsk.dir, NoRoot}

\* load_more_in_flight never blocks the list for good: while it is set, a
\* snapshot that will clear it is under way.
LoadMoreAnswered ==
  pane.more => \E s \in {requests, batch, responses} : OfKind(s, "snapshot") # <<>>

\* A diff or detail that arrives is shown unless a newer one arrives with
\* it: it is not dropped for a snapshot that overtook it (the comment on
\* applied_snapshot_generation).
OverlayNotOvertaken ==
  [][responses # <<>> /\ responses' = <<>> =>
       /\ OfKind(responses, "diff") # <<>> => pane'.diff = Last(OfKind(responses, "diff")).gen
       /\ OfKind(responses, "detail") # <<>> => pane'.detail = Last(OfKind(responses, "detail")).gen]_gitVars
=============================================================================
