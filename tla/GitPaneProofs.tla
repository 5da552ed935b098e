------------------------------ MODULE GitPaneProofs ------------------------------
(***************************************************************************)
(* Proofs about GitPane, for any directories and bounds: what the pane     *)
(* shows once nothing is under way, that a pending load of commits is      *)
(* answered, and that an overlay is not lost to a snapshot that overtook   *)
(* it.                                                                     *)
(*                                                                         *)
(* The responses, the worker's batch and the requests are one pipeline     *)
(* from the pane's point of view.  Answers of different kinds overtake     *)
(* each other in it, those of one kind do not: their generations grow      *)
(* along the pipeline, and all are newer than what the pane has applied    *)
(* (PipelineInv).  So of the answers applied in one poll the last of each  *)
(* kind counts (LEMMA AppliedShows), and the newest snapshot request is    *)
(* either in the pipeline or shown (NewestInv).                            *)
(***************************************************************************)
EXTENDS GitPane, ListLemmas

Kinds == {"snapshot", "diff", "detail"}

\* The generation a pane has applied last of a kind, and all that an answer
\* of a kind sets.
GenOf(p, kind) == IF kind = "snapshot" THEN p.snapshotGen
                  ELSE IF kind = "diff" THEN p.diffGen ELSE p.detailGen
PartOf(p, kind) == IF kind = "snapshot" THEN <<p.snapshotGen, p.more, p.root, p.pages>>
                   ELSE IF kind = "diff" THEN <<p.diffGen, p.diff>>
                   ELSE <<p.detailGen, p.detail>>
PartFrom(r) == IF r.kind = "snapshot" THEN <<r.gen, FALSE, r.root, r.pages>>
               ELSE <<r.gen, r.gen>>

\* Generations of one kind grow along s, and from s to t; those of s are
\* newer than what p has applied.
Ordered(s) == \A i, j \in 1..Len(s) : i < j /\ s[i].kind = s[j].kind => s[i].gen < s[j].gen
Before(s, t) == \A i \in 1..Len(s), j \in 1..Len(t) : s[i].kind = t[j].kind => s[i].gen < t[j].gen
NewerThan(s, p) == \A i \in 1..Len(s) : GenOf(p, s[i].kind) < s[i].gen
Upto(s, n) == \A i \in 1..Len(s) : s[i].gen <= n

PipelineInv ==
  /\ Ordered(requests) /\ Ordered(batch) /\ Ordered(responses)
  /\ Before(responses, batch) /\ Before(responses, requests) /\ Before(batch, requests)
  /\ NewerThan(requests, pane) /\ NewerThan(batch, pane) /\ NewerThan(responses, pane)
  /\ Upto(requests, generation) /\ Upto(batch, generation) /\ Upto(responses, generation)
  /\ \A kind \in Kinds : GenOf(pane, kind) <= generation

\* The snapshot requests and answers in s: none is newer than the last one
\* asked for, and that one is about the directory asked for.
AskedFor(s) ==
  \A i \in 1..Len(s) : s[i].kind = "snapshot" =>
    s[i].gen <= lastAsk.gen /\ (s[i].gen = lastAsk.gen => s[i].dir = lastAsk.dir)
Answered(s) ==
  \A i \in 1..Len(s) : s[i].kind = "snapshot" =>
    s[i].gen <= lastAsk.gen /\ (s[i].gen = lastAsk.gen => s[i].root \in {lastAsk.dir, NoRoot})

HasNewest(s) == \E i \in 1..Len(s) : s[i].kind = "snapshot" /\ s[i].gen = lastAsk.gen

NewestInv ==
  /\ lastAsk.gen <= generation
  /\ AskedFor(requests) /\ AskedFor(batch) /\ Answered(responses)
  /\ \/ HasNewest(requests) \/ HasNewest(batch) \/ HasNewest(responses)
     \/ /\ pane.snapshotGen = lastAsk.gen /\ pane.root \in {lastAsk.dir, NoRoot}
        /\ ~pane.more

GitInv == GitTypeOK /\ PipelineInv /\ NewestInv

-----------------------------------------------------------------------------
(* The operators.                                                          *)

\* OfKind returns the elements of the kind, in the order they had.
KindPart(t, s, kind) ==
  /\ \A j \in 1..Len(t) : \E i \in 1..Len(s) : s[i].kind = kind /\ t[j] = s[i]
  /\ \A i \in 1..Len(s) : s[i].kind = kind => \E j \in 1..Len(t) : t[j] = s[i]
  /\ Ordered(s) => Ordered(t)
  /\ t # <<>> => \E l \in 1..Len(s) :
       /\ s[l].kind = kind /\ Last(t) = s[l]
       /\ \A i \in 1..Len(s) : s[i].kind = kind => i <= l

LEMMA OfKindPicks ==
  ASSUME NEW S, NEW s \in Seq(S), NEW kind
  PROVE  OfKind(s, kind) \in Seq(S) /\ KindPart(OfKind(s, kind), s, kind)
<1> DEFINE I == {i \in 1..Len(s) : s[i].kind = kind}
           t == OfKind(s, kind)
<1>1. t = Keep(s, I) /\ I \cap (1..Len(s)) = I
  BY DEF OfKind
<1> HIDE DEF t
<1>2. t \in Seq(S) /\ \E f : Picks(f, s, I, t)
  <2> HIDE DEF I
  <2>1. t \in Seq(S) /\ \E f : Picks(f, s, I \cap (1..Len(s)), t)
    BY <1>1, KeepPicks
  <2> QED
    BY <1>1, <2>1
<1>3. PICK f : Picks(f, s, I, t)
  BY <1>2
<1>4. /\ \A j \in 1..Len(t) : f[j] \in I
      /\ \A j \in 1..Len(t) : t[j] = s[f[j]]
      /\ \A j, k \in 1..Len(t) : j < k => f[j] < f[k]
      /\ \A i \in I : \E j \in 1..Len(t) : f[j] = i
  <2> HIDE DEF I
  <2> QED
    BY <1>3 DEF Picks
<1>5. \A j \in 1..Len(t) : f[j] \in 1..Len(s) /\ s[f[j]].kind = kind /\ t[j] = s[f[j]]
  BY <1>4
<1>6. \A i \in 1..Len(s) : s[i].kind = kind => \E j \in 1..Len(t) : t[j] = s[i]
  BY <1>4
<1>7. ASSUME Ordered(s) PROVE Ordered(t)
  <2> SUFFICES ASSUME NEW j \in 1..Len(t), NEW k \in 1..Len(t), j < k
               PROVE  t[j].gen < t[k].gen
    BY DEF Ordered
  <2>1. f[j] < f[k] /\ f[j] \in 1..Len(s) /\ f[k] \in 1..Len(s)
        /\ s[f[j]].kind = s[f[k]].kind /\ t[j] = s[f[j]] /\ t[k] = s[f[k]]
    BY <1>4, <1>5
  <2> QED
    BY <1>7, <2>1 DEF Ordered
<1>8. ASSUME t # <<>>
      PROVE  \E l \in 1..Len(s) : /\ s[l].kind = kind /\ Last(t) = s[l]
                                  /\ \A i \in 1..Len(s) : s[i].kind = kind => i <= l
  <2> DEFINE n == Len(t)
  <2>1. n \in 1..n /\ Last(t) = t[n]
    BY <1>2, <1>8 DEF Last
  <2>2. \A j \in 1..n : j = n \/ j < n
    BY <2>1
  <2> HIDE DEF n
  <2>3. \A i \in I : i <= f[n]
    <3> TAKE i \in I
    <3>1. PICK j \in 1..n : f[j] = i
      BY <1>4 DEF n
    <3>2. CASE j = n
      BY <3>1, <3>2
    <3>3. CASE j < n
      BY <1>4, <2>1, <3>1, <3>3 DEF n
    <3> QED
      BY <2>2, <3>2, <3>3
  <2>4. f[n] \in 1..Len(s) /\ s[f[n]].kind = kind /\ t[n] = s[f[n]]
    BY <1>5, <2>1 DEF n
  <2> QED
    BY <2>1, <2>3, <2>4
<1>9. KindPart(t, s, kind)
  BY <1>5, <1>6, <1>7, <1>8 DEF KindPart
<1> QED
  BY <1>2, <1>9 DEF t

\* What one answer does: it sets its own part of the pane and no other.
LEMMA ApplyShows ==
  ASSUME NEW p \in PaneType, NEW r \in ResponseType
  PROVE  /\ Apply(p, r) \in PaneType
         /\ GenOf(p, r.kind) < r.gen => PartOf(Apply(p, r), r.kind) = PartFrom(r)
         /\ \A kind \in Kinds \ {r.kind} : PartOf(Apply(p, r), kind) = PartOf(p, kind)
<1>1. /\ r.kind \in Kinds /\ r.gen \in 1..MaxGen /\ r.gen \in 0..MaxGen
      /\ r.root \in Dir \cup {NoRoot} /\ r.pages \in 0..MaxPages
      /\ MaxGen \in Nat /\ p.snapshotGen \in Nat /\ p.diffGen \in Nat /\ p.detailGen \in Nat
  BY GitAssumption DEF ResponseType, PaneType, Kinds, GitAssumption
<1>2. CASE r.kind = "snapshot"
  <2>1. CASE r.gen >= p.snapshotGen
    <3>1. Apply(p, r) = [p EXCEPT !.snapshotGen = r.gen, !.more = FALSE,
                                  !.root = r.root, !.pages = r.pages]
      BY <1>2, <2>1 DEF Apply
    <3> QED
      BY <1>1, <1>2, <3>1 DEF PaneType, PartOf, PartFrom, Kinds
  <2>2. CASE ~(r.gen >= p.snapshotGen)
    <3>1. Apply(p, r) = p
      BY <1>2, <2>2 DEF Apply
    <3>2. ~(GenOf(p, r.kind) < r.gen)
      BY <1>1, <1>2, <2>2 DEF GenOf
    <3> QED
      BY <3>1, <3>2
  <2> QED
    BY <2>1, <2>2
<1>3. CASE r.kind = "diff"
  <2>1. CASE r.gen >= p.diffGen
    <3>1. Apply(p, r) = [p EXCEPT !.diffGen = r.gen, !.diff = r.gen]
      BY <1>3, <2>1 DEF Apply
    <3> QED
      BY <1>1, <1>3, <3>1 DEF PaneType, PartOf, PartFrom, Kinds
  <2>2. CASE ~(r.gen >= p.diffGen)
    <3>1. Apply(p, r) = p
      BY <1>3, <2>2 DEF Apply
    <3>2. ~(GenOf(p, r.kind) < r.gen)
      BY <1>1, <1>3, <2>2 DEF GenOf
    <3> QED
      BY <3>1, <3>2
  <2> QED
    BY <2>1, <2>2
<1>4. CASE r.kind = "detail"
  <2>1. CASE r.gen >= p.detailGen
    <3>1. Apply(p, r) = [p EXCEPT !.detailGen = r.gen, !.detail = r.gen]
      BY <1>4, <2>1 DEF Apply
    <3>2. Apply(p, r) \in PaneType
      BY <1>1, <3>1 DEF PaneType
    <3>3. PartOf(Apply(p, r), "detail") = PartFrom(r)
      BY <1>4, <3>1 DEF PaneType, PartOf, PartFrom
    <3>4. PartOf(Apply(p, r), "snapshot") = PartOf(p, "snapshot")
      BY <3>1 DEF PaneType, PartOf
    <3>5. PartOf(Apply(p, r), "diff") = PartOf(p, "diff")
      BY <3>1 DEF PaneType, PartOf
    <3> QED
      BY <1>4, <3>2, <3>3, <3>4, <3>5 DEF Kinds
  <2>2. CASE ~(r.gen >= p.detailGen)
    <3>1. Apply(p, r) = p
      BY <1>4, <2>2 DEF Apply
    <3>2. ~(GenOf(p, r.kind) < r.gen)
      BY <1>1, <1>4, <2>2 DEF GenOf
    <3> QED
      BY <3>1, <3>2
  <2> QED
    BY <2>1, <2>2
<1> QED
  BY <1>1, <1>2, <1>3, <1>4 DEF Kinds

\* g has the panes in between when the answers rs are applied to p.
Stages(g, p, rs) ==
  /\ g \in [0..Len(rs) -> PaneType] /\ g[0] = p
  /\ \A i \in 1..Len(rs) : g[i] = Apply(g[i - 1], rs[i])
  /\ Applied(p, rs) = g[Len(rs)]

\* The recursion in Applied has a solution.
LEMMA AppliedUnfolds ==
  ASSUME NEW p \in PaneType, NEW rs \in Seq(ResponseType)
  PROVE  \E g : Stages(g, p, rs)
<1> DEFINE n == Len(rs)
           h == [i \in 1..n |-> [q \in PaneType |-> Apply(q, rs[i])]]
           rhs(g) == [i \in 0..n |-> IF i = 0 THEN p ELSE Apply(g[i - 1], rs[i])]
           sol == CHOOSE g : g = rhs(g)
<1>1. n \in Nat /\ \A i \in 1..n : rs[i] \in ResponseType
  OBVIOUS
<1>2. Applied(p, rs) = sol[n] /\ n = Len(rs)
  BY DEF Applied
<1> HIDE DEF n
<1>3. h \in [1..n -> [PaneType -> PaneType]]
  BY <1>1, ApplyShows
<1>4. PICK g \in [0..n -> PaneType] : g[0] = p /\ \A i \in 1..n : g[i] = h[i][g[i - 1]]
  <2> HIDE DEF h
  <2>1. \E g : Iterates(g, PaneType, p, n, h)
    BY <1>1, <1>3, Recursion
  <2> QED
    BY <2>1 DEF Iterates
<1>5. \A i \in 1..n : i - 1 \in 0..n /\ i \in 0..n /\ i # 0
  BY <1>1
<1>6. ASSUME NEW i \in 0..n PROVE g[i] = rhs(g)[i]
  <2>1. CASE i = 0
    BY <1>4, <2>1
  <2>2. CASE i # 0
    <3>1. i \in 1..n /\ g[i - 1] \in PaneType
      BY <1>1, <1>4, <1>5, <2>2
    <3> QED
      BY <1>4, <2>2, <3>1
  <2> QED
    BY <2>1, <2>2
<1>7. g = rhs(g)
  <2> HIDE DEF h
  <2> QED
    BY <1>4, <1>6
<1>8. sol = rhs(sol)
  <2> HIDE DEF rhs
  <2> QED
    BY <1>7
<1> HIDE DEF sol, h
<1>9. 0 \in 0..n /\ sol[0] = p /\ \A i \in 1..n : sol[i] = Apply(sol[i - 1], rs[i])
  <2>1. \A i \in 0..n : sol[i] = rhs(sol)[i]
    BY <1>8
  <2> QED
    BY <1>1, <1>5, <2>1
<1>10. \A i \in 0..n : sol[i] \in PaneType
  <2> DEFINE T == {i \in 0..n : sol[i] \in PaneType}
  <2>1. 0 \in T
    BY <1>9
  <2>2. ASSUME NEW i \in 1..n, i - 1 \in T PROVE i \in T
    <3>1. sol[i] \in PaneType
      BY <1>1, <1>9, <2>2, ApplyShows
    <3> QED
      BY <1>5, <3>1
  <2> HIDE DEF T
  <2>3. \A i \in 0..n : i \in T
    BY <1>1, <2>1, <2>2, Induction
  <2> QED
    BY <2>3 DEF T
<1>11. sol = [i \in 0..n |-> sol[i]]
  BY <1>8
<1>12. sol \in [0..n -> PaneType]
  BY <1>10, <1>11
<1> QED
  BY <1>2, <1>9, <1>12 DEF Stages

\* After i answers, the part of the pane for a kind is that of the last
\* answer of the kind, or what it was.
Shows(q, p, rs, i, kind) ==
  \/ /\ \A j \in 1..i : rs[j].kind # kind
     /\ PartOf(q, kind) = PartOf(p, kind)
  \/ \E j \in 1..i :
       /\ rs[j].kind = kind /\ PartOf(q, kind) = PartFrom(rs[j])
       /\ \A m \in 1..i : rs[m].kind = kind => m <= j

\* The part of a kind has its generation.
LEMMA PartGen ==
  ASSUME NEW p, NEW q, NEW kind, PartOf(p, kind) = PartOf(q, kind)
  PROVE  GenOf(p, kind) = GenOf(q, kind)
BY DEF PartOf, GenOf

LEMMA PartFromGen ==
  ASSUME NEW q, NEW r, PartOf(q, r.kind) = PartFrom(r)
  PROVE  GenOf(q, r.kind) = r.gen
BY DEF PartOf, GenOf, PartFrom

\* Of answers applied in one go the last of each kind counts.
LEMMA AppliedShows ==
  ASSUME NEW p \in PaneType, NEW rs \in Seq(ResponseType), Ordered(rs), NewerThan(rs, p)
  PROVE  /\ Applied(p, rs) \in PaneType
         /\ \A kind \in Kinds : Shows(Applied(p, rs), p, rs, Len(rs), kind)
<1> DEFINE n == Len(rs)
<1>1. PICK g : Stages(g, p, rs)
  BY AppliedUnfolds
<1>2. /\ g \in [0..n -> PaneType] /\ g[0] = p
      /\ \A i \in 1..n : g[i] = Apply(g[i - 1], rs[i])
      /\ Applied(p, rs) = g[n]
  BY <1>1 DEF Stages
<1>3. n \in Nat /\ \A i \in 1..n : rs[i] \in ResponseType /\ rs[i].kind \in Kinds /\ rs[i].gen \in Nat
  <2>1. n \in Nat /\ \A i \in 1..n : rs[i] \in ResponseType
    OBVIOUS
  <2>2. \A r \in ResponseType : r.kind \in Kinds /\ r.gen \in Nat
    BY GitAssumption DEF ResponseType, Kinds, GitAssumption
  <2> QED
    BY <2>1, <2>2
<1>4. /\ \A i, j \in 1..n : i < j /\ rs[i].kind = rs[j].kind => rs[i].gen < rs[j].gen
      /\ \A i \in 1..n : GenOf(p, rs[i].kind) < rs[i].gen
  BY DEF Ordered, NewerThan
<1> HIDE DEF n
<1> DEFINE T == {i \in 0..n : \A kind \in Kinds : Shows(g[i], p, rs, i, kind)}
<1>5. 0 \in T
  <2>1. 0 \in 0..n /\ 1..0 = {}
    BY <1>3
  <2> QED
    BY <1>2, <2>1 DEF Shows
<1>6. ASSUME NEW i \in 1..n, i - 1 \in T PROVE i \in T
  <2> DEFINE r == rs[i]
             q == g[i - 1]
  <2>1. /\ i \in 0..n /\ i - 1 \in 0..n /\ q \in PaneType /\ r \in ResponseType
        /\ r.kind \in Kinds /\ g[i] = Apply(q, r)
        /\ \A j \in 1..(i - 1) : j \in 1..n /\ j < i
        /\ \A j \in 1..i : j = i \/ j \in 1..(i - 1)
        /\ \A j \in 1..(i - 1) : j \in 1..i
        /\ i \in 1..i
    BY <1>2, <1>3
  <2>2. \A kind \in Kinds : Shows(q, p, rs, i - 1, kind)
    BY <1>6
  <2> HIDE DEF q, T
  <2>3. GenOf(q, r.kind) < r.gen
    <3>1. CASE \A j \in 1..(i - 1) : rs[j].kind # r.kind
      <4>1. PartOf(q, r.kind) = PartOf(p, r.kind)
        BY <2>1, <2>2, <3>1 DEF Shows
      <4> QED
        BY <1>4, <4>1, PartGen
    <3>2. CASE \E j \in 1..(i - 1) : rs[j].kind = r.kind
      <4>1. PICK j \in 1..(i - 1) : rs[j].kind = r.kind /\ PartOf(q, r.kind) = PartFrom(rs[j])
        BY <2>1, <2>2, <3>2 DEF Shows
      <4>2. GenOf(q, rs[j].kind) = rs[j].gen
        BY <4>1, PartFromGen
      <4> QED
        BY <1>4, <2>1, <4>1, <4>2
    <3> QED
      BY <3>1, <3>2
  <2>4. /\ PartOf(g[i], r.kind) = PartFrom(r)
        /\ \A kind \in Kinds \ {r.kind} : PartOf(g[i], kind) = PartOf(q, kind)
    BY <2>1, <2>3, ApplyShows
  <2> HIDE DEF r
  <2>5. ASSUME NEW kind \in Kinds PROVE Shows(g[i], p, rs, i, kind)
    <3>1. CASE kind = r.kind
      <4>1. /\ rs[i].kind = kind /\ PartOf(g[i], kind) = PartFrom(rs[i])
            /\ \A m \in 1..i : rs[m].kind = kind => m <= i
        BY <1>3, <2>4, <3>1 DEF r
      <4> QED
        BY <2>1, <4>1 DEF Shows
    <3>2. CASE kind # r.kind
      <4>1. PartOf(g[i], kind) = PartOf(q, kind)
        BY <2>4, <3>2
      <4>2. CASE \A j \in 1..(i - 1) : rs[j].kind # kind
        <5>1. PartOf(q, kind) = PartOf(p, kind)
          BY <2>2, <4>2 DEF Shows
        <5>2. \A j \in 1..i : rs[j].kind # kind
          BY <2>1, <3>2, <4>2 DEF r
        <5> QED
          BY <4>1, <5>1, <5>2 DEF Shows
      <4>3. CASE \E j \in 1..(i - 1) : rs[j].kind = kind
        <5>1. PICK j \in 1..(i - 1) :
                /\ rs[j].kind = kind /\ PartOf(q, kind) = PartFrom(rs[j])
                /\ \A m \in 1..(i - 1) : rs[m].kind = kind => m <= j
          BY <2>2, <4>3 DEF Shows
        <5>2. \A m \in 1..i : rs[m].kind = kind => m <= j
          BY <2>1, <3>2, <5>1 DEF r
        <5> QED
          BY <2>1, <4>1, <5>1, <5>2 DEF Shows
      <4> QED
        BY <4>2, <4>3
    <3> QED
      BY <3>1, <3>2
  <2> QED
    BY <2>1, <2>5 DEF T
<1> HIDE DEF T
<1>7. n \in T
  <2>1. \A i \in 0..n : i \in T
    BY <1>3, <1>5, <1>6, Induction
  <2> QED
    BY <1>3, <2>1
<1>8. g[n] \in PaneType
  BY <1>2, <1>3
<1> QED
  BY <1>2, <1>7, <1>8 DEF n, T

-----------------------------------------------------------------------------
(* The actions.                                                            *)

\* Fields of what is on the way.
LEMMA OnTheWay ==
  ASSUME NEW s, s \in Seq(RequestType) \/ s \in Seq(ResponseType)
  PROVE  /\ Len(s) \in Nat
         /\ \A i \in 1..Len(s) : s[i].kind \in Kinds /\ s[i].gen \in Nat
<1>1. CASE s \in Seq(RequestType)
  <2>1. Len(s) \in Nat /\ \A i \in 1..Len(s) : s[i] \in RequestType
    BY <1>1
  <2>2. \A r \in RequestType : r.kind \in Kinds /\ r.gen \in Nat
    BY GitAssumption DEF RequestType, Kinds, GitAssumption
  <2> QED
    BY <2>1, <2>2
<1>2. CASE s \in Seq(ResponseType)
  <2>1. Len(s) \in Nat /\ \A i \in 1..Len(s) : s[i] \in ResponseType
    BY <1>2
  <2>2. \A r \in ResponseType : r.kind \in Kinds /\ r.gen \in Nat
    BY GitAssumption DEF ResponseType, Kinds, GitAssumption
  <2> QED
    BY <2>1, <2>2
<1> QED
  BY <1>1, <1>2

\* A step that leaves the pipeline, the last request and what the pane has
\* applied alone, and does not begin to load.
LEMMA QuietStep ==
  ASSUME GitInv, UNCHANGED <<generation, requests, batch, responses, lastAsk>>,
         pane' \in PaneType, commitLimit' \in 1..MaxPages,
         \A kind \in Kinds : GenOf(pane', kind) = GenOf(pane, kind),
         pane'.root = pane.root, pane'.more = pane.more
  PROVE  GitInv'
<1>1. GitTypeOK'
  BY DEF GitInv, GitTypeOK
<1>2. pane'.snapshotGen = pane.snapshotGen
  BY DEF GenOf, Kinds
<1>3. NewerThan(requests, pane') /\ NewerThan(batch, pane') /\ NewerThan(responses, pane')
  BY OnTheWay DEF GitInv, PipelineInv, NewerThan, GitTypeOK
<1>4. PipelineInv'
  BY <1>3 DEF GitInv, PipelineInv, Ordered, Before, NewerThan, Upto
<1>5. NewestInv'
  BY <1>2 DEF GitInv, NewestInv, AskedFor, Answered, HasNewest
<1> QED
  BY <1>1, <1>4, <1>5 DEF GitInv

\* A request takes the next generation; it is the newest there is.
LEMMA AskStep ==
  ASSUME GitInv, NEW kind \in Kinds, NEW dir \in Dir, NEW limit \in 0..MaxPages,
         Ask(kind, dir, limit),
         pane' \in PaneType, commitLimit' \in 1..MaxPages,
         \A k \in Kinds : GenOf(pane', k) = GenOf(pane, k),
         kind = "snapshot" \/ UNCHANGED pane
  PROVE  GitInv'
<1> DEFINE r == Request(kind, dir, limit)
<1>1. /\ generation < MaxGen /\ generation' = generation + 1
      /\ requests' = Append(requests, r)
      /\ lastAsk' = IF kind = "snapshot" THEN r ELSE lastAsk
      /\ UNCHANGED <<batch, responses>>
  BY DEF Ask
<1>2. /\ requests \in Seq(RequestType) /\ batch \in Seq(RequestType) /\ responses \in Seq(ResponseType)
      /\ generation \in 1..MaxGen /\ MaxGen \in Nat /\ generation \in Nat /\ lastAsk \in RequestType
  BY GitAssumption DEF GitInv, GitTypeOK, GitAssumption
<1>3. /\ r \in RequestType /\ r.kind = kind /\ r.gen = generation + 1 /\ r.dir = dir
      /\ generation + 1 \in 1..MaxGen
  <2>1. generation + 1 \in 1..MaxGen
    BY <1>1, <1>2
  <2> QED
    BY <2>1 DEF Request, RequestType, Kinds
<1> HIDE DEF r
<1> DEFINE n == Len(requests)
<1>4. /\ requests' \in Seq(RequestType) /\ n \in Nat /\ Len(requests') = n + 1
      /\ requests'[n + 1] = r /\ \A i \in 1..n : requests'[i] = requests[i]
  BY <1>1, <1>2, <1>3
<1>5. \A i \in 1..Len(requests') : i = n + 1 \/ i \in 1..n
  BY <1>4
<1> HIDE DEF n
<1>6. GitTypeOK'
  <2>1. lastAsk' \in RequestType
    BY <1>1, <1>2, <1>3
  <2>2. generation' \in 1..MaxGen
    BY <1>1, <1>3
  <2> QED
    BY <1>1, <1>2, <1>4, <2>1, <2>2 DEF GitTypeOK
<1>7. /\ \A i \in 1..Len(requests) : requests[i].kind \in Kinds /\ requests[i].gen \in Nat
      /\ \A i \in 1..Len(batch) : batch[i].kind \in Kinds /\ batch[i].gen \in Nat
      /\ \A i \in 1..Len(responses) : responses[i].kind \in Kinds /\ responses[i].gen \in Nat
  BY <1>2, OnTheWay
<1>8. /\ \A i \in 1..n : requests[i].gen <= generation /\ requests[i].gen \in Nat
      /\ \A i \in 1..Len(batch) : batch[i].gen <= generation /\ batch[i].gen \in Nat
      /\ \A i \in 1..Len(responses) : responses[i].gen <= generation /\ responses[i].gen \in Nat
      /\ \A k \in Kinds : GenOf(pane, k) <= generation /\ GenOf(pane, k) \in Nat
  <2>1. \A k \in Kinds : GenOf(pane, k) \in Nat
    BY GitAssumption DEF GitInv, GitTypeOK, PaneType, GenOf, GitAssumption
  <2> QED
    BY <1>7, <2>1 DEF GitInv, PipelineInv, Upto, n
<1>9. PipelineInv'
  <2>1. Ordered(requests')
    <3> SUFFICES ASSUME NEW i \in 1..Len(requests'), NEW j \in 1..Len(requests'), i < j,
                        requests'[i].kind = requests'[j].kind
                 PROVE  requests'[i].gen < requests'[j].gen
      BY DEF Ordered
    <3>1. i \in 1..n
      BY <1>4, <1>5
    <3>2. CASE j \in 1..n
      BY <1>4, <3>1, <3>2 DEF GitInv, PipelineInv, Ordered, n
    <3>3. CASE j = n + 1
      <4>1. requests'[i].gen = requests[i].gen /\ requests'[j].gen = generation + 1
        BY <1>3, <1>4, <3>1, <3>3
      <4>2. \A g, a \in Nat : a <= g => a < g + 1
        OBVIOUS
      <4>3. requests[i].gen < generation + 1
        BY <1>2, <1>8, <3>1, <4>2
      <4> QED
        BY <4>1, <4>3
    <3> QED
      BY <1>5, <3>2, <3>3
  <2>2. Before(responses, requests') /\ Before(batch, requests')
    <3>1. ASSUME NEW i \in 1..Len(responses), NEW j \in 1..Len(requests'),
                 responses[i].kind = requests'[j].kind
          PROVE  responses[i].gen < requests'[j].gen
      <4>1. CASE j \in 1..n
        BY <1>4, <3>1, <4>1 DEF GitInv, PipelineInv, Before, n
      <4>2. CASE j = n + 1
        BY <1>2, <1>3, <1>4, <1>8, <4>2, SMTT(20)
      <4> QED
        BY <1>5, <4>1, <4>2
    <3>2. ASSUME NEW i \in 1..Len(batch), NEW j \in 1..Len(requests'),
                 batch[i].kind = requests'[j].kind
          PROVE  batch[i].gen < requests'[j].gen
      <4>1. CASE j \in 1..n
        BY <1>4, <3>2, <4>1 DEF GitInv, PipelineInv, Before, n
      <4>2. CASE j = n + 1
        BY <1>2, <1>3, <1>4, <1>8, <4>2
      <4> QED
        BY <1>5, <4>1, <4>2
    <3> QED
      BY <3>1, <3>2 DEF Before
  <2>3. NewerThan(requests', pane')
    <3> SUFFICES ASSUME NEW i \in 1..Len(requests')
                 PROVE  GenOf(pane', requests'[i].kind) < requests'[i].gen
      BY DEF NewerThan
    <3>1. CASE i \in 1..n
      BY <1>4, <1>7, <3>1 DEF GitInv, PipelineInv, NewerThan, n
    <3>2. CASE i = n + 1
      BY <1>2, <1>3, <1>4, <1>8, <3>2
    <3> QED
      BY <1>5, <3>1, <3>2
  <2>4. NewerThan(batch', pane') /\ NewerThan(responses', pane')
    BY <1>1, <1>7 DEF GitInv, PipelineInv, NewerThan
  <2>5. Upto(requests', generation')
    <3> SUFFICES ASSUME NEW i \in 1..Len(requests') PROVE requests'[i].gen <= generation'
      BY DEF Upto
    <3>1. CASE i \in 1..n
      BY <1>1, <1>2, <1>4, <1>8, <3>1
    <3>2. CASE i = n + 1
      BY <1>1, <1>2, <1>3, <1>4, <3>2
    <3> QED
      BY <1>5, <3>1, <3>2
  <2>6. Upto(batch', generation') /\ Upto(responses', generation')
    BY <1>1, <1>2, <1>8, SMTT(20) DEF Upto
  <2>7. \A k \in Kinds : GenOf(pane', k) <= generation'
    BY <1>1, <1>2, <1>8
  <2>8. Ordered(batch') /\ Ordered(responses') /\ Before(responses', batch')
    BY <1>1 DEF GitInv, PipelineInv
  <2>9. Before(responses', requests') /\ Before(batch', requests')
    BY <1>1, <2>2
  <2> QED
    BY <2>1, <2>3, <2>4, <2>5, <2>6, <2>7, <2>8, <2>9 DEF PipelineInv, Ordered, Before, NewerThan, Upto
<1>10. NewestInv'
  <2>1. CASE kind = "snapshot"
    <3>1. lastAsk' = r
      BY <1>1, <2>1
    <3>2. ASSUME NEW i \in 1..Len(requests')
          PROVE  /\ requests'[i].gen <= r.gen
                 /\ requests'[i].gen = r.gen => requests'[i].dir = r.dir
      <4>1. CASE i \in 1..n
        <5>1. /\ requests'[i].gen = requests[i].gen
              /\ requests[i].gen <= generation /\ requests[i].gen \in Nat
          BY <1>4, <1>8, <4>1
        <5>2. r.gen = generation + 1 /\ generation \in Nat
          BY <1>2, <1>3
        <5> QED
          BY <5>1, <5>2
      <4>2. CASE i = n + 1
        BY <1>2, <1>3, <1>4, <4>2
      <4> QED
        BY <1>5, <4>1, <4>2
    <3>3. \A i \in 1..Len(batch) : batch[i].gen < r.gen
      BY <1>2, <1>3, <1>8
    <3>4. \A i \in 1..Len(responses) : responses[i].gen < r.gen
      BY <1>2, <1>3, <1>8
    <3>5. AskedFor(requests)'
      BY <3>1, <3>2 DEF AskedFor
    <3>6. AskedFor(batch)'
      BY <1>1, <1>3, <1>7, <3>1, <3>3, <1>2 DEF AskedFor
    <3>7. Answered(responses)'
      BY <1>1, <1>3, <1>7, <3>1, <3>4, <1>2 DEF Answered
    <3>8. HasNewest(requests)'
      <4>1. n + 1 \in 1..Len(requests')
        BY <1>4
      <4> QED
        BY <1>3, <1>4, <2>1, <3>1, <4>1 DEF HasNewest
    <3>9. lastAsk'.gen <= generation'
      BY <1>1, <1>2, <1>3, <3>1
    <3> QED
      BY <3>5, <3>6, <3>7, <3>8, <3>9 DEF NewestInv
  <2>2. CASE kind # "snapshot"
    <3>1. lastAsk' = lastAsk /\ pane' = pane
      BY <1>1, <2>2
    <3>2. AskedFor(requests)'
      <4> SUFFICES ASSUME NEW i \in 1..Len(requests'), requests'[i].kind = "snapshot"
                   PROVE  /\ requests'[i].gen <= lastAsk.gen
                          /\ requests'[i].gen = lastAsk.gen => requests'[i].dir = lastAsk.dir
        BY <3>1 DEF AskedFor
      <4>1. i \in 1..n
        BY <1>3, <1>4, <1>5, <2>2
      <4> QED
        BY <1>4, <4>1 DEF GitInv, NewestInv, AskedFor, n
    <3>3. AskedFor(batch)' /\ Answered(responses)'
      BY <1>1, <3>1 DEF GitInv, NewestInv, AskedFor, Answered
    <3>4. HasNewest(requests) => HasNewest(requests)'
      <4>1. \A i \in 1..n : i \in 1..Len(requests')
        BY <1>4
      <4> QED
        BY <1>4, <3>1, <4>1 DEF HasNewest, n
    <3>5. HasNewest(batch) => HasNewest(batch)'
      BY <1>1, <3>1 DEF HasNewest
    <3>6. HasNewest(responses) => HasNewest(responses)'
      BY <1>1, <3>1 DEF HasNewest
    <3>7. lastAsk'.gen <= generation'
      <4>1. lastAsk.gen \in Nat /\ lastAsk.gen <= generation
        BY <1>2 DEF GitInv, NewestInv, RequestType
      <4> QED
        BY <1>1, <1>2, <3>1, <4>1
    <3> QED
      BY <3>1, <3>2, <3>3, <3>4, <3>5, <3>6, <3>7 DEF GitInv, NewestInv
  <2> QED
    BY <2>1, <2>2
<1> QED
  BY <1>6, <1>9, <1>10 DEF GitInv

\* What is left of a list without its head.
LEMMA TailOf ==
  ASSUME NEW S, NEW s \in Seq(S), s # <<>>
  PROVE  /\ Tail(s) \in Seq(S) /\ Head(s) = s[1] /\ 1 \in 1..Len(s)
         /\ \A i \in 1..Len(Tail(s)) : i + 1 \in 1..Len(s) /\ Tail(s)[i] = s[i + 1]
         /\ \A i \in 1..Len(s) : i # 1 => i - 1 \in 1..Len(Tail(s)) /\ s[i] = Tail(s)[i - 1]
OBVIOUS

\* What taking the head off the batch keeps.
LEMMA TailStep ==
  ASSUME GitInv, batch # <<>>
  PROVE  LET t == Tail(batch) IN
         /\ t \in Seq(RequestType) /\ Ordered(t) /\ Before(responses, t) /\ Before(t, requests)
         /\ NewerThan(t, pane) /\ Upto(t, generation) /\ AskedFor(t)
         /\ HasNewest(batch) =>
              HasNewest(t) \/ (batch[1].kind = "snapshot" /\ batch[1].gen = lastAsk.gen)
<1> DEFINE t == Tail(batch)
<1>1. batch \in Seq(RequestType)
  BY DEF GitInv, GitTypeOK
<1>2. /\ t \in Seq(RequestType)
      /\ \A i \in 1..Len(t) : i + 1 \in 1..Len(batch) /\ t[i] = batch[i + 1]
      /\ \A i \in 1..Len(batch) : i # 1 => i - 1 \in 1..Len(t) /\ batch[i] = t[i - 1]
  BY <1>1, TailOf
<1> HIDE DEF t
<1>3. Ordered(t)
  <2>1. Ordered(batch)
    BY DEF GitInv, PipelineInv
  <2> SUFFICES ASSUME NEW i \in 1..Len(t), NEW j \in 1..Len(t), i < j, t[i].kind = t[j].kind
               PROVE  t[i].gen < t[j].gen
    BY DEF Ordered
  <2>2. /\ i + 1 \in 1..Len(batch) /\ t[i] = batch[i + 1]
        /\ j + 1 \in 1..Len(batch) /\ t[j] = batch[j + 1]
    BY <1>2
  <2>3. i + 1 < j + 1
    OBVIOUS
  <2> QED
    BY <2>1, <2>2, <2>3 DEF Ordered
<1>4. Before(responses, t)
  <2>1. Before(responses, batch)
    BY DEF GitInv, PipelineInv
  <2> SUFFICES ASSUME NEW i \in 1..Len(responses), NEW j \in 1..Len(t),
                      responses[i].kind = t[j].kind
               PROVE  responses[i].gen < t[j].gen
    BY DEF Before
  <2>2. j + 1 \in 1..Len(batch) /\ t[j] = batch[j + 1]
    BY <1>2
  <2> QED
    BY <2>1, <2>2 DEF Before
<1>5. Before(t, requests)
  <2>1. Before(batch, requests)
    BY DEF GitInv, PipelineInv
  <2> SUFFICES ASSUME NEW i \in 1..Len(t), NEW j \in 1..Len(requests),
                      t[i].kind = requests[j].kind
               PROVE  t[i].gen < requests[j].gen
    BY DEF Before
  <2>2. i + 1 \in 1..Len(batch) /\ t[i] = batch[i + 1]
    BY <1>2
  <2> QED
    BY <2>1, <2>2 DEF Before
<1>6. NewerThan(t, pane) /\ Upto(t, generation) /\ AskedFor(t)
  <2>1. NewerThan(batch, pane) /\ Upto(batch, generation) /\ AskedFor(batch)
    BY DEF GitInv, PipelineInv, NewestInv
  <2>2. NewerThan(t, pane)
    BY <1>2, <2>1 DEF NewerThan
  <2>3. Upto(t, generation)
    BY <1>2, <2>1 DEF Upto
  <2>4. AskedFor(t)
    BY <1>2, <2>1 DEF AskedFor
  <2> QED
    BY <2>2, <2>3, <2>4
<1>7. HasNewest(batch) =>
        HasNewest(t) \/ (batch[1].kind = "snapshot" /\ batch[1].gen = lastAsk.gen)
  BY <1>2 DEF HasNewest
<1> QED
  BY <1>2, <1>3, <1>4, <1>5, <1>6, <1>7 DEF t

\* A diff or a detail may be skipped: no snapshot is lost.
LEMMA SkipStep ==
  ASSUME GitInv, batch # <<>>, batch[1].kind # "snapshot", Skip
  PROVE  GitInv'
<1>1. /\ batch' = Tail(batch)
      /\ UNCHANGED <<generation, commitLimit, pane, requests, responses, lastAsk>>
  BY DEF Skip
<1>2. /\ batch' \in Seq(RequestType) /\ Ordered(batch') /\ Before(responses, batch')
      /\ Before(batch', requests) /\ NewerThan(batch', pane) /\ Upto(batch', generation)
      /\ AskedFor(batch') /\ (HasNewest(batch) => HasNewest(batch'))
  BY <1>1, TailStep
<1>3. GitTypeOK'
  BY <1>1, <1>2 DEF GitInv, GitTypeOK
<1>4. PipelineInv'
  BY <1>1, <1>2 DEF GitInv, PipelineInv, Ordered, Before, NewerThan, Upto
<1>5. NewestInv'
  BY <1>1, <1>2 DEF GitInv, NewestInv, AskedFor, Answered, HasNewest
<1> QED
  BY <1>3, <1>4, <1>5 DEF GitInv

\* The answer to the head of the batch goes to the end of the responses: no
\* answer of its kind is behind it, no request of its kind in front.
LEMMA ReplyStep ==
  ASSUME GitInv, batch # <<>>, NEW root \in Dir \cup {NoRoot}, NEW pages \in 0..MaxPages,
         batch[1].kind = "snapshot" => root \in {batch[1].dir, NoRoot},
         Reply(root, pages)
  PROVE  GitInv'
<1> DEFINE a == [kind |-> batch[1].kind, gen |-> batch[1].gen, root |-> root, pages |-> pages]
           n == Len(responses)
<1>1. batch \in Seq(RequestType) /\ responses \in Seq(ResponseType) /\ requests \in Seq(RequestType)
  BY DEF GitInv, GitTypeOK
<1>2. /\ Head(batch) = batch[1] /\ 1 \in 1..Len(batch) /\ batch[1] \in RequestType
      /\ \A i \in 1..Len(Tail(batch)) : i + 1 \in 1..Len(batch) /\ Tail(batch)[i] = batch[i + 1]
  BY <1>1, TailOf
<1>3. /\ responses' = Append(responses, a) /\ batch' = Tail(batch)
      /\ UNCHANGED <<generation, commitLimit, pane, requests, lastAsk>>
  BY <1>2 DEF Reply
<1>4. a \in ResponseType /\ a.kind = batch[1].kind /\ a.gen = batch[1].gen /\ a.root = root
  BY <1>2 DEF RequestType, ResponseType
<1> HIDE DEF a
<1>5. /\ responses' \in Seq(ResponseType) /\ n \in Nat /\ Len(responses') = n + 1
      /\ responses'[n + 1] = a /\ \A i \in 1..n : responses'[i] = responses[i]
  BY <1>1, <1>3, <1>4
<1>6. \A i \in 1..Len(responses') : i = n + 1 \/ i \in 1..n
  BY <1>5
<1>6a. \A i \in 1..n : i \in 1..Len(responses') /\ i # n + 1
  BY <1>5
<1>6b. n + 1 \in 1..Len(responses')
  BY <1>5
<1> HIDE DEF n
<1>7. /\ batch' \in Seq(RequestType) /\ Ordered(batch') /\ Before(responses, batch')
      /\ Before(batch', requests) /\ NewerThan(batch', pane) /\ Upto(batch', generation)
      /\ AskedFor(batch')
      /\ HasNewest(batch) =>
           HasNewest(batch') \/ (batch[1].kind = "snapshot" /\ batch[1].gen = lastAsk.gen)
  BY <1>3, TailStep
<1>8. GitTypeOK'
  BY <1>3, <1>5, <1>7 DEF GitInv, GitTypeOK
<1>9. PipelineInv'
  <2>1. Ordered(responses')
    <3> SUFFICES ASSUME NEW i \in 1..Len(responses'), NEW j \in 1..Len(responses'), i < j,
                        responses'[i].kind = responses'[j].kind
                 PROVE  responses'[i].gen < responses'[j].gen
      BY DEF Ordered
    <3>1. i \in 1..n
      BY <1>5, <1>6
    <3>2. CASE j \in 1..n
      BY <1>5, <3>1, <3>2 DEF GitInv, PipelineInv, Ordered, n
    <3>3. CASE j = n + 1
      BY <1>2, <1>4, <1>5, <3>1, <3>3 DEF GitInv, PipelineInv, Before, n
    <3> QED
      BY <1>6, <3>2, <3>3
  <2>2. Before(responses', batch')
    <3> SUFFICES ASSUME NEW i \in 1..Len(responses'), NEW j \in 1..Len(batch'),
                        responses'[i].kind = batch'[j].kind
                 PROVE  responses'[i].gen < batch'[j].gen
      BY DEF Before
    <3>1. CASE i \in 1..n
      BY <1>5, <1>7, <3>1 DEF Before, n
    <3>2. CASE i = n + 1
      <4>1. j + 1 \in 1..Len(batch) /\ batch'[j] = batch[j + 1] /\ 1 < j + 1
        BY <1>2, <1>3, <1>7
      <4>2. batch[1].kind = batch[j + 1].kind
        BY <1>4, <1>5, <3>2, <4>1
      <4> QED
        BY <1>2, <1>4, <1>5, <3>2, <4>1, <4>2 DEF GitInv, PipelineInv, Ordered
    <3> QED
      BY <1>6, <3>1, <3>2
  <2>3. Before(responses', requests)
    <3> SUFFICES ASSUME NEW i \in 1..Len(responses'), NEW j \in 1..Len(requests),
                        responses'[i].kind = requests[j].kind
                 PROVE  responses'[i].gen < requests[j].gen
      BY DEF Before
    <3>1. CASE i \in 1..n
      BY <1>5, <3>1 DEF GitInv, PipelineInv, Before, n
    <3>2. CASE i = n + 1
      BY <1>2, <1>4, <1>5, <3>2 DEF GitInv, PipelineInv, Before
    <3> QED
      BY <1>6, <3>1, <3>2
  <2>4. NewerThan(responses', pane)
    <3> SUFFICES ASSUME NEW i \in 1..Len(responses')
                 PROVE  GenOf(pane, responses'[i].kind) < responses'[i].gen
      BY DEF NewerThan
    <3>1. CASE i \in 1..n
      BY <1>5, <3>1 DEF GitInv, PipelineInv, NewerThan, n
    <3>2. CASE i = n + 1
      BY <1>2, <1>4, <1>5, <3>2 DEF GitInv, PipelineInv, NewerThan
    <3> QED
      BY <1>6, <3>1, <3>2
  <2>5. Upto(responses', generation)
    <3> SUFFICES ASSUME NEW i \in 1..Len(responses') PROVE responses'[i].gen <= generation
      BY DEF Upto
    <3>1. CASE i \in 1..n
      BY <1>5, <3>1 DEF GitInv, PipelineInv, Upto, n
    <3>2. CASE i = n + 1
      BY <1>2, <1>4, <1>5, <3>2 DEF GitInv, PipelineInv, Upto
    <3> QED
      BY <1>6, <3>1, <3>2
  <2>6. Ordered(requests)' /\ Ordered(batch)' /\ Ordered(responses)'
    BY <1>3, <1>7, <2>1 DEF GitInv, PipelineInv, Ordered
  <2>7. Before(responses, batch)' /\ Before(responses, requests)' /\ Before(batch, requests)'
    BY <1>3, <1>7, <2>2, <2>3 DEF Before
  <2>8. NewerThan(requests, pane)' /\ NewerThan(batch, pane)' /\ NewerThan(responses, pane)'
    BY <1>3, <1>7, <2>4 DEF GitInv, PipelineInv, NewerThan
  <2>9. /\ Upto(requests, generation)' /\ Upto(batch, generation)' /\ Upto(responses, generation)'
        /\ \A kind \in Kinds : GenOf(pane', kind) <= generation'
    BY <1>3, <1>7, <2>5 DEF GitInv, PipelineInv, Upto
  <2> QED
    BY <2>6, <2>7, <2>8, <2>9 DEF PipelineInv
<1>10. NewestInv'
  <2>1. Answered(responses')
    <3> SUFFICES ASSUME NEW i \in 1..Len(responses'), responses'[i].kind = "snapshot"
                 PROVE  /\ responses'[i].gen <= lastAsk.gen
                        /\ responses'[i].gen = lastAsk.gen =>
                             responses'[i].root \in {lastAsk.dir, NoRoot}
      BY DEF Answered
    <3>1. CASE i \in 1..n
      BY <1>5, <3>1 DEF GitInv, NewestInv, Answered, n
    <3>2. CASE i = n + 1
      BY <1>2, <1>4, <1>5, <3>2 DEF GitInv, NewestInv, AskedFor
    <3> QED
      BY <1>6, <3>1, <3>2
  <2>2. HasNewest(responses) => HasNewest(responses')
    BY <1>5, <1>6a DEF HasNewest, n
  <2>3. HasNewest(batch) => HasNewest(batch') \/ HasNewest(responses')
    BY <1>4, <1>5, <1>6b, <1>7 DEF HasNewest
  <2>4. /\ lastAsk.gen <= generation /\ AskedFor(requests)
        /\ \/ HasNewest(requests) \/ HasNewest(batch) \/ HasNewest(responses)
           \/ /\ pane.snapshotGen = lastAsk.gen /\ pane.root \in {lastAsk.dir, NoRoot}
              /\ ~pane.more
    BY DEF GitInv, NewestInv
  <2> QED
    BY <1>3, <1>7, <2>1, <2>2, <2>3, <2>4 DEF NewestInv, AskedFor, Answered, HasNewest
<1> QED
  BY <1>8, <1>9, <1>10 DEF GitInv

\* The elements of s are elements of t.
Among(s, t) == \A i \in 1..Len(s) : \E j \in 1..Len(t) : s[i] = t[j]
Apart(s, t) == \A i \in 1..Len(s), j \in 1..Len(t) : s[i].kind # t[j].kind

\* Two lists of different kinds one after the other.
LEMMA JoinApart ==
  ASSUME NEW S, NEW s \in Seq(S), NEW t \in Seq(S), NEW u,
         Ordered(s), Ordered(t), Apart(s, t), Among(s, u), Among(t, u)
  PROVE  /\ s \o t \in Seq(S) /\ Ordered(s \o t) /\ Among(s \o t, u)
         /\ Among(s, s \o t) /\ Among(t, s \o t)
         /\ \A i \in 1..Len(s \o t) : \/ \E j \in 1..Len(s) : (s \o t)[i] = s[j]
                                      \/ \E j \in 1..Len(t) : (s \o t)[i] = t[j]
<1> DEFINE w == s \o t
           m == Len(s)
           n == Len(t)
<1>1. /\ w \in Seq(S) /\ m \in Nat /\ n \in Nat /\ Len(w) = m + n
      /\ \A i \in 1..m : w[i] = s[i] /\ i \in 1..Len(w)
      /\ \A i \in 1..n : w[m + i] = t[i] /\ m + i \in 1..Len(w)
  OBVIOUS
<1>2. \A i \in 1..Len(w) : i \in 1..m \/ (i - m \in 1..n /\ i = m + (i - m))
  BY <1>1
<1> HIDE DEF w, m, n
<1>3. \A i \in 1..Len(w) : \/ i \in 1..m /\ w[i] = s[i]
                           \/ i - m \in 1..n /\ w[i] = t[i - m]
  BY <1>1, <1>2
<1>4. Ordered(w)
  <2> SUFFICES ASSUME NEW i \in 1..Len(w), NEW j \in 1..Len(w), i < j, w[i].kind = w[j].kind
               PROVE  w[i].gen < w[j].gen
    BY DEF Ordered
  <2>1. CASE i \in 1..m /\ j \in 1..m
    <3>1. w[i] = s[i] /\ w[j] = s[j]
      BY <1>1, <2>1
    <3> QED
      BY <2>1, <3>1 DEF Ordered, m
  <2>2. CASE i \notin 1..m /\ j \notin 1..m
    <3>1. i - m \in 1..n /\ j - m \in 1..n /\ w[i] = t[i - m] /\ w[j] = t[j - m]
      BY <1>3, <2>2
    <3>2. i - m < j - m
      BY <1>1
    <3> QED
      BY <3>1, <3>2 DEF Ordered, n
  <2>3. CASE i \in 1..m /\ j \notin 1..m
    BY <1>3, <2>3 DEF Apart, m, n
  <2>4. CASE i \notin 1..m /\ j \in 1..m
    BY <1>3, <2>4 DEF Apart, m, n
  <2> QED
    BY <2>1, <2>2, <2>3, <2>4
<1>5. Among(w, u)
  <2> SUFFICES ASSUME NEW i \in 1..Len(w) PROVE \E j \in 1..Len(u) : w[i] = u[j]
    BY DEF Among
  <2>1. CASE i \in 1..m /\ w[i] = s[i]
    BY <2>1 DEF Among, m
  <2>2. CASE i - m \in 1..n /\ w[i] = t[i - m]
    BY <2>2 DEF Among, n
  <2> QED
    BY <1>3, <2>1, <2>2
<1>6. Among(s, w) /\ Among(t, w)
  BY <1>1 DEF Among, m, n
<1>7. \A i \in 1..Len(w) : \/ \E j \in 1..Len(s) : w[i] = s[j]
                           \/ \E j \in 1..Len(t) : w[i] = t[j]
  BY <1>3 DEF m, n
<1> QED
  BY <1>1, <1>4, <1>5, <1>6, <1>7 DEF w

\* What the worker takes of a burst: some of the requests, still in order,
\* among them the newest snapshot request.
Burst(rs) ==
  LET snapshots == OfKind(rs, "snapshot")
  IN (IF snapshots = <<>> THEN <<>> ELSE <<Last(snapshots)>>)
       \o OfKind(rs, "diff") \o OfKind(rs, "detail")

LEMMA BurstOrder ==
  ASSUME NEW rs \in Seq(RequestType), Ordered(rs)
  PROVE  /\ Burst(rs) \in Seq(RequestType) /\ Ordered(Burst(rs)) /\ Among(Burst(rs), rs)
         /\ \A i \in 1..Len(rs) : rs[i].kind = "snapshot" =>
              \E k \in 1..Len(Burst(rs)) :
                Burst(rs)[k].kind = "snapshot" /\ Burst(rs)[k].gen >= rs[i].gen
<1> DEFINE snapshots == OfKind(rs, "snapshot")
           s == IF snapshots = <<>> THEN <<>> ELSE <<Last(snapshots)>>
           d == OfKind(rs, "diff")
           e == OfKind(rs, "detail")
<1>1. \A i \in 1..Len(rs) : rs[i] \in RequestType /\ rs[i].kind \in Kinds /\ rs[i].gen \in Nat
  BY OnTheWay
<1>2. /\ d \in Seq(RequestType) /\ Ordered(d) /\ Among(d, rs)
      /\ \A i \in 1..Len(d) : d[i].kind = "diff"
  <2>1. d \in Seq(RequestType) /\ KindPart(d, rs, "diff")
    BY OfKindPicks
  <2> HIDE DEF d
  <2> QED
    BY <2>1 DEF KindPart, Among
<1>3. /\ e \in Seq(RequestType) /\ Ordered(e) /\ Among(e, rs)
      /\ \A i \in 1..Len(e) : e[i].kind = "detail"
  <2>1. e \in Seq(RequestType) /\ KindPart(e, rs, "detail")
    BY OfKindPicks
  <2> HIDE DEF e
  <2> QED
    BY <2>1 DEF KindPart, Among
<1>4. /\ s \in Seq(RequestType) /\ Ordered(s) /\ Among(s, rs)
      /\ \A i \in 1..Len(s) : s[i].kind = "snapshot"
      /\ \A i \in 1..Len(rs) : rs[i].kind = "snapshot" => Len(s) = 1 /\ s[1].gen >= rs[i].gen
  <2>1. /\ \A i \in 1..Len(rs) : rs[i].kind = "snapshot" =>
             \E j \in 1..Len(snapshots) : snapshots[j] = rs[i]
        /\ snapshots # <<>> => \E l \in 1..Len(rs) :
             /\ rs[l].kind = "snapshot" /\ Last(snapshots) = rs[l]
             /\ \A i \in 1..Len(rs) : rs[i].kind = "snapshot" => i <= l
    <3>1. KindPart(snapshots, rs, "snapshot")
      BY OfKindPicks
    <3> QED
      BY <3>1 DEF KindPart
  <2>2. CASE snapshots = <<>>
    <3>1. s = <<>> /\ Len(s) = 0 /\ 1..Len(s) = {} /\ s \in Seq(RequestType)
      BY <2>2
    <3>2. \A i \in 1..Len(rs) : rs[i].kind # "snapshot"
      <4>1. 1..Len(snapshots) = {}
        BY <2>2
      <4> HIDE DEF snapshots
      <4> QED
        BY <2>1, <4>1
    <3> HIDE DEF s
    <3> QED
      BY <3>1, <3>2 DEF Ordered, Among
  <2>3. CASE snapshots # <<>>
    <3>1. PICK l \in 1..Len(rs) :
            /\ rs[l].kind = "snapshot" /\ Last(snapshots) = rs[l]
            /\ \A i \in 1..Len(rs) : rs[i].kind = "snapshot" => i <= l
      BY <2>1, <2>3
    <3>2. s = <<rs[l]>>
      BY <2>3, <3>1
    <3> HIDE DEF s, snapshots
    <3>3. s \in Seq(RequestType) /\ Len(s) = 1 /\ s[1] = rs[l] /\ 1..Len(s) = {1}
      BY <1>1, <3>2
    <3>4. Ordered(s) /\ Among(s, rs)
      BY <3>1, <3>3 DEF Ordered, Among
    <3>5. ASSUME NEW i \in 1..Len(rs), rs[i].kind = "snapshot" PROVE s[1].gen >= rs[i].gen
      <4>1. i = l \/ i < l
        BY <3>1, <3>5
      <4>2. rs[i].gen = rs[l].gen \/ rs[i].gen < rs[l].gen
        BY <3>1, <3>5, <4>1 DEF Ordered
      <4> QED
        BY <1>1, <3>1, <3>3, <4>2
    <3> QED
      BY <3>1, <3>3, <3>4, <3>5
  <2> QED
    BY <2>2, <2>3
<1> HIDE DEF s, d, e
<1>5. /\ s \o d \in Seq(RequestType) /\ Ordered(s \o d) /\ Among(s \o d, rs) /\ Among(s, s \o d)
      /\ \A i \in 1..Len(s \o d) : (s \o d)[i].kind \in {"snapshot", "diff"}
  <2>1. Apart(s, d)
    BY <1>2, <1>4 DEF Apart
  <2>2. /\ s \o d \in Seq(RequestType) /\ Ordered(s \o d) /\ Among(s \o d, rs) /\ Among(s, s \o d)
        /\ \A i \in 1..Len(s \o d) : \/ \E j \in 1..Len(s) : (s \o d)[i] = s[j]
                                     \/ \E j \in 1..Len(d) : (s \o d)[i] = d[j]
    BY <1>2, <1>4, <2>1, JoinApart
  <2> QED
    BY <1>2, <1>4, <2>2
<1> DEFINE w == s \o d
<1> HIDE DEF w
<1>6. /\ w \o e \in Seq(RequestType) /\ Ordered(w \o e) /\ Among(w \o e, rs) /\ Among(w, w \o e)
  <2>1. Apart(w, e)
    BY <1>3, <1>5 DEF Apart, w
  <2> QED
    BY <1>3, <1>5, <2>1, JoinApart DEF w
<1>7. Burst(rs) = w \o e
  BY DEF Burst, w, s, d, e
<1> DEFINE b == w \o e
<1> HIDE DEF b
<1>8. ASSUME NEW i \in 1..Len(rs), rs[i].kind = "snapshot"
      PROVE  \E k \in 1..Len(b) : b[k].kind = "snapshot" /\ b[k].gen >= rs[i].gen
  <2>1. 1 \in 1..Len(s) /\ s[1].kind = "snapshot" /\ s[1].gen >= rs[i].gen
    BY <1>4, <1>8
  <2>2. PICK j \in 1..Len(w) : s[1] = w[j]
    BY <1>5, <2>1 DEF Among, w
  <2>3. PICK k \in 1..Len(b) : w[j] = b[k]
    BY <1>6 DEF Among, b
  <2> QED
    BY <2>1, <2>2, <2>3
<1> QED
  BY <1>6, <1>7, <1>8 DEF b

\* Taking a burst drops snapshot requests, but not the newest.
LEMMA CollectStep ==
  ASSUME GitInv, Collect
  PROVE  GitInv'
<1>1. /\ batch = <<>> /\ requests # <<>> /\ requests' = <<>> /\ batch' = Burst(requests)
      /\ UNCHANGED <<generation, commitLimit, pane, responses, lastAsk>>
  BY DEF Collect, Burst
<1>2. requests \in Seq(RequestType) /\ Ordered(requests)
  BY DEF GitInv, GitTypeOK, PipelineInv
<1>3. /\ batch' \in Seq(RequestType) /\ Ordered(batch') /\ Among(batch', requests)
      /\ \A i \in 1..Len(requests) : requests[i].kind = "snapshot" =>
           \E k \in 1..Len(batch') :
             batch'[k].kind = "snapshot" /\ batch'[k].gen >= requests[i].gen
  BY <1>1, <1>2, BurstOrder
<1>4. requests' \in Seq(RequestType) /\ 1..Len(requests') = {} /\ 1..Len(batch) = {}
  BY <1>1
<1>5. GitTypeOK'
  BY <1>1, <1>3, <1>4 DEF GitInv, GitTypeOK
<1>6. /\ Before(responses, batch') /\ NewerThan(batch', pane) /\ Upto(batch', generation)
      /\ AskedFor(batch')
  <2>1. /\ Before(responses, requests) /\ NewerThan(requests, pane)
        /\ Upto(requests, generation) /\ AskedFor(requests)
    BY DEF GitInv, PipelineInv, NewestInv
  <2>2. Before(responses, batch')
    BY <1>3, <2>1 DEF Before, Among
  <2>3. NewerThan(batch', pane)
    BY <1>3, <2>1 DEF NewerThan, Among
  <2>4. Upto(batch', generation)
    BY <1>3, <2>1 DEF Upto, Among
  <2>5. AskedFor(batch')
    BY <1>3, <2>1 DEF AskedFor, Among
  <2> QED
    BY <2>2, <2>3, <2>4, <2>5
<1>7. PipelineInv'
  BY <1>1, <1>3, <1>4, <1>6 DEF GitInv, PipelineInv, Ordered, Before, NewerThan, Upto
<1>8. HasNewest(requests) => HasNewest(batch')
  <2> SUFFICES ASSUME NEW i \in 1..Len(requests), requests[i].kind = "snapshot",
                      requests[i].gen = lastAsk.gen
               PROVE  HasNewest(batch')
    BY DEF HasNewest
  <2>1. PICK k \in 1..Len(batch') : batch'[k].kind = "snapshot" /\ batch'[k].gen >= requests[i].gen
    BY <1>3
  <2>2. batch'[k].gen <= lastAsk.gen
    BY <1>6, <2>1 DEF AskedFor
  <2>3. batch'[k].gen \in Nat /\ lastAsk.gen \in Nat
    BY <1>3, OnTheWay, GitAssumption DEF GitInv, GitTypeOK, RequestType, GitAssumption
  <2>4. batch'[k].gen = lastAsk.gen
    BY <2>1, <2>2, <2>3
  <2> QED
    BY <2>1, <2>4 DEF HasNewest
<1>9. ~HasNewest(batch)
  BY <1>4 DEF HasNewest
<1>10. NewestInv'
  BY <1>1, <1>4, <1>6, <1>8, <1>9 DEF GitInv, NewestInv, AskedFor, Answered, HasNewest
<1> QED
  BY <1>5, <1>7, <1>10 DEF GitInv

\* After a poll the pane has, of each kind, the newest of what it took.
LEMMA PollStep ==
  ASSUME GitInv, PollBackground
  PROVE  GitInv'
<1> DEFINE n == Len(responses)
<1>1. /\ pane' = Applied(pane, responses) /\ responses' = <<>>
      /\ UNCHANGED <<generation, commitLimit, requests, batch, lastAsk>>
  BY DEF PollBackground
<1>2. /\ pane \in PaneType /\ responses \in Seq(ResponseType) /\ requests \in Seq(RequestType)
      /\ batch \in Seq(RequestType) /\ lastAsk \in RequestType
      /\ Ordered(responses) /\ NewerThan(responses, pane)
  BY DEF GitInv, GitTypeOK, PipelineInv
<1>3. pane' \in PaneType /\ \A kind \in Kinds : Shows(pane', pane, responses, n, kind)
  BY <1>1, <1>2, AppliedShows
<1>4. responses' \in Seq(ResponseType) /\ 1..Len(responses') = {}
  BY <1>1
<1>5. \A i \in 1..n : responses[i].kind \in Kinds /\ responses[i].gen \in Nat
  BY <1>2, OnTheWay
<1>6. ASSUME NEW kind \in Kinds
      PROVE  \/ GenOf(pane', kind) = GenOf(pane, kind)
             \/ \E j \in 1..n : responses[j].kind = kind /\ GenOf(pane', kind) = responses[j].gen
  <2>1. CASE PartOf(pane', kind) = PartOf(pane, kind)
    BY <2>1, PartGen
  <2>2. CASE \E j \in 1..n : responses[j].kind = kind /\ PartOf(pane', kind) = PartFrom(responses[j])
    BY <2>2, PartFromGen
  <2> QED
    BY <1>3, <2>1, <2>2 DEF Shows
<1>7. GitTypeOK'
  BY <1>1, <1>3, <1>4 DEF GitInv, GitTypeOK
<1>8. PipelineInv'
  <2>1. NewerThan(batch, pane')
    <3> SUFFICES ASSUME NEW i \in 1..Len(batch)
                 PROVE  GenOf(pane', batch[i].kind) < batch[i].gen
      BY DEF NewerThan
    <3>1. batch[i].kind \in Kinds
      BY <1>2, OnTheWay
    <3> QED
      BY <1>6, <3>1 DEF GitInv, PipelineInv, NewerThan, Before
  <2>2. NewerThan(requests, pane')
    <3> SUFFICES ASSUME NEW i \in 1..Len(requests)
                 PROVE  GenOf(pane', requests[i].kind) < requests[i].gen
      BY DEF NewerThan
    <3>1. requests[i].kind \in Kinds
      BY <1>2, OnTheWay
    <3> QED
      BY <1>6, <3>1 DEF GitInv, PipelineInv, NewerThan, Before
  <2>3. \A kind \in Kinds : GenOf(pane', kind) <= generation
    BY <1>6 DEF GitInv, PipelineInv, Upto
  <2> QED
    BY <1>1, <1>4, <2>1, <2>2, <2>3 DEF GitInv, PipelineInv, Ordered, Before, NewerThan, Upto
<1>9. NewestInv'
  <2>1. CASE HasNewest(requests) \/ HasNewest(batch)
    BY <1>1, <1>4, <2>1 DEF GitInv, NewestInv, AskedFor, Answered, HasNewest
  <2>2. CASE HasNewest(responses)
    <3>1. PICK i \in 1..n : responses[i].kind = "snapshot" /\ responses[i].gen = lastAsk.gen
      BY <2>2 DEF HasNewest
    <3>2. PICK j \in 1..n :
            /\ responses[j].kind = "snapshot" /\ PartOf(pane', "snapshot") = PartFrom(responses[j])
            /\ \A m \in 1..n : responses[m].kind = "snapshot" => m <= j
      BY <1>3, <3>1 DEF Shows, Kinds
    <3>3. i = j
      <4>1. i = j \/ i < j
        BY <3>1, <3>2
      <4>2. responses[j].gen <= lastAsk.gen /\ lastAsk.gen \in Nat /\ responses[j].gen \in Nat
        BY <1>2, <1>5, <3>2, GitAssumption DEF GitInv, NewestInv, Answered, RequestType, GitAssumption
      <4>3. i < j => responses[i].gen < responses[j].gen
        BY <1>2, <3>1, <3>2 DEF Ordered
      <4> QED
        BY <3>1, <4>1, <4>2, <4>3
    <3>4. /\ pane'.snapshotGen = responses[j].gen /\ pane'.root = responses[j].root
          /\ pane'.more = FALSE
      BY <3>2 DEF PartOf, PartFrom
    <3>5. responses[j].root \in {lastAsk.dir, NoRoot}
      BY <3>1, <3>3 DEF GitInv, NewestInv, Answered
    <3> QED
      BY <1>1, <1>4, <3>1, <3>3, <3>4, <3>5 DEF GitInv, NewestInv, AskedFor, Answered, HasNewest
  <2>3. CASE /\ ~HasNewest(requests) /\ ~HasNewest(batch) /\ ~HasNewest(responses)
             /\ pane.snapshotGen = lastAsk.gen /\ pane.root \in {lastAsk.dir, NoRoot}
             /\ ~pane.more
    <3>1. \A j \in 1..n : responses[j].kind # "snapshot"
      <4> SUFFICES ASSUME NEW j \in 1..n, responses[j].kind = "snapshot" PROVE FALSE
        OBVIOUS
      <4>1. responses[j].gen <= lastAsk.gen /\ lastAsk.gen < responses[j].gen
        BY <1>2, <2>3 DEF GitInv, NewestInv, Answered, NewerThan, GenOf
      <4>2. responses[j].gen \in Nat /\ lastAsk.gen \in Nat
        BY <1>2, <1>5, GitAssumption DEF RequestType, GitAssumption
      <4> QED
        BY <4>1, <4>2
    <3>2. PartOf(pane', "snapshot") = PartOf(pane, "snapshot")
      BY <1>3, <3>1 DEF Shows, Kinds
    <3>3. pane'.snapshotGen = pane.snapshotGen /\ pane'.root = pane.root /\ pane'.more = pane.more
      BY <3>2 DEF PartOf
    <3> QED
      BY <1>1, <1>4, <2>3, <3>3 DEF GitInv, NewestInv, AskedFor, Answered, HasNewest
  <2> QED
    BY <2>1, <2>2, <2>3 DEF GitInv, NewestInv
<1> QED
  BY <1>7, <1>8, <1>9 DEF GitInv

-----------------------------------------------------------------------------
(* The specification.                                                      *)

LEMMA GitStart ==
  ASSUME GitInit
  PROVE  GitInv
<1>1. /\ requests = <<lastAsk>> /\ batch = <<>> /\ responses = <<>>
      /\ generation = 1 /\ commitLimit = 1 /\ lastAsk.gen = 1 /\ lastAsk.kind = "snapshot"
      /\ \A kind \in Kinds : GenOf(pane, kind) = 0
  BY DEF GitInit, GenOf, Kinds
<1>2. 1 \in 1..MaxGen /\ 1 \in 1..MaxPages /\ 0 \in 0..MaxGen /\ 0 \in 0..MaxPages /\ 1 \in 0..MaxPages
  BY GitAssumption DEF GitAssumption
<1>3. lastAsk \in RequestType
  BY <1>2, GitAssumption DEF GitInit, RequestType, GitAssumption
<1>4. pane \in PaneType
  BY <1>2 DEF GitInit, PaneType
<1>5. /\ Len(requests) = 1 /\ requests[1] = lastAsk /\ 1..Len(requests) = {1}
      /\ 1..Len(batch) = {} /\ 1..Len(responses) = {}
  BY <1>1
<1>6. requests \in Seq(RequestType) /\ batch \in Seq(RequestType) /\ responses \in Seq(ResponseType)
  BY <1>1, <1>3
<1>7. GitTypeOK
  BY <1>1, <1>2, <1>3, <1>4, <1>6 DEF GitTypeOK
<1>8. PipelineInv
  <2>1. GenOf(pane, lastAsk.kind) < lastAsk.gen
    BY <1>1 DEF Kinds
  <2> QED
    BY <1>1, <1>5, <2>1 DEF PipelineInv, Ordered, Before, NewerThan, Upto
<1>9. NewestInv
  BY <1>1, <1>5 DEF NewestInv, AskedFor, Answered, HasNewest
<1> QED
  BY <1>7, <1>8, <1>9 DEF GitInv

LEMMA GitStep ==
  ASSUME GitInv, [GitNext]_gitVars
  PROVE  GitInv'
<1>0. /\ pane \in PaneType /\ commitLimit \in 1..MaxPages /\ batch \in Seq(RequestType)
      /\ 1 \in 1..MaxPages /\ 1 \in 0..MaxPages /\ 0 \in 0..MaxPages /\ HomeDir \in Dir
      /\ commitLimit \in 0..MaxPages /\ MaxPages \in Nat /\ Kinds = {"snapshot", "diff", "detail"}
      /\ pane.root \in Dir \cup {NoRoot}
  BY GitAssumption DEF GitInv, GitTypeOK, GitAssumption, Kinds, PaneType
<1>1. ASSUME NEW dir \in Dir, RefreshFor(dir) PROVE GitInv'
  <2>1. /\ Ask("snapshot", dir, 1) /\ commitLimit' = 1 /\ pane' = [pane EXCEPT !.more = FALSE]
    BY <1>1 DEF RefreshFor
  <2>2. pane' \in PaneType /\ \A k \in Kinds : GenOf(pane', k) = GenOf(pane, k)
    BY <1>0, <2>1 DEF PaneType, GenOf
  <2> QED
    BY <1>0, <2>1, <2>2, AskStep
<1>2. ASSUME Refresh PROVE GitInv'
  <2> DEFINE dir == IF pane.root = NoRoot THEN HomeDir ELSE pane.root
  <2>1. Ask("snapshot", dir, commitLimit) /\ UNCHANGED <<commitLimit, pane>> /\ dir \in Dir
    BY <1>0, <1>2 DEF Refresh
  <2> HIDE DEF dir
  <2> QED
    BY <1>0, <2>1, AskStep
<1>3. ASSUME RequestMoreCommits PROVE GitInv'
  <2>1. /\ Ask("snapshot", pane.root, commitLimit + 1) /\ commitLimit' = commitLimit + 1
        /\ pane' = [pane EXCEPT !.more = TRUE] /\ pane.root # NoRoot /\ commitLimit < MaxPages
    BY <1>3 DEF RequestMoreCommits
  <2>2. pane' \in PaneType /\ \A k \in Kinds : GenOf(pane', k) = GenOf(pane, k)
    BY <1>0, <2>1 DEF PaneType, GenOf
  <2>3. pane.root \in Dir /\ commitLimit + 1 \in 0..MaxPages /\ commitLimit' \in 1..MaxPages
    BY <1>0, <2>1
  <2> QED
    BY <1>0, <2>1, <2>2, <2>3, AskStep
<1>4. ASSUME RequestDiff PROVE GitInv'
  <2>1. /\ Ask("diff", pane.root, 0) /\ UNCHANGED <<commitLimit, pane>> /\ pane.root \in Dir
    BY <1>0, <1>4 DEF RequestDiff
  <2> QED
    BY <1>0, <2>1, AskStep
<1>5. ASSUME RequestCommitDetail PROVE GitInv'
  <2>1. /\ Ask("detail", pane.root, 0) /\ UNCHANGED <<commitLimit, pane>> /\ pane.root \in Dir
    BY <1>0, <1>5 DEF RequestCommitDetail
  <2> QED
    BY <1>0, <2>1, AskStep
<1>6. ASSUME CloseOverlay PROVE GitInv'
  <2>1. /\ pane' = [pane EXCEPT !.detail = 0] \/ pane' = [pane EXCEPT !.diff = 0]
        /\ UNCHANGED <<generation, commitLimit, requests, batch, responses, lastAsk>>
    BY <1>6 DEF CloseOverlay
  <2>2. 0 \in 0..MaxGen
    BY GitAssumption DEF GitAssumption
  <2>3. /\ pane' \in PaneType /\ \A k \in Kinds : GenOf(pane', k) = GenOf(pane, k)
        /\ pane'.root = pane.root /\ pane'.more = pane.more
    BY <1>0, <2>1, <2>2 DEF PaneType, GenOf
  <2> QED
    BY <1>0, <2>1, <2>3, QuietStep
<1>7. ASSUME AnswerSnapshot PROVE GitInv'
  <2>1. batch # <<>> /\ Head(batch) = batch[1] /\ batch[1] \in RequestType /\ batch[1].limit \in 0..MaxPages
        /\ batch[1].dir \in Dir
    <3>1. batch # <<>> /\ Head(batch) = batch[1] /\ 1 \in 1..Len(batch)
      BY <1>0, <1>7, TailOf DEF AnswerSnapshot
    <3>2. batch[1] \in RequestType
      BY <1>0, <3>1
    <3> QED
      BY <3>1, <3>2 DEF RequestType
  <2>2. CASE Reply(NoRoot, 0)
    BY <1>0, <2>1, <2>2, ReplyStep
  <2>3. CASE \E m \in 0..Head(batch).limit : Reply(Head(batch).dir, m)
    <3>1. PICK m \in 0..batch[1].limit : Reply(batch[1].dir, m)
      BY <2>1, <2>3
    <3>2. m \in 0..MaxPages
      BY <1>0, <2>1
    <3> QED
      BY <2>1, <3>1, <3>2, ReplyStep
  <2> QED
    BY <1>7, <2>2, <2>3 DEF AnswerSnapshot
<1>8. ASSUME AnswerOverlay PROVE GitInv'
  <2>1. batch # <<>> /\ Head(batch) = batch[1] /\ batch[1] \in RequestType /\ batch[1].dir \in Dir
        /\ batch[1].kind # "snapshot"
    <3>1. batch # <<>> /\ Head(batch) = batch[1] /\ 1 \in 1..Len(batch)
      BY <1>0, <1>8, TailOf DEF AnswerOverlay
    <3>2. batch[1].kind \in {"diff", "detail"}
      BY <1>8, <3>1 DEF AnswerOverlay
    <3>3. batch[1] \in RequestType
      BY <1>0, <3>1
    <3> QED
      BY <3>1, <3>2, <3>3 DEF RequestType
  <2>2. CASE Reply(Head(batch).dir, 0)
    BY <1>0, <2>1, <2>2, ReplyStep
  <2>3. CASE Skip
    BY <2>1, <2>3, SkipStep
  <2> QED
    BY <1>8, <2>2, <2>3 DEF AnswerOverlay
<1>9. CASE UNCHANGED gitVars
  BY <1>0, <1>9, QuietStep DEF gitVars
<1> QED
  BY <1>1, <1>2, <1>3, <1>4, <1>5, <1>6, <1>7, <1>8, <1>9, PollStep, CollectStep DEF GitNext

LEMMA GitInvariant == GitSpec => []GitInv
<1> QED
  BY GitStart, GitStep, PTL DEF GitSpec

\* Type correctness of the pane, the worker and the channels between them.
THEOREM GitTypes == GitSpec => []GitTypeOK
<1>1. GitInv => GitTypeOK
  BY DEF GitInv
<1> QED
  BY <1>1, GitInvariant, PTL

\* Once requests, batch and answers are worked off, the pane shows the
\* answer to the newest snapshot request (collect_burst keeps the newest,
\* the applied generation drops what is older).
THEOREM ShowsNewest == GitSpec => []SnapshotSettles
<1>1. GitInv => SnapshotSettles
  <2> SUFFICES ASSUME GitInv, requests = <<>>, batch = <<>>, responses = <<>>
               PROVE  pane.snapshotGen = lastAsk.gen /\ pane.root \in {lastAsk.dir, NoRoot}
    BY DEF SnapshotSettles
  <2>1. 1..Len(requests) = {} /\ 1..Len(batch) = {} /\ 1..Len(responses) = {}
    OBVIOUS
  <2> QED
    BY <2>1 DEF GitInv, NewestInv, HasNewest
<1> QED
  BY <1>1, GitInvariant, PTL

\* load_more_in_flight is never left set with no snapshot under way.
THEOREM MoreIsAnswered == GitSpec => []LoadMoreAnswered
<1>1. ASSUME NEW S, NEW s \in Seq(S), HasNewest(s) PROVE OfKind(s, "snapshot") # <<>>
  <2> DEFINE t == OfKind(s, "snapshot")
  <2>1. t \in Seq(S) /\ KindPart(t, s, "snapshot")
    BY OfKindPicks
  <2> HIDE DEF t
  <2>2. Len(t) \in Nat /\ \E j \in 1..Len(t) : TRUE
    BY <1>1, <2>1 DEF HasNewest, KindPart
  <2>3. t # <<>>
    BY <2>2
  <2> QED
    BY <2>3 DEF t
<1>2. GitInv => LoadMoreAnswered
  <2> SUFFICES ASSUME GitInv, pane.more
               PROVE  \E s \in {requests, batch, responses} : OfKind(s, "snapshot") # <<>>
    BY DEF LoadMoreAnswered
  <2>1. requests \in Seq(RequestType) /\ batch \in Seq(RequestType) /\ responses \in Seq(ResponseType)
    BY DEF GitInv, GitTypeOK
  <2>2. HasNewest(requests) \/ HasNewest(batch) \/ HasNewest(responses)
    BY DEF GitInv, NewestInv
  <2> QED
    BY <1>1, <2>1, <2>2
<1> QED
  BY <1>2, GitInvariant, PTL

\* A poll that takes a diff or a detail shows the last of its kind, whatever
\* snapshots it takes with it or has taken before.
THEOREM OverlayShown == GitSpec => OverlayNotOvertaken
<1> DEFINE Shown ==
      responses # <<>> /\ responses' = <<>> =>
        /\ OfKind(responses, "diff") # <<>> => pane'.diff = Last(OfKind(responses, "diff")).gen
        /\ OfKind(responses, "detail") # <<>> => pane'.detail = Last(OfKind(responses, "detail")).gen
<1>1. ASSUME GitInv, [GitNext]_gitVars PROVE [Shown]_gitVars
  <2> SUFFICES ASSUME responses # <<>>, responses' = <<>> PROVE Shown
    OBVIOUS
  <2>1. /\ pane \in PaneType /\ responses \in Seq(ResponseType)
        /\ Ordered(responses) /\ NewerThan(responses, pane)
    BY <1>1 DEF GitInv, GitTypeOK, PipelineInv
  <2>2. PollBackground
    <3>1. responses' # responses
      OBVIOUS
    <3>2. \A x : Append(responses, x) # <<>>
      BY <2>1
    <3>3. \A root, pages : ~Reply(root, pages)
      BY <3>2 DEF Reply
    <3>4. \A kind, dir, limit : ~Ask(kind, dir, limit)
      BY <3>1 DEF Ask
    <3>5. ~CloseOverlay /\ ~Collect /\ ~Skip /\ ~UNCHANGED gitVars
      BY <3>1 DEF CloseOverlay, Collect, Skip, gitVars
    <3>6. ~AnswerSnapshot /\ ~AnswerOverlay
      BY <3>3, <3>5 DEF AnswerSnapshot, AnswerOverlay
    <3>7. /\ \A dir \in Dir : ~RefreshFor(dir)
          /\ ~Refresh /\ ~RequestMoreCommits /\ ~RequestDiff /\ ~RequestCommitDetail
      BY <3>4 DEF RefreshFor, Refresh, RequestMoreCommits, RequestDiff, RequestCommitDetail
    <3> QED
      BY <1>1, <3>5, <3>6, <3>7 DEF GitNext
  <2>3. pane' = Applied(pane, responses)
    BY <2>2 DEF PollBackground
  <2>4. \A kind \in Kinds : Shows(pane', pane, responses, Len(responses), kind)
    BY <2>1, <2>3, AppliedShows
  <2>5. ASSUME NEW kind \in {"diff", "detail"}, OfKind(responses, kind) # <<>>
        PROVE  \E r \in ResponseType : r.kind = kind /\ r = Last(OfKind(responses, kind))
                                       /\ PartOf(pane', kind) = PartFrom(r)
    <3> DEFINE t == OfKind(responses, kind)
    <3>1. KindPart(t, responses, kind) /\ t # <<>>
      BY <2>1, <2>5, OfKindPicks
    <3> HIDE DEF t
    <3>2. PICK l \in 1..Len(responses) :
            /\ responses[l].kind = kind /\ Last(t) = responses[l]
            /\ \A i \in 1..Len(responses) : responses[i].kind = kind => i <= l
      BY <3>1 DEF KindPart
    <3>3. PICK j \in 1..Len(responses) :
            /\ responses[j].kind = kind /\ PartOf(pane', kind) = PartFrom(responses[j])
            /\ \A m \in 1..Len(responses) : responses[m].kind = kind => m <= j
      BY <2>4, <3>2 DEF Shows, Kinds
    <3>4. j = l
      <4>1. j <= l /\ l <= j
        BY <3>2, <3>3
      <4> QED
        BY <4>1
    <3>5. responses[l] \in ResponseType
      BY <2>1
    <3> QED
      BY <3>2, <3>3, <3>4, <3>5 DEF t
  <2>6. OfKind(responses, "diff") # <<>> => pane'.diff = Last(OfKind(responses, "diff")).gen
    BY <2>5 DEF PartOf, PartFrom
  <2>7. OfKind(responses, "detail") # <<>> => pane'.detail = Last(OfKind(responses, "detail")).gen
    BY <2>5 DEF PartOf, PartFrom
  <2> QED
    BY <2>6, <2>7
<1> QED
  BY <1>1, GitInvariant, PTL DEF GitSpec, OverlayNotOvertaken
=============================================================================
