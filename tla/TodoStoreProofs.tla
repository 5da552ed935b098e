---------------------------- MODULE TodoStoreProofs ----------------------------
(***************************************************************************)
(* Proofs about TodoStore, for any tasks, bounds and number of faults:     *)
(* types; no row is lost; an undo spares what an editor did; without       *)
(* faults no row is doubled.                                               *)
(*                                                                         *)
(* Each has an invariant of its own, over TypesInv. KeptInv compares sets  *)
(* of rows: the file, what the store has seen of it and its memory agree   *)
(* up to what is late, carried or excused, and what an operation is about  *)
(* to overwrite it has read, or it is late, or goes on record as unread    *)
(* (a drain after a failed poll).  EditInv and CountInv compare            *)
(* numbers of copies, row by row. EditInv: of a row an editor has touched, *)
(* all that an undo could bring back has as many copies as the store has   *)
(* seen, or the store has yet to see that the editor removed it. CountInv: *)
(* a row is in one place, except while an archive or a drain holds it in   *)
(* two.                                                                    *)
(*                                                                         *)
(* The lemmas before them say what the operations on lists do to the set   *)
(* of rows and to the number of copies.                                    *)
(***************************************************************************)
EXTENDS TodoStore, ListLemmas

-----------------------------------------------------------------------------
(* Lists of rows.                                                          *)

LEMMA EmptyList == ToSet(<<>>) = {}
BY DEF ToSet

\* The rows of two lists one after the other.
LEMMA CatSet ==
  ASSUME NEW S, NEW s \in Seq(S), NEW t \in Seq(S)
  PROVE  s \o t \in Seq(S) /\ ToSet(s \o t) = ToSet(s) \cup ToSet(t)
<1> DEFINE m == Len(s)
           n == Len(t)
           u == s \o t
<1>1. /\ m \in Nat /\ n \in Nat /\ Len(u) = m + n /\ u \in Seq(S)
      /\ \A i \in 1..m : u[i] = s[i]
      /\ \A i \in 1..n : u[m + i] = t[i]
  OBVIOUS
<1>2. /\ ToSet(s) = {s[i] : i \in 1..m} /\ ToSet(t) = {t[i] : i \in 1..n}
      /\ ToSet(u) = {u[i] : i \in 1..(m + n)}
  BY <1>1 DEF ToSet
<1> HIDE DEF m, n, u
<1>3. \A i \in 1..(m + n) : i \in 1..m \/ (i - m \in 1..n /\ m + (i - m) = i)
  BY <1>1
<1>4. (\A i \in 1..m : i \in 1..(m + n)) /\ (\A i \in 1..n : m + i \in 1..(m + n))
  BY <1>1
<1>5. ToSet(u) \subseteq ToSet(s) \cup ToSet(t)
  <2> SUFFICES ASSUME NEW i \in 1..(m + n) PROVE u[i] \in ToSet(s) \cup ToSet(t)
    BY <1>2
  <2>1. CASE i \in 1..m
    BY <1>1, <1>2, <2>1
  <2>2. CASE i - m \in 1..n /\ m + (i - m) = i
    BY <1>1, <1>2, <2>2
  <2> QED
    BY <1>3, <2>1, <2>2
<1>6. ToSet(s) \cup ToSet(t) \subseteq ToSet(u)
  <2>1. \A i \in 1..m : s[i] \in ToSet(u)
    BY <1>1, <1>2, <1>4
  <2>2. \A i \in 1..n : t[i] \in ToSet(u)
    BY <1>1, <1>2, <1>4
  <2> QED
    BY <1>2, <2>1, <2>2
<1> QED
  BY <1>1, <1>5, <1>6 DEF u

\* What Keep takes of a list.
LEMMA KeepSet ==
  ASSUME NEW S, NEW s \in Seq(S), NEW I
  PROVE  Keep(s, I) \in Seq(S) /\ ToSet(Keep(s, I)) = {s[i] : i \in I \cap (1..Len(s))}
<1> DEFINE t == Keep(s, I)
           J == I \cap (1..Len(s))
<1>1. t \in Seq(S)
  BY KeepPicks
<1>2. PICK f : Picks(f, s, J, t)
  BY KeepPicks
<1>3. ToSet(t) = {t[j] : j \in 1..Len(t)}
  BY <1>1 DEF ToSet
<1> HIDE DEF t, J
<1>4. \A j \in 1..Len(t) : t[j] \in {s[i] : i \in J}
  BY <1>2 DEF Picks
<1>5. \A i \in J : s[i] \in {t[j] : j \in 1..Len(t)}
  BY <1>2 DEF Picks
<1>6. ToSet(t) = {s[i] : i \in J}
  BY <1>3, <1>4, <1>5
<1> QED
  BY <1>1, <1>6 DEF t, J

\* A list falls into what is kept and what is not.
LEMMA SplitSet ==
  ASSUME NEW S, NEW s \in Seq(S), NEW I
  PROVE  /\ Keep(s, I) \in Seq(S) /\ Without(s, I) \in Seq(S)
         /\ ToSet(s) = ToSet(Keep(s, I)) \cup ToSet(Without(s, I))
<1>1. ToSet(s) = {s[i] : i \in 1..Len(s)}
  BY DEF ToSet
<1>2. /\ Keep(s, I) \in Seq(S) /\ Without(s, I) \in Seq(S)
      /\ ToSet(Keep(s, I)) = {s[i] : i \in I \cap (1..Len(s))}
      /\ ToSet(Without(s, I)) = {s[i] : i \in ((1..Len(s)) \ I) \cap (1..Len(s))}
  BY KeepSet DEF Without
<1> QED
  BY <1>1, <1>2

\* One row kept.
LEMMA KeepOne ==
  ASSUME NEW S, NEW s \in Seq(S), NEW i \in 1..Len(s)
  PROVE  Keep(s, {i}) = <<s[i]>>
<1> DEFINE t == Keep(s, {i})
           n == Len(t)
<1>1. t \in Seq(S) /\ n \in Nat
  BY KeepPicks
<1>2. PICK f : Picks(f, s, {i} \cap (1..Len(s)), t)
  BY KeepPicks
<1>3. {i} \cap (1..Len(s)) = {i}
  OBVIOUS
<1> HIDE DEF t
<1>4. /\ \A j \in 1..n : f[j] = i /\ t[j] = s[i]
      /\ \A j, k \in 1..n : j < k => f[j] < f[k]
      /\ \E j \in 1..n : f[j] = i
  BY <1>2, <1>3 DEF Picks
<1>5. n = 1
  <2>1. n >= 1
    BY <1>1, <1>4
  <2>2. ~(n >= 2)
    <3>1. SUFFICES ASSUME n >= 2 PROVE FALSE
      OBVIOUS
    <3>2. 1 \in 1..n /\ 2 \in 1..n /\ 1 < 2
      BY <1>1, <3>1
    <3>3. f[1] < f[2] /\ f[1] = i /\ f[2] = i
      BY <1>4, <3>2
    <3> QED
      BY <3>3
  <2>3. \A m \in Nat : m >= 1 /\ ~(m >= 2) => m = 1
    OBVIOUS
  <2> QED
    BY <1>1, <2>1, <2>2, <2>3
<1>6. t[1] = s[i] /\ Len(t) = 1
  BY <1>4, <1>5
<1>7. t = <<s[i]>>
  BY <1>1, <1>6
<1> QED
  BY <1>7 DEF t

\* The rows of a list in which each line that is not one is skipped.
LEMMA ParsedRows ==
  ASSUME NEW S, staging \in Seq(S \cup {Junk}), S \subseteq Row
  PROVE  Parsed \in Seq(S) /\ ToSet(Parsed) = ToSet(staging) \cap Row
<1> DEFINE I == {i \in 1..Len(staging) : staging[i] \in Row}
<1>1. ToSet(staging) = {staging[i] : i \in 1..Len(staging)}
  BY DEF ToSet
<1>2. Keep(staging, I) \in Seq(S \cup {Junk})
      /\ ToSet(Keep(staging, I)) = {staging[i] : i \in I \cap (1..Len(staging))}
  BY KeepSet
<1>3. ToSet(Keep(staging, I)) = ToSet(staging) \cap Row
  BY <1>1, <1>2
<1>4. Junk \notin Row
  BY TodoAssumption DEF TodoAssumption
<1> DEFINE t == Keep(staging, I)
<1> HIDE DEF t
<1>5. \A j \in 1..Len(t) : t[j] \in S
  <2>1. ASSUME NEW j \in 1..Len(t) PROVE t[j] \in S
    <3>1. t[j] \in ToSet(t) /\ ToSet(t) \subseteq S \cup {Junk}
      BY <1>2, InList DEF t
    <3> QED
      BY <1>3, <1>4, <3>1 DEF t
  <2> QED
    BY <2>1
<1>6. t \in Seq(S)
  BY <1>2, <1>5 DEF t
<1> QED
  BY <1>3, <1>6 DEF Parsed, t

\* The list of one row.
LEMMA OneRow == \A r : SetToSeq({r}) = <<r>> /\ ToSet(<<r>>) = {r}
<1> SUFFICES ASSUME NEW r PROVE SetToSeq({r}) = <<r>> /\ ToSet(<<r>>) = {r}
  OBVIOUS
<1>1. Cardinality({r}) = 1
  BY FS_Singleton
<1>2. <<r>> \in [1..1 -> {r}] /\ IsInjective(<<r>>)
  BY DEF IsInjective
<1>3. SetToSeq({r}) \in [1..1 -> {r}]
  BY <1>1, <1>2 DEF SetToSeq
<1>4. SetToSeq({r}) = <<r>>
  BY <1>3
<1>5. ToSet(<<r>>) = {r}
  BY DEF ToSet
<1> QED
  BY <1>4, <1>5

-----------------------------------------------------------------------------
(* Copies of a row.                                                        *)

\* The positions at which a list has a row.
At(s, r) == {i \in 1..Len(s) : s[i] = r}

LEMMA CopiesAt ==
  ASSUME NEW S, NEW s \in Seq(S), NEW r
  PROVE  IsFiniteSet(At(s, r)) /\ Copies(s, r) = Cardinality(At(s, r)) /\ Copies(s, r) \in Nat
<1>1. IsFiniteSet(1..Len(s)) /\ At(s, r) \in SUBSET (1..Len(s))
  <2>1. Len(s) \in Int /\ 1 \in Int
    OBVIOUS
  <2> QED
    BY <2>1, FS_Interval DEF At
<1>2. IsFiniteSet(At(s, r))
  BY <1>1, FS_Subset
<1>3. Copies(s, r) = Cardinality(At(s, r))
  BY DEF Copies, At
<1> QED
  BY <1>2, <1>3, FS_CardinalityType

\* A row has copies where it is, and only there.
LEMMA CopiesInSet ==
  ASSUME NEW S, NEW s \in Seq(S), NEW r
  PROVE  Copies(s, r) \in Nat /\ (Copies(s, r) > 0 <=> r \in ToSet(s))
<1>1. ToSet(s) = {s[i] : i \in 1..Len(s)}
  BY DEF ToSet
<1>2. r \in ToSet(s) <=> At(s, r) # {}
  BY <1>1 DEF At
<1>3. IsFiniteSet(At(s, r)) /\ Copies(s, r) = Cardinality(At(s, r)) /\ Copies(s, r) \in Nat
  BY CopiesAt
<1>4. Cardinality(At(s, r)) = 0 <=> At(s, r) = {}
  BY <1>3, FS_EmptySet
<1> QED
  BY <1>2, <1>3, <1>4

\* Positions of one list moved to those of another, without change of order.
LEMMA SameCount ==
  ASSUME NEW P, NEW Q, NEW f, IsFiniteSet(P), f \in [P -> Q],
         \A j, k \in P : f[j] = f[k] => j = k, \A i \in Q : \E j \in P : f[j] = i
  PROVE  IsFiniteSet(Q) /\ Cardinality(Q) = Cardinality(P)
<1>1. f \in Bijection(P, Q)
  BY DEF Bijection, Injection, Surjection, IsInjective
<1>2. ExistsBijection(P, Q)
  BY <1>1 DEF ExistsBijection
<1> QED
  BY <1>2, FS_Bijection

LEMMA EmptyCopies == \A r : Copies(<<>>, r) = 0
<1> SUFFICES ASSUME NEW r PROVE Copies(<<>>, r) = 0
  OBVIOUS
<1>1. <<>> \in Seq({}) /\ At(<<>>, r) = {}
  BY DEF At
<1> QED
  BY <1>1, CopiesAt, FS_EmptySet

LEMMA OneCopy == \A x, r : Copies(<<x>>, r) = IF x = r THEN 1 ELSE 0
<1> SUFFICES ASSUME NEW x, NEW r PROVE Copies(<<x>>, r) = IF x = r THEN 1 ELSE 0
  OBVIOUS
<1>1. <<x>> \in Seq({x}) /\ At(<<x>>, r) = IF x = r THEN {1} ELSE {}
  BY DEF At
<1>2. Copies(<<x>>, r) = Cardinality(At(<<x>>, r))
  BY <1>1, CopiesAt
<1> QED
  BY <1>1, <1>2, FS_EmptySet, FS_Singleton

\* The copies in two lists one after the other.
LEMMA CopiesCat ==
  ASSUME NEW S, NEW s \in Seq(S), NEW t \in Seq(S), NEW r
  PROVE  Copies(s \o t, r) = Copies(s, r) + Copies(t, r)
<1> DEFINE m == Len(s)
           n == Len(t)
           u == s \o t
           P == At(t, r)
           Q == {i \in (m + 1)..(m + n) : u[i] = r}
<1>1. /\ m \in Nat /\ n \in Nat /\ Len(u) = m + n /\ u \in Seq(S)
      /\ \A i \in 1..m : u[i] = s[i]
      /\ \A i \in 1..n : u[m + i] = t[i]
  OBVIOUS
<1>2. /\ IsFiniteSet(At(s, r)) /\ Copies(s, r) = Cardinality(At(s, r)) /\ Copies(s, r) \in Nat
      /\ IsFiniteSet(P) /\ Copies(t, r) = Cardinality(P) /\ Copies(t, r) \in Nat
  BY CopiesAt
<1>3. Copies(u, r) = Cardinality(At(u, r))
  BY <1>1, CopiesAt
<1>4. /\ At(s, r) = {i \in 1..m : s[i] = r} /\ P = {i \in 1..n : t[i] = r}
      /\ At(u, r) = {i \in 1..(m + n) : u[i] = r}
  BY <1>1 DEF At
<1> HIDE DEF m, n, u, P
<1>5. IsFiniteSet(Q) /\ Cardinality(Q) = Cardinality(P)
  <2> DEFINE f == [i \in P |-> m + i]
  <2>1. \A i \in P : m + i \in Q
    BY <1>1, <1>4
  <2>2. \A j, k \in P : m + j = m + k => j = k
    BY <1>1, <1>4
  <2>3. \A i \in Q : \E j \in P : m + j = i
    <3> SUFFICES ASSUME NEW i \in Q PROVE i - m \in P /\ m + (i - m) = i
      OBVIOUS
    <3>1. i - m \in 1..n /\ m + (i - m) = i
      BY <1>1
    <3> QED
      BY <1>1, <1>4, <3>1
  <2>4. /\ f \in [P -> Q]
        /\ \A j, k \in P : f[j] = f[k] => j = k
        /\ \A i \in Q : \E j \in P : f[j] = i
    BY <2>1, <2>2, <2>3
  <2>5. IsFiniteSet(P)
    BY <1>2
  <2> HIDE DEF f, Q
  <2> QED
    BY <2>4, <2>5, SameCount
<1>6. At(u, r) = At(s, r) \cup Q /\ At(s, r) \cap Q = {}
  <2>1. \A i \in 1..(m + n) : i \in 1..m \/ i \in (m + 1)..(m + n)
    BY <1>1
  <2>2. \A i \in (m + 1)..(m + n) : i \in 1..(m + n) /\ i \notin 1..m
    BY <1>1
  <2>3. \A i \in 1..m : i \in 1..(m + n)
    BY <1>1
  <2> QED
    BY <1>1, <1>4, <2>1, <2>2, <2>3
<1> HIDE DEF Q
<1>7. Cardinality(At(u, r)) = Cardinality(At(s, r)) + Cardinality(Q) - Cardinality({})
  BY <1>2, <1>5, <1>6, FS_Union
<1> QED
  BY <1>2, <1>3, <1>5, <1>7, FS_EmptySet DEF u

\* The copies among what is kept of a list are those at the kept positions.
LEMMA CopiesKept ==
  ASSUME NEW S, NEW s \in Seq(S), NEW I, NEW r
  PROVE  /\ IsFiniteSet(At(s, r) \cap I)
         /\ Copies(Keep(s, I), r) = Cardinality(At(s, r) \cap I)
<1> DEFINE t == Keep(s, I)
           J == I \cap (1..Len(s))
           n == Len(t)
<1>1. t \in Seq(S) /\ n \in Nat
  <2>1. t \in Seq(S)
    BY KeepPicks
  <2> QED
    BY <2>1
<1>2. PICK f : Picks(f, s, J, t)
  BY KeepPicks
<1>3. IsFiniteSet(At(t, r)) /\ Copies(t, r) = Cardinality(At(t, r))
  BY <1>1, CopiesAt
<1> HIDE DEF t
<1>4. /\ f \in [1..n -> J] /\ \A j \in 1..n : t[j] = s[f[j]]
      /\ \A j, k \in 1..n : j < k => f[j] < f[k]
      /\ \A i \in J : \E j \in 1..n : f[j] = i
  BY <1>2 DEF Picks
<1> DEFINE P == At(t, r)
           Q == At(s, r) \cap I
           g == [j \in P |-> f[j]]
<1>5. P = {j \in 1..n : t[j] = r} /\ Q = {i \in J : s[i] = r}
  BY DEF At
<1>6. \A j, k \in 1..n : f[j] = f[k] => j = k
  <2> SUFFICES ASSUME NEW j \in 1..n, NEW k \in 1..n, f[j] = f[k], j # k PROVE FALSE
    OBVIOUS
  <2>1. f[j] \in Nat /\ f[k] \in Nat /\ (j < k \/ k < j)
    BY <1>1, <1>4
  <2>2. f[j] < f[k] \/ f[k] < f[j]
    BY <1>4, <2>1
  <2> QED
    BY <2>1, <2>2
<1> HIDE DEF J, n, P, Q
<1>7. g \in [P -> Q]
  BY <1>4, <1>5
<1>8. \A j, k \in P : g[j] = g[k] => j = k
  BY <1>5, <1>6
<1>9. \A i \in Q : \E j \in P : g[j] = i
  BY <1>4, <1>5
<1> HIDE DEF g
<1>10. IsFiniteSet(Q) /\ Cardinality(Q) = Cardinality(P)
  <2>1. IsFiniteSet(P)
    BY <1>3 DEF P
  <2> QED
    BY <1>7, <1>8, <1>9, <2>1, SameCount
<1> QED
  BY <1>3, <1>10 DEF t, P, Q

\* The copies in a list are kept or left out.
LEMMA CopiesSplit ==
  ASSUME NEW S, NEW s \in Seq(S), NEW I, NEW r
  PROVE  /\ Copies(s, r) = Copies(Keep(s, I), r) + Copies(Without(s, I), r)
         /\ Copies(Keep(s, I), r) \in Nat /\ Copies(Without(s, I), r) \in Nat
<1> DEFINE J == (1..Len(s)) \ I
           P == At(s, r) \cap I
           Q == At(s, r) \cap J
<1>1. /\ IsFiniteSet(P) /\ Copies(Keep(s, I), r) = Cardinality(P)
      /\ IsFiniteSet(Q) /\ Copies(Without(s, I), r) = Cardinality(Q)
  BY CopiesKept DEF Without
<1>2. At(s, r) = P \cup Q /\ P \cap Q = {} /\ Copies(s, r) = Cardinality(At(s, r))
  BY CopiesAt DEF At
<1> HIDE DEF P, Q
<1>3. Cardinality(P \cup Q) = Cardinality(P) + Cardinality(Q) - Cardinality({})
  BY <1>1, <1>2, FS_Union
<1>4. Cardinality(P) \in Nat /\ Cardinality(Q) \in Nat /\ Cardinality({}) = 0
  BY <1>1, FS_CardinalityType, FS_EmptySet
<1> QED
  BY <1>1, <1>2, <1>3, <1>4

\* A row at none of the positions taken out has all its copies left; one
\* that is taken out alone has one less.
LEMMA CopiesLeft ==
  ASSUME NEW S, NEW s \in Seq(S), NEW r
  PROVE  /\ \A I : (\A i \in I \cap (1..Len(s)) : s[i] # r) =>
                     Copies(Without(s, I), r) = Copies(s, r)
         /\ \A i \in 1..Len(s) :
              Copies(Without(s, {i}), r) = Copies(s, r) - (IF s[i] = r THEN 1 ELSE 0)
<1>1. ASSUME NEW I, \A i \in I \cap (1..Len(s)) : s[i] # r
      PROVE  Copies(Without(s, I), r) = Copies(s, r)
  <2>1. At(s, r) \cap I = {}
    BY <1>1 DEF At
  <2>2. Copies(Keep(s, I), r) = 0
    BY <2>1, CopiesKept, FS_EmptySet
  <2> QED
    BY <2>2, CopiesSplit
<1>2. ASSUME NEW i \in 1..Len(s)
      PROVE  Copies(Without(s, {i}), r) = Copies(s, r) - (IF s[i] = r THEN 1 ELSE 0)
  <2>1. Copies(Keep(s, {i}), r) = IF s[i] = r THEN 1 ELSE 0
    BY KeepOne, OneCopy
  <2>2. Copies(s, r) = Copies(Keep(s, {i}), r) + Copies(Without(s, {i}), r)
        /\ Copies(Without(s, {i}), r) \in Nat
    BY CopiesSplit
  <2> QED
    BY <2>1, <2>2
<1> QED
  BY <1>1, <1>2

\* A list with one more row.
LEMMA CopiesAppended ==
  ASSUME NEW S, NEW s \in Seq(S), NEW e \in S, NEW r
  PROVE  Copies(Append(s, e), r) = Copies(s, r) + (IF e = r THEN 1 ELSE 0)
<1> DEFINE q == <<e>>
<1>1. Append(s, e) = s \o q /\ q \in Seq(S)
  OBVIOUS
<1>2. Copies(q, r) = IF e = r THEN 1 ELSE 0
  BY OneCopy
<1> HIDE DEF q
<1>3. Copies(s \o q, r) = Copies(s, r) + Copies(q, r)
  BY <1>1, CopiesCat
<1> QED
  BY <1>1, <1>2, <1>3

-----------------------------------------------------------------------------
(* Types.                                                                  *)

\* All lists are of rows of U.
RowTypes(U) ==
  /\ todoF \in Seq(U) /\ archF \in Seq(U)
  /\ inboxF \in Seq(U \cup {Junk}) /\ staging \in Seq(U \cup {Junk})
  /\ tasks \in Seq(U) /\ seen \in Seq(U)
  /\ archive \in Seq(U) /\ loaded \in Seq(U) /\ prev \in Seq(U)
  /\ hist \in Seq(Seq(U)) /\ Len(hist) <= UndoLimit

\* What the operation under way works on.
JobInv ==
  /\ step = "add" => \E r \in used : job = {r}
  /\ step = "delete" => job \subseteq 1..Len(tasks)
  /\ step = "undo" => hist # <<>>
  /\ step \in {"unarchRead", "unarchWrite"} => \E i \in 1..Len(archive) : job = {i}
  /\ step = "unarchTodo" => tasks # <<>>

LEMMA SeqGrows ==
  ASSUME NEW S, NEW T, S \subseteq T
  PROVE  Seq(S) \subseteq Seq(T)
OBVIOUS

LEMMA TypesGrow ==
  ASSUME NEW U, NEW V, U \subseteq V, RowTypes(U)
  PROVE  RowTypes(V)
<1>1. Seq(U) \subseteq Seq(V) /\ Seq(U \cup {Junk}) \subseteq Seq(V \cup {Junk})
  BY SeqGrows
<1>2. Seq(Seq(U)) \subseteq Seq(Seq(V))
  BY <1>1, SeqGrows
<1> QED
  BY <1>1, <1>2 DEF RowTypes

\* What an operation does to the history.
LEMMA HistoryTypes ==
  ASSUME NEW A, hist \in Seq(A), Len(hist) <= UndoLimit, tasks \in A
  PROVE  /\ Snapshot(hist) \in Seq(A) /\ Len(Snapshot(hist)) <= UndoLimit
         /\ Front(Snapshot(hist)) \in Seq(A) /\ Len(Front(Snapshot(hist))) <= UndoLimit
         /\ hist # <<>> =>
              Front(hist) \in Seq(A) /\ Len(Front(hist)) <= UndoLimit /\ Last(hist) \in A
<1>0. UndoLimit \in Nat /\ UndoLimit > 0
  BY TodoAssumption DEF TodoAssumption
<1> DEFINE h == IF Len(hist) >= UndoLimit THEN Tail(hist) ELSE hist
<1>1. h \in Seq(A) /\ Len(h) < UndoLimit /\ Len(h) \in Nat
  <2>1. CASE Len(hist) >= UndoLimit
    <3>1. hist # <<>> /\ Len(hist) \in Nat
      BY <1>0, <2>1
    <3>2. Tail(hist) \in Seq(A) /\ Len(Tail(hist)) = Len(hist) - 1
      BY <3>1
    <3> QED
      BY <1>0, <2>1, <3>1, <3>2
  <2>2. CASE ~(Len(hist) >= UndoLimit)
    BY <1>0, <2>2
  <2> QED
    BY <2>1, <2>2
<1> HIDE DEF h
<1>2. ASSUME NEW g \in Seq(A), g # <<>>
      PROVE  /\ Front(g) \in Seq(A) /\ Len(Front(g)) = Len(g) - 1 /\ Len(g) \in Nat
             /\ Last(g) \in A
  <2>1. Len(g) \in Nat /\ Len(g) > 0 /\ Len(g) - 1 \in Nat
    BY <1>2
  <2>2. g[Len(g)] \in A
    BY <2>1
  <2>3. \A j \in 1..(Len(g) - 1) : g[j] \in A
    BY <2>1
  <2>4. /\ SubSeq(g, 1, Len(g) - 1) \in Seq(A)
        /\ Len(SubSeq(g, 1, Len(g) - 1)) = Len(g) - 1
    <3> DEFINE k == Len(g) - 1
    <3>1. k \in Nat /\ k \in Int /\ 1 \in Int /\ \A j \in 1..k : g[j] \in A
      BY <2>1, <2>3
    <3> HIDE DEF k
    <3>2. SubSeq(g, 1, k) \in Seq(A) /\ Len(SubSeq(g, 1, k)) = IF 1 <= k THEN k - 1 + 1 ELSE 0
      BY <3>1, SubSeqProperties
    <3>3. \A m \in Nat : (IF 1 <= m THEN m - 1 + 1 ELSE 0) = m
      OBVIOUS
    <3>4. Len(SubSeq(g, 1, k)) = k
      BY <3>1, <3>2, <3>3
    <3> QED
      BY <3>2, <3>4 DEF k
  <2> QED
    BY <2>1, <2>2, <2>4 DEF Front, Last
<1> DEFINE sn == Append(h, tasks)
<1>3. /\ Append(h, tasks) \in Seq(A) /\ Len(Append(h, tasks)) = Len(h) + 1
      /\ Append(h, tasks) # <<>>
  BY <1>1
<1>4. Snapshot(hist) = Append(h, tasks)
  BY DEF Snapshot, h
<1>5. Len(Snapshot(hist)) <= UndoLimit
  BY <1>0, <1>1, <1>3, <1>4
<1>6. Front(Snapshot(hist)) \in Seq(A) /\ Len(Front(Snapshot(hist))) <= UndoLimit
  <2>1. sn \in Seq(A) /\ sn # <<>> /\ Len(sn) <= UndoLimit
    BY <1>3, <1>4, <1>5
  <2> HIDE DEF sn
  <2>2. Front(sn) \in Seq(A) /\ Len(Front(sn)) = Len(sn) - 1 /\ Len(sn) \in Nat
    BY <1>2, <2>1
  <2>3. Front(sn) \in Seq(A) /\ Len(Front(sn)) <= UndoLimit
    BY <1>0, <2>1, <2>2
  <2> QED
    BY <1>4, <2>3 DEF sn
<1>7. hist # <<>> =>
        Front(hist) \in Seq(A) /\ Len(Front(hist)) <= UndoLimit /\ Last(hist) \in A
  BY <1>0, <1>2
<1> QED
  BY <1>3, <1>4, <1>5, <1>6, <1>7

\* The outcome of a rewrite: the memory changes, the file if it can be written.
LEMMA Rewrites ==
  ASSUME NEW new, NEW history, NEW taken, Rewrite(new, history, taken)
  PROVE  /\ tasks' = new /\ hist' = history
         /\ todoF' \in {todoF, new} /\ seen' \in {seen, new}
         /\ step' = "idle" /\ job' = {} /\ prev' = <<>> /\ late' = {}
         /\ UNCHANGED <<archF, inboxF, staging, archive, loader, loaded, used>>
         /\ faults' \in {faults, faults + 1}
BY DEF Rewrite, WriteTodo, Fault, Done, arch

\* What each operation that rewrites the file makes of the tasks.
LEMMA NewTasks ==
  ASSUME NEW U, RowTypes(U), JobInv, used \subseteq U
  PROVE  /\ step = "add" => tasks \o SetToSeq(job) \in Seq(U)
                            /\ ToSet(tasks \o SetToSeq(job)) = ToSet(tasks) \cup job
         /\ /\ Without(tasks, job) \in Seq(U) /\ Keep(tasks, job) \in Seq(U)
            /\ ToSet(tasks) = ToSet(Keep(tasks, job)) \cup ToSet(Without(tasks, job))
         /\ step = "delete" => {tasks[i] : i \in job} = ToSet(Keep(tasks, job))
         /\ step = "undo" => Last(hist) \in Seq(U)
<1>1. ASSUME step = "add" PROVE tasks \o SetToSeq(job) \in Seq(U)
                                /\ ToSet(tasks \o SetToSeq(job)) = ToSet(tasks) \cup job
  <2>1. PICK r \in U : job = {r}
    BY <1>1 DEF JobInv
  <2>2. SetToSeq(job) = <<r>> /\ <<r>> \in Seq(U) /\ ToSet(<<r>>) = job
    BY <2>1, OneRow
  <2>3. tasks \in Seq(U)
    BY DEF RowTypes
  <2> DEFINE q == SetToSeq(job)
  <2>4. q \in Seq(U) /\ ToSet(q) = job
    BY <2>2
  <2> HIDE DEF q
  <2>5. tasks \o q \in Seq(U) /\ ToSet(tasks \o q) = ToSet(tasks) \cup ToSet(q)
    BY <2>3, <2>4, CatSet
  <2> QED
    BY <2>4, <2>5 DEF q
<1>2. /\ Without(tasks, job) \in Seq(U) /\ Keep(tasks, job) \in Seq(U)
      /\ ToSet(tasks) = ToSet(Keep(tasks, job)) \cup ToSet(Without(tasks, job))
      /\ ToSet(Keep(tasks, job)) = {tasks[i] : i \in job \cap (1..Len(tasks))}
  BY SplitSet, KeepSet DEF RowTypes
<1>3. ASSUME step = "delete" PROVE {tasks[i] : i \in job} = ToSet(Keep(tasks, job))
  <2>1. job \cap (1..Len(tasks)) = job
    BY <1>3 DEF JobInv
  <2> QED
    BY <1>2, <2>1
<1>4. step = "undo" => Last(hist) \in Seq(U)
  <2> DEFINE A == Seq(U)
  <2>1. hist \in Seq(A) /\ tasks \in A /\ Len(hist) <= UndoLimit
    BY DEF RowTypes
  <2> HIDE DEF A
  <2>2. hist # <<>> => Last(hist) \in A
    BY <2>1, HistoryTypes
  <2> QED
    BY <2>2 DEF JobInv, A
<1> QED
  BY <1>1, <1>2, <1>3, <1>4

\* What an operation that takes a row out of the archive leaves and gets.
LEMMA TakenFromArchive ==
  ASSUME NEW U, RowTypes(U), NEW i \in 1..Len(archive)
  PROVE  /\ Keep(archive, {i}) = <<archive[i]>> /\ archive[i] \in U
         /\ ToSet(Keep(archive, {i})) = {archive[i]}
         /\ Without(archive, {i}) \in Seq(U)
         /\ ToSet(archive) = ToSet(Without(archive, {i})) \cup {archive[i]}
         /\ tasks \o Keep(archive, {i}) \in Seq(U)
         /\ ToSet(tasks \o Keep(archive, {i})) = ToSet(tasks) \cup {archive[i]}
         /\ tasks \o Keep(archive, {i}) # <<>>
         /\ Last(tasks \o Keep(archive, {i})) = archive[i]
<1>1. archive \in Seq(U) /\ tasks \in Seq(U) /\ archive[i] \in U
  BY DEF RowTypes
<1>2. Keep(archive, {i}) = <<archive[i]>> /\ ToSet(Keep(archive, {i})) = {archive[i]}
  BY <1>1, KeepOne, OneRow
<1>3. Without(archive, {i}) \in Seq(U)
      /\ ToSet(archive) = ToSet(Without(archive, {i})) \cup {archive[i]}
  <2> DEFINE k == Keep(archive, {i})
             w == Without(archive, {i})
  <2>1. w \in Seq(U) /\ ToSet(archive) = ToSet(k) \cup ToSet(w)
    BY <1>1, SplitSet
  <2>2. ToSet(k) = {archive[i]}
    BY <1>2
  <2> HIDE DEF k, w
  <2>3. w \in Seq(U) /\ ToSet(archive) = ToSet(w) \cup {archive[i]}
    BY <2>1, <2>2
  <2> QED
    BY <2>3 DEF w
<1>4. <<archive[i]>> \in Seq(U)
  BY <1>1
<1>5. tasks \o <<archive[i]>> \in Seq(U)
      /\ ToSet(tasks \o <<archive[i]>>) = ToSet(tasks) \cup {archive[i]}
  <2> DEFINE q == <<archive[i]>>
  <2>1. q \in Seq(U) /\ ToSet(q) = {archive[i]}
    BY <1>2, <1>4
  <2> HIDE DEF q
  <2>2. tasks \o q \in Seq(U) /\ ToSet(tasks \o q) = ToSet(tasks) \cup ToSet(q)
    BY <1>1, <2>1, CatSet
  <2>3. tasks \o q \in Seq(U) /\ ToSet(tasks \o q) = ToSet(tasks) \cup {archive[i]}
    BY <2>1, <2>2
  <2> QED
    BY <2>3 DEF q
<1>6. /\ Len(tasks \o <<archive[i]>>) = Len(tasks) + 1 /\ Len(tasks) \in Nat
      /\ (tasks \o <<archive[i]>>)[Len(tasks) + 1] = archive[i]
  BY <1>1
<1>7. tasks \o <<archive[i]>> # <<>> /\ Last(tasks \o <<archive[i]>>) = archive[i]
  BY <1>6 DEF Last
<1> QED
  BY <1>1, <1>2, <1>3, <1>5, <1>7

\* What a file operation that leaves the lists of rows alone may do.
Quiet == UNCHANGED <<files, memory, archive, loaded, prev>>

\* The steps that only move the operation on.
LEMMA QuietSteps ==
  ASSUME \/ \E r \in Row : Add(r)
         \/ \E I \in SUBSET (1..Len(tasks)) : Delete(I) \/ Archive(I)
         \/ \E i \in 1..Len(archive) : Unarchive(i)
         \/ Undo \/ UNCHANGED todoVars
  PROVE  Quiet
BY DEF Add, Delete, Archive, Unarchive, Undo, todoVars, files, memory, arch, op, Quiet

\* Every step keeps lists lists of rows.
LEMMA RowTypeStep ==
  ASSUME NEW U \in SUBSET Row, RowTypes(U), JobInv, used \subseteq U, used' \subseteq U,
         [TodoNext]_todoVars
  PROVE  RowTypes(U)'
<1>0. <<>> \in Seq(U) /\ <<>> \in Seq(U \cup {Junk}) /\ <<>> \in Seq(Seq(U)) /\ Len(<<>>) = 0
      /\ UndoLimit \in Nat /\ Seq(U) \subseteq Seq(U \cup {Junk})
  BY TodoAssumption DEF TodoAssumption
<1> DEFINE A == Seq(U)
<1>h. /\ Snapshot(hist) \in Seq(A) /\ Len(Snapshot(hist)) <= UndoLimit
      /\ Front(Snapshot(hist)) \in Seq(A) /\ Len(Front(Snapshot(hist))) <= UndoLimit
      /\ hist # <<>> => Front(hist) \in Seq(A) /\ Len(Front(hist)) <= UndoLimit
  <2>1. hist \in Seq(A) /\ Len(hist) <= UndoLimit /\ tasks \in A
    BY DEF RowTypes
  <2> HIDE DEF A
  <2> QED
    BY <2>1, HistoryTypes
<1> HIDE DEF A
<1>t. RowTypes(U) <=>
        /\ {todoF, archF, tasks, seen, archive, loaded, prev} \subseteq A
        /\ {inboxF, staging} \subseteq Seq(U \cup {Junk})
        /\ hist \in Seq(A) /\ Len(hist) <= UndoLimit
  BY DEF RowTypes, A
<1>u. RowTypes(U)' <=>
        /\ {todoF', archF', tasks', seen', archive', loaded', prev'} \subseteq A
        /\ {inboxF', staging'} \subseteq Seq(U \cup {Junk})
        /\ hist' \in Seq(A) /\ Len(hist') <= UndoLimit
  BY DEF RowTypes, A
<1>e. <<>> \in A /\ <<>> \in Seq(A) /\ Len(<<>>) <= UndoLimit /\ <<>> \in Seq(U \cup {Junk})
  BY <1>0 DEF A
<1>w. ASSUME NEW new \in A, NEW history, NEW taken, Rewrite(new, history, taken),
             history \in Seq(A), Len(history) <= UndoLimit
      PROVE  RowTypes(U)'
  BY <1>e, <1>t, <1>u, <1>w, Rewrites
<1>1. CASE Quiet
  BY <1>1, <1>t, <1>u DEF Quiet, files, memory
<1>2. CASE Start \/ Down \/ Abort
  BY <1>2, <1>e, <1>t, <1>u DEF Start, Down, Abort, Reload, files, memory, arch, op
<1>3. CASE LoaderRead \/ PollArchive
  BY <1>3, <1>e, <1>t, <1>u DEF LoaderRead, PollArchive, files, memory, arch, op
<1>4. ASSUME NEW r \in Row, EditorAdds(r) PROVE RowTypes(U)'
  <2>1. r \in U /\ todoF' \in {todoF, Append(todoF, r)} /\ archF' \in {archF, Append(archF, r)}
        /\ UNCHANGED <<inboxF, staging, memory, arch, op>>
    BY <1>4 DEF EditorAdds
  <2>2. Append(todoF, r) \in A /\ Append(archF, r) \in A
    BY <2>1 DEF A, RowTypes
  <2> QED
    BY <1>t, <1>u, <2>1, <2>2 DEF memory, arch, op
<1>5. ASSUME NEW i \in 1..Len(todoF), EditorRemoves(i) PROVE RowTypes(U)'
  <2>1. Without(todoF, {i}) \in A
    BY SplitSet DEF A, RowTypes
  <2> QED
    BY <1>5, <1>t, <1>u, <2>1 DEF EditorRemoves, memory, arch, op
<1>6. ASSUME NEW line \in Row \cup {Junk}, Capture(line) PROVE RowTypes(U)'
  <2>1. line \in U \cup {Junk} /\ inboxF' = Append(inboxF, line)
        /\ UNCHANGED <<todoF, archF, staging, memory, arch, op>>
    BY <1>6 DEF Capture
  <2>2. Append(inboxF, line) \in Seq(U \cup {Junk})
    BY <2>1 DEF RowTypes
  <2> QED
    BY <1>t, <1>u, <2>1, <2>2 DEF memory, arch, op
<1>7. CASE AddWrite
  <2>1. tasks \o SetToSeq(job) \in A
    BY <1>7, NewTasks DEF AddWrite, A
  <2> QED
    BY <1>7, <1>h, <1>w, <2>1 DEF AddWrite
<1>8. CASE DeleteWrite
  <2>1. Without(tasks, job) \in A
    BY NewTasks DEF A
  <2> QED
    BY <1>8, <1>h, <1>w, <2>1 DEF DeleteWrite
<1>9. CASE UndoWrite
  <2>1. Last(hist) \in A /\ hist # <<>>
    BY <1>9, NewTasks DEF UndoWrite, A, JobInv
  <2> QED
    BY <1>9, <1>h, <1>w, <2>1 DEF UndoWrite
<1>10. CASE ArchiveRead \/ ArchiveBack
  BY <1>10, <1>e, <1>t, <1>u
  DEF ArchiveRead, ArchiveBack, Fail, Done, files, memory, arch
<1>11. prev \o Keep(tasks, job) \in A
  BY NewTasks, CatSet DEF A, RowTypes
<1>12. CASE ArchiveWrite
  BY <1>12, <1>e, <1>t, <1>u, <1>11 DEF ArchiveWrite, Fail, Done, memory, arch
<1>13. CASE ArchiveTodo
  <2>1. Without(tasks, job) \in A
    BY NewTasks DEF A
  <2>2. /\ {todoF', tasks', seen'} \subseteq {todoF, tasks, seen, Without(tasks, job)}
        /\ hist' \in {hist, Snapshot(hist)}
        /\ archive' \in {archive, prev \o Keep(tasks, job)}
        /\ loaded' \in {loaded, <<>>} /\ prev' \in {prev, <<>>}
        /\ UNCHANGED <<archF, inboxF, staging>>
    BY <1>13 DEF ArchiveTodo, WriteTodo, Done, memory, arch
  <2> QED
    BY <1>e, <1>h, <1>t, <1>u, <1>11, <2>1, <2>2
<1>14. CASE UnarchiveRead
  BY <1>14, <1>e, <1>t, <1>u DEF UnarchiveRead, Fail, Done, files, memory, arch
<1>15. CASE UnarchiveWrite
  <2>1. PICK i \in 1..Len(archive) : job = {i}
    BY <1>15 DEF UnarchiveWrite, JobInv
  <2>2. Without(archive, job) \in A /\ tasks \o Keep(archive, job) \in A
    BY <2>1, TakenFromArchive DEF A
  <2>3. /\ {archF', archive', tasks'} \subseteq
             {archF, archive, tasks, Without(archive, job), tasks \o Keep(archive, job)}
        /\ hist' \in {hist, Snapshot(hist)} /\ prev' \in {prev, <<>>}
        /\ UNCHANGED <<todoF, inboxF, staging, seen, loaded>>
    BY <1>15 DEF UnarchiveWrite, Fail, Done
  <2> QED
    BY <1>e, <1>h, <1>t, <1>u, <2>2, <2>3
<1>16. CASE UnarchiveTodo
  BY <1>16, <1>e, <1>t, <1>u DEF UnarchiveTodo, WriteTodo, Done, arch
<1>17. CASE Poll
  BY <1>17, <1>e, <1>t, <1>u DEF Poll, Reload, files, memory, arch
<1>18. CASE DrainStage \/ DrainClean
  BY <1>18, <1>e, <1>t, <1>u DEF DrainStage, DrainClean, Fail, Done, memory, arch
<1>19. CASE DrainWrite
  <2>1. tasks \o Parsed \in A
    <3>1. Parsed \in Seq(U) /\ tasks \in Seq(U)
      BY ParsedRows DEF RowTypes
    <3> QED
      BY <3>1, CatSet DEF A
  <2>2. /\ {todoF', tasks', seen'} \subseteq {todoF, tasks, seen, tasks \o Parsed}
        /\ hist' \in {hist, Snapshot(hist), Front(Snapshot(hist))}
        /\ UNCHANGED <<archF, inboxF, staging, archive, loaded, prev>>
    BY <1>19 DEF DrainWrite, WriteTodo, memory, arch
  <2> QED
    BY <1>e, <1>h, <1>t, <1>u, <2>1, <2>2
<1> QED
  BY <1>1, <1>2, <1>3, <1>4, <1>5, <1>6, <1>7, <1>8, <1>9, <1>10, <1>12, <1>13, <1>14,
     <1>15, <1>16, <1>17, <1>18, <1>19, QuietSteps DEF TodoNext

\* Every step keeps the job what the operation takes it for.
LEMMA JobStep ==
  ASSUME RowTypes(used), JobInv, [TodoNext]_todoVars
  PROVE  JobInv'
<1>1. CASE /\ step' \notin {"add", "delete", "undo", "unarchRead", "unarchWrite", "unarchTodo"}
  BY <1>1 DEF JobInv
<1>2. CASE Start \/ Down \/ Abort
  BY <1>2 DEF Start, Down, Abort, op, JobInv
<1>3. CASE LoaderRead \/ UNCHANGED todoVars
  BY <1>3 DEF LoaderRead, memory, op, todoVars, hvars, arch, JobInv
<1>4. CASE PollArchive
  BY <1>4 DEF PollArchive, op, JobInv
<1>5. ASSUME NEW r \in Row, EditorAdds(r) PROVE JobInv'
  BY <1>5 DEF EditorAdds, memory, arch, op, JobInv
<1>6. ASSUME NEW i \in 1..Len(todoF), EditorRemoves(i) PROVE JobInv'
  BY <1>6 DEF EditorRemoves, memory, arch, op, JobInv
<1>7. ASSUME NEW line \in Row \cup {Junk}, Capture(line) PROVE JobInv'
  BY <1>7 DEF Capture, memory, arch, op, JobInv
<1>8. ASSUME NEW r \in Row, Add(r) PROVE JobInv'
  BY <1>8 DEF Add, Proceed, JobInv
<1>9. ASSUME NEW I \in SUBSET (1..Len(tasks)), Delete(I) \/ Archive(I) PROVE JobInv'
  BY <1>9 DEF Delete, Archive, Proceed, memory, JobInv
<1>10. ASSUME NEW i \in 1..Len(archive), Unarchive(i) PROVE JobInv'
  BY <1>10 DEF Unarchive, Proceed, arch, JobInv
<1>11. CASE Undo
  BY <1>11 DEF Undo, Proceed, memory, JobInv
<1>12. CASE AddWrite \/ DeleteWrite \/ UndoWrite
  BY <1>1, <1>12 DEF AddWrite, DeleteWrite, UndoWrite, Rewrite, Done
<1>13. CASE ArchiveRead \/ ArchiveWrite \/ ArchiveTodo \/ ArchiveBack
  BY <1>1, <1>13 DEF ArchiveRead, ArchiveWrite, ArchiveTodo, ArchiveBack, Fail, Done
<1>14. CASE UnarchiveRead
  <2>1. CASE step' = "unarchWrite"
    BY <1>14, <2>1 DEF UnarchiveRead, Fail, Done, JobInv
  <2>2. CASE step' = "idle"
    BY <1>1, <2>2
  <2> QED
    BY <1>14, <2>1, <2>2 DEF UnarchiveRead, Fail, Done
<1>15. CASE UnarchiveWrite
  <2>1. PICK i \in 1..Len(archive) : job = {i}
    BY <1>15 DEF UnarchiveWrite, JobInv
  <2>2. tasks \o Keep(archive, job) # <<>>
    BY <2>1, TakenFromArchive
  <2>3. CASE step' = "unarchTodo" /\ tasks' = tasks \o Keep(archive, job)
    BY <2>2, <2>3 DEF JobInv
  <2>4. CASE step' = "idle"
    BY <1>1, <2>4
  <2> QED
    BY <1>15, <2>3, <2>4 DEF UnarchiveWrite, Fail, Done
<1>16. CASE UnarchiveTodo
  BY <1>1, <1>16 DEF UnarchiveTodo, Done
<1>17. CASE Poll \/ DrainStage \/ DrainWrite \/ DrainClean
  BY <1>1, <1>17 DEF Poll, DrainStage, DrainWrite, DrainClean, Fail, Done
<1> QED
  BY <1>2, <1>3, <1>4, <1>5, <1>6, <1>7, <1>8, <1>9, <1>10, <1>11, <1>12, <1>13, <1>14,
     <1>15, <1>16, <1>17 DEF TodoNext

\* The rest of the type invariant.
FlagTypes ==
  /\ loader \in {"off", "reading", "ready"}
  /\ step \in TodoStep
  /\ blind \in BOOLEAN /\ (blind => step \in {"drain", "staged"})
  /\ used \subseteq Row /\ faults \in 0..MaxFaults
  /\ late \subseteq used /\ theirs \subseteq used /\ excused \subseteq used
  /\ unread \subseteq used

\* Rows are introduced, never withdrawn.
LEMMA UsedGrows == [TodoNext]_todoVars => used \subseteq used'
BY DEF TodoNext, Start, LoaderRead, PollArchive, Down, EditorAdds, Add, EditorRemoves,
       Capture, Delete, Archive, Unarchive, Abort, AddWrite, DeleteWrite, Undo, UndoWrite,
       Rewrite, ArchiveRead, ArchiveWrite, ArchiveTodo, ArchiveBack, UnarchiveRead,
       UnarchiveWrite, UnarchiveTodo, Poll, DrainStage, DrainWrite, DrainClean, hvars, todoVars

\* What a drain overwrote unread stays on record.
LEMMA UnreadGrows == [TodoNext]_todoVars => unread \subseteq unread'
BY DEF TodoNext, Start, LoaderRead, PollArchive, Down, EditorAdds, Add, EditorRemoves,
       Capture, Delete, Archive, Unarchive, Abort, AddWrite, DeleteWrite, Undo, UndoWrite,
       Rewrite, ArchiveRead, ArchiveWrite, ArchiveTodo, ArchiveBack, UnarchiveRead,
       UnarchiveWrite, UnarchiveTodo, Poll, DrainStage, DrainWrite, DrainClean, hvars, todoVars

\* The rows an operation works with.
LEMMA KnownRows ==
  ASSUME RowTypes(used), JobInv
  PROVE  /\ ToSet(todoF) \subseteq used /\ ToSet(archF) \subseteq used
         /\ ToSet(tasks) \subseteq used /\ ToSet(seen) \subseteq used
         /\ ToSet(archive) \subseteq used /\ ToSet(prev) \subseteq used
         /\ step = "delete" => {tasks[i] : i \in job} \subseteq used
         /\ step = "add" => job \subseteq used /\ ToSet(tasks \o SetToSeq(job)) \subseteq used
         /\ ToSet(Without(tasks, job)) \subseteq used /\ ToSet(Keep(tasks, job)) \subseteq used
         /\ step = "undo" => ToSet(Last(hist)) \subseteq used
         /\ Carried \subseteq used
<1>1. /\ ToSet(todoF) \subseteq used /\ ToSet(archF) \subseteq used
      /\ ToSet(tasks) \subseteq used /\ ToSet(seen) \subseteq used
      /\ ToSet(archive) \subseteq used /\ ToSet(prev) \subseteq used
  BY InList DEF RowTypes
<1>2. /\ step = "add" => job \subseteq used /\ ToSet(tasks \o SetToSeq(job)) \subseteq used
      /\ ToSet(Without(tasks, job)) \subseteq used /\ ToSet(Keep(tasks, job)) \subseteq used
      /\ step = "delete" => {tasks[i] : i \in job} \subseteq used
  BY <1>1, NewTasks DEF JobInv
<1>3. step = "undo" => ToSet(Last(hist)) \subseteq used
  BY NewTasks, InList
<1>4. step = "unarchTodo" => Last(tasks) \in used
  BY DEF JobInv, RowTypes, Last
<1> QED
  BY <1>1, <1>2, <1>3, <1>4 DEF Carried

\* Every step keeps the flags and the sets of rows what they are.
LEMMA FlagStep ==
  ASSUME RowTypes(used), JobInv, FlagTypes, [TodoNext]_todoVars
  PROVE  FlagTypes'
<1>0. MaxFaults \in Nat /\ (Fault => faults' \in 0..MaxFaults)
  BY TodoAssumption DEF TodoAssumption, Fault, FlagTypes
<1> USE <1>0 DEF FlagTypes, TodoStep
<1> HIDE DEF Fault
<1>1. CASE Start \/ PollArchive \/ Abort \/ UNCHANGED todoVars
  BY <1>1 DEF Start, PollArchive, Abort, op, arch, hvars, todoVars
<1>2. CASE LoaderRead
  BY <1>2 DEF LoaderRead, op
<1>3. CASE Down
  BY <1>3, KnownRows DEF Down
<1>4. ASSUME NEW r \in Row, EditorAdds(r) PROVE FlagTypes'
  BY <1>4 DEF EditorAdds, Late, op, arch
<1>5. ASSUME NEW i \in 1..Len(todoF), EditorRemoves(i) PROVE FlagTypes'
  <2>1. todoF[i] \in used
    BY DEF RowTypes
  <2> QED
    BY <1>5, <2>1 DEF EditorRemoves, Late, op, arch
<1>6. ASSUME NEW line \in Row \cup {Junk}, Capture(line) PROVE FlagTypes'
  BY <1>6 DEF Capture, op, arch
<1>7. ASSUME NEW r \in Row, Add(r) PROVE FlagTypes'
  BY <1>7 DEF Add, Proceed, arch
<1>8. ASSUME NEW I \in SUBSET (1..Len(tasks)), Delete(I) \/ Archive(I) PROVE FlagTypes'
  BY <1>8 DEF Delete, Archive, Proceed, arch, hvars
<1>9. ASSUME NEW i \in 1..Len(archive), Unarchive(i) PROVE FlagTypes'
  BY <1>9 DEF Unarchive, Proceed, arch, hvars
<1>10. CASE Undo
  BY <1>10 DEF Undo, Proceed, arch, hvars
<1>11. ASSUME NEW new, NEW history, NEW taken, taken \subseteq used, ToSet(new) \subseteq used,
              step \in {"add", "delete", "undo"}, Rewrite(new, history, taken)
       PROVE  FlagTypes'
  BY <1>11 DEF Rewrite, WriteTodo, Done, arch
<1>12. CASE AddWrite
  BY <1>11, <1>12, KnownRows DEF AddWrite
<1>13. CASE DeleteWrite
  BY <1>11, <1>13, KnownRows DEF DeleteWrite
<1>14. CASE UndoWrite
  BY <1>11, <1>14, KnownRows DEF UndoWrite
<1>15. CASE ArchiveRead \/ ArchiveWrite \/ ArchiveBack
  BY <1>15 DEF ArchiveRead, ArchiveWrite, ArchiveBack, Fail, Done, arch
<1>16. CASE ArchiveTodo
  BY <1>16 DEF ArchiveTodo, WriteTodo, Done, arch
<1>17. CASE UnarchiveRead \/ UnarchiveWrite
  BY <1>17 DEF UnarchiveRead, UnarchiveWrite, Fail, Done, arch
<1>18. CASE UnarchiveTodo
  BY <1>18, KnownRows DEF UnarchiveTodo, WriteTodo, Done, arch
<1>19. CASE Poll
  BY <1>19, KnownRows DEF Poll, arch
<1>20. CASE DrainStage \/ DrainClean
  <2>1. blind' \in BOOLEAN /\ (blind' => step' \in {"drain", "staged"})
    <3>1. CASE blind' = (blind /\ step' = "staged")
      BY ONLY <3>1
    <3>2. CASE UNCHANGED blind /\ step = "merged"
      BY <3>2
    <3> QED
      BY <1>20, <3>1, <3>2 DEF DrainStage, DrainClean
  <2> HIDE DEF FlagTypes
  <2>2. step' \in TodoStep
    BY <1>20 DEF DrainStage, DrainClean, Fail, Done
  <2>3. /\ UNCHANGED <<loader, used, theirs, excused, unread>> /\ late' \in {late, {}}
        /\ faults' = faults \/ Fault
    BY <1>20 DEF DrainStage, DrainClean, Fail, Done, arch
  <2> QED
    BY <2>1, <2>2, <2>3 DEF FlagTypes
<1>21. CASE DrainWrite
  <2>1. Edited \subseteq used
    BY DEF Edited
  <2> QED
    BY <1>21, <2>1 DEF DrainWrite, WriteTodo, arch
<1> QED
  BY <1>1, <1>2, <1>3, <1>4, <1>5, <1>6, <1>7, <1>8, <1>9, <1>10, <1>12, <1>13, <1>14,
     <1>15, <1>16, <1>17, <1>18, <1>19, <1>20, <1>21 DEF TodoNext

TypesInv == RowTypes(used) /\ JobInv /\ FlagTypes

LEMMA TypesStep ==
  ASSUME TypesInv, [TodoNext]_todoVars
  PROVE  TypesInv'
<1>1. JobInv' /\ FlagTypes'
  BY JobStep, FlagStep DEF TypesInv
<1>2. PICK U : U = used'
  OBVIOUS
<1>3. used \subseteq U /\ U \in SUBSET Row
  BY <1>1, <1>2, UsedGrows DEF FlagTypes
<1>4. RowTypes(U)
  BY <1>3, TypesGrow DEF TypesInv
<1>5. RowTypes(U)'
  BY <1>2, <1>3, <1>4, RowTypeStep DEF TypesInv
<1>6. RowTypes(used)'
  BY <1>2, <1>5 DEF RowTypes
<1> QED
  BY <1>1, <1>6 DEF TypesInv

LEMMA TypesInductive == TodoSpec => []TypesInv
<1>1. TodoInit => TypesInv
  <2> SUFFICES ASSUME TodoInit PROVE TypesInv
    OBVIOUS
  <2>1. <<>> \in Seq(used) /\ <<>> \in Seq(used \cup {Junk}) /\ <<>> \in Seq(Seq(used))
        /\ Len(<<>>) = 0 /\ UndoLimit \in Nat /\ MaxFaults \in Nat
    BY TodoAssumption DEF TodoAssumption
  <2>2. RowTypes(used)
    BY <2>1 DEF TodoInit, RowTypes
  <2>3. JobInv
    BY DEF TodoInit, JobInv
  <2>4. blind \in BOOLEAN /\ ~blind
    BY DEF TodoInit
  <2>5. FlagTypes
    BY <2>1, <2>4 DEF TodoInit, FlagTypes, TodoStep
  <2> QED
    BY <2>2, <2>3, <2>5 DEF TypesInv
<1> QED
  BY <1>1, TypesStep, PTL DEF TodoSpec

\* What the files, the memory of the store and its operations hold in every
\* state (tuxedo: Store, History, the archive and the inbox).
THEOREM TodoTypes == TodoSpec => []TodoTypeOK
<1>1. TypesInv => TodoTypeOK
  <2> SUFFICES ASSUME TypesInv PROVE TodoTypeOK
    OBVIOUS
  <2>1. used \subseteq Row /\ RowTypes(used)
    BY DEF TypesInv, FlagTypes
  <2>2. RowTypes(Row)
    BY <2>1, TypesGrow
  <2> QED
    BY <2>2 DEF TypesInv, FlagTypes, RowTypes, TodoTypeOK
<1> QED
  BY <1>1, TypesInductive, PTL

-----------------------------------------------------------------------------
(* No row is lost.                                                         *)

\* What the store holds in memory, what it has last seen of the todo file and
\* what is in the file have the same rows, up to the excused, what an
\* operation carries, and what landed in the file since the operation began,
\* if that read the file.
Sighted == step \notin {"down", "idle", "merged"} /\ ~blind

MemoryInv ==
  /\ ToSet(seen) \subseteq ToSet(tasks) \cup excused
  /\ ToSet(tasks) \subseteq ToSet(seen) \cup excused \cup Carried
  /\ ToSet(seen) \subseteq ToSet(todoF) \cup excused
  /\ Sighted => ToSet(todoF) \subseteq ToSet(tasks) \cup late \cup excused
  /\ step = "add" => job \cap ToSet(todoF) = {}

\* What an operation on the archive or the inbox may overwrite or remove.
OperationInv ==
  /\ step = "archWrite" => ToSet(archF) \subseteq ToSet(prev) \cup late
  /\ step \in {"archTodo", "archBack"} =>
       /\ ToSet(archF) \subseteq ToSet(prev) \cup ToSet(Keep(tasks, job)) \cup late
       /\ ToSet(Keep(tasks, job)) \subseteq ToSet(archF)
  /\ step = "unarchWrite" => ToSet(archF) \subseteq ToSet(archive) \cup late
  /\ step = "merged" => ToSet(staging) \cap Row \subseteq ToSet(todoF) \cup excused

\* NoRowLost, in terms of what is in the files.
InFiles == ToSet(todoF) \cup ToSet(archF) \cup ToSet(inboxF) \cup ToSet(staging)
FilesInv == used \subseteq InFiles \cup excused \cup unread \cup Carried

KeptInv == MemoryInv /\ OperationInv /\ FilesInv

\* A rewrite that takes rows away by name, and adds but what is carried.
LEMMA RewriteKeeps ==
  ASSUME TypesInv, KeptInv, step \in {"add", "delete", "undo"},
         NEW new, NEW history, NEW taken, Rewrite(new, history, taken),
         ToSet(tasks) \subseteq ToSet(new) \cup taken,
         ToSet(new) \subseteq ToSet(tasks) \cup taken \cup Carried,
         Carried \subseteq ToSet(new), Carried \cap ToSet(todoF) = {}
  PROVE  KeptInv'
<1>1. /\ tasks' = new /\ step' = "idle" /\ Carried' = {}
      /\ UNCHANGED <<archF, inboxF, staging, used, unread>> /\ Sighted
  BY DEF Rewrite, Done, Carried, Sighted, TypesInv, FlagTypes
<1>2. \/ todoF' = new /\ seen' = new /\ excused' = excused \cup taken \cup late
      \/ UNCHANGED <<todoF, seen>>
         /\ excused' = excused \cup taken \cup (ToSet(new) \ ToSet(todoF))
  BY DEF Rewrite, WriteTodo
<1>3. OperationInv'
  BY <1>1 DEF OperationInv
<1>4. CASE todoF' = new /\ seen' = new /\ excused' = excused \cup taken \cup late
  <2>1. MemoryInv'
    BY <1>1, <1>4 DEF MemoryInv, Sighted
  <2>2. FilesInv'
    BY <1>1, <1>4 DEF KeptInv, MemoryInv, FilesInv, InFiles
  <2> QED
    BY <1>3, <2>1, <2>2 DEF KeptInv
<1>5. CASE UNCHANGED <<todoF, seen>>
           /\ excused' = excused \cup taken \cup (ToSet(new) \ ToSet(todoF))
  <2>1. MemoryInv'
    BY <1>1, <1>5 DEF KeptInv, MemoryInv, Sighted
  <2>2. FilesInv'
    BY <1>1, <1>5 DEF KeptInv, FilesInv, InFiles
  <2> QED
    BY <1>3, <2>1, <2>2 DEF KeptInv
<1> QED
  BY <1>2, <1>4, <1>5

\* A step that leaves the lists alone, and lets go of nothing.
LEMMA IdlingKeeps ==
  ASSUME KeptInv, UNCHANGED <<files, tasks, seen, used>>, Carried' = Carried,
         excused \subseteq excused', unread \subseteq unread',
         late \subseteq late' \/ step' \in {"down", "idle"},
         \/ step' \in {"down", "idle"}
         \/ step' = step /\ UNCHANGED <<archive, job, prev, blind>>
  PROVE  KeptInv'
<1>1. MemoryInv'
  BY DEF KeptInv, MemoryInv, Sighted, files
<1>2. OperationInv'
  BY DEF KeptInv, OperationInv, files
<1>3. FilesInv'
  BY DEF KeptInv, FilesInv, InFiles, files
<1> QED
  BY <1>1, <1>2, <1>3 DEF KeptInv

\* An operation begins when the file is as the store left it.
LEMMA ProceedKeeps ==
  ASSUME KeptInv, todoF = seen, step = "idle",
         UNCHANGED <<files, tasks, seen, excused, unread, late>>,
         step' \in {"delete", "undo", "archRead", "unarchRead"}, used' = used
  PROVE  KeptInv'
<1>1. Carried = {} /\ Carried' = {}
  BY DEF Carried
<1>2. MemoryInv'
  BY <1>1 DEF KeptInv, MemoryInv, Sighted, files
<1>3. OperationInv'
  BY DEF KeptInv, OperationInv, files
<1>4. FilesInv'
  BY <1>1 DEF KeptInv, FilesInv, InFiles, files
<1> QED
  BY <1>2, <1>3, <1>4 DEF KeptInv

\* What others do to the files.
LEMMA OthersKeep ==
  ASSUME TypesInv, KeptInv,
         \/ \E r \in Row : EditorAdds(r)
         \/ \E i \in 1..Len(todoF) : EditorRemoves(i)
         \/ \E line \in Row \cup {Junk} : Capture(line)
  PROVE  KeptInv'
<1>0. /\ UNCHANGED <<tasks, seen, step, job, prev, blind, archive, staging, unread>>
      /\ Carried' = Carried
  BY DEF EditorAdds, EditorRemoves, Capture, Carried, memory, arch, op
<1>1. ASSUME NEW r \in Row, EditorAdds(r) PROVE KeptInv'
  <2>1. /\ r \notin used /\ used' = used \cup {r} /\ UNCHANGED <<inboxF, excused>>
        /\ step \notin {"down", "idle"} => late' = late \cup {r}
    BY <1>1 DEF EditorAdds, Late
  <2>2. /\ ToSet(Append(todoF, r)) = ToSet(todoF) \cup {r}
        /\ ToSet(Append(archF, r)) = ToSet(archF) \cup {r}
    <3>1. todoF \in Seq(Row) /\ archF \in Seq(Row)
      BY TypesGrow DEF TypesInv, FlagTypes, RowTypes
    <3> QED
      BY <3>1, AppendSet
  <2>3. \/ ToSet(todoF') = ToSet(todoF) \cup {r} /\ archF' = archF
        \/ ToSet(archF') = ToSet(archF) \cup {r} /\ todoF' = todoF
    BY <1>1, <2>2 DEF EditorAdds
  <2>4. step = "add" => r \notin job
    BY <2>1 DEF TypesInv, JobInv
  <2>5. MemoryInv'
    BY <1>0, <2>1, <2>3, <2>4 DEF KeptInv, MemoryInv, Sighted
  <2>6. OperationInv'
    BY <1>0, <2>1, <2>3 DEF KeptInv, OperationInv
  <2>7. FilesInv'
    BY <1>0, <2>1, <2>3 DEF KeptInv, FilesInv, InFiles
  <2> QED
    BY <2>5, <2>6, <2>7 DEF KeptInv
<1>2. ASSUME NEW i \in 1..Len(todoF), EditorRemoves(i) PROVE KeptInv'
  <2>1. /\ excused' = excused \cup {todoF[i]} /\ UNCHANGED <<archF, inboxF, used>>
        /\ todoF' = Without(todoF, {i})
        /\ step \notin {"down", "idle"} => late' = late \cup {todoF[i]}
    BY <1>2 DEF EditorRemoves, Late
  <2>2. ToSet(todoF) = ToSet(todoF') \cup {todoF[i]}
    <3>1. todoF \in Seq(used)
      BY DEF TypesInv, RowTypes
    <3>2. Keep(todoF, {i}) = <<todoF[i]>>
      BY <3>1, KeepOne
    <3>3. ToSet(Keep(todoF, {i})) = {todoF[i]}
      BY <3>2, OneRow
    <3>4. ToSet(todoF) = ToSet(Keep(todoF, {i})) \cup ToSet(Without(todoF, {i}))
      BY <3>1, SplitSet
    <3> QED
      BY <2>1, <3>3, <3>4
  <2>3. MemoryInv'
    BY <1>0, <2>1, <2>2 DEF KeptInv, MemoryInv, Sighted
  <2>4. OperationInv'
    BY <1>0, <2>1, <2>2 DEF KeptInv, OperationInv
  <2>5. FilesInv'
    BY <1>0, <2>1, <2>2 DEF KeptInv, FilesInv, InFiles
  <2> QED
    BY <2>3, <2>4, <2>5 DEF KeptInv
<1>3. ASSUME NEW line \in Row \cup {Junk}, Capture(line) PROVE KeptInv'
  <2>1. /\ UNCHANGED <<todoF, archF, late, excused>>
        /\ used' \subseteq used \cup {line} /\ inboxF' = Append(inboxF, line)
    BY <1>3 DEF Capture
  <2>2. ToSet(inboxF') = ToSet(inboxF) \cup {line}
    <3>1. inboxF \in Seq(Row \cup {Junk})
      BY TypesGrow DEF TypesInv, FlagTypes, RowTypes
    <3> QED
      BY <2>1, <3>1, AppendSet
  <2>3. MemoryInv'
    BY <1>0, <2>1 DEF KeptInv, MemoryInv, Sighted
  <2>4. OperationInv'
    BY <1>0, <2>1 DEF KeptInv, OperationInv
  <2>5. FilesInv'
    BY <1>0, <2>1, <2>2 DEF KeptInv, FilesInv, InFiles
  <2> QED
    BY <2>3, <2>4, <2>5 DEF KeptInv
<1> QED
  BY <1>1, <1>2, <1>3

\* A step that reads the todo file again, or forgets what it was.
LEMMA ReloadKeeps ==
  ASSUME KeptInv, UNCHANGED <<files, used, unread>>,
         excused \cup Carried \subseteq excused' \cup Carried', Carried' = {},
         \/ Reload /\ step' \in {"idle", "drain"} /\ excused' = excused
         \/ tasks' = todoF /\ seen' = todoF /\ step' = "idle"
         \/ tasks' = <<>> /\ seen' = <<>> /\ step' = "down"
  PROVE  KeptInv'
<1>1. MemoryInv'
  BY EmptyList DEF KeptInv, MemoryInv, Sighted, files, Reload
<1>2. OperationInv'
  BY DEF OperationInv
<1>3. FilesInv'
  BY DEF KeptInv, FilesInv, InFiles, files
<1> QED
  BY <1>1, <1>2, <1>3 DEF KeptInv

\* archive_many.
LEMMA ArchivingKeeps ==
  ASSUME TypesInv, KeptInv, ArchiveRead \/ ArchiveWrite \/ ArchiveTodo \/ ArchiveBack
  PROVE  KeptInv'
<1> DEFINE K == Keep(tasks, job)
           W == Without(tasks, job)
<1>1. /\ ToSet(tasks) = ToSet(K) \cup ToSet(W)
      /\ ToSet(prev \o K) = ToSet(prev) \cup ToSet(K)
  <2>1. tasks \in Seq(used) /\ prev \in Seq(used)
    BY DEF TypesInv, RowTypes
  <2>2. K \in Seq(used) /\ ToSet(tasks) = ToSet(K) \cup ToSet(W)
    BY <2>1, SplitSet
  <2> HIDE DEF K
  <2>3. ToSet(prev \o K) = ToSet(prev) \cup ToSet(K)
    BY <2>1, <2>2, CatSet
  <2> QED
    BY <2>2, <2>3
<1> HIDE DEF K, W
<1>2. /\ step \in {"archRead", "archWrite", "archTodo", "archBack"}
      /\ step' \in {"archWrite", "archTodo", "archBack", "idle"}
      /\ Carried = {} /\ Carried' = {}
      /\ UNCHANGED <<inboxF, staging, used, unread, blind>> /\ excused \subseteq excused'
      /\ ~blind
  BY DEF ArchiveRead, ArchiveWrite, ArchiveTodo, ArchiveBack, Fail, Done, Carried, files,
         TypesInv, FlagTypes
<1>3. CASE UNCHANGED <<files, tasks, seen>> /\ step' = "idle"
  BY <1>2, <1>3, IdlingKeeps
<1>4. CASE ArchiveRead /\ step' # "idle"
  <2>1. /\ prev' = archF /\ step' = "archWrite"
        /\ UNCHANGED <<files, tasks, seen, excused, late>>
    BY <1>4 DEF ArchiveRead, Fail, Done, memory
  <2>2. MemoryInv'
    BY <1>2, <2>1 DEF KeptInv, MemoryInv, files, Sighted
  <2>3. OperationInv'
    BY <2>1 DEF OperationInv, files
  <2>4. FilesInv'
    BY <1>2, <2>1 DEF KeptInv, FilesInv, InFiles, files
  <2> QED
    BY <2>2, <2>3, <2>4 DEF KeptInv
<1>5. CASE ArchiveWrite /\ step' # "idle"
  <2>1. /\ step = "archWrite" /\ step' = "archTodo" /\ archF' = prev \o K
        /\ excused' = excused \cup (late \cap ToSet(archF))
        /\ UNCHANGED <<todoF, tasks, seen, job, prev, late>>
    BY <1>5 DEF ArchiveWrite, Fail, Done, memory, K
  <2>2. MemoryInv'
    BY <1>2, <2>1 DEF KeptInv, MemoryInv, Sighted
  <2>3. OperationInv'
    BY <1>1, <2>1 DEF OperationInv, K
  <2>4. FilesInv'
    BY <1>1, <1>2, <2>1 DEF KeptInv, OperationInv, FilesInv, InFiles
  <2> QED
    BY <2>2, <2>3, <2>4 DEF KeptInv
<1>6. CASE ArchiveTodo /\ step' # "idle"
  <2>1. /\ step = "archTodo" /\ step' = "archBack"
        /\ UNCHANGED <<files, tasks, seen, job, prev, late, excused>>
    BY <1>6 DEF ArchiveTodo, Done, memory, files
  <2>2. MemoryInv'
    BY <1>2, <2>1 DEF KeptInv, MemoryInv, files, Sighted
  <2>3. OperationInv'
    BY <2>1 DEF KeptInv, OperationInv, files
  <2>4. FilesInv'
    BY <1>2, <2>1 DEF KeptInv, FilesInv, InFiles, files
  <2> QED
    BY <2>2, <2>3, <2>4 DEF KeptInv
<1>7. CASE ArchiveTodo /\ step' = "idle"
  <2>1. /\ step = "archTodo" /\ todoF' = W /\ seen' = W /\ tasks' = W /\ archF' = archF
        /\ excused' = excused \cup late
    BY <1>7 DEF ArchiveTodo, WriteTodo, W
  <2>2. MemoryInv'
    BY <1>2, <1>7, <2>1 DEF MemoryInv, Sighted
  <2>3. OperationInv'
    BY <1>7 DEF OperationInv
  <2>4. ToSet(K) \subseteq ToSet(archF) /\ ToSet(todoF) \subseteq ToSet(tasks) \cup late \cup excused
    BY <1>2, <2>1 DEF KeptInv, OperationInv, MemoryInv, K, Sighted
  <2>5. FilesInv'
    BY <1>1, <1>2, <2>1, <2>4 DEF KeptInv, FilesInv, InFiles
  <2> QED
    BY <2>2, <2>3, <2>5 DEF KeptInv
<1>8. CASE ArchiveBack /\ archF' = prev /\ excused' = excused \cup (late \cap ToSet(archF))
  <2>1. step = "archBack" /\ step' = "idle" /\ UNCHANGED <<todoF, tasks, seen>>
    BY <1>8 DEF ArchiveBack, Done, memory
  <2>2. MemoryInv'
    BY <1>2, <1>8, <2>1 DEF KeptInv, MemoryInv, Sighted
  <2>3. OperationInv'
    BY <2>1 DEF OperationInv
  <2>4. /\ ToSet(archF) \subseteq ToSet(prev) \cup ToSet(K) \cup late
        /\ ToSet(tasks) \subseteq ToSet(todoF) \cup excused
    BY <1>2, <2>1 DEF KeptInv, OperationInv, MemoryInv, K, Sighted
  <2>5. FilesInv'
    BY <1>1, <1>2, <1>8, <2>1, <2>4 DEF KeptInv, FilesInv, InFiles
  <2> QED
    BY <2>2, <2>3, <2>5 DEF KeptInv
<1> QED
  BY <1>2, <1>3, <1>4, <1>5, <1>6, <1>7, <1>8
  DEF ArchiveRead, ArchiveWrite, ArchiveTodo, ArchiveBack, Fail, Done, memory, files

\* unarchive.
LEMMA UnarchivingKeeps ==
  ASSUME TypesInv, KeptInv, UnarchiveRead \/ UnarchiveWrite \/ UnarchiveTodo
  PROVE  KeptInv'
<1>0. ~blind /\ ~blind' /\ unread' = unread
  BY DEF UnarchiveRead, UnarchiveWrite, UnarchiveTodo, TypesInv, FlagTypes
<1>1. CASE UnarchiveRead
  <2>0. Carried = {} /\ Carried' = {}
    BY <1>1 DEF UnarchiveRead, Fail, Done, Carried
  <2>1. CASE step' = "idle"
    BY <1>0, <1>1, <2>0, <2>1, IdlingKeeps DEF UnarchiveRead, memory
  <2>2. CASE step' # "idle"
    <3>1. /\ archF = archive /\ archive' = archive /\ step' = "unarchWrite"
          /\ UNCHANGED <<files, tasks, seen, used, late, excused>>
      BY <1>1, <2>2 DEF UnarchiveRead, Fail, Done, memory
    <3>2. step = "unarchRead"
      BY <1>1 DEF UnarchiveRead
    <3>3. MemoryInv'
      BY <1>0, <2>0, <3>1, <3>2 DEF KeptInv, MemoryInv, files, Sighted
    <3>4. OperationInv'
      BY <3>1 DEF OperationInv, files
    <3>5. FilesInv'
      BY <1>0, <2>0, <3>1 DEF KeptInv, FilesInv, InFiles, files
    <3> QED
      BY <3>3, <3>4, <3>5 DEF KeptInv
  <2> QED
    BY <2>1, <2>2
<1>2. CASE UnarchiveWrite
  <2>0. Carried = {} /\ step = "unarchWrite"
    BY <1>2 DEF UnarchiveWrite, Carried
  <2>1. CASE step' = "idle"
    <3>1. UNCHANGED <<files, tasks, seen, used, excused>>
      BY <1>2, <2>1 DEF UnarchiveWrite, files
    <3> QED
      BY <1>0, <2>0, <2>1, <3>1, IdlingKeeps DEF Carried
  <2>2. CASE step' # "idle"
    <3>1. PICK i \in 1..Len(archive) : job = {i}
      BY <2>0 DEF TypesInv, JobInv
    <3> DEFINE x == archive[i]
    <3>2. /\ archF' = Without(archive, job) /\ tasks' = tasks \o Keep(archive, job)
          /\ step' = "unarchTodo" /\ excused' = excused \cup (late \cap ToSet(archF))
          /\ UNCHANGED <<todoF, inboxF, staging, seen, used, late>>
      BY <1>2, <2>2 DEF UnarchiveWrite, Fail, Done
    <3>3. /\ ToSet(archive) = ToSet(archF') \cup {x} /\ ToSet(tasks') = ToSet(tasks) \cup {x}
          /\ Carried' = {x}
      BY <3>1, <3>2, TakenFromArchive DEF TypesInv, Carried
    <3> HIDE DEF x
    <3>4. MemoryInv'
      BY <1>0, <2>0, <3>2, <3>3 DEF KeptInv, MemoryInv, Sighted
    <3>5. OperationInv'
      BY <3>2 DEF OperationInv
    <3>6. FilesInv'
      BY <1>0, <2>0, <3>2, <3>3 DEF KeptInv, OperationInv, FilesInv, InFiles
    <3> QED
      BY <3>4, <3>5, <3>6 DEF KeptInv
  <2> QED
    BY <2>1, <2>2
<1>3. CASE UnarchiveTodo
  <2>1. /\ step = "unarchTodo" /\ step' = "idle" /\ Carried' = {}
        /\ UNCHANGED <<archF, inboxF, staging, used, tasks>>
    BY <1>3 DEF UnarchiveTodo, Done, Carried
  <2>2. Carried \subseteq ToSet(tasks)
    BY <2>1 DEF TypesInv, JobInv, RowTypes, Carried, Last, ToSet
  <2>3. OperationInv'
    BY <2>1 DEF OperationInv
  <2>4. CASE todoF' = tasks /\ seen' = tasks /\ excused' = excused \cup late
    <3>1. MemoryInv'
      BY <1>0, <2>1, <2>4 DEF MemoryInv, Sighted
    <3>2. FilesInv'
      BY <1>0, <2>1, <2>2, <2>4 DEF KeptInv, MemoryInv, FilesInv, InFiles, Sighted
    <3> QED
      BY <2>3, <3>1, <3>2 DEF KeptInv
  <2>5. CASE UNCHANGED <<todoF, seen>> /\ excused' = excused \cup Carried
    <3>1. MemoryInv'
      BY <1>0, <2>1, <2>5 DEF KeptInv, MemoryInv, Sighted
    <3>2. FilesInv'
      BY <1>0, <2>1, <2>5 DEF KeptInv, FilesInv, InFiles
    <3> QED
      BY <2>3, <3>1, <3>2 DEF KeptInv
  <2> QED
    BY <1>3, <2>4, <2>5 DEF UnarchiveTodo, WriteTodo
<1> QED
  BY <1>1, <1>2, <1>3

\* The poll and the drain of the inbox.
LEMMA DrainingKeeps ==
  ASSUME TypesInv, KeptInv, Poll \/ DrainStage \/ DrainWrite \/ DrainClean
  PROVE  KeptInv'
<1>0. Carried = {} /\ Carried' = {} /\ used' = used /\ archF' = archF /\ excused \subseteq excused'
      /\ unread \subseteq unread'
  BY DEF Poll, DrainStage, DrainWrite, DrainClean, Fail, Done, Carried, hvars, files
<1>1. ASSUME step' = "idle", UNCHANGED <<tasks, seen>>,
             InFiles \subseteq InFiles' \cup excused', todoF' = todoF
      PROVE  KeptInv'
  <2>1. MemoryInv'
    BY <1>0, <1>1 DEF KeptInv, MemoryInv, Sighted
  <2>2. OperationInv'
    BY <1>1 DEF OperationInv
  <2>3. FilesInv'
    BY <1>0, <1>1 DEF KeptInv, FilesInv
  <2> QED
    BY <2>1, <2>2, <2>3 DEF KeptInv
<1>2. CASE Poll
  <2>1. step = "idle" /\ step' = "drain" /\ UNCHANGED <<files, used, excused, unread>>
    BY <1>2 DEF Poll
  <2>2. CASE Reload
    BY <1>0, <2>1, <2>2, ReloadKeeps
  <2>3. CASE UNCHANGED <<tasks, seen>> /\ (todoF = seen \/ blind')
    <3>1. MemoryInv'
      BY <1>0, <2>1, <2>3 DEF KeptInv, MemoryInv, Sighted, files
    <3>2. OperationInv'
      BY <2>1 DEF OperationInv
    <3>3. FilesInv'
      BY <1>0, <2>1 DEF KeptInv, FilesInv, InFiles, files
    <3> QED
      BY <3>1, <3>2, <3>3 DEF KeptInv
  <2> QED
    BY <1>2, <2>2, <2>3 DEF Poll, memory
<1>3. CASE DrainStage
  <2>1. /\ step = "drain" /\ step' \in {"staged", "idle"}
        /\ UNCHANGED <<todoF, tasks, seen, excused>>
        /\ step' = "staged" => late' = late /\ blind' = blind
        /\ \/ UNCHANGED <<inboxF, staging>>
           \/ staging = <<>> /\ staging' = inboxF /\ inboxF' = <<>>
    BY <1>3 DEF DrainStage, Fail, Done, memory, TypesInv, FlagTypes
  <2>2. InFiles' = InFiles
    BY <1>0, <2>1, EmptyList DEF InFiles
  <2>3. CASE step' = "idle"
    BY <1>1, <2>1, <2>2, <2>3
  <2>4. CASE step' = "staged"
    <3>1. MemoryInv'
      BY <1>0, <2>1, <2>4 DEF KeptInv, MemoryInv, Sighted
    <3>2. OperationInv'
      BY <2>4 DEF OperationInv
    <3>3. FilesInv'
      BY <1>0, <2>1, <2>2 DEF KeptInv, FilesInv
    <3> QED
      BY <3>1, <3>2, <3>3 DEF KeptInv
  <2> QED
    BY <2>1, <2>3, <2>4
<1>4. CASE DrainWrite
  <2>1. step = "staged" /\ UNCHANGED <<inboxF, staging>>
    BY <1>4 DEF DrainWrite
  <2>2. /\ Parsed \in Seq(used) /\ ToSet(Parsed) = ToSet(staging) \cap Row
        /\ ToSet(tasks \o Parsed) = ToSet(tasks) \cup ToSet(Parsed)
    <3>1. Parsed \in Seq(used) /\ ToSet(Parsed) = ToSet(staging) \cap Row /\ tasks \in Seq(used)
      BY ParsedRows DEF TypesInv, RowTypes, FlagTypes
    <3> QED
      BY <3>1, CatSet
  <2>3. CASE step' = "idle"
    <3>1. UNCHANGED <<todoF, tasks, seen>>
      BY <1>4, <2>3 DEF DrainWrite
    <3> QED
      BY <1>0, <1>1, <2>1, <2>3, <3>1 DEF InFiles
  <2>4. CASE step' = "merged" /\ Parsed = <<>> /\ UNCHANGED <<todoF, tasks, seen, late, excused>>
    <3>1. MemoryInv'
      BY <1>0, <2>1, <2>4 DEF KeptInv, MemoryInv, Sighted
    <3>2. OperationInv'
      BY <2>1, <2>2, <2>4, EmptyList DEF OperationInv
    <3>3. FilesInv'
      BY <1>0, <2>1, <2>4 DEF KeptInv, FilesInv, InFiles
    <3> QED
      BY <3>1, <3>2, <3>3 DEF KeptInv
  <2>5. CASE /\ step' = "merged" /\ excused' = excused \cup late
             /\ unread' = IF blind THEN unread \cup (Edited \ late) ELSE unread
             /\ todoF' = tasks \o Parsed /\ seen' = todoF' /\ tasks' = todoF'
    <3>0. ToSet(todoF) \subseteq ToSet(tasks) \cup excused' \cup unread'
      <4>1. CASE ~blind
        BY <2>1, <2>5, <4>1 DEF KeptInv, MemoryInv, Sighted
      <4>2. CASE blind
        <5> SUFFICES ASSUME NEW r \in ToSet(todoF), r \notin ToSet(seen)
                     PROVE  r \in Edited
          BY <2>5, <4>2 DEF KeptInv, MemoryInv
        <5>1. r \in used /\ todoF \in Seq(used) /\ seen \in Seq(used)
          BY KnownRows DEF TypesInv, RowTypes
        <5>2. Copies(todoF, r) # Copies(seen, r)
          BY <5>1, CopiesInSet
        <5> QED
          BY <5>1, <5>2 DEF Edited
      <4> QED
        BY <4>1, <4>2
    <3>1. MemoryInv'
      BY <2>5 DEF MemoryInv, Sighted
    <3>2. OperationInv'
      BY <2>1, <2>2, <2>5 DEF OperationInv
    <3>3. FilesInv'
      BY <1>0, <2>1, <2>2, <2>5, <3>0 DEF KeptInv, FilesInv, InFiles
    <3> QED
      BY <3>1, <3>2, <3>3 DEF KeptInv
  <2> QED
    BY <1>4, <2>3, <2>4, <2>5 DEF DrainWrite, WriteTodo, memory
<1>5. CASE DrainClean
  <2>1. /\ step = "merged" /\ step' = "idle" /\ staging' \in {staging, <<>>}
        /\ UNCHANGED <<todoF, inboxF, tasks, seen, excused>>
    BY <1>5 DEF DrainClean, Done, memory
  <2>2. used \subseteq InFiles' \cup excused \cup unread
    <3>1. ToSet(staging) \cap Row \subseteq ToSet(todoF) \cup excused
      BY <2>1 DEF KeptInv, OperationInv
    <3>2. used \subseteq Row
      BY DEF TypesInv, FlagTypes
    <3> QED
      BY <1>0, <2>1, <3>1, <3>2, EmptyList DEF KeptInv, FilesInv, InFiles
  <2>3. MemoryInv'
    BY <1>0, <2>1 DEF KeptInv, MemoryInv, Sighted
  <2>4. OperationInv'
    BY <2>1 DEF OperationInv
  <2>5. FilesInv'
    BY <1>0, <2>1, <2>2 DEF FilesInv
  <2> QED
    BY <2>3, <2>4, <2>5 DEF KeptInv
<1> QED
  BY <1>2, <1>3, <1>4, <1>5

\* Every step of the store, its clients and its editors loses nothing.
LEMMA KeptStep ==
  ASSUME TypesInv, KeptInv, [TodoNext]_todoVars
  PROVE  KeptInv'
<1>1. CASE Start
  <2>1. /\ tasks' = todoF /\ seen' = todoF /\ step' = "idle" /\ step = "down"
        /\ UNCHANGED <<files, used, excused, unread>>
    BY <1>1 DEF Start, hvars
  <2>2. Carried = {} /\ Carried' = {}
    BY <2>1 DEF Carried
  <2> QED
    BY <2>1, <2>2, ReloadKeeps
<1>2. CASE Down
  <2>1. /\ tasks' = <<>> /\ seen' = <<>> /\ step' = "down" /\ excused' = excused \cup Carried
        /\ UNCHANGED <<files, used, unread>>
    BY <1>2 DEF Down
  <2>2. Carried' = {}
    BY <2>1 DEF Carried
  <2> QED
    BY <2>1, <2>2, ReloadKeeps
<1>3. CASE Abort
  <2>1. /\ Reload /\ step' = "idle" /\ step = "idle"
        /\ UNCHANGED <<files, used, excused, unread>>
    BY <1>3 DEF Abort, op, hvars
  <2>2. Carried = {} /\ Carried' = {}
    BY <2>1 DEF Carried
  <2> QED
    BY <2>1, <2>2, ReloadKeeps
<1>4. CASE LoaderRead \/ UNCHANGED todoVars
  <2>1. UNCHANGED <<files, tasks, seen, used, excused, unread, late, step, archive, job, prev,
                    blind>>
    BY <1>4 DEF LoaderRead, todoVars, memory, arch, op, hvars
  <2>2. Carried' = Carried
    BY <2>1 DEF Carried
  <2> QED
    BY <2>1, <2>2, IdlingKeeps
<1>5. CASE PollArchive
  <2>1. UNCHANGED <<files, tasks, seen, used, excused, unread, late, step>> /\ step = "idle"
    BY <1>5 DEF PollArchive, memory, op, hvars
  <2>2. Carried' = Carried
    BY <2>1 DEF Carried
  <2> QED
    BY <2>1, <2>2, IdlingKeeps
<1>6. ASSUME NEW r \in Row, Add(r) PROVE KeptInv'
  <2>1. /\ step = "idle" /\ todoF = seen /\ step' = "add" /\ job' = {r} /\ r \notin used
        /\ used' = used \cup {r} /\ UNCHANGED <<files, tasks, seen, late, excused, unread>>
    BY <1>6 DEF Add, Proceed, memory
  <2>2. Carried = {} /\ Carried' = {r}
    BY <2>1 DEF Carried
  <2>3. ToSet(todoF) \subseteq used
    BY KnownRows DEF TypesInv
  <2>4. MemoryInv'
    BY <2>1, <2>2, <2>3 DEF KeptInv, MemoryInv, Sighted, files
  <2>5. OperationInv'
    BY <2>1 DEF OperationInv
  <2>6. FilesInv'
    BY <2>1, <2>2 DEF KeptInv, FilesInv, InFiles, files
  <2> QED
    BY <2>4, <2>5, <2>6 DEF KeptInv
<1>7. CASE \/ \E I \in SUBSET (1..Len(tasks)) : Delete(I) \/ Archive(I)
           \/ \E i \in 1..Len(archive) : Unarchive(i)
           \/ Undo
  <2>1. /\ todoF = seen /\ step = "idle"
        /\ UNCHANGED <<files, tasks, seen, excused, unread, late, used>>
        /\ step' \in {"delete", "undo", "archRead", "unarchRead"}
    BY <1>7 DEF Delete, Archive, Unarchive, Undo, Proceed, memory, hvars
  <2> QED
    BY <2>1, ProceedKeeps
<1>8. CASE AddWrite
  <2> DEFINE new == tasks \o SetToSeq(job)
  <2>1. step = "add" /\ Rewrite(new, Snapshot(hist), {})
    BY <1>8 DEF AddWrite
  <2>2. Carried = job /\ ToSet(new) = ToSet(tasks) \cup job /\ job \cap ToSet(todoF) = {}
    BY <2>1, NewTasks DEF TypesInv, KeptInv, MemoryInv, Carried
  <2> HIDE DEF new
  <2> QED
    BY <2>1, <2>2, RewriteKeeps
<1>9. CASE DeleteWrite
  <2> DEFINE new == Without(tasks, job)
             taken == {tasks[i] : i \in job}
  <2>1. step = "delete" /\ Rewrite(new, Snapshot(hist), taken)
    BY <1>9 DEF DeleteWrite
  <2>2. Carried = {} /\ ToSet(tasks) = taken \cup ToSet(new)
    BY <2>1, NewTasks DEF TypesInv, Carried
  <2> HIDE DEF new, taken
  <2> QED
    BY <2>1, <2>2, RewriteKeeps
<1>10. CASE UndoWrite
  <2> DEFINE new == Last(hist)
             taken == (ToSet(tasks) \ ToSet(new)) \cup (ToSet(new) \ ToSet(tasks))
  <2>1. step = "undo" /\ Rewrite(new, Front(hist), taken)
    BY <1>10 DEF UndoWrite
  <2>2. Carried = {}
    BY <2>1 DEF Carried
  <2> HIDE DEF new
  <2>3. /\ ToSet(tasks) \subseteq ToSet(new) \cup taken
        /\ ToSet(new) \subseteq ToSet(tasks) \cup taken
    OBVIOUS
  <2> HIDE DEF taken
  <2> QED
    BY <2>1, <2>2, <2>3, RewriteKeeps
<1> QED
  BY <1>1, <1>2, <1>3, <1>4, <1>5, <1>6, <1>7, <1>8, <1>9, <1>10, OthersKeep, ArchivingKeeps,
     UnarchivingKeeps, DrainingKeeps DEF TodoNext

LEMMA KeptInductive == TodoSpec => [](TypesInv /\ KeptInv)
<1>1. TodoInit => KeptInv
  BY EmptyList DEF TodoInit, KeptInv, MemoryInv, OperationInv, FilesInv, Carried
<1> QED
  BY <1>1, KeptStep, TypesInductive, PTL DEF TodoSpec

\* archive_many's contract and the comment on staging_path_for: no row is lost
\* by a failed operation, a crash at any point or an edit from outside, for
\* any number of rows, operations and faults, but those that NoRowLost names:
\* among them the rows of an edit that a poll could not read and the drain of
\* that poll overwrote, which the code does not keep.
THEOREM RowsKept == TodoSpec => []NoRowLost
<1>1. TypesInv /\ KeptInv => NoRowLost
  <2> SUFFICES ASSUME TypesInv, KeptInv, NEW r \in used \ (excused \cup unread \cup Carried)
               PROVE  Stored(r) > 0
    BY DEF NoRowLost
  <2>1. r \in InFiles
    BY DEF KeptInv, FilesInv
  <2>2. /\ Copies(todoF, r) \in Nat /\ (Copies(todoF, r) > 0 <=> r \in ToSet(todoF))
        /\ Copies(archF, r) \in Nat /\ (Copies(archF, r) > 0 <=> r \in ToSet(archF))
        /\ Copies(inboxF, r) \in Nat /\ (Copies(inboxF, r) > 0 <=> r \in ToSet(inboxF))
        /\ Copies(staging, r) \in Nat /\ (Copies(staging, r) > 0 <=> r \in ToSet(staging))
    BY CopiesInSet DEF TypesInv, RowTypes
  <2> QED
    BY <2>1, <2>2 DEF InFiles, Stored
<1> QED
  BY <1>1, KeptInductive, PTL

-----------------------------------------------------------------------------
(* An undo spares the edits of others.                                     *)

\* What the history may become in an operation.
LEMMA HistoryRows ==
  ASSUME NEW A, hist \in Seq(A), Len(hist) <= UndoLimit, tasks \in A
  PROVE  /\ ToSet(Snapshot(hist)) \subseteq ToSet(hist) \cup {tasks}
         /\ ToSet(Front(Snapshot(hist))) \subseteq ToSet(hist) \cup {tasks}
         /\ hist # <<>> => ToSet(Front(hist)) \subseteq ToSet(hist) /\ Last(hist) \in ToSet(hist)
<1>1. /\ hist \in Seq(ToSet(hist)) /\ tasks \in ToSet(hist) \cup {tasks}
  <2>1. /\ Len(hist) \in Nat /\ hist = [i \in 1..Len(hist) |-> hist[i]]
        /\ \A i \in 1..Len(hist) : hist[i] \in ToSet(hist)
    BY InList
  <2> QED
    BY <2>1
<1> DEFINE B == ToSet(hist) \cup {tasks}
<1>2. hist \in Seq(B) /\ tasks \in B
  BY <1>1, SeqGrows
<1> HIDE DEF B
<1>3. Snapshot(hist) \in Seq(B) /\ Front(Snapshot(hist)) \in Seq(B)
  BY <1>2, HistoryTypes
<1>4. ToSet(Snapshot(hist)) \subseteq B /\ ToSet(Front(Snapshot(hist))) \subseteq B
  BY <1>3, InList
<1>5. ASSUME hist # <<>> PROVE ToSet(Front(hist)) \subseteq ToSet(hist) /\ Last(hist) \in ToSet(hist)
  <2>1. Len(hist) \in Nat /\ Len(hist) > 0
    BY <1>5
  <2>2. Last(hist) \in ToSet(hist)
    BY <2>1, InList DEF Last
  <2> DEFINE C == ToSet(hist)
             k == Len(hist) - 1
  <2>3. hist \in Seq(C) /\ k \in Nat /\ \A j \in 1..k : hist[j] \in C
    BY <1>1, <2>1, InList
  <2> HIDE DEF C
  <2>4. SubSeq(hist, 1, k) \in Seq(C)
    <3>1. k \in Int /\ 1 \in Int
      BY <2>3
    <3> HIDE DEF k
    <3> QED
      BY <2>3, <3>1, SubSeqProperties
  <2>5. ToSet(Front(hist)) \subseteq C
    BY <2>4, InList DEF Front
  <2> QED
    BY <2>2, <2>5 DEF C
<1> QED
  BY <1>4, <1>5 DEF B

\* Of a row the todo file has more copies than the store has seen only when
\* an editor added it, and then it is nowhere else.  Of an editor's row the
\* file has less (it was removed), or all that an undo could bring back has as
\* many copies as the store has seen.  And while an operation is under way
\* that read the file, this is what the store has seen, up to what is late.
Has(S, r, n) == \A s \in S : Copies(s, r) = n

Unseen(r) ==
  Copies(todoF, r) > Copies(seen, r) =>
    /\ r \in theirs /\ Copies(seen, r) = 0
    /\ r \notin ToSet(archF) \cup ToSet(archive) \cup ToSet(loaded) \cup ToSet(prev)

Spared(r) ==
  r \in theirs => \/ Copies(todoF, r) < Copies(seen, r)
                  \/ Has(ToSet(hist) \cup {tasks}, r, Copies(seen, r))

InTime(r) == Sighted /\ r \notin late => Copies(todoF, r) = Copies(seen, r)

EditOK(r) == Unseen(r) /\ Spared(r) /\ InTime(r) /\ (step = "add" => r \notin job \cap theirs)

EditInv == step # "down" => \A r \in Row : EditOK(r)

LEMMA CountsAreNumbers ==
  ASSUME NEW U, RowTypes(U), NEW r
  PROVE  /\ Copies(todoF, r) \in Nat /\ Copies(seen, r) \in Nat /\ Copies(tasks, r) \in Nat
         /\ \A s \in ToSet(hist) : s \in Seq(U) /\ Copies(s, r) \in Nat
<1>1. ToSet(hist) \subseteq Seq(U)
  BY InList DEF RowTypes
<1> QED
  BY <1>1, CopiesInSet DEF RowTypes

\* A row that is new has no copies, but in the file it is put in.
LEMMA NewRow ==
  ASSUME NEW U, RowTypes(U), NEW r, r \notin U
  PROVE  /\ Copies(todoF, r) = 0 /\ Copies(seen, r) = 0
         /\ Has(ToSet(hist) \cup {tasks}, r, 0)
         /\ r \notin ToSet(archF) \cup ToSet(archive) \cup ToSet(loaded) \cup ToSet(prev)
         /\ r \notin ToSet(tasks) \cup ToSet(todoF)
<1>1. \A s \in Seq(U) : r \notin ToSet(s) /\ Copies(s, r) = 0
  <2> SUFFICES ASSUME NEW s \in Seq(U) PROVE r \notin ToSet(s) /\ Copies(s, r) = 0
    OBVIOUS
  <2>1. r \notin ToSet(s)
    BY InList
  <2> QED
    BY <2>1, CopiesInSet
<1> QED
  BY <1>1, CountsAreNumbers DEF RowTypes, Has

\* When the store has just read or written the whole file.
LEMMA UpToDate ==
  ASSUME NEW r, todoF' = seen',
         r \in theirs' => Has(ToSet(hist') \cup {tasks'}, r, Copies(seen', r)),
         step' # "add", NEW U, RowTypes(U)'
  PROVE  EditOK(r)'
<1>1. Copies(todoF', r) = Copies(seen', r) /\ Copies(todoF', r) \in Nat
  BY CopiesInSet DEF RowTypes
<1> QED
  BY <1>1 DEF EditOK, Unseen, Spared, InTime

\* Steps that leave what the invariant is about alone.
LEMMA EditStays ==
  ASSUME NEW r, EditOK(r),
         UNCHANGED <<todoF, seen, tasks, hist, theirs>>,
         \/ step' = "idle" \/ todoF = seen
         \/ Sighted' => Sighted /\ late \subseteq late',
         step' = "add" => r \notin job' \cap theirs,
         ToSet(archF') \cup ToSet(archive') \cup ToSet(loaded') \cup ToSet(prev')
           \subseteq ToSet(archF) \cup ToSet(archive) \cup ToSet(loaded) \cup ToSet(prev)
                       \cup ToSet(tasks),
         NEW U, RowTypes(U)
  PROVE  EditOK(r)'
<1>1. /\ Copies(todoF, r) \in Nat /\ Copies(seen, r) \in Nat /\ Copies(tasks, r) \in Nat
      /\ Copies(tasks, r) > 0 <=> r \in ToSet(tasks)
  BY CopiesInSet DEF RowTypes
<1>2. Copies(todoF, r) > Copies(seen, r) => r \notin ToSet(tasks)
  BY <1>1 DEF EditOK, Unseen, Spared, Has
<1>3. Unseen(r)'
  BY <1>2 DEF EditOK, Unseen
<1>4. Spared(r)'
  BY DEF EditOK, Spared
<1>5. InTime(r)'
  BY DEF EditOK, InTime, Sighted
<1> QED
  BY <1>3, <1>4, <1>5 DEF EditOK

\* Changes of the tasks that are the user's own.
LEMMA RewriteSpares ==
  ASSUME TypesInv, TypesInv', step \in {"add", "delete", "undo"}, NEW r, EditOK(r),
         NEW new, NEW history, NEW taken, Rewrite(new, history, taken),
         ToSet(history) \subseteq ToSet(hist) \cup {tasks},
         Has(ToSet(hist) \cup {tasks}, r, Copies(seen, r)) /\ r \in theirs =>
           IF r \in taken THEN Copies(seen, r) > 0 ELSE Copies(new, r) = Copies(seen, r)
  PROVE  EditOK(r)'
<1>1. /\ tasks' = new /\ hist' = history /\ step' = "idle" /\ prev' = <<>>
      /\ UNCHANGED <<archF, archive, loaded>>
  BY Rewrites
<1>2. /\ Copies(todoF, r) \in Nat /\ Copies(seen, r) \in Nat
  BY CountsAreNumbers DEF TypesInv
<1>3. CASE /\ todoF' = new /\ seen' = new
           /\ theirs' = {x \in theirs \ (late \cup Edited) : Copies(new, x) = Copies(todoF, x)}
  <2>1. ASSUME r \in theirs' PROVE Has(ToSet(hist') \cup {tasks'}, r, Copies(seen', r))
    <3>1. r \in theirs /\ Copies(new, r) = Copies(todoF, r) /\ Copies(todoF, r) = Copies(seen, r)
      BY <1>3, <2>1 DEF Edited, TypesInv, FlagTypes
    <3>2. Has(ToSet(hist) \cup {tasks}, r, Copies(seen, r))
      BY <1>2, <3>1 DEF EditOK, Spared
    <3> QED
      BY <1>1, <1>3, <3>1, <3>2 DEF Has
  <2> QED
    BY <1>1, <1>3, <2>1, UpToDate DEF TypesInv
<1>4. CASE UNCHANGED <<todoF, seen>> /\ theirs' = theirs \ taken
  <2>1. Unseen(r)'
    <3> SUFFICES ASSUME Copies(todoF, r) > Copies(seen, r)
                 PROVE  r \in theirs' /\ Copies(seen, r) = 0
                        /\ r \notin ToSet(archF) \cup ToSet(archive) \cup ToSet(loaded) \cup ToSet(prev')
      BY <1>1, <1>4 DEF Unseen
    <3>1. /\ r \in theirs /\ Copies(seen, r) = 0
          /\ r \notin ToSet(archF) \cup ToSet(archive) \cup ToSet(loaded)
      BY DEF EditOK, Unseen
    <3>2. Has(ToSet(hist) \cup {tasks}, r, Copies(seen, r))
      BY <1>2, <3>1 DEF EditOK, Spared
    <3>3. r \notin taken
      BY <3>1, <3>2
    <3> QED
      BY <1>1, <1>4, <3>1, <3>3, EmptyList
  <2>2. Spared(r)'
    BY <1>1, <1>4 DEF EditOK, Spared, Has
  <2>3. InTime(r)'
    BY <1>1 DEF InTime, Sighted
  <2> QED
    BY <1>1, <2>1, <2>2, <2>3 DEF EditOK
<1> QED
  BY <1>3, <1>4 DEF Rewrite, WriteTodo

\* add, delete and undo.
LEMMA UserSpares ==
  ASSUME TypesInv, TypesInv', NEW r, EditOK(r), AddWrite \/ DeleteWrite \/ UndoWrite
  PROVE  EditOK(r)'
<1> DEFINE A == Seq(used)
<1>1. /\ tasks \in Seq(used) /\ tasks \in A /\ hist \in Seq(A) /\ Len(hist) <= UndoLimit
  BY DEF TypesInv, RowTypes
<1> HIDE DEF A
<1>2. /\ ToSet(Snapshot(hist)) \subseteq ToSet(hist) \cup {tasks}
      /\ hist # <<>> => ToSet(Front(hist)) \subseteq ToSet(hist) /\ Last(hist) \in ToSet(hist)
  BY <1>1, HistoryRows
<1>3. Copies(tasks, r) \in Nat /\ (Copies(tasks, r) > 0 <=> r \in ToSet(tasks))
  BY <1>1, CopiesInSet
<1>4. CASE AddWrite
  <2> DEFINE new == tasks \o SetToSeq(job)
  <2>1. step = "add" /\ Rewrite(new, Snapshot(hist), {})
    BY <1>4 DEF AddWrite
  <2>2. PICK x \in used : job = {x}
    BY <2>1 DEF TypesInv, JobInv
  <2>3. ASSUME r \in theirs PROVE Copies(new, r) = Copies(tasks, r)
    <3> DEFINE q == <<x>>
    <3>1. r # x
      BY <2>1, <2>2, <2>3 DEF EditOK
    <3>2. SetToSeq(job) = q /\ q \in Seq(used) /\ Copies(q, r) = 0
      BY <2>2, <3>1, OneRow, OneCopy
    <3> HIDE DEF q
    <3>3. Copies(tasks \o q, r) = Copies(tasks, r) + Copies(q, r)
      BY <1>1, <3>2, CopiesCat
    <3> QED
      BY <1>3, <3>2, <3>3
  <2> HIDE DEF new
  <2>4. Has(ToSet(hist) \cup {tasks}, r, Copies(seen, r)) => Copies(tasks, r) = Copies(seen, r)
    BY DEF Has
  <2> QED
    BY <1>2, <2>1, <2>3, <2>4, RewriteSpares
<1>5. CASE DeleteWrite
  <2> DEFINE new == Without(tasks, job)
             taken == {tasks[i] : i \in job}
  <2>1. step = "delete" /\ Rewrite(new, Snapshot(hist), taken)
    BY <1>5 DEF DeleteWrite
  <2>2. taken \subseteq ToSet(tasks)
    BY <1>1, <2>1, InList DEF TypesInv, JobInv
  <2>3. ASSUME r \notin taken PROVE Copies(new, r) = Copies(tasks, r)
    BY <1>1, <2>3, CopiesLeft
  <2> HIDE DEF new, taken
  <2>4. Has(ToSet(hist) \cup {tasks}, r, Copies(seen, r)) => Copies(tasks, r) = Copies(seen, r)
    BY DEF Has
  <2> QED
    BY <1>2, <1>3, <2>1, <2>2, <2>3, <2>4, RewriteSpares
<1>6. CASE UndoWrite
  <2> DEFINE new == Last(hist)
             taken == (ToSet(tasks) \ ToSet(new)) \cup (ToSet(new) \ ToSet(tasks))
  <2>1. step = "undo" /\ Rewrite(new, Front(hist), taken)
    BY <1>6 DEF UndoWrite
  <2>2. new \in ToSet(hist) /\ ToSet(Front(hist)) \subseteq ToSet(hist)
    BY <1>2, <2>1 DEF TypesInv, JobInv
  <2>3. Copies(new, r) \in Nat /\ (Copies(new, r) > 0 <=> r \in ToSet(new))
    BY <2>2, CountsAreNumbers, CopiesInSet DEF TypesInv
  <2> HIDE DEF new
  <2>4. Has(ToSet(hist) \cup {tasks}, r, Copies(seen, r)) =>
          Copies(tasks, r) = Copies(seen, r) /\ Copies(new, r) = Copies(seen, r)
    BY <2>2 DEF Has
  <2>5. Has(ToSet(hist) \cup {tasks}, r, Copies(seen, r)) => r \notin taken
    BY <1>3, <2>3, <2>4
  <2> HIDE DEF taken
  <2> QED
    BY <2>1, <2>2, <2>4, <2>5, RewriteSpares
<1> QED
  BY <1>4, <1>5, <1>6

\* A write of the todo file that succeeds.
LEMMA WriteSpares ==
  ASSUME TypesInv, TypesInv', NEW r, EditOK(r), step \notin {"idle", "add"}, step' # "add",
         NEW rows, WriteTodo(rows), tasks' = rows,
         ToSet(hist') \subseteq ToSet(hist) \cup {tasks}
  PROVE  EditOK(r)'
<1>1. Copies(todoF, r) \in Nat /\ Copies(seen, r) \in Nat
  BY CountsAreNumbers DEF TypesInv
<1>2. /\ todoF' = rows /\ seen' = rows
      /\ theirs' = {x \in theirs \ (late \cup Edited) : Copies(rows, x) = Copies(todoF, x)}
  BY DEF WriteTodo
<1>3. ASSUME r \in theirs' PROVE Has(ToSet(hist') \cup {tasks'}, r, Copies(seen', r))
  <2>1. r \in theirs /\ Copies(rows, r) = Copies(todoF, r) /\ Copies(todoF, r) = Copies(seen, r)
    BY <1>2, <1>3 DEF Edited, TypesInv, FlagTypes
  <2>2. Has(ToSet(hist) \cup {tasks}, r, Copies(seen, r))
    BY <1>1, <2>1 DEF EditOK, Spared
  <2> QED
    BY <1>2, <2>1, <2>2 DEF Has
<1> QED
  BY <1>2, <1>3, UpToDate DEF TypesInv

\* What others do.
LEMMA OthersSpare ==
  ASSUME TypesInv, KeptInv, NEW r, EditOK(r), step # "down",
         \/ \E x \in Row : EditorAdds(x)
         \/ \E i \in 1..Len(todoF) : EditorRemoves(i)
         \/ \E line \in Row \cup {Junk} : Capture(line)
  PROVE  EditOK(r)'
<1>0. /\ UNCHANGED <<seen, tasks, hist, archive, loaded, prev, step, job, blind>>
      /\ Copies(todoF, r) \in Nat /\ Copies(seen, r) \in Nat
  BY CountsAreNumbers DEF EditorAdds, EditorRemoves, Capture, memory, arch, op, TypesInv
<1>1. ASSUME NEW x \in Row, EditorAdds(x) PROVE EditOK(r)'
  <2>0. x \notin used /\ (step \notin {"down", "idle"} => x \in late')
        /\ late \subseteq late'
    BY <1>1 DEF EditorAdds, Late
  <2>1. CASE todoF' = Append(todoF, x) /\ theirs' = theirs \cup {x} /\ archF' = archF
    <3>1. Copies(todoF', r) = Copies(todoF, r) + (IF x = r THEN 1 ELSE 0)
      <4>1. todoF \in Seq(Row)
        BY TypesGrow DEF TypesInv, FlagTypes, RowTypes
      <4> QED
        BY <2>1, <4>1, CopiesAppended
    <3>2. CASE x # r
      <4>1. Copies(todoF', r) = Copies(todoF, r) /\ (r \in theirs' <=> r \in theirs)
        BY <1>0, <2>1, <3>1, <3>2
      <4> QED
        BY <1>0, <2>0, <2>1, <4>1 DEF EditOK, Unseen, Spared, InTime, Sighted
    <3>3. CASE x = r
      <4>1. /\ Copies(todoF, r) = 0 /\ Copies(seen, r) = 0
            /\ Has(ToSet(hist) \cup {tasks}, r, 0)
            /\ r \notin ToSet(archF) \cup ToSet(archive) \cup ToSet(loaded) \cup ToSet(prev)
        BY <2>0, <3>3, NewRow DEF TypesInv
      <4>2. step = "add" => r \notin job
        BY <2>0, <3>3 DEF TypesInv, JobInv
      <4>3. Unseen(r)' /\ Spared(r)'
        BY <1>0, <2>1, <3>1, <3>3, <4>1 DEF Unseen, Spared
      <4>4. InTime(r)'
        BY <1>0, <2>0, <3>3 DEF InTime, Sighted
      <4> QED
        BY <1>0, <4>2, <4>3, <4>4 DEF EditOK
    <3> QED
      BY <3>2, <3>3
  <2>2. CASE archF' = Append(archF, x) /\ UNCHANGED <<todoF, theirs>>
    <3>1. ToSet(archF') = ToSet(archF) \cup {x}
      <4>1. archF \in Seq(Row)
        BY TypesGrow DEF TypesInv, FlagTypes, RowTypes
      <4> QED
        BY <2>2, <4>1, AppendSet
    <3>2. Copies(todoF, r) > Copies(seen, r) => x # r
      BY <1>0, <2>0, NewRow DEF TypesInv
    <3> QED
      BY <1>0, <2>0, <2>2, <3>1, <3>2 DEF EditOK, Unseen, Spared, InTime, Sighted
  <2> QED
    BY <1>1, <2>1, <2>2 DEF EditorAdds
<1>2. ASSUME NEW i \in 1..Len(todoF), EditorRemoves(i) PROVE EditOK(r)'
  <2> DEFINE x == todoF[i]
  <2>1. /\ todoF' = Without(todoF, {i}) /\ theirs' = theirs \cup {x} /\ archF' = archF
        /\ late \subseteq late' /\ (step \notin {"down", "idle"} => x \in late')
    BY <1>2 DEF EditorRemoves, Late
  <2>2. /\ Copies(todoF', r) = Copies(todoF, r) - (IF x = r THEN 1 ELSE 0)
        /\ Copies(todoF', r) \in Nat /\ x \in ToSet(todoF)
    <3>1. todoF \in Seq(used)
      BY DEF TypesInv, RowTypes
    <3>2. Copies(todoF', r) \in Nat
      BY <2>1, <3>1, CopiesSplit
    <3> QED
      BY <2>1, <3>1, <3>2, CopiesLeft, InList
  <2> HIDE DEF x
  <2>3. CASE x # r
    <3>1. Copies(todoF', r) = Copies(todoF, r) /\ (r \in theirs' <=> r \in theirs)
      BY <1>0, <2>1, <2>2, <2>3
    <3> QED
      BY <1>0, <2>1, <3>1 DEF EditOK, Unseen, Spared, InTime, Sighted
  <2>4. CASE x = r
    <3>1. Copies(todoF', r) = Copies(todoF, r) - 1
      BY <2>2, <2>4
    <3>2. step = "add" => r \notin job
      BY <2>2, <2>4 DEF KeptInv, MemoryInv
    <3>3. Unseen(r)'
      BY <1>0, <2>1, <2>2, <3>1 DEF EditOK, Unseen
    <3>4. Spared(r)'
      <4>1. CASE Copies(todoF, r) > Copies(seen, r)
        <5>1. Has(ToSet(hist) \cup {tasks}, r, Copies(seen, r))
          BY <1>0, <4>1 DEF EditOK, Unseen, Spared
        <5> QED
          BY <1>0, <5>1 DEF Spared
      <4>2. CASE ~(Copies(todoF, r) > Copies(seen, r))
        BY <1>0, <2>2, <3>1, <4>2 DEF Spared
      <4> QED
        BY <4>1, <4>2
    <3>5. InTime(r)'
      BY <1>0, <2>1, <2>4 DEF InTime, Sighted
    <3> QED
      BY <1>0, <3>2, <3>3, <3>4, <3>5 DEF EditOK
  <2> QED
    BY <2>3, <2>4
<1>3. ASSUME NEW line \in Row \cup {Junk}, Capture(line) PROVE EditOK(r)'
  BY <1>0, <1>3 DEF Capture, EditOK, Unseen, Spared, InTime, Sighted
<1> QED
  BY <1>1, <1>2, <1>3

\* archive_many and unarchive.
LEMMA ArchivesSpare ==
  ASSUME TypesInv, TypesInv', NEW r, EditOK(r),
         \/ ArchiveRead \/ ArchiveWrite \/ ArchiveTodo \/ ArchiveBack
         \/ UnarchiveRead \/ UnarchiveWrite \/ UnarchiveTodo
  PROVE  EditOK(r)'
<1> DEFINE A == Seq(used)
           K == Keep(tasks, job)
           All == ToSet(archF) \cup ToSet(archive) \cup ToSet(loaded) \cup ToSet(prev)
           All2 == ToSet(archF') \cup ToSet(archive') \cup ToSet(loaded') \cup ToSet(prev')
<1>0. /\ step \notin {"down", "idle", "add", "merged"} /\ step' \notin {"add"}
      /\ late \subseteq late' \/ step' = "idle"
      /\ Sighted
  BY DEF ArchiveRead, ArchiveWrite, ArchiveTodo, ArchiveBack, UnarchiveRead, UnarchiveWrite,
         UnarchiveTodo, Fail, Done, Sighted, TypesInv, FlagTypes
<1>1. /\ tasks \in Seq(used) /\ prev \in Seq(used) /\ archive \in Seq(used) /\ RowTypes(used)
      /\ tasks \in A /\ hist \in Seq(A) /\ Len(hist) <= UndoLimit
  BY DEF TypesInv, RowTypes
<1> HIDE DEF A
<1>2. ToSet(Snapshot(hist)) \subseteq ToSet(hist) \cup {tasks}
  BY <1>1, HistoryRows
<1>3. ToSet(prev \o K) \subseteq ToSet(prev) \cup ToSet(tasks)
  <2>1. K \in Seq(used) /\ ToSet(K) \subseteq ToSet(tasks)
    BY <1>1, SplitSet
  <2> HIDE DEF K
  <2>2. ToSet(prev \o K) = ToSet(prev) \cup ToSet(K)
    BY <1>1, <2>1, CatSet
  <2> QED
    BY <2>1, <2>2
<1> HIDE DEF K
<1>4. ASSUME UNCHANGED <<todoF, seen, tasks, hist, theirs>>, All2 \subseteq All \cup ToSet(tasks)
      PROVE  EditOK(r)'
  BY <1>0, <1>1, <1>4, EditStays
<1>5. CASE ArchiveRead
  <2>1. /\ UNCHANGED <<archF, archive, loaded>> /\ prev' \in {prev, archF, <<>>}
        /\ UNCHANGED <<todoF, seen, tasks, hist, theirs>>
    BY <1>5 DEF ArchiveRead, Fail, Done, files, memory, arch
  <2> QED
    BY <1>4, <2>1, EmptyList
<1>6. CASE ArchiveWrite
  <2>1. /\ UNCHANGED <<archive, loaded>> /\ prev' \in {prev, <<>>}
        /\ archF' \in {archF, prev \o K}
        /\ UNCHANGED <<todoF, seen, tasks, hist, theirs>>
    BY <1>6 DEF ArchiveWrite, Fail, Done, memory, arch, K
  <2> QED
    BY <1>3, <1>4, <2>1, EmptyList
<1>7. CASE ArchiveTodo
  <2>1. CASE UNCHANGED <<todoF, memory, arch, prev, theirs>>
    <3>1. UNCHANGED <<archF, archive, loaded, prev, todoF, seen, tasks, hist, theirs>>
      BY <1>7, <2>1 DEF ArchiveTodo, memory, arch
    <3> QED
      BY <1>4, <3>1
  <2>2. CASE /\ WriteTodo(Without(tasks, job)) /\ hist' = Snapshot(hist)
             /\ tasks' = Without(tasks, job)
    BY <1>0, <1>2, <2>2, WriteSpares
  <2> QED
    BY <1>7, <2>1, <2>2 DEF ArchiveTodo
<1>8. CASE ArchiveBack
  <2>1. /\ UNCHANGED <<archive, loaded>> /\ prev' = <<>> /\ archF' \in {archF, prev}
        /\ UNCHANGED <<todoF, seen, tasks, hist, theirs>>
    BY <1>8 DEF ArchiveBack, Done, memory, arch
  <2> QED
    BY <1>4, <2>1, EmptyList
<1>9. CASE UnarchiveRead
  <2>1. /\ archF' = archF /\ archive' \in {archive, archF} /\ loaded' \in {loaded, <<>>}
        /\ prev' \in {prev, <<>>} /\ UNCHANGED <<todoF, seen, tasks, hist, theirs>>
    BY <1>9 DEF UnarchiveRead, Fail, Done, files, memory, arch
  <2> QED
    BY <1>4, <2>1, EmptyList
<1>10. CASE UnarchiveWrite
  <2>1. CASE UNCHANGED <<archF, archive, hist, tasks, theirs>>
    <3>1. UNCHANGED <<archF, archive, loaded, todoF, seen, tasks, hist, theirs>>
          /\ prev' \in {prev, <<>>}
      BY <1>10, <2>1 DEF UnarchiveWrite, Fail, Done
    <3> QED
      BY <1>4, <3>1, EmptyList
  <2>2. CASE ~UNCHANGED <<archF, archive, hist, tasks, theirs>>
    <3>1. PICK i \in 1..Len(archive) : job = {i}
      BY <1>10 DEF UnarchiveWrite, TypesInv, JobInv
    <3> DEFINE x == archive[i]
               q == Keep(archive, {i})
    <3>2. /\ archF' = Without(archive, {i}) /\ archive' = Without(archive, {i})
          /\ hist' = Snapshot(hist) /\ tasks' = tasks \o q
          /\ theirs' = theirs \ ToSet(q)
          /\ UNCHANGED <<loaded, prev, todoF, seen, late>> /\ step' = "unarchTodo"
      BY <1>10, <2>2, <3>1 DEF UnarchiveWrite
    <3>3. /\ ToSet(q) = {x} /\ x \in ToSet(archive) /\ ToSet(archive') \subseteq ToSet(archive)
          /\ q = <<x>> /\ x \in used
      <4>1. RowTypes(used)
        BY DEF TypesInv
      <4>2. /\ q = <<x>> /\ x \in used /\ ToSet(q) = {x}
            /\ ToSet(archive) = ToSet(Without(archive, {i})) \cup {x}
        BY <4>1, TakenFromArchive
      <4> QED
        BY <3>2, <4>2
    <3>4. ASSUME r # x PROVE Copies(tasks', r) = Copies(tasks, r)
      <4> HIDE DEF q, x
      <4>1. q \in Seq(used) /\ Copies(q, r) = 0
        BY <3>3, <3>4, OneCopy
      <4>2. Copies(tasks \o q, r) = Copies(tasks, r) + Copies(q, r)
        BY <1>1, <4>1, CopiesCat
      <4>3. Copies(tasks, r) \in Nat
        BY <1>1, CopiesInSet
      <4> QED
        BY <3>2, <4>1, <4>2, <4>3
    <3> HIDE DEF x, q
    <3>5. Unseen(r)'
      BY <3>2, <3>3 DEF EditOK, Unseen
    <3>6. Spared(r)'
      BY <1>2, <3>2, <3>3, <3>4 DEF EditOK, Spared, Has
    <3>7. InTime(r)'
      BY <1>0, <3>2 DEF EditOK, InTime
    <3> QED
      BY <1>0, <3>5, <3>6, <3>7 DEF EditOK
  <2> QED
    BY <2>1, <2>2
<1>11. CASE UnarchiveTodo
  <2>1. CASE UNCHANGED <<todoF, seen, theirs>>
    <3>1. UNCHANGED <<archF, archive, loaded, todoF, seen, tasks, hist, theirs>> /\ prev' = <<>>
      BY <1>11, <2>1 DEF UnarchiveTodo, Done, arch
    <3> QED
      BY <1>4, <3>1, EmptyList
  <2>2. CASE WriteTodo(tasks)
    <3>1. UNCHANGED <<tasks, hist>>
      BY <1>11 DEF UnarchiveTodo
    <3> QED
      BY <1>0, <2>2, <3>1, WriteSpares
  <2> QED
    BY <1>11, <2>1, <2>2 DEF UnarchiveTodo
<1> QED
  BY <1>5, <1>6, <1>7, <1>8, <1>9, <1>10, <1>11

\* The poll and the drain of the inbox.
LEMMA DrainingSpares ==
  ASSUME TypesInv, TypesInv', NEW r, EditOK(r), Poll \/ DrainStage \/ DrainWrite \/ DrainClean
  PROVE  EditOK(r)'
<1> DEFINE A == Seq(used)
<1>0. step' # "add" /\ UNCHANGED <<archF, archive, loaded>> /\ prev' \in {prev, <<>>}
  BY DEF Poll, DrainStage, DrainWrite, DrainClean, Fail, Done, arch, files
<1>1. /\ RowTypes(used) /\ tasks \in A /\ hist \in Seq(A) /\ Len(hist) <= UndoLimit
  BY DEF TypesInv, RowTypes
<1> HIDE DEF A
<1>2. /\ ToSet(Snapshot(hist)) \subseteq ToSet(hist) \cup {tasks}
      /\ ToSet(Front(Snapshot(hist))) \subseteq ToSet(hist) \cup {tasks}
  BY <1>1, HistoryRows
<1>3. CASE Poll
  <2>0. step = "idle" /\ step' = "drain" /\ UNCHANGED <<todoF, prev, theirs>>
    BY <1>3 DEF Poll, files
  <2>1. CASE Reload
    BY <1>0, <2>0, <2>1, EmptyList, UpToDate DEF Reload, Has, TypesInv
  <2>2. CASE todoF = seen /\ UNCHANGED memory
    BY <1>0, <1>1, <2>0, <2>2, EditStays DEF memory
  <2>3. CASE UNCHANGED memory /\ blind'
    <3>1. UNCHANGED <<todoF, seen, tasks, hist, theirs, archF, archive, loaded, prev>>
      BY <1>0, <2>0, <2>3 DEF memory
    <3> QED
      BY <1>0, <1>1, <2>3, <3>1, EditStays DEF Sighted
  <2> QED
    BY <1>3, <2>1, <2>2, <2>3 DEF Poll
<1>4. ASSUME UNCHANGED <<todoF, seen, tasks, hist, theirs>>,
             Sighted' => Sighted /\ late' = late
      PROVE  EditOK(r)'
  BY <1>0, <1>1, <1>4, EmptyList, EditStays
<1>5. CASE DrainStage \/ DrainClean
  <2>1. UNCHANGED <<todoF, seen, tasks, hist, theirs>> /\ (Sighted' => Sighted /\ late' = late)
    BY <1>5 DEF DrainStage, DrainClean, Fail, Done, memory, Sighted, TypesInv, FlagTypes
  <2> QED
    BY <1>4, <2>1
<1>6. CASE DrainWrite
  <2>0. step = "staged"
    BY <1>6 DEF DrainWrite
  <2>1. CASE UNCHANGED <<todoF, memory, late, theirs>> /\ step' = "merged"
    BY <1>4, <2>1 DEF memory, Sighted
  <2>2. CASE /\ hist' = Snapshot(hist) /\ tasks' = tasks \o Parsed
             /\ WriteTodo(tasks \o Parsed)
    BY <1>0, <1>2, <2>0, <2>2, WriteSpares
  <2>3. CASE /\ hist' = Front(Snapshot(hist)) /\ step' = "idle"
             /\ UNCHANGED <<todoF, tasks, seen, theirs>>
    <3>1. prev' \in {prev, <<>>} /\ UNCHANGED <<archF, archive, loaded>>
      BY <1>0
    <3>2. Unseen(r)'
      BY <2>3, <3>1, EmptyList DEF EditOK, Unseen
    <3>3. Spared(r)'
      BY <1>2, <2>3 DEF EditOK, Spared, Has
    <3> QED
      BY <1>0, <2>3, <3>2, <3>3 DEF EditOK, InTime, Sighted
  <2> QED
    BY <1>6, <2>1, <2>2, <2>3 DEF DrainWrite
<1> QED
  BY <1>3, <1>5, <1>6

LEMMA EditStep ==
  ASSUME TypesInv, TypesInv', KeptInv, EditInv, [TodoNext]_todoVars
  PROVE  EditInv'
<1>1. CASE Start \/ Abort
  <2> SUFFICES ASSUME NEW r \in Row PROVE EditOK(r)'
    BY DEF EditInv
  <2>1. todoF' = seen' /\ tasks' = seen' /\ hist' = <<>> /\ step' = "idle"
    BY <1>1 DEF Start, Abort, Reload, files, op
  <2>2. Has(ToSet(hist') \cup {tasks'}, r, Copies(seen', r))
    BY <2>1, EmptyList DEF Has
  <2> QED
    BY <2>1, <2>2, UpToDate DEF TypesInv
<1>2. CASE Down
  BY <1>2 DEF Down, EditInv
<1>3. CASE step = "down" /\ step' = "down"
  BY <1>3 DEF EditInv
<1>4. ASSUME step # "down", ~(Start \/ Abort \/ Down), NEW r \in Row PROVE EditOK(r)'
  <2>0. EditOK(r) /\ RowTypes(used)
    BY <1>4 DEF EditInv, TypesInv
  <2>1. CASE LoaderRead \/ PollArchive \/ UNCHANGED todoVars
    <3>1. /\ UNCHANGED <<todoF, seen, tasks, hist, theirs, step, job, late, blind, archF, prev>>
          /\ archive' \in {archive, loaded, archF} /\ loaded' \in {loaded, archF, <<>>}
      BY <2>1 DEF LoaderRead, PollArchive, files, memory, arch, op, hvars, todoVars
    <3>2. step' = "add" => r \notin job' \cap theirs
      BY <2>0, <3>1 DEF EditOK
    <3> QED
      BY <2>0, <3>1, <3>2, EmptyList, EditStays DEF Sighted
  <2>2. ASSUME NEW x \in Row, Add(x) PROVE EditOK(r)'
    <3>1. /\ todoF = seen /\ job' = {x} /\ x \notin used
          /\ UNCHANGED <<todoF, seen, tasks, hist, theirs, archF, archive, loaded, prev>>
      BY <2>2 DEF Add, Proceed, files, memory, arch
    <3>2. x \notin theirs
      BY <3>1 DEF TypesInv, FlagTypes
    <3> QED
      BY <2>0, <3>1, <3>2, EditStays
  <2>3. CASE \/ \E I \in SUBSET (1..Len(tasks)) : Delete(I) \/ Archive(I)
             \/ \E i \in 1..Len(archive) : Unarchive(i)
             \/ Undo
    <3>1. /\ todoF = seen /\ step' # "add"
          /\ UNCHANGED <<todoF, seen, tasks, hist, theirs, archF, archive, loaded, prev>>
      BY <2>3 DEF Delete, Archive, Unarchive, Undo, Proceed, files, memory, arch, hvars
    <3> QED
      BY <2>0, <3>1, EditStays
  <2> QED
    BY <1>4, <2>0, <2>1, <2>2, <2>3, OthersSpare, UserSpares, ArchivesSpare, DrainingSpares
    DEF TodoNext
<1>5. step = "down" => Start \/ step' = "down"
  BY DEF TodoNext, LoaderRead, PollArchive, Down, EditorAdds, Add, EditorRemoves,
       Capture, Delete, Archive, Unarchive, Abort, AddWrite, DeleteWrite, Undo, UndoWrite,
       ArchiveRead, ArchiveWrite, ArchiveTodo, ArchiveBack, UnarchiveRead, Proceed, op,
       UnarchiveWrite, UnarchiveTodo, Poll, DrainStage, DrainWrite, DrainClean, todoVars
<1> QED
  BY <1>1, <1>2, <1>3, <1>4, <1>5 DEF EditInv

LEMMA EditInductive == TodoSpec => [](TypesInv /\ KeptInv /\ EditInv)
<1>1. TodoInit => EditInv
  BY DEF TodoInit, EditInv
<1>2. TypesInv /\ KeptInv /\ EditInv /\ [TodoNext]_todoVars => EditInv'
  BY EditStep, TypesStep
<1> QED
  BY <1>1, <1>2, KeptInductive, PTL DEF TodoSpec

\* The comment on apply_external_state: an undo takes back what the store did,
\* never what an editor did to the todo file, whatever the two did before.
THEOREM EditsAreSpared == TodoSpec => UndoSparesEdits
<1>1. TypesInv /\ EditInv /\ [TodoNext]_todoVars =>
        (step = "undo" /\ step' = "idle" =>
           \A r \in theirs \ late : Copies(todoF', r) = Copies(todoF, r))
  <2> SUFFICES ASSUME TypesInv, EditInv, [TodoNext]_todoVars, step = "undo", step' = "idle",
                      NEW r \in theirs \ late
               PROVE  Copies(todoF', r) = Copies(todoF, r)
    OBVIOUS
  <2>1. UndoWrite
    BY DEF TodoNext, Start, LoaderRead, PollArchive, Down, EditorAdds, Add, EditorRemoves,
       Capture, Delete, Archive, Unarchive, Abort, AddWrite, DeleteWrite, Undo,
       ArchiveRead, ArchiveWrite, ArchiveTodo, ArchiveBack, UnarchiveRead, Proceed, op,
       UnarchiveWrite, UnarchiveTodo, Poll, DrainStage, DrainWrite, DrainClean, todoVars
  <2>2. r \in Row /\ EditOK(r)
    BY DEF TypesInv, FlagTypes, EditInv
  <2>3. Copies(todoF, r) = Copies(seen, r) /\ Copies(todoF, r) \in Nat
    BY <2>2, CountsAreNumbers DEF EditOK, InTime, Sighted, TypesInv, FlagTypes
  <2>4. Has(ToSet(hist) \cup {tasks}, r, Copies(seen, r))
    BY <2>2, <2>3 DEF EditOK, Spared
  <2>5. Last(hist) \in ToSet(hist)
    <3> DEFINE A == Seq(used)
    <3>1. hist \in Seq(A) /\ Len(hist) <= UndoLimit /\ tasks \in A /\ hist # <<>>
      BY DEF TypesInv, RowTypes, JobInv
    <3> HIDE DEF A
    <3> QED
      BY <3>1, HistoryRows
  <2>6. todoF' \in {todoF, Last(hist)}
    BY <2>1, Rewrites DEF UndoWrite
  <2> QED
    BY <2>3, <2>4, <2>5, <2>6 DEF Has
<1>2. TypesInv /\ EditInv /\ [TodoNext]_todoVars =>
        [step = "undo" /\ step' = "idle" =>
           \A r \in theirs \ late : Copies(todoF', r) = Copies(todoF, r)]_todoVars
  BY <1>1
<1> QED
  BY <1>2, EditInductive, PTL DEF TodoSpec, UndoSparesEdits

-----------------------------------------------------------------------------
(* No row is doubled, as long as nothing fails.                            *)

\* Where the copies of a row are: each is in one place, but for what is just
\* being moved from one file to another; no list in memory has two; and while
\* an operation is under way the files are as it found them, up to what is
\* late.
Here(r) == IF r \in Carried THEN 1 ELSE 0
Moving(r) ==
  IF step = "archTodo" THEN Copies(Keep(tasks, job), r)
  ELSE IF step = "merged" THEN Copies(staging, r) ELSE 0

OnceOK(r) ==
  /\ Stored(r) + Here(r) = 1 + Moving(r)
  /\ \A s \in ToSet(hist) \cup {tasks} : Copies(s, r) <= 1
  /\ r \in late => r \notin ToSet(tasks)
  /\ step \notin {"idle", "down"} /\ r \notin late =>
       Copies(todoF, r) + (IF step = "unarchTodo" THEN Here(r) ELSE 0) = Copies(tasks, r)
  /\ step = "archWrite" /\ r \notin late => Copies(archF, r) = Copies(prev, r)
  /\ step = "unarchWrite" /\ r \notin late => Copies(archF, r) = Copies(archive, r)

QuietInv ==
  /\ step # "archBack"
  /\ step \in {"idle", "down"} => late = {}
  /\ step # "unarchTodo" => tasks = seen
  /\ step = "archWrite" => ToSet(prev) \subseteq ToSet(archF)
  /\ step = "unarchWrite" => ToSet(archive) \subseteq ToSet(archF)

CountInv == faults = 0 => QuietInv /\ \A r \in used \ excused : OnceOK(r)

\* Without faults until now, and in this step.
LEMMA NoFault ==
  ASSUME TypesInv, [TodoNext]_todoVars, faults' = 0
  PROVE  faults = 0 /\ ~Fault
<1>1. faults \in Nat
  BY TodoAssumption DEF TodoAssumption, TypesInv, FlagTypes
<1>2. faults' = faults \/ Fault
  BY DEF TodoNext, Start, LoaderRead, PollArchive, Down, EditorAdds, Add, EditorRemoves,
       Capture, Delete, Archive, Unarchive, Abort, AddWrite, DeleteWrite, Undo, UndoWrite,
       Rewrite, ArchiveRead, ArchiveWrite, ArchiveTodo, ArchiveBack, UnarchiveRead, Fail,
       UnarchiveWrite, UnarchiveTodo, Poll, DrainStage, DrainWrite, DrainClean, hvars, todoVars
<1> QED
  BY <1>1, <1>2 DEF Fault

LEMMA QuietStep ==
  ASSUME TypesInv, QuietInv, ~Fault, faults' = faults, [TodoNext]_todoVars
  PROVE  QuietInv'
<1> USE DEF QuietInv
<1>1. CASE Start \/ Abort \/ PollArchive
  BY <1>1 DEF Start, Abort, Reload, PollArchive, memory, op, hvars
<1>2. CASE LoaderRead \/ UNCHANGED todoVars
  BY <1>2 DEF LoaderRead, files, memory, op, todoVars, hvars, arch
<1>3. CASE Down
  BY <1>3 DEF Down
<1>4. ASSUME NEW r \in Row, EditorAdds(r) PROVE QuietInv'
  <2>1. ToSet(Append(archF, r)) = ToSet(archF) \cup {r}
    <3>1. archF \in Seq(Row)
      BY TypesGrow DEF TypesInv, FlagTypes, RowTypes
    <3> QED
      BY <3>1, AppendSet
  <2> QED
    BY <1>4, <2>1 DEF EditorAdds, Late, memory, arch, op
<1>5. ASSUME NEW i \in 1..Len(todoF), EditorRemoves(i) PROVE QuietInv'
  BY <1>5 DEF EditorRemoves, Late, memory, arch, op
<1>6. ASSUME NEW line \in Row \cup {Junk}, Capture(line) PROVE QuietInv'
  BY <1>6 DEF Capture, memory, arch, op
<1>7. CASE \/ \E r \in Row : Add(r)
           \/ \E I \in SUBSET (1..Len(tasks)) : Delete(I) \/ Archive(I)
           \/ \E i \in 1..Len(archive) : Unarchive(i)
           \/ Undo
  BY <1>7 DEF Add, Delete, Archive, Unarchive, Undo, Proceed, memory
<1>8. ASSUME NEW new, NEW history, NEW taken, Rewrite(new, history, taken) PROVE QuietInv'
  BY <1>8 DEF Rewrite, WriteTodo, Done
<1>9. CASE AddWrite \/ DeleteWrite \/ UndoWrite
  BY <1>8, <1>9 DEF AddWrite, DeleteWrite, UndoWrite
<1>10. CASE ArchiveRead \/ ArchiveWrite \/ ArchiveTodo \/ ArchiveBack
  BY <1>10 DEF ArchiveRead, ArchiveWrite, ArchiveTodo, ArchiveBack, WriteTodo, Done, Fail,
               files, memory
<1>11. CASE UnarchiveRead \/ UnarchiveWrite \/ UnarchiveTodo
  BY <1>11 DEF UnarchiveRead, UnarchiveWrite, UnarchiveTodo, WriteTodo, Done, Fail,
               files, memory
<1>12. CASE Poll \/ DrainStage \/ DrainWrite \/ DrainClean
  BY <1>12 DEF Poll, DrainStage, DrainWrite, DrainClean, Reload, WriteTodo, Done, Fail, memory
<1> QED
  BY <1>1, <1>2, <1>3, <1>4, <1>5, <1>6, <1>7, <1>9, <1>10, <1>11, <1>12 DEF TodoNext

LEMMA CountTypes ==
  ASSUME TypesInv, NEW r
  PROVE  /\ Copies(todoF, r) \in Nat /\ (Copies(todoF, r) > 0 <=> r \in ToSet(todoF))
         /\ Copies(archF, r) \in Nat /\ (Copies(archF, r) > 0 <=> r \in ToSet(archF))
         /\ Copies(inboxF, r) \in Nat /\ (Copies(inboxF, r) > 0 <=> r \in ToSet(inboxF))
         /\ Copies(staging, r) \in Nat /\ (Copies(staging, r) > 0 <=> r \in ToSet(staging))
         /\ Copies(tasks, r) \in Nat /\ (Copies(tasks, r) > 0 <=> r \in ToSet(tasks))
         /\ Copies(prev, r) \in Nat /\ (Copies(prev, r) > 0 <=> r \in ToSet(prev))
         /\ Copies(archive, r) \in Nat /\ (Copies(archive, r) > 0 <=> r \in ToSet(archive))
BY CopiesInSet DEF TypesInv, RowTypes

\* A row nobody has introduced yet is nowhere.
LEMMA FreshRow ==
  ASSUME TypesInv, NEW r \in Row, r \notin used
  PROVE  /\ Copies(todoF, r) = 0 /\ Copies(archF, r) = 0
         /\ Copies(inboxF, r) = 0 /\ Copies(staging, r) = 0
         /\ \A s \in ToSet(hist) \cup {tasks} : Copies(s, r) = 0
         /\ r \notin ToSet(tasks) /\ r \notin Carried /\ r \notin late /\ r \notin excused
         /\ Copies(prev, r) = 0 /\ Copies(archive, r) = 0 /\ Copies(Keep(tasks, job), r) = 0
<1>1. r # Junk /\ r \notin used \cup {Junk}
  BY TodoAssumption DEF TodoAssumption
<1>2. ASSUME NEW S, r \notin S, NEW s \in Seq(S) PROVE Copies(s, r) = 0
  <2>1. r \notin ToSet(s)
    BY <1>2, InList
  <2> QED
    BY <1>2, <2>1, CopiesInSet
<1>3. /\ Copies(todoF, r) = 0 /\ Copies(archF, r) = 0 /\ Copies(prev, r) = 0
      /\ Copies(archive, r) = 0 /\ Copies(inboxF, r) = 0 /\ Copies(staging, r) = 0
  BY <1>1, <1>2 DEF TypesInv, RowTypes
<1>4. /\ \A s \in ToSet(hist) \cup {tasks} : Copies(s, r) = 0
      /\ r \notin ToSet(tasks)
  BY NewRow DEF TypesInv, Has
<1>5. Copies(Keep(tasks, job), r) = 0
  <2>1. Keep(tasks, job) \in Seq(used)
    BY KeepSet DEF TypesInv, RowTypes
  <2> QED
    BY <1>2, <2>1
<1>6. r \notin Carried /\ r \notin late /\ r \notin excused
  BY KnownRows DEF TypesInv, FlagTypes
<1> QED
  BY <1>3, <1>4, <1>5, <1>6

\* add, delete and undo.
LEMMA RewriteCounts ==
  ASSUME TypesInv, TypesInv', ~Fault, step \in {"add", "delete", "undo"}, NEW r, OnceOK(r),
         NEW new, NEW history, NEW taken, Rewrite(new, history, taken), r \notin excused',
         ToSet(history) \subseteq ToSet(hist) \cup {tasks},
         r \notin taken => Copies(new, r) = Copies(tasks, r) + Here(r)
  PROVE  OnceOK(r)'
<1>1. /\ tasks' = new /\ hist' = history /\ step' = "idle" /\ todoF' = new /\ late' = {}
      /\ excused' = excused \cup taken \cup late /\ UNCHANGED <<archF, inboxF, staging>>
  BY DEF Rewrite, WriteTodo, Done
<1>2. Here(r)' = 0 /\ Moving(r)' = 0 /\ Moving(r) = 0 /\ Here(r) \in {0, 1}
  BY <1>1 DEF Here, Moving, Carried
<1>3. Copies(todoF', r) = Copies(todoF, r) + Here(r)
  BY <1>1, CountTypes DEF OnceOK
<1>4. Stored(r)' = Stored(r) + Here(r)
  BY <1>1, <1>2, <1>3, CountTypes DEF Stored
<1>5. Stored(r)' = 1
  BY <1>2, <1>4 DEF OnceOK
<1>6. Copies(new, r) <= 1
  <2>1. /\ Copies(todoF', r) \in Nat /\ Copies(archF', r) \in Nat
        /\ Copies(inboxF', r) \in Nat /\ Copies(staging', r) \in Nat
    BY CopiesInSet DEF TypesInv, RowTypes
  <2> QED
    BY <1>1, <1>5, <2>1 DEF Stored
<1>7. \A s \in ToSet(hist') \cup {tasks'} : Copies(s, r) <= 1
  BY <1>1, <1>6 DEF OnceOK
<1> QED
  BY <1>1, <1>2, <1>5, <1>7 DEF OnceOK

LEMMA UserCounts ==
  ASSUME TypesInv, TypesInv', ~Fault, NEW r, OnceOK(r), r \notin excused',
         AddWrite \/ DeleteWrite \/ UndoWrite
  PROVE  OnceOK(r)'
<1> DEFINE A == Seq(used)
<1>1. /\ tasks \in Seq(used) /\ tasks \in A /\ hist \in Seq(A) /\ Len(hist) <= UndoLimit
      /\ Copies(tasks, r) \in Nat /\ (Copies(tasks, r) > 0 <=> r \in ToSet(tasks))
  BY CountTypes DEF TypesInv, RowTypes
<1> HIDE DEF A
<1>2. /\ ToSet(Snapshot(hist)) \subseteq ToSet(hist) \cup {tasks}
      /\ hist # <<>> => ToSet(Front(hist)) \subseteq ToSet(hist) /\ Last(hist) \in ToSet(hist)
  BY <1>1, HistoryRows
<1>3. CASE AddWrite
  <2> DEFINE new == tasks \o SetToSeq(job)
  <2>1. step = "add" /\ Rewrite(new, Snapshot(hist), {})
    BY <1>3 DEF AddWrite
  <2>2. PICK x \in used : job = {x}
    BY <2>1 DEF TypesInv, JobInv
  <2> DEFINE q == <<x>>
  <2>3. /\ SetToSeq(job) = q /\ q \in Seq(used)
        /\ Copies(q, r) = Here(r)
    <3>1. Copies(q, r) = IF x = r THEN 1 ELSE 0
      BY OneCopy
    <3>2. Here(r) = IF x = r THEN 1 ELSE 0
      BY <2>1, <2>2 DEF Here, Carried
    <3>3. SetToSeq(job) = q
      BY <2>2, OneRow
    <3> QED
      BY <3>1, <3>2, <3>3
  <2> HIDE DEF q
  <2>4. Copies(tasks \o q, r) = Copies(tasks, r) + Copies(q, r)
    BY <1>1, <2>3, CopiesCat
  <2>5. Copies(new, r) = Copies(tasks, r) + Here(r)
    BY <2>3, <2>4
  <2> HIDE DEF new
  <2> QED
    BY <1>2, <2>1, <2>5, RewriteCounts
<1>4. CASE DeleteWrite
  <2> DEFINE new == Without(tasks, job)
             taken == {tasks[i] : i \in job}
  <2>1. step = "delete" /\ Rewrite(new, Snapshot(hist), taken)
    BY <1>4 DEF DeleteWrite
  <2>2. ASSUME r \notin taken PROVE Copies(new, r) = Copies(tasks, r)
    BY <1>1, <2>2, CopiesLeft
  <2>3. Here(r) = 0
    BY <2>1 DEF Here, Carried
  <2> HIDE DEF new, taken
  <2> QED
    BY <1>1, <1>2, <2>1, <2>2, <2>3, RewriteCounts
<1>5. CASE UndoWrite
  <2> DEFINE new == Last(hist)
             taken == (ToSet(tasks) \ ToSet(new)) \cup (ToSet(new) \ ToSet(tasks))
  <2>1. step = "undo" /\ Rewrite(new, Front(hist), taken)
    BY <1>5 DEF UndoWrite
  <2>2. new \in ToSet(hist) /\ ToSet(Front(hist)) \subseteq ToSet(hist)
    BY <1>2, <2>1 DEF TypesInv, JobInv
  <2>3. Copies(new, r) \in Nat /\ (Copies(new, r) > 0 <=> r \in ToSet(new))
    BY <2>2, CountsAreNumbers, CopiesInSet DEF TypesInv
  <2> HIDE DEF new
  <2>4. Copies(tasks, r) <= 1 /\ Copies(new, r) <= 1
    BY <2>2 DEF OnceOK
  <2>5. r \notin taken => Copies(tasks, r) = Copies(new, r)
    BY <1>1, <2>3, <2>4
  <2>6. Here(r) = 0
    BY <2>1 DEF Here, Carried
  <2> HIDE DEF taken
  <2> QED
    BY <1>1, <2>1, <2>2, <2>5, <2>6, RewriteCounts
<1> QED
  BY <1>3, <1>4, <1>5

\* What others do, to rows that were there before.
LEMMA OthersCount ==
  ASSUME TypesInv, NEW r \in used, OnceOK(r), r \notin excused',
         \/ \E x \in Row : EditorAdds(x)
         \/ \E i \in 1..Len(todoF) : EditorRemoves(i)
         \/ \E line \in Row \cup {Junk} : Capture(line)
  PROVE  OnceOK(r)'
<1>0. /\ UNCHANGED <<staging, tasks, hist, archive, prev, step, job>>
  BY DEF EditorAdds, EditorRemoves, Capture, memory, arch, op
<1>1. Here(r)' = Here(r) /\ Moving(r)' = Moving(r)
  BY <1>0 DEF Here, Moving, Carried
<1>2. Copies(todoF', r) = Copies(todoF, r) /\ Copies(archF', r) = Copies(archF, r)
      /\ Copies(inboxF', r) = Copies(inboxF, r) /\ (r \in late' <=> r \in late)
  <2>1. ASSUME NEW x \in Row, EditorAdds(x)
        PROVE  Copies(todoF', r) = Copies(todoF, r) /\ Copies(archF', r) = Copies(archF, r)
               /\ inboxF' = inboxF /\ (r \in late' <=> r \in late)
    <3>1. x # r /\ todoF \in Seq(Row) /\ archF \in Seq(Row) /\ inboxF' = inboxF
          /\ todoF' \in {todoF, Append(todoF, x)} /\ archF' \in {archF, Append(archF, x)}
      BY <2>1, TypesGrow DEF EditorAdds, TypesInv, FlagTypes, RowTypes
    <3>2. Copies(Append(todoF, x), r) = Copies(todoF, r) + 0
          /\ Copies(Append(archF, x), r) = Copies(archF, r) + 0
      BY <3>1, CopiesAppended
    <3>3. Copies(todoF, r) \in Nat /\ Copies(archF, r) \in Nat
      BY CountTypes
    <3>4. Copies(todoF', r) = Copies(todoF, r) /\ Copies(archF', r) = Copies(archF, r)
      <4>1. /\ Copies(Append(todoF, x), r) = Copies(todoF, r)
            /\ Copies(Append(archF, x), r) = Copies(archF, r)
        BY <3>2, <3>3
      <4>2. Copies(todoF', r) = Copies(todoF, r)
        BY <3>1, <4>1
      <4>3. Copies(archF', r) = Copies(archF, r)
        BY <3>1, <4>1
      <4> QED
        BY <4>2, <4>3
    <3>5. r \in late' <=> r \in late
      BY <2>1, <3>1 DEF EditorAdds, Late
    <3> QED
      BY <3>1, <3>4, <3>5
  <2>2. ASSUME NEW i \in 1..Len(todoF), EditorRemoves(i)
        PROVE  Copies(todoF', r) = Copies(todoF, r) /\ archF' = archF
               /\ inboxF' = inboxF /\ (r \in late' <=> r \in late)
    <3>1. r # todoF[i] /\ todoF' = Without(todoF, {i}) /\ archF' = archF /\ inboxF' = inboxF
          /\ late' \in {late, late \cup {todoF[i]}}
      BY <2>2 DEF EditorRemoves, Late
    <3>2. Copies(todoF', r) = Copies(todoF, r)
      BY <3>1, CopiesLeft DEF TypesInv, RowTypes
    <3> QED
      BY <3>1, <3>2
  <2>3. ASSUME NEW line \in Row \cup {Junk}, Capture(line)
        PROVE  todoF' = todoF /\ archF' = archF
               /\ Copies(inboxF', r) = Copies(inboxF, r) /\ late' = late
    <3>1. line # r /\ inboxF' = Append(inboxF, line) /\ inboxF \in Seq(Row \cup {Junk})
      BY <2>3, TypesGrow, TodoAssumption
      DEF Capture, TypesInv, FlagTypes, RowTypes, TodoAssumption
    <3>2. Copies(inboxF', r) = Copies(inboxF, r) + 0
      BY <3>1, CopiesAppended
    <3> QED
      BY <2>3, <3>2, CountTypes DEF Capture
  <2> QED
    BY <2>1, <2>2, <2>3
<1>3. Stored(r)' = Stored(r)
  BY <1>0, <1>2 DEF Stored
<1> QED
  BY <1>0, <1>1, <1>2, <1>3 DEF OnceOK

\* archive_many.
LEMMA ArchivingCounts ==
  ASSUME TypesInv, TypesInv', QuietInv, ~Fault, NEW r, OnceOK(r), r \notin excused',
         ArchiveRead \/ ArchiveWrite \/ ArchiveTodo \/ ArchiveBack
  PROVE  OnceOK(r)'
<1> DEFINE A == Seq(used)
           K == Keep(tasks, job)
           W == Without(tasks, job)
<1>1. /\ tasks \in Seq(used) /\ prev \in Seq(used)
      /\ tasks \in A /\ hist \in Seq(A) /\ Len(hist) <= UndoLimit
  BY DEF TypesInv, RowTypes
<1> HIDE DEF A
<1>2. ToSet(Snapshot(hist)) \subseteq ToSet(hist) \cup {tasks}
  BY <1>1, HistoryRows
<1>3. /\ Copies(tasks, r) = Copies(K, r) + Copies(W, r)
      /\ Copies(K, r) \in Nat /\ Copies(W, r) \in Nat /\ K \in Seq(used)
  BY <1>1, CopiesSplit, SplitSet
<1>4. Moving(r) = IF step = "archTodo" THEN Copies(K, r)
                  ELSE IF step = "merged" THEN Copies(staging, r) ELSE 0
  BY DEF Moving, K
<1> HIDE DEF K
<1>5. Copies(prev \o K, r) = Copies(prev, r) + Copies(K, r)
  BY <1>1, <1>3, CopiesCat
<1> HIDE DEF W
<1>6. /\ step \in {"archRead", "archWrite", "archTodo"}
      /\ Here(r) = 0 /\ Here(r)' = 0 /\ UNCHANGED <<inboxF, staging>>
      /\ excused \subseteq excused'
  BY DEF QuietInv, ArchiveRead, ArchiveWrite, ArchiveTodo, ArchiveBack, Fail, Done, Here,
         Carried, files
<1>7. /\ Copies(todoF, r) \in Nat /\ Copies(archF, r) \in Nat /\ Copies(inboxF, r) \in Nat
      /\ Copies(staging, r) \in Nat /\ Copies(prev, r) \in Nat
      /\ (Copies(archF, r) > 0 <=> r \in ToSet(archF))
      /\ (Copies(prev, r) > 0 <=> r \in ToSet(prev))
  BY CountTypes
<1>8. CASE ArchiveRead
  <2>1. /\ prev' = archF /\ step' = "archWrite" /\ step = "archRead"
        /\ UNCHANGED <<todoF, archF, inboxF, staging, tasks, hist, late>>
    BY <1>8 DEF ArchiveRead, Fail, files, memory
  <2>2. Stored(r)' = Stored(r) /\ Moving(r)' = 0 /\ Moving(r) = 0
    BY <2>1 DEF Stored, Moving
  <2> QED
    BY <1>6, <2>1, <2>2 DEF OnceOK
<1>9. CASE ArchiveWrite
  <2>1. /\ archF' = prev \o K /\ step = "archWrite" /\ step' = "archTodo"
        /\ excused' = excused \cup (late \cap ToSet(archF))
        /\ UNCHANGED <<todoF, inboxF, staging, tasks, hist, late, job>>
    BY <1>9 DEF ArchiveWrite, Fail, memory, K
  <2>2. Copies(archF, r) = Copies(prev, r)
    <3>1. CASE r \in late
      <4>1. r \notin ToSet(archF) /\ r \notin ToSet(prev)
        BY <2>1, <3>1 DEF QuietInv
      <4> QED
        BY <1>7, <4>1
    <3>2. CASE r \notin late
      BY <2>1, <3>2 DEF OnceOK
    <3> QED
      BY <3>1, <3>2
  <2>3. Moving(r) = 0 /\ Moving(r)' = Copies(K, r)
    BY <1>4, <2>1 DEF Moving, K
  <2>4. Copies(archF', r) = Copies(archF, r) + Copies(K, r)
    BY <1>5, <2>1, <2>2
  <2>5. Stored(r)' = Stored(r) + Copies(K, r)
    BY <1>3, <1>7, <2>1, <2>4 DEF Stored
  <2>6. Stored(r)' + Here(r)' = 1 + Moving(r)'
    <3> DEFINE sr == Stored(r)
               sq == Stored(r)'
    <3>1. sr \in Nat /\ sr + 0 = 1 + 0 /\ sq = sr + Copies(K, r)
      BY <1>6, <1>7, <2>3, <2>5 DEF OnceOK, Stored
    <3> HIDE DEF sr, sq
    <3>2. sq + 0 = 1 + Copies(K, r)
      BY <1>3, <3>1
    <3> QED
      BY <1>6, <2>3, <3>2 DEF sq
  <2> QED
    BY <1>6, <2>1, <2>6 DEF OnceOK
<1>10. CASE ArchiveTodo
  <2>1. /\ todoF' = W /\ tasks' = W /\ hist' = Snapshot(hist) /\ archF' = archF
        /\ excused' = excused \cup late /\ step = "archTodo" /\ step' = "idle" /\ late' = {}
    BY <1>10 DEF ArchiveTodo, WriteTodo, Done, W
  <2>2. Copies(todoF, r) = Copies(K, r) + Copies(W, r)
    BY <1>3, <1>7, <2>1 DEF OnceOK
  <2>3. Moving(r) = Copies(K, r) /\ Moving(r)' = 0
    BY <1>4, <2>1 DEF Moving
  <2>4. Stored(r)' + Copies(K, r) = Stored(r)
    BY <1>3, <1>6, <1>7, <2>1, <2>2 DEF Stored
  <2>5. Stored(r)' + Here(r)' = 1 + Moving(r)'
    <3> DEFINE sr == Stored(r)
               sq == Stored(r)'
    <3>1. sr \in Nat /\ sq \in Nat
      <4>1. sr \in Nat
        BY <1>7 DEF Stored
      <4>2. sq = Copies(W, r) + Copies(archF, r) + Copies(inboxF, r) + Copies(staging, r)
        BY <1>6, <2>1 DEF Stored
      <4> QED
        BY <1>3, <1>7, <4>1, <4>2
    <3>2. sr + 0 = 1 + Copies(K, r) /\ sq + Copies(K, r) = sr
      BY <1>6, <2>3, <2>4 DEF OnceOK
    <3> HIDE DEF sr, sq
    <3>3. sq + 0 = 1 + 0
      BY <1>3, <3>1, <3>2
    <3> QED
      BY <1>6, <2>3, <3>3 DEF sq
  <2>6. \A s \in ToSet(hist') \cup {tasks'} : Copies(s, r) <= 1
    BY <1>2, <1>3, <2>1 DEF OnceOK
  <2> QED
    BY <2>1, <2>5, <2>6 DEF OnceOK
<1> QED
  BY <1>6, <1>8, <1>9, <1>10 DEF ArchiveBack

\* unarchive.
LEMMA UnarchivingCounts ==
  ASSUME TypesInv, TypesInv', QuietInv, ~Fault, NEW r, OnceOK(r), r \notin excused',
         UnarchiveRead \/ UnarchiveWrite \/ UnarchiveTodo
  PROVE  OnceOK(r)'
<1> DEFINE A == Seq(used)
<1>1. /\ tasks \in Seq(used) /\ archive \in Seq(used)
      /\ tasks \in A /\ hist \in Seq(A) /\ Len(hist) <= UndoLimit
  BY DEF TypesInv, RowTypes
<1> HIDE DEF A
<1>2. ToSet(Snapshot(hist)) \subseteq ToSet(hist) \cup {tasks}
  BY <1>1, HistoryRows
<1>3. /\ Copies(todoF, r) \in Nat /\ Copies(archF, r) \in Nat /\ Copies(inboxF, r) \in Nat
      /\ Copies(staging, r) \in Nat /\ Copies(archive, r) \in Nat /\ Copies(tasks, r) \in Nat
      /\ (Copies(archF, r) > 0 <=> r \in ToSet(archF))
      /\ (Copies(archive, r) > 0 <=> r \in ToSet(archive))
  BY CountTypes
<1>4. CASE UnarchiveRead
  <2>1. /\ step = "unarchRead" /\ step' \in {"idle", "unarchWrite"}
        /\ step' = "unarchWrite" => archF = archive /\ archive' = archive /\ late' = late
        /\ step' = "idle" => late' = {}
        /\ UNCHANGED <<todoF, archF, inboxF, staging, tasks, hist>>
    BY <1>4 DEF UnarchiveRead, Fail, Done, files, memory
  <2>2. /\ Stored(r)' = Stored(r) /\ Moving(r)' = 0 /\ Moving(r) = 0
        /\ Here(r)' = 0 /\ Here(r) = 0
    BY <2>1 DEF Stored, Moving, Here, Carried
  <2> QED
    BY <2>1, <2>2 DEF OnceOK
<1>5. CASE UnarchiveWrite
  <2>1. step = "unarchWrite" /\ Moving(r) = 0 /\ Here(r) = 0
    BY <1>5 DEF UnarchiveWrite, Moving, Here, Carried
  <2>2. PICK i \in 1..Len(archive) : job = {i}
    BY <2>1 DEF TypesInv, JobInv
  <2> DEFINE x == archive[i]
             q == Keep(archive, {i})
             one == IF x = r THEN 1 ELSE 0
  <2>3. /\ archF' = Without(archive, {i}) /\ tasks' = tasks \o q /\ hist' = Snapshot(hist)
        /\ excused' = excused \cup (late \cap ToSet(archF)) /\ step' = "unarchTodo"
        /\ UNCHANGED <<todoF, inboxF, staging, late>>
    BY <1>5, <2>2 DEF UnarchiveWrite, Fail
  <2>4. /\ x \in ToSet(archive) /\ q = <<x>> /\ q \in Seq(used)
        /\ Last(tasks') = x /\ ToSet(tasks') = ToSet(tasks) \cup {x}
    <3>1. x \in ToSet(archive)
      BY <1>1, InList
    <3>2. /\ q = <<x>> /\ x \in used /\ Last(tasks') = x
          /\ ToSet(tasks') = ToSet(tasks) \cup {x}
      BY <2>3, TakenFromArchive DEF TypesInv
    <3>3. <<x>> \in Seq(used)
      BY <3>2
    <3> QED
      BY <3>1, <3>2, <3>3
  <2>5. /\ Copies(archF', r) = Copies(archive, r) - one /\ Copies(archF', r) \in Nat
        /\ Copies(q, r) = one
    <3>1. Copies(archF', r) = Copies(archive, r) - one
      BY <1>1, <2>3, CopiesLeft
    <3>2. Copies(archF', r) \in Nat
      BY <1>1, <2>3, CopiesSplit
    <3>3. Copies(q, r) = one
      BY <2>4, OneCopy
    <3> QED
      BY <3>1, <3>2, <3>3
  <2>6. Here(r)' = one /\ Moving(r)' = 0
    BY <2>3, <2>4 DEF Here, Carried, Moving
  <2> HIDE DEF x, q
  <2>7. Copies(tasks', r) = Copies(tasks, r) + one
    <3>1. Copies(tasks \o q, r) = Copies(tasks, r) + Copies(q, r)
      <4>1. tasks \in Seq(used) /\ q \in Seq(used)
        BY <1>1, <2>4
      <4> QED
        BY <4>1, CopiesCat
    <3> QED
      BY <2>3, <2>5, <3>1
  <2>8. r \in late => r \notin ToSet(archF) /\ r \notin ToSet(archive)
    BY <2>1, <2>3 DEF QuietInv
  <2>9. Copies(archF, r) = Copies(archive, r)
    <3>1. CASE r \in late
      BY <1>3, <2>8, <3>1
    <3>2. CASE r \notin late
      BY <2>1, <3>2 DEF OnceOK
    <3> QED
      BY <3>1, <3>2
  <2>10. Stored(r)' + one = Stored(r) /\ Stored(r) = 1 /\ Stored(r)' \in Nat
    <3>0. one \in {0, 1}
      OBVIOUS
    <3> HIDE DEF one
    <3>1. Stored(r)' + one = Stored(r) /\ Stored(r)' \in Nat /\ Stored(r) \in Nat
      <4>1. Copies(archF', r) + one = Copies(archF, r) /\ Copies(archF', r) \in Nat
        BY <1>3, <2>5, <2>9, <3>0
      <4>2. /\ Copies(todoF', r) = Copies(todoF, r) /\ Copies(inboxF', r) = Copies(inboxF, r)
            /\ Copies(staging', r) = Copies(staging, r)
        BY <2>3
      <4> DEFINE a == Copies(todoF, r)
                 b == Copies(archF, r)
                 c == Copies(inboxF, r)
                 d == Copies(staging, r)
                 e == Copies(archF', r)
                 sr == Stored(r)
                 sq == Stored(r)'
      <4>3. sq = a + e + c + d /\ sr = a + b + c + d
        BY <4>2 DEF Stored
      <4>4. /\ a \in Nat /\ b \in Nat /\ c \in Nat /\ d \in Nat /\ e \in Nat /\ one \in Nat
            /\ e + one = b
        BY <1>3, <3>0, <4>1
      <4> HIDE DEF a, b, c, d, e, sr, sq
      <4>5. sq + one = sr /\ sq \in Nat /\ sr \in Nat
        BY <4>3, <4>4
      <4> QED
        BY <4>5 DEF sr, sq
    <3>2. Stored(r) + 0 = 1 + 0
      BY <2>1 DEF OnceOK
    <3> QED
      BY <3>1, <3>2
  <2>11. Stored(r)' + Here(r)' = 1 + Moving(r)'
    BY <2>6, <2>10
  <2>12. r \in late => r \notin ToSet(tasks')
    BY <2>4, <2>8 DEF OnceOK
  <2>13. r \notin late => Copies(todoF, r) = Copies(tasks, r)
    BY <1>3, <2>1 DEF OnceOK
  <2>14. Copies(tasks', r) <= 1
    <3>1. CASE x # r
      BY <1>3, <2>7, <3>1 DEF OnceOK
    <3>2. CASE x = r
      <4>1. r \notin late /\ Copies(archive, r) > 0
        BY <1>3, <2>4, <2>8, <3>2
      <4>2. Copies(todoF, r) = 0
        BY <1>3, <2>9, <2>10, <4>1 DEF Stored
      <4> QED
        BY <1>3, <2>7, <2>13, <3>2, <4>1, <4>2
    <3> QED
      BY <3>1, <3>2
  <2>15. \A s \in ToSet(hist') \cup {tasks'} : Copies(s, r) <= 1
    BY <1>2, <2>3, <2>14 DEF OnceOK
  <2>16. r \notin late' =>
           Copies(todoF', r) + (IF step' = "unarchTodo" THEN Here(r)' ELSE 0) = Copies(tasks', r)
    BY <2>3, <2>6, <2>7, <2>13
  <2> QED
    BY <2>3, <2>11, <2>12, <2>15, <2>16 DEF OnceOK
<1>6. CASE UnarchiveTodo
  <2>1. /\ todoF' = tasks /\ tasks' = tasks /\ hist' = hist /\ archF' = archF
        /\ UNCHANGED <<inboxF, staging>>
        /\ excused' = excused \cup late /\ step = "unarchTodo" /\ step' = "idle" /\ late' = {}
    BY <1>6 DEF UnarchiveTodo, WriteTodo, Done
  <2>2. Copies(tasks, r) = Copies(todoF, r) + Here(r) /\ Here(r) \in Nat
    BY <2>1 DEF OnceOK, Here
  <2>3. Moving(r) = 0 /\ Moving(r)' = 0 /\ Here(r)' = 0
    BY <2>1 DEF Moving, Here, Carried
  <2>4. Stored(r)' = Stored(r) + Here(r) /\ Stored(r) \in Nat
    BY <1>3, <2>1, <2>2 DEF Stored
  <2>5. Stored(r)' + Here(r)' = 1 + Moving(r)'
    BY <2>2, <2>3, <2>4 DEF OnceOK
  <2> QED
    BY <2>1, <2>5 DEF OnceOK
<1> QED
  BY <1>4, <1>5, <1>6

\* The poll and the drain of the inbox.
LEMMA DrainingCounts ==
  ASSUME TypesInv, TypesInv', QuietInv, ~Fault, NEW r \in used, OnceOK(r), r \notin excused',
         Poll \/ DrainStage \/ DrainWrite \/ DrainClean
  PROVE  OnceOK(r)'
<1> DEFINE A == Seq(used)
<1>1. /\ tasks \in Seq(used)
      /\ tasks \in A /\ hist \in Seq(A) /\ Len(hist) <= UndoLimit
  BY DEF TypesInv, RowTypes
<1> HIDE DEF A
<1>2. ToSet(Snapshot(hist)) \subseteq ToSet(hist) \cup {tasks}
  BY <1>1, HistoryRows
<1>3. /\ Copies(todoF, r) \in Nat /\ Copies(archF, r) \in Nat /\ Copies(inboxF, r) \in Nat
      /\ Copies(staging, r) \in Nat /\ Copies(tasks, r) \in Nat
      /\ (Copies(staging, r) > 0 <=> r \in ToSet(staging))
  BY CountTypes
<1>4. /\ step \in {"idle", "drain", "staged", "merged"}
      /\ step' \in {"idle", "drain", "staged", "merged"}
      /\ Here(r) = 0 /\ Here(r)' = 0 /\ archF' = archF
  BY DEF Poll, DrainStage, DrainWrite, DrainClean, Fail, Done, Here, Carried, files
<1>5. CASE Poll
  <2>1. /\ step = "idle" /\ step' = "drain" /\ late' = late /\ UNCHANGED files
        /\ \/ todoF = seen /\ UNCHANGED memory
           \/ Reload
    BY <1>5 DEF Poll
  <2>2. Moving(r) = 0 /\ Moving(r)' = 0 /\ Stored(r)' = Stored(r)
    BY <2>1 DEF Moving, Stored, files
  <2>3. tasks' = todoF /\ late' = {}
    BY <2>1 DEF QuietInv, Reload, memory
  <2>4. Stored(r) = 1
    <3>1. Stored(r) + 0 = 1 + 0 /\ Stored(r) \in Nat
      BY <1>3, <1>4, <2>2 DEF OnceOK, Stored
    <3> QED
      BY <3>1
  <2>5. Copies(todoF, r) <= 1
    BY <1>3, <2>4 DEF Stored
  <2>6. \A s \in ToSet(hist') \cup {tasks'} : Copies(s, r) <= 1
    BY <2>1, <2>3, <2>5, EmptyList DEF OnceOK, Reload, memory
  <2>7. Copies(todoF', r) + (IF step' = "unarchTodo" THEN Here(r)' ELSE 0) = Copies(tasks', r)
    BY <1>3, <2>1, <2>3 DEF files
  <2> QED
    BY <1>4, <2>1, <2>2, <2>3, <2>4, <2>6, <2>7 DEF OnceOK
<1>6. CASE DrainStage
  <2>1. /\ step = "drain" /\ step' \in {"idle", "staged"} /\ UNCHANGED <<todoF, tasks, hist>>
        /\ step' = "staged" => late' = late
        /\ step' = "idle" => late' = {}
        /\ \/ UNCHANGED <<inboxF, staging>>
           \/ staging = <<>> /\ staging' = inboxF /\ inboxF' = <<>>
    BY <1>6 DEF DrainStage, Done, Fail, memory
  <2>2. Moving(r) = 0 /\ Moving(r)' = 0
    BY <2>1 DEF Moving
  <2>3. Stored(r)' = Stored(r)
    <3>1. CASE UNCHANGED <<inboxF, staging>>
      BY <1>4, <2>1, <3>1 DEF Stored
    <3>2. CASE staging = <<>> /\ staging' = inboxF /\ inboxF' = <<>>
      <4>1. Copies(staging, r) = 0 /\ Copies(inboxF', r) = 0
        BY <3>2, EmptyCopies
      <4> QED
        BY <1>3, <1>4, <2>1, <3>2, <4>1 DEF Stored
    <3> QED
      BY <2>1, <3>1, <3>2
  <2> QED
    BY <1>4, <2>1, <2>2, <2>3 DEF OnceOK
<1>7. CASE DrainWrite
  <2>1. /\ step = "staged" /\ step' = "merged" /\ UNCHANGED <<inboxF, staging>>
        /\ \/ Parsed = <<>> /\ UNCHANGED <<todoF, tasks, hist, late>>
           \/ /\ todoF' = tasks \o Parsed /\ tasks' = todoF' /\ hist' = Snapshot(hist)
              /\ late' = {} /\ excused' = excused \cup late
    BY <1>7 DEF DrainWrite, WriteTodo, memory
  <2>2. /\ Copies(Parsed, r) = Copies(staging, r) /\ Parsed \in Seq(used)
    <3>0. r \in Row /\ staging \in Seq(used \cup {Junk}) /\ used \subseteq Row
      BY DEF TypesInv, FlagTypes, RowTypes
    <3> DEFINE I == {i \in 1..Len(staging) : staging[i] \in Row}
    <3>1. At(staging, r) \cap I = At(staging, r)
      BY <3>0 DEF At
    <3> HIDE DEF I
    <3>2. Copies(Keep(staging, I), r) = Cardinality(At(staging, r) \cap I)
      BY <3>0, CopiesKept
    <3>3. Copies(staging, r) = Cardinality(At(staging, r))
      BY <3>0, CopiesAt
    <3>4. Copies(Keep(staging, I), r) = Copies(staging, r)
      BY <3>1, <3>2, <3>3
    <3>5. Parsed \in Seq(used)
      BY <3>0, ParsedRows
    <3> QED
      BY <3>4, <3>5 DEF Parsed, I
  <2>3. Moving(r) = 0 /\ Moving(r)' = Copies(staging, r)
    BY <2>1 DEF Moving
  <2>4. Stored(r) = 1
    <3>1. Stored(r) + 0 = 1 + 0 /\ Stored(r) \in Nat
      BY <1>3, <1>4, <2>3 DEF OnceOK, Stored
    <3> QED
      BY <3>1
  <2>5. CASE Parsed = <<>> /\ UNCHANGED <<todoF, tasks, hist, late>>
    <3>1. Copies(staging, r) = 0
      BY <2>2, <2>5, EmptyCopies
    <3>2. Stored(r)' = Stored(r)
      BY <1>4, <2>1, <2>5 DEF Stored
    <3>3. Stored(r)' + Here(r)' = 1 + Moving(r)'
      BY <1>4, <2>3, <2>4, <3>1, <3>2
    <3> QED
      BY <2>1, <2>5, <3>3 DEF OnceOK
  <2>6. CASE /\ todoF' = tasks \o Parsed /\ tasks' = todoF' /\ hist' = Snapshot(hist)
             /\ late' = {} /\ excused' = excused \cup late
    <3> DEFINE n == Copies(staging, r)
    <3>1. Copies(tasks \o Parsed, r) = Copies(tasks, r) + Copies(Parsed, r)
      BY <1>1, <2>2, CopiesCat
    <3>2. Copies(tasks, r) = Copies(todoF, r)
      BY <1>3, <2>1, <2>6 DEF OnceOK
    <3>3. Copies(todoF', r) = Copies(todoF, r) + n /\ n \in Nat
      BY <1>3, <2>2, <2>6, <3>1, <3>2
    <3>4. Stored(r)' = 1 + n
      <4>1. /\ Copies(archF', r) = Copies(archF, r) /\ Copies(inboxF', r) = Copies(inboxF, r)
            /\ Copies(staging', r) = Copies(staging, r)
        BY <1>4, <2>1
      <4> QED
        BY <1>3, <2>4, <3>3, <4>1 DEF Stored
    <3>5. Stored(r)' + Here(r)' = 1 + Moving(r)'
      BY <1>3, <1>4, <2>3, <3>4
    <3>6. Copies(tasks', r) <= 1
      BY <1>3, <2>4, <2>6, <3>3 DEF Stored
    <3>7. \A s \in ToSet(hist') \cup {tasks'} : Copies(s, r) <= 1
      BY <1>2, <2>6, <3>6 DEF OnceOK
    <3>8. Copies(todoF', r) + (IF step' = "unarchTodo" THEN Here(r)' ELSE 0) = Copies(tasks', r)
      BY <1>3, <2>1, <2>6, <3>3
    <3> QED
      BY <2>1, <2>6, <3>5, <3>7, <3>8 DEF OnceOK
  <2> QED
    BY <2>1, <2>5, <2>6
<1>8. CASE DrainClean
  <2>1. /\ step = "merged" /\ step' = "idle" /\ staging' = <<>> /\ late' = {}
        /\ UNCHANGED <<todoF, inboxF, tasks, hist>>
    BY <1>8 DEF DrainClean, Done, memory
  <2>2. Copies(staging', r) = 0 /\ Moving(r) = Copies(staging, r) /\ Moving(r)' = 0
    BY <2>1, EmptyCopies DEF Moving
  <2>3. Stored(r)' + Copies(staging, r) = Stored(r) /\ Stored(r)' \in Nat /\ Stored(r) \in Nat
    BY <1>3, <1>4, <2>1, <2>2 DEF Stored
  <2>4. Stored(r) + 0 = 1 + Copies(staging, r)
    BY <1>4, <2>2 DEF OnceOK
  <2>5. Stored(r)' + Here(r)' = 1 + Moving(r)'
    BY <1>3, <1>4, <2>2, <2>3, <2>4
  <2> QED
    BY <2>1, <2>5 DEF OnceOK
<1> QED
  BY <1>5, <1>6, <1>7, <1>8

LEMMA CountStep ==
  ASSUME TypesInv, TypesInv', CountInv, [TodoNext]_todoVars
  PROVE  CountInv'
<1> SUFFICES ASSUME faults' = 0 PROVE (QuietInv /\ \A r \in used \ excused : OnceOK(r))'
  BY DEF CountInv
<1>0. /\ faults = 0 /\ ~Fault /\ QuietInv /\ \A r \in used \ excused : OnceOK(r)
  BY NoFault DEF CountInv
<1>1. QuietInv'
  BY <1>0, QuietStep
<1>2. ASSUME NEW r \in used' \ excused' PROVE OnceOK(r)'
  <2>0. excused \subseteq excused'
    BY DEF TodoNext, Start, LoaderRead, PollArchive, Down, EditorAdds, Add, EditorRemoves,
       Capture, Delete, Archive, Unarchive, Abort, AddWrite, DeleteWrite, Undo, UndoWrite,
       Rewrite, ArchiveRead, ArchiveWrite, ArchiveTodo, ArchiveBack, UnarchiveRead, Fail,
       UnarchiveWrite, UnarchiveTodo, Poll, DrainStage, DrainWrite, DrainClean, hvars, todoVars
  <2>1. CASE r \notin used
    <3>1. r \in Row
      BY DEF TypesInv, FlagTypes
    <3>2. /\ Copies(todoF, r) = 0 /\ Copies(archF, r) = 0
          /\ Copies(inboxF, r) = 0 /\ Copies(staging, r) = 0
          /\ \A s \in ToSet(hist) \cup {tasks} : Copies(s, r) = 0
          /\ r \notin ToSet(tasks) /\ r \notin Carried /\ r \notin late
          /\ Copies(prev, r) = 0 /\ Copies(archive, r) = 0 /\ Copies(Keep(tasks, job), r) = 0
      BY <2>1, <3>1, FreshRow
    <3>3. \/ EditorAdds(r) \/ Capture(r) \/ Add(r)
      <4>1. \/ \E e \in Row : EditorAdds(e) \/ Add(e)
            \/ \E e \in Row \cup {Junk} : Capture(e)
            \/ used' = used
        BY DEF TodoNext, Start, LoaderRead, PollArchive, Down, EditorRemoves, Delete, Archive,
         Unarchive, Abort, AddWrite, DeleteWrite, Undo, UndoWrite, Rewrite, ArchiveRead,
         ArchiveWrite, ArchiveTodo, ArchiveBack, UnarchiveRead, UnarchiveWrite, UnarchiveTodo,
         Poll, DrainStage, DrainWrite, DrainClean, hvars, todoVars
      <4>2. \A e : EditorAdds(e) \/ Add(e) \/ Capture(e) => e = r
        BY <2>1 DEF EditorAdds, Add, Capture
      <4> QED
        BY <2>1, <4>1, <4>2
    <3>4. /\ UNCHANGED <<staging, tasks, hist, archive, prev>>
          /\ \A s \in ToSet(hist') \cup {tasks'} : Copies(s, r) <= 1
      BY <3>2, <3>3 DEF EditorAdds, Capture, Add, files, memory, arch, op
    <3>5. CASE Add(r)
      <4>1. /\ UNCHANGED <<files, late>> /\ job' = {r} /\ step' = "add"
        BY <3>5 DEF Add, Proceed
      <4>2. Stored(r)' = 0 /\ Here(r)' = 1 /\ Moving(r)' = 0
        BY <3>2, <4>1 DEF Stored, Here, Carried, Moving, files
      <4> QED
        BY <3>2, <3>4, <4>1, <4>2 DEF OnceOK, files
    <3>6. CASE EditorAdds(r) \/ Capture(r)
      <4>1. /\ UNCHANGED <<job, step>> /\ (step \in {"down", "idle"} \/ r \in late' \/ Capture(r))
        BY <3>6 DEF EditorAdds, Capture, Late, op
      <4>2. Here(r)' = 0 /\ Moving(r)' = 0
        BY <3>2, <3>4, <4>1 DEF Here, Carried, Moving
      <4>3. Stored(r)' = 1
        <5>1. /\ Copies(Append(todoF, r), r) = 0 + 1 /\ Copies(Append(archF, r), r) = 0 + 1
              /\ Copies(Append(inboxF, r), r) = 0 + 1
          <6>1. /\ todoF \in Seq(Row) /\ archF \in Seq(Row) /\ inboxF \in Seq(Row \cup {Junk})
                /\ r \in Row \cup {Junk}
            BY <3>1, TypesGrow DEF TypesInv, FlagTypes, RowTypes
          <6> QED
            BY <3>1, <3>2, <6>1, CopiesAppended
        <5>2. \/ todoF' = Append(todoF, r) /\ UNCHANGED <<archF, inboxF>>
              \/ archF' = Append(archF, r) /\ UNCHANGED <<todoF, inboxF>>
              \/ inboxF' = Append(inboxF, r) /\ UNCHANGED <<todoF, archF>>
          BY <3>6 DEF EditorAdds, Capture
        <5>3. Copies(staging', r) = 0
          BY <3>2, <3>4
        <5>4. CASE todoF' = Append(todoF, r) /\ UNCHANGED <<archF, inboxF>>
          BY <3>2, <5>1, <5>3, <5>4 DEF Stored
        <5>5. CASE archF' = Append(archF, r) /\ UNCHANGED <<todoF, inboxF>>
          BY <3>2, <5>1, <5>3, <5>5 DEF Stored
        <5>6. CASE inboxF' = Append(inboxF, r) /\ UNCHANGED <<todoF, archF>>
          BY <3>2, <5>1, <5>3, <5>6 DEF Stored
        <5> QED
          BY <5>2, <5>4, <5>5, <5>6
      <4>4. CASE Capture(r)
        <5>1. UNCHANGED <<todoF, archF, late>>
          BY <4>4 DEF Capture
        <5> QED
          BY <3>2, <3>4, <4>1, <4>2, <4>3, <5>1 DEF OnceOK
      <4>5. CASE step \in {"down", "idle"} \/ r \in late'
        BY <3>2, <3>4, <4>1, <4>2, <4>3, <4>5 DEF OnceOK
      <4> QED
        BY <4>1, <4>4, <4>5
    <3> QED
      BY <3>3, <3>5, <3>6
  <2>2. CASE r \in used
    <3>0. OnceOK(r) /\ r \notin excused
      BY <1>0, <2>0, <2>2
    <3>1. /\ Copies(todoF, r) \in Nat /\ Copies(archF, r) \in Nat /\ Copies(inboxF, r) \in Nat
          /\ Copies(staging, r) \in Nat /\ Copies(tasks, r) \in Nat
      BY CountTypes
    <3>2. CASE Start \/ Down \/ Abort
      <4>1. /\ step \in {"down", "idle"} /\ step' \in {"down", "idle"} /\ UNCHANGED files
            /\ tasks' \in {todoF, <<>>} /\ hist' = <<>> /\ late' = {}
        BY <1>0, <3>2 DEF Start, Down, Abort, Reload, op, hvars, QuietInv
      <4>2. Moving(r) = 0 /\ Moving(r)' = 0 /\ Here(r) = 0 /\ Here(r)' = 0
            /\ Stored(r)' = Stored(r)
        BY <4>1 DEF Moving, Here, Carried, Stored, files
      <4>3. Stored(r) = 1
        <5>1. Stored(r) + 0 = 1 + 0 /\ Stored(r) \in Nat
          BY <3>0, <3>1, <4>2 DEF OnceOK, Stored
        <5> QED
          BY <5>1
      <4>4. Copies(todoF, r) <= 1 /\ Copies(<<>>, r) <= 1
        BY <3>1, <4>3, EmptyCopies DEF Stored
      <4>5. \A s \in ToSet(hist') \cup {tasks'} : Copies(s, r) <= 1
        BY <4>1, <4>4, EmptyList
      <4> QED
        BY <4>1, <4>2, <4>3, <4>5 DEF OnceOK
    <3>3. CASE LoaderRead \/ PollArchive \/ UNCHANGED todoVars
      <4>1. /\ UNCHANGED <<files, tasks, hist, late, step, job, prev>>
            /\ archive' = archive \/ step = "idle"
        BY <3>3 DEF LoaderRead, PollArchive, memory, arch, op, hvars, todoVars
      <4>2. Moving(r)' = Moving(r) /\ Here(r)' = Here(r) /\ Stored(r)' = Stored(r)
        BY <4>1 DEF Moving, Here, Carried, Stored, files
      <4> QED
        BY <3>0, <4>1, <4>2 DEF OnceOK, files
    <3>4. CASE \/ \E x \in Row : Add(x)
               \/ \E I \in SUBSET (1..Len(tasks)) : Delete(I) \/ Archive(I)
               \/ \E i \in 1..Len(archive) : Unarchive(i)
               \/ Undo
      <4>1. /\ step = "idle" /\ todoF = seen /\ UNCHANGED <<files, tasks, hist, late>>
            /\ step' \in {"add", "delete", "undo", "archRead", "unarchRead"}
            /\ step' = "add" => r \notin job'
        BY <2>2, <3>4 DEF Add, Delete, Archive, Unarchive, Undo, Proceed, memory, hvars
      <4>2. /\ Moving(r) = 0 /\ Moving(r)' = 0 /\ Here(r) = 0 /\ Here(r)' = 0
            /\ Stored(r)' = Stored(r) /\ tasks = seen
        BY <1>0, <4>1 DEF Moving, Here, Carried, Stored, files, QuietInv
      <4>3. Copies(todoF', r) + (IF step' = "unarchTodo" THEN Here(r)' ELSE 0) = Copies(tasks', r)
        BY <3>1, <4>1, <4>2 DEF files
      <4> QED
        BY <3>0, <4>1, <4>2, <4>3 DEF OnceOK
    <3> QED
      BY <1>0, <1>2, <2>2, <3>0, <3>2, <3>3, <3>4, UserCounts, OthersCount, ArchivingCounts,
         UnarchivingCounts, DrainingCounts DEF TodoNext
  <2> QED
    BY <2>1, <2>2
<1> QED
  BY <1>1, <1>2

LEMMA CountInductive == TodoSpec => [](TypesInv /\ CountInv)
<1>1. TodoInit => CountInv
  BY DEF TodoInit, CountInv, QuietInv
<1>2. TypesInv /\ CountInv /\ [TodoNext]_todoVars => CountInv'
  BY CountStep, TypesStep
<1> QED
  BY <1>1, <1>2, TypesInductive, PTL DEF TodoSpec

\* Without failures and crashes no row is doubled by any number of adds,
\* removals, undos, archivings, drains and edits from outside.
THEOREM RowsAreNotDoubled == TodoSpec => []NoRowDoubled
<1>1. TypesInv /\ CountInv => NoRowDoubled
  <2> SUFFICES ASSUME TypesInv, CountInv, step = "idle", faults = 0, NEW r \in used \ excused
               PROVE  Stored(r) = 1
    BY DEF NoRowDoubled
  <2>1. Stored(r) + Here(r) = 1 + Moving(r)
    BY DEF CountInv, OnceOK
  <2>2. Here(r) = 0 /\ Moving(r) = 0
    BY DEF Here, Carried, Moving
  <2>3. Stored(r) \in Nat
    BY CountTypes DEF Stored
  <2> QED
    BY <2>1, <2>2, <2>3
<1> QED
  BY <1>1, CountInductive, PTL
=============================================================================
