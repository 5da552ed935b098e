------------------------------- MODULE ListLemmas -------------------------------
(***************************************************************************)
(* Lemmas about lists, for the proofs about the components: induction on   *)
(* the natural numbers in the form the provers can use (about a set, not a *)
(* predicate), functions defined by recursion on them, what Keep returns,  *)
(* and what the operations of a Vec return.                                *)
(***************************************************************************)
EXTENDS Lists, SequencesExt, SequenceTheorems, FiniteSetTheorems, WellFoundedInduction, TLAPS

-----------------------------------------------------------------------------
(* Induction and recursion.                                                *)

\* Every set of natural numbers has a least one.
LEMMA LeastNatural ==
  ASSUME NEW T \in SUBSET Nat, T # {}
  PROVE  \E n \in T : \A m \in T : n <= m
<1> DEFINE R == {s \in Nat \X Nat : s[1] < s[2]}
<1>1. IsWellFoundedOn(R, Nat)
  BY NatLessThanWellFounded DEF OpToRel
<1>2. \A x, y \in Nat : x < y => <<x, y>> \in R
  OBVIOUS
<1> HIDE DEF R
<1>3. PICK n \in T : \A m \in T : ~(<<m, n>> \in R)
  BY <1>1, WFMin
<1>4. \A m \in T : ~(m < n)
  BY <1>2, <1>3
<1> QED
  BY <1>4

\* What holds of 0 and passes from i - 1 to i holds up to n.
LEMMA Induction ==
  ASSUME NEW n \in Nat, NEW T, 0 \in T, \A i \in 1..n : i - 1 \in T => i \in T
  PROVE  \A i \in 0..n : i \in T
<1> DEFINE U == (0..n) \ T
<1> SUFFICES ASSUME U # {} PROVE FALSE
  OBVIOUS
<1>0. U \in SUBSET Nat
  OBVIOUS
<1>1. PICK i \in U : \A m \in U : i <= m
  <2> HIDE DEF U
  <2> QED
    BY <1>0, LeastNatural
<1>2. i \in 1..n /\ i - 1 \in 0..n /\ ~(i <= i - 1)
  BY <1>1
<1> QED
  BY <1>1, <1>2

\* g starts with a and goes on with the functions of h, up to n.
Iterates(g, A, a, n, h) ==
  g \in [0..n -> A] /\ g[0] = a /\ \A i \in 1..n : g[i] = h[i][g[i - 1]]

\* A function defined by recursion up to n exists.
LEMMA Recursion ==
  ASSUME NEW A, NEW a \in A, NEW n \in Nat, NEW h \in [1..n -> [A -> A]]
  PROVE  \E g : Iterates(g, A, a, n, h)
<1> DEFINE Good(g, m) == g \in [0..m -> A] /\ g[0] = a /\ \A i \in 1..m : g[i] = h[i][g[i - 1]]
           T == {m \in Nat : \E g : Good(g, m)}
<1>1. 0 \in T
  <2>1. Good([i \in 0..0 |-> a], 0)
    OBVIOUS
  <2> QED
    BY <2>1
<1>2. ASSUME NEW m \in 1..n, m - 1 \in T PROVE m \in T
  <2>1. PICK g : Good(g, m - 1)
    BY <1>2
  <2> DEFINE f == [i \in 0..m |-> IF i = m THEN h[m][g[m - 1]] ELSE g[i]]
  <2>2. g[m - 1] \in A /\ h[m][g[m - 1]] \in A
    BY <2>1
  <2>3. f \in [0..m -> A] /\ f[0] = a
    BY <2>1, <2>2
  <2>4. ASSUME NEW i \in 1..m PROVE f[i] = h[i][f[i - 1]]
    BY <2>1
  <2>5. Good(f, m)
    BY <2>3, <2>4
  <2> HIDE DEF Good
  <2> QED
    BY <2>5
<1> HIDE DEF T
<1>3. n \in T
  <2>1. \A i \in 0..n : i \in T
    <3> HIDE DEF Good
    <3> QED
      BY <1>1, <1>2, Induction
  <2> QED
    BY <2>1
<1>4. PICK g : Good(g, n)
  <2> HIDE DEF Good
  <2> QED
    BY <1>3 DEF T
<1> QED
  BY <1>4 DEF Iterates

-----------------------------------------------------------------------------
(* Keep.                                                                   *)

\* f lists the positions J of s in ascending order, and t what is there.
Picks(f, s, J, t) ==
  /\ f \in [1..Len(t) -> J]
  /\ \A j \in 1..Len(t) : t[j] = s[f[j]]
  /\ \A j, k \in 1..Len(t) : j < k => f[j] < f[k]
  /\ \A i \in J : \E j \in 1..Len(t) : f[j] = i

\* g has the intermediate results of Keep(s, I).
Trace(g, S, s, I) ==
  /\ g \in [0..Len(s) -> Seq(S)] /\ g[0] = <<>>
  /\ \A i \in 1..Len(s) : g[i] = IF i \in I THEN Append(g[i - 1], s[i]) ELSE g[i - 1]
  /\ Keep(s, I) = g[Len(s)]

\* The recursion in Keep has a solution, so Keep is what it says.
LEMMA KeepUnfolds ==
  ASSUME NEW S, NEW s \in Seq(S), NEW I
  PROVE  \E g : Trace(g, S, s, I)
<1> DEFINE n == Len(s)
           h == [i \in 1..n |-> [t \in Seq(S) |-> IF i \in I THEN Append(t, s[i]) ELSE t]]
           rhs(g) == [i \in 0..n |-> IF i = 0 THEN <<>>
                                     ELSE IF i \in I THEN Append(g[i - 1], s[i]) ELSE g[i - 1]]
           sol == CHOOSE g : g = rhs(g)
<1>1. n \in Nat /\ \A i \in 1..n : s[i] \in S
  OBVIOUS
<1>2. h \in [1..n -> [Seq(S) -> Seq(S)]]
  BY <1>1
<1>3. <<>> \in Seq(S)
  OBVIOUS
<1>4. PICK g \in [0..n -> Seq(S)] : g[0] = <<>> /\ \A i \in 1..n : g[i] = h[i][g[i - 1]]
  <2> DEFINE A == Seq(S)
             a == <<>>
  <2>1. a \in A /\ n \in Nat /\ h \in [1..n -> [A -> A]]
    BY <1>1, <1>2, <1>3
  <2> HIDE DEF n, h, A, a
  <2>2. \E g : Iterates(g, A, a, n, h)
    BY <2>1, Recursion
  <2> QED
    BY <2>2 DEF A, a, Iterates
<1>0. n = Len(s)
  OBVIOUS
<1> HIDE DEF n
<1>5. \A i \in 1..n : i - 1 \in 0..n /\ g[i - 1] \in Seq(S)
  <2> DEFINE A == Seq(S)
  <2> HIDE DEF h, A
  <2>1. \A i \in 1..n : i - 1 \in 0..n
    BY <1>1
  <2>2. g \in [0..n -> A]
    BY <1>4 DEF A
  <2>3. \A i \in 1..n : g[i - 1] \in A
    BY <2>1, <2>2
  <2> QED
    BY <2>1, <2>3 DEF A
<1>6. \A i \in 1..n : g[i] = IF i \in I THEN Append(g[i - 1], s[i]) ELSE g[i - 1]
  BY <1>4, <1>5
<1>7. g = rhs(g)
  <2> HIDE DEF h
  <2>1. ASSUME NEW i \in 0..n PROVE g[i] = rhs(g)[i]
    <3>1. CASE i = 0
      BY <1>4, <3>1
    <3>2. CASE i # 0
      <4>1. i \in 1..n
        BY <1>1, <3>2
      <4> QED
        BY <1>6, <4>1, <3>2
    <3> QED
      BY <3>1, <3>2
  <2> QED
    BY <1>4, <2>1
<1>8. sol = rhs(sol)
  <2> HIDE DEF rhs
  <2> QED
    BY <1>7
<1>9. Keep(s, I) = sol[n]
  BY DEF Keep, n
<1> HIDE DEF sol, h
<1>10. DOMAIN sol = 0..n /\ sol[0] = <<>>
       /\ \A i \in 1..n : sol[i] = IF i \in I THEN Append(sol[i - 1], s[i]) ELSE sol[i - 1]
  <2>1. DOMAIN sol = 0..n /\ \A i \in 0..n : sol[i] = rhs(sol)[i]
    BY <1>8
  <2>2. 0 \in 0..n /\ \A i \in 1..n : i \in 0..n /\ i # 0
    BY <1>1
  <2> QED
    BY <2>1, <2>2
<1>11. \A i \in 0..n : sol[i] \in Seq(S)
  <2> DEFINE T == {i \in 0..n : sol[i] \in Seq(S)}
  <2>1. 0 \in T
    <3>1. 0 \in 0..n /\ sol[0] = <<>>
      BY <1>1, <1>10
    <3> QED
      BY <1>3, <3>1
  <2>2. ASSUME NEW i \in 1..n, i - 1 \in T PROVE i \in T
    <3>1. i \in 0..n /\ sol[i - 1] \in Seq(S) /\ s[i] \in S
      BY <1>1, <2>2
    <3>2. Append(sol[i - 1], s[i]) \in Seq(S)
      BY <3>1
    <3>3. sol[i] = IF i \in I THEN Append(sol[i - 1], s[i]) ELSE sol[i - 1]
      BY <1>10
    <3> QED
      BY <3>1, <3>2, <3>3
  <2> HIDE DEF T
  <2>3. \A i \in 0..n : i \in T
    BY <1>1, <2>1, <2>2, Induction
  <2> QED
    BY <2>3 DEF T
<1>12. sol = [i \in 0..n |-> sol[i]]
  BY <1>8
<1>13. sol \in [0..n -> Seq(S)]
  BY <1>11, <1>12
<1> QED
  BY <1>0, <1>9, <1>10, <1>13 DEF Trace

\* One more position picked.
LEMMA PickOne ==
  ASSUME NEW S, NEW s, NEW i \in Nat, s[i] \in S, NEW J, \A j \in J : j \in Nat /\ j < i,
         NEW t \in Seq(S), NEW f, Picks(f, s, J, t)
  PROVE  \E e : Picks(e, s, J \cup {i}, Append(t, s[i]))
<1> DEFINE n == Len(t)
           u == Append(t, s[i])
           e == [j \in 1..(n + 1) |-> IF j = n + 1 THEN i ELSE f[j]]
<1>1. n \in Nat /\ Len(u) = n + 1 /\ u[n + 1] = s[i] /\ \A j \in 1..n : u[j] = t[j]
  OBVIOUS
<1>2. /\ f \in [1..n -> J] /\ \A j \in 1..n : t[j] = s[f[j]]
      /\ \A j, k \in 1..n : j < k => f[j] < f[k]
      /\ \A l \in J : \E j \in 1..n : f[j] = l
  BY DEF Picks
<1> HIDE DEF n, u
<1>3. \A j \in 1..(n + 1) : j = n + 1 \/ j \in 1..n
  BY <1>1
<1>4. \A j \in 1..n : e[j] = f[j] /\ f[j] \in J /\ j # n + 1 /\ j \in 1..(n + 1)
  BY <1>1, <1>2
<1>5. e[n + 1] = i /\ n + 1 \in 1..(n + 1)
  BY <1>1
<1>6. e \in [1..(n + 1) -> J \cup {i}]
  <2>1. \A j \in 1..(n + 1) : e[j] \in J \cup {i}
    BY <1>3, <1>4, <1>5
  <2> QED
    BY <2>1
<1> HIDE DEF e
<1>7. \A j \in 1..(n + 1) : u[j] = s[e[j]]
  BY <1>1, <1>2, <1>3, <1>4, <1>5
<1>8. ASSUME NEW j \in 1..(n + 1), NEW k \in 1..(n + 1), j < k PROVE e[j] < e[k]
  <2>1. j \in 1..n
    BY <1>1, <1>8
  <2>2. CASE k = n + 1
    BY <1>4, <1>5, <2>1, <2>2
  <2>3. CASE k \in 1..n
    BY <1>2, <1>4, <1>8, <2>1, <2>3
  <2> QED
    BY <1>3, <2>2, <2>3
<1>9. ASSUME NEW l \in J \cup {i} PROVE \E j \in 1..(n + 1) : e[j] = l
  <2>1. CASE l = i
    BY <1>5, <2>1
  <2>2. CASE l \in J
    BY <1>2, <1>4, <2>2
  <2> QED
    BY <2>1, <2>2
<1>10. Picks(e, s, J \cup {i}, u)
  BY <1>1, <1>6, <1>7, <1>8, <1>9 DEF Picks
<1> QED
  BY <1>10 DEF u

\* Keep returns the elements at the positions asked for, in their order.
LEMMA KeepPicks ==
  ASSUME NEW S, NEW s \in Seq(S), NEW I
  PROVE  Keep(s, I) \in Seq(S) /\ \E f : Picks(f, s, I \cap (1..Len(s)), Keep(s, I))
<1> DEFINE n == Len(s)
<1>0. PICK g : Trace(g, S, s, I)
  BY KeepUnfolds
<1>1. /\ g \in [0..n -> Seq(S)] /\ g[0] = <<>>
      /\ \A i \in 1..n : g[i] = IF i \in I THEN Append(g[i - 1], s[i]) ELSE g[i - 1]
      /\ Keep(s, I) = g[n]
  BY <1>0 DEF Trace
<1>2. n \in Nat /\ \A i \in 1..n : s[i] \in S
  OBVIOUS
<1> HIDE DEF n
<1> DEFINE T == {i \in 0..n : \E f : Picks(f, s, I \cap (1..i), g[i])}
<1>3. 0 \in T
  <2>1. 0 \in 0..n /\ I \cap (1..0) = {} /\ g[0] = <<>> /\ Len(<<>>) = 0
    BY <1>1, <1>2
  <2>2. Picks(<<>>, s, {}, <<>>)
    BY DEF Picks
  <2> QED
    BY <2>1, <2>2
<1>4. ASSUME NEW i \in 1..n, i - 1 \in T PROVE i \in T
  <2>1. PICK f : Picks(f, s, I \cap (1..(i - 1)), g[i - 1])
    BY <1>4
  <2>2. g[i - 1] \in Seq(S) /\ s[i] \in S /\ i \in Nat /\ i \in 0..n
        /\ \A j \in I \cap (1..(i - 1)) : j \in Nat /\ j < i
    <3> DEFINE A == Seq(S)
    <3>1. g \in [0..n -> A] /\ i - 1 \in 0..n
      BY <1>1, <1>2
    <3> HIDE DEF A
    <3>2. g[i - 1] \in A
      BY <3>1
    <3> QED
      BY <1>2, <3>2 DEF A
  <2>3. CASE i \in I
    <3>1. I \cap (1..i) = (I \cap (1..(i - 1))) \cup {i}
      BY <1>2, <2>3
    <3>2. g[i] = Append(g[i - 1], s[i])
      BY <1>1, <2>3
    <3>3. \E e : Picks(e, s, (I \cap (1..(i - 1))) \cup {i}, Append(g[i - 1], s[i]))
      BY <2>1, <2>2, PickOne
    <3> QED
      BY <2>2, <3>1, <3>2, <3>3
  <2>4. CASE i \notin I
    <3>1. I \cap (1..i) = I \cap (1..(i - 1))
      BY <1>2, <2>4
    <3>2. g[i] = g[i - 1]
      BY <1>1, <2>4
    <3> QED
      BY <2>1, <2>2, <3>1, <3>2
  <2> QED
    BY <2>3, <2>4
<1> HIDE DEF T
<1>5. n \in T
  <2>1. \A i \in 0..n : i \in T
    BY <1>2, <1>3, <1>4, Induction
  <2> QED
    BY <1>2, <2>1
<1>6. \E f : Picks(f, s, I \cap (1..n), g[n])
  BY <1>5 DEF T
<1>7. g[n] \in Seq(S)
  <2> DEFINE A == Seq(S)
  <2> HIDE DEF A
  <2>1. g \in [0..n -> A] /\ n \in 0..n
    BY <1>1, <1>2 DEF A
  <2>2. g[n] \in A
    BY <2>1
  <2> QED
    BY <2>2 DEF A
<1> QED
  BY <1>1, <1>6, <1>7 DEF n

-----------------------------------------------------------------------------
(* Vec::insert, Vec::remove and Vec::push.                                 *)

\* Vec::insert: the list grows by one, what was at i and after it moves up.
LEMMA InsertAtSeq ==
  ASSUME NEW S, NEW s \in Seq(S), NEW e \in S, NEW i \in 1..(Len(s) + 1)
  PROVE  /\ InsertAt(s, i, e) \in Seq(S) /\ Len(InsertAt(s, i, e)) = Len(s) + 1
         /\ \A j \in 1..(Len(s) + 1) :
              InsertAt(s, i, e)[j] = IF j < i THEN s[j] ELSE IF j = i THEN e ELSE s[j - 1]
<1> DEFINE a == SubSeq(s, 1, i - 1)
           b == SubSeq(s, i, Len(s))
<1>1. a \in Seq(S) /\ Len(a) = i - 1 /\ \A j \in 1..(i - 1) : a[j] = s[j]
  OBVIOUS
<1>2. b \in Seq(S) /\ Len(b) = Len(s) - i + 1 /\ \A j \in 1..(Len(s) - i + 1) : b[j] = s[i + j - 1]
  OBVIOUS
<1> HIDE DEF a, b
<1>3. <<e>> \in Seq(S) /\ Len(<<e>>) = 1 /\ <<e>>[1] = e
  OBVIOUS
<1>4. a \o <<e>> \in Seq(S) /\ Len(a \o <<e>>) = i
      /\ \A j \in 1..i : (a \o <<e>>)[j] = IF j < i THEN a[j] ELSE e
  BY <1>1, <1>3
<1>5. InsertAt(s, i, e) = (a \o <<e>>) \o b
  BY DEF InsertAt, a, b
<1>6. /\ (a \o <<e>>) \o b \in Seq(S) /\ Len((a \o <<e>>) \o b) = Len(s) + 1
      /\ \A j \in 1..(Len(s) + 1) :
           ((a \o <<e>>) \o b)[j] = IF j <= i THEN (a \o <<e>>)[j] ELSE b[j - i]
  BY <1>2, <1>4, ConcatProperties
<1>7. ASSUME NEW j \in 1..(Len(s) + 1)
      PROVE  InsertAt(s, i, e)[j] = IF j < i THEN s[j] ELSE IF j = i THEN e ELSE s[j - 1]
  <2>1. CASE j <= i
    BY <2>1, <1>1, <1>4, <1>5, <1>6
  <2>2. CASE j > i
    <3>1. j - i \in 1..(Len(s) - i + 1) /\ i + (j - i) - 1 = j - 1
      BY <2>2
    <3> QED
      BY <2>2, <3>1, <1>2, <1>5, <1>6
  <2> QED
    BY <2>1, <2>2
<1> QED
  BY <1>5, <1>6, <1>7

\* Vec::remove: what was after i moves down.
LEMMA RemoveAtSeq ==
  ASSUME NEW S, NEW s \in Seq(S), NEW i \in 1..Len(s)
  PROVE  /\ RemoveAt(s, i) \in Seq(S) /\ Len(RemoveAt(s, i)) = Len(s) - 1
         /\ \A j \in 1..(Len(s) - 1) : RemoveAt(s, i)[j] = IF j < i THEN s[j] ELSE s[j + 1]
<1> DEFINE a == SubSeq(s, 1, i - 1)
           b == SubSeq(s, i + 1, Len(s))
<1>1. a \in Seq(S) /\ Len(a) = i - 1 /\ \A j \in 1..(i - 1) : a[j] = s[j]
  OBVIOUS
<1>2. b \in Seq(S) /\ Len(b) = Len(s) - i /\ \A j \in 1..(Len(s) - i) : b[j] = s[i + j]
  OBVIOUS
<1>3. RemoveAt(s, i) = a \o b
  BY DEF RemoveAt
<1> HIDE DEF a, b
<1> QED
  BY <1>1, <1>2, <1>3, SMTT(20)

\* t is s with e put at i, and has n elements.
Inserted(S, s, i, e, n, t) ==
  /\ t \in Seq(S) /\ Len(t) = n
  /\ \A j \in 1..n : t[j] = IF j < i THEN s[j] ELSE IF j = i THEN e ELSE s[j - 1]

\* The same in one word, with the length of the result given a name.
LEMMA InsertAtLen ==
  ASSUME NEW S, NEW s \in Seq(S), NEW e \in S, NEW n \in Nat, n = Len(s) + 1, NEW i \in 1..n
  PROVE  Inserted(S, s, i, e, n, InsertAt(s, i, e))
<1>1. i \in 1..(Len(s) + 1)
  OBVIOUS
<1>2. /\ InsertAt(s, i, e) \in Seq(S) /\ Len(InsertAt(s, i, e)) = Len(s) + 1
      /\ \A j \in 1..(Len(s) + 1) :
           InsertAt(s, i, e)[j] = IF j < i THEN s[j] ELSE IF j = i THEN e ELSE s[j - 1]
  BY <1>1, InsertAtSeq
<1> QED
  BY <1>2 DEF Inserted

\* And of a removal.
LEMMA RemoveAtLen ==
  ASSUME NEW S, NEW s \in Seq(S), NEW n \in Nat, Len(s) = n + 1, NEW i \in 1..(n + 1)
  PROVE  /\ RemoveAt(s, i) \in Seq(S) /\ Len(RemoveAt(s, i)) = n
         /\ \A j \in 1..n : RemoveAt(s, i)[j] = IF j < i THEN s[j] ELSE s[j + 1]
<1>1. Len(s) - 1 = n
  OBVIOUS
<1> QED
  BY <1>1, RemoveAtSeq

\* To append is to insert at the end.
LEMMA AppendSeq ==
  ASSUME NEW S, NEW s \in Seq(S), NEW e \in S
  PROVE  Append(s, e) = InsertAt(s, Len(s) + 1, e)
<1> DEFINE t == InsertAt(s, Len(s) + 1, e)
<1>1. /\ t \in Seq(S) /\ Len(t) = Len(s) + 1
      /\ \A j \in 1..(Len(s) + 1) : t[j] = IF j < Len(s) + 1 THEN s[j] ELSE e
  BY InsertAtSeq
<1>2. /\ Append(s, e) \in Seq(S) /\ Len(Append(s, e)) = Len(s) + 1
      /\ \A j \in 1..(Len(s) + 1) : Append(s, e)[j] = IF j < Len(s) + 1 THEN s[j] ELSE e
  OBVIOUS
<1> HIDE DEF t
<1>3. Len(t) = Len(Append(s, e)) /\ \A j \in 1..Len(t) : t[j] = Append(s, e)[j]
  BY <1>1, <1>2
<1>4. t = Append(s, e)
  BY <1>1, <1>2, <1>3, SeqEqual
<1> QED
  BY <1>4 DEF t

\* The elements of a list.
LEMMA InList ==
  ASSUME NEW S, NEW s \in Seq(S)
  PROVE  /\ ToSet(s) \subseteq S
         /\ \A i \in 1..Len(s) : s[i] \in ToSet(s)
BY DEF ToSet

\* A list with one more element.
LEMMA AppendedList ==
  ASSUME NEW S, NEW s \in Seq(S), NEW e \in S
  PROVE  Append(s, e) \in Seq(S) /\ e \in ToSet(Append(s, e))
<1>1. Append(s, e) \in Seq(S) /\ Len(Append(s, e)) = Len(s) + 1 /\ Append(s, e)[Len(s) + 1] = e
  OBVIOUS
<1>2. Len(s) + 1 \in 1..Len(Append(s, e))
  BY <1>1
<1>3. e \in ToSet(Append(s, e))
  BY <1>1, <1>2 DEF ToSet
<1> QED
  BY <1>1, <1>3

-----------------------------------------------------------------------------
(* What is in a list.                                                      *)

\* s has no element twice.
Once(s) == \A i, j \in 1..Len(s) : s[i] = s[j] => i = j

LEMMA Elements ==
  ASSUME NEW S, NEW s \in Seq(S)
  PROVE  \A x : x \in ToSet(s) <=> \E j \in 1..Len(s) : x = s[j]
BY DEF ToSet

\* The elements of a list after an insertion.
LEMMA InsertAtSet ==
  ASSUME NEW S, NEW s \in Seq(S), NEW e \in S, NEW i \in 1..(Len(s) + 1)
  PROVE  ToSet(InsertAt(s, i, e)) = ToSet(s) \cup {e}
<1> DEFINE t == InsertAt(s, i, e)
           n == Len(s)
<1>1. /\ n \in Nat /\ Len(t) = n + 1 /\ i \in 1..(n + 1)
      /\ \A j \in 1..(n + 1) : t[j] = IF j < i THEN s[j] ELSE IF j = i THEN e ELSE s[j - 1]
  BY InsertAtSeq
<1> HIDE DEF t, n
<1>2. ASSUME NEW j \in 1..(n + 1) PROVE t[j] = e \/ \E k \in 1..n : t[j] = s[k]
  <2>1. CASE j < i
    <3>1. j \in 1..n /\ t[j] = s[j]
      BY <1>1, <2>1
    <3> QED
      BY <3>1
  <2>2. CASE j = i
    BY <1>1, <2>2
  <2>3. CASE j > i
    <3>1. j - 1 \in 1..n /\ t[j] = s[j - 1]
      BY <1>1, <2>3
    <3> QED
      BY <3>1
  <2> QED
    BY <1>1, <2>1, <2>2, <2>3
<1>3. ASSUME NEW k \in 1..n PROVE \E j \in 1..(n + 1) : t[j] = s[k]
  <2>1. CASE k < i
    <3>1. k \in 1..(n + 1) /\ t[k] = s[k]
      BY <1>1, <2>1
    <3> QED
      BY <3>1
  <2>2. CASE k >= i
    <3>1. k + 1 \in 1..(n + 1) /\ ~(k + 1 < i) /\ k + 1 # i /\ (k + 1) - 1 = k
      BY <1>1, <2>2
    <3>2. t[k + 1] = s[k]
      BY <1>1, <3>1
    <3> QED
      BY <3>1, <3>2
  <2> QED
    BY <1>1, <2>1, <2>2
<1>4. i \in 1..(n + 1) /\ t[i] = e
  BY <1>1
<1>5. ToSet(t) = {t[j] : j \in 1..(n + 1)} /\ ToSet(s) = {s[j] : j \in 1..n}
  BY <1>1 DEF ToSet, n
<1> QED
  BY <1>2, <1>3, <1>4, <1>5 DEF t

\* And after a removal; the element removed is gone if it was there once.
LEMMA RemoveAtSet ==
  ASSUME NEW S, NEW s \in Seq(S), NEW i \in 1..Len(s)
  PROVE  /\ ToSet(s) = ToSet(RemoveAt(s, i)) \cup {s[i]}
         /\ Once(s) => Once(RemoveAt(s, i)) /\ ToSet(RemoveAt(s, i)) = ToSet(s) \ {s[i]}
<1> DEFINE t == RemoveAt(s, i)
           n == Len(s)
<1>1. /\ n \in Nat /\ i \in 1..n /\ Len(t) = n - 1 /\ t \in Seq(S)
      /\ \A j \in 1..(n - 1) : t[j] = IF j < i THEN s[j] ELSE s[j + 1]
  BY RemoveAtSeq
<1>2. /\ \A x : x \in ToSet(t) <=> \E j \in 1..(n - 1) : x = t[j]
      /\ \A x : x \in ToSet(s) <=> \E j \in 1..n : x = s[j]
  <2> HIDE DEF t
  <2> QED
    BY <1>1, Elements
<1>3. Once(s) <=> \A j, k \in 1..n : s[j] = s[k] => j = k
  BY DEF Once
<1>4. Once(t) <=> \A j, k \in 1..(n - 1) : t[j] = t[k] => j = k
  BY <1>1 DEF Once
<1> HIDE DEF t, n
<1> DEFINE at(j) == IF j < i THEN j ELSE j + 1
<1>5. \A j \in 1..(n - 1) : at(j) \in 1..n /\ at(j) # i /\ t[j] = s[at(j)]
  BY <1>1
<1>6. \A j, k \in 1..(n - 1) : at(j) = at(k) => j = k
  BY <1>1
<1>7. ASSUME NEW k \in 1..n, k # i PROVE \E j \in 1..(n - 1) : t[j] = s[k]
  <2>1. CASE k < i
    <3>1. k \in 1..(n - 1) /\ t[k] = s[k]
      BY <1>1, <2>1
    <3> QED
      BY <3>1
  <2>2. CASE k > i
    <3>1. k - 1 \in 1..(n - 1) /\ ~(k - 1 < i) /\ (k - 1) + 1 = k
      BY <1>1, <2>2
    <3>2. t[k - 1] = s[k]
      BY <1>1, <3>1
    <3> QED
      BY <3>1, <3>2
  <2> QED
    BY <1>1, <1>7, <2>1, <2>2
<1> HIDE DEF at
<1>8. ToSet(s) = ToSet(t) \cup {s[i]}
  <2>1. \A x \in ToSet(s) : x \in ToSet(t) \cup {s[i]}
    BY <1>2, <1>7
  <2>2. \A x \in ToSet(t) : x \in ToSet(s)
    BY <1>2, <1>5
  <2>3. s[i] \in ToSet(s)
    BY <1>1, <1>2
  <2> QED
    BY <2>1, <2>2, <2>3
<1>9. ASSUME Once(s) PROVE Once(t) /\ ToSet(t) = ToSet(s) \ {s[i]}
  <2>1. \A j, k \in 1..n : s[j] = s[k] => j = k
    BY <1>3, <1>9
  <2>2. Once(t)
    BY <1>4, <1>5, <1>6, <2>1
  <2>3. s[i] \notin ToSet(t)
    <3> SUFFICES ASSUME NEW j \in 1..(n - 1), s[i] = t[j] PROVE FALSE
      BY <1>2
    <3>1. at(j) \in 1..n /\ at(j) # i /\ s[at(j)] = s[i]
      BY <1>5
    <3> QED
      BY <1>1, <2>1, <3>1
  <2> QED
    BY <1>8, <2>2, <2>3
<1> QED
  BY <1>8, <1>9 DEF t

\* And after one more at the end.
LEMMA AppendSet ==
  ASSUME NEW S, NEW s \in Seq(S), NEW e \in S
  PROVE  /\ ToSet(Append(s, e)) = ToSet(s) \cup {e}
         /\ Once(s) /\ e \notin ToSet(s) => Once(Append(s, e))
<1> DEFINE t == Append(s, e)
           n == Len(s)
<1>1. /\ n \in Nat /\ Len(t) = n + 1 /\ t[n + 1] = e /\ \A j \in 1..n : t[j] = s[j]
  OBVIOUS
<1>2. ToSet(t) = {t[j] : j \in 1..(n + 1)} /\ ToSet(s) = {s[j] : j \in 1..n}
  BY <1>1 DEF ToSet
<1>3. Once(s) <=> \A j, k \in 1..n : s[j] = s[k] => j = k
  BY DEF Once
<1>4. Once(t) <=> \A j, k \in 1..(n + 1) : t[j] = t[k] => j = k
  BY <1>1 DEF Once
<1> HIDE DEF t, n
<1>5. \A j \in 1..(n + 1) : j = n + 1 \/ j \in 1..n
  BY <1>1
<1>6. n + 1 \in 1..(n + 1) /\ \A j \in 1..n : j \in 1..(n + 1)
  BY <1>1
<1>7. ToSet(t) = ToSet(s) \cup {e}
  BY <1>1, <1>2, <1>5, <1>6
<1>8. ASSUME Once(s), e \notin ToSet(s) PROVE Once(t)
  <2> SUFFICES ASSUME NEW j \in 1..(n + 1), NEW k \in 1..(n + 1), t[j] = t[k] PROVE j = k
    BY <1>4
  <2>1. \A i \in 1..n : t[i] = s[i] /\ s[i] # e
    BY <1>1, <1>2, <1>8
  <2> QED
    BY <1>1, <1>3, <1>5, <1>8, <2>1
<1> QED
  BY <1>7, <1>8 DEF t

\* A list of n numbers misses one of 0..n.
LEMMA Pigeonhole ==
  ASSUME NEW n \in Nat, NEW v
  PROVE  \E m \in 0..n : \A i \in 1..n : v[i] # m
<1> SUFFICES ASSUME \A m \in 0..n : \E i \in 1..n : v[i] = m PROVE FALSE
  OBVIOUS
<1> DEFINE T == {v[i] : i \in 1..n}
           f == [i \in 1..n |-> v[i]]
<1>1. f \in Surjection(1..n, T)
  BY DEF Surjection
<1>2. IsFiniteSet(1..n) /\ Cardinality(1..n) = n
  BY FS_Interval
<1>3. IsFiniteSet(0..n) /\ Cardinality(0..n) = n + 1
  BY FS_Interval
<1>4. 0..n \subseteq T
  OBVIOUS
<1> HIDE DEF T, f
<1>5. IsFiniteSet(T) /\ Cardinality(T) <= n
  BY <1>1, <1>2, FS_Surjection
<1>6. Cardinality(0..n) <= Cardinality(T)
  BY <1>4, <1>5, FS_Subset
<1>7. Cardinality(T) \in Nat
  BY <1>5, FS_CardinalityType
<1> QED
  BY <1>3, <1>5, <1>6, <1>7

\* A list of numbers has a bound.
LEMMA ListBound ==
  ASSUME NEW n \in Nat, NEW v, \A i \in 1..n : v[i] \in Nat
  PROVE  \E m \in Nat : \A i \in 1..n : v[i] <= m
<1> DEFINE T == {k \in 0..n : \E m \in Nat : \A i \in 1..k : v[i] <= m}
<1>1. 0 \in T
  OBVIOUS
<1>2. ASSUME NEW k \in 1..n, k - 1 \in T PROVE k \in T
  <2>1. PICK m \in Nat : \A i \in 1..(k - 1) : v[i] <= m
    BY <1>2
  <2>2. m + v[k] \in Nat /\ k \in 0..n
    OBVIOUS
  <2>3. ASSUME NEW i \in 1..k PROVE v[i] <= m + v[k]
    <3>1. i = k \/ i \in 1..(k - 1)
      OBVIOUS
    <3>2. v[i] \in Nat /\ v[k] \in Nat
      OBVIOUS
    <3> QED
      BY <2>1, <3>1, <3>2
  <2> QED
    BY <2>2, <2>3
<1> HIDE DEF T
<1>3. n \in T
  <2>1. \A i \in 0..n : i \in T
    BY <1>1, <1>2, Induction
  <2> QED
    BY <2>1
<1> QED
  BY <1>3 DEF T
=============================================================================
