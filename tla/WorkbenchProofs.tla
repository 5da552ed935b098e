---------------------------- MODULE WorkbenchProofs ----------------------------
(***************************************************************************)
(* Proofs about Workbench, for any roots, agents and bounds: the parallel  *)
(* lists of workspaces stay parallel, every workspace keeps its focus on a *)
(* pane it shows, a session lives as long as its tab, agent tabs have keys *)
(* of their own when no agents are configured, and shells that were not    *)
(* renamed have them always.                                               *)
(*                                                                         *)
(* Placed says of a list of roots, a list of instances, an active index,   *)
(* an active workspace and a stash that they fit.  Three lemmas on data    *)
(* carry the argument: a switch, an insertion and a removal each lead from *)
(* lists that fit to lists that fit.  Every action that changes the lists  *)
(* is a composition of them, and every other one leaves root and instance  *)
(* of the active workspace alone.                                          *)
(*                                                                         *)
(* TabsInv is about what is in a workspace: each pane is in one workspace  *)
(* and shown once (Fits), has a session unless it is the picker (Hosted),  *)
(* and its key says its workspace, agent and slot (Slotted).  That no two  *)
(* workspaces share root and instance (IdInv) makes keys of different ones *)
(* different.  ShellInv says the same of a shell and its number, whatever  *)
(* is configured.                                                          *)
(***************************************************************************)
EXTENDS Workbench, ListLemmas

Shown(b) == b.focus \in Tabs(b) \cup {LeftPane}

\* The workspaces whose focus is on a pane they show.
Sound == {b \in BundleType : Shown(b)}

Placed(o, ins, act, b, st) ==
  /\ o \in Seq(Root) /\ ins \in Seq(Nat) /\ act \in 1..Len(o)
  /\ b \in Sound /\ st \in Seq(Sound)
  /\ Len(o) = Len(ins) /\ Len(o) = Len(st) + 1
  /\ \A l \in 1..Len(o) :
       LET x == IF l = act THEN b ELSE st[Slot(l, act)]
       IN x.root = o[l] /\ x.inst = ins[l]

PlaceInv ==
  /\ Placed(order, instances, active, bench, stash)
  /\ nextPane \in Nat \ {0} /\ nextInst \in Nat

-----------------------------------------------------------------------------
(* Lists that fit.                                                         *)

\* Where the switch to workspace l takes what is stashed: the outgoing one to
\* its slot under l, and no other out of its place.
LEMMA SwitchPlaces ==
  ASSUME NEW o, NEW ins, NEW act, NEW b, NEW st, Placed(o, ins, act, b, st),
         NEW l \in 1..Len(o), l # act
  PROVE  Placed(o, ins, l, st[Slot(l, act)],
                InsertAt(RemoveAt(st, Slot(l, act)), Slot(act, l), b))
<1> DEFINE r == RemoveAt(st, Slot(l, act))
           t == InsertAt(r, Slot(act, l), b)
           n == Len(st)
<1>1. /\ o \in Seq(Root) /\ ins \in Seq(Nat) /\ act \in 1..Len(o) /\ b \in Sound /\ st \in Seq(Sound)
      /\ Len(o) = Len(ins) /\ Len(o) = n + 1 /\ n \in Nat
      /\ \A i \in 1..Len(o) : /\ (IF i = act THEN b ELSE st[Slot(i, act)]).root = o[i]
                              /\ (IF i = act THEN b ELSE st[Slot(i, act)]).inst = ins[i]
  BY DEF Placed
<1>2. Slot(l, act) \in 1..n /\ Slot(act, l) \in 1..n
  BY <1>1 DEF Slot
<1>3. /\ r \in Seq(Sound) /\ Len(r) = n - 1
      /\ \A j \in 1..(n - 1) : r[j] = IF j < Slot(l, act) THEN st[j] ELSE st[j + 1]
  BY <1>1, <1>2, RemoveAtSeq
<1>4. /\ t \in Seq(Sound) /\ Len(t) = n
      /\ \A j \in 1..n : t[j] = IF j < Slot(act, l) THEN r[j]
                               ELSE IF j = Slot(act, l) THEN b ELSE r[j - 1]
  <2> HIDE DEF r
  <2>1. r \in Seq(Sound) /\ n = Len(r) + 1 /\ n \in Nat /\ b \in Sound /\ Slot(act, l) \in 1..n
    BY <1>1, <1>2, <1>3
  <2>2. Inserted(Sound, r, Slot(act, l), b, n, InsertAt(r, Slot(act, l), b))
    BY <2>1, InsertAtLen
  <2> QED
    BY <2>2 DEF Inserted
<1> HIDE DEF r, t
<1>5. ASSUME NEW i \in 1..Len(o), i # act, i # l PROVE t[Slot(i, l)] = st[Slot(i, act)]
  <2>1. CASE i < l /\ i < act
    <3>1. i \in 1..(n - 1) /\ i < Slot(act, l) /\ i < Slot(l, act)
      BY <1>1, <2>1, <1>5 DEF Slot
    <3>2. i \in 1..n /\ Slot(i, l) = i /\ Slot(i, act) = i
      BY <1>1, <2>1, <3>1 DEF Slot
    <3>3. t[i] = r[i]
      BY <1>4, <3>1, <3>2
    <3>4. r[i] = st[i]
      BY <1>3, <3>1
    <3> QED
      BY <3>2, <3>3, <3>4
  <2>2. CASE i > l /\ i > act
    <3>1. i - 1 \in 1..n /\ i - 2 \in 1..(n - 1) /\ i - 1 > Slot(act, l) /\ i - 2 >= Slot(l, act)
          /\ (i - 1) - 1 = i - 2 /\ (i - 2) + 1 = i - 1 /\ Slot(i, l) = i - 1 /\ Slot(i, act) = i - 1
      BY <1>1, <2>2, <1>5 DEF Slot
    <3> DEFINE x == Slot(act, l)
               y == Slot(l, act)
    <3>0. x \in Int /\ y \in Int /\ i \in Int /\ n \in Int
      BY <1>1, <1>2
    <3> HIDE DEF x, y
    <3>2. t[i - 1] = r[i - 2]
      <4>1. ~(i - 1 < x) /\ i - 1 # x
        BY <3>0, <3>1 DEF x
      <4>2. t[i - 1] = IF i - 1 < x THEN r[i - 1] ELSE IF i - 1 = x THEN b ELSE r[(i - 1) - 1]
        BY <1>4, <3>1 DEF x
      <4> QED
        BY <3>1, <4>1, <4>2
    <3>3. r[i - 2] = st[i - 1]
      <4>1. ~(i - 2 < y)
        BY <3>0, <3>1 DEF y
      <4>2. r[i - 2] = IF i - 2 < y THEN st[i - 2] ELSE st[(i - 2) + 1]
        BY <1>3, <3>1 DEF y
      <4> QED
        BY <3>1, <4>1, <4>2
    <3> QED
      BY <3>1, <3>2, <3>3
  <2>3. CASE i > l /\ i < act
    <3>1. i - 1 \in 1..n /\ i - 1 \in 1..(n - 1) /\ i - 1 < Slot(act, l) /\ i - 1 >= Slot(l, act)
          /\ (i - 1) + 1 = i /\ Slot(i, l) = i - 1 /\ Slot(i, act) = i
      BY <1>1, <2>3, <1>5 DEF Slot
    <3>2. t[i - 1] = r[i - 1]
      BY <1>4, <3>1
    <3>3. r[i - 1] = st[i]
      <4>1. Slot(l, act) \in Int /\ i - 1 \in Int
        BY <1>1, <1>2
      <4>2. ~(i - 1 < Slot(l, act))
        BY <3>1, <4>1
      <4>3. r[i - 1] = IF i - 1 < Slot(l, act) THEN st[i - 1] ELSE st[(i - 1) + 1]
        BY <1>3, <3>1
      <4> QED
        BY <3>1, <4>2, <4>3
    <3> QED
      BY <3>1, <3>2, <3>3
  <2>4. CASE i < l /\ i > act
    <3>1. i \in 1..n /\ i - 1 \in 1..(n - 1) /\ i > Slot(act, l) /\ i - 1 < Slot(l, act)
          /\ Slot(i, l) = i /\ Slot(i, act) = i - 1
      BY <1>1, <2>4, <1>5 DEF Slot
    <3> QED
      BY <1>1, <1>2, <1>3, <1>4, <3>1
  <2> QED
    BY <1>1, <1>5, <2>1, <2>2, <2>3, <2>4
<1>6. t[Slot(act, l)] = b /\ st[Slot(l, act)] \in Sound
  BY <1>1, <1>2, <1>4
<1>7. ASSUME NEW i \in 1..Len(o)
      PROVE  /\ (IF i = l THEN st[Slot(l, act)] ELSE t[Slot(i, l)]).root = o[i]
             /\ (IF i = l THEN st[Slot(l, act)] ELSE t[Slot(i, l)]).inst = ins[i]
  BY <1>1, <1>5, <1>6
<1> QED
  BY <1>1, <1>4, <1>6, <1>7 DEF Placed, r, t

\* A workspace inserted to the right of the active one.
LEMMA InsertPlaces ==
  ASSUME NEW o, NEW ins, NEW act, NEW b, NEW st, Placed(o, ins, act, b, st),
         NEW new \in Sound, NEW l \in 1..(Len(o) + 1), act < l
  PROVE  /\ l \in 1..Len(InsertAt(o, l, new.root)) /\ l # act
         /\ Placed(InsertAt(o, l, new.root), InsertAt(ins, l, new.inst), act, b,
                   InsertAt(st, Slot(l, act), new))
<1> DEFINE o2 == InsertAt(o, l, new.root)
           ins2 == InsertAt(ins, l, new.inst)
           st2 == InsertAt(st, Slot(l, act), new)
           n == Len(o)
<1>1. /\ o \in Seq(Root) /\ ins \in Seq(Nat) /\ act \in 1..n /\ b \in Sound /\ st \in Seq(Sound)
      /\ n = Len(ins) /\ n = Len(st) + 1 /\ n \in Nat
      /\ \A i \in 1..n : /\ (IF i = act THEN b ELSE st[Slot(i, act)]).root = o[i]
                         /\ (IF i = act THEN b ELSE st[Slot(i, act)]).inst = ins[i]
  BY DEF Placed
<1>2. new.root \in Root /\ new.inst \in Nat
  BY DEF Sound, BundleType
<1>3. /\ o2 \in Seq(Root) /\ Len(o2) = n + 1
      /\ \A j \in 1..(n + 1) : o2[j] = IF j < l THEN o[j] ELSE IF j = l THEN new.root ELSE o[j - 1]
  <2>1. o \in Seq(Root) /\ n + 1 \in Nat
    BY <1>1
  <2>2. Inserted(Root, o, l, new.root, n + 1, o2)
    BY <1>2, <2>1, InsertAtLen
  <2> QED
    BY <2>2 DEF Inserted
<1>4. /\ ins2 \in Seq(Nat) /\ Len(ins2) = n + 1
      /\ \A j \in 1..(n + 1) : ins2[j] = IF j < l THEN ins[j] ELSE IF j = l THEN new.inst ELSE ins[j - 1]
  <2>1. ins \in Seq(Nat) /\ n + 1 \in Nat /\ n + 1 = Len(ins) + 1
    BY <1>1
  <2>2. Inserted(Nat, ins, l, new.inst, n + 1, ins2)
    BY <1>2, <2>1, InsertAtLen
  <2> QED
    BY <2>2 DEF Inserted
<1>5. Slot(l, act) = l - 1 /\ Slot(l, act) \in 1..(Len(st) + 1)
  BY <1>1 DEF Slot
<1>6. /\ st2 \in Seq(Sound) /\ Len(st2) = n
      /\ \A j \in 1..n : st2[j] = IF j < l - 1 THEN st[j] ELSE IF j = l - 1 THEN new ELSE st[j - 1]
  <2>1. st \in Seq(Sound) /\ n \in Nat /\ n = Len(st) + 1 /\ l - 1 \in 1..n /\ Slot(l, act) = l - 1
    BY <1>1, <1>5
  <2>2. Inserted(Sound, st, l - 1, new, n, st2)
    BY <2>1, InsertAtLen
  <2> QED
    BY <2>2 DEF Inserted
<1> HIDE DEF o2, ins2, st2
<1>7. ASSUME NEW i \in 1..(n + 1)
      PROVE  /\ (IF i = act THEN b ELSE st2[Slot(i, act)]).root = o2[i]
             /\ (IF i = act THEN b ELSE st2[Slot(i, act)]).inst = ins2[i]
  <2>1. CASE i = act
    BY <1>1, <1>3, <1>4, <2>1
  <2>2. CASE i < l /\ i # act
    <3>1. i \in 1..n /\ Slot(i, act) \in 1..n /\ Slot(i, act) < l - 1
      BY <1>1, <2>2 DEF Slot
    <3>2. st2[Slot(i, act)] = st[Slot(i, act)]
      BY <1>1, <1>6, <3>1
    <3> QED
      BY <1>1, <1>3, <1>4, <2>2, <3>1, <3>2
  <2>3. CASE i = l
    <3>1. l \in 1..(n + 1) /\ l - 1 \in 1..n /\ ~(l < l) /\ ~(l - 1 < l - 1) /\ l # act
      BY <1>1
    <3>2. st2[Slot(l, act)] = new
      BY <1>5, <1>6, <3>1
    <3>3. o2[l] = new.root /\ ins2[l] = new.inst
      BY <1>3, <1>4, <3>1
    <3> QED
      BY <2>3, <3>1, <3>2, <3>3
  <2>4. CASE i > l
    <3>1. i - 1 \in 1..n /\ i - 1 # act /\ Slot(i, act) = i - 1 /\ Slot(i - 1, act) = (i - 1) - 1
          /\ i - 1 > l - 1
      BY <1>1, <2>4 DEF Slot
    <3>2. st2[Slot(i, act)] = st[Slot(i - 1, act)]
      BY <1>1, <1>6, <3>1
    <3>3. o2[i] = o[i - 1] /\ ins2[i] = ins[i - 1]
      BY <1>1, <1>3, <1>4, <2>4
    <3>4. /\ st[Slot(i - 1, act)].root = o[i - 1]
          /\ st[Slot(i - 1, act)].inst = ins[i - 1]
      BY <1>1, <3>1
    <3>5. i # act
      BY <1>1, <2>4
    <3> QED
      BY <3>2, <3>3, <3>4, <3>5
  <2> QED
    BY <1>1, <2>1, <2>2, <2>3, <2>4
<1> QED
  BY <1>1, <1>3, <1>4, <1>6, <1>7 DEF Placed, o2, ins2, st2

\* A workspace other than the active one removed.
LEMMA RemovePlaces ==
  ASSUME NEW o, NEW ins, NEW act, NEW b, NEW st, Placed(o, ins, act, b, st),
         NEW l \in 1..Len(o), l # act
  PROVE  Placed(RemoveAt(o, l), RemoveAt(ins, l), IF l < act THEN act - 1 ELSE act, b,
                RemoveAt(st, Slot(l, act)))
<1> DEFINE o2 == RemoveAt(o, l)
           ins2 == RemoveAt(ins, l)
           st2 == RemoveAt(st, Slot(l, act))
           act2 == IF l < act THEN act - 1 ELSE act
           n == Len(o)
<1>1. /\ o \in Seq(Root) /\ ins \in Seq(Nat) /\ act \in 1..n /\ b \in Sound /\ st \in Seq(Sound)
      /\ n = Len(ins) /\ n = Len(st) + 1 /\ n \in Nat
      /\ \A i \in 1..n : /\ (IF i = act THEN b ELSE st[Slot(i, act)]).root = o[i]
                         /\ (IF i = act THEN b ELSE st[Slot(i, act)]).inst = ins[i]
  BY DEF Placed
<1>2. /\ o2 \in Seq(Root) /\ Len(o2) = n - 1
      /\ \A j \in 1..(n - 1) : o2[j] = IF j < l THEN o[j] ELSE o[j + 1]
  BY <1>1, RemoveAtSeq
<1>3. /\ ins2 \in Seq(Nat) /\ Len(ins2) = n - 1
      /\ \A j \in 1..(n - 1) : ins2[j] = IF j < l THEN ins[j] ELSE ins[j + 1]
  <2>1. ins \in Seq(Nat) /\ n - 1 \in Nat /\ Len(ins) = (n - 1) + 1 /\ l \in 1..((n - 1) + 1)
    BY <1>1
  <2> QED
    BY <2>1, RemoveAtLen
<1>4. Slot(l, act) \in 1..Len(st)
  BY <1>1 DEF Slot
<1>5. /\ st2 \in Seq(Sound) /\ Len(st2) = n - 2
      /\ \A j \in 1..(n - 2) : st2[j] = IF j < Slot(l, act) THEN st[j] ELSE st[j + 1]
  <2>1. /\ st2 \in Seq(Sound) /\ Len(st2) = Len(st) - 1
        /\ \A j \in 1..(Len(st) - 1) : st2[j] = IF j < Slot(l, act) THEN st[j] ELSE st[j + 1]
    BY <1>1, <1>4, RemoveAtSeq
  <2>2. Len(st) - 1 = n - 2
    BY <1>1
  <2> QED
    BY <2>1, <2>2
<1>6. act2 \in 1..(n - 1)
  BY <1>1
<1> HIDE DEF o2, ins2, st2
<1>7. ASSUME NEW i \in 1..(n - 1)
      PROVE  /\ (IF i = act2 THEN b ELSE st2[Slot(i, act2)]).root = o2[i]
             /\ (IF i = act2 THEN b ELSE st2[Slot(i, act2)]).inst = ins2[i]
  <2> DEFINE k == IF i < l THEN i ELSE i + 1
  <2>1. k \in 1..n /\ o2[i] = o[k] /\ ins2[i] = ins[k]
    <3>1. i \in Nat /\ l \in Nat /\ n \in Nat /\ i <= n - 1 /\ 1 <= i /\ l <= n
      BY <1>1
    <3>2. k \in 1..n
      BY <3>1
    <3>3. o2[i] = o[k]
      BY <1>2
    <3>4. ins2[i] = ins[k]
      BY <1>3
    <3> QED
      BY <3>2, <3>3, <3>4
  <2>2. k = act <=> i = act2
    BY <1>1
  <2>3. ASSUME i # act2 PROVE st2[Slot(i, act2)] = st[Slot(k, act)]
    <3>1. Slot(i, act2) \in 1..(n - 2)
      BY <1>1, <1>6, <2>3 DEF Slot
    <3>2. Slot(k, act) = IF Slot(i, act2) < Slot(l, act) THEN Slot(i, act2) ELSE Slot(i, act2) + 1
      BY <1>1, <2>3 DEF Slot
    <3> QED
      BY <1>5, <3>1, <3>2
  <2> HIDE DEF k
  <2> QED
    BY <1>1, <2>1, <2>2, <2>3
<1> HIDE DEF act2
<1> QED
  BY <1>1, <1>2, <1>3, <1>5, <1>6, <1>7 DEF Placed, o2, ins2, st2, act2

-----------------------------------------------------------------------------
(* Workspaces.                                                             *)

\* A new workspace is sound: its panes are in range, its focus is left.
LEMMA BundleSound ==
  ASSUME PlaceInv, NEW root \in Root, NEW inst \in Nat, NEW nA \in Nat, NEW nS \in Nat,
         nextPane + nA + nS - 1 <= MaxPanes
  PROVE  /\ Bundle(root, inst, nA, nS) \in Sound
         /\ Bundle(root, inst, nA, nS).root = root /\ Bundle(root, inst, nA, nS).inst = inst
<1> DEFINE agents == [i \in 1..nA |-> nextPane + i - 1]
           shells == [i \in 1..nS |-> nextPane + nA + i - 1]
<1>1. nextPane \in Nat \ {0} /\ MaxPanes \in Nat
  BY BenchAssumption DEF PlaceInv, BenchAssumption
<1>2. agents \in Seq(Pane)
  BY <1>1 DEF Pane
<1>3. shells \in Seq(Pane)
  BY <1>1 DEF Pane
<1>4. nextPane..(nextPane + nA + nS - 1) \in SUBSET Pane
  BY <1>1 DEF Pane
<1> HIDE DEF agents, shells
<1>5. Bundle(root, inst, nA, nS) =
        [root |-> root, inst |-> inst, agents |-> agents, agentsActive |-> 1,
         shells |-> shells, shellsActive |-> 1,
         panes |-> nextPane..(nextPane + nA + nS - 1), focus |-> LeftPane]
  BY DEF Bundle, agents, shells
<1>6. Bundle(root, inst, nA, nS) \in BundleType
  BY <1>2, <1>3, <1>4, <1>5 DEF BundleType
<1>7. Bundle(root, inst, nA, nS).focus = LeftPane
  BY <1>5
<1> QED
  BY <1>5, <1>6, <1>7 DEF Sound, Shown

\* The agents of a new workspace form a list whatever is remembered.
LEMMA AgentTabsList ==
  ASSUME NEW T, NEW remembered \in Seq(T)
  PROVE  \E S : AgentTabs(remembered) \in Seq(S)
<1>1. Preset \in Seq(Agent)
  BY BenchAssumption DEF BenchAssumption
<1>2. CASE Preset # <<>>
  <2> DEFINE S == {PresetTab(i) : i \in 1..Len(Preset)}
             e(i) == PresetTab(i)
  <2>1. /\ AgentTabs(remembered) = [i \in 1..Len(Preset) |-> e(i)]
        /\ \A i \in 1..Len(Preset) : e(i) \in S
        /\ Len(Preset) \in Nat
    BY <1>1, <1>2 DEF AgentTabs
  <2> HIDE DEF S, e
  <2>2. AgentTabs(remembered) \in Seq(S)
    BY <2>1
  <2> QED
    BY <2>2
<1>3. CASE Preset = <<>> /\ remembered = <<>>
  <2>1. AgentTabs(remembered) = <<Picker>> /\ Picker \in {Picker}
    BY <1>3 DEF AgentTabs
  <2>2. AgentTabs(remembered) \in Seq({Picker})
    BY <2>1
  <2> QED
    BY <2>2
<1>4. CASE Preset = <<>> /\ remembered # <<>>
  BY <1>4 DEF AgentTabs
<1> QED
  BY <1>2, <1>3, <1>4

\* A fresh workspace has one shell after its agents, and room for all.
LEMMA FreshLists ==
  /\ Len(FreshAgents) \in Nat \ {0} /\ Len(FreshTabs) = Len(FreshAgents) + 1
  /\ Len(FreshTabs) <= MaxPanes
<1>0. Preset \in Seq(Agent) /\ MaxPanes \in Nat /\ MaxPanes > Len(Preset) /\ MaxPanes > 1
  BY BenchAssumption DEF BenchAssumption
<1>1. FreshAgents \in Seq({PresetTab(i) : i \in 1..Len(Preset)} \cup {Picker})
      /\ Len(FreshAgents) = IF Preset # <<>> THEN Len(Preset) ELSE 1
  <2>1. CASE Preset # <<>>
    <3> DEFINE S == {PresetTab(i) : i \in 1..Len(Preset)} \cup {Picker}
               e(i) == PresetTab(i)
    <3>1. /\ FreshAgents = [i \in 1..Len(Preset) |-> e(i)]
          /\ \A i \in 1..Len(Preset) : e(i) \in S
          /\ Len(Preset) \in Nat
      BY <1>0, <2>1 DEF FreshAgents, AgentTabs
    <3> HIDE DEF S, e
    <3>2. FreshAgents \in Seq(S) /\ Len(FreshAgents) = Len(Preset)
      BY <3>1
    <3> QED
      BY <2>1, <3>2 DEF S
  <2>2. CASE Preset = <<>>
    <3> DEFINE S == {PresetTab(i) : i \in 1..Len(Preset)} \cup {Picker}
    <3>1. FreshAgents = <<Picker>> /\ Picker \in S
      BY <2>2 DEF FreshAgents, AgentTabs
    <3> HIDE DEF S
    <3>2. FreshAgents \in Seq(S) /\ Len(FreshAgents) = 1
      BY <3>1
    <3> QED
      BY <2>2, <3>2 DEF S
  <2> QED
    BY <2>1, <2>2
<1>2. Len(Preset) \in Nat /\ (Preset # <<>> => Len(Preset) # 0)
  BY <1>0, EmptySeq
<1>3. Len(FreshTabs) = Len(FreshAgents) + 1
  <2> DEFINE S == {PresetTab(i) : i \in 1..Len(Preset)} \cup {Picker}
  <2>1. FreshAgents \in Seq(S \cup {ShellTab(1)}) /\ <<ShellTab(1)>> \in Seq(S \cup {ShellTab(1)})
        /\ Len(<<ShellTab(1)>>) = 1
    BY <1>1
  <2> HIDE DEF S
  <2> QED
    BY <2>1, ConcatProperties DEF FreshTabs
<1> QED
  BY <1>0, <1>1, <1>2, <1>3

\* A change to the tabs of the active workspace leaves every workspace where
\* it is.
LEMMA SamePlaces ==
  ASSUME PlaceInv, UNCHANGED spaces, UNCHANGED nextInst, nextPane' \in Nat \ {0},
         bench' \in Sound, bench'.root = bench.root, bench'.inst = bench.inst
  PROVE  PlaceInv'
BY DEF PlaceInv, Placed, spaces

\* The fields a workspace has.
LEMMA BenchFields ==
  ASSUME PlaceInv
  PROVE  /\ bench \in BundleType /\ Shown(bench)
         /\ bench.root \in Root /\ bench.inst \in Nat
         /\ bench.agents \in Seq(Pane) /\ bench.agentsActive \in Nat \ {0}
         /\ bench.shells \in Seq(Pane) /\ bench.shellsActive \in Nat \ {0}
         /\ bench.panes \in SUBSET Pane /\ bench.focus \in Pane \cup {LeftPane}
<1>1. bench \in BundleType /\ Shown(bench)
  BY DEF PlaceInv, Placed, Sound
<1> QED
  BY <1>1 DEF BundleType

-----------------------------------------------------------------------------
(* The actions.                                                            *)

\* A switch leaves every workspace where it is.
LEMMA ActivateStep ==
  ASSUME PlaceInv, NEW i, ActivateWorkspace(i)
  PROVE  PlaceInv'
<1>1. i \in 1..Len(order) /\ i # active /\ Placed(order, instances, active, bench, stash)
  BY DEF ActivateWorkspace, PlaceInv
<1>2. Placed(order, instances, i, stash[Slot(i, active)],
             InsertAt(RemoveAt(stash, Slot(i, active)), Slot(active, i), bench))
  BY <1>1, SwitchPlaces
<1> QED
  BY <1>2 DEF ActivateWorkspace, SwitchTo, Swapped, PlaceInv

\* Workspace new is inserted at l, to the right of the active one, and
\* activated.
Inserts(new, l) ==
  /\ new \in Sound /\ l \in 1..(Len(order) + 1) /\ active < l
  /\ order' = InsertAt(order, l, new.root) /\ instances' = InsertAt(instances, l, new.inst)
  /\ SwitchTo(l, InsertAt(stash, Slot(l, active), new))

LEMMA InsertThenSwitch ==
  ASSUME PlaceInv, NEW new, NEW l, Inserts(new, l)
  PROVE  Placed(order, instances, active, bench, stash)'
<1>0. /\ new \in Sound /\ l \in 1..(Len(order) + 1) /\ active < l
      /\ order' = InsertAt(order, l, new.root) /\ instances' = InsertAt(instances, l, new.inst)
      /\ SwitchTo(l, InsertAt(stash, Slot(l, active), new))
  BY DEF Inserts
<1> DEFINE st == InsertAt(stash, Slot(l, active), new)
<1>1. Placed(order, instances, active, bench, stash)
  BY DEF PlaceInv
<1>2. l \in 1..Len(order') /\ l # active /\ Placed(order', instances', active, bench, st)
  BY <1>0, <1>1, InsertPlaces
<1>3. Placed(order', instances', l, st[Slot(l, active)],
             InsertAt(RemoveAt(st, Slot(l, active)), Slot(active, l), bench))
  <2> HIDE DEF st
  <2> QED
    BY <1>2, SwitchPlaces
<1> QED
  BY <1>0, <1>3 DEF SwitchTo, Swapped

\* What opening a directory that is not open does to the lists.
LEMMA OpenInserts ==
  ASSUME PlaceInv, NEW root \in Root, OpenWorkspace(root), root \notin ToSet(order),
         NEW new, new = Bundle(root, 0, Len(FreshAgents), 1)
  PROVE  /\ Build(root, 0, FreshTabs) /\ Inserts(new, Len(order) + 1)
         /\ new.root = root /\ new.inst = 0
         /\ UNCHANGED <<nextInst, refused>> /\ nextPane' \in Nat \ {0}
<1> DEFINE l == Len(order) + 1
<1>1. /\ Build(root, 0, FreshTabs)
      /\ order' = Append(order, root) /\ instances' = Append(instances, 0)
      /\ SwitchTo(l, Append(stash, new)) /\ UNCHANGED <<nextInst, refused>>
  BY DEF OpenWorkspace
<1>2. /\ order \in Seq(Root) /\ instances \in Seq(Nat) /\ stash \in Seq(Sound)
      /\ Len(instances) = Len(order) /\ Len(stash) = Len(order) - 1
      /\ active \in 1..Len(order) /\ nextPane \in Nat \ {0}
  BY DEF PlaceInv, Placed
<1>3. /\ nextPane + Len(FreshAgents) + 1 - 1 <= MaxPanes /\ nextPane' \in Nat \ {0}
      /\ Len(FreshAgents) \in Nat
  <2>1. nextPane + Len(FreshTabs) - 1 <= MaxPanes /\ nextPane' = nextPane + Len(FreshTabs)
    BY <1>1 DEF Build
  <2> QED
    BY <1>2, <2>1, FreshLists
<1>4. new \in Sound /\ new.root = root /\ new.inst = 0
  BY <1>3, BundleSound
<1>5. l \in 1..(Len(order) + 1) /\ active < l /\ Slot(l, active) = Len(stash) + 1
  BY <1>2 DEF Slot
<1>6. /\ order' = InsertAt(order, l, new.root)
      /\ instances' = InsertAt(instances, l, new.inst)
      /\ Append(stash, new) = InsertAt(stash, Slot(l, active), new)
  <2>1. Append(order, root) = InsertAt(order, l, root)
    BY <1>2, AppendSeq
  <2>2. Append(instances, 0) = InsertAt(instances, l, 0)
    <3>0. instances \in Seq(Nat) /\ 0 \in Nat
      BY <1>2
    <3>1. Append(instances, 0) = InsertAt(instances, Len(instances) + 1, 0)
      BY <3>0, AppendSeq
    <3> QED
      BY <1>2, <3>1
  <2>3. Append(stash, new) = InsertAt(stash, Slot(l, active), new)
    <3>1. Append(stash, new) = InsertAt(stash, Len(stash) + 1, new)
      BY <1>2, <1>4, AppendSeq
    <3> QED
      BY <1>5, <3>1
  <2> QED
    BY <1>1, <1>4, <2>1, <2>2, <2>3
<1> HIDE DEF l
<1>7. SwitchTo(l, InsertAt(stash, Slot(l, active), new))
  BY <1>1, <1>6
<1>8. Inserts(new, l)
  BY <1>4, <1>5, <1>6, <1>7 DEF Inserts
<1> QED
  BY <1>1, <1>3, <1>4, <1>8 DEF l

\* Opening a directory.
LEMMA OpenStep ==
  ASSUME PlaceInv, NEW root \in Root, OpenWorkspace(root)
  PROVE  PlaceInv'
<1>1. CASE root \in ToSet(order)
  BY <1>1, ActivateStep DEF OpenWorkspace
<1>2. CASE root \notin ToSet(order)
  <2>1. PICK new : new = Bundle(root, 0, Len(FreshAgents), 1)
    OBVIOUS
  <2>2. Inserts(new, Len(order) + 1) /\ UNCHANGED nextInst /\ nextPane' \in Nat \ {0}
    BY <1>2, <2>1, OpenInserts
  <2>3. Placed(order, instances, active, bench, stash)'
    BY <2>2, InsertThenSwitch
  <2> QED
    BY <2>2, <2>3 DEF PlaceInv
<1> QED
  BY <1>1, <1>2

\* The tabs a copy of the active workspace opens with.
CopiedAgents == AgentTabs([i \in 1..Len(Agents(bench)) |->
                             AgentTab(agentOf[bench.agents[i]], slotOf[bench.agents[i]])])
CopiedShells(k, kept) ==
  IF k = 0 THEN <<ShellTab(1)>> ELSE [i \in 1..k |-> ShellTab(number[kept[i]])]

\* What duplicating the active workspace does to the lists.
LEMMA DuplicateInserts ==
  ASSUME PlaceInv, NEW k \in 0..Len(bench.shells), NEW kept, Duplicate(k, kept),
         NEW new, new = Bundle(bench.root, nextInst, Len(CopiedAgents), Len(CopiedShells(k, kept)))
  PROVE  /\ Build(bench.root, nextInst, CopiedAgents \o CopiedShells(k, kept))
         /\ Inserts(new, active + 1) /\ new.root = bench.root /\ new.inst = nextInst
         /\ nextInst' = nextInst + 1 /\ nextPane' \in Nat \ {0}
<1> DEFINE e(i) == AgentTab(agentOf[bench.agents[i]], slotOf[bench.agents[i]])
           agentTabs == AgentTabs([i \in 1..Len(Agents(bench)) |-> e(i)])
           shellTabs == IF k = 0 THEN <<ShellTab(1)>> ELSE [i \in 1..k |-> ShellTab(number[kept[i]])]
           nA == Len(agentTabs)
           nS == Len(shellTabs)
           l == active + 1
<1>0. agentTabs = CopiedAgents /\ shellTabs = CopiedShells(k, kept)
  BY DEF CopiedAgents, CopiedShells
<1>1. /\ order \in Seq(Root) /\ active \in 1..Len(order) /\ nextPane \in Nat \ {0} /\ nextInst \in Nat
      /\ bench.root \in Root /\ bench.agents \in Seq(Pane) /\ bench.shells \in Seq(Pane)
  BY BenchFields DEF PlaceInv, Placed
<1>2. /\ Build(bench.root, nextInst, agentTabs \o shellTabs)
      /\ nextInst' = nextInst + 1
      /\ order' = InsertAt(order, l, bench.root)
      /\ instances' = InsertAt(instances, l, nextInst)
      /\ SwitchTo(l, InsertAt(stash, Slot(l, active), new))
  BY <1>0 DEF Duplicate
<1>3. \E S : agentTabs \in Seq(S)
  <2> DEFINE T == {e(i) : i \in 1..Len(Agents(bench))}
             remembered == [i \in 1..Len(Agents(bench)) |-> e(i)]
  <2>1. Len(Agents(bench)) \in Nat
    BY <1>1 DEF Agents
  <2>2. \A i \in 1..Len(Agents(bench)) : e(i) \in T
    OBVIOUS
  <2> HIDE DEF T, e
  <2>3. remembered \in Seq(T)
    BY <2>1, <2>2
  <2> HIDE DEF remembered
  <2>4. \E S : AgentTabs(remembered) \in Seq(S)
    BY <2>3, AgentTabsList
  <2> QED
    BY <2>4 DEF remembered
<1>4. \E S : shellTabs \in Seq(S)
  <2> DEFINE T == {ShellTab(number[kept[i]]) : i \in 1..k} \cup {ShellTab(1)}
  <2>1. k \in Nat
    BY <1>1
  <2>2. CASE k = 0
    <3>1. shellTabs = <<ShellTab(1)>> /\ ShellTab(1) \in T
      BY <2>2
    <3> HIDE DEF shellTabs, T
    <3>2. shellTabs \in Seq(T)
      BY <3>1
    <3> QED
      BY <3>2
  <2>3. CASE k # 0
    <3> DEFINE f(i) == ShellTab(number[kept[i]])
    <3>1. shellTabs = [i \in 1..k |-> f(i)] /\ \A i \in 1..k : f(i) \in T
      BY <2>3
    <3> HIDE DEF shellTabs, T, f
    <3>2. shellTabs \in Seq(T)
      BY <2>1, <3>1
    <3> QED
      BY <3>2
  <2> QED
    BY <2>2, <2>3
<1> HIDE DEF agentTabs, shellTabs
<1>5. nA \in Nat /\ nS \in Nat /\ Len(agentTabs \o shellTabs) = nA + nS
  <2>1. PICK S : agentTabs \in Seq(S)
    BY <1>3
  <2>2. PICK T : shellTabs \in Seq(T)
    BY <1>4
  <2>3. agentTabs \in Seq(S \cup T) /\ shellTabs \in Seq(S \cup T)
    BY <2>1, <2>2
  <2> QED
    BY <2>3, ConcatProperties, LenProperties
<1>6. nextPane + nA + nS - 1 <= MaxPanes /\ nextPane' \in Nat \ {0}
  <2>1. /\ nextPane + Len(agentTabs \o shellTabs) - 1 <= MaxPanes
        /\ nextPane' = nextPane + Len(agentTabs \o shellTabs)
    BY <1>2 DEF Build
  <2> QED
    BY <1>1, <1>5, <2>1
<1> new = Bundle(bench.root, nextInst, nA, nS)
  BY <1>0
<1> HIDE DEF nA, nS
<1>7. new \in Sound /\ new.root = bench.root /\ new.inst = nextInst
  <2>1. /\ bench.root \in Root /\ nextInst \in Nat /\ nA \in Nat /\ nS \in Nat
        /\ nextPane + nA + nS - 1 <= MaxPanes
    BY <1>1, <1>5, <1>6
  <2> DEFINE b == Bundle(bench.root, nextInst, nA, nS)
  <2>2. b \in Sound /\ b.root = bench.root /\ b.inst = nextInst
    BY <2>1, BundleSound
  <2> HIDE DEF b
  <2> QED
    BY <2>2 DEF b
<1>8. l \in 1..(Len(order) + 1) /\ active < l
  BY <1>1
<1> HIDE DEF l
<1>9. Inserts(new, l)
  BY <1>2, <1>7, <1>8 DEF Inserts
<1> QED
  BY <1>0, <1>2, <1>6, <1>7, <1>9 DEF l

LEMMA DuplicateStep ==
  ASSUME PlaceInv, NEW k \in 0..Len(bench.shells), NEW kept, Duplicate(k, kept)
  PROVE  PlaceInv'
<1>1. PICK new : new = Bundle(bench.root, nextInst, Len(CopiedAgents), Len(CopiedShells(k, kept)))
  OBVIOUS
<1>2. Inserts(new, active + 1) /\ nextInst' = nextInst + 1 /\ nextPane' \in Nat \ {0}
  BY <1>1, DuplicateInserts
<1>3. Placed(order, instances, active, bench, stash)'
  BY <1>2, InsertThenSwitch
<1> QED
  BY <1>2, <1>3 DEF PlaceInv

\* Closing a workspace, after a switch to a neighbour if it is the active one.
LEMMA CloseStep ==
  ASSUME PlaceInv, NEW l, CloseWorkspace(l)
  PROVE  PlaceInv'
<1>1. /\ l \in 1..Len(order) /\ Len(order) > 1
      /\ Placed(order, instances, active, bench, stash)
      /\ Len(order) \in Nat /\ active \in 1..Len(order)
  BY DEF CloseWorkspace, PlaceInv, Placed
<1> DEFINE heir == IF l # active THEN active ELSE IF l < Len(order) THEN l + 1 ELSE l - 1
           left == IF heir = active THEN stash ELSE Swapped(heir, stash)
           b == IF heir = active THEN bench ELSE stash[Slot(heir, active)]
<1>2. heir \in 1..Len(order) /\ heir # l
  BY <1>1
<1>3. /\ bench' = b /\ stash' = RemoveAt(left, Slot(l, heir))
      /\ active' = IF l < heir THEN heir - 1 ELSE heir
      /\ order' = RemoveAt(order, l) /\ instances' = RemoveAt(instances, l)
      /\ UNCHANGED <<nextPane, nextInst>>
  BY DEF CloseWorkspace
<1> HIDE DEF heir
<1>4. Placed(order, instances, heir, b, left)
  <2>1. CASE heir = active
    BY <1>1, <2>1
  <2>2. CASE heir # active
    BY <1>1, <1>2, <2>2, SwitchPlaces DEF Swapped
  <2> QED
    BY <2>1, <2>2
<1> HIDE DEF left, b
<1>5. Placed(RemoveAt(order, l), RemoveAt(instances, l), IF l < heir THEN heir - 1 ELSE heir, b,
             RemoveAt(left, Slot(l, heir)))
  BY <1>1, <1>2, <1>4, RemovePlaces
<1> QED
  BY <1>3, <1>5 DEF PlaceInv

\* A tab that opens in the active workspace.
LEMMA OpenTabStep ==
  ASSUME PlaceInv, OpenShell \/ \E a \in Agent : OpenAgent(a)
  PROVE  PlaceInv'
<1>1. nextPane \in Pane /\ nextPane' \in Nat \ {0}
  <2>1. nextPane \in Nat \ {0} /\ MaxPanes \in Nat
    BY BenchAssumption DEF PlaceInv, BenchAssumption
  <2>2. ASSUME NEW t, Build(bench.root, bench.inst, <<t>>)
        PROVE  nextPane <= MaxPanes /\ nextPane' = nextPane + 1
    <3>1. Len(<<t>>) = 1
      OBVIOUS
    <3>2. nextPane + Len(<<t>>) - 1 <= MaxPanes /\ nextPane' = nextPane + Len(<<t>>)
      BY <2>2 DEF Build
    <3> QED
      BY <2>1, <3>1, <3>2
  <2>3. nextPane <= MaxPanes /\ nextPane' = nextPane + 1
    BY <2>2 DEF OpenShell, OpenAgent
  <2> QED
    BY <2>1, <2>3 DEF Pane
<1>2. UNCHANGED <<spaces, nextInst>>
  BY DEF OpenShell, OpenAgent
<1>3. CASE OpenShell
  <2>1. bench' = [bench EXCEPT !.shells = Append(bench.shells, nextPane),
                               !.shellsActive = Len(bench.shells) + 1,
                               !.panes = bench.panes \cup {nextPane}, !.focus = nextPane]
    BY <1>3 DEF OpenShell, ShowShell
  <2>2. Append(bench.shells, nextPane) \in Seq(Pane) /\ nextPane \in ToSet(Append(bench.shells, nextPane))
    BY <1>1, BenchFields, AppendedList
  <2>3. Len(bench.shells) + 1 \in Nat \ {0}
    BY BenchFields
  <2>4. /\ bench' \in BundleType /\ bench'.root = bench.root /\ bench'.inst = bench.inst
        /\ bench'.shells = Append(bench.shells, nextPane) /\ bench'.focus = nextPane
    BY <1>1, <2>1, <2>2, <2>3, BenchFields DEF BundleType
  <2>5. bench' \in Sound
    BY <2>2, <2>4 DEF Sound, Shown, Tabs
  <2> QED
    BY <1>1, <1>2, <2>4, <2>5, SamePlaces
<1>4. ASSUME NEW a \in Agent, OpenAgent(a) PROVE PlaceInv'
  <2>1. CASE Len(bench.agents) < MaxTabs
    <3> DEFINE tabs == Agents(bench)
               swept == ToSet(bench.agents) \ ToSet(tabs)
    <3>1. bench' = [bench EXCEPT !.agents = Append(tabs, nextPane), !.agentsActive = Len(tabs) + 1,
                                 !.panes = (bench.panes \ swept) \cup {nextPane}, !.focus = nextPane]
      <4>1. Len(bench.agents) \in Nat /\ MaxTabs \in Nat
        BY BenchFields, BenchAssumption DEF BenchAssumption
      <4>2. ~(Len(bench.agents) >= MaxTabs)
        BY <2>1, <4>1
      <4> QED
        BY <1>4, <4>2 DEF OpenAgent
    <3>2. tabs \in Seq(Pane)
      BY BenchFields DEF Agents
    <3> HIDE DEF tabs
    <3>3. Append(tabs, nextPane) \in Seq(Pane) /\ nextPane \in ToSet(Append(tabs, nextPane))
      BY <1>1, <3>2, AppendedList
    <3>4. Len(tabs) + 1 \in Nat \ {0} /\ (bench.panes \ swept) \cup {nextPane} \in SUBSET Pane
      BY <1>1, <3>2, BenchFields
    <3> HIDE DEF swept
    <3>5. /\ bench' \in BundleType /\ bench'.root = bench.root /\ bench'.inst = bench.inst
          /\ bench'.agents = Append(tabs, nextPane) /\ bench'.focus = nextPane
      BY <1>1, <3>1, <3>3, <3>4, BenchFields DEF BundleType
    <3>6. bench' \in Sound
      BY <3>3, <3>5 DEF Sound, Shown, Tabs
    <3> QED
      BY <1>1, <1>2, <3>5, <3>6, SamePlaces
  <2>2. CASE ~(Len(bench.agents) < MaxTabs)
    <3>1. bench' = [bench EXCEPT !.panes = bench.panes \cup {nextPane}]
      BY <1>4, <2>2 DEF OpenAgent
    <3>2. /\ bench' \in BundleType /\ bench'.root = bench.root /\ bench'.inst = bench.inst
          /\ bench'.agents = bench.agents /\ bench'.shells = bench.shells /\ bench'.focus = bench.focus
      BY <1>1, <3>1, BenchFields DEF BundleType
    <3>3. bench' \in Sound
      BY <3>2, BenchFields DEF Sound, Shown, Tabs
    <3> QED
      BY <1>1, <1>2, <3>2, <3>3, SamePlaces
  <2> QED
    BY <2>1, <2>2
<1> QED
  BY <1>3, <1>4

\* A tab that closes in the active workspace.
LEMMA CloseTabStep ==
  ASSUME PlaceInv, (\E i \in 1..Len(bench.shells) : CloseShell(i))
                   \/ (\E i \in 1..Len(bench.agents) : CloseAgent(i))
  PROVE  PlaceInv'
<1>1. UNCHANGED <<spaces, nextInst, nextPane>> /\ nextPane \in Nat \ {0}
  BY DEF CloseShell, CloseAgent, DropPane, PlaceInv
<1>2. ASSUME NEW s \in Seq(Pane), NEW i \in 1..Len(s), Len(s) > 1, NEW n \in Nat \ {0}
      PROVE  /\ RemoveAt(s, i) \in Seq(Pane) /\ Least(n, Len(RemoveAt(s, i))) \in Nat \ {0}
             /\ RemoveAt(s, i)[Least(n, Len(RemoveAt(s, i)))] \in ToSet(RemoveAt(s, i))
             /\ RemoveAt(s, i)[Least(n, Len(RemoveAt(s, i)))] \in Pane
  <2> DEFINE rest == RemoveAt(s, i)
  <2>1. rest \in Seq(Pane) /\ Len(rest) = Len(s) - 1
    BY RemoveAtSeq
  <2>2. Len(rest) \in Nat \ {0}
    BY <1>2, <2>1
  <2> HIDE DEF rest
  <2>3. Least(n, Len(rest)) \in 1..Len(rest)
    BY <2>2 DEF Least
  <2>4. rest[Least(n, Len(rest))] \in ToSet(rest) /\ rest[Least(n, Len(rest))] \in Pane
    BY <2>1, <2>3, InList
  <2>5. Least(n, Len(rest)) \in Nat \ {0}
    BY <2>2, <2>3
  <2> QED
    BY <2>1, <2>4, <2>5 DEF rest
<1>3. ASSUME NEW i \in 1..Len(bench.shells), CloseShell(i) PROVE PlaceInv'
  <2> DEFINE rest == RemoveAt(bench.shells, i)
             act == Least(bench.shellsActive, Len(rest))
  <2>1. /\ bench' = [bench EXCEPT !.shells = rest, !.shellsActive = act,
                                  !.panes = bench.panes \ {bench.shells[i]}, !.focus = rest[act]]
        /\ Len(bench.shells) > 1
    BY <1>3 DEF CloseShell
  <2>2. rest \in Seq(Pane) /\ act \in Nat \ {0} /\ rest[act] \in ToSet(rest) /\ rest[act] \in Pane
    BY <1>2, <2>1, BenchFields
  <2> HIDE DEF rest, act
  <2>3. /\ bench' \in BundleType /\ bench'.root = bench.root /\ bench'.inst = bench.inst
        /\ bench'.shells = rest /\ bench'.focus = rest[act]
    BY <2>1, <2>2, BenchFields DEF BundleType
  <2>4. bench' \in Sound
    BY <2>2, <2>3 DEF Sound, Shown, Tabs
  <2> QED
    BY <1>1, <2>3, <2>4, SamePlaces
<1>4. ASSUME NEW i \in 1..Len(bench.agents), CloseAgent(i) PROVE PlaceInv'
  <2> DEFINE rest == RemoveAt(bench.agents, i)
             n == IF i < bench.agentsActive THEN bench.agentsActive - 1 ELSE bench.agentsActive
             act == Least(n, Len(rest))
  <2>1. /\ bench' = [bench EXCEPT !.agents = rest, !.agentsActive = act,
                                  !.panes = bench.panes \ {bench.agents[i]}, !.focus = rest[act]]
        /\ Len(bench.agents) > 1
    BY <1>4 DEF CloseAgent
  <2>2. n \in Nat \ {0}
    BY BenchFields
  <2> HIDE DEF n
  <2>3. rest \in Seq(Pane) /\ act \in Nat \ {0} /\ rest[act] \in ToSet(rest) /\ rest[act] \in Pane
    BY <1>2, <2>1, <2>2, BenchFields
  <2> HIDE DEF rest, act
  <2>4. /\ bench' \in BundleType /\ bench'.root = bench.root /\ bench'.inst = bench.inst
        /\ bench'.agents = rest /\ bench'.focus = rest[act]
    BY <2>1, <2>3, BenchFields DEF BundleType
  <2>5. bench' \in Sound
    BY <2>3, <2>4 DEF Sound, Shown, Tabs
  <2> QED
    BY <1>1, <2>4, <2>5, SamePlaces
<1> QED
  BY <1>3, <1>4

\* Renaming a pane changes no list, focusing one moves the focus to a tab.
LEMMA PaneStep ==
  ASSUME PlaceInv, NEW p \in Pane \cup {LeftPane}, RenamePane(p) \/ FocusPane(p)
  PROVE  PlaceInv'
<1>1. UNCHANGED <<spaces, nextInst, nextPane>> /\ nextPane \in Nat \ {0}
  BY DEF RenamePane, FocusPane, PlaceInv
<1>2. CASE RenamePane(p)
  <2>1. bench' = bench /\ bench \in Sound
    BY <1>2 DEF RenamePane, PlaceInv, Placed
  <2> QED
    BY <1>1, <2>1, SamePlaces
<1>3. CASE FocusPane(p)
  <2> DEFINE act == IF p \in ToSet(bench.agents) THEN Position(bench.agents, p) ELSE bench.agentsActive
  <2>1. /\ bench' = [bench EXCEPT !.focus = p, !.agentsActive = act]
        /\ p \in Tabs(bench) \cup {LeftPane}
    BY <1>3 DEF FocusPane
  <2>2. act \in Nat \ {0}
    <3>1. ASSUME p \in ToSet(bench.agents) PROVE Position(bench.agents, p) \in 1..Len(bench.agents)
      <4>1. \E i \in 1..Len(bench.agents) : bench.agents[i] = p
        BY <3>1, BenchFields DEF ToSet
      <4> QED
        BY <4>1 DEF Position
    <3>2. Len(bench.agents) \in Nat /\ bench.agentsActive \in Nat \ {0}
      BY BenchFields
    <3> QED
      BY <3>1, <3>2
  <2> HIDE DEF act
  <2>3. /\ bench' \in BundleType /\ bench'.root = bench.root /\ bench'.inst = bench.inst
        /\ bench'.agents = bench.agents /\ bench'.shells = bench.shells /\ bench'.focus = p
    BY <2>1, <2>2, BenchFields DEF BundleType
  <2>4. bench' \in Sound
    BY <2>1, <2>3 DEF Sound, Shown, Tabs
  <2> QED
    BY <1>1, <2>3, <2>4, SamePlaces
<1> QED
  BY <1>2, <1>3

-----------------------------------------------------------------------------
(* The theorems.                                                           *)

\* The App starts with lists that fit.
LEMMA PlaceInit == BenchInit => PlaceInv
<1> SUFFICES ASSUME BenchInit PROVE PlaceInv
  OBVIOUS
<1>1. FirstRoot \in Root /\ Len(FreshTabs) \in Pane
      /\ \A i \in 1..Len(FreshTabs) : i \in Pane
  BY FreshLists, BenchAssumption DEF BenchAssumption, Pane
<1> DEFINE agents == [i \in 1..Len(FreshAgents) |-> i]
           shells == <<Len(FreshTabs)>>
<1>2. /\ bench = [root |-> FirstRoot, inst |-> 0, agents |-> agents, agentsActive |-> 1,
                  shells |-> shells, shellsActive |-> 1,
                  panes |-> 1..Len(FreshTabs), focus |-> LeftPane]
      /\ order = <<FirstRoot>> /\ instances = <<0>> /\ active = 1 /\ stash = <<>>
      /\ nextPane = Len(FreshTabs) + 1 /\ nextInst = 1
      /\ nextPane \in Nat \ {0}
  BY FreshLists DEF BenchInit
<1>3. agents \in Seq(Pane) /\ shells \in Seq(Pane) /\ 1..Len(FreshTabs) \in SUBSET Pane
  BY <1>1, FreshLists
<1> HIDE DEF agents, shells
<1>4. bench \in Sound
  BY <1>1, <1>2, <1>3 DEF Sound, Shown, BundleType
<1>5. order \in Seq(Root) /\ instances \in Seq(Nat) /\ stash \in Seq(Sound)
  BY <1>1, <1>2
<1>6. Len(order) = 1 /\ Len(instances) = 1 /\ Len(stash) = 0 /\ order[1] = FirstRoot /\ instances[1] = 0
  BY <1>2
<1>7. bench.root = FirstRoot /\ bench.inst = 0
  BY <1>2
<1>8. \A l \in 1..Len(order) : l = active /\ l = 1
  BY <1>2, <1>6
<1> QED
  BY <1>2, <1>4, <1>5, <1>6, <1>7, <1>8 DEF PlaceInv, Placed

\* Every operation keeps them so.
LEMMA PlaceStep == PlaceInv /\ [BenchNext]_benchVars => PlaceInv'
<1> SUFFICES ASSUME PlaceInv, [BenchNext]_benchVars PROVE PlaceInv'
  OBVIOUS
<1>1. CASE UNCHANGED benchVars
  BY <1>1 DEF PlaceInv, Placed, benchVars
<1>2. ASSUME NEW k \in 0..Len(bench.shells), NEW kept, Duplicate(k, kept) PROVE PlaceInv'
  BY <1>2, DuplicateStep
<1>3. CASE DuplicateWorkspace
  BY <1>2, <1>3 DEF DuplicateWorkspace
<1> QED
  BY <1>1, <1>3, ActivateStep, CloseStep, OpenStep, OpenTabStep, CloseTabStep, PaneStep DEF BenchNext

\* In every state of the App the lists fit.
LEMMA PlaceInductive == BenchSpec => []PlaceInv
BY PlaceInit, PlaceStep, PTL DEF BenchSpec

\* Through every sequence of opening, duplicating, switching and closing
\* workspaces, ws_order, ws_instances and ws_stash stay parallel: every
\* index names the workspace it named.
THEOREM WorkspacesInPlace == BenchSpec => []BundlesInPlace
<1>1. PlaceInv => BundlesInPlace
  BY DEF PlaceInv, Placed, BundlesInPlace
<1> QED
  BY <1>1, PlaceInductive, PTL

\* No operation leaves the focus of a workspace, active or stashed, on a pane
\* it no longer shows.
THEOREM FocusIsShown == BenchSpec => []FocusShown
<1>1. PlaceInv => FocusShown
  <2> SUFFICES ASSUME PlaceInv, NEW x \in Bundles PROVE Shown(x)
    BY DEF FocusShown, Shown
  <2>1. bench \in Sound /\ stash \in Seq(Sound)
    BY DEF PlaceInv, Placed
  <2>2. x \in Sound
    BY <2>1, InList DEF Bundles
  <2> QED
    BY <2>2 DEF Sound
<1> QED
  BY <1>1, PlaceInductive, PTL

-----------------------------------------------------------------------------
(* Sessions and tabs.                                                      *)

\* The maps by pane and the counters.
MapsInv ==
  /\ session \in [Pane -> SessionKey \cup {NoKey}] /\ agentOf \in [Pane -> Agent \cup {NoAgent}]
  /\ slotOf \in [Pane -> Nat \cup {NoSlot}] /\ number \in [Pane -> Nat]
  /\ nextPane \in 1..(MaxPanes + 1) /\ nextInst \in Nat \ {0} /\ refused \in SUBSET Pane

\* A root and an instance name one workspace.
Paired(o, ins) == \A i, j \in 1..Len(o) : o[i] = o[j] /\ ins[i] = ins[j] => i = j

IdInv == /\ Paired(order, instances)
         /\ \A i \in 1..Len(instances) : instances[i] < nextInst

\* The panes of workspace b: its tabs are among them, each is shown once,
\* and the agents group is never empty.
Fits(b) ==
  /\ \A p \in b.panes : p < nextPane
  /\ Tabs(b) \subseteq b.panes /\ Len(b.agents) > 0
  /\ Once(b.agents) /\ Once(b.shells) /\ ToSet(b.agents) \cap ToSet(b.shells) = {}

\* Every tab of b has a session, but the picker, which is alone.
Hosted(b) ==
  /\ \A p \in ToSet(b.shells) : session[p] # NoKey
  /\ \A p \in ToSet(b.agents) : IF agentOf[p] = NoAgent THEN session[p] = NoKey /\ Len(b.agents) = 1
                                ELSE session[p] # NoKey

\* The tabs of an agent in b have slots of their own, and the keys of them.
Slotted(b) ==
  \A p \in ToSet(b.agents) : agentOf[p] # NoAgent =>
    /\ slotOf[p] \in Nat
    /\ session[p] = KeyOf(b.root, b.inst, AgentTab(agentOf[p], slotOf[p]))
    /\ \A q \in ToSet(b.agents) : agentOf[q] = agentOf[p] /\ slotOf[q] = slotOf[p] => q = p

TabsInv ==
  /\ \A b \in Bundles : Fits(b) /\ Hosted(b) /\ (Preset = <<>> => Slotted(b))
  /\ \A b, c \in Bundles : b # c => b.panes \cap c.panes = {}
  /\ \A p \in Pane : session[p] # NoKey => p \in refused \/ \E b \in Bundles : p \in Tabs(b)

BenchInv == PlaceInv /\ MapsInv /\ IdInv /\ TabsInv

\* Workspaces that fit and are paired are found by root and instance.
LEMMA Identified ==
  ASSUME NEW o, NEW ins, NEW act, NEW b, NEW st, Placed(o, ins, act, b, st), Paired(o, ins)
  PROVE  /\ Once(st) /\ b \notin ToSet(st)
         /\ \A x, y \in {b} \cup ToSet(st) : x.root = y.root /\ x.inst = y.inst => x = y
<1> DEFINE at(j) == IF j < act THEN j ELSE j + 1
           n == Len(o)
<1>1. /\ act \in 1..n /\ st \in Seq(Sound) /\ n = Len(st) + 1 /\ n \in Nat
      /\ \A i \in 1..n : /\ (IF i = act THEN b ELSE st[Slot(i, act)]).root = o[i]
                         /\ (IF i = act THEN b ELSE st[Slot(i, act)]).inst = ins[i]
  BY DEF Placed
<1>2. \A j \in 1..Len(st) : at(j) \in 1..n /\ at(j) # act /\ Slot(at(j), act) = j
  BY <1>1 DEF Slot
<1>3. \A j \in 1..Len(st) : st[j].root = o[at(j)] /\ st[j].inst = ins[at(j)]
  BY <1>1, <1>2
<1>4. b.root = o[act] /\ b.inst = ins[act]
  BY <1>1
<1>5. \A i, j \in 1..Len(st) : at(i) = at(j) => i = j
  BY <1>1
<1> HIDE DEF at
<1>6. \A i, j \in 1..n : o[i] = o[j] /\ ins[i] = ins[j] => i = j
  BY DEF Paired
<1>7. \A i, j \in 1..Len(st) : st[i].root = st[j].root /\ st[i].inst = st[j].inst => i = j
  BY <1>2, <1>3, <1>5, <1>6
<1>8. \A j \in 1..Len(st) : ~(st[j].root = b.root /\ st[j].inst = b.inst)
  BY <1>1, <1>2, <1>3, <1>4, <1>6
<1>9. \A x : x \in ToSet(st) <=> \E j \in 1..Len(st) : x = st[j]
  BY <1>1, Elements
<1>10. Once(st) /\ b \notin ToSet(st)
  BY <1>7, <1>8, <1>9 DEF Once
<1>11. ASSUME NEW x \in {b} \cup ToSet(st), NEW y \in {b} \cup ToSet(st), x.root = y.root, x.inst = y.inst
       PROVE  x = y
  <2>1. CASE x = b /\ y = b
    BY <2>1
  <2>2. CASE x = b /\ y \in ToSet(st)
    BY <1>8, <1>9, <1>11, <2>2
  <2>3. CASE x \in ToSet(st) /\ y = b
    BY <1>8, <1>9, <1>11, <2>3
  <2>4. CASE x \in ToSet(st) /\ y \in ToSet(st)
    BY <1>7, <1>9, <1>11, <2>4
  <2> QED
    BY <2>1, <2>2, <2>3, <2>4
<1> QED
  BY <1>10, <1>11

\* A pair that is not there may be inserted.
LEMMA InsertPaired ==
  ASSUME NEW o \in Seq(Root), NEW ins \in Seq(Nat), Len(o) = Len(ins), Paired(o, ins),
         NEW r \in Root, NEW x \in Nat, \A i \in 1..Len(o) : ~(o[i] = r /\ ins[i] = x),
         NEW l \in 1..(Len(o) + 1)
  PROVE  Paired(InsertAt(o, l, r), InsertAt(ins, l, x))
<1> DEFINE o2 == InsertAt(o, l, r)
           ins2 == InsertAt(ins, l, x)
           n == Len(o)
<1>1. /\ Len(o2) = n + 1 /\ n \in Nat
      /\ \A j \in 1..(n + 1) : o2[j] = IF j < l THEN o[j] ELSE IF j = l THEN r ELSE o[j - 1]
  <2>1. n + 1 \in Nat /\ n + 1 = Len(o) + 1 /\ l \in 1..(n + 1) /\ n \in Nat
    OBVIOUS
  <2>2. Inserted(Root, o, l, r, n + 1, o2)
    BY <2>1, InsertAtLen
  <2> QED
    BY <2>1, <2>2 DEF Inserted
<1>2. \A j \in 1..(n + 1) : ins2[j] = IF j < l THEN ins[j] ELSE IF j = l THEN x ELSE ins[j - 1]
  <2>1. n + 1 \in Nat /\ n + 1 = Len(ins) + 1 /\ l \in 1..(n + 1)
    OBVIOUS
  <2>2. Inserted(Nat, ins, l, x, n + 1, ins2)
    BY <2>1, InsertAtLen
  <2> QED
    BY <2>2 DEF Inserted
<1> DEFINE from(j) == IF j < l THEN j ELSE j - 1
<1>3. \A j \in 1..(n + 1) : j # l => from(j) \in 1..n
  BY <1>1
<1>4. \A j, k \in 1..(n + 1) : j # l /\ k # l /\ from(j) = from(k) => j = k
  BY <1>1
<1>5. \A j \in 1..(n + 1) : j # l => o2[j] = o[from(j)] /\ ins2[j] = ins[from(j)]
  BY <1>1, <1>2
<1>6. o2[l] = r /\ ins2[l] = x
  BY <1>1, <1>2
<1> HIDE DEF o2, ins2, from, n
<1>7. \A i, j \in 1..n : o[i] = o[j] /\ ins[i] = ins[j] => i = j
  BY DEF Paired, n
<1>8. \A i \in 1..n : ~(o[i] = r /\ ins[i] = x)
  BY DEF n
<1>9. ASSUME NEW j \in 1..(n + 1), NEW k \in 1..(n + 1), o2[j] = o2[k], ins2[j] = ins2[k]
      PROVE  j = k
  <2>1. CASE j # l /\ k # l
    BY <1>3, <1>4, <1>5, <1>7, <1>9, <2>1, SMTT(20)
  <2>2. CASE j = l /\ k # l
    BY <1>3, <1>5, <1>6, <1>8, <1>9, <2>2
  <2>3. CASE j # l /\ k = l
    BY <1>3, <1>5, <1>6, <1>8, <1>9, <2>3
  <2> QED
    BY <2>1, <2>2, <2>3
<1> QED
  BY <1>1, <1>9 DEF Paired, o2, ins2

\* And one removed.
LEMMA RemovePaired ==
  ASSUME NEW o \in Seq(Root), NEW ins \in Seq(Nat), Len(o) = Len(ins), Paired(o, ins),
         NEW l \in 1..Len(o)
  PROVE  Paired(RemoveAt(o, l), RemoveAt(ins, l))
<1> DEFINE o2 == RemoveAt(o, l)
           ins2 == RemoveAt(ins, l)
           n == Len(o)
<1>1. /\ Len(o2) = n - 1 /\ n \in Nat
      /\ \A j \in 1..(n - 1) : o2[j] = IF j < l THEN o[j] ELSE o[j + 1]
  BY RemoveAtSeq
<1>2. \A j \in 1..(n - 1) : ins2[j] = IF j < l THEN ins[j] ELSE ins[j + 1]
  <2>1. n - 1 \in Nat /\ Len(ins) = (n - 1) + 1 /\ l \in 1..((n - 1) + 1)
    BY <1>1
  <2> QED
    BY <2>1, RemoveAtLen, Zenon
<1> DEFINE from(j) == IF j < l THEN j ELSE j + 1
<1>3. \A j \in 1..(n - 1) : from(j) \in 1..n
  BY <1>1
<1>4. ASSUME NEW j \in 1..(n - 1), NEW k \in 1..(n - 1), from(j) = from(k) PROVE j = k
  <2>1. j \in Int /\ k \in Int /\ l \in Int
    BY <1>1
  <2> QED
    BY <1>4, <2>1
<1>5. \A j \in 1..(n - 1) : o2[j] = o[from(j)] /\ ins2[j] = ins[from(j)]
  BY <1>1, <1>2
<1> HIDE DEF o2, ins2, from, n
<1>6. \A i, j \in 1..n : o[i] = o[j] /\ ins[i] = ins[j] => i = j
  BY DEF Paired, n
<1>7. \A j, k \in 1..(n - 1) : o2[j] = o2[k] /\ ins2[j] = ins2[k] => j = k
  BY <1>3, <1>4, <1>5, <1>6
<1> QED
  BY <1>1, <1>7 DEF Paired, o2, ins2

\* A switch keeps the workspaces there are.
LEMMA SwitchBundles ==
  ASSUME NEW o, NEW ins, NEW act, NEW b, NEW st, Placed(o, ins, act, b, st),
         NEW l \in 1..Len(o), l # act
  PROVE  {st[Slot(l, act)]} \cup ToSet(InsertAt(RemoveAt(st, Slot(l, act)), Slot(act, l), b))
           = {b} \cup ToSet(st)
<1> DEFINE k == Slot(l, act)
           m == Slot(act, l)
           r == RemoveAt(st, k)
<1>1. /\ st \in Seq(Sound) /\ b \in Sound /\ k \in 1..Len(st) /\ m \in 1..Len(st) /\ Len(st) \in Nat
  BY DEF Placed, Slot
<1> HIDE DEF k, m
<1>2. r \in Seq(Sound) /\ Len(r) = Len(st) - 1 /\ ToSet(st) = ToSet(r) \cup {st[k]}
  BY <1>1, RemoveAtSeq, RemoveAtSet
<1> HIDE DEF r
<1>3. m \in 1..(Len(r) + 1)
  BY <1>1, <1>2
<1>4. ToSet(InsertAt(r, m, b)) = ToSet(r) \cup {b}
  BY <1>1, <1>2, <1>3, InsertAtSet
<1> QED
  BY <1>2, <1>4 DEF k, m, r

LEMMA Places == PlaceInv => /\ Placed(order, instances, active, bench, stash)
                            /\ order \in Seq(Root) /\ instances \in Seq(Nat)
                            /\ Len(order) = Len(instances) /\ Len(order) \in Nat
                            /\ active \in 1..Len(order) /\ stash \in Seq(Sound) /\ bench \in Sound
BY DEF PlaceInv, Placed

\* What a switch to workspace l changes is which is active.
LEMMA ActivateBundles ==
  ASSUME PlaceInv, NEW i, ActivateWorkspace(i)
  PROVE  Bundles' = Bundles
<1>1. i \in 1..Len(order) /\ i # active /\ Placed(order, instances, active, bench, stash)
  BY DEF ActivateWorkspace, PlaceInv
<1> QED
  BY <1>1, SwitchBundles DEF ActivateWorkspace, SwitchTo, Swapped, Bundles

\* A workspace that is inserted and then activated is one more.
LEMMA InsertBundles ==
  ASSUME PlaceInv, NEW new, NEW l, Inserts(new, l)
  PROVE  Bundles' = Bundles \cup {new}
<1>0. /\ new \in Sound /\ l \in 1..(Len(order) + 1) /\ active < l
      /\ order' = InsertAt(order, l, new.root) /\ instances' = InsertAt(instances, l, new.inst)
      /\ SwitchTo(l, InsertAt(stash, Slot(l, active), new))
  BY DEF Inserts
<1> DEFINE st == InsertAt(stash, Slot(l, active), new)
<1>1. /\ Placed(order, instances, active, bench, stash) /\ stash \in Seq(Sound)
      /\ Len(stash) = Len(order) - 1 /\ active \in 1..Len(order) /\ Len(order) \in Nat
  BY DEF PlaceInv, Placed
<1>2. l \in 1..Len(order') /\ l # active /\ Placed(order', instances', active, bench, st)
  BY <1>0, <1>1, InsertPlaces
<1>3. ToSet(st) = ToSet(stash) \cup {new}
  <2>1. Slot(l, active) \in 1..(Len(stash) + 1)
    BY <1>0, <1>1 DEF Slot
  <2> QED
    BY <1>0, <1>1, <2>1, InsertAtSet
<1> HIDE DEF st
<1>4. {st[Slot(l, active)]} \cup ToSet(InsertAt(RemoveAt(st, Slot(l, active)), Slot(active, l), bench))
        = {bench} \cup ToSet(st)
  BY <1>2, SwitchBundles
<1>5. bench' = st[Slot(l, active)]
      /\ stash' = InsertAt(RemoveAt(st, Slot(l, active)), Slot(active, l), bench)
  BY <1>0 DEF SwitchTo, Swapped, st
<1> QED
  BY <1>3, <1>4, <1>5 DEF Bundles

\* A workspace that is closed is gone, with all its panes.
LEMMA CloseBundles ==
  ASSUME PlaceInv, IdInv, NEW l, CloseWorkspace(l)
  PROVE  \E x \in Bundles : Bundles' = Bundles \ {x} /\ Release(x) /\ refused' = refused \ x.panes
<1>1. /\ l \in 1..Len(order) /\ Len(order) > 1
      /\ Placed(order, instances, active, bench, stash) /\ Paired(order, instances)
      /\ Len(order) \in Nat /\ active \in 1..Len(order) /\ stash \in Seq(Sound)
  BY DEF CloseWorkspace, PlaceInv, Placed, IdInv
<1> DEFINE heir == IF l # active THEN active ELSE IF l < Len(order) THEN l + 1 ELSE l - 1
           left == IF heir = active THEN stash ELSE Swapped(heir, stash)
           b == IF heir = active THEN bench ELSE stash[Slot(heir, active)]
           k == Slot(l, heir)
<1>2. heir \in 1..Len(order) /\ heir # l
  BY <1>1
<1>3. /\ bench' = b /\ stash' = RemoveAt(left, k) /\ Release(left[k])
      /\ refused' = refused \ left[k].panes
  BY DEF CloseWorkspace
<1> HIDE DEF heir
<1>4. /\ Placed(order, instances, heir, b, left)
      /\ {b} \cup ToSet(left) = Bundles
  <2>1. CASE heir = active
    BY <1>1, <2>1 DEF Bundles
  <2>2. CASE heir # active
    BY <1>1, <1>2, <2>2, SwitchPlaces, SwitchBundles DEF Swapped, Bundles
  <2> QED
    BY <2>1, <2>2
<1> HIDE DEF left, b
<1>5. left \in Seq(Sound) /\ k \in 1..Len(left)
  BY <1>1, <1>2, <1>4 DEF Placed, Slot
<1>6. Once(left) /\ b \notin ToSet(left)
  BY <1>1, <1>4, Identified
<1> HIDE DEF k
<1>7. ToSet(RemoveAt(left, k)) = ToSet(left) \ {left[k]} /\ left[k] \in ToSet(left)
  BY <1>5, <1>6, RemoveAtSet, InList
<1>8. Bundles' = {b} \cup ToSet(RemoveAt(left, k))
  BY <1>3 DEF Bundles
<1>9. left[k] \in Bundles /\ Bundles' = Bundles \ {left[k]}
  BY <1>4, <1>6, <1>7, <1>8
<1> QED
  BY <1>3, <1>9

\* A workspace that keeps its panes' sessions keeps its tabs as they were.
LEMMA Untouched ==
  ASSUME NEW b \in Sound, Fits(b), Hosted(b), Preset = <<>> => Slotted(b),
         nextPane \in Nat, nextPane' \in Nat, nextPane <= nextPane',
         \A p \in b.panes : session'[p] = session[p] /\ agentOf'[p] = agentOf[p] /\ slotOf'[p] = slotOf[p]
  PROVE  Fits(b)' /\ Hosted(b)' /\ (Preset = <<>> => Slotted(b)')
<1>1. /\ ToSet(b.agents) \subseteq b.panes /\ ToSet(b.shells) \subseteq b.panes
      /\ \A p \in b.panes : p \in Nat
  BY DEF Fits, Tabs, Sound, BundleType, Pane
<1>2. Fits(b)'
  BY <1>1 DEF Fits, Tabs
<1>3. Hosted(b)'
  BY <1>1 DEF Hosted
<1>4. Slotted(b) => Slotted(b)'
  BY <1>1 DEF Slotted
<1> QED
  BY <1>2, <1>3, <1>4

\* Closing a workspace ends its sessions and no others.
LEMMA CloseKeepsTabs ==
  ASSUME BenchInv, NEW l, CloseWorkspace(l)
  PROVE  TabsInv'
<1>1. PICK x \in Bundles : Bundles' = Bundles \ {x} /\ Release(x) /\ refused' = refused \ x.panes
  BY CloseBundles DEF BenchInv
<1>2. /\ session' = [p \in Pane |-> IF p \in x.panes THEN NoKey ELSE session[p]]
      /\ agentOf' = [p \in Pane |-> IF p \in x.panes THEN NoAgent ELSE agentOf[p]]
      /\ UNCHANGED <<slotOf, nextPane>>
  BY <1>1 DEF Release, CloseWorkspace
<1>3. \A b \in Bundles : b \in Sound /\ b.panes \in SUBSET Pane
  BY InList DEF BenchInv, PlaceInv, Placed, Bundles, Sound, BundleType
<1>4. nextPane \in Nat
  BY DEF BenchInv, MapsInv
<1>5. ASSUME NEW b \in Bundles'
      PROVE  Fits(b)' /\ Hosted(b)' /\ (Preset = <<>> => Slotted(b)')
  <2>1. b \in Bundles /\ b.panes \cap x.panes = {} /\ b \in Sound /\ b.panes \in SUBSET Pane
    BY <1>1, <1>3 DEF BenchInv, TabsInv
  <2>2. \A p \in b.panes : session'[p] = session[p] /\ agentOf'[p] = agentOf[p] /\ slotOf'[p] = slotOf[p]
    BY <1>2, <2>1
  <2>3. Fits(b) /\ Hosted(b) /\ (Preset = <<>> => Slotted(b))
    BY <2>1 DEF BenchInv, TabsInv
  <2> QED
    BY <1>2, <1>4, <2>1, <2>2, <2>3, Untouched
<1>6. ASSUME NEW p \in Pane, session'[p] # NoKey
      PROVE  p \in refused' \/ \E b \in Bundles' : p \in Tabs(b)
  <2>1. p \notin x.panes /\ session[p] # NoKey
    BY <1>2, <1>6
  <2>2. p \in refused \/ \E b \in Bundles : p \in Tabs(b)
    BY <2>1 DEF BenchInv, TabsInv
  <2>3. Tabs(x) \subseteq x.panes
    BY <1>1 DEF BenchInv, TabsInv, Fits
  <2> QED
    BY <1>1, <2>1, <2>2, <2>3
<1>7. \A b, c \in Bundles' : b # c => b.panes \cap c.panes = {}
  BY <1>1 DEF BenchInv, TabsInv
<1> QED
  BY <1>5, <1>6, <1>7 DEF TabsInv

\* The tabs there are to build.
TabSet == {Picker} \cup {AgentTab(a, n) : a \in Agent, n \in Nat \cup {NoSlot}} \cup {ShellTab(n) : n \in Nat}

LEMMA TabKinds ==
  \A t \in TabSet :
    /\ t.kind \in {"picker", "agent", "shell"} /\ t.agent \in Agent \cup {NoAgent}
    /\ t.n \in Nat \cup {NoSlot}
    /\ t.kind = "picker" => t.agent = NoAgent
    /\ t.kind = "agent" => t.agent \in Agent
    /\ t.kind = "shell" => t.agent = NoAgent /\ t.n \in Nat
BY DEF TabSet, Picker, AgentTab, ShellTab

\* Of all tabs only the picker has no session.
LEMMA KeyIsKey ==
  ASSUME NEW root \in Root, NEW inst \in Nat, NEW t \in TabSet
  PROVE  /\ KeyOf(root, inst, t) \in SessionKey \cup {NoKey}
         /\ t.kind = "picker" => KeyOf(root, inst, t) = NoKey
         /\ t.kind # "picker" => KeyOf(root, inst, t) # NoKey
<1>1. /\ t.kind \in {"picker", "agent", "shell"} /\ t.agent \in Agent \cup {NoAgent}
      /\ t.n \in Nat \cup {NoSlot}
  BY TabKinds
<1>2. CASE t.kind = "picker"
  BY <1>2 DEF KeyOf
<1>3. CASE t.kind # "picker"
  <2> DEFINE n == IF t.n = NoSlot THEN 0 ELSE t.n
  <2>1. n \in Nat /\ t.kind \in {"agent", "shell"}
    BY <1>1, <1>3
  <2>2. KeyOf(root, inst, t) = [root |-> root, inst |-> inst, kind |-> t.kind, agent |-> t.agent, n |-> n]
    BY <1>3 DEF KeyOf
  <2> HIDE DEF n
  <2>3. KeyOf(root, inst, t) \in SessionKey
    BY <1>1, <2>1, <2>2 DEF SessionKey
  <2>4. NoKey \notin SessionKey
    BY BenchAssumption DEF BenchAssumption
  <2> QED
    BY <1>3, <2>3, <2>4
<1> QED
  BY <1>2, <1>3

\* The pane of the i-th tab to build.
PaneAt(i) == nextPane + i - 1

\* What building the tabs ts does to the maps.
LEMMA BuildMaps ==
  ASSUME MapsInv, NEW root \in Root, NEW inst \in Nat, NEW ts \in Seq(TabSet), Build(root, inst, ts)
  PROVE  /\ session' \in [Pane -> SessionKey \cup {NoKey}] /\ agentOf' \in [Pane -> Agent \cup {NoAgent}]
         /\ slotOf' \in [Pane -> Nat \cup {NoSlot}] /\ number' \in [Pane -> Nat]
         /\ nextPane' = nextPane + Len(ts) /\ nextPane' \in 1..(MaxPanes + 1)
         /\ \A i \in 1..Len(ts) :
              /\ PaneAt(i) \in Pane /\ PaneAt(i) < nextPane' /\ ~(PaneAt(i) < nextPane)
              /\ session'[PaneAt(i)] = KeyOf(root, inst, ts[i])
              /\ agentOf'[PaneAt(i)] = ts[i].agent
              /\ ts[i].kind = "agent" => slotOf'[PaneAt(i)] = ts[i].n
         /\ \A p \in Pane : p < nextPane =>
              /\ session'[p] = session[p] /\ agentOf'[p] = agentOf[p] /\ slotOf'[p] = slotOf[p]
         /\ \A p \in Pane : \/ \E i \in 1..Len(ts) : p = PaneAt(i)
                            \/ session'[p] = session[p]
<1> DEFINE n == Len(ts)
           new == nextPane..(nextPane + n - 1)
           tab(p) == ts[p - nextPane + 1]
<1>1. /\ nextPane + n - 1 <= MaxPanes
      /\ session' = [p \in Pane |-> IF p \in new THEN KeyOf(root, inst, tab(p)) ELSE session[p]]
      /\ agentOf' = [p \in Pane |-> IF p \in new THEN tab(p).agent ELSE agentOf[p]]
      /\ slotOf' = [p \in Pane |-> IF p \in new /\ tab(p).kind = "agent" THEN tab(p).n ELSE slotOf[p]]
      /\ number' = [p \in Pane |-> IF p \in new /\ tab(p).kind = "shell" THEN tab(p).n ELSE number[p]]
      /\ nextPane' = nextPane + n
  BY DEF Build
<1>2. /\ nextPane \in 1..(MaxPanes + 1) /\ MaxPanes \in Nat /\ n \in Nat
      /\ \A i \in 1..n : ts[i] \in TabSet
      /\ session \in [Pane -> SessionKey \cup {NoKey}] /\ agentOf \in [Pane -> Agent \cup {NoAgent}]
      /\ slotOf \in [Pane -> Nat \cup {NoSlot}] /\ number \in [Pane -> Nat]
  BY BenchAssumption DEF MapsInv, BenchAssumption
<1> HIDE DEF n
<1>3. \A p \in new : p - nextPane + 1 \in 1..n /\ p = PaneAt(p - nextPane + 1)
  BY <1>2 DEF PaneAt
<1>4. \A i \in 1..n : /\ PaneAt(i) \in new /\ PaneAt(i) \in Pane /\ PaneAt(i) - nextPane + 1 = i
                      /\ PaneAt(i) < nextPane + n /\ ~(PaneAt(i) < nextPane)
  BY <1>1, <1>2 DEF PaneAt, Pane
<1>5. \A p \in Pane : p < nextPane => p \notin new
  BY <1>2 DEF Pane
<1>6. \A p \in new : tab(p) \in TabSet
  BY <1>2, <1>3
<1>7. nextPane' \in 1..(MaxPanes + 1)
  BY <1>1, <1>2
<1>8. \A i \in 1..n : tab(PaneAt(i)) = ts[i]
  BY <1>4
<1> HIDE DEF new, tab
<1>9. session' \in [Pane -> SessionKey \cup {NoKey}]
  BY <1>1, <1>2, <1>6, KeyIsKey
<1>10. agentOf' \in [Pane -> Agent \cup {NoAgent}]
  BY <1>1, <1>2, <1>6, TabKinds
<1>11. slotOf' \in [Pane -> Nat \cup {NoSlot}]
  BY <1>1, <1>2, <1>6, TabKinds
<1>12. number' \in [Pane -> Nat]
  BY <1>1, <1>2, <1>6, TabKinds
<1>13. ASSUME NEW i \in 1..n
       PROVE  /\ session'[PaneAt(i)] = KeyOf(root, inst, ts[i])
              /\ agentOf'[PaneAt(i)] = ts[i].agent
              /\ ts[i].kind = "agent" => slotOf'[PaneAt(i)] = ts[i].n
  <2>1. PaneAt(i) \in new /\ PaneAt(i) \in Pane /\ tab(PaneAt(i)) = ts[i]
    BY <1>4, <1>8
  <2> QED
    BY <1>1, <2>1
<1>14. \A p \in Pane : p < nextPane =>
         /\ session'[p] = session[p] /\ agentOf'[p] = agentOf[p] /\ slotOf'[p] = slotOf[p]
  BY <1>1, <1>5
<1>15. ASSUME NEW p \in Pane PROVE (\E i \in 1..n : p = PaneAt(i)) \/ session'[p] = session[p]
  <2>1. CASE p \in new
    BY <1>3, <2>1
  <2>2. CASE p \notin new
    BY <1>1, <2>2
  <2> QED
    BY <2>1, <2>2
<1> QED
  BY <1>1, <1>4, <1>7, <1>9, <1>10, <1>11, <1>12, <1>13, <1>14, <1>15 DEF n

\* The panes of a new workspace.
Numbered(x, root, inst, nA, nS) ==
  /\ x.root = root /\ x.inst = inst
  /\ Len(x.agents) = nA /\ \A i \in 1..nA : x.agents[i] = PaneAt(i)
  /\ Len(x.shells) = nS /\ \A i \in 1..nS : x.shells[i] = PaneAt(nA + i)
  /\ \A p : p \in ToSet(x.agents) <=> \E i \in 1..nA : p = PaneAt(i)
  /\ \A p : p \in ToSet(x.shells) <=> \E i \in 1..nS : p = PaneAt(nA + i)
  /\ x.panes = nextPane..(nextPane + nA + nS - 1)

LEMMA BundlePanes ==
  ASSUME MapsInv, NEW root, NEW inst, NEW nA \in Nat, NEW nS \in Nat,
         NEW x, x = Bundle(root, inst, nA, nS)
  PROVE  Numbered(x, root, inst, nA, nS)
<1> DEFINE agents == [i \in 1..nA |-> nextPane + i - 1]
           shells == [i \in 1..nS |-> nextPane + nA + i - 1]
<1>1. nextPane \in Nat
  BY DEF MapsInv
<1>2. /\ x.root = root /\ x.inst = inst /\ x.agents = agents /\ x.shells = shells
      /\ x.panes = nextPane..(nextPane + nA + nS - 1)
  BY DEF Bundle
<1>3. /\ Len(agents) = nA /\ DOMAIN agents = 1..nA /\ \A i \in 1..nA : agents[i] = PaneAt(i)
  BY <1>1 DEF PaneAt
<1>4. /\ Len(shells) = nS /\ DOMAIN shells = 1..nS /\ \A i \in 1..nS : shells[i] = PaneAt(nA + i)
  BY <1>1 DEF PaneAt
<1> HIDE DEF agents, shells
<1>5. \A p : p \in ToSet(agents) <=> \E i \in 1..nA : p = PaneAt(i)
  BY <1>3 DEF ToSet
<1>6. \A p : p \in ToSet(shells) <=> \E i \in 1..nS : p = PaneAt(nA + i)
  BY <1>4 DEF ToSet
<1> QED
  BY <1>2, <1>3, <1>4, <1>5, <1>6 DEF Numbered

\* Tabs for an agents group: the picker by itself, or agents; of these, if
\* none is configured, no two have an agent and a slot in common.
AgentList(ts) ==
  /\ Len(ts) > 0
  /\ \/ ts = <<Picker>>
     \/ \A i \in 1..Len(ts) : ts[i].kind = "agent"
  /\ Preset = <<>> =>
       \A i \in 1..Len(ts) : ts[i].kind = "agent" =>
         /\ ts[i].n \in Nat
         /\ \A j \in 1..Len(ts) : ts[i].agent = ts[j].agent /\ ts[i].n = ts[j].n => i = j

\* A new workspace has sessions of its own for its tabs.
LEMMA NewTabs ==
  ASSUME MapsInv, NEW root \in Root, NEW inst \in Nat,
         NEW A \in Seq(TabSet), AgentList(A),
         NEW S \in Seq(TabSet), \A i \in 1..Len(S) : S[i].kind = "shell",
         Build(root, inst, A \o S),
         NEW x, x = Bundle(root, inst, Len(A), Len(S))
  PROVE  /\ Fits(x)' /\ Hosted(x)' /\ (Preset = <<>> => Slotted(x)')
         /\ \A p \in x.panes : ~(p < nextPane)
         /\ \A p \in Pane : session'[p] = session[p] \/ p \in Tabs(x)
<1> DEFINE ts == A \o S
           nA == Len(A)
           nS == Len(S)
<1>1. /\ nA \in Nat /\ nS \in Nat /\ ts \in Seq(TabSet) /\ Len(ts) = nA + nS
      /\ \A i \in 1..nA : ts[i] = A[i] /\ A[i] \in TabSet /\ i \in 1..Len(ts)
      /\ \A i \in 1..nS : ts[nA + i] = S[i] /\ S[i] \in TabSet /\ nA + i \in 1..Len(ts)
  OBVIOUS
<1>2. \A i \in 1..Len(ts) : i \in 1..nA \/ (i - nA \in 1..nS /\ i = nA + (i - nA))
  BY <1>1
<1> x = Bundle(root, inst, nA, nS)
  OBVIOUS
<1> HIDE DEF nA, nS
<1>3. /\ x.root = root /\ x.inst = inst
      /\ Len(x.agents) = nA /\ \A i \in 1..nA : x.agents[i] = PaneAt(i)
      /\ Len(x.shells) = nS /\ \A i \in 1..nS : x.shells[i] = PaneAt(nA + i)
      /\ \A p : p \in ToSet(x.agents) <=> \E i \in 1..nA : p = PaneAt(i)
      /\ \A p : p \in ToSet(x.shells) <=> \E i \in 1..nS : p = PaneAt(nA + i)
      /\ x.panes = nextPane..(nextPane + nA + nS - 1)
  <2>1. Numbered(x, root, inst, nA, nS)
    BY <1>1, BundlePanes
  <2> QED
    BY <2>1 DEF Numbered
<1>4. /\ nextPane' = nextPane + Len(ts) /\ nextPane \in Nat
      /\ \A i \in 1..Len(ts) :
           /\ PaneAt(i) \in Pane
           /\ session'[PaneAt(i)] = KeyOf(root, inst, ts[i])
           /\ agentOf'[PaneAt(i)] = ts[i].agent
           /\ ts[i].kind = "agent" => slotOf'[PaneAt(i)] = ts[i].n
      /\ \A p \in Pane : \/ \E i \in 1..Len(ts) : p = PaneAt(i)
                         \/ session'[p] = session[p]
  <2>1. nextPane \in Nat
    BY DEF MapsInv
  <2>2. Build(root, inst, ts)
    OBVIOUS
  <2> HIDE DEF ts
  <2>3. ts \in Seq(TabSet)
    BY <1>1
  <2>4. /\ nextPane' = nextPane + Len(ts)
        /\ \A i \in 1..Len(ts) :
             /\ PaneAt(i) \in Pane /\ PaneAt(i) < nextPane' /\ ~(PaneAt(i) < nextPane)
             /\ session'[PaneAt(i)] = KeyOf(root, inst, ts[i])
             /\ agentOf'[PaneAt(i)] = ts[i].agent
             /\ ts[i].kind = "agent" => slotOf'[PaneAt(i)] = ts[i].n
        /\ \A p \in Pane : \/ \E i \in 1..Len(ts) : p = PaneAt(i)
                           \/ session'[p] = session[p]
    BY <2>2, <2>3, BuildMaps, Zenon
  <2> QED
    BY <2>1, <2>4, Zenon
<1> HIDE DEF ts
<1>5. \A i, j \in 1..Len(ts) : PaneAt(i) = PaneAt(j) => i = j
  BY <1>4 DEF PaneAt
<1>6. ASSUME NEW i \in 1..Len(ts) PROVE PaneAt(i) \in x.panes
  <2>1. nextPane \in Nat /\ i \in 1..(nA + nS) /\ nA + nS \in Nat
    BY <1>1, <1>4
  <2>2. nextPane + i - 1 \in nextPane..(nextPane + nA + nS - 1)
    BY <1>1, <2>1
  <2> QED
    BY <1>3, <2>2 DEF PaneAt
<1>7. \A p \in x.panes : ~(p < nextPane) /\ p < nextPane'
  BY <1>1, <1>3, <1>4, SMTT(20)
<1>8. \A i \in 1..nA, j \in 1..nS : PaneAt(i) # PaneAt(nA + j)
  <2>1. \A i \in 1..nA, j \in 1..nS : i # nA + j /\ i \in 1..Len(ts) /\ nA + j \in 1..Len(ts)
    BY <1>1
  <2> QED
    BY <1>5, <2>1
<1>9. Fits(x)'
  <2>1. ASSUME NEW p \in Tabs(x) PROVE p \in x.panes
    <3>1. (\E i \in 1..nA : p = PaneAt(i)) \/ (\E i \in 1..nS : p = PaneAt(nA + i))
      BY <1>3, <2>1 DEF Tabs
    <3> QED
      BY <1>1, <1>6, <3>1
  <2>2. \A i, j \in 1..nA : x.agents[i] = x.agents[j] => i = j
    BY <1>1, <1>3, <1>5
  <2>3. ASSUME NEW i \in 1..nS, NEW j \in 1..nS, x.shells[i] = x.shells[j] PROVE i = j
    <3>1. PaneAt(nA + i) = PaneAt(nA + j) /\ nA + i \in 1..Len(ts) /\ nA + j \in 1..Len(ts)
      BY <1>1, <1>3, <2>3
    <3>2. nA + i = nA + j
      BY <1>5, <3>1
    <3> QED
      BY <1>1, <3>2
  <2>4. ToSet(x.agents) \cap ToSet(x.shells) = {}
    BY <1>3, <1>8
  <2> QED
    <3>1. Len(x.agents) > 0
      BY <1>3 DEF AgentList, nA
    <3> QED
      BY <1>3, <1>7, <2>1, <2>2, <2>3, <2>4, <3>1 DEF Fits, Tabs, Once
<1>10. Hosted(x)'
  <2>1. ASSUME NEW p \in ToSet(x.shells) PROVE session'[p] # NoKey
    <3>1. PICK i \in 1..nS : p = PaneAt(nA + i)
      BY <1>3, <2>1
    <3>2. ts[nA + i] \in TabSet /\ ts[nA + i].kind # "picker" /\ nA + i \in 1..Len(ts)
      BY <1>1 DEF nS
    <3> QED
      BY <1>4, <3>1, <3>2, KeyIsKey
  <2>2. ASSUME NEW p \in ToSet(x.agents)
        PROVE  IF agentOf'[p] = NoAgent THEN session'[p] = NoKey /\ Len(x.agents) = 1
               ELSE session'[p] # NoKey
    <3>0. PICK i \in 1..nA : p = PaneAt(i)
      BY <1>3, <2>2
    <3>1. /\ session'[p] = KeyOf(root, inst, A[i]) /\ agentOf'[p] = A[i].agent
          /\ A[i] \in TabSet
      BY <1>1, <1>4, <3>0
    <3>2. CASE A = <<Picker>>
      <4>1. nA = 1 /\ i = 1 /\ A[i] = Picker /\ Picker.kind = "picker" /\ Picker.agent = NoAgent
        BY <3>2 DEF nA, Picker
      <4>2. KeyOf(root, inst, A[i]) = NoKey
        BY <4>1 DEF KeyOf
      <4> QED
        BY <1>3, <3>1, <4>1, <4>2
    <3>3. CASE A[i].kind = "agent"
      <4>1. A[i].agent # NoAgent
        BY <3>1, <3>3, TabKinds, BenchAssumption DEF BenchAssumption
      <4>2. KeyOf(root, inst, A[i]) # NoKey
        BY <3>1, <3>3, KeyIsKey
      <4> QED
        BY <3>1, <4>1, <4>2
    <3> QED
      BY <3>2, <3>3 DEF AgentList, nA
  <2> QED
    BY <2>1, <2>2 DEF Hosted
<1>11. ASSUME Preset = <<>> PROVE Slotted(x)'
  <2> SUFFICES ASSUME NEW p \in ToSet(x.agents), agentOf'[p] # NoAgent
               PROVE  /\ slotOf'[p] \in Nat
                      /\ session'[p] = KeyOf(x.root, x.inst, AgentTab(agentOf'[p], slotOf'[p]))
                      /\ \A q \in ToSet(x.agents) :
                           agentOf'[q] = agentOf'[p] /\ slotOf'[q] = slotOf'[p] => q = p
    BY DEF Slotted
  <2>0. PICK i \in 1..nA : p = PaneAt(i)
    BY <1>3
  <2>1. A # <<Picker>>
    <3> SUFFICES ASSUME A = <<Picker>> PROVE FALSE
      OBVIOUS
    <3>1. A[i] = Picker /\ Picker.agent = NoAgent
      BY DEF nA, Picker
    <3>2. agentOf'[p] = A[i].agent
      BY <1>1, <1>4, <2>0
    <3> QED
      BY <3>1, <3>2
  <2>2. \A j \in 1..nA : A[j].kind = "agent"
    BY <2>1 DEF AgentList, nA
  <2>3. ASSUME NEW j \in 1..nA PROVE agentOf'[PaneAt(j)] = A[j].agent /\ slotOf'[PaneAt(j)] = A[j].n
    <3>1. j \in 1..Len(ts) /\ ts[j] = A[j]
      BY <1>1
    <3> QED
      BY <1>4, <2>2, <3>1
  <2>4. A[i].n \in Nat /\ \A j \in 1..nA : A[i].agent = A[j].agent /\ A[i].n = A[j].n => i = j
    BY <1>11, <2>2 DEF AgentList, nA
  <2>5. KeyOf(root, inst, A[i]) = KeyOf(root, inst, AgentTab(A[i].agent, A[i].n))
    BY <2>2 DEF KeyOf, AgentTab
  <2>6. session'[p] = KeyOf(root, inst, A[i])
    BY <1>1, <1>4, <2>0
  <2>7. ASSUME NEW q \in ToSet(x.agents), agentOf'[q] = agentOf'[p], slotOf'[q] = slotOf'[p]
        PROVE  q = p
    <3>1. PICK j \in 1..nA : q = PaneAt(j)
      BY <1>3
    <3>2. A[i].agent = A[j].agent /\ A[i].n = A[j].n
      BY <2>0, <2>3, <2>7, <3>1
    <3> QED
      BY <2>0, <2>4, <3>1, <3>2
  <2>8. agentOf'[p] = A[i].agent /\ slotOf'[p] = A[i].n
    BY <2>0, <2>3
  <2> QED
    BY <1>3, <2>4, <2>5, <2>6, <2>7, <2>8
<1>12. ASSUME NEW p \in Pane PROVE session'[p] = session[p] \/ p \in Tabs(x)
  <2>1. ASSUME NEW i \in 1..Len(ts) PROVE PaneAt(i) \in Tabs(x)
    <3>1. PaneAt(i) \in ToSet(x.agents) \/ PaneAt(i) \in ToSet(x.shells)
      BY <1>2, <1>3
    <3> QED
      BY <3>1 DEF Tabs
  <2> QED
    BY <1>4, <2>1
<1> QED
  BY <1>7, <1>9, <1>10, <1>11, <1>12

\* Every workspace is one of the records the bundles are.
LEMMA BundlesSound == PlaceInv => \A b \in Bundles : b \in Sound /\ b.panes \in SUBSET Pane
BY InList DEF PlaceInv, Placed, Bundles, Sound, BundleType

\* A workspace that opens brings tabs of its own, and leaves those of the
\* others as they were.
LEMMA GrowTabs ==
  ASSUME BenchInv, NEW root \in Root, NEW inst \in Nat,
         NEW A \in Seq(TabSet), AgentList(A),
         NEW S \in Seq(TabSet), \A i \in 1..Len(S) : S[i].kind = "shell",
         Build(root, inst, A \o S),
         NEW x, x = Bundle(root, inst, Len(A), Len(S)),
         Bundles' = Bundles \cup {x}, refused' = refused, nextInst' \in Nat \ {0}
  PROVE  TabsInv' /\ MapsInv'
<1> USE DEF BenchInv
<1>1. /\ Fits(x)' /\ Hosted(x)' /\ (Preset = <<>> => Slotted(x)')
      /\ \A p \in x.panes : ~(p < nextPane)
      /\ \A p \in Pane : session'[p] = session[p] \/ p \in Tabs(x)
  BY NewTabs
<1> DEFINE ts == A \o S
<1>2. ts \in Seq(TabSet) /\ Build(root, inst, ts)
  OBVIOUS
<1> HIDE DEF ts
<1>3. /\ session' \in [Pane -> SessionKey \cup {NoKey}] /\ agentOf' \in [Pane -> Agent \cup {NoAgent}]
      /\ slotOf' \in [Pane -> Nat \cup {NoSlot}] /\ number' \in [Pane -> Nat]
      /\ nextPane' = nextPane + Len(ts) /\ nextPane' \in 1..(MaxPanes + 1)
      /\ \A p \in Pane : p < nextPane =>
           /\ session'[p] = session[p] /\ agentOf'[p] = agentOf[p] /\ slotOf'[p] = slotOf[p]
  BY <1>2, BuildMaps
<1>4. nextPane \in Nat /\ nextPane' \in Nat /\ nextPane <= nextPane'
  BY <1>2, <1>3, BenchAssumption DEF MapsInv, BenchAssumption
<1>5. MapsInv'
  BY <1>3 DEF MapsInv
<1>6. ASSUME NEW b \in Bundles
      PROVE  /\ Fits(b)' /\ Hosted(b)' /\ (Preset = <<>> => Slotted(b)')
             /\ \A p \in b.panes : p < nextPane
  <2>1. b \in Sound /\ b.panes \in SUBSET Pane
    BY BundlesSound
  <2>2. Fits(b) /\ Hosted(b) /\ (Preset = <<>> => Slotted(b))
    BY DEF TabsInv
  <2>3. \A p \in b.panes : p < nextPane
    BY <2>2 DEF Fits
  <2>4. \A p \in b.panes : session'[p] = session[p] /\ agentOf'[p] = agentOf[p] /\ slotOf'[p] = slotOf[p]
    BY <1>3, <2>1, <2>3
  <2> QED
    BY <1>4, <2>1, <2>2, <2>3, <2>4, Untouched
<1>7. \A b \in Bundles' : Fits(b)' /\ Hosted(b)' /\ (Preset = <<>> => Slotted(b)')
  BY <1>1, <1>6
<1>8. ASSUME NEW b \in Bundles', NEW c \in Bundles', b # c PROVE b.panes \cap c.panes = {}
  <2>1. \A d \in Bundles : d.panes \cap x.panes = {}
    BY <1>1, <1>6
  <2>2. CASE b \in Bundles /\ c \in Bundles
    BY <1>8, <2>2 DEF TabsInv
  <2>3. CASE b = x \/ c = x
    BY <1>8, <2>1, <2>3
  <2> QED
    BY <2>2, <2>3
<1>9. ASSUME NEW p \in Pane, session'[p] # NoKey
      PROVE  p \in refused' \/ \E b \in Bundles' : p \in Tabs(b)
  <2>1. CASE p \in Tabs(x)
    BY <2>1
  <2>2. CASE session'[p] = session[p]
    BY <1>9, <2>2 DEF TabsInv
  <2> QED
    BY <1>1, <2>1, <2>2
<1> QED
  BY <1>5, <1>7, <1>8, <1>9 DEF TabsInv

\* The tabs a workspace opens with if its agents are remembered.
LEMMA AgentTabsFit ==
  ASSUME NEW r \in Seq(TabSet), r = <<>> \/ AgentList(r)
  PROVE  AgentTabs(r) \in Seq(TabSet) /\ AgentList(AgentTabs(r))
<1>1. Preset \in Seq(Agent)
  BY BenchAssumption DEF BenchAssumption
<1>2. CASE Preset # <<>>
  <2> DEFINE e(i) == PresetTab(i)
             ts == [i \in 1..Len(Preset) |-> e(i)]
  <2>1. AgentTabs(r) = ts /\ Len(Preset) \in Nat
    BY <1>1, <1>2 DEF AgentTabs
  <2>2. \A i \in 1..Len(Preset) : e(i) \in TabSet /\ e(i).kind = "agent"
    <3>1. \A i \in 1..Len(Preset) : Preset[i] \in Agent
      BY <1>1
    <3>2. \A a \in Agent : AgentTab(a, NoSlot) \in TabSet
      BY DEF TabSet
    <3>3. \A a : AgentTab(a, NoSlot).kind = "agent"
      BY DEF AgentTab
    <3> QED
      BY <3>1, <3>2, <3>3 DEF PresetTab
  <2> HIDE DEF e
  <2>3. ts \in Seq(TabSet) /\ Len(ts) = Len(Preset) /\ \A i \in 1..Len(Preset) : ts[i] = e(i)
    BY <2>1, <2>2
  <2> HIDE DEF ts
  <2> QED
    BY <1>2, <2>1, <2>2, <2>3 DEF AgentList
<1>3. CASE Preset = <<>> /\ r = <<>>
  <2>1. AgentTabs(r) = <<Picker>> /\ Picker \in TabSet /\ Picker.kind # "agent"
    BY <1>3 DEF AgentTabs, TabSet, Picker
  <2>2. <<Picker>> \in Seq(TabSet) /\ Len(<<Picker>>) = 1 /\ <<Picker>>[1] = Picker
    BY <2>1
  <2> QED
    BY <2>1, <2>2 DEF AgentList
<1>4. CASE Preset = <<>> /\ r # <<>>
  BY <1>4 DEF AgentTabs
<1> QED
  BY <1>2, <1>3, <1>4

LEMMA ShellFits ==
  /\ <<ShellTab(1)>> \in Seq(TabSet) /\ Len(<<ShellTab(1)>>) = 1
  /\ \A i \in 1..Len(<<ShellTab(1)>>) : <<ShellTab(1)>>[i].kind = "shell"
<1>1. ShellTab(1) \in TabSet /\ ShellTab(1).kind = "shell"
  BY DEF TabSet, ShellTab
<1> QED
  BY <1>1

\* A workspace under a root and an instance of its own may be inserted.
LEMMA InsertsIdentified ==
  ASSUME BenchInv, NEW new, NEW l, Inserts(new, l), new.root \in Root, new.inst \in Nat,
         \A i \in 1..Len(order) : ~(order[i] = new.root /\ instances[i] = new.inst),
         nextInst' \in Nat, nextInst <= nextInst', new.inst < nextInst'
  PROVE  IdInv'
<1>1. /\ order \in Seq(Root) /\ instances \in Seq(Nat) /\ Len(order) = Len(instances)
      /\ l \in 1..(Len(order) + 1) /\ nextInst \in Nat /\ Len(order) \in Nat
      /\ order' = InsertAt(order, l, new.root) /\ instances' = InsertAt(instances, l, new.inst)
  BY Places DEF BenchInv, Inserts, MapsInv
<1>2. Paired(order, instances) /\ \A i \in 1..Len(instances) : instances[i] < nextInst
  BY DEF BenchInv, IdInv
<1>3. Paired(order', instances')
  BY <1>1, <1>2, InsertPaired
<1>4. \A i \in 1..Len(instances') : instances'[i] < nextInst'
  <2>1. Len(instances) + 1 \in Nat /\ l \in 1..(Len(instances) + 1)
    BY <1>1
  <2>2. Inserted(Nat, instances, l, new.inst, Len(instances) + 1, instances')
    BY <1>1, <2>1, InsertAtLen
  <2>3. /\ Len(instances') = Len(instances) + 1
        /\ \A j \in 1..(Len(instances) + 1) :
             instances'[j] = IF j < l THEN instances[j] ELSE IF j = l THEN new.inst ELSE instances[j - 1]
    BY <2>2 DEF Inserted
  <2>4. \A i \in 1..Len(instances) : instances[i] \in Nat /\ instances[i] < nextInst'
    BY <1>1, <1>2
  <2> SUFFICES ASSUME NEW j \in 1..(Len(instances) + 1) PROVE instances'[j] < nextInst'
    BY <2>3
  <2>5. CASE j < l
    BY <1>1, <2>1, <2>3, <2>4, <2>5
  <2>6. CASE j = l
    BY <2>3, <2>6
  <2>7. CASE j > l
    <3>1. j - 1 \in 1..Len(instances) /\ instances'[j] = instances[j - 1]
      BY <1>1, <2>1, <2>3, <2>7
    <3> QED
      BY <2>4, <3>1
  <2> QED
    BY <1>1, <2>1, <2>5, <2>6, <2>7
<1> QED
  BY <1>3, <1>4 DEF IdInv

\* Opening a directory.
LEMMA OpenKeepsTabs ==
  ASSUME BenchInv, NEW root \in Root, OpenWorkspace(root), root \notin ToSet(order)
  PROVE  MapsInv' /\ IdInv' /\ TabsInv'
<1>1. PICK x : x = Bundle(root, 0, Len(FreshAgents), 1)
  OBVIOUS
<1>2. /\ Build(root, 0, FreshTabs) /\ Inserts(x, Len(order) + 1) /\ x.root = root /\ x.inst = 0
      /\ UNCHANGED <<nextInst, refused>>
  BY <1>1, OpenInserts DEF BenchInv
<1>3. nextInst \in Nat \ {0} /\ order \in Seq(Root)
  BY Places DEF BenchInv, MapsInv
<1>4. \A i \in 1..Len(order) : order[i] # root
  BY <1>3, Elements
<1>5. IdInv'
  BY <1>2, <1>3, <1>4, InsertsIdentified
<1>6. Bundles' = Bundles \cup {x}
  BY <1>2, InsertBundles DEF BenchInv
<1> DEFINE A == FreshAgents
           S == <<ShellTab(1)>>
<1>7. A \in Seq(TabSet) /\ AgentList(A)
  <2>1. <<>> \in Seq(TabSet)
    OBVIOUS
  <2> QED
    BY <2>1, AgentTabsFit DEF FreshAgents
<1>8. S \in Seq(TabSet) /\ Len(S) = 1 /\ \A i \in 1..Len(S) : S[i].kind = "shell"
  BY ShellFits
<1>9. Build(root, 0, A \o S)
  BY <1>2 DEF FreshTabs
<1>10. x = Bundle(root, 0, Len(A), Len(S)) /\ 0 \in Nat /\ refused' = refused /\ nextInst' \in Nat \ {0}
  BY <1>1, <1>2, <1>3, <1>8
<1> HIDE DEF A, S
<1> QED
  BY <1>5, <1>6, <1>7, <1>8, <1>9, <1>10, GrowTabs

\* The tabs of a copy are the agents and the shells of the original.
LEMMA CopiesFit ==
  ASSUME BenchInv, NEW k \in 0..Len(bench.shells),
         NEW kept \in [1..k -> {p \in ToSet(bench.shells) : number[p] # 0}]
  PROVE  /\ CopiedAgents \in Seq(TabSet) /\ AgentList(CopiedAgents)
         /\ CopiedShells(k, kept) \in Seq(TabSet)
         /\ \A i \in 1..Len(CopiedShells(k, kept)) : CopiedShells(k, kept)[i].kind = "shell"
<1>1. /\ bench.agents \in Seq(Pane) /\ bench.shells \in Seq(Pane) /\ bench \in Bundles
      /\ agentOf \in [Pane -> Agent \cup {NoAgent}] /\ slotOf \in [Pane -> Nat \cup {NoSlot}]
      /\ number \in [Pane -> Nat]
  BY BenchFields DEF BenchInv, MapsInv, Bundles
<1> DEFINE s == bench.agents
           e(i) == AgentTab(agentOf[bench.agents[i]], slotOf[bench.agents[i]])
           r == [i \in 1..Len(Agents(bench)) |-> e(i)]
<1>2. r \in Seq(TabSet) /\ (r = <<>> \/ AgentList(r))
  <2>1. CASE Agents(bench) = <<>>
    <3>1. r = <<>>
      BY <2>1
    <3> HIDE DEF r
    <3> QED
      BY <3>1
  <2>2. CASE Agents(bench) # <<>>
    <3>1. Agents(bench) = s /\ \A p \in ToSet(s) : agentOf[p] # NoAgent
      BY <2>2 DEF Agents
    <3>2. \A i \in 1..Len(s) : s[i] \in Pane /\ s[i] \in ToSet(s) /\ agentOf[s[i]] \in Agent
      BY <1>1, <3>1, InList
    <3>3. \A i \in 1..Len(s) : e(i) \in TabSet
      <4>1. \A a \in Agent, n \in Nat \cup {NoSlot} : AgentTab(a, n) \in TabSet
        BY DEF TabSet
      <4> QED
        BY <1>1, <3>2, <4>1
    <3>4. \A i \in 1..Len(s) : /\ e(i).kind = "agent" /\ e(i).agent = agentOf[s[i]]
                               /\ e(i).n = slotOf[s[i]]
      BY DEF AgentTab
    <3>5. Len(s) \in Nat /\ r = [i \in 1..Len(s) |-> e(i)]
      BY <1>1, <3>1
    <3> HIDE DEF e, r
    <3>6. r \in Seq(TabSet) /\ Len(r) = Len(s) /\ \A i \in 1..Len(s) : r[i] = e(i)
      BY <3>3, <3>5
    <3>7. ASSUME Preset = <<>>, NEW i \in 1..Len(s)
          PROVE  /\ slotOf[s[i]] \in Nat
                 /\ \A j \in 1..Len(s) : agentOf[s[i]] = agentOf[s[j]] /\ slotOf[s[i]] = slotOf[s[j]] => i = j
      <4>1. Slotted(bench) /\ Once(s)
        BY <1>1, <3>7 DEF BenchInv, TabsInv, Fits
      <4>2. /\ slotOf[s[i]] \in Nat
            /\ \A q \in ToSet(s) : agentOf[q] = agentOf[s[i]] /\ slotOf[q] = slotOf[s[i]] => q = s[i]
        BY <3>1, <3>2, <4>1 DEF Slotted
      <4> QED
        BY <3>2, <4>1, <4>2 DEF Once
    <3> HIDE DEF s
    <3> QED
      BY <3>4, <3>6, <3>7 DEF AgentList
  <2> QED
    BY <2>1, <2>2
<1> HIDE DEF r
<1>3. CopiedAgents \in Seq(TabSet) /\ AgentList(CopiedAgents)
  <2>1. CopiedAgents = AgentTabs(r)
    BY DEF CopiedAgents, r
  <2> QED
    BY <1>2, <2>1, AgentTabsFit
<1>4. CASE k = 0
  BY <1>3, <1>4, ShellFits DEF CopiedShells
<1>5. CASE k # 0
  <2> DEFINE f(i) == ShellTab(number[kept[i]])
             c == CopiedShells(k, kept)
  <2>1. c = [i \in 1..k |-> f(i)] /\ k \in Nat
    BY <1>1, <1>5 DEF CopiedShells
  <2>2. \A i \in 1..k : number[kept[i]] \in Nat
    BY <1>1, InList
  <2>3. \A i \in 1..k : f(i) \in TabSet /\ f(i).kind = "shell"
    <3>1. \A n \in Nat : ShellTab(n) \in TabSet
      BY DEF TabSet
    <3>2. \A n : ShellTab(n).kind = "shell"
      BY DEF ShellTab
    <3> QED
      BY <2>2, <3>1, <3>2
  <2> HIDE DEF f, c
  <2>4. c \in Seq(TabSet) /\ Len(c) = k /\ \A i \in 1..k : c[i] = f(i)
    BY <2>1, <2>3
  <2>5. c \in Seq(TabSet) /\ \A i \in 1..Len(c) : c[i].kind = "shell"
    BY <2>3, <2>4
  <2> QED
    BY <1>3, <2>5 DEF c
<1> QED
  BY <1>4, <1>5

\* Duplicating a workspace: the copy has an instance nobody has had.
LEMMA DuplicateKeepsTabs ==
  ASSUME BenchInv, DuplicateWorkspace
  PROVE  MapsInv' /\ IdInv' /\ TabsInv'
<1>0. PICK k \in 0..Len(bench.shells) :
        \E kept \in [1..k -> {p \in ToSet(bench.shells) : number[p] # 0}] : Duplicate(k, kept)
  BY DEF DuplicateWorkspace
<1>1. PICK kept \in [1..k -> {p \in ToSet(bench.shells) : number[p] # 0}] : Duplicate(k, kept)
  BY <1>0
<1> DEFINE A == CopiedAgents
           S == CopiedShells(k, kept)
<1>2. PICK x : x = Bundle(bench.root, nextInst, Len(A), Len(S))
  OBVIOUS
<1>3. /\ Build(bench.root, nextInst, A \o S) /\ Inserts(x, active + 1)
      /\ x.root = bench.root /\ x.inst = nextInst /\ nextInst' = nextInst + 1
  BY <1>1, <1>2, DuplicateInserts DEF BenchInv
<1>4. /\ A \in Seq(TabSet) /\ AgentList(A)
      /\ S \in Seq(TabSet) /\ \A i \in 1..Len(S) : S[i].kind = "shell"
  BY CopiesFit
<1> HIDE DEF A, S
<1>5. /\ nextInst \in Nat \ {0} /\ nextInst' \in Nat \ {0} /\ nextInst < nextInst'
      /\ bench.root \in Root /\ refused' = refused
  BY <1>3, BenchFields DEF BenchInv, MapsInv, DuplicateWorkspace
<1>6. \A i \in 1..Len(order) : instances[i] # nextInst
  BY <1>5, Places DEF BenchInv, IdInv
<1>7. nextInst' \in Nat /\ nextInst <= nextInst' /\ x.inst < nextInst' /\ x.inst \in Nat
  BY <1>3, <1>5
<1>8. IdInv'
  BY <1>3, <1>5, <1>6, <1>7, InsertsIdentified
<1>9. Bundles' = Bundles \cup {x}
  BY <1>3, InsertBundles DEF BenchInv
<1>10. nextInst \in Nat
  BY <1>5
<1> QED
  BY <1>2, <1>3, <1>4, <1>5, <1>8, <1>9, <1>10, GrowTabs

\* A switch changes no tab.
LEMMA ActivateKeepsTabs ==
  ASSUME BenchInv, NEW i, ActivateWorkspace(i)
  PROVE  MapsInv' /\ IdInv' /\ TabsInv'
<1>1. Bundles' = Bundles
  BY ActivateBundles DEF BenchInv
<1>2. UNCHANGED <<order, instances, session, agentOf, slotOf, number, nextPane, nextInst, refused>>
  BY DEF ActivateWorkspace
<1>3. MapsInv' /\ IdInv'
  BY <1>2 DEF BenchInv, MapsInv, IdInv, Paired
<1>4. \A b : (Fits(b)' <=> Fits(b)) /\ (Hosted(b)' <=> Hosted(b)) /\ (Slotted(b)' <=> Slotted(b))
  BY <1>2 DEF Fits, Hosted, Slotted
<1>5. \A b \in Bundles' : Fits(b)' /\ Hosted(b)' /\ (Preset = <<>> => Slotted(b)')
  BY <1>1, <1>4 DEF BenchInv, TabsInv
<1>6. \A b, c \in Bundles' : b # c => b.panes \cap c.panes = {}
  BY <1>1 DEF BenchInv, TabsInv
<1>7. \A p \in Pane : session'[p] # NoKey => p \in refused' \/ \E b \in Bundles' : p \in Tabs(b)
  BY <1>1, <1>2 DEF BenchInv, TabsInv
<1> QED
  BY <1>3, <1>5, <1>6, <1>7 DEF TabsInv

\* Closing a workspace leaves the maps and the names of the others in order.
LEMMA CloseKeepsNames ==
  ASSUME BenchInv, NEW l, CloseWorkspace(l)
  PROVE  MapsInv' /\ IdInv'
<1>1. /\ order \in Seq(Root) /\ instances \in Seq(Nat) /\ Len(order) = Len(instances)
      /\ l \in 1..Len(order) /\ Len(order) \in Nat
      /\ order' = RemoveAt(order, l) /\ instances' = RemoveAt(instances, l)
      /\ UNCHANGED <<slotOf, number, nextPane, nextInst>>
  BY Places DEF BenchInv, CloseWorkspace
<1>2. Paired(order, instances) /\ \A i \in 1..Len(instances) : instances[i] < nextInst
  BY DEF BenchInv, IdInv
<1>3. Paired(order', instances')
  BY <1>1, <1>2, RemovePaired
<1>4. /\ Len(instances') = Len(instances) - 1
      /\ \A j \in 1..(Len(instances) - 1) : instances'[j] = IF j < l THEN instances[j] ELSE instances[j + 1]
  BY <1>1, RemoveAtSeq
<1>5. \A j \in 1..Len(instances') : instances'[j] < nextInst'
  <2> SUFFICES ASSUME NEW j \in 1..(Len(instances) - 1) PROVE instances'[j] < nextInst
    BY <1>1, <1>4
  <2>1. j \in 1..Len(instances) /\ j + 1 \in 1..Len(instances)
    BY <1>1
  <2> QED
    BY <1>2, <1>4, <2>1
<1>6. PICK x \in Bundles : Release(x) /\ refused' = refused \ x.panes
  BY CloseBundles DEF BenchInv
<1>7. MapsInv'
  BY <1>1, <1>6 DEF BenchInv, MapsInv, Release
<1> QED
  BY <1>3, <1>5, <1>7 DEF IdInv

\* An operation on the tabs of the active workspace, which may have new
\* panes, leaves the tabs of the others as they were.
LEMMA BenchTabs ==
  ASSUME BenchInv, UNCHANGED stash, nextPane' \in Nat, nextPane <= nextPane',
         \A p \in Pane : p < nextPane /\ p \notin bench.panes =>
           session'[p] = session[p] /\ agentOf'[p] = agentOf[p] /\ slotOf'[p] = slotOf[p],
         Fits(bench)', Hosted(bench)', Preset = <<>> => Slotted(bench)',
         \A p \in bench'.panes : p \in bench.panes \/ ~(p < nextPane),
         refused \subseteq refused',
         \A p \in Pane : session'[p] # NoKey =>
           p \in refused' \cup Tabs(bench)' \/ (session[p] # NoKey /\ p \notin Tabs(bench))
  PROVE  TabsInv'
<1> USE DEF BenchInv
<1>1. bench \notin ToSet(stash)
  BY Identified, Places DEF IdInv
<1>2. Bundles' = {bench'} \cup ToSet(stash)
  BY DEF Bundles
<1>3. ASSUME NEW b \in ToSet(stash)
      PROVE  /\ b \in Bundles /\ b.panes \cap bench.panes = {} /\ b.panes \in SUBSET Pane /\ b \in Sound
             /\ Fits(b) /\ Hosted(b) /\ (Preset = <<>> => Slotted(b))
             /\ \A p \in b.panes : p < nextPane
  <2>1. b \in Bundles /\ bench \in Bundles /\ b # bench
    BY <1>1 DEF Bundles
  <2>2. b \in Sound /\ b.panes \in SUBSET Pane
    BY <2>1, BundlesSound
  <2>3. Fits(b) /\ Hosted(b) /\ (Preset = <<>> => Slotted(b)) /\ b.panes \cap bench.panes = {}
    BY <2>1 DEF TabsInv
  <2> QED
    BY <2>1, <2>2, <2>3 DEF Fits
<1>4. nextPane \in Nat
  BY DEF MapsInv
<1>5. ASSUME NEW b \in ToSet(stash) PROVE Fits(b)' /\ Hosted(b)' /\ (Preset = <<>> => Slotted(b)')
  <2>1. \A p \in b.panes : session'[p] = session[p] /\ agentOf'[p] = agentOf[p] /\ slotOf'[p] = slotOf[p]
    BY <1>3
  <2> QED
    BY <1>3, <1>4, <2>1, Untouched
<1>6. \A b \in Bundles' : Fits(b)' /\ Hosted(b)' /\ (Preset = <<>> => Slotted(b)')
  <2>1. \A b : b = bench' => (Fits(b)' <=> Fits(bench)') /\ (Hosted(b)' <=> Hosted(bench)')
                             /\ (Slotted(b)' <=> Slotted(bench)')
    BY DEF Fits, Hosted, Slotted
  <2> QED
    BY <1>2, <1>5, <2>1
<1>7. ASSUME NEW b \in Bundles', NEW c \in Bundles', b # c PROVE b.panes \cap c.panes = {}
  <2>1. \A d \in ToSet(stash) : d.panes \cap bench'.panes = {}
    BY <1>3
  <2>2. CASE b \in ToSet(stash) /\ c \in ToSet(stash)
    BY <1>3, <1>7, <2>2 DEF TabsInv
  <2>3. CASE b = bench' \/ c = bench'
    BY <1>2, <1>7, <2>1, <2>3
  <2> QED
    BY <1>2, <2>2, <2>3
<1>8. ASSUME NEW p \in Pane, session'[p] # NoKey
      PROVE  p \in refused' \/ \E b \in Bundles' : p \in Tabs(b)
  <2>1. CASE p \in Tabs(bench)'
    BY <1>2, <2>1 DEF Tabs
  <2>2. CASE session[p] # NoKey /\ p \notin Tabs(bench)
    <3>1. p \in refused \/ \E b \in ToSet(stash) : p \in Tabs(b)
      BY <2>2 DEF TabsInv, Bundles
    <3> QED
      BY <1>2, <3>1
  <2> QED
    BY <1>8, <2>1, <2>2
<1> QED
  BY <1>6, <1>7, <1>8 DEF TabsInv

\* What the invariant says of the active workspace.
LEMMA BenchFits ==
  ASSUME BenchInv
  PROVE  /\ Fits(bench) /\ Hosted(bench) /\ (Preset = <<>> => Slotted(bench))
         /\ bench.panes \in SUBSET Pane /\ bench.agents \in Seq(Pane) /\ bench.shells \in Seq(Pane)
         /\ bench.root \in Root /\ bench.inst \in Nat
         /\ Tabs(bench) \subseteq bench.panes /\ (\A p \in bench.panes : p < nextPane)
         /\ nextPane \in Nat
<1>1. bench \in Bundles
  BY DEF Bundles
<1>2. nextPane \in Nat
  BY DEF BenchInv, MapsInv
<1> QED
  BY <1>1, <1>2, BenchFields DEF BenchInv, TabsInv, Fits

\* Closing a shell.
LEMMA CloseShellKeepsTabs ==
  ASSUME BenchInv, NEW i \in 1..Len(bench.shells), CloseShell(i)
  PROVE  TabsInv'
<1> DEFINE s == bench.shells
           rest == RemoveAt(s, i)
           c == s[i]
<1>1. /\ UNCHANGED <<stash, slotOf, nextPane, refused>>
      /\ session' = [session EXCEPT ![c] = NoKey] /\ agentOf' = [agentOf EXCEPT ![c] = NoAgent]
  BY DEF CloseShell, DropPane, spaces
<1>2. /\ bench'.agents = bench.agents /\ bench'.shells = rest
      /\ bench'.panes = bench.panes \ {c} /\ bench'.root = bench.root /\ bench'.inst = bench.inst
  BY BenchFields DEF CloseShell, BenchInv, BundleType
<1>3. /\ Fits(bench) /\ Hosted(bench) /\ (Preset = <<>> => Slotted(bench)) /\ s \in Seq(Pane)
      /\ Tabs(bench) \subseteq bench.panes /\ bench.panes \in SUBSET Pane
      /\ \A p \in bench.panes : p < nextPane
  BY BenchFits
<1>4. session \in [Pane -> SessionKey \cup {NoKey}] /\ agentOf \in [Pane -> Agent \cup {NoAgent}] /\ nextPane \in Nat
  BY BenchFits DEF BenchInv, MapsInv
<1>5. Once(s) /\ Once(bench.agents) /\ ToSet(bench.agents) \cap ToSet(s) = {}
  BY <1>3 DEF Fits
<1>6. Once(rest) /\ ToSet(rest) = ToSet(s) \ {c} /\ c \in ToSet(s)
  BY <1>3, <1>5, RemoveAtSet, InList
<1> HIDE DEF s, rest, c
<1>7. \A p \in Pane : p # c => session'[p] = session[p] /\ agentOf'[p] = agentOf[p]
  BY <1>1, <1>4
<1>8. c \in bench.panes /\ c \in Pane /\ session'[c] = NoKey
  BY <1>1, <1>3, <1>4, <1>6 DEF Tabs, s
<1>9. \A p \in ToSet(bench.agents) : p # c /\ p \in Pane
  BY <1>3, <1>5, <1>6 DEF Tabs
<1>10. \A p \in ToSet(rest) : p # c /\ p \in Pane /\ p \in ToSet(s)
  BY <1>3, <1>6 DEF Tabs, s
<1>11. Fits(bench)'
  <2>1. Tabs(bench') \subseteq bench'.panes
    BY <1>2, <1>3, <1>6, <1>9 DEF Tabs, s
  <2>2. ToSet(bench.agents) \cap ToSet(rest) = {}
    BY <1>5, <1>6
  <2> QED
    BY <1>1, <1>2, <1>3, <1>5, <1>6, <2>1, <2>2 DEF Fits, Tabs
<1>12. Hosted(bench)'
  BY <1>2, <1>3, <1>7, <1>9, <1>10 DEF Hosted, s
<1>13. Preset = <<>> => Slotted(bench)'
  BY <1>1, <1>2, <1>3, <1>7, <1>9 DEF Slotted
<1>14. \A p \in Pane : session'[p] # NoKey => session[p] # NoKey /\ p # c
  BY <1>7, <1>8
<1>15. \A p \in Pane : p # c => p \in Tabs(bench)' \/ p \notin Tabs(bench)
  BY <1>2, <1>6 DEF Tabs, s
<1>16. /\ \A p \in Pane : p < nextPane /\ p \notin bench.panes =>
            session'[p] = session[p] /\ agentOf'[p] = agentOf[p] /\ slotOf'[p] = slotOf[p]
       /\ \A p \in bench'.panes : p \in bench.panes
  BY <1>1, <1>2, <1>7, <1>8
<1> QED
  BY <1>1, <1>4, <1>11, <1>12, <1>13, <1>14, <1>15, <1>16, BenchTabs

\* Closing an agent.
LEMMA CloseAgentKeepsTabs ==
  ASSUME BenchInv, NEW i \in 1..Len(bench.agents), CloseAgent(i)
  PROVE  TabsInv'
<1> DEFINE s == bench.agents
           rest == RemoveAt(s, i)
           c == s[i]
<1>1. /\ UNCHANGED <<stash, slotOf, nextPane, refused>> /\ Len(s) > 1
      /\ session' = [session EXCEPT ![c] = NoKey] /\ agentOf' = [agentOf EXCEPT ![c] = NoAgent]
  BY DEF CloseAgent, DropPane, spaces
<1>2. /\ bench'.shells = bench.shells /\ bench'.agents = rest
      /\ bench'.panes = bench.panes \ {c} /\ bench'.root = bench.root /\ bench'.inst = bench.inst
  BY BenchFields DEF CloseAgent, BenchInv, BundleType
<1>3. /\ Fits(bench) /\ Hosted(bench) /\ (Preset = <<>> => Slotted(bench)) /\ s \in Seq(Pane)
      /\ Tabs(bench) \subseteq bench.panes /\ bench.panes \in SUBSET Pane
      /\ \A p \in bench.panes : p < nextPane
  BY BenchFits
<1>4. session \in [Pane -> SessionKey \cup {NoKey}] /\ agentOf \in [Pane -> Agent \cup {NoAgent}] /\ nextPane \in Nat
  BY BenchFits DEF BenchInv, MapsInv
<1>5. Once(s) /\ Once(bench.shells) /\ ToSet(s) \cap ToSet(bench.shells) = {}
  BY <1>3 DEF Fits
<1>6. Once(rest) /\ ToSet(rest) = ToSet(s) \ {c} /\ c \in ToSet(s)
  BY <1>3, <1>5, RemoveAtSet, InList
<1>18. Len(rest) > 0
  <2>1. s \in Seq(Pane) /\ Len(s) \in Nat
    BY <1>3
  <2>2. Len(rest) = Len(s) - 1
    BY <2>1, RemoveAtSeq
  <2> QED
    BY <1>1, <2>1, <2>2
<1>7. \A p \in ToSet(s) : agentOf[p] # NoAgent /\ session[p] # NoKey
  <2>1. Len(s) > 1 /\ s \in Seq(Pane)
    BY <1>1, <1>3
  <2>2. \A n \in Nat : n > 1 => n # 1
    OBVIOUS
  <2>3. Len(s) # 1
    BY <2>1, <2>2, LenProperties
  <2> QED
    BY <1>3, <2>3 DEF Hosted
<1> HIDE DEF s, rest, c
<1>8. \A p \in Pane : p # c => session'[p] = session[p] /\ agentOf'[p] = agentOf[p]
  BY <1>1, <1>4
<1>9. c \in bench.panes /\ c \in Pane /\ session'[c] = NoKey
  BY <1>1, <1>3, <1>4, <1>6 DEF Tabs, s
<1>10. \A p \in ToSet(bench.shells) : p # c /\ p \in Pane
  BY <1>3, <1>5, <1>6 DEF Tabs
<1>11. \A p \in ToSet(rest) : p # c /\ p \in Pane /\ p \in ToSet(s)
  BY <1>3, <1>6 DEF Tabs, s
<1>12. Fits(bench)'
  <2>1. Tabs(bench') \subseteq bench'.panes
    BY <1>2, <1>3, <1>6, <1>10 DEF Tabs, s
  <2>2. ToSet(rest) \cap ToSet(bench.shells) = {}
    BY <1>5, <1>6
  <2> QED
    BY <1>1, <1>2, <1>3, <1>5, <1>6, <1>18, <2>1, <2>2 DEF Fits, Tabs
<1>13. Hosted(bench)'
  <2>1. \A p \in ToSet(bench.shells) : session'[p] # NoKey
    BY <1>3, <1>8, <1>10 DEF Hosted
  <2>2. \A p \in ToSet(rest) : agentOf'[p] # NoAgent /\ session'[p] # NoKey
    BY <1>7, <1>8, <1>11
  <2> QED
    BY <1>2, <2>1, <2>2 DEF Hosted
<1>14. ASSUME Preset = <<>> PROVE Slotted(bench)'
  <2>1. \A p \in ToSet(rest) : session'[p] = session[p] /\ agentOf'[p] = agentOf[p] /\ p \in ToSet(bench.agents)
    BY <1>8, <1>11 DEF s
  <2>2. Slotted(bench)
    BY <1>3, <1>14
  <2> QED
    BY <1>1, <1>2, <2>1, <2>2 DEF Slotted
<1>15. \A p \in Pane : session'[p] # NoKey => session[p] # NoKey /\ p # c
  BY <1>8, <1>9
<1>16. \A p \in Pane : p # c => p \in Tabs(bench)' \/ p \notin Tabs(bench)
  BY <1>2, <1>6 DEF Tabs, s
<1>17. /\ \A p \in Pane : p < nextPane /\ p \notin bench.panes =>
            session'[p] = session[p] /\ agentOf'[p] = agentOf[p] /\ slotOf'[p] = slotOf[p]
       /\ \A p \in bench'.panes : p \in bench.panes
  BY <1>1, <1>2, <1>8, <1>9
<1> QED
  BY <1>1, <1>4, <1>12, <1>13, <1>14, <1>15, <1>16, <1>17, BenchTabs

\* Renaming a pane and focusing one leave the tabs and their sessions.
LEMMA PaneKeepsTabs ==
  ASSUME BenchInv, NEW p \in Pane \cup {LeftPane}, RenamePane(p) \/ FocusPane(p)
  PROVE  TabsInv'
<1>1. UNCHANGED <<stash, session, agentOf, slotOf, nextPane, refused>>
  BY DEF RenamePane, FocusPane, spaces
<1>2. /\ bench'.agents = bench.agents /\ bench'.shells = bench.shells /\ bench'.panes = bench.panes
      /\ bench'.root = bench.root /\ bench'.inst = bench.inst
  <2>1. CASE RenamePane(p)
    BY <2>1 DEF RenamePane
  <2>2. CASE FocusPane(p)
    BY <2>2, BenchFields DEF FocusPane, BenchInv, BundleType
  <2> QED
    BY <2>1, <2>2
<1>3. Fits(bench)' /\ Hosted(bench)' /\ (Preset = <<>> => Slotted(bench)')
  BY <1>1, <1>2, BenchFits DEF Fits, Hosted, Slotted, Tabs
<1>4. \A q \in Pane : session'[q] # NoKey => q \in Tabs(bench)' \/ (session[q] # NoKey /\ q \notin Tabs(bench))
  BY <1>1, <1>2 DEF Tabs
<1>5. nextPane \in Nat
  BY BenchFits
<1> QED
  BY <1>1, <1>2, <1>3, <1>4, <1>5, BenchTabs

\* What building one more tab does to the maps.
LEMMA BuildOne ==
  ASSUME MapsInv, NEW root \in Root, NEW inst \in Nat, NEW t \in TabSet, Build(root, inst, <<t>>)
  PROVE  /\ session' \in [Pane -> SessionKey \cup {NoKey}] /\ agentOf' \in [Pane -> Agent \cup {NoAgent}]
         /\ slotOf' \in [Pane -> Nat \cup {NoSlot}] /\ number' \in [Pane -> Nat]
         /\ nextPane' = nextPane + 1 /\ nextPane' \in 1..(MaxPanes + 1) /\ nextPane \in Pane
         /\ session'[nextPane] = KeyOf(root, inst, t) /\ agentOf'[nextPane] = t.agent
         /\ (t.kind = "agent" => slotOf'[nextPane] = t.n)
         /\ \A p \in Pane : p < nextPane =>
              /\ session'[p] = session[p] /\ agentOf'[p] = agentOf[p] /\ slotOf'[p] = slotOf[p]
         /\ \A p \in Pane : p = nextPane \/ session'[p] = session[p]
<1> DEFINE ts == <<t>>
<1>1. ts \in Seq(TabSet) /\ Len(ts) = 1 /\ ts[1] = t /\ Build(root, inst, ts)
  OBVIOUS
<1> HIDE DEF ts
<1>2. nextPane \in Nat
  BY DEF MapsInv
<1>3. /\ session' \in [Pane -> SessionKey \cup {NoKey}] /\ agentOf' \in [Pane -> Agent \cup {NoAgent}]
      /\ slotOf' \in [Pane -> Nat \cup {NoSlot}] /\ number' \in [Pane -> Nat]
      /\ nextPane' = nextPane + Len(ts) /\ nextPane' \in 1..(MaxPanes + 1)
      /\ \A i \in 1..Len(ts) :
           /\ PaneAt(i) \in Pane /\ PaneAt(i) < nextPane' /\ ~(PaneAt(i) < nextPane)
           /\ session'[PaneAt(i)] = KeyOf(root, inst, ts[i])
           /\ agentOf'[PaneAt(i)] = ts[i].agent
           /\ ts[i].kind = "agent" => slotOf'[PaneAt(i)] = ts[i].n
      /\ \A p \in Pane : p < nextPane =>
           /\ session'[p] = session[p] /\ agentOf'[p] = agentOf[p] /\ slotOf'[p] = slotOf[p]
      /\ \A p \in Pane : (\E i \in 1..Len(ts) : p = PaneAt(i)) \/ session'[p] = session[p]
  <2>1. ts \in Seq(TabSet)
    BY <1>1
  <2>2. Build(root, inst, ts)
    BY <1>1
  <2> QED
    BY <2>1, <2>2, BuildMaps, Zenon
<1>4. PaneAt(1) = nextPane /\ 1 \in 1..Len(ts) /\ \A i \in 1..Len(ts) : i = 1
  BY <1>1, <1>2 DEF PaneAt
<1> QED
  BY <1>1, <1>3, <1>4

\* The number of the next shell.
NextNumber == MaxOf({number[p] : p \in ToSet(bench.shells)} \cup {0}) + 1

\* There is a largest of the numbers of the shells, and the next one has no
\* shell.
LEMMA NumberChosen ==
  ASSUME BenchInv
  PROVE  /\ NextNumber \in Nat \ {0}
         /\ \A p \in ToSet(bench.shells) : number[p] # NextNumber
<1> DEFINE s == bench.shells
           S == {number[p] : p \in ToSet(s)} \cup {0}
           U == {m \in Nat : \A n \in S : n <= m}
<1>1. s \in Seq(Pane) /\ number \in [Pane -> Nat] /\ Len(s) \in Nat
  BY BenchFits DEF BenchInv, MapsInv
<1>2. S \in SUBSET Nat /\ 0 \in S
  BY <1>1, InList
<1>3. U # {}
  <2> DEFINE v == [i \in 1..Len(s) |-> number[s[i]]]
  <2>1. \A i \in 1..Len(s) : v[i] \in Nat
    BY <1>1, InList
  <2>2. \A p \in ToSet(s) : \E i \in 1..Len(s) : number[p] = v[i]
    BY <1>1, Elements, SMTT(20)
  <2> HIDE DEF v
  <2>3. PICK m \in Nat : \A i \in 1..Len(s) : v[i] <= m
    BY <1>1, <2>1, ListBound
  <2>4. \A n \in S : n <= m
    BY <2>2, <2>3
  <2> QED
    BY <2>4
<1>4. PICK u \in U : \A m \in U : u <= m
  BY <1>3, LeastNatural
<1>5. u \in Nat /\ \A n \in S : n <= u
  BY <1>4
<1>6. u \in S
  <2> SUFFICES ASSUME u \notin S PROVE FALSE
    OBVIOUS
  <2> HIDE DEF S
  <2>1. u # 0 /\ u - 1 \in Nat
    BY <1>2, <1>5
  <2>2. \A n \in S : n <= u - 1
    BY <1>2, <1>5
  <2>3. u - 1 \in U
    BY <2>1, <2>2
  <2> QED
    BY <1>4, <1>5, <2>3
<1>7. \A p \in ToSet(s) : number[p] \in S
  OBVIOUS
<1> HIDE DEF S
<1>8. MaxOf(S) \in S /\ \A n \in S : n <= MaxOf(S)
  BY <1>5, <1>6 DEF MaxOf
<1>9. NextNumber = MaxOf(S) + 1
  BY DEF NextNumber, S
<1>10. MaxOf(S) + 1 \in Nat \ {0} /\ \A n \in S : n # MaxOf(S) + 1
  <2>1. MaxOf(S) \in Nat
    BY <1>2, <1>8
  <2>2. ASSUME NEW n \in S PROVE n # MaxOf(S) + 1
    <3>1. n \in Nat /\ n <= MaxOf(S)
      BY <1>2, <1>8
    <3> QED
      BY <2>1, <3>1
  <2> QED
    BY <2>1, <2>2
<1> QED
  BY <1>7, <1>9, <1>10

\* A slot is free: an agent's tabs are fewer than the slots looked at.
LEMMA SlotChosen ==
  ASSUME BenchInv, NEW a \in Agent
  PROVE  /\ FreeSlot(a) \in Nat
         /\ \A p \in ToSet(bench.agents) : agentOf[p] = a => slotOf[p] # FreeSlot(a)
<1> DEFINE s == bench.agents
           taken == {slotOf[p] : p \in {q \in ToSet(s) : agentOf[q] = a}}
           S == 0..Len(s) \ taken
<1>1. s \in Seq(Pane) /\ Len(s) \in Nat
  BY BenchFits
<1>2. S # {}
  <2> DEFINE v == [i \in 1..Len(s) |-> slotOf[s[i]]]
  <2>1. \A p \in ToSet(s) : \E i \in 1..Len(s) : slotOf[p] = v[i]
    BY <1>1, Elements
  <2> HIDE DEF v
  <2>2. PICK m \in 0..Len(s) : \A i \in 1..Len(s) : v[i] # m
    BY <1>1, Pigeonhole
  <2>3. m \notin taken
    BY <2>1, <2>2
  <2> QED
    BY <2>3
<1> HIDE DEF taken
<1>3. S \in SUBSET Nat
  BY <1>1
<1> HIDE DEF S
<1>4. \E n \in S : \A m \in S : n <= m
  BY <1>2, <1>3, LeastNatural
<1>5. MinOf(S) \in S
  <2>1. \E n \in S : \A m \in S : m >= n
    BY <1>3, <1>4
  <2> QED
    BY <2>1 DEF MinOf
<1>6. FreeSlot(a) = MinOf(S)
  BY DEF FreeSlot, S, taken
<1> QED
  BY <1>3, <1>5, <1>6 DEF S, taken

\* A new shell.
LEMMA OpenShellKeepsTabs ==
  ASSUME BenchInv, OpenShell
  PROVE  MapsInv' /\ TabsInv'
<1> DEFINE n == NextNumber
           t == ShellTab(n)
<1>1. /\ Build(bench.root, bench.inst, <<t>>)
      /\ UNCHANGED <<stash, nextInst, refused>>
  BY DEF OpenShell, NextNumber, spaces
<1>2. /\ bench'.agents = bench.agents /\ bench'.shells = Append(bench.shells, nextPane)
      /\ bench'.panes = bench.panes \cup {nextPane} /\ bench'.root = bench.root /\ bench'.inst = bench.inst
  BY BenchFields DEF OpenShell, ShowShell, BenchInv, BundleType
<1>3. t \in TabSet /\ t.kind = "shell"
  <2> HIDE DEF n
  <2>1. n \in Nat
    BY NumberChosen DEF n
  <2>2. \A m \in Nat : ShellTab(m) \in TabSet
    BY DEF TabSet
  <2> QED
    BY <2>1, <2>2 DEF ShellTab
<1> HIDE DEF t
<1>4. /\ Fits(bench) /\ Hosted(bench) /\ (Preset = <<>> => Slotted(bench))
      /\ bench.root \in Root /\ bench.inst \in Nat /\ bench.shells \in Seq(Pane)
      /\ Tabs(bench) \subseteq bench.panes /\ bench.panes \in SUBSET Pane /\ nextPane \in Nat
      /\ \A p \in bench.panes : p < nextPane
  BY BenchFits
<1>5. /\ session' \in [Pane -> SessionKey \cup {NoKey}] /\ agentOf' \in [Pane -> Agent \cup {NoAgent}]
      /\ slotOf' \in [Pane -> Nat \cup {NoSlot}] /\ number' \in [Pane -> Nat]
      /\ nextPane' = nextPane + 1 /\ nextPane' \in 1..(MaxPanes + 1) /\ nextPane \in Pane
      /\ session'[nextPane] = KeyOf(bench.root, bench.inst, t)
      /\ \A p \in Pane : p < nextPane =>
           /\ session'[p] = session[p] /\ agentOf'[p] = agentOf[p] /\ slotOf'[p] = slotOf[p]
      /\ \A p \in Pane : p = nextPane \/ session'[p] = session[p]
  BY <1>1, <1>3, <1>4, BuildOne DEF BenchInv
<1>6. MapsInv'
  BY <1>1, <1>5 DEF BenchInv, MapsInv
<1>7. session'[nextPane] # NoKey
  BY <1>3, <1>4, <1>5, KeyIsKey
<1>8. \A p \in bench.panes : /\ p # nextPane /\ p < nextPane /\ p < nextPane'
                             /\ session'[p] = session[p] /\ agentOf'[p] = agentOf[p] /\ slotOf'[p] = slotOf[p]
  <2> TAKE p \in bench.panes
  <2>1. p \in Pane /\ p \in Nat /\ p < nextPane
    BY <1>4 DEF Pane
  <2>2. p # nextPane /\ p < nextPane'
    BY <1>4, <1>5, <2>1
  <2> QED
    BY <1>5, <2>1, <2>2
<1>9. /\ Once(bench.agents) /\ Once(bench.shells) /\ ToSet(bench.agents) \cap ToSet(bench.shells) = {}
      /\ ToSet(bench.agents) \subseteq bench.panes /\ ToSet(bench.shells) \subseteq bench.panes
  BY <1>4 DEF Fits, Tabs
<1>10. nextPane \notin ToSet(bench.shells) /\ nextPane \notin ToSet(bench.agents) /\ nextPane < nextPane'
  BY <1>4, <1>5, <1>8, <1>9
<1>11. ToSet(bench'.shells) = ToSet(bench.shells) \cup {nextPane} /\ Once(bench'.shells)
  <2>1. nextPane \in Pane
    BY <1>5
  <2> QED
    BY <1>2, <1>4, <1>9, <1>10, <2>1, AppendSet
<1>12. Fits(bench)'
  <2>1. Len(bench.agents) > 0
    BY <1>4 DEF Fits
  <2> QED
    BY <1>2, <1>8, <1>9, <1>10, <1>11, <2>1 DEF Fits, Tabs
<1>13. Hosted(bench)'
  BY <1>2, <1>4, <1>7, <1>8, <1>9, <1>11 DEF Hosted
<1>14. Preset = <<>> => Slotted(bench)'
  BY <1>2, <1>4, <1>8, <1>9 DEF Slotted
<1>15. \A p \in Pane : session'[p] # NoKey => p \in Tabs(bench)' \/ (session[p] # NoKey /\ p \notin Tabs(bench))
  <2>1. \A p \in Tabs(bench) : p \in Tabs(bench)'
    BY <1>2, <1>11 DEF Tabs
  <2>2. nextPane \in Tabs(bench)'
    BY <1>11 DEF Tabs
  <2> QED
    BY <1>5, <2>1, <2>2
<1>16. /\ nextPane' \in Nat /\ nextPane <= nextPane'
       /\ \A p \in bench'.panes : p \in bench.panes \/ ~(p < nextPane)
       /\ refused \subseteq refused'
  BY <1>1, <1>2, <1>4, <1>5
<1>17. \A p \in Pane : p < nextPane /\ p \notin bench.panes =>
         session'[p] = session[p] /\ agentOf'[p] = agentOf[p] /\ slotOf'[p] = slotOf[p]
  BY <1>5
<1> QED
  BY <1>1, <1>6, <1>12, <1>13, <1>14, <1>15, <1>16, <1>17, BenchTabs

\* A new agent, beside the others, in the picker's place, or refused.
LEMMA OpenAgentKeepsTabs ==
  ASSUME BenchInv, NEW a \in Agent, OpenAgent(a)
  PROVE  MapsInv' /\ TabsInv'
<1> DEFINE n == FreeSlot(a)
           t == AgentTab(a, n)
           s == bench.agents
<1>1. Build(bench.root, bench.inst, <<t>>) /\ UNCHANGED <<stash, nextInst>>
  BY DEF OpenAgent, spaces
<1>2. n \in Nat /\ \A p \in ToSet(s) : agentOf[p] = a => slotOf[p] # n
  BY SlotChosen
<1> HIDE DEF n
<1>3. t \in TabSet /\ t.kind = "agent" /\ t.agent = a /\ t.n = n /\ a # NoAgent
  <2>1. AgentTab(a, n) \in TabSet
    BY <1>2 DEF TabSet
  <2> QED
    BY <2>1, BenchAssumption DEF AgentTab, BenchAssumption
<1> HIDE DEF t
<1>4. /\ Fits(bench) /\ Hosted(bench) /\ (Preset = <<>> => Slotted(bench))
      /\ bench.root \in Root /\ bench.inst \in Nat /\ s \in Seq(Pane)
      /\ Tabs(bench) \subseteq bench.panes /\ bench.panes \in SUBSET Pane /\ nextPane \in Nat
      /\ \A p \in bench.panes : p < nextPane
  BY BenchFits
<1>5. /\ session' \in [Pane -> SessionKey \cup {NoKey}] /\ agentOf' \in [Pane -> Agent \cup {NoAgent}]
      /\ slotOf' \in [Pane -> Nat \cup {NoSlot}] /\ number' \in [Pane -> Nat]
      /\ nextPane' = nextPane + 1 /\ nextPane' \in 1..(MaxPanes + 1) /\ nextPane \in Pane
      /\ session'[nextPane] = KeyOf(bench.root, bench.inst, t) /\ agentOf'[nextPane] = a
      /\ slotOf'[nextPane] = n
      /\ \A p \in Pane : p < nextPane =>
           /\ session'[p] = session[p] /\ agentOf'[p] = agentOf[p] /\ slotOf'[p] = slotOf[p]
      /\ \A p \in Pane : p = nextPane \/ session'[p] = session[p]
  BY <1>1, <1>3, <1>4, BuildOne DEF BenchInv
<1>6. session'[nextPane] # NoKey
  BY <1>3, <1>4, <1>5, KeyIsKey
<1>7. \A p \in bench.panes : /\ p # nextPane /\ p < nextPane /\ p < nextPane'
                             /\ session'[p] = session[p] /\ agentOf'[p] = agentOf[p] /\ slotOf'[p] = slotOf[p]
  <2> TAKE p \in bench.panes
  <2>1. p \in Pane /\ p \in Nat /\ p < nextPane
    BY <1>4 DEF Pane
  <2>2. p # nextPane /\ p < nextPane'
    BY <1>4, <1>5, <2>1
  <2> QED
    BY <1>5, <2>1, <2>2
<1>8. /\ Once(s) /\ Once(bench.shells) /\ ToSet(s) \cap ToSet(bench.shells) = {}
      /\ ToSet(s) \subseteq bench.panes /\ ToSet(bench.shells) \subseteq bench.panes
  BY <1>4 DEF Fits, Tabs
<1>9. /\ nextPane \notin ToSet(bench.shells) /\ nextPane \notin ToSet(s) /\ nextPane < nextPane'
      /\ nextPane' \in Nat /\ nextPane <= nextPane' /\ ~(nextPane < nextPane)
  BY <1>4, <1>5, <1>7, <1>8
<1>10. \A p \in Pane : p < nextPane /\ p \notin bench.panes =>
         session'[p] = session[p] /\ agentOf'[p] = agentOf[p] /\ slotOf'[p] = slotOf[p]
  BY <1>5
<1> HIDE DEF s
<1>11. ASSUME NEW tabs \in Seq(Pane), NEW swept, ToSet(tabs) = ToSet(s) \ swept, Once(tabs),
              swept \subseteq ToSet(s), \A p \in swept : session[p] = NoKey,
              \A p \in ToSet(tabs) : agentOf[p] # NoAgent,
              bench'.agents = Append(tabs, nextPane), bench'.shells = bench.shells,
              bench'.panes = (bench.panes \ swept) \cup {nextPane},
              bench'.root = bench.root, bench'.inst = bench.inst, refused' = refused
       PROVE  TabsInv'
  <2>1. nextPane \notin ToSet(tabs) /\ ToSet(tabs) \subseteq bench.panes /\ nextPane \in Pane
    BY <1>5, <1>8, <1>9, <1>11
  <2>2. ToSet(bench'.agents) = ToSet(tabs) \cup {nextPane} /\ Once(bench'.agents)
    BY <1>11, <2>1, AppendSet
  <2>3. Fits(bench)'
    <3>1. ToSet(bench.shells) \cap swept = {} /\ ToSet(tabs) \cap swept = {}
      BY <1>8, <1>11
    <3>2. Tabs(bench') \subseteq bench'.panes
      BY <1>8, <1>11, <2>1, <2>2, <3>1 DEF Tabs
    <3>3. ToSet(bench'.agents) \cap ToSet(bench.shells) = {}
      BY <1>8, <1>9, <1>11, <2>2
    <3>4. \A p \in bench'.panes : p < nextPane'
      BY <1>7, <1>9, <1>11
    <3> QED
      BY <1>8, <1>11, <2>2, <3>2, <3>3, <3>4 DEF Fits, Tabs
  <2>4. Hosted(bench)'
    <3>1. \A p \in ToSet(bench.shells) : session'[p] # NoKey
      BY <1>4, <1>7, <1>8 DEF Hosted
    <3>2. \A p \in ToSet(tabs) : agentOf'[p] # NoAgent /\ session'[p] # NoKey
      <4>1. \A p \in ToSet(tabs) : p \in ToSet(s) /\ session[p] # NoKey
        BY <1>4, <1>11 DEF Hosted, s
      <4> QED
        BY <1>7, <1>8, <1>11, <4>1
    <3>3. agentOf'[nextPane] # NoAgent
      BY <1>3, <1>5
    <3> QED
      BY <1>6, <1>11, <2>2, <3>1, <3>2, <3>3 DEF Hosted
  <2>5. ASSUME Preset = <<>> PROVE Slotted(bench)'
    <3>1. \A p \in ToSet(tabs) : /\ p \in ToSet(s) /\ agentOf[p] # NoAgent
                                 /\ session'[p] = session[p] /\ agentOf'[p] = agentOf[p]
                                 /\ slotOf'[p] = slotOf[p]
      BY <1>7, <1>8, <1>11
    <3>2. Slotted(bench)
      BY <1>4, <2>5
    <3>3. ASSUME NEW p \in ToSet(tabs)
          PROVE  /\ slotOf'[p] \in Nat
                 /\ session'[p] = KeyOf(bench.root, bench.inst, AgentTab(agentOf'[p], slotOf'[p]))
                 /\ \A q \in ToSet(tabs) : agentOf'[q] = agentOf'[p] /\ slotOf'[q] = slotOf'[p] => q = p
      BY <3>1, <3>2 DEF Slotted, s
    <3>4. \A p \in ToSet(tabs) : ~(agentOf'[p] = a /\ slotOf'[p] = n)
      BY <1>2, <3>1 DEF s
    <3>5. session'[nextPane] = KeyOf(bench.root, bench.inst, AgentTab(a, n))
      BY <1>5 DEF t
    <3> SUFFICES ASSUME NEW p \in ToSet(tabs) \cup {nextPane}
                 PROVE  /\ slotOf'[p] \in Nat
                        /\ session'[p] = KeyOf(bench.root, bench.inst, AgentTab(agentOf'[p], slotOf'[p]))
                        /\ \A q \in ToSet(tabs) \cup {nextPane} :
                             agentOf'[q] = agentOf'[p] /\ slotOf'[q] = slotOf'[p] => q = p
      BY <1>11, <2>2 DEF Slotted
    <3>6. CASE p \in ToSet(tabs)
      BY <1>5, <3>3, <3>4, <3>6
    <3>7. CASE p = nextPane
      BY <1>2, <1>5, <3>4, <3>5, <3>7
    <3> QED
      BY <3>6, <3>7
  <2>6. \A p \in Pane : session'[p] # NoKey => p \in Tabs(bench)' \/ (session[p] # NoKey /\ p \notin Tabs(bench))
    <3>1. \A p \in Tabs(bench) : p \in Tabs(bench)' \/ p \in swept
      BY <1>11, <2>2 DEF Tabs, s
    <3>2. \A p \in swept : session'[p] = NoKey
      BY <1>7, <1>8, <1>11
    <3>3. nextPane \in Tabs(bench)'
      BY <2>2 DEF Tabs
    <3> QED
      BY <1>5, <3>1, <3>2, <3>3
  <2>7. /\ \A p \in bench'.panes : p \in bench.panes \/ ~(p < nextPane)
        /\ refused \subseteq refused'
    BY <1>9, <1>11
  <2> QED
    BY <1>1, <1>9, <1>10, <2>3, <2>4, <2>5, <2>6, <2>7, BenchTabs
<1>12. ASSUME refused' = refused,
              LET tabs == Agents(bench)
                  swept == ToSet(bench.agents) \ ToSet(tabs)
              IN bench' = [bench EXCEPT !.agents = Append(tabs, nextPane), !.agentsActive = Len(tabs) + 1,
                                        !.panes = (@ \ swept) \cup {nextPane}, !.focus = nextPane]
       PROVE  TabsInv'
  <2> DEFINE tabs == Agents(bench)
             swept == ToSet(s) \ ToSet(tabs)
  <2>1. /\ bench'.agents = Append(tabs, nextPane) /\ bench'.shells = bench.shells
        /\ bench'.panes = (bench.panes \ swept) \cup {nextPane}
        /\ bench'.root = bench.root /\ bench'.inst = bench.inst
    BY <1>12, BenchFields DEF BenchInv, BundleType, s
  <2>2. /\ tabs \in Seq(Pane) /\ ToSet(tabs) = ToSet(s) \ swept /\ Once(tabs)
        /\ swept \subseteq ToSet(s) /\ (\A p \in swept : session[p] = NoKey)
        /\ \A p \in ToSet(tabs) : agentOf[p] # NoAgent
    <3>1. CASE \E p \in ToSet(s) : agentOf[p] = NoAgent
      <4>1. tabs = <<>>
        BY <3>1 DEF Agents, s
      <4>2. ToSet(<<>>) = {} /\ Once(<<>>)
        BY DEF ToSet, Once
      <4>3. \A p, q \in ToSet(s) : Len(s) = 1 => p = q
        <5>1. \A p \in ToSet(s) : \E i \in 1..Len(s) : p = s[i]
          BY <1>4, Elements
        <5> QED
          BY <5>1
      <4>4. \A p \in ToSet(s) : agentOf[p] = NoAgent
        BY <1>4, <3>1, <4>3 DEF Hosted, s
      <4>5. \A p \in ToSet(s) : session[p] = NoKey
        BY <1>4, <4>4 DEF Hosted, s
      <4> QED
        BY <4>1, <4>2, <4>5
    <3>2. CASE ~ \E p \in ToSet(s) : agentOf[p] = NoAgent
      <4>1. tabs = s
        BY <3>2 DEF Agents, s
      <4> QED
        BY <1>4, <1>8, <3>2, <4>1
    <3> QED
      BY <3>1, <3>2
  <2> HIDE DEF tabs, swept
  <2> QED
    BY <1>11, <1>12, <2>1, <2>2
<1>13. ASSUME bench' = [bench EXCEPT !.panes = @ \cup {nextPane}],
              refused' = refused \cup {nextPane}
       PROVE  TabsInv'
  <2>1. /\ bench'.agents = bench.agents /\ bench'.shells = bench.shells
        /\ bench'.panes = bench.panes \cup {nextPane}
        /\ bench'.root = bench.root /\ bench'.inst = bench.inst
    BY <1>13, BenchFields DEF BenchInv, BundleType
  <2>2. Fits(bench)'
    <3>1. Len(bench.agents) > 0
      BY <1>4 DEF Fits
    <3> QED
      BY <1>7, <1>8, <1>9, <2>1, <3>1 DEF Fits, Tabs, s
  <2>3. Hosted(bench)'
    BY <1>4, <1>7, <1>8, <2>1 DEF Hosted, s
  <2>4. Preset = <<>> => Slotted(bench)'
    BY <1>4, <1>7, <1>8, <2>1 DEF Slotted, s
  <2>5. \A p \in Pane : session'[p] # NoKey =>
          p \in refused' \cup Tabs(bench)' \/ (session[p] # NoKey /\ p \notin Tabs(bench))
    BY <1>5, <1>13, <2>1 DEF Tabs
  <2>6. /\ \A p \in bench'.panes : p \in bench.panes \/ ~(p < nextPane)
        /\ refused \subseteq refused'
    BY <1>9, <1>13, <2>1
  <2> QED
    BY <1>1, <1>9, <1>10, <2>2, <2>3, <2>4, <2>5, <2>6, BenchTabs
<1>14. TabsInv' /\ (refused' = refused \/ refused' = refused \cup {nextPane})
  BY <1>12, <1>13 DEF OpenAgent
<1>15. MapsInv'
  BY <1>1, <1>5, <1>14 DEF BenchInv, MapsInv
<1> QED
  BY <1>14, <1>15

\* The tabs of the workspace the App starts with.
LEMMA FirstTabs ==
  /\ FreshAgents \in Seq(TabSet) /\ AgentList(FreshAgents) /\ Len(FreshAgents) \in Nat \ {0}
  /\ FreshTabs \in Seq(TabSet) /\ Len(FreshTabs) = Len(FreshAgents) + 1
  /\ \A i \in 1..Len(FreshAgents) : FreshTabs[i] = FreshAgents[i]
  /\ FreshTabs[Len(FreshTabs)] = ShellTab(1) /\ ShellTab(1) \in TabSet
<1> DEFINE S == <<ShellTab(1)>>
<1>1. FreshAgents \in Seq(TabSet) /\ AgentList(FreshAgents)
  <2>1. <<>> \in Seq(TabSet)
    OBVIOUS
  <2> QED
    BY <2>1, AgentTabsFit DEF FreshAgents
<1>2. ShellTab(1) \in TabSet /\ S \in Seq(TabSet) /\ Len(S) = 1 /\ S[1] = ShellTab(1)
  BY ShellFits
<1>3. FreshTabs = FreshAgents \o S
  BY DEF FreshTabs
<1>4. Len(FreshAgents) \in Nat \ {0} /\ Len(FreshTabs) = Len(FreshAgents) + 1
  BY FreshLists
<1> HIDE DEF S
<1>5. /\ FreshTabs \in Seq(TabSet)
      /\ \A i \in 1..Len(FreshAgents) : FreshTabs[i] = FreshAgents[i]
      /\ FreshTabs[Len(FreshAgents) + 1] = S[1]
  BY <1>1, <1>2, <1>3, <1>4
<1> QED
  BY <1>1, <1>2, <1>4, <1>5

\* The App starts with a workspace whose tabs have their sessions.
LEMMA TabsInit == BenchInit => MapsInv /\ IdInv /\ TabsInv
<1> SUFFICES ASSUME BenchInit PROVE MapsInv /\ IdInv /\ TabsInv
  OBVIOUS
<1> DEFINE A == FreshAgents
           ts == FreshTabs
           nA == Len(A)
           n == Len(ts)
           has(p, kind) == p < nextPane /\ ts[p].kind = kind
<1>1. /\ A \in Seq(TabSet) /\ AgentList(A) /\ nA \in Nat \ {0} /\ ts \in Seq(TabSet) /\ n = nA + 1
      /\ (\A i \in 1..nA : ts[i] = A[i]) /\ ts[n] = ShellTab(1) /\ ShellTab(1) \in TabSet
      /\ n \in Nat /\ n <= MaxPanes /\ MaxPanes \in Nat /\ FirstRoot \in Root
      /\ \A i \in 1..n : ts[i] \in TabSet
  BY FirstTabs, FreshLists, BenchAssumption DEF BenchAssumption
<1>2. /\ order = <<FirstRoot>> /\ instances = <<0>> /\ stash = <<>>
      /\ nextPane = n + 1 /\ nextInst = 1 /\ refused = {}
      /\ session = [p \in Pane |-> IF p < nextPane THEN KeyOf(FirstRoot, 0, ts[p]) ELSE NoKey]
      /\ agentOf = [p \in Pane |-> IF p < nextPane THEN ts[p].agent ELSE NoAgent]
      /\ slotOf = [p \in Pane |-> IF has(p, "agent") THEN ts[p].n ELSE NoSlot]
      /\ number = [p \in Pane |-> IF has(p, "shell") THEN ts[p].n ELSE 0]
  BY DEF BenchInit
<1>3. /\ bench.root = FirstRoot /\ bench.inst = 0
      /\ bench.agents = [i \in 1..nA |-> i] /\ bench.shells = <<n>> /\ bench.panes = 1..n
  BY DEF BenchInit
<1> HIDE DEF A, ts, nA, n
<1>4. /\ \A p \in Pane : p < nextPane => p \in 1..n
      /\ \A i \in 1..n : i \in Pane /\ i < nextPane /\ ts[i] \in TabSet
  BY <1>1, <1>2 DEF Pane
<1>5. session \in [Pane -> SessionKey \cup {NoKey}]
  <2>1. \A i \in 1..n : KeyOf(FirstRoot, 0, ts[i]) \in SessionKey \cup {NoKey}
    <3>1. 0 \in Nat
      OBVIOUS
    <3> QED
      BY <1>1, <1>4, <3>1, KeyIsKey
  <2> QED
    BY <1>2, <1>4, <2>1
<1>6. agentOf \in [Pane -> Agent \cup {NoAgent}]
  BY <1>2, <1>4, TabKinds
<1>7. slotOf \in [Pane -> Nat \cup {NoSlot}]
  BY <1>2, <1>4, TabKinds
<1>8. number \in [Pane -> Nat]
  BY <1>2, <1>4, TabKinds
<1>9. MapsInv
  BY <1>1, <1>2, <1>5, <1>6, <1>7, <1>8 DEF MapsInv
<1>10. IdInv
  <2>1. Len(order) = 1 /\ Len(instances) = 1 /\ instances[1] = 0
    BY <1>2
  <2> QED
    BY <1>2, <2>1 DEF IdInv, Paired
<1>11. /\ \A p : p \in ToSet(bench.agents) <=> p \in 1..nA
       /\ \A p : p \in ToSet(bench.shells) <=> p = n
       /\ Len(bench.agents) = nA /\ Once(bench.agents) /\ Once(bench.shells)
  <2>1. DOMAIN bench.agents = 1..nA /\ \A i \in 1..nA : bench.agents[i] = i
    BY <1>3
  <2>2. Len(bench.agents) = nA
    BY <1>1, <1>3
  <2>3. DOMAIN bench.shells = {1} /\ bench.shells[1] = n /\ Len(bench.shells) = 1
    BY <1>3
  <2>4. \A p : p \in ToSet(bench.agents) <=> p \in 1..nA
    BY <2>1 DEF ToSet
  <2>5. \A p : p \in ToSet(bench.shells) <=> p = n
    BY <2>3 DEF ToSet
  <2>6. Once(bench.agents) /\ Once(bench.shells)
    BY <2>1, <2>2, <2>3 DEF Once
  <2> QED
    BY <2>2, <2>4, <2>5, <2>6
<1>12. \A i \in 1..nA : i \in 1..n /\ i # n /\ i \in Pane /\ i < nextPane /\ ts[i] = A[i] /\ A[i] \in TabSet
  BY <1>1, <1>4
<1>13. n \in 1..n /\ n \in Pane /\ n < nextPane
  BY <1>1, <1>4
<1>14. Fits(bench)
  <2>1. \A p \in bench.panes : p < nextPane
    BY <1>3, <1>4
  <2>2. Tabs(bench) \subseteq bench.panes
    BY <1>3, <1>11, <1>12, <1>13 DEF Tabs
  <2>3. ToSet(bench.agents) \cap ToSet(bench.shells) = {}
    BY <1>11, <1>12
  <2>4. Len(bench.agents) > 0
    BY <1>1, <1>11
  <2> QED
    BY <1>11, <2>1, <2>2, <2>3, <2>4 DEF Fits
<1>15. \A i \in 1..nA : /\ session[i] = KeyOf(FirstRoot, 0, A[i]) /\ agentOf[i] = A[i].agent
                        /\ (A[i].kind = "agent" => slotOf[i] = A[i].n)
  BY <1>2, <1>12
<1>16. Hosted(bench)
  <2>1. session[n] # NoKey
    <3>1. session[n] = KeyOf(FirstRoot, 0, ShellTab(1))
      BY <1>1, <1>2, <1>13
    <3>2. ShellTab(1).kind # "picker" /\ 0 \in Nat
      BY DEF ShellTab
    <3> QED
      BY <1>1, <3>1, <3>2, KeyIsKey
  <2>2. ASSUME NEW i \in 1..nA
        PROVE  IF agentOf[i] = NoAgent THEN session[i] = NoKey /\ nA = 1 ELSE session[i] # NoKey
    <3>1. CASE A = <<Picker>>
      <4>1. nA = 1 /\ A[i] = Picker /\ Picker.kind = "picker" /\ Picker.agent = NoAgent
        BY <3>1 DEF nA, Picker
      <4>2. KeyOf(FirstRoot, 0, A[i]) = NoKey
        BY <4>1 DEF KeyOf
      <4> QED
        BY <1>15, <4>1, <4>2
    <3>2. CASE A[i].kind = "agent"
      <4>1. A[i].agent # NoAgent
        BY <1>12, <3>2, TabKinds, BenchAssumption DEF BenchAssumption
      <4>2. KeyOf(FirstRoot, 0, A[i]) # NoKey
        <5>1. 0 \in Nat /\ A[i].kind # "picker" /\ A[i] \in TabSet
          BY <1>12, <3>2
        <5> QED
          BY <1>1, <5>1, KeyIsKey
      <4> QED
        BY <1>15, <4>1, <4>2
    <3> QED
      BY <1>1, <3>1, <3>2 DEF AgentList, nA
  <2> QED
    BY <1>11, <2>1, <2>2 DEF Hosted
<1>17. ASSUME Preset = <<>> PROVE Slotted(bench)
  <2>1. A = <<Picker>>
    BY <1>17 DEF A, FreshAgents, AgentTabs
  <2>2. nA = 1 /\ A[1] = Picker /\ Picker.agent = NoAgent
    BY <2>1 DEF nA, Picker
  <2>3. \A i \in 1..nA : agentOf[i] = NoAgent
    BY <1>15, <2>2
  <2> QED
    BY <1>11, <2>3 DEF Slotted
<1>18. Bundles = {bench}
  <2>1. ToSet(stash) = {}
    BY <1>2 DEF ToSet
  <2> QED
    BY <2>1 DEF Bundles
<1>19. ASSUME NEW p \in Pane, session[p] # NoKey PROVE p \in Tabs(bench)
  <2>1. p \in 1..n
    BY <1>2, <1>4, <1>19
  <2>2. p \in 1..nA \/ p = n
    BY <1>1, <2>1
  <2> QED
    BY <1>11, <2>2 DEF Tabs
<1>20. TabsInv
  BY <1>14, <1>16, <1>17, <1>18, <1>19 DEF TabsInv
<1> QED
  BY <1>9, <1>10, <1>20

\* Every operation keeps names, maps and tabs in order.
LEMMA TabsStep == BenchInv /\ [BenchNext]_benchVars => BenchInv'
<1> SUFFICES ASSUME BenchInv, [BenchNext]_benchVars PROVE BenchInv'
  OBVIOUS
<1>1. PlaceInv'
  BY PlaceStep DEF BenchInv
<1>2. ASSUME UNCHANGED <<order, instances, nextInst>> PROVE IdInv'
  BY <1>2 DEF BenchInv, IdInv, Paired
<1>3. CASE UNCHANGED benchVars
  <2>1. MapsInv'
    BY <1>3 DEF BenchInv, MapsInv, benchVars
  <2>2. /\ Fits(bench)' /\ Hosted(bench)' /\ (Preset = <<>> => Slotted(bench)')
        /\ UNCHANGED <<stash, nextPane, session, agentOf, slotOf, refused, bench>> /\ nextPane \in Nat
    BY <1>3, BenchFits DEF benchVars, Fits, Hosted, Slotted, Tabs
  <2>3. Tabs(bench)' = Tabs(bench)
    BY <2>2 DEF Tabs
  <2>4. TabsInv'
    BY <2>2, <2>3, BenchTabs
  <2> QED
    BY <1>1, <1>2, <1>3, <2>1, <2>4 DEF BenchInv, benchVars
<1>4. ASSUME NEW i \in 1..Len(order), ActivateWorkspace(i) PROVE BenchInv'
  BY <1>1, <1>4, ActivateKeepsTabs DEF BenchInv
<1>5. ASSUME NEW i \in 1..Len(order), CloseWorkspace(i) PROVE BenchInv'
  BY <1>1, <1>5, CloseKeepsTabs, CloseKeepsNames DEF BenchInv
<1>6. ASSUME NEW root \in Root, OpenWorkspace(root) PROVE BenchInv'
  <2>1. CASE root \in ToSet(order)
    <3>1. \E i : ActivateWorkspace(i)
      BY <1>6, <2>1 DEF OpenWorkspace
    <3> QED
      BY <1>1, <3>1, ActivateKeepsTabs DEF BenchInv
  <2>2. CASE root \notin ToSet(order)
    BY <1>1, <1>6, <2>2, OpenKeepsTabs DEF BenchInv
  <2> QED
    BY <2>1, <2>2
<1>7. CASE DuplicateWorkspace
  BY <1>1, <1>7, DuplicateKeepsTabs DEF BenchInv
<1>8. CASE OpenShell
  BY <1>1, <1>2, <1>8, OpenShellKeepsTabs DEF BenchInv, OpenShell, spaces
<1>9. ASSUME NEW a \in Agent, OpenAgent(a) PROVE BenchInv'
  BY <1>1, <1>2, <1>9, OpenAgentKeepsTabs DEF BenchInv, OpenAgent, spaces
<1>10. ASSUME NEW p \in Pane, DropPane(p) PROVE MapsInv' /\ IdInv'
  <2>1. MapsInv'
    BY <1>10 DEF BenchInv, MapsInv, DropPane
  <2> QED
    BY <1>2, <1>10, <2>1 DEF DropPane, spaces
<1>11. ASSUME NEW i \in 1..Len(bench.shells), CloseShell(i) PROVE BenchInv'
  <2>1. bench.shells[i] \in Pane
    BY BenchFits
  <2> QED
    BY <1>1, <1>10, <1>11, <2>1, CloseShellKeepsTabs DEF BenchInv, CloseShell
<1>12. ASSUME NEW i \in 1..Len(bench.agents), CloseAgent(i) PROVE BenchInv'
  <2>1. bench.agents[i] \in Pane
    BY BenchFits
  <2> QED
    BY <1>1, <1>10, <1>12, <2>1, CloseAgentKeepsTabs DEF BenchInv, CloseAgent
<1>13. ASSUME NEW p \in Pane \cup {LeftPane}, RenamePane(p) \/ FocusPane(p) PROVE BenchInv'
  <2>1. MapsInv'
    BY <1>13 DEF BenchInv, MapsInv, RenamePane, FocusPane
  <2>2. IdInv'
    BY <1>2, <1>13 DEF RenamePane, FocusPane, spaces
  <2> QED
    BY <1>1, <1>13, <2>1, <2>2, PaneKeepsTabs DEF BenchInv
<1> QED
  BY <1>3, <1>4, <1>5, <1>6, <1>7, <1>8, <1>9, <1>11, <1>12, <1>13 DEF BenchNext

LEMMA TabsInductive == BenchSpec => []BenchInv
<1>1. BenchInit => BenchInv
  BY PlaceInit, TabsInit DEF BenchInv
<1> QED
  BY <1>1, TabsStep, PTL DEF BenchSpec

\* The agents of b are its tabs, unless the picker is there, which is alone
\* and has no session.
LEMMA ShownAgents ==
  ASSUME NEW b \in Sound, Hosted(b)
  PROVE  /\ \A p \in ToSet(Agents(b)) : p \in ToSet(b.agents) /\ session[p] # NoKey
         /\ \A p \in ToSet(b.agents) : session[p] # NoKey => p \in ToSet(Agents(b))
         /\ Agents(b) = <<>> => Len(b.agents) <= 1
<1>1. b.agents \in Seq(Pane)
  BY DEF Sound, BundleType
<1>2. CASE \E p \in ToSet(b.agents) : agentOf[p] = NoAgent
  <2>1. Agents(b) = <<>> /\ ToSet(<<>>) = {}
    BY <1>2 DEF Agents, ToSet
  <2>2. Len(b.agents) = 1
    BY <1>2 DEF Hosted
  <2>3. \A p \in ToSet(b.agents) : p = b.agents[1]
    BY <1>1, <2>2, Elements
  <2>4. \A p \in ToSet(b.agents) : agentOf[p] = NoAgent
    BY <1>2, <2>3
  <2> QED
    BY <2>1, <2>2, <2>4 DEF Hosted
<1>3. CASE ~ \E p \in ToSet(b.agents) : agentOf[p] = NoAgent
  <2>1. Agents(b) = b.agents
    BY <1>3 DEF Agents
  <2> QED
    BY <1>1, <1>3, <2>1 DEF Hosted
<1> QED
  BY <1>2, <1>3

\* What is assumed of the types in the runs holds for all roots, agents and
\* bounds.
THEOREM BenchTypes == BenchSpec => []BenchTypeOK
<1>1. BenchInv => BenchTypeOK
  <2> SUFFICES ASSUME BenchInv PROVE BenchTypeOK
    OBVIOUS
  <2>1. \A b \in Bundles : b \in BundleType /\ (Agents(b) = <<>> => Len(b.agents) = 1)
    <3> TAKE b \in Bundles
    <3>1. b \in Sound /\ Hosted(b) /\ Fits(b)
      BY BundlesSound DEF BenchInv, TabsInv
    <3>2. Len(b.agents) > 0 /\ Len(b.agents) \in Nat /\ b \in BundleType
      BY <3>1 DEF Fits, Sound, BundleType
    <3>3. Agents(b) = <<>> => Len(b.agents) <= 1
      BY <3>1, ShownAgents
    <3>4. \A n \in Nat : n > 0 /\ n <= 1 => n = 1
      OBVIOUS
    <3>5. Len(b.agents) <= 1 => Len(b.agents) = 1
      BY <3>2, <3>4, Zenon
    <3> QED
      BY <3>2, <3>3, <3>5, Zenon
  <2>2. order \in Seq(Root) /\ instances \in Seq(Nat) /\ active \in 1..Len(order)
    BY Places DEF BenchInv
  <2> QED
    BY <2>1, <2>2 DEF BenchInv, MapsInv, BenchTypeOK
<1> QED
  BY <1>1, TabsInductive, PTL

\* Through every sequence of opening, duplicating, switching and closing
\* workspaces and their tabs, a session lives exactly as long as a tab shows
\* it, those of agents that found their group full excepted.
THEOREM SessionsAreShown == BenchSpec => []SessionsHaveTabs
<1>1. BenchInv => SessionsHaveTabs
  <2> SUFFICES ASSUME BenchInv PROVE SessionsHaveTabs
    OBVIOUS
  <2>1. ASSUME NEW b \in Bundles
        PROVE  /\ \A p \in ToSet(b.shells) \cup ToSet(Agents(b)) : p \in Pane /\ session[p] # NoKey
               /\ \A p \in Tabs(b) : session[p] # NoKey => p \in ToSet(b.shells) \cup ToSet(Agents(b))
    <3>1. b \in Sound /\ Hosted(b) /\ Fits(b) /\ b.panes \in SUBSET Pane
      BY BundlesSound DEF BenchInv, TabsInv
    <3>2. /\ \A p \in ToSet(Agents(b)) : p \in ToSet(b.agents) /\ session[p] # NoKey
          /\ \A p \in ToSet(b.agents) : session[p] # NoKey => p \in ToSet(Agents(b))
      BY <3>1, ShownAgents
    <3>3. ToSet(b.agents) \subseteq Pane /\ ToSet(b.shells) \subseteq Pane
      BY <3>1 DEF Fits, Tabs
    <3> QED
      BY <3>1, <3>2, <3>3 DEF Hosted, Tabs
  <2>2. \A p \in Pane : session[p] # NoKey => p \in refused \/ \E b \in Bundles : p \in Tabs(b)
    BY DEF BenchInv, TabsInv
  <2> QED
    BY <2>1, <2>2 DEF SessionsHaveTabs
<1> QED
  BY <1>1, TabsInductive, PTL

\* Without configured agents no two agent tabs, of whatever workspaces, are
\* hosted under one key.  (With them two are: see the run preset_agent.)
THEOREM AgentsHaveKeys ==
  ASSUME Preset = <<>>
  PROVE  BenchSpec => []AgentKeysDistinct
<1>1. BenchInv => AgentKeysDistinct
  <2> SUFFICES ASSUME BenchInv PROVE AgentKeysDistinct
    OBVIOUS
  <2>1. ASSUME NEW b \in Bundles, NEW p \in ToSet(b.agents), session[p] # NoKey
        PROVE  /\ Slotted(b) /\ agentOf[p] # NoAgent
               /\ session[p].root = b.root /\ session[p].inst = b.inst
               /\ session[p].agent = agentOf[p] /\ session[p].n = slotOf[p]
    <3>1. Slotted(b) /\ Hosted(b)
      BY DEF BenchInv, TabsInv
    <3>2. agentOf[p] # NoAgent
      BY <2>1, <3>1 DEF Hosted
    <3>3. session[p] = KeyOf(b.root, b.inst, AgentTab(agentOf[p], slotOf[p])) /\ slotOf[p] \in Nat
      BY <3>1, <3>2 DEF Slotted
    <3>4. NoSlot \notin Nat
      BY BenchAssumption DEF BenchAssumption
    <3>5. session[p] = [root |-> b.root, inst |-> b.inst, kind |-> "agent",
                        agent |-> agentOf[p], n |-> slotOf[p]]
      BY <3>3, <3>4 DEF KeyOf, AgentTab
    <3> QED
      BY <3>1, <3>2, <3>5
  <2> SUFFICES ASSUME NEW b \in Bundles, NEW c \in Bundles,
                      NEW p \in ToSet(b.agents), NEW q \in ToSet(c.agents),
                      session[p] = session[q], session[p] # NoKey
               PROVE  p = q
    BY DEF AgentKeysDistinct
  <2>2. b.root = c.root /\ b.inst = c.inst /\ agentOf[p] = agentOf[q] /\ slotOf[p] = slotOf[q]
    BY <2>1
  <2>3. b = c
    BY <2>2, Places, Identified DEF BenchInv, IdInv, Bundles
  <2>4. Slotted(b) /\ agentOf[p] # NoAgent
    BY <2>1
  <2> QED
    BY <2>2, <2>3, <2>4 DEF Slotted
<1> QED
  BY <1>1, TabsInductive, PTL

-----------------------------------------------------------------------------
(* The keys of shells.                                                     *)

\* With keys and numbers by pane, the shells of b that have a number have it
\* to themselves, and the keys of it.
ShelledBy(b, key, num) ==
  \A p \in ToSet(b.shells) : num[p] # 0 =>
    /\ key[p] = KeyOf(b.root, b.inst, ShellTab(num[p]))
    /\ \A q \in ToSet(b.shells) : num[q] = num[p] => q = p

ShellInv == \A b \in Bundles : ShelledBy(b, session, number)

\* Shells that are not touched, but for those that close or lose their number.
LEMMA ShellsKept ==
  ASSUME NEW b, NEW c, NEW key, NEW num, NEW key2, NEW num2, ShelledBy(b, key, num),
         c.root = b.root, c.inst = b.inst, ToSet(c.shells) \subseteq ToSet(b.shells),
         \A p \in ToSet(c.shells) : key2[p] = key[p] /\ num2[p] \in {num[p], 0}
  PROVE  ShelledBy(c, key2, num2)
BY DEF ShelledBy

\* What building tabs does to the numbers.
LEMMA BuildNumbers ==
  ASSUME MapsInv, NEW root \in Root, NEW inst \in Nat, NEW ts \in Seq(TabSet), Build(root, inst, ts)
  PROVE  /\ \A i \in 1..Len(ts) : ts[i].kind = "shell" => number'[PaneAt(i)] = ts[i].n
         /\ \A p \in Pane : p < nextPane => number'[p] = number[p]
<1> DEFINE n == Len(ts)
           new == nextPane..(nextPane + n - 1)
           tab(p) == ts[p - nextPane + 1]
<1>1. /\ nextPane + n - 1 <= MaxPanes
      /\ number' = [p \in Pane |-> IF p \in new /\ tab(p).kind = "shell" THEN tab(p).n ELSE number[p]]
  BY DEF Build
<1>2. nextPane \in Nat \ {0} /\ MaxPanes \in Nat /\ n \in Nat
  BY BenchAssumption DEF MapsInv, BenchAssumption
<1> HIDE DEF n
<1>3. \A i \in 1..n : PaneAt(i) \in new /\ PaneAt(i) \in Pane /\ PaneAt(i) - nextPane + 1 = i
  BY <1>1, <1>2 DEF PaneAt, Pane
<1>4. \A p \in Pane : p < nextPane => p \notin new
  BY <1>2 DEF Pane
<1>5. \A i \in 1..n : tab(PaneAt(i)) = ts[i]
  BY <1>3
<1> HIDE DEF new, tab
<1>6. \A p \in Pane : p < nextPane => number'[p] = number[p]
  BY <1>1, <1>4
<1>7. \A i \in 1..n : ts[i].kind = "shell" => number'[PaneAt(i)] = ts[i].n
  BY <1>1, <1>3, <1>5
<1> QED
  BY <1>6, <1>7 DEF n

\* Shells to build for a new workspace have numbers of their own.
ShellList(ts) ==
  /\ \A i \in 1..Len(ts) : ts[i] = ShellTab(ts[i].n) /\ ts[i] \in TabSet
  /\ \A i, j \in 1..Len(ts) : ts[i].n = ts[j].n => i = j

\* The shells of a new workspace have them too, and those of the others keep
\* theirs.
LEMMA GrowShells ==
  ASSUME BenchInv, ShellInv, NEW root \in Root, NEW inst \in Nat,
         NEW A \in Seq(TabSet), NEW S \in Seq(TabSet), ShellList(S),
         Build(root, inst, A \o S),
         NEW x, x = Bundle(root, inst, Len(A), Len(S)),
         Bundles' = Bundles \cup {x}
  PROVE  ShellInv'
<1> DEFINE ts == A \o S
           nA == Len(A)
           nS == Len(S)
<1>1. /\ nA \in Nat /\ nS \in Nat /\ ts \in Seq(TabSet) /\ Len(ts) = nA + nS
      /\ \A i \in 1..nS : ts[nA + i] = S[i] /\ nA + i \in 1..Len(ts)
  OBVIOUS
<1>2. Build(root, inst, ts) /\ x = Bundle(root, inst, nA, nS) /\ MapsInv
  BY DEF BenchInv
<1>3. /\ \A i \in 1..nS : S[i] = ShellTab(S[i].n) /\ S[i].kind = "shell"
      /\ \A i, j \in 1..nS : S[i].n = S[j].n => i = j
  BY DEF ShellList, ShellTab
<1> HIDE DEF ts, nA, nS
<1>4. /\ x.root = root /\ x.inst = inst
      /\ \A p : p \in ToSet(x.shells) <=> \E i \in 1..nS : p = PaneAt(nA + i)
  <2>1. Numbered(x, root, inst, nA, nS)
    BY <1>1, <1>2, BundlePanes
  <2> QED
    BY <2>1 DEF Numbered
<1>5. \A i \in 1..Len(ts) : ts[i].kind = "shell" => number'[PaneAt(i)] = ts[i].n
  BY <1>1, <1>2, BuildNumbers
<1>6. \A p \in Pane : p < nextPane => number'[p] = number[p]
  BY <1>1, <1>2, BuildNumbers
<1>7. /\ \A i \in 1..Len(ts) :
           /\ PaneAt(i) \in Pane /\ PaneAt(i) < nextPane' /\ ~(PaneAt(i) < nextPane)
           /\ session'[PaneAt(i)] = KeyOf(root, inst, ts[i])
           /\ agentOf'[PaneAt(i)] = ts[i].agent
           /\ ts[i].kind = "agent" => slotOf'[PaneAt(i)] = ts[i].n
      /\ \A p \in Pane : p < nextPane =>
           /\ session'[p] = session[p] /\ agentOf'[p] = agentOf[p] /\ slotOf'[p] = slotOf[p]
  BY <1>1, <1>2, BuildMaps, Zenon
<1>8. ASSUME NEW i \in 1..nS
      PROVE  /\ session'[PaneAt(nA + i)] = KeyOf(root, inst, ShellTab(S[i].n))
             /\ number'[PaneAt(nA + i)] = S[i].n
  <2> DEFINE j == nA + i
  <2>1. j \in 1..Len(ts) /\ ts[j] = S[i]
    BY <1>1
  <2> HIDE DEF j
  <2>2. ts[j].kind = "shell" /\ ts[j] = ShellTab(S[i].n) /\ ts[j].n = S[i].n
    BY <1>3, <2>1
  <2>3. session'[PaneAt(j)] = KeyOf(root, inst, ts[j]) /\ number'[PaneAt(j)] = ts[j].n
    BY <1>5, <1>7, <2>1, <2>2
  <2> QED
    BY <2>2, <2>3 DEF j
<1>9. ShelledBy(x, session', number')
  <2>1. ASSUME NEW p \in ToSet(x.shells), NEW q \in ToSet(x.shells), number'[q] = number'[p]
        PROVE  q = p
    <3>1. PICK i \in 1..nS : p = PaneAt(nA + i)
      BY <1>4
    <3>2. PICK j \in 1..nS : q = PaneAt(nA + j)
      BY <1>4
    <3>3. S[i].n = S[j].n
      BY <1>8, <2>1, <3>1, <3>2
    <3> QED
      BY <1>3, <3>1, <3>2, <3>3
  <2>2. ASSUME NEW p \in ToSet(x.shells)
        PROVE  session'[p] = KeyOf(x.root, x.inst, ShellTab(number'[p]))
    BY <1>4, <1>8
  <2> QED
    BY <2>1, <2>2 DEF ShelledBy
<1>10. ASSUME NEW b \in Bundles PROVE ShelledBy(b, session', number')
  <2>1. ShelledBy(b, session, number)
    BY DEF ShellInv
  <2>2. \A p \in ToSet(b.shells) : p \in Pane /\ p < nextPane
    BY BundlesSound DEF BenchInv, TabsInv, Fits, Tabs
  <2>3. \A p \in ToSet(b.shells) : session'[p] = session[p] /\ number'[p] \in {number[p], 0}
    BY <1>6, <1>7, <2>2
  <2> QED
    BY <2>1, <2>3, ShellsKept
<1> QED
  BY <1>9, <1>10 DEF ShellInv

\* The shells of a copy have the numbers of those of the original.
LEMMA ShellsCopied ==
  ASSUME BenchInv, ShellInv, NEW k \in 0..Len(bench.shells),
         NEW kept \in [1..k -> {p \in ToSet(bench.shells) : number[p] # 0}],
         IsShellSnapshot(kept, k)
  PROVE  ShellList(CopiedShells(k, kept))
<1>1. /\ bench \in Bundles /\ bench.shells \in Seq(Pane) /\ number \in [Pane -> Nat]
      /\ Len(bench.shells) \in Nat
  BY BenchFits DEF BenchInv, MapsInv, Bundles
<1>2. CASE k = 0
  <2>1. CopiedShells(k, kept) = <<ShellTab(1)>>
    BY <1>2 DEF CopiedShells
  <2>2. ShellTab(1) = ShellTab(ShellTab(1).n) /\ ShellTab(1) \in TabSet
    BY ShellFits DEF ShellTab
  <2> QED
    BY <2>1, <2>2 DEF ShellList
<1>3. CASE k # 0
  <2> DEFINE f(i) == ShellTab(number[kept[i]])
             c == CopiedShells(k, kept)
  <2>1. c = [i \in 1..k |-> f(i)] /\ k \in Nat
    BY <1>1, <1>3 DEF CopiedShells
  <2>2. \A i \in 1..k : kept[i] \in ToSet(bench.shells) /\ number[kept[i]] \in Nat /\ number[kept[i]] # 0
    BY <1>1, InList
  <2>3. \A i \in 1..k : f(i) \in TabSet /\ f(i).n = number[kept[i]] /\ f(i) = ShellTab(f(i).n)
    <3>1. \A n \in Nat : ShellTab(n) \in TabSet
      BY DEF TabSet
    <3>2. \A n : ShellTab(n).n = n
      BY DEF ShellTab
    <3> QED
      BY <2>2, <3>1, <3>2
  <2> HIDE DEF f, c
  <2>4. Len(c) = k /\ \A i \in 1..k : c[i] = f(i)
    BY <2>1
  <2>5. \A i, j \in 1..k : number[kept[i]] = number[kept[j]] => kept[i] = kept[j]
    BY <1>1, <2>2 DEF ShellInv, ShelledBy
  <2>6. \A i \in 1..k : Position(bench.shells, kept[i]) \in Nat
    <3> TAKE i \in 1..k
    <3>1. \E j \in 1..Len(bench.shells) : bench.shells[j] = kept[i]
      <4> DEFINE s == bench.shells
      <4>1. s \in Seq(Pane) /\ kept[i] \in ToSet(s)
        BY <1>1, <2>2
      <4> HIDE DEF s
      <4>2. \E j \in 1..Len(s) : kept[i] = s[j]
        BY <4>1, Elements
      <4> QED
        BY <4>2 DEF s
    <3>2. Position(bench.shells, kept[i]) \in 1..Len(bench.shells)
      BY <3>1 DEF Position
    <3> QED
      BY <1>1, <3>2
  <2>7. ASSUME NEW i \in 1..k, NEW j \in 1..k, kept[i] = kept[j] PROVE i = j
    <3> DEFINE at(m) == Position(bench.shells, kept[m])
    <3>1. i < j => at(i) < at(j)
      BY DEF IsShellSnapshot
    <3>2. j < i => at(j) < at(i)
      BY DEF IsShellSnapshot
    <3>3. at(i) = at(j) /\ at(i) \in Nat /\ at(j) \in Nat
      BY <2>6, <2>7
    <3> HIDE DEF at
    <3> QED
      BY <2>1, <3>1, <3>2, <3>3
  <2> QED
    BY <2>3, <2>4, <2>5, <2>7 DEF ShellList, c
<1> QED
  BY <1>2, <1>3

\* A new shell has a number that no shell beside it has.
LEMMA OpenShellOwns ==
  ASSUME BenchInv, ShellInv, OpenShell
  PROVE  ShellInv'
<1> DEFINE n == NextNumber
           ts == <<ShellTab(n)>>
           s == bench.shells
<1>1. /\ Build(bench.root, bench.inst, ts) /\ UNCHANGED stash
      /\ bench'.root = bench.root /\ bench'.inst = bench.inst /\ bench'.shells = Append(s, nextPane)
  BY BenchFields DEF OpenShell, ShowShell, NextNumber, spaces, BenchInv, BundleType
<1>2. n \in Nat \ {0} /\ \A p \in ToSet(s) : number[p] # n
  BY NumberChosen
<1> HIDE DEF n
<1>3. ts \in Seq(TabSet) /\ Len(ts) = 1 /\ ts[1] = ShellTab(n) /\ ts[1].kind = "shell" /\ ts[1].n = n
  <2>1. ShellTab(n) \in TabSet /\ ShellTab(n).kind = "shell" /\ ShellTab(n).n = n
    BY <1>2 DEF TabSet, ShellTab
  <2> QED
    BY <2>1
<1> HIDE DEF ts
<1>4. bench.root \in Root /\ bench.inst \in Nat /\ MapsInv /\ s \in Seq(Pane) /\ nextPane \in Nat
  BY BenchFits DEF BenchInv
<1>5. /\ \A i \in 1..Len(ts) : ts[i].kind = "shell" => number'[PaneAt(i)] = ts[i].n
      /\ \A p \in Pane : p < nextPane => number'[p] = number[p]
  BY <1>1, <1>3, <1>4, BuildNumbers
<1>6. /\ \A i \in 1..Len(ts) : /\ PaneAt(i) \in Pane /\ ~(PaneAt(i) < nextPane)
                               /\ session'[PaneAt(i)] = KeyOf(bench.root, bench.inst, ts[i])
      /\ \A p \in Pane : p < nextPane => session'[p] = session[p]
  BY <1>1, <1>3, <1>4, BuildMaps
<1>7. PaneAt(1) = nextPane /\ 1 \in 1..Len(ts)
  BY <1>3, <1>4 DEF PaneAt
<1>8. /\ session'[nextPane] = KeyOf(bench.root, bench.inst, ShellTab(n)) /\ number'[nextPane] = n
      /\ nextPane \in Pane
  BY <1>3, <1>5, <1>6, <1>7
<1>9. ToSet(bench'.shells) = ToSet(s) \cup {nextPane}
  BY <1>1, <1>4, <1>8, AppendSet
<1>10. ASSUME NEW b \in Bundles
       PROVE  \A p \in ToSet(b.shells) : session'[p] = session[p] /\ number'[p] = number[p]
  <2>1. \A p \in ToSet(b.shells) : p \in Pane /\ p < nextPane
    BY BundlesSound DEF BenchInv, TabsInv, Fits, Tabs
  <2> QED
    BY <1>5, <1>6, <2>1
<1>11. bench \in Bundles /\ ToSet(stash) \subseteq Bundles /\ Bundles' = {bench'} \cup ToSet(stash)
  BY <1>1 DEF Bundles
<1>12. ShelledBy(bench', session', number')
  <2>1. ShelledBy(bench, session, number)
    BY <1>11 DEF ShellInv
  <2>2. ASSUME NEW p \in ToSet(bench'.shells), number'[p] # 0
        PROVE  session'[p] = KeyOf(bench.root, bench.inst, ShellTab(number'[p]))
    <3>1. CASE p = nextPane
      BY <1>8, <3>1
    <3>2. CASE p \in ToSet(s)
      BY <1>10, <1>11, <2>1, <2>2, <3>2 DEF ShelledBy
    <3> QED
      BY <1>9, <3>1, <3>2
  <2>3. \A p \in ToSet(s) : number'[p] = number[p] /\ number'[p] # number'[nextPane]
    BY <1>2, <1>8, <1>10, <1>11
  <2>4. ASSUME NEW p \in ToSet(bench'.shells), NEW q \in ToSet(bench'.shells),
               number'[p] # 0, number'[q] = number'[p]
        PROVE  q = p
    <3>1. CASE p \in ToSet(s) /\ q \in ToSet(s)
      BY <2>1, <2>3, <2>4, <3>1 DEF ShelledBy
    <3> QED
      BY <1>9, <2>3, <2>4, <3>1
  <2> QED
    BY <1>1, <2>2, <2>4 DEF ShelledBy
<1>13. ASSUME NEW b \in ToSet(stash) PROVE ShelledBy(b, session', number')
  <2>1. ShelledBy(b, session, number) /\ b \in Bundles
    BY <1>11 DEF ShellInv
  <2>2. \A p \in ToSet(b.shells) : session'[p] = session[p] /\ number'[p] \in {number[p], 0}
    BY <1>10, <2>1
  <2> QED
    BY <2>1, <2>2, ShellsKept
<1> QED
  BY <1>11, <1>12, <1>13 DEF ShellInv

\* An operation on the active workspace that opens no shell.
LEMMA BenchShells ==
  ASSUME ShellInv, UNCHANGED stash, bench'.root = bench.root, bench'.inst = bench.inst,
         ToSet(bench'.shells) \subseteq ToSet(bench.shells),
         \A b \in Bundles' : \A p \in ToSet(b.shells) :
           session'[p] = session[p] /\ number'[p] \in {number[p], 0}
  PROVE  ShellInv'
<1>1. bench \in Bundles /\ ToSet(stash) \subseteq Bundles /\ Bundles' = {bench'} \cup ToSet(stash)
  BY DEF Bundles
<1>2. ShelledBy(bench', session', number')
  BY <1>1, ShellsKept DEF ShellInv
<1>3. ASSUME NEW b \in ToSet(stash) PROVE ShelledBy(b, session', number')
  BY <1>1, ShellsKept DEF ShellInv
<1> QED
  BY <1>1, <1>2, <1>3 DEF ShellInv

\* A pane that is in a workspace is a shell of no other.
LEMMA ShellsApart ==
  ASSUME BenchInv
  PROVE  /\ bench \in Bundles /\ bench \notin ToSet(stash)
         /\ \A b \in Bundles : \A p \in ToSet(b.shells) : p \in Pane /\ p < nextPane /\ p \in b.panes
         /\ \A b \in ToSet(stash) : b \in Bundles /\ b.panes \cap bench.panes = {}
<1>1. bench \in Bundles /\ bench \notin ToSet(stash) /\ ToSet(stash) \subseteq Bundles
  BY Places, Identified DEF BenchInv, IdInv, Bundles
<1>2. \A b \in Bundles : \A p \in ToSet(b.shells) : p \in Pane /\ p < nextPane /\ p \in b.panes
  BY BundlesSound DEF BenchInv, TabsInv, Fits, Tabs
<1> QED
  BY <1>1, <1>2 DEF BenchInv, TabsInv

\* Closing a shell frees its number.
LEMMA CloseShellOwns ==
  ASSUME BenchInv, ShellInv, NEW i \in 1..Len(bench.shells), CloseShell(i)
  PROVE  ShellInv'
<1> DEFINE s == bench.shells
           c == s[i]
<1>1. /\ UNCHANGED <<stash, number>> /\ session' = [session EXCEPT ![c] = NoKey]
      /\ bench'.root = bench.root /\ bench'.inst = bench.inst /\ bench'.shells = RemoveAt(s, i)
  BY BenchFields DEF CloseShell, DropPane, spaces, BenchInv, BundleType
<1>2. s \in Seq(Pane) /\ Once(s) /\ session \in [Pane -> SessionKey \cup {NoKey}]
  BY BenchFits DEF BenchInv, MapsInv, Fits
<1>3. ToSet(RemoveAt(s, i)) = ToSet(s) \ {c} /\ c \in ToSet(s)
  BY <1>2, RemoveAtSet, InList
<1> HIDE DEF s, c
<1>4. c \in bench.panes /\ c \in Pane
  BY <1>3, ShellsApart DEF s
<1>5. ASSUME NEW b \in Bundles', NEW p \in ToSet(b.shells) PROVE p # c /\ p \in Pane
  <2>1. CASE b = bench'
    BY <1>1, <1>3, <1>5, <2>1, ShellsApart DEF s
  <2>2. CASE b \in ToSet(stash)
    BY <1>4, <1>5, <2>2, ShellsApart
  <2> QED
    BY <1>1, <2>1, <2>2 DEF Bundles
<1>6. \A b \in Bundles' : \A p \in ToSet(b.shells) :
        session'[p] = session[p] /\ number'[p] \in {number[p], 0}
  BY <1>1, <1>2, <1>5
<1> QED
  BY <1>1, <1>3, <1>6, BenchShells DEF s

\* Closing an agent touches no shell.
LEMMA CloseAgentOwns ==
  ASSUME BenchInv, ShellInv, NEW i \in 1..Len(bench.agents), CloseAgent(i)
  PROVE  ShellInv'
<1> DEFINE c == bench.agents[i]
<1>1. /\ UNCHANGED <<stash, number>> /\ session' = [session EXCEPT ![c] = NoKey]
      /\ bench'.root = bench.root /\ bench'.inst = bench.inst /\ bench'.shells = bench.shells
  BY BenchFields DEF CloseAgent, DropPane, spaces, BenchInv, BundleType
<1>2. /\ c \in ToSet(bench.agents) /\ c \in bench.panes /\ c \notin ToSet(bench.shells)
      /\ session \in [Pane -> SessionKey \cup {NoKey}]
  <2>1. bench.agents \in Seq(Pane) /\ Fits(bench)
    BY BenchFits
  <2>2. c \in ToSet(bench.agents)
    BY <2>1, InList
  <2> QED
    BY <2>1, <2>2 DEF Fits, Tabs, BenchInv, MapsInv
<1> HIDE DEF c
<1>3. ASSUME NEW b \in Bundles', NEW p \in ToSet(b.shells) PROVE p # c /\ p \in Pane
  <2>1. CASE b = bench'
    BY <1>1, <1>2, <1>3, <2>1, ShellsApart
  <2>2. CASE b \in ToSet(stash)
    BY <1>2, <1>3, <2>2, ShellsApart
  <2> QED
    BY <1>1, <2>1, <2>2 DEF Bundles
<1>4. \A b \in Bundles' : \A p \in ToSet(b.shells) :
        session'[p] = session[p] /\ number'[p] \in {number[p], 0}
  BY <1>1, <1>2, <1>3
<1> QED
  BY <1>1, <1>4, BenchShells

\* Nor does opening one.
LEMMA OpenAgentOwns ==
  ASSUME BenchInv, ShellInv, NEW a \in Agent, OpenAgent(a)
  PROVE  ShellInv'
<1> DEFINE ts == <<AgentTab(a, FreeSlot(a))>>
<1>1. Build(bench.root, bench.inst, ts) /\ UNCHANGED stash
  BY DEF OpenAgent, spaces
<1>2. bench'.root = bench.root /\ bench'.inst = bench.inst /\ bench'.shells = bench.shells
  BY BenchFields DEF OpenAgent, BenchInv, BundleType
<1>3. ts \in Seq(TabSet)
  <2>1. AgentTab(a, FreeSlot(a)) \in TabSet
    BY SlotChosen DEF TabSet
  <2> QED
    BY <2>1
<1> HIDE DEF ts
<1>4. bench.root \in Root /\ bench.inst \in Nat /\ MapsInv
  BY BenchFits DEF BenchInv
<1>5. \A p \in Pane : p < nextPane => number'[p] = number[p]
  BY <1>1, <1>3, <1>4, BuildNumbers
<1>6. \A p \in Pane : p < nextPane => session'[p] = session[p]
  BY <1>1, <1>3, <1>4, BuildMaps
<1>7. ASSUME NEW b \in Bundles', NEW p \in ToSet(b.shells)
      PROVE  session'[p] = session[p] /\ number'[p] \in {number[p], 0}
  <2>1. p \in Pane /\ p < nextPane
    BY <1>1, <1>2, <1>7, ShellsApart DEF Bundles
  <2> QED
    BY <1>5, <1>6, <2>1
<1> QED
  BY <1>1, <1>2, <1>7, BenchShells

\* The workspaces that stay keep their shells when one is closed.
LEMMA CloseOwns ==
  ASSUME BenchInv, ShellInv, NEW l, CloseWorkspace(l)
  PROVE  ShellInv'
<1>1. PICK x \in Bundles : Bundles' = Bundles \ {x} /\ Release(x)
  BY CloseBundles DEF BenchInv
<1>2. /\ session' = [p \in Pane |-> IF p \in x.panes THEN NoKey ELSE session[p]]
      /\ number' = number
  BY <1>1 DEF Release, CloseWorkspace
<1>3. ASSUME NEW b \in Bundles' PROVE ShelledBy(b, session', number')
  <2>1. b \in Bundles /\ b.panes \cap x.panes = {} /\ ShelledBy(b, session, number)
    BY <1>1 DEF BenchInv, TabsInv, ShellInv
  <2>2. \A p \in ToSet(b.shells) : p \in Pane /\ p \notin x.panes
    BY <2>1, ShellsApart
  <2>3. \A p \in ToSet(b.shells) : session'[p] = session[p] /\ number'[p] \in {number[p], 0}
    BY <1>2, <2>2
  <2> QED
    BY <2>1, <2>3, ShellsKept
<1> QED
  BY <1>3 DEF ShellInv

\* Opening a directory and duplicating a workspace.
LEMMA NewWorkspaceOwns ==
  ASSUME BenchInv, ShellInv,
         DuplicateWorkspace \/ \E root \in Root : root \notin ToSet(order) /\ OpenWorkspace(root)
  PROVE  ShellInv'
<1>1. ASSUME NEW root \in Root, root \notin ToSet(order), OpenWorkspace(root) PROVE ShellInv'
  <2> DEFINE A == FreshAgents
             S == <<ShellTab(1)>>
  <2>1. PICK x : x = Bundle(root, 0, Len(A), 1)
    OBVIOUS
  <2>2. Build(root, 0, A \o S) /\ Inserts(x, Len(order) + 1)
    BY <1>1, <2>1, OpenInserts DEF BenchInv, FreshTabs
  <2>3. Bundles' = Bundles \cup {x}
    BY <2>2, InsertBundles DEF BenchInv
  <2>4. A \in Seq(TabSet)
    BY FirstTabs
  <2>5. S \in Seq(TabSet) /\ Len(S) = 1 /\ ShellList(S)
    <3>1. S \in Seq(TabSet) /\ Len(S) = 1 /\ S[1] = ShellTab(1) /\ ShellTab(1) \in TabSet
      BY ShellFits, FirstTabs
    <3>2. ShellTab(1) = ShellTab(ShellTab(1).n)
      BY DEF ShellTab
    <3> QED
      BY <3>1, <3>2 DEF ShellList
  <2>6. x = Bundle(root, 0, Len(A), Len(S)) /\ 0 \in Nat
    BY <2>1, <2>5
  <2> HIDE DEF A, S
  <2> QED
    BY <1>1, <2>2, <2>3, <2>4, <2>5, <2>6, GrowShells
<1>2. CASE DuplicateWorkspace
  <2>0. PICK k \in 0..Len(bench.shells) :
          \E kept \in [1..k -> {p \in ToSet(bench.shells) : number[p] # 0}] :
            IsShellSnapshot(kept, k) /\ Duplicate(k, kept)
    BY <1>2 DEF DuplicateWorkspace
  <2>1. PICK kept \in [1..k -> {p \in ToSet(bench.shells) : number[p] # 0}] :
          IsShellSnapshot(kept, k) /\ Duplicate(k, kept)
    BY <2>0
  <2> DEFINE A == CopiedAgents
             S == CopiedShells(k, kept)
  <2>2. PICK x : x = Bundle(bench.root, nextInst, Len(A), Len(S))
    OBVIOUS
  <2>3. Build(bench.root, nextInst, A \o S) /\ Inserts(x, active + 1)
    BY <2>1, <2>2, DuplicateInserts DEF BenchInv
  <2>4. A \in Seq(TabSet) /\ S \in Seq(TabSet)
    BY CopiesFit
  <2>5. ShellList(S)
    BY <2>1, ShellsCopied
  <2> HIDE DEF A, S
  <2>6. nextInst \in Nat /\ bench.root \in Root
    BY BenchFields DEF BenchInv, MapsInv
  <2>7. Bundles' = Bundles \cup {x}
    BY <2>3, InsertBundles DEF BenchInv
  <2> QED
    BY <2>2, <2>3, <2>4, <2>5, <2>6, <2>7, GrowShells
<1> QED
  BY <1>1, <1>2

\* Renaming a shell takes its number, focusing a pane takes none.
LEMMA PaneOwns ==
  ASSUME BenchInv, ShellInv, NEW p \in Pane \cup {LeftPane}, RenamePane(p) \/ FocusPane(p)
  PROVE  ShellInv'
<1>1. UNCHANGED <<stash, session>>
  BY DEF RenamePane, FocusPane, spaces
<1>2. bench'.root = bench.root /\ bench'.inst = bench.inst /\ bench'.shells = bench.shells
  <2>1. CASE RenamePane(p)
    BY <2>1 DEF RenamePane
  <2>2. CASE FocusPane(p)
    BY <2>2, BenchFields DEF FocusPane, BenchInv, BundleType
  <2> QED
    BY <2>1, <2>2
<1>3. \A q \in Pane : number'[q] \in {number[q], 0}
  BY DEF RenamePane, FocusPane, BenchInv, MapsInv
<1>4. ASSUME NEW b \in Bundles', NEW q \in ToSet(b.shells) PROVE q \in Pane
  BY <1>1, <1>2, <1>4, ShellsApart DEF Bundles
<1>5. \A b \in Bundles' : \A q \in ToSet(b.shells) :
        session'[q] = session[q] /\ number'[q] \in {number[q], 0}
  BY <1>1, <1>3, <1>4
<1> QED
  BY <1>1, <1>2, <1>5, BenchShells

\* The App starts with one shell, the first.
LEMMA ShellsInit == BenchInit => ShellInv
<1> SUFFICES ASSUME BenchInit PROVE ShellInv
  OBVIOUS
<1> DEFINE n == Len(FreshTabs)
<1>1. n \in Nat /\ n <= MaxPanes /\ n > 0 /\ FreshTabs[n] = ShellTab(1)
  BY FirstTabs, FreshLists
<1>2. n \in Pane /\ n < n + 1
  BY <1>1, BenchAssumption DEF BenchAssumption, Pane
<1>3. /\ stash = <<>> /\ bench.root = FirstRoot /\ bench.inst = 0 /\ bench.shells = <<n>>
      /\ session[n] = KeyOf(FirstRoot, 0, FreshTabs[n])
      /\ number[n] = IF FreshTabs[n].kind = "shell" THEN FreshTabs[n].n ELSE 0
  BY <1>2 DEF BenchInit
<1>4. session[n] = KeyOf(FirstRoot, 0, ShellTab(1)) /\ number[n] = 1
  BY <1>1, <1>3 DEF ShellTab
<1> HIDE DEF n
<1>5. \A p \in ToSet(bench.shells) : p = n
  BY <1>3 DEF ToSet
<1>6. Bundles = {bench}
  <2>1. ToSet(stash) = {}
    BY <1>3 DEF ToSet
  <2> QED
    BY <2>1 DEF Bundles
<1> QED
  BY <1>3, <1>4, <1>5, <1>6 DEF ShellInv, ShelledBy

\* Every operation leaves each numbered shell the key of its number.
LEMMA ShellStep == BenchInv /\ ShellInv /\ [BenchNext]_benchVars => ShellInv'
<1> SUFFICES ASSUME BenchInv, ShellInv, [BenchNext]_benchVars PROVE ShellInv'
  OBVIOUS
<1>1. ASSUME Bundles' = Bundles, UNCHANGED <<session, number>> PROVE ShellInv'
  BY <1>1 DEF ShellInv
<1>2. CASE UNCHANGED benchVars
  BY <1>1, <1>2 DEF benchVars, Bundles
<1>3. ASSUME NEW i, ActivateWorkspace(i) PROVE ShellInv'
  BY <1>1, <1>3, ActivateBundles DEF ActivateWorkspace, BenchInv
<1>4. ASSUME NEW root \in Root, OpenWorkspace(root) PROVE ShellInv'
  <2>1. CASE root \in ToSet(order)
    <3>1. \E i : ActivateWorkspace(i)
      BY <1>4, <2>1 DEF OpenWorkspace
    <3> QED
      BY <1>3, <3>1
  <2>2. CASE root \notin ToSet(order)
    BY <1>4, <2>2, NewWorkspaceOwns
  <2> QED
    BY <2>1, <2>2
<1>5. CASE DuplicateWorkspace
  BY <1>5, NewWorkspaceOwns
<1> QED
  BY <1>2, <1>3, <1>4, <1>5, CloseOwns, OpenShellOwns, OpenAgentOwns, CloseShellOwns,
     CloseAgentOwns, PaneOwns DEF BenchNext

\* Two shells that have the titles they opened with are never hosted under
\* one key, whatever was closed, renamed, duplicated or switched in between.
THEOREM ShellsHaveKeys == BenchSpec => []ShellKeysDistinct
<1>1. BenchInv /\ ShellInv => ShellKeysDistinct
  <2> SUFFICES ASSUME BenchInv, ShellInv PROVE ShellKeysDistinct
    OBVIOUS
  <2> SUFFICES ASSUME NEW b \in Bundles, NEW c \in Bundles,
                      NEW p \in ToSet(b.shells), NEW q \in ToSet(c.shells),
                      number[p] # 0, number[q] # 0, session[p] = session[q]
               PROVE  p = q
    BY DEF ShellKeysDistinct
  <2>1. ASSUME NEW d \in Bundles, NEW r \in ToSet(d.shells), number[r] # 0
        PROVE  /\ session[r].root = d.root /\ session[r].inst = d.inst
               /\ session[r].n = number[r]
    <3>1. session[r] = KeyOf(d.root, d.inst, ShellTab(number[r]))
      BY <2>1 DEF ShellInv, ShelledBy
    <3>2. r \in Pane /\ number[r] \in Nat
      BY <2>1, ShellsApart DEF BenchInv, MapsInv
    <3>3. NoSlot \notin Nat
      BY BenchAssumption DEF BenchAssumption
    <3>4. session[r] = [root |-> d.root, inst |-> d.inst, kind |-> "shell",
                        agent |-> NoAgent, n |-> number[r]]
      BY <3>1, <3>2, <3>3 DEF KeyOf, ShellTab
    <3> QED
      BY <3>4
  <2>2. b.root = c.root /\ b.inst = c.inst /\ number[p] = number[q]
    BY <2>1
  <2>3. b = c
    BY <2>2, Places, Identified DEF BenchInv, IdInv, Bundles
  <2> QED
    BY <2>2, <2>3 DEF ShellInv, ShelledBy
<1>2. BenchInit => ShellInv
  BY ShellsInit
<1> QED
  BY <1>1, <1>2, ShellStep, TabsInductive, PTL DEF BenchSpec
=============================================================================
