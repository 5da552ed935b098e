------------------------------- MODULE Workbench -------------------------------
(***************************************************************************)
(* Workspace tabs and the panes in them (rimeterm-tui, app.rs and          *)
(* workspace.rs; TabGroup of rimeterm-core).  The active workspace lives   *)
(* in the App's own fields, the others in a stash that has no slot for the *)
(* active one, so that a logical index means another slot after every      *)
(* switch; workspaces, instances and stash are parallel lists.  Sessions   *)
(* of all workspaces are in one map by pane, and each is hosted by the     *)
(* daemon under a key made of the workspace and the tab.                   *)
(*                                                                         *)
(* The App is one thread; its operations come from keys, the mouse and     *)
(* the queue of pane mutations that IPC fills.  Of the tab groups those    *)
(* that open and close are modelled, agents and shells; the fixed ones in  *)
(* the left column are one pane, LeftPane.  Indices count from 1.          *)
(*                                                                         *)
(* One operation that opens an agent tab is left out: a session resumed    *)
(* from history (new_resumed_agent_tab) gets a key of another kind and is  *)
(* in neither pane_agent_id nor the remembered tabs; see README.  Tabs     *)
(* that a launch restores from disk are left out too: a workspace opens as *)
(* if nothing were remembered of it, or as a copy.                         *)
(***************************************************************************)
EXTENDS Naturals, Sequences, FiniteSets, SequencesExt

CONSTANTS
  Root,        \* directories opened as workspaces
  Agent,       \* agent ids of the registry
  Preset,      \* agents.tabs of the configuration, a sequence of agents
  NoAgent, NoKey,
  NoSlot,      \* of a pane that is not in pane_agent_slot
  FirstRoot,   \* the workspace the App starts with
  MaxTabs,     \* MembersPolicy::Open { max }
  MaxPanes,    \* panes of a behaviour (bound)
  MaxSpaces    \* workspaces open at a time (bound)

\* What the daemon hosts the session of a pane under.
SessionKey == [root : Root, inst : Nat, kind : {"agent", "shell"},
               agent : Agent \cup {NoAgent}, n : Nat]

ASSUME BenchAssumption ==
  /\ FirstRoot \in Root /\ Preset \in Seq(Agent) /\ NoAgent \notin Agent /\ NoSlot \notin Nat
  /\ NoKey \notin SessionKey
  /\ MaxTabs \in Nat \ {0} /\ MaxSpaces \in Nat \ {0}
  /\ MaxPanes \in Nat \ {0, 1} /\ MaxPanes > Len(Preset)

Pane == 1..MaxPanes
LeftPane == 0

VARIABLES
  order, instances,  \* ws_order, ws_instances
  active,            \* active_ws
  bench,             \* the active workspace's fields
  stash,             \* ws_stash
  session,           \* session_writes: the key of a pane's session
  agentOf, slotOf,   \* pane_agent_id, pane_agent_slot
  number,            \* the n of a pane titled "shell-n", 0 of any other
  nextPane, nextInst,
  refused            \* history: panes of agents that found the group full

benchVars == <<order, instances, active, bench, stash, session, agentOf, slotOf,
               number, nextPane, nextInst, refused>>
spaces == <<order, instances, active, stash>>

Tabs(b) == ToSet(b.agents) \cup ToSet(b.shells)
Bundles == {bench} \cup ToSet(stash)
MaxOf(S) == CHOOSE n \in S : \A m \in S : m <= n
MinOf(S) == CHOOSE n \in S : \A m \in S : m >= n

-----------------------------------------------------------------------------
(* A new workspace: build_workspace_bundle.                                *)

\* A pane to build: its agent and slot, or its shell number, or the picker
\* that holds the agents group open while it has no agent.  A configured
\* agent is given no slot, and the key of slot 0.
Picker == [agent |-> NoAgent, n |-> 0, kind |-> "picker"]
AgentTab(a, slot) == [agent |-> a, n |-> slot, kind |-> "agent"]
PresetTab(i) == AgentTab(Preset[i], NoSlot)
ShellTab(n) == [agent |-> NoAgent, n |-> n, kind |-> "shell"]

KeyOf(root, inst, t) ==
  IF t.kind = "picker" THEN NoKey
  ELSE [root |-> root, inst |-> inst, kind |-> t.kind, agent |-> t.agent,
        n |-> IF t.n = NoSlot THEN 0 ELSE t.n]

\* The agents group of a new workspace: the configured agents, else those
\* remembered, else the picker.
AgentTabs(remembered) ==
  IF Preset # <<>> THEN [i \in 1..Len(Preset) |-> PresetTab(i)]
  ELSE IF remembered = <<>> THEN <<Picker>> ELSE remembered

\* A workspace nothing is remembered of has one shell.
FreshAgents == AgentTabs(<<>>)
FreshTabs == FreshAgents \o <<ShellTab(1)>>

\* The panes from nextPane on are built for the tabs in the list ts; root
\* and inst make the key prefix.
Build(root, inst, ts) ==
  LET new == nextPane..(nextPane + Len(ts) - 1)
      tab(p) == ts[p - nextPane + 1]
  IN /\ nextPane + Len(ts) - 1 <= MaxPanes
     /\ session' = [p \in Pane |-> IF p \in new THEN KeyOf(root, inst, tab(p)) ELSE session[p]]
     /\ agentOf' = [p \in Pane |-> IF p \in new THEN tab(p).agent ELSE agentOf[p]]
     /\ slotOf' = [p \in Pane |-> IF p \in new /\ tab(p).kind = "agent" THEN tab(p).n ELSE slotOf[p]]
     /\ number' = [p \in Pane |-> IF p \in new /\ tab(p).kind = "shell" THEN tab(p).n ELSE number[p]]
     /\ nextPane' = nextPane + Len(ts)

\* The workspace these panes make, the first nAgents being the agents group.
Bundle(root, inst, nAgents, nShells) ==
  [root |-> root, inst |-> inst,
   agents |-> [i \in 1..nAgents |-> nextPane + i - 1], agentsActive |-> 1,
   shells |-> [i \in 1..nShells |-> nextPane + nAgents + i - 1], shellsActive |-> 1,
   panes |-> nextPane..(nextPane + nAgents + nShells - 1), focus |-> LeftPane]

BenchInit ==
  /\ order = <<FirstRoot>> /\ instances = <<0>> /\ active = 1 /\ stash = <<>>
  /\ nextPane = Len(FreshTabs) + 1 /\ nextInst = 1 /\ refused = {}
  /\ LET has(p, kind) == p < nextPane /\ FreshTabs[p].kind = kind
     IN /\ session = [p \in Pane |-> IF p < nextPane THEN KeyOf(FirstRoot, 0, FreshTabs[p]) ELSE NoKey]
        /\ agentOf = [p \in Pane |-> IF p < nextPane THEN FreshTabs[p].agent ELSE NoAgent]
        /\ slotOf = [p \in Pane |-> IF has(p, "agent") THEN FreshTabs[p].n ELSE NoSlot]
        /\ number = [p \in Pane |-> IF has(p, "shell") THEN FreshTabs[p].n ELSE 0]
  /\ bench = [root |-> FirstRoot, inst |-> 0,
              agents |-> [i \in 1..Len(FreshAgents) |-> i], agentsActive |-> 1,
              shells |-> <<Len(FreshTabs)>>, shellsActive |-> 1,
              panes |-> 1..Len(FreshTabs), focus |-> LeftPane]

-----------------------------------------------------------------------------
(* Switching.                                                              *)

Slot(logical, act) == IF logical < act THEN logical ELSE logical - 1

\* Slip: the outgoing workspace goes into the slot the incoming one had.
Swapped_sameSlot(logical, st) ==
  InsertAt(RemoveAt(st, Slot(logical, active)), Slot(logical, active), bench)

\* The stash st after a switch to logical: the outgoing workspace goes where
\* its index is once the other is active.
Swapped(logical, st) ==
  InsertAt(RemoveAt(st, Slot(logical, active)), Slot(active, logical), bench)

\* switch_workspace, with the stash as the caller has left it.
SwitchTo(logical, st) ==
  /\ active' = logical
  /\ bench' = st[Slot(logical, active)]
  /\ stash' = Swapped(logical, st)

ActivateWorkspace(i) ==
  /\ i \in 1..Len(order) /\ i # active
  /\ SwitchTo(i, stash)
  /\ UNCHANGED <<order, instances, session, agentOf, slotOf, number, nextPane, nextInst, refused>>

\* A root that is open is activated, the first of its workspaces if there
\* are several; another is appended and activated.
OpenWorkspace(root) ==
  \/ /\ root \in ToSet(order)
     /\ ActivateWorkspace(MinOf({i \in 1..Len(order) : order[i] = root}))
  \/ /\ root \notin ToSet(order) /\ Len(order) < MaxSpaces
     /\ Build(root, 0, FreshTabs)
     /\ order' = Append(order, root) /\ instances' = Append(instances, 0)
     /\ SwitchTo(Len(order) + 1, Append(stash, Bundle(root, 0, Len(FreshAgents), 1)))
     /\ UNCHANGED <<nextInst, refused>>

\* The agents of a workspace; the picker is among the tabs only by itself.
\* (The only other tab without an agent would be a resumed one.)
Agents(b) == IF \E p \in ToSet(b.agents) : agentOf[p] = NoAgent THEN <<>> ELSE b.agents

Position(s, p) == CHOOSE i \in 1..Len(s) : s[i] = p

\* The shells whose title has a number and whose process id is known, in
\* their order: k of them, any that have a number.
IsShellSnapshot(kept, k) ==
  \A i, j \in 1..k : i < j => Position(bench.shells, kept[i]) < Position(bench.shells, kept[j])

\* The copy opens with the tabs of the original, to the right of it, under
\* keys of its own.
Duplicate(k, kept) ==
  LET agentTabs == AgentTabs([i \in 1..Len(Agents(bench)) |->
                                AgentTab(agentOf[bench.agents[i]], slotOf[bench.agents[i]])])
      shellTabs == IF k = 0 THEN <<ShellTab(1)>> ELSE [i \in 1..k |-> ShellTab(number[kept[i]])]
      target == active + 1
  IN /\ Build(bench.root, nextInst, agentTabs \o shellTabs)
     /\ nextInst' = nextInst + 1
     /\ order' = InsertAt(order, target, bench.root)
     /\ instances' = InsertAt(instances, target, nextInst)
     /\ SwitchTo(target, InsertAt(stash, Slot(target, active),
                                  Bundle(bench.root, nextInst, Len(agentTabs), Len(shellTabs))))

DuplicateWorkspace ==
  /\ Len(order) < MaxSpaces
  /\ \E k \in 0..Len(bench.shells) :
       \E kept \in [1..k -> {p \in ToSet(bench.shells) : number[p] # 0}] :
         IsShellSnapshot(kept, k) /\ Duplicate(k, kept)
  /\ UNCHANGED refused

\* Slip: the sessions of the closed workspace are left alone.
Release_keepsSessions(b) ==
  /\ agentOf' = [p \in Pane |-> IF p \in b.panes THEN NoAgent ELSE agentOf[p]]
  /\ UNCHANGED session

\* release_workspace_bundle: every session of a closed workspace is killed.
Release(b) ==
  /\ session' = [p \in Pane |-> IF p \in b.panes THEN NoKey ELSE session[p]]
  /\ agentOf' = [p \in Pane |-> IF p \in b.panes THEN NoAgent ELSE agentOf[p]]

\* A neighbour replaces the active workspace before its stash slot is looked
\* up.  (Closing the last one quits the App.)
CloseWorkspace(logical) ==
  /\ logical \in 1..Len(order) /\ Len(order) > 1
  /\ LET heir == IF logical # active THEN active
                 ELSE IF logical < Len(order) THEN logical + 1 ELSE logical - 1
         left == IF heir = active THEN stash ELSE Swapped(heir, stash)
         slot == Slot(logical, heir)
     IN /\ bench' = IF heir = active THEN bench ELSE stash[Slot(heir, active)]
        /\ stash' = RemoveAt(left, slot)
        /\ Release(left[slot])
        /\ refused' = refused \ left[slot].panes
        /\ active' = IF logical < heir THEN heir - 1 ELSE heir
  /\ order' = RemoveAt(order, logical) /\ instances' = RemoveAt(instances, logical)
  /\ UNCHANGED <<slotOf, number, nextPane, nextInst>>

-----------------------------------------------------------------------------
(* Tabs of the active workspace.                                           *)

\* The tab of the pane about to be built joins the shells and is shown.
ShowShell ==
  bench' = [bench EXCEPT !.shells = Append(@, nextPane), !.shellsActive = Len(bench.shells) + 1,
                         !.panes = @ \cup {nextPane}, !.focus = nextPane]

\* Slip: the number is the position of the new tab.
OpenShell_count ==
  /\ Len(bench.shells) < MaxTabs
  /\ Build(bench.root, bench.inst, <<ShellTab(Len(bench.shells) + 1)>>)
  /\ ShowShell
  /\ UNCHANGED <<spaces, nextInst, refused>>

\* new_shell_tab_in.  The number comes from the titles, the key from it.
OpenShell ==
  /\ Len(bench.shells) < MaxTabs
  /\ LET n == MaxOf({number[p] : p \in ToSet(bench.shells)} \cup {0}) + 1
     IN Build(bench.root, bench.inst, <<ShellTab(n)>>)
  /\ ShowShell
  /\ UNCHANGED <<spaces, nextInst, refused>>

\* Slip: the slot is the number of tabs the agent has.
FreeSlot_count(a) == Cardinality({p \in ToSet(bench.agents) : agentOf[p] = a})

\* The smallest slot no tab of the agent has in this workspace.
FreeSlot(a) ==
  MinOf(0..Len(bench.agents) \ {slotOf[p] : p \in {q \in ToSet(bench.agents) : agentOf[q] = a}})

\* Slip: the picker stays beside the agent.
OpenAgent_keepsPicker(a) ==
  /\ Len(bench.agents) < MaxTabs
  /\ Build(bench.root, bench.inst, <<AgentTab(a, FreeSlot(a))>>)
  /\ bench' = [bench EXCEPT !.agents = Append(@, nextPane), !.agentsActive = Len(bench.agents) + 1,
                            !.panes = @ \cup {nextPane}, !.focus = nextPane]
  /\ UNCHANGED <<spaces, nextInst, refused>>

\* new_agent_tab_in_cwd.  The session is there before the group is asked,
\* and stays when the group is full.
OpenAgent(a) ==
  /\ Build(bench.root, bench.inst, <<AgentTab(a, FreeSlot(a))>>)
  /\ \/ /\ Len(bench.agents) < MaxTabs
        /\ LET tabs == Agents(bench)
               swept == ToSet(bench.agents) \ ToSet(tabs)
           IN bench' = [bench EXCEPT !.agents = Append(tabs, nextPane), !.agentsActive = Len(tabs) + 1,
                                     !.panes = (@ \ swept) \cup {nextPane}, !.focus = nextPane]
        /\ UNCHANGED refused
     \/ /\ Len(bench.agents) >= MaxTabs
        /\ bench' = [bench EXCEPT !.panes = @ \cup {nextPane}]
        /\ refused' = refused \cup {nextPane}
  /\ UNCHANGED <<spaces, nextInst>>

\* drop_pane_and_session, with the maps by pane.
DropPane(p) ==
  /\ session' = [session EXCEPT ![p] = NoKey]
  /\ agentOf' = [agentOf EXCEPT ![p] = NoAgent]
  /\ UNCHANGED <<spaces, slotOf, number, nextPane, nextInst, refused>>

Least(m, n) == IF m < n THEN m ELSE n

CloseShell(i) ==
  /\ i \in 1..Len(bench.shells) /\ Len(bench.shells) > 1
  /\ DropPane(bench.shells[i])
  /\ LET rest == RemoveAt(bench.shells, i)
         act == Least(bench.shellsActive, Len(rest))
     IN bench' = [bench EXCEPT !.shells = rest, !.shellsActive = act,
                               !.panes = @ \ {bench.shells[i]}, !.focus = rest[act]]

\* Slip: the active index is neither shifted nor clamped, and the focus
\* goes where it points or stays.
CloseAgent_staleIndex(i) ==
  /\ i \in 1..Len(bench.agents) /\ Len(bench.agents) > 1
  /\ DropPane(bench.agents[i])
  /\ LET rest == RemoveAt(bench.agents, i)
     IN bench' = [bench EXCEPT !.agents = rest, !.panes = @ \ {bench.agents[i]},
                               !.focus = IF bench.agentsActive <= Len(rest)
                                         THEN rest[bench.agentsActive] ELSE bench.focus]

\* close_tab_in_group with try_close: the last tab stays, and the active
\* index follows the tab it pointed to.
CloseAgent(i) ==
  /\ i \in 1..Len(bench.agents) /\ Len(bench.agents) > 1
  /\ DropPane(bench.agents[i])
  /\ LET rest == RemoveAt(bench.agents, i)
         act == Least(IF i < bench.agentsActive THEN bench.agentsActive - 1
                      ELSE bench.agentsActive, Len(rest))
     IN bench' = [bench EXCEPT !.agents = rest, !.agentsActive = act,
                               !.panes = @ \ {bench.agents[i]}, !.focus = rest[act]]

\* rename_pane_by_id, to a title that is no shell's.
RenamePane(p) ==
  /\ p \in ToSet(bench.shells) /\ number[p] # 0
  /\ number' = [number EXCEPT ![p] = 0]
  /\ UNCHANGED <<spaces, bench, session, agentOf, slotOf, nextPane, nextInst, refused>>

FocusPane(p) ==
  /\ p \in Tabs(bench) \cup {LeftPane} /\ p # bench.focus
  /\ bench' = [bench EXCEPT !.focus = p,
                 !.agentsActive = IF p \in ToSet(bench.agents)
                                  THEN Position(bench.agents, p) ELSE @]
  /\ UNCHANGED <<spaces, session, agentOf, slotOf, number, nextPane, nextInst, refused>>

-----------------------------------------------------------------------------
BenchNext ==
  \/ \E i \in 1..Len(order) : ActivateWorkspace(i) \/ CloseWorkspace(i)
  \/ \E root \in Root : OpenWorkspace(root)
  \/ DuplicateWorkspace
  \/ OpenShell \/ \E a \in Agent : OpenAgent(a)
  \/ \E i \in 1..Len(bench.shells) : CloseShell(i)
  \/ \E i \in 1..Len(bench.agents) : CloseAgent(i)
  \/ \E p \in Pane \cup {LeftPane} : RenamePane(p) \/ FocusPane(p)

BenchSpec == BenchInit /\ [][BenchNext]_benchVars

-----------------------------------------------------------------------------
(* Properties.                                                             *)

BundleType == [root : Root, inst : Nat, agents : Seq(Pane), agentsActive : Nat \ {0},
               shells : Seq(Pane), shellsActive : Nat \ {0}, panes : SUBSET Pane,
               focus : Pane \cup {LeftPane}]

BenchTypeOK ==
  /\ order \in Seq(Root) /\ instances \in Seq(Nat)
  /\ active \in 1..Len(order)
  /\ Bundles \subseteq BundleType
  /\ \A b \in Bundles : Agents(b) = <<>> => Len(b.agents) = 1
  /\ session \in [Pane -> SessionKey \cup {NoKey}] /\ agentOf \in [Pane -> Agent \cup {NoAgent}]
  /\ slotOf \in [Pane -> Nat \cup {NoSlot}] /\ number \in [Pane -> Nat]
  /\ nextPane \in 1..(MaxPanes + 1) /\ nextInst \in Nat \ {0}
  /\ refused \subseteq Pane

\* Through every sequence of opening, duplicating, switching and closing the
\* lists stay parallel: the fields of the App are those of the workspace
\* active_ws names, and the stash slot of every other holds that one.
BundlesInPlace ==
  /\ Len(order) = Len(instances) /\ Len(order) = Len(stash) + 1
  /\ \A l \in 1..Len(order) :
       LET b == IF l = active THEN bench ELSE stash[Slot(l, active)]
       IN b.root = order[l] /\ b.inst = instances[l]

\* A session lives exactly as long as a tab shows it: none is killed under a
\* tab of a workspace in the stash, none outlives its tab or its workspace.
\* (Except those of agents that found their group full, see OpenAgent.  Tabs
\* of resumed sessions are not modelled, see the head of the module.)
SessionsHaveTabs ==
  LET live  == {p \in Pane : session[p] # NoKey}
      shown == UNION {ToSet(b.shells) \cup ToSet(Agents(b)) : b \in Bundles}
  IN shown \subseteq live /\ live \subseteq shown \cup refused

\* Two agent tabs, of whatever workspaces, are never hosted under one key:
\* the daemon would give the second the session of the first and take it
\* from that one.  (Tabs opened, duplicated or configured while the program
\* runs; resumed ones and those restored from disk are not modelled.)
AgentKeysDistinct ==
  \A b, c \in Bundles : \A p \in ToSet(b.agents), q \in ToSet(c.agents) :
    session[p] = session[q] => p = q \/ session[p] = NoKey

\* Two shell tabs, of whatever workspaces, that still have the titles they
\* opened with are never hosted under one key, though numbers are chosen
\* from titles and a copy's tabs keep those of the original.  (A shell that
\* was renamed gives up its number, and its key, to the next one.)
ShellKeysDistinct ==
  \A b, c \in Bundles : \A p \in ToSet(b.shells), q \in ToSet(c.shells) :
    number[p] # 0 /\ number[q] # 0 /\ session[p] = session[q] => p = q

\* The focus of a workspace, active or stashed, is on a pane it shows.
FocusShown == \A b \in Bundles : b.focus \in Tabs(b) \cup {LeftPane}
=============================================================================
