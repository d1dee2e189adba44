------------------------------- MODULE NodeList -------------------------------
(***************************************************************************)
(* The list of the monitor: the nodes, under the instances (processes) and *)
(* hosts that they belong to, as far as the tracker knows, in the order of *)
(* their identifiers (app/monitor, NodeListViewModel.cpp; TrackerModel.cpp *)
(* hands over the changes). It is a tree that is shown as a list of rows.  *)
(***************************************************************************)
EXTENDS Integers, FiniteSets, FiniteSetsExt

CONSTANTS
    Nodes,
    Instances,
    Hosts,
    InstOf,    (* node: the instances it belongs to, one after the other    *)
    HostOf,    (* instance: its host                                        *)
    MaxMoves,  (* bound: how often the identifier of a node is given to a   *)
               (* node of another instance while the monitor looks on       *)
    MaxGone    (* bound: how often nodes disappear                          *)

NodeListAssumption ==
    /\ Nodes \cup Instances \cup Hosts \subseteq Nat \ {0}
    /\ InstOf \in [Nodes -> [1 .. MaxMoves + 1 -> Instances]]
    /\ HostOf \in [Instances -> Hosts]
    /\ MaxMoves \in Nat /\ MaxGone \in Nat

Unknown == 0
None == -1

VARIABLES
    place,    (* node: which of its instances it belongs to                 *)
    instKnown, hostKnown, (* what the tracker knows of nodes, of instances  *)
    together, (* it learns of an instance and its host at once              *)
    moves, gone,
    told,     (* the nodes whose last change was handed over                *)
    tree,     (* NodeListViewModel::Data                                    *)
    selected, (* <<host, instance, node>>                                   *)
    row,      (* _selectedRow                                               *)
    shown     (* what the details show: the host, the instance and the node *)
              (* of their view models, and whether SelectedItemViewModel    *)
              (* has an item at all                                         *)

trackerVars == <<place, instKnown, hostKnown, together, moves, gone>>
vars == <<trackerVars, told, tree, selected, row, shown>>

Init ==
    /\ place = [n \in Nodes |-> 1] /\ instKnown = {} /\ hostKnown = {}
    /\ together \in BOOLEAN /\ moves = 0 /\ gone = 0 /\ told = {}
    /\ tree = [hosts |-> {}, insts |-> {}, nodes |-> {},
               node2Inst |-> [n \in Nodes |-> None],
               inst2Host |-> [i \in Instances \cup {Unknown} |-> None]]
    /\ selected = <<0, 0, 0>> /\ row = -1
    /\ shown = [item |-> FALSE, ids |-> <<0, 0, 0>>]

-----------------------------------------------------------------------------
(* Rows. Each host, instance and node has one, those above it come first.  *)

(* totalCount of what is listed under a host, an instance.                 *)
InstTotal(t, h, i) == 1 + Cardinality({x \in t.nodes : x[1] = h /\ x[2] = i})
HostTotal(t, h) ==
    1 + MapThenSumSet(LAMBDA x : InstTotal(t, h, x[2]), {x \in t.insts : x[1] = h})
TotalCount(t) == MapThenSumSet(LAMBDA h : HostTotal(t, h), t.hosts)

HostsAbove(t, h) == MapThenSumSet(LAMBDA x : HostTotal(t, x), {x \in t.hosts : x < h})
InstsAbove(t, h, i) ==
    MapThenSumSet(LAMBDA x : InstTotal(t, h, x[2]), {x \in t.insts : x[1] = h /\ x[2] < i})

RowOfHost(t, h) == IF h \in t.hosts THEN HostsAbove(t, h) ELSE -1

RowOfInst(t, h, i) ==
    IF <<h, i>> \in t.insts THEN 1 + HostsAbove(t, h) + InstsAbove(t, h, i) ELSE -1

RowOfNode(t, h, i, n) ==
    IF <<h, i, n>> \in t.nodes
    THEN 2 + HostsAbove(t, h) + InstsAbove(t, h, i)
           + Cardinality({x \in t.nodes : x[1] = h /\ x[2] = i /\ x[3] < n})
    ELSE -1

(* index and onItemSelected: what the row shows.                           *)
NodeIn(t, h, i, k) ==
    CHOOSE n \in {x[3] : x \in t.nodes} :
        /\ <<h, i, n>> \in t.nodes
        /\ Cardinality({x \in t.nodes : x[1] = h /\ x[2] = i /\ x[3] < n}) = k

InHost(t, h, skip) ==
    IF skip = 0 THEN <<h, 0, 0>>
    ELSE LET i == CHOOSE x \in {y[2] : y \in t.insts} :
                     /\ <<h, x>> \in t.insts
                     /\ InstsAbove(t, h, x) <= skip - 1
                     /\ skip - 1 < InstsAbove(t, h, x) + InstTotal(t, h, x)
             rest == skip - 1 - InstsAbove(t, h, i)
         IN  IF rest = 0 THEN <<h, i, 0>> ELSE <<h, i, NodeIn(t, h, i, rest - 1)>>

ItemAt(t, r) ==
    LET h == CHOOSE x \in t.hosts :
                HostsAbove(t, x) <= r /\ r < HostsAbove(t, x) + HostTotal(t, x)
    IN  InHost(t, h, r - HostsAbove(t, h))

(* forHost, forInst, forNode: where the data of a row are looked up.       *)
ForNode(t, n) ==
    {x \in t.nodes : x[3] = n /\ x[2] = t.node2Inst[n] /\ x[1] = t.inst2Host[x[2]]}

-----------------------------------------------------------------------------
(* The tree.                                                               *)

Later(x, y) == x[1] > y[1] \/ (x[1] = y[1] /\ x[2] > y[2])

(* fixupHierarchy goes through the hosts in order: the node is taken out   *)
(* of other instances, the instance out of other hosts with all its nodes, *)
(* and what comes last decides what node2Inst and inst2Host lead to.       *)
Fixup(t, h, i, n) ==
    LET At(m) == {<<x[1], x[2]>> : x \in {y \in t.nodes : y[3] = m}}
        LastAt(m) == CHOOSE x \in At(m) : \A y \in At(m) : x = y \/ Later(x, y)
        On(j) == {x[1] : x \in {y \in t.insts : y[2] = j}}
        LastOn(j) == CHOOSE x \in On(j) : \A y \in On(j) : y <= x
        insts == {x \in t.insts : ~(x[1] # h /\ x[2] = i)}
    IN  [hosts |-> {x \in t.hosts : \E y \in insts : y[1] = x},
         insts |-> insts,
         nodes |-> {x \in t.nodes : <<x[1], x[2]>> \in insts /\ ~(x[2] # i /\ x[3] = n)},
         node2Inst |-> [m \in Nodes |->
             IF At(m) = {} THEN t.node2Inst[m]
             ELSE IF m = n /\ LastAt(m)[2] # i THEN None ELSE LastAt(m)[2]],
         inst2Host |-> [j \in DOMAIN t.inst2Host |->
             IF On(j) = {} THEN t.inst2Host[j]
             ELSE IF j = i /\ LastOn(j) # h THEN None ELSE LastOn(j)]]

(* updateNode of a node that is listed, and moves: it goes to its instance *)
(* and, when the host is another one, all others of the instance before go *)
(* with it. What is empty then goes.                                       *)
MoveNode(t, h, i, n) ==
    IF i = t.node2Inst[n] THEN t
    ELSE LET p == t.node2Inst[n]
         IN  [t EXCEPT !.nodes = (@ \ {<<t.inst2Host[p], p, n>>}) \cup {<<h, i, n>>},
                       !.node2Inst[n] = i]

MoveOthers(t, h, i, p, ph) ==
    IF h = ph THEN t
    ELSE LET others == {x \in t.nodes : x[1] = ph /\ x[2] = p /\ p # Unknown}
         IN  [t EXCEPT !.inst2Host[i] = h,
                       !.nodes = (@ \ others) \cup {<<h, i, x[3]>> : x \in others},
                       !.node2Inst = [m \in Nodes |-> IF <<ph, p, m>> \in others
                                                      THEN i ELSE @[m]]]

EraseEmpty(t, p, ph) ==
    LET insts == IF \E x \in t.nodes : x[1] = ph /\ x[2] = p
                 THEN t.insts ELSE t.insts \ {<<ph, p>>}
    IN  [t EXCEPT !.insts = insts,
                  !.hosts = IF \E x \in insts : x[1] = ph THEN @ ELSE @ \ {ph}]

AddNode(t, h, i, n) ==
    [t EXCEPT !.nodes = @ \cup {<<h, i, n>>}, !.node2Inst[n] = i, !.inst2Host[i] = h]

UpdateNode(t0, h, i, n) ==
    LET t == [t0 EXCEPT !.hosts = @ \cup {h}, !.insts = @ \cup {<<h, i>>}]
        p == t.node2Inst[n]
        ph == t.inst2Host[p]
        moved == EraseEmpty(MoveOthers(MoveNode(t, h, i, n), h, i, p, ph), p, ph)
    IN  IF p = None THEN Fixup(AddNode(t, h, i, n), h, i, n)
        ELSE IF h # Unknown /\ i # Unknown /\ moved # t THEN Fixup(moved, h, i, n) ELSE t

(* removeNode; inst2Host stays as it is.                                   *)
RemoveNode(t, n) ==
    LET nodes == {x \in t.nodes : x[3] # n}
        insts == {x \in t.insts : \E y \in nodes : y[1] = x[1] /\ y[2] = x[2]}
    IN  [t EXCEPT !.node2Inst[n] = None, !.nodes = nodes, !.insts = insts,
                  !.hosts = {x \in @ : \E y \in insts : y[1] = x}]

(* updateSelection, findSelectedRow. Mutant: the host is forgotten.        *)
UpdateSelectionInst(t) ==
    LET n == selected[3]
        i == t.node2Inst[n]
    IN  IF n = Unknown THEN selected
        ELSE IF i = None THEN <<0, 0, 0>> ELSE <<selected[1], i, n>>

UpdateSelection(t) ==
    LET n == selected[3]
        i == t.node2Inst[n]
    IN  IF n = Unknown THEN selected
        ELSE IF i = None THEN <<0, 0, 0>>
        ELSE <<IF t.inst2Host[i] = None THEN selected[1] ELSE t.inst2Host[i], i, n>>

FindRow(t, s) ==
    IF s[3] # Unknown THEN RowOfNode(t, s[1], s[2], s[3])
    ELSE IF s[2] # Unknown THEN RowOfInst(t, s[1], s[2]) ELSE RowOfHost(t, s[1])

(* The details follow what is selected.                                    *)
Show(s) == shown' = [item |-> TRUE, ids |-> s]
ShowNothing == shown' = [item |-> FALSE, ids |-> <<0, 0, 0>>]

AfterHierarchyChanged ==
    /\ selected' = UpdateSelection(tree')
    /\ row' = FindRow(tree', selected')
    /\ IF selected' = selected THEN UNCHANGED shown
       ELSE IF row' < 0 THEN ShowNothing ELSE Show(selected')

-----------------------------------------------------------------------------
(* What the tracker knows of a node.                                       *)
Inst(n) == IF n \in instKnown THEN InstOf[n][place[n]] ELSE Unknown
Host(n) == IF Inst(n) \in hostKnown THEN HostOf[Inst(n)] ELSE Unknown

LearnInstance(n) ==
    /\ told' = told \ {n}
    /\ n \notin instKnown /\ instKnown' = instKnown \cup {n}
    /\ hostKnown' = IF together THEN hostKnown \cup {InstOf[n][place[n]]} ELSE hostKnown
    /\ UNCHANGED <<place, together, moves, gone, tree, selected, row, shown>>

LearnHost(i) ==
    /\ told' = {n \in told : Inst(n) # i}
    /\ i \notin hostKnown /\ hostKnown' = hostKnown \cup {i}
    /\ \E n \in instKnown : Inst(n) = i
    /\ UNCHANGED <<place, instKnown, together, moves, gone, tree, selected, row, shown>>

Move(n) ==
    /\ told' = told \ {n}
    /\ moves < MaxMoves /\ moves' = moves + 1
    /\ place' = [place EXCEPT ![n] = @ + 1]
    /\ instKnown' = instKnown \ {n}
    /\ UNCHANGED <<hostKnown, together, gone, tree, selected, row, shown>>

OnNodeChanged(n) ==
    /\ told' = told \cup {n}
    /\ tree' = UpdateNode(tree, Host(n), Inst(n), n)
    /\ IF tree.node2Inst[n] # None /\ RowOfNode(tree', Host(n), Inst(n), n) >= 0
          /\ tree'.nodes = tree.nodes
       THEN UNCHANGED <<selected, row, shown>> ELSE AfterHierarchyChanged
    /\ UNCHANGED trackerVars

OnNodeDisappeared(n) ==
    /\ told' = told \ {n}
    /\ gone < MaxGone /\ gone' = gone + 1
    /\ tree' = RemoveNode(tree, n)
    /\ IF tree'.nodes # tree.nodes \/ tree'.insts # tree.insts
       THEN AfterHierarchyChanged ELSE UNCHANGED <<selected, row, shown>>
    /\ instKnown' = instKnown \ {n}
    /\ UNCHANGED <<place, hostKnown, together, moves>>

(* Bound: the monitor's user selects an item when none is selected, or     *)
(* unselects.                                                              *)
OnItemSelected(r) ==
    /\ selected = <<0, 0, 0>> \/ r = -1
    /\ row' = r
    /\ selected' = IF r < 0 THEN <<0, 0, 0>> ELSE ItemAt(tree, r)
    /\ IF r < 0 THEN ShowNothing ELSE Show(selected')
    /\ UNCHANGED <<trackerVars, told, tree>>

Next ==
    \/ \E n \in Nodes :
          LearnInstance(n) \/ Move(n) \/ OnNodeChanged(n) \/ OnNodeDisappeared(n)
    \/ \E i \in Instances : LearnHost(i)
    \/ \E r \in -1 .. TotalCount(tree) - 1 : OnItemSelected(r)

Spec == Init /\ [][Next]_vars

(* No node is listed twice, every row shows the item that has it, and the  *)
(* data of the node in a row are found.                                    *)
RowsShowItems ==
    /\ \A x, y \in tree.nodes : x[3] = y[3] => x = y
    /\ \A x \in tree.nodes : ForNode(tree, x[3]) = {x}
    /\ \A x \in tree.nodes : ItemAt(tree, RowOfNode(tree, x[1], x[2], x[3])) = x
    /\ \A x \in tree.insts : ItemAt(tree, RowOfInst(tree, x[1], x[2])) = <<x[1], x[2], 0>>
    /\ \A h \in tree.hosts : ItemAt(tree, RowOfHost(tree, h)) = <<h, 0, 0>>

(* The node that is selected stays selected, wherever it goes: the row     *)
(* that is highlighted is its row after every change above it, and the     *)
(* details are those of the node, the instance and the host. Nodes are     *)
(* never lost from the list when the host of an instance is known as soon  *)
(* as the instance.                                                        *)
SelectionFollows ==
    selected[3] # Unknown =>
        /\ row = FindRow(tree, selected)
        /\ together => selected \in tree.nodes /\ shown = [item |-> TRUE, ids |-> selected]

(* When the list was told the last of every node, each is listed where it  *)
(* belongs, if the host of an instance was known as soon as the instance   *)
(* and no node went to another one: without that some are not listed.      *)
NodesSettle ==
    told = Nodes /\ instKnown = Nodes /\ together /\ moves = 0 =>
        tree.nodes = {<<Host(n), Inst(n), n>> : n \in Nodes}
=============================================================================
