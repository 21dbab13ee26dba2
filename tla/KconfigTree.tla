----------------------------- MODULE KconfigTree -----------------------------
(***************************************************************************)
(* From Kconfig files to the tree of the configuration view.               *)
(*                                                                         *)
(* kconfiglib.py reads the files into menu nodes, linked to their next     *)
(* sibling, first child and parent (_parse_block), then propagates         *)
(* dependencies, makes submenus and removes the ifs (_finalize_tree),      *)
(* collects who depends on whom (_build_dep) and looks for dependency      *)
(* loops; kconfig2json.py writes the nodes out.  The files are not given:  *)
(* they come into being line by line as they are read.                     *)
(***************************************************************************)
EXTENDS KconfigTerms, FiniteSets, FiniteSetsExt, SequencesExt

CONSTANTS Symbols, ChoiceIds,
          NamedChoices,    \* the choices that may be defined in several places
          Grammars,        \* each: the lines a set of files is made of, and how many
          SkippedFiles,    \* those of other architectures, see is_skip_node()
          SetOrders        \* orders in which Python may iterate over a set

VARIABLES grammar, phase,
          read,            \* how many lines were read
          blocks,          \* the nested calls of _parse_block
          filestack,       \* the file being read, below those that source it
          nodes,           \* the menu nodes; the first one is the main menu
          items,           \* what symbols and choices know
          parsed,          \* history: the nodes before _finalize_tree
          loop,            \* the dependency loop found, or <<>>
          json             \* the output of build_nodetree

vars == <<grammar, phase, read, blocks, filestack, nodes, items, parsed, loop, json>>

Items == Symbols \cup ChoiceIds
Y == Const(2)
N == Const(0)
Nothing == [op |-> "nothing"]      \* no prompt; no expression

-----------------------------------------------------------------------------
(* Nodes, and the pointers between them: 0 is None.                        *)

Node(item, parent) ==
    [item |-> item, parent |-> parent, next |-> 0, list |-> 0,
     file |-> filestack[1], dep |-> Y, prompt |-> Nothing, visibility |-> Y,
     defaults |-> <<>>, ranges |-> <<>>, selects |-> <<>>, implies |-> <<>>]

Unknown == [nodes |-> <<>>, direct_dep |-> N, defaults |-> <<>>, ranges |-> <<>>,
            rev_dep |-> N, weak_rev_dep |-> N, type |-> "unknown",
            choice |-> "none", syms |-> <<>>, env |-> FALSE]

(* A node and its next siblings, in order.                                 *)
RECURSIVE Siblings(_, _)
Siblings(ns, n) == IF n = 0 THEN <<>> ELSE <<n>> \o Siblings(ns, ns[n].next)

Children(ns, n) == Siblings(ns, ns[n].list)

MakeAnd(e1, e2) ==
    CASE e1 = Y -> e2
      [] e2 = Y -> e1
      [] e1 = N \/ e2 = N -> N
      [] OTHER -> And(e1, e2)

MakeOr(e1, e2) ==
    CASE e1 = N -> e2
      [] e2 = N -> e1
      [] e1 = Y \/ e2 = Y -> Y
      [] OTHER -> Or(e1, e2)

-----------------------------------------------------------------------------
(* Reading.                                                                *)

Lines(op) == {l \in grammar.lines : l.op = op}

(* One line of _parse_properties, for the node and its symbol or choice.   *)
Property(r, p) ==
    CASE p.kind = "type"    -> [r EXCEPT !.item.type = p.type]
      [] p.kind = "env"     -> [r EXCEPT !.item.env = TRUE]
      [] p.kind = "depends" -> [r EXCEPT !.node.dep = MakeAnd(@, p.cond)]
      [] p.kind = "visible" -> [r EXCEPT !.node.visibility = MakeAnd(@, p.cond)]
      [] p.kind = "prompt"  -> [r EXCEPT !.node.prompt = p.cond]
      [] p.kind = "default" -> [r EXCEPT !.node.defaults = Append(@, <<p.value, p.cond>>)]
      [] p.kind = "range"   -> [r EXCEPT !.node.ranges = Append(@, <<p.bounds, p.cond>>)]
      [] p.kind = "select"  -> [r EXCEPT !.node.selects = Append(@, <<p.value, p.cond>>)]
      [] p.kind = "imply"   -> [r EXCEPT !.node.implies = Append(@, <<p.value, p.cond>>)]

Properties(node, item, ps) == FoldLeft(Property, [node |-> node, item |-> item], ps)

Block == blocks[1]
New == Len(nodes) + 1

\* prev.next = prev = node
Linked(ns, bs, n) ==
    /\ nodes' = [ns EXCEPT ![bs[1].prev].next = n]
    /\ blocks' = [bs EXCEPT ![1].prev = n]

Reading == phase = "reading" /\ read < grammar.max

Read == read' = read + 1 /\ UNCHANGED <<grammar, phase, parsed, loop, json>>

Config == \E l \in Lines("config") :
    /\ Reading
    /\ LET r == Properties(Node(l.item, Block.parent),
                           [items[l.item] EXCEPT !.nodes = Append(@, New)], l.properties)
       IN  /\ Linked(Append(nodes, r.node), blocks, New)
           /\ items' = [items EXCEPT ![l.item] = r.item]
    /\ Read /\ UNCHANGED filestack

Comment == \E l \in Lines("comment") :
    /\ Reading
    /\ Linked(Append(nodes, Properties([Node("comment", Block.parent) EXCEPT !.prompt = Y],
                                       Unknown, l.properties).node), blocks, New)
    /\ Read /\ UNCHANGED <<items, filestack>>

(* A node with a block of its own is linked when the block has been read.  *)
Enter(node, end) ==
    /\ nodes' = Append(nodes, node)
    /\ blocks' = <<[end |-> end, parent |-> New, prev |-> New]>> \o blocks

If == \E l \in Lines("if") :
    /\ Reading
    /\ Enter([Node("if", Block.parent) EXCEPT !.dep = l.cond], "endif")
    /\ Read /\ UNCHANGED <<items, filestack>>

Menu == \E l \in Lines("menu") :
    /\ Reading
    /\ Enter(Properties([Node("menu", Block.parent) EXCEPT !.prompt = Y],
                        Unknown, l.properties).node, "endmenu")
    /\ Read /\ UNCHANGED <<items, filestack>>

(* Every choice without a name is a new one.                               *)
Choice == \E l \in Lines("choice") :
    /\ Reading
    /\ l.item \in NamedChoices \/ items[l.item].nodes = <<>>
    /\ LET r == Properties(Node(l.item, Block.parent),
                           [items[l.item] EXCEPT !.nodes = Append(@, New)], l.properties)
       IN  /\ Enter(r.node, "endchoice")
           /\ items' = [items EXCEPT ![l.item] = r.item]
    /\ Read /\ UNCHANGED filestack

(* The end of the innermost block: the nodes after its own become its      *)
(* children.                                                               *)
End == \E l \in Lines("end") :
    /\ Reading
    /\ l.token = Block.end
    /\ LET n == Block.parent
           ended == [nodes EXCEPT ![Block.prev].next = 0]
       IN  Linked([ended EXCEPT ![n].list = ended[n].next], Tail(blocks), n)
    /\ Read /\ UNCHANGED <<items, filestack>>

(* _enter_file: a sourced file is read into the same parent.               *)
Source == \E l \in Lines("source") :
    /\ Reading
    /\ l.file \notin Range(filestack)
    /\ filestack' = <<l.file>> \o filestack
    /\ blocks' = <<[Block EXCEPT !.end = "eof"]>> \o blocks
    /\ Read /\ UNCHANGED <<nodes, items>>

LeaveFile ==
    /\ phase = "reading"
    /\ Block.end = "eof"
    /\ Len(filestack) > 1
    /\ filestack' = Tail(filestack)
    /\ nodes' = [nodes EXCEPT ![Block.prev].next = 0]
    /\ blocks' = [Tail(blocks) EXCEPT ![1].prev = Block.prev]
    /\ UNCHANGED <<grammar, phase, read, items, parsed, loop, json>>

(* The end of the top file; the main menu's children are tilted up too.    *)
Parsed ==
    /\ phase = "reading"
    /\ Block.end = "eof"
    /\ Len(filestack) = 1
    /\ LET ended == [nodes EXCEPT ![Block.prev].next = 0]
       IN  /\ nodes' = [ended EXCEPT ![1].list = ended[1].next, ![1].next = 0]
           /\ parsed' = nodes'
    /\ phase' = "parsed"
    /\ UNCHANGED <<grammar, read, blocks, filestack, items, loop, json>>

(* An exception ends the program: the wrong end of a block, an end of file *)
(* inside a block, a file that sources itself.                             *)
ParseError ==
    /\ \/ Reading /\ \E l \in Lines("end") : l.token # Block.end
       \/ phase = "reading" /\ Block.end # "eof"
       \/ Reading /\ \E l \in Lines("source") : l.file \in Range(filestack)
    /\ phase' = "error"
    /\ nodes' = <<>> /\ blocks' = <<>> /\ filestack' = <<>> /\ read' = 0
    /\ items' = [x \in Items |-> Unknown]
    /\ UNCHANGED <<grammar, parsed, loop, json>>

-----------------------------------------------------------------------------
(* _finalize_tree.  t holds the nodes and what the items know.             *)

IsSymbol(t, n) == t.nodes[n].item \in Symbols
IsChoice(t, n) == t.nodes[n].item \in ChoiceIds

(* _expr_depends_on, with the precedence Python gives its condition.       *)
RECURSIVE ExprDependsOn(_, _)
ExprDependsOn(e, x) ==
    CASE e.op = "ref" -> e.arg = x
      [] e.op = "and" -> ExprDependsOn(e.l, x) \/ ExprDependsOn(e.r, x)
      [] e.op \in {"=", "!="} ->
            /\ Ref(x) \in {e.l, e.r}
            /\ LET right == IF e.r = Ref(x) THEN e.l ELSE e.r
               IN  \/ e.op = "=" /\ right = Const(1)
                   \/ right = Y
                   \/ e.op = "!=" /\ right = N
      [] OTHER -> FALSE

\* mutant of AutoMenuDep: whatever mentions the symbol depends on it
MenuDepOnMention(t, n, x) ==
    /\ IsSymbol(t, n)
    /\ LET node == t.nodes[x]
       IN  t.nodes[n].item \in Names(IF node.prompt # Nothing THEN node.prompt ELSE node.dep)

AutoMenuDep(t, n, x) ==
    LET node == t.nodes[x]
    IN  ExprDependsOn(IF node.prompt # Nothing THEN node.prompt ELSE node.dep,
                      t.nodes[n].item)

\* mutant of Propagated: 'visible if' is left to the menu itself
PropagatedDepOnly(node, base, visibleIf) ==
    LET dep == MakeAnd(node.dep, base)
        Guarded(ps) == [k \in DOMAIN ps |-> <<ps[k][1], MakeAnd(ps[k][2], dep)>>]
    IN  [node EXCEPT !.dep = dep,
                     !.prompt = IF @ = Nothing THEN @ ELSE MakeAnd(@, dep),
                     !.defaults = Guarded(@), !.ranges = Guarded(@),
                     !.selects = Guarded(@), !.implies = Guarded(@)]

Propagated(node, base, visibleIf) ==
    LET dep == MakeAnd(node.dep, base)
        Guarded(ps) == [k \in DOMAIN ps |-> <<ps[k][1], MakeAnd(ps[k][2], dep)>>]
    IN  [node EXCEPT
           !.dep = dep,
           !.prompt = IF @ = Nothing THEN @
                      ELSE MakeAnd(@, IF node.item \in Items THEN MakeAnd(visibleIf, dep)
                                      ELSE dep),
           !.defaults = Guarded(@), !.ranges = Guarded(@),
           !.selects = Guarded(@), !.implies = Guarded(@)]

PropagateDeps(t, n, visibleIf) ==
    LET base == IF IsChoice(t, n) THEN Ref(t.nodes[n].item) ELSE t.nodes[n].dep
        children == Range(Children(t.nodes, n))
    IN  [t EXCEPT !.nodes = [i \in DOMAIN @ |->
            IF i \in children THEN Propagated(@[i], base, visibleIf) ELSE @[i]]]

(* rev_dep or weak_rev_dep of the targets of a list of selects or implies. *)
Reversed(its, field, s, targets) ==
    FoldLeft(LAMBDA is, p : [is EXCEPT ![p[1]][field] = MakeOr(@, MakeAnd(Ref(s), p[2]))],
             its, targets)

\* mutant of Added: the latest definition comes first
AddedInFront(ds, node) == node.defaults \o ds

Added(ds, node) == ds \o node.defaults

AddPropsToSym(t, n) ==
    LET node == t.nodes[n]
        s == node.item
        own == [t.items EXCEPT ![s].direct_dep = MakeOr(@, node.dep),
                               ![s].defaults = Added(@, node),
                               ![s].ranges = @ \o node.ranges]
        selected == Reversed(own, "rev_dep", s, node.selects)
    IN  [t EXCEPT !.items = Reversed(selected, "weak_rev_dep", s, node.implies)]

\* mutant of LinkedTo: the nodes after a flattened one are lost
LinkedToNothing(ns, kids, n) ==
    [i \in DOMAIN ns |->
        IF i = n THEN [ns[i] EXCEPT !.next = kids[1], !.list = 0]
        ELSE IF i \in Range(kids) THEN [ns[i] EXCEPT !.parent = ns[n].parent]
        ELSE ns[i]]

(* The children of n come after it instead.                                *)
LinkedTo(ns, kids, n) ==
    [i \in DOMAIN ns |->
        IF i = n THEN [ns[i] EXCEPT !.next = kids[1], !.list = 0]
        ELSE IF i \in Range(kids)
        THEN [ns[i] EXCEPT !.parent = ns[n].parent,
                           !.next = IF i = Last(kids) THEN ns[n].next ELSE @]
        ELSE ns[i]]

RECURSIVE Flatten(_, _)
Flatten(t, n) ==
    IF n = 0 THEN t
    ELSE LET node == t.nodes[n]
             u == IF node.list # 0 /\ node.prompt = Nothing /\ ~IsChoice(t, n)
                  THEN [t EXCEPT !.nodes = LinkedTo(@, Children(@, n), n)]
                  ELSE t
         IN  Flatten(u, u.nodes[n].next)

RemoveIfs(t, n) ==
    LET kept == SelectSeq(Children(t.nodes, n), LAMBDA i : t.nodes[i].item # "if")
        After(k) == IF k = Len(kept) THEN 0 ELSE kept[k + 1]
    IN  [t EXCEPT !.nodes = [i \in DOMAIN @ |->
            IF i = n THEN [@[i] EXCEPT !.list = IF kept = <<>> THEN 0 ELSE kept[1]]
            ELSE IF i \in Range(kept)
            THEN [@[i] EXCEPT !.next = After(CHOOSE k \in DOMAIN kept : kept[k] = i)]
            ELSE @[i]]]

(* The symbols right below a choice are its members; types are shared.     *)
FinalizeChoice(t, n) ==
    LET c == t.nodes[n].item
        added == [k \in DOMAIN Children(t.nodes, n) |-> t.nodes[Children(t.nodes, n)[k]].item]
        syms == t.items[c].syms \o SelectSeq(added, LAMBDA s : s \in Symbols)
        typed == SelectSeq(<<c>> \o syms, LAMBDA x : t.items[x].type # "unknown")
        type == IF typed = <<>> THEN "unknown" ELSE t.items[typed[1]].type
        Typed(it) == [it EXCEPT !.type = IF @ = "unknown" THEN type ELSE @]
    IN  [t EXCEPT !.items = [x \in Items |->
            IF x = c
            THEN Typed([@[x] EXCEPT !.direct_dep = MakeOr(@, t.nodes[n].dep),
                                    !.defaults = @ \o t.nodes[n].defaults,
                                    !.syms = syms])
            ELSE IF x \in Range(syms)
            THEN Typed([@[x] EXCEPT !.choice = IF x \in Range(added) THEN c ELSE @])
            ELSE @[x]]]

Finished(t, n) ==
    LET u == IF t.nodes[n].list = 0 THEN t ELSE RemoveIfs(Flatten(t, t.nodes[n].list), n)
    IN  IF IsChoice(u, n) THEN FinalizeChoice(u, n) ELSE u

RECURSIVE FinalizeTree(_, _, _), FinalizeEach(_, _, _), Submenu(_, _, _, _)
FinalizeTree(t, n, visibleIf) ==
    IF t.nodes[n].list # 0
    THEN LET vi == IF t.nodes[n].item = "menu" THEN MakeAnd(visibleIf, t.nodes[n].visibility)
                   ELSE visibleIf
             u == PropagateDeps(t, n, vi)
         IN  Finished(FinalizeEach(u, u.nodes[n].list, vi), n)
    ELSE IF IsSymbol(t, n)
    THEN Finished(Submenu(AddPropsToSym(t, n), n, n, visibleIf), n)
    ELSE Finished(t, n)

FinalizeEach(t, n, visibleIf) ==
    IF n = 0 THEN t
    ELSE LET u == FinalizeTree(t, n, visibleIf)
         IN  FinalizeEach(u, u.nodes[n].next, visibleIf)

(* The nodes after a symbol that depend on it, up to last, become its      *)
(* children.                                                               *)
Submenu(t, n, last, visibleIf) ==
    LET x == t.nodes[last].next
    IN  IF x # 0 /\ AutoMenuDep(t, n, x)
        THEN Submenu([FinalizeTree(t, x, visibleIf) EXCEPT !.nodes[x].parent = n],
                     n, x, visibleIf)
        ELSE IF last = n THEN t
        ELSE [t EXCEPT !.nodes[n].list = t.nodes[n].next,
                       !.nodes[n].next = x,
                       !.nodes[last].next = 0]

Finalize ==
    /\ phase = "parsed"
    /\ LET t == FinalizeTree([nodes |-> nodes, items |-> items], 1, Y)
       IN  nodes' = t.nodes /\ items' = t.items
    /\ phase' = "finalized"
    /\ UNCHANGED <<grammar, read, blocks, filestack, parsed, loop, json>>

-----------------------------------------------------------------------------
(* _build_dep: who depends immediately on a symbol or choice.              *)

DependsOn(x) ==
    LET it == items[x]
    IN  UNION ({Names(nodes[i].prompt) : i \in {j \in Range(it.nodes) : nodes[j].prompt # Nothing}}
          \cup {Names(d[2]) : d \in Range(it.defaults)}
          \cup IF x \in ChoiceIds THEN {}
               ELSE {Names(d[1]) : d \in Range(it.defaults)}
                    \cup {Names(r[1][1]) \cup Names(r[1][2]) \cup Names(r[2]) :
                             r \in Range(it.ranges)}
                    \cup {Names(it.rev_dep), Names(it.weak_rev_dep), Names(it.direct_dep)})

Defined(xs) == {x \in xs : items[x].nodes # <<>>}

Dependents(x) == {y \in Defined(Items) : x \in DependsOn(y)}

DefinedSyms == LET is == SelectSeq([i \in DOMAIN nodes |-> i],
                                   LAMBDA i : nodes[i].item \in Symbols)
               IN  [k \in DOMAIN is |-> nodes[is[k]].item]

\* mutant of StepsFrom: choices are left out of the search
StepsFromSymbols(x, from, order) ==
    IF x \in ChoiceIds THEN <<>>
    ELSE SelectSeq(order, LAMBDA y : y \in Dependents(x))

(* _check_dep_loop_sym and _check_dep_loop_choice in one: from is the      *)
(* choice or the member that x was reached from as its member or choice.   *)
(* _visited says how far an item has been explored; a loop is complete     *)
(* (and reported by an exception) once it is back where it was met.        *)
StepsFrom(x, from, order) ==
    IF x \in ChoiceIds THEN SelectSeq(items[x].syms, LAMBDA s : s # from)
    ELSE SelectSeq(order, LAMBDA y : y \in Dependents(x))

Found(l, x) == [loop |-> IF l.complete THEN l.loop ELSE Append(l.loop, x),
                complete |-> l.complete \/ l.loop[1] = x,
                visited |-> l.visited]

RECURSIVE CheckDepLoop(_, _, _, _), CheckEach(_, _, _, _)
CheckDepLoop(visited, x, from, order) ==
    CASE visited[x] = 2 -> [loop |-> <<>>, complete |-> FALSE, visited |-> visited]
      [] visited[x] = 1 -> [loop |-> <<x>>, complete |-> FALSE, visited |-> visited]
      [] OTHER ->
           LET entered == [visited EXCEPT ![x] = 1]
               out == CheckEach(entered, StepsFrom(x, from, order),
                                IF x \in ChoiceIds THEN x ELSE "none", order)
               c == IF x \in Symbols THEN items[x].choice ELSE "none"
               both == IF out.loop # <<>> \/ c = "none" \/ from # "none" THEN out
                       ELSE CheckDepLoop(out.visited, c, x, order)
           IN  IF both.loop = <<>> THEN [both EXCEPT !.visited[x] = 2]
               ELSE Found(both, x)

CheckEach(visited, steps, from, order) ==
    IF steps = <<>> THEN [loop |-> <<>>, complete |-> FALSE, visited |-> visited]
    ELSE LET r == CheckDepLoop(visited, Head(steps), from, order)
         IN  IF r.loop # <<>> THEN r ELSE CheckEach(r.visited, Tail(steps), from, order)

CheckDepLoops ==
    /\ phase = "finalized"
    /\ \E order \in SetOrders :
          loop' = CheckEach([x \in Items |-> 0], DefinedSyms, "none", order).loop
    /\ phase' = IF loop' = <<>> THEN "built" ELSE "loop"
    /\ UNCHANGED <<grammar, read, blocks, filestack, nodes, items, parsed, json>>

-----------------------------------------------------------------------------
(* kconfig2json.py.                                                        *)

IsSkipNode(n) == nodes[n].item \in Symbols
                 /\ (items[nodes[n].item].env \/ nodes[n].file \in SkippedFiles)

\* mutant of EntryOf: a choice without children stays
EntryUnlessSkipped(n, children) ==
    IF IsSkipNode(n) THEN <<>> ELSE <<[node |-> n, children |-> children]>>

EntryOf(n, children) ==
    IF IsSkipNode(n) \/ (nodes[n].item \in ChoiceIds /\ children = <<>>) THEN <<>>
    ELSE <<[node |-> n, children |-> children]>>

(* The entries for n and the nodes after it.  An entry is a node with its  *)
(* children; a choice without any raises a KeyError or is left out.        *)
RECURSIVE BuildNodetree(_)
BuildNodetree(n) ==
    IF n = 0 THEN [entries |-> <<>>, keyError |-> FALSE]
    ELSE LET below == IF IsSkipNode(n) THEN [entries |-> <<>>, keyError |-> FALSE]
                      ELSE BuildNodetree(nodes[n].list)
             after == BuildNodetree(nodes[n].next)
             empty == nodes[n].item \in ChoiceIds /\ below.entries = <<>>
         IN  [entries |-> EntryOf(n, below.entries) \o after.entries,
              keyError |-> \/ below.keyError
                           \/ empty /\ (nodes[n].list = 0 \/ nodes[n].prompt = Nothing)
                           \/ after.keyError]

WriteJson ==
    /\ phase = "built"
    /\ json' = BuildNodetree(nodes[1].list)
    /\ phase' = IF json'.keyError THEN "KeyError" ELSE "written"
    /\ UNCHANGED <<grammar, read, blocks, filestack, nodes, items, parsed, loop>>

Init == /\ grammar \in Grammars
        /\ phase = "reading" /\ read = 0
        /\ blocks = <<[end |-> "eof", parent |-> 1, prev |-> 1]>>
        /\ filestack = <<"Kconfig">>
        /\ nodes = <<[Node("menu", 0) EXCEPT !.prompt = Y]>>
        /\ items = [x \in Items |-> Unknown]
        /\ parsed = <<>> /\ loop = <<>>
        /\ json = [entries |-> <<>>, keyError |-> FALSE]

Next == \/ Config \/ Comment \/ If \/ Menu \/ Choice \/ End
        \/ Source \/ LeaveFile \/ Parsed \/ ParseError
        \/ Finalize \/ CheckDepLoops \/ WriteJson

Spec == Init /\ [][Next]_vars

-----------------------------------------------------------------------------
(* What is wanted of it.                                                   *)

Finalized == phase \in {"finalized", "built", "loop", "written", "KeyError"}

(* node_iter: first child, next sibling, or the next sibling of the        *)
(* nearest parent that has one.                                            *)
RECURSIVE Up(_), NodeIter(_, _)
Up(n) == IF nodes[n].next # 0 \/ n = 1 THEN nodes[n].next ELSE Up(nodes[n].parent)

NodeIter(n, fuel) ==
    LET x == IF nodes[n].list # 0 THEN nodes[n].list ELSE Up(n)
    IN  IF x = 0 \/ fuel = 0 THEN <<>> ELSE <<x>> \o NodeIter(x, fuel - 1)

AllNodes == [k \in 1..(Len(nodes) - 1) |-> k + 1]

\* Whatever is flattened, moved into submenus or removed, node_iter() visits
\* every node but the ifs, once and in definition order, as its doc says.
DefinitionOrder ==
    Finalized => NodeIter(1, Len(nodes)) = SelectSeq(AllNodes, LAMBDA n : nodes[n].item # "if")

(* What a conjunction or disjunction consists of, up to the order; a       *)
(* simplified one is the constant.                                         *)
RECURSIVE Parts(_, _)
Parts(op, e) == IF e.op = op THEN Parts(op, e.l) \cup Parts(op, e.r) ELSE {e}

Conjunction(es) == LET ps == UNION {Parts("and", e) : e \in es} \ {Y}
                   IN  IF N \in ps THEN {N} ELSE ps
Disjunction(es) == LET ps == UNION {Parts("or", e) : e \in es} \ {N}
                   IN  IF Y \in ps THEN {Y} ELSE ps

(* The conditions around a node as the files have them: its own, and the   *)
(* choice it is in or what the enclosing menus and ifs depend on.          *)
RECURSIVE Around(_), MenusAround(_)
Around(n) ==
    LET p == parsed[n].parent
    IN  {parsed[n].dep} \cup
        (IF p = 0 THEN {} ELSE IF parsed[p].item \in ChoiceIds THEN {Ref(parsed[p].item)}
         ELSE Around(p))

MenusAround(n) == LET p == parsed[n].parent
                  IN  IF p = 0 THEN {} ELSE {parsed[p].visibility} \cup MenusAround(p)

\* A node depends on its own conditions and on those of everything it is
\* written inside of, wherever it ends up in the tree; a prompt, a default, a
\* range or a select of it has these on top of its own condition, and a
\* symbol's prompt the 'visible if's of the menus around it.
DependenciesExact ==
    Finalized => \A n \in 2..Len(nodes) :
        LET new == nodes[n]
            old == parsed[n]
            outer == IF old.item \in Items THEN MenusAround(n) ELSE {}
        IN  /\ Conjunction({new.dep}) = Conjunction(Around(n))
            /\ old.prompt # Nothing =>
                  Conjunction({new.prompt}) = Conjunction({old.prompt} \cup Around(n) \cup outer)
            /\ \A list \in {"defaults", "ranges", "selects", "implies"} :
                  \A k \in DOMAIN old[list] :
                     Conjunction({new[list][k][2]}) = Conjunction({old[list][k][2]} \cup Around(n))

NodesOf(s) == SelectSeq(AllNodes, LAMBDA n : nodes[n].item = s)
TargetsOf(s) == {<<n, k>> \in (1..Len(parsed)) \X (1..2) :
                    k \in DOMAIN parsed[n].selects /\ parsed[n].selects[k][1] = s}

\* Defined in several places, a symbol has the defaults and ranges of all of
\* them in definition order (kconfiglib.py:3578-3580), depends on what one of them
\* does, and is selected by every select that names it.
PropertiesGathered ==
    Finalized => \A s \in Symbols :
        /\ \A list \in {"defaults", "ranges"} :
              items[s][list] = FlattenSeq([k \in DOMAIN NodesOf(s) |-> nodes[NodesOf(s)[k]][list]])
        /\ Disjunction({items[s].direct_dep}) = Disjunction({nodes[n].dep : n \in Range(NodesOf(s))})
        /\ Disjunction({items[s].rev_dep})
              = Disjunction({MakeAnd(Ref(nodes[p[1]].item), nodes[p[1]].selects[p[2]][2]) :
                               p \in TargetsOf(s)})

Tri == {0, 1, 2}

RECURSIVE ValueOf(_, _)
ValueOf(e, env) ==
    CASE e.op = "const" -> e.arg
      [] e.op = "ref"   -> env[e.arg]
      [] e.op = "not"   -> 2 - ValueOf(e.l, env)
      [] e.op = "and"   -> Min({ValueOf(e.l, env), ValueOf(e.r, env)})
      [] e.op = "or"    -> Max({ValueOf(e.l, env), ValueOf(e.r, env)})
      [] e.op = "="     -> IF ValueOf(e.l, env) = ValueOf(e.r, env) THEN 2 ELSE 0
      [] e.op = "!="    -> IF ValueOf(e.l, env) # ValueOf(e.r, env) THEN 2 ELSE 0

\* A submenu below a symbol holds what is there only if the symbol is not n.
SubmenusJustified ==
    Finalized => \A n \in 2..Len(nodes) :
        LET p == nodes[n].parent
            e == IF nodes[n].prompt = Nothing THEN nodes[n].dep ELSE nodes[n].prompt
        IN  nodes[p].item \in Symbols /\ nodes[n].item # "if" =>
              \A env \in [Names(e) -> Tri] : env[nodes[p].item] = 0 => ValueOf(e, env) = 0

(* What a search along dependents, from a choice to its members and, if    *)
(* back, from a member to its choice leads to.                             *)
RECURSIVE Reach(_, _)
Reach(xs, back) ==
    LET ss == xs \cap Symbols
        more == xs \cup UNION {Dependents(s) : s \in ss}
                   \cup UNION {Range(items[c].syms) : c \in xs \cap ChoiceIds}
                   \cup IF back THEN {items[s].choice : s \in ss} \ {"none"} ELSE {}
    IN  IF more = xs THEN xs ELSE Reach(more, back)

InLoop(s, back) == s \in Reach(Dependents(s), back)

\* A symbol whose value depends on itself, directly or through the choices it
\* makes up, is reported, in whatever order Python goes through its sets, and
\* what is reported is a loop if a choice's members depend on each other.
LoopsFound ==
    /\ phase \in {"built", "written", "KeyError"} => \A s \in Symbols : ~InLoop(s, FALSE)
    /\ phase = "loop" => \E s \in Range(loop) \cap Symbols : InLoop(s, TRUE)

\* kconfiglib.py:6395: "Once a symbol/choice and all its dependencies [...] have
\* been checked recursively without detecting any loops, its _visited is set to 2,
\* meaning 'visited, not part of a dependency loop'."  So no symbol that depends on
\* another member of its choice, as those "in a sense" depend on it, passes.
MemberLoopsFound ==
    phase \in {"built", "written", "KeyError"} => \A s \in Symbols : ~InLoop(s, TRUE)

RECURSIVE Flat(_)
Flat(entries) ==
    IF entries = <<>> THEN <<>>
    ELSE <<entries[1].node>> \o Flat(entries[1].children) \o Flat(Tail(entries))

RECURSIVE InSkipped(_)
InSkipped(n) == n # 1 /\ (IsSkipNode(n) \/ InSkipped(nodes[n].parent))

Below(n) == {x \in 2..Len(nodes) : nodes[x].item # "if" /\ nodes[x].parent = n}

(* A choice without anything to choose from.                               *)
RECURSIVE Bare(_)
Bare(n) == /\ nodes[n].item \in ChoiceIds
           /\ \A x \in Below(n) : IsSkipNode(x) \/ Bare(x)

\* The output has every node that is not skipped, in definition order and once,
\* except what hangs below a skipped symbol and choices with nothing in them.
JsonComplete ==
    phase = "written" =>
        Flat(json.entries) = SelectSeq(NodeIter(1, Len(nodes)), LAMBDA n : ~InSkipped(n) /\ ~Bare(n))

\* kconfig2json.py:182: "If choice has no children, it can not be use, so remove
\* from output json."
EmptyChoicesRemoved == phase # "KeyError"
=============================================================================
