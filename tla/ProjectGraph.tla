---------------------------- MODULE ProjectGraph ----------------------------
(***************************************************************************)
(* The project IR and what is read from it.  The mappers walk the members  *)
(* of a workspace file by file and append nodes and edges (a file under    *)
(* two members, a package and the workspace's root package, is walked      *)
(* twice).  The explorer then lays the files out as crates, modules, files *)
(* and symbols, whole, as an overview, or below one cluster; the toolbench *)
(* gathers the neighbourhood of a selection.                               *)
(***************************************************************************)
EXTENDS Naturals, Sequences, FiniteSets, SequencesExt

CONSTANTS SourcePaths, \* paths below the root, each a sequence of segments
          Texts,       \* path -> what its file may hold
          FeatureFlags,\* the features that the manifests of the members declare
          MaxWalked,   \* bound: files walked
          MaxNodes, MaxHops \* ir_neighborhood's, 24 and 2 in the code

\* What the scanners find in a file, in the order of its lines.
TextFields == {"fns", "impls", "macros", "vars", "calls", "cfgs", "templates", "signals"}

\* A path is never a directory on another one's way.
ASSUME GraphAssumption ==
    /\ SourcePaths \subseteq Seq(STRING) \ {<<>>}
    /\ \A p, q \in SourcePaths : Len(p) < Len(q) => SubSeq(q, 1, Len(p)) # p
    /\ \A p \in SourcePaths : \A t \in Texts[p] :
           DOMAIN t = TextFields /\ \A f \in TextFields : t[f] \in Seq(ToSet(t[f]))
    /\ MaxWalked \in Nat /\ MaxNodes \in Nat /\ MaxHops \in Nat

VARIABLES texts,      \* path -> its text, or NoText while it has not been walked
          irFiles,    \* file_graph.nodes
          irSymbols,  \* symbol_graph.nodes
          irFlows,    \* ids of dataflow_graph.nodes
          irFeatures, \* feature_graph.nodes: [id, feature]
          irEdges,    \* the edges of the four graphs
          idsByName,  \* symbol_ids_by_name
          mapped,     \* the builder is done
          view,       \* the last explorer graph
          search      \* ir_neighborhood: [seeds, queue, visited, ordered]

graphVars == <<texts, irFiles, irSymbols, irFlows, irFeatures, irEdges, idsByName, mapped, view, search>>

NoText == [fns |-> <<>>]
NoView == [nodes |-> <<>>, edges |-> <<>>, of |-> <<"none">>]
NoSearch == [seeds |-> {}, queue |-> <<>>, visited |-> {}, ordered |-> <<>>]
GraphInit ==
    /\ texts = [p \in SourcePaths |-> NoText]
    /\ irFiles = <<>> /\ irSymbols = <<>> /\ irFlows = {} /\ irFeatures = {} /\ irEdges = {}
    /\ idsByName = <<>> /\ mapped = FALSE
    /\ view = NoView /\ search = NoSearch
-----------------------------------------------------------------------------
(* The mappers.  A function is known by file and name, not by line; the    *)
(* line of a macro stands for its line and column, which its id has both.  *)
FileId(p) == <<"file", p>>
FunctionId(p, f) == <<"symbol", p, f>>
DeclId(p, kind, d) == <<"symbol", p, kind, d.name, d.line>>
FlowId(s) == <<"dataflow", s>>
VarId(p, v) == <<"dataflow:var", p, v.name, v.line>>
FeatureId(p, d) == <<"feature", p, d.name, d.line>>
Edge(from, to, relation) == [from |-> from, to |-> to, relation |-> relation]
Symbol(id, p, kind, d) == [id |-> id, file |-> p, kind |-> kind, name |-> d.name, line |-> d.line]

SymbolsOf(p, t) ==
    LET functions == [i \in DOMAIN t.fns |-> Symbol(FunctionId(p, t.fns[i].name), p, "function", t.fns[i])]
        Others(kind, ds) == [i \in DOMAIN ds |-> Symbol(DeclId(p, kind, ds[i]), p, kind, ds[i])]
    IN  functions \o Others("macro_call", t.macros) \o Others("trait_impl_method", t.impls)
        \o Others("circom_template", t.templates) \o Others("circom_signal", t.signals)

\* The last template of its name stands for all of them.
TemplateOf(p, t, signal) ==
    LET named == {i \in DOMAIN t.templates : t.templates[i].name = signal.template}
    IN  IF named = {} THEN FileId(p)
        ELSE DeclId(p, "circom_template", t.templates[CHOOSE i \in named : \A j \in named : j <= i])
ContainsEdges(p, t) ==
    {Edge(FileId(p), s.id, "contains") : s \in {x \in ToSet(SymbolsOf(p, t)) : x.kind # "circom_signal"}}
    \cup {Edge(TemplateOf(p, t, s), DeclId(p, "circom_signal", s),
               IF TemplateOf(p, t, s) = FileId(p) THEN "contains" ELSE "declares_signal") : s \in ToSet(t.signals)}
InvokesMacro(p, t) ==
    {Edge(FunctionId(p, m.caller), DeclId(p, "macro_call", m), "invokes_macro")
        : m \in {x \in ToSet(t.macros) : x.caller # "none"}}
LetFlows(p, t) ==
    {Edge(FlowId(FunctionId(p, v.fn)), VarId(p, v), "parameter_flow") : v \in {x \in ToSet(t.vars) : x.fn # "none"}}

IdsNamed(names, n) == IF n \in DOMAIN names THEN names[n] ELSE {}
\* A call reaches every symbol of that name that has been walked so far.
CallsOf(p, t, names) ==
    UNION {LET from == FunctionId(p, c.caller) IN
           UNION {{Edge(from, to, "calls"), Edge(FlowId(from), FlowId(to), "parameter_flow"),
                   Edge(FlowId(to), FlowId(from), "return_flow")} : to \in IdsNamed(names, c.callee)}
           : c \in ToSet(t.calls)}
NamesWith(p, t) ==
    LET found == {<<f.name, FunctionId(p, f.name)>> : f \in ToSet(t.fns)}
                 \cup {<<m.method, DeclId(p, "trait_impl_method", m)>> : m \in ToSet(t.impls)}
    IN  [n \in DOMAIN idsByName \cup {x[1] : x \in found} |->
            IdsNamed(idsByName, n) \cup {x[2] : x \in {y \in found : y[1] = n}}]
\* The first line of a feature in a file.
NewFeatures(p, t) ==
    {[id |-> FeatureId(p, t.cfgs[i]), feature |-> t.cfgs[i].name]
        : i \in {k \in DOMAIN t.cfgs : /\ \A j \in 1..k - 1 : t.cfgs[j].name # t.cfgs[k].name
                                       /\ texts[p] = NoText}}

WalkFile == \E p \in SourcePaths : \E t \in Texts[p] :
    /\ ~mapped /\ Len(irFiles) < MaxWalked
    /\ texts[p] \in {NoText, t}
    /\ texts' = [texts EXCEPT ![p] = t]
    /\ irFiles' = Append(irFiles, p)
    /\ irSymbols' = irSymbols \o SymbolsOf(p, t)
    /\ idsByName' = NamesWith(p, t)
    /\ irFlows' = irFlows \cup {FlowId(FunctionId(p, f.name)) : f \in ToSet(t.fns)} \cup {VarId(p, v) : v \in ToSet(t.vars)}
    /\ irFeatures' = irFeatures \cup NewFeatures(p, t)
    /\ irEdges' = irEdges \cup ContainsEdges(p, t) \cup InvokesMacro(p, t) \cup LetFlows(p, t) \cup CallsOf(p, t, NamesWith(p, t))
                  \cup {Edge(FileId(p), f.id, "cfg_divergence") : f \in NewFeatures(p, t)}
    /\ UNCHANGED <<mapped, view, search>>

\* merge_workspace_feature_flags adds the flags that no source file names.
UnnamedFlags == {[id |-> <<"feature", flag>>, feature |-> flag]
                    : flag \in FeatureFlags \ {f.feature : f \in irFeatures}}
Mapped ==
    /\ ~mapped /\ mapped' = TRUE
    /\ irFeatures' = irFeatures \cup UnnamedFlags
    /\ UNCHANGED <<texts, irFiles, irSymbols, irFlows, irEdges, idsByName, view, search>>
-----------------------------------------------------------------------------
(* The explorer graph.  Requests only read the IR: one is followed, an     *)
(* explorer graph or a neighbourhood.                                      *)
TempId(kind, place) == [kind |-> kind, place |-> place]
Node(kind, place) == [id |-> TempId(kind, place), kind |-> kind, children |-> 0]
Branch(p, d) == IF d = 1 THEN TempId("crate", <<p[1]>>) ELSE TempId("module", SubSeq(p, 1, d))
ParentDepth(p) == IF Len(p) = 1 THEN 1 ELSE Len(p) - 1
Hierarchy(p) ==
    [nodes |-> <<Node("crate", <<p[1]>>), Node("file", p)>>
               \o [i \in 1..ParentDepth(p) - 1 |-> Node("module", SubSeq(p, 1, i + 1))],
     edges |-> [i \in 1..ParentDepth(p) - 1 |-> Edge(Branch(p, i), Branch(p, i + 1), "contains")]
               \o <<Edge(Branch(p, ParentDepth(p)), TempId("file", p), "contains")>>]
\* A symbol is known by file, name and line here.
SymbolTemp(s) == TempId("symbol", Append(s.file, <<s.name, s.line>>))
SymbolNodes == [i \in DOMAIN irSymbols |-> Node("symbol", SymbolTemp(irSymbols[i]).place)]
SymbolEdges == [i \in DOMAIN irSymbols |->
                    Edge(TempId("file", irSymbols[i].file), SymbolTemp(irSymbols[i]), "contains")]
\* sym_id_map: the last symbol of an id stands for it; other edges are dropped.
SymIds == {s.id : s \in ToSet(irSymbols)}
TempOf(id) ==
    LET at == {i \in DOMAIN irSymbols : irSymbols[i].id = id}
    IN  SymbolTemp(irSymbols[CHOOSE i \in at : \A j \in at : j <= i])
CrossEdges ==
    LET between == {e \in irEdges : e.from \in SymIds /\ e.to \in SymIds}
    IN  SetToSeq({Edge(TempOf(e.from), TempOf(e.to), e.relation) : e \in between})

\* Vec::retain, of the elements at the positions that keep names.
Retain(s, keep) ==
    LET kept[i \in 0..Len(s)] ==
            IF i = 0 THEN <<>> ELSE IF i \in keep THEN Append(kept[i - 1], s[i]) ELSE kept[i - 1]
    IN  kept[Len(s)]
DedupeNodesNot(ns) == ns
DedupeNodes(ns) == Retain(ns, {i \in DOMAIN ns : \A j \in 1..i - 1 : ns[j].id # ns[i].id})
DedupeEdges(es) == Retain(es, {i \in DOMAIN es : \A j \in 1..i - 1 : es[j] # es[i]})

\* hash_id of a node's kind and temporary id: collisions of 48 bits are not modelled.
Hashed(ns, id) == IF \E i \in DOMAIN ns : ns[i].id = id THEN <<id.kind, "hash", id>> ELSE <<"temp", "id", id>>
Children(es, id) == Cardinality({i \in DOMAIN es : es[i].relation = "contains" /\ es[i].from = id})
Laid(full) ==
    LET trees == [i \in DOMAIN irFiles |-> Hierarchy(irFiles[i])]
        ns == DedupeNodes(FlattenSeq([i \in DOMAIN trees |-> trees[i].nodes]) \o (IF full THEN SymbolNodes ELSE <<>>))
        es == DedupeEdges(FlattenSeq([i \in DOMAIN trees |-> trees[i].edges])
                          \o (IF full THEN SymbolEdges \o CrossEdges ELSE <<>>))
        hashed == [i \in DOMAIN es |-> [es[i] EXCEPT !.from = Hashed(ns, @), !.to = Hashed(ns, @)]]
    IN  [nodes |-> [i \in DOMAIN ns |-> [ns[i] EXCEPT !.id = Hashed(ns, @),
                                                      !.children = Children(hashed, Hashed(ns, ns[i].id))]],
         edges |-> hashed, of |-> <<IF full THEN "full" ELSE "overview">>]

\* filter_to_cluster follows contains edges, as many as there are at most, and
\* leaves the cluster itself out.
OneDown(es, found) ==
    found \cup {e.to : e \in {x \in ToSet(es) : x.relation = "contains" /\ x.from \in found}}
Descendants(es, cluster) ==
    LET within[k \in 0..Len(es)] ==
            IF k = 0 THEN {cluster} ELSE OneDown(es, within[k - 1])
    IN  within[Len(es)]
Below(g, cluster) ==
    LET chosen == Descendants(g.edges, cluster) \ {cluster}
    IN  [nodes |-> Retain(g.nodes, {i \in DOMAIN g.nodes : g.nodes[i].id \in chosen}),
         edges |-> Retain(g.edges, {i \in DOMAIN g.edges : {g.edges[i].from, g.edges[i].to} \subseteq chosen}),
         of |-> cluster]

Explore ==
    /\ mapped /\ view = NoView /\ search = NoSearch
    /\ \/ \E full \in BOOLEAN : view' = Laid(full)
       \/ \E n \in ToSet(Laid(TRUE).nodes) : view' = Below(Laid(TRUE), n.id)
    /\ UNCHANGED <<texts, irFiles, irSymbols, irFlows, irFeatures, irEdges, idsByName, mapped, search>>
-----------------------------------------------------------------------------
(* ir_neighborhood, from the nodes that a selection of the toolbench names: *)
(* a file, or every symbol of a name.                                      *)
Selections == {{FileId(p)} : p \in ToSet(irFiles)}
              \cup {{s.id : s \in {x \in ToSet(irSymbols) : x.name = n}} : n \in {s.name : s \in ToSet(irSymbols)}}
Adjacent(id) == {e.to : e \in {x \in irEdges : x.from = id}} \cup {e.from : e \in {x \in irEdges : x.to = id}}

Select == \E seeds \in Selections :
    /\ mapped /\ view = NoView /\ search = NoSearch
    /\ search' = [seeds |-> seeds, visited |-> seeds, ordered |-> <<>>,
                  queue |-> [i \in 1..Cardinality(seeds) |-> [id |-> SetToSeq(seeds)[i], hops |-> 0]]]
    /\ UNCHANGED <<texts, irFiles, irSymbols, irFlows, irFeatures, irEdges, idsByName, mapped, view>>

Searching == search.queue # <<>> /\ Len(search.ordered) < MaxNodes
\* One turn of the loop.
PopDeepest ==
    LET head == Head(search.queue)
        fresh == IF head.hops < MaxHops THEN Adjacent(head.id) \ search.visited ELSE {}
        next == [i \in 1..Cardinality(fresh) |-> [id |-> SetToSeq(fresh)[i], hops |-> head.hops + 1]]
    IN  search' = [search EXCEPT !.ordered = Append(@, head.id), !.queue = next \o Tail(@), !.visited = @ \cup fresh]
Pop ==
    LET head == Head(search.queue)
        fresh == IF head.hops < MaxHops THEN Adjacent(head.id) \ search.visited ELSE {}
        next == [i \in 1..Cardinality(fresh) |-> [id |-> SetToSeq(fresh)[i], hops |-> head.hops + 1]]
    IN  search' = [search EXCEPT !.ordered = Append(@, head.id), !.queue = Tail(@) \o next, !.visited = @ \cup fresh]
Gather ==
    /\ Searching /\ Pop
    /\ UNCHANGED <<texts, irFiles, irSymbols, irFlows, irFeatures, irEdges, idsByName, mapped, view>>

GraphNext == WalkFile \/ Mapped \/ Explore \/ Select \/ Gather
GraphSpec == GraphInit /\ [][GraphNext]_graphVars
-----------------------------------------------------------------------------
GraphTypeOK ==
    /\ irFiles \in Seq(SourcePaths) /\ Len(irFiles) <= MaxWalked
    /\ \A s \in ToSet(irSymbols) : s.file \in ToSet(irFiles)
    /\ \A p \in SourcePaths : texts[p] \in {NoText} \cup Texts[p]
    /\ mapped \in BOOLEAN /\ Len(search.ordered) <= MaxNodes

ViewIds == {n.id : n \in ToSet(view.nodes)}
Parents(id) == {e.from : e \in {x \in ToSet(view.edges) : x.relation = "contains" /\ x.to = id}}

Inside(cluster, id) ==
    LET c == cluster[3] n == id[3] IN
    IF c.kind = "crate" THEN n.kind # "crate" /\ n.place[1] = c.place[1]
    ELSE n.kind # "crate" /\ Len(n.place) > Len(c.place) /\ SubSeq(n.place, 1, Len(c.place)) = c.place

\* The graph below a cluster holds exactly what lies inside it by path, also
\* where calls, flows and signals join its symbols to others.
ClusterIsSubtree ==
    view.of \notin {<<"none">>, <<"full">>, <<"overview">>} =>
        ViewIds = {n.id : n \in {m \in ToSet(Laid(TRUE).nodes) : Inside(view.of, m.id)}}

\* An explorer graph that is not cut to a cluster is a forest over the crates,
\* whatever members overlap and whatever names repeat: ids are unique, edges
\* join nodes of the graph, every other node has one parent, and the count on
\* a crate, module or file is that of its children; one that is cut holds what
\* lies inside its cluster (ExplorerGraphBuilder::build).
ViewIsForest ==
    /\ ClusterIsSubtree
    /\ view.of \in {<<"full">>, <<"overview">>} =>
        /\ Cardinality(ViewIds) = Len(view.nodes)
        /\ \A e \in ToSet(view.edges) : e.from \in ViewIds /\ e.to \in ViewIds
        /\ \A n \in ToSet(view.nodes) :
               /\ Cardinality(Parents(n.id)) = IF n.kind = "crate" THEN 0 ELSE 1
               /\ n.children = Cardinality({m \in ToSet(view.nodes) : n.id \in Parents(m.id)})

\* What is at most h edges away from the selection.
OneHop(ids) == ids \cup UNION {Adjacent(id) : id \in ids}
Ball[h \in 0..MaxHops] == IF h = 0 THEN search.seeds ELSE OneHop(Ball[h - 1])

\* The neighbourhood of a selection is never over its limit, names no node
\* twice, holds only nodes within the hops, and all of them unless it is full;
\* what it leaves out then is no nearer than what it holds.
NearestFirst ==
    /\ Len(search.ordered) <= MaxNodes
    /\ ~Searching =>
        /\ Cardinality(ToSet(search.ordered)) = Len(search.ordered)
        /\ ToSet(search.ordered) \subseteq Ball[MaxHops]
        /\ Len(search.ordered) < MaxNodes => ToSet(search.ordered) = Ball[MaxHops]
        /\ \A h \in 0..MaxHops : ToSet(search.ordered) \subseteq Ball[h] \/ Ball[h] \subseteq ToSet(search.ordered)
=============================================================================
