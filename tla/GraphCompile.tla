---------------------------- MODULE GraphCompile ----------------------------
(***************************************************************************)
(* From a configuration to an execution plan: graph.Build adds the nodes,  *)
(* then the edges, and sorts the graph (graph/graph.go); graph.Compile     *)
(* gives every node its stage and looks for branches nobody reads          *)
(* (graph/compile.go); the engine decides which of those it warns about,   *)
(* following the events and file edges that Build never saw               *)
(* (job/engine.go).  Nodes are numbers: their order is that of the IDs.    *)
(***************************************************************************)
EXTENDS Naturals, Sequences, FiniteSets, FiniteSetsExt

CONSTANTS
    Id,         \* node IDs
    Unknown,    \* an ID no node has
    Decls,      \* the lists of nodes a configuration may declare
    Edge,       \* the edges it may list
    MaxEdges    \* bound: edges it lists

Kinds == {"source", "filter_source", "filter", "go_processor", "encoder",
          "sink", "filter_sink"}
Media == {"video", "audio"}
(* media: the declared output media type; clip: a processor names it as an   *)
(* input that it opens itself.                                             *)
Decl == [id : Id, kind : Kinds, media : Media \cup {"any"}, clip : BOOLEAN]
(* port tells parallel edges apart; events and file edges carry no frames. *)
EdgeDef == [from : Id \cup {Unknown}, to : Id \cup {Unknown},
            type : Media \cup {"events"}, port : Nat]

ASSUME GraphAssumption ==
    /\ Id \subseteq Nat /\ IsFiniteSet(Id) /\ Unknown \notin Id
    /\ Decls \subseteq Seq(Decl)
    /\ IsFiniteSet(Edge) /\ Edge \subseteq EdgeDef /\ MaxEdges \in Nat

VARIABLES
    decl,       \* declarations not added yet
    node,       \* g.Nodes
    edges,      \* g.Edges
    events,     \* the configuration's events and file edges
    pc, err,    \* how far it is, and the error that ended it
    deg,        \* inDegree of topoSort
    queue, order,
    next, depth,    \* computeStages: nodes done, and their depth
    live, evLive    \* reached backward from a sink; then along events too

vars == <<decl, node, edges, events, pc, err, deg, queue, order, next, depth, live, evLive>>
sortVars == <<deg, queue, order>>
planVars == <<next, depth, live, evLive>>

Nodes == DOMAIN node
OutOf(n) == {e \in edges : e.from = n}
Into(n)  == {e \in edges : e.to = n}
IsA(n, kinds) == node[n].kind \in kinds
Sources == {n \in Nodes : IsA(n, {"source", "filter_source"})}
Sinks   == {n \in Nodes : IsA(n, {"sink", "filter_sink"})}

(* The nodes of a set as sortNodes lists them. *)
Sorted(S) == {s \in [1..Cardinality(S) -> S] :
                 /\ \A x \in S : \E i \in DOMAIN s : s[i] = x
                 /\ \A i, j \in DOMAIN s : i < j => s[i] < s[j]}

Fail(why) == pc' = "failed" /\ err' = why

Init ==
    /\ decl \in Decls /\ node = [n \in {} |-> 0] /\ edges = {} /\ events = {}
    /\ pc = "nodes" /\ err = "none"
    /\ deg = node /\ queue = <<>> /\ order = <<>>
    /\ next = 1 /\ depth = node /\ live = {} /\ evLive = {}

(* addNode, and the checks on a declared media type. *)
AddNode ==
    /\ pc = "nodes" /\ decl # <<>>
    /\ decl' = Tail(decl)
    /\ LET d == Head(decl) IN
       \/ d.id \in Nodes /\ Fail("duplicate") /\ UNCHANGED node
       \/ /\ d.id \notin Nodes
          /\ node' = [n \in Nodes \cup {d.id} |-> IF n = d.id THEN d ELSE node[n]]
          /\ IF d.media # "any" /\ d.kind # "filter"
             THEN Fail("media") ELSE UNCHANGED <<pc, err>>
    /\ UNCHANGED <<edges, events, sortVars, planVars>>

NodesAdded ==
    /\ pc = "nodes" /\ decl = <<>>
    /\ pc' = "edges"
    /\ UNCHANGED <<decl, node, edges, events, err, sortVars, planVars>>

(* The first error addEdge finds, "none" for an edge that is added. *)
EdgeError(e) ==
    IF e.from \notin Nodes \/ e.to \notin Nodes THEN "unknown"
    ELSE IF e.from = e.to THEN "self-loop"
    ELSE IF IsA(e.from, {"filter_sink"}) \/ IsA(e.to, {"filter_source"}) THEN "end"
    ELSE IF node[e.from].media \notin {"any", e.type} THEN "media"
    ELSE "none"

AddEdge(e) ==
    /\ pc = "edges" /\ e \notin edges \cup events
    /\ Cardinality(edges) + Cardinality(events) < MaxEdges
    /\ \/ /\ e.type = "events" /\ events' = events \cup {e}
          /\ UNCHANGED <<edges, pc, err>>
       \/ /\ e.type # "events" /\ UNCHANGED events
          /\ IF EdgeError(e) = "none"
             THEN edges' = edges \cup {e} /\ UNCHANGED <<pc, err>>
             ELSE UNCHANGED edges /\ Fail(EdgeError(e))
    /\ UNCHANGED <<decl, node, sortVars, planVars>>

(* topoSort counts the edges into every node, parallel ones included. *)
EdgesAdded ==
    /\ pc = "edges"
    /\ pc' = "sort"
    /\ deg' = [n \in Nodes |-> Cardinality(Into(n))]
    /\ queue' \in Sorted({n \in Nodes : deg'[n] = 0})
    /\ UNCHANGED <<decl, node, edges, events, err, order, planVars>>

(* Variant: parallel edges lower the count once. *)
LoweredOnce(n) == [m \in Nodes |-> IF OutOf(n) \cap Into(m) = {} \/ deg[m] = 0
                                   THEN deg[m] ELSE deg[m] - 1]
Lowered(n) == [m \in Nodes |-> deg[m] - Cardinality(OutOf(n) \cap Into(m))]
Ready(n)   == {m \in Nodes : Lowered(n)[m] = 0 /\ OutOf(n) \cap Into(m) # {}}

Pop ==
    /\ pc = "sort" /\ queue # <<>>
    /\ deg' = Lowered(Head(queue))
    /\ order' = Append(order, Head(queue))
    /\ \E s \in Sorted(Ready(Head(queue))) : queue' = Tail(queue) \o s
    /\ UNCHANGED <<decl, node, edges, events, pc, err, planVars>>

(* Variant: any order will do. *)
AnyLength == order # <<>>
(* Build refuses a cycle, Compile a graph without nodes. *)
Complete == Len(order) = Cardinality(Nodes)
QueueEmpty ==
    /\ pc = "sort" /\ queue = <<>>
    /\ IF ~Complete THEN Fail("cycle")
       ELSE IF order = <<>> THEN Fail("empty")
       ELSE pc' = "stages" /\ UNCHANGED err
    /\ UNCHANGED <<decl, node, edges, events, sortVars, planVars>>

(* computeStages: a predecessor the map does not hold yet counts as 0. *)
DepthOf(n) == IF n \in DOMAIN depth THEN depth[n] ELSE 0
(* Variant: the last predecessor decides. *)
LastWins(n) == IF Into(n) = {} THEN 0 ELSE DepthOf((CHOOSE e \in Into(n) : TRUE).from) + 1
Deepest(n) == Max({0} \cup {DepthOf(e.from) + 1 : e \in Into(n)})

ComputeDepth ==
    /\ pc = "stages" /\ next <= Len(order)
    /\ LET n == order[next] IN
       depth' = [m \in DOMAIN depth \cup {n} |-> IF m = n THEN Deepest(n) ELSE depth[m]]
    /\ next' = next + 1
    /\ UNCHANGED <<decl, node, edges, events, pc, err, sortVars, live, evLive>>

StagesComputed ==
    /\ pc = "stages" /\ next > Len(order)
    /\ pc' = "live" /\ live' = Sinks
    /\ UNCHANGED <<decl, node, edges, events, err, sortVars, next, depth, evLive>>

(* Stage d of the plan. *)
Stage(d) == SelectSeq(order, LAMBDA n : depth[n] = d)

(* detectDeadBranches walks backward from the sinks ... *)
WalkBack(e) ==
    /\ pc = "live" /\ e \in edges /\ e.to \in live /\ e.from \notin live
    /\ live' = live \cup {e.from}
    /\ UNCHANGED <<decl, node, edges, events, pc, err, sortVars, next, depth, evLive>>

BranchesFound ==
    /\ pc = "live" /\ \A e \in edges : e.to \in live => e.from \in live
    /\ pc' = "events" /\ evLive' = live
    /\ UNCHANGED <<decl, node, edges, events, err, sortVars, next, depth, live>>

(* ... and eventLiveNodes forward along the events edges, in any order. *)
WalkEvent(e) ==
    /\ pc = "events" /\ e \in events /\ e.from \in evLive /\ e.to \notin evLive
    /\ evLive' = evLive \cup {e.to}
    /\ UNCHANGED <<decl, node, edges, events, pc, err, sortVars, next, depth, live>>

(* Variant: one step along the events edges is enough. *)
OneStep == \A e \in events : e.from \in live => e.to \in evLive
Stable == \A e \in events : e.from \in evLive => e.to \in evLive
EventsWalked ==
    /\ pc = "events" /\ Stable
    /\ pc' = "done"
    /\ UNCHANGED <<decl, node, edges, events, err, sortVars, planVars>>

Next ==
    \/ AddNode \/ NodesAdded \/ \E e \in Edge : AddEdge(e)
    \/ EdgesAdded \/ Pop \/ QueueEmpty
    \/ ComputeDepth \/ StagesComputed
    \/ \E e \in Edge : WalkBack(e) \/ WalkEvent(e)
    \/ BranchesFound \/ EventsWalked

Spec == Init /\ [][Next]_vars

-----------------------------------------------------------------------------
(* A configuration whose own nodes are all processors. *)
OnlyProcessors ==
    LET own == {n \in Nodes : ~IsA(n, {"source", "sink"})}
    IN own # {} /\ \A n \in own : IsA(n, {"go_processor"})
Excused(n) == node[n].clip \/ OnlyProcessors

(* The warnings the engine posts. *)
DeadNode == {n \in Nodes \ live :
                /\ ~Excused(n) /\ n \notin evLive
                /\ ~(IsA(n, {"go_processor"}) /\ Into(n) # {})}
DisconnectedSource == {n \in Sources : OutOf(n) = {} /\ ~Excused(n)}

(* What Validate finds in the same graph (job/validate_topology.go): errors *)
(* about ends left open, edges the wrong way round and pads used twice, and *)
(* filters and encoders that reach no output.                               *)
Dangling == {n \in Sources : /\ OutOf(n) = {} /\ ~node[n].clip
                             /\ \A e \in events : e.from # n}
            \cup {n \in Sinks : Into(n) = {}}
WrongWay == {e \in edges : IsA(e.to, {"source"}) \/ IsA(e.from, {"sink"})}
Crowded(n) == \E e, f \in Into(n) : e # f /\ e.port = f.port /\ e.port # 0
(* Variant: encoders are forgotten. *)
UnreachableFilters == {n \in Nodes \ live : IsA(n, {"filter"})}
Unreachable == {n \in Nodes \ live : IsA(n, {"filter", "encoder"})}
Accepted == /\ Dangling = {} /\ WrongWay = {} /\ Unreachable = {}
            /\ \A n \in Nodes : ~Crowded(n)

--------------------------------------------------------------------------
Built == pc \in {"stages", "live", "events", "done"}

TypeOK ==
    /\ decl \in Seq(Decl) /\ Nodes \subseteq Id /\ node \in [Nodes -> Decl]
    /\ edges \subseteq Edge /\ events \subseteq Edge
    /\ \A e \in edges : e.from \in Nodes /\ e.to \in Nodes
    /\ pc \in {"nodes", "edges", "sort", "stages", "live", "events", "done", "failed"}
    /\ err \in {"none", "duplicate", "media", "unknown", "self-loop", "end", "cycle", "empty"}
    /\ (pc = "failed") = (err # "none")
    /\ pc \notin {"nodes", "edges"} /\ err \in {"none", "cycle", "empty"} =>
          deg \in [Nodes -> Nat]
    /\ queue \in Seq(Nodes) /\ order \in Seq(Nodes)
    /\ next \in Nat \ {0} /\ depth \in [DOMAIN depth -> Nat] /\ DOMAIN depth \subseteq Nodes
    /\ live \subseteq Nodes /\ evLive \subseteq Id \cup {Unknown}

(* A path: nodes, each joined to the next by an edge.  Nobody looks whether  *)
(* the ends of an events edge are nodes, so a chain of them joins names.    *)
PathIn(p, E) == \A i \in 1..(Len(p) - 1) : \E e \in E : e.from = p[i] /\ e.to = p[i + 1]
Paths(E) == {p \in UNION {[1..k -> Id] : k \in 1..Cardinality(Id)} : PathIn(p, E)}
Names == Id \cup {Unknown}
Chains == {p \in UNION {[1..k -> Names] : k \in 1..Cardinality(Names)} : PathIn(p, events)}

(* A graph that was built is listed sources first: every node once, and no   *)
(* edge, parallel ones and edges back into an input included, leads from a   *)
(* node to one before it (Build, "topological order").                       *)
OrderFollowsEdges ==
    Built => /\ \A n \in Nodes : \E i \in DOMAIN order : order[i] = n
             /\ \A i, j \in DOMAIN order : i # j => order[i] # order[j]
             /\ \A i, j \in DOMAIN order :
                   (\E e \in edges : e.from = order[i] /\ e.to = order[j]) => i < j

(* A set of nodes every one of which waits for another of the set. *)
Knot(C) == C # {} /\ \A n \in C : \E e \in Into(n) : e.from \in C

(* Build refuses a graph for a cycle exactly when there is one: no graph    *)
(* with a cycle is run, whose nodes would wait for each other for ever, and *)
(* no graph without is refused.                                             *)
CycleIffRefused ==
    /\ err = "cycle" => \E C \in SUBSET Nodes : Knot(C)
    /\ Built => \A C \in SUBSET Nodes : ~Knot(C)

(* The stage of a node is the length of the longest path into it, the       *)
(* earliest at which all it waits for is done (computeStages), and every    *)
(* stage up to the last has a node.                                         *)
StageIsLongestPath ==
    pc = "done" =>
        LET paths == Paths(edges) IN
        \A n \in Nodes : depth[n] = Max({Len(p) - 1 : p \in {q \in paths : q[Len(q)] = n}})

(* Nobody is told that a node's results are discarded when they reach an    *)
(* output, as frames or as events of a node that does; and a filter or an   *)
(* encoder whose results reach nothing is told of, but where all own nodes  *)
(* are processors or one of them gives its ID for an input it reads.        *)
Useful == {p[1] : p \in {q \in Paths(edges) : q[Len(q)] \in Sinks}}
Told   == LET useful == Useful
          IN {p[Len(p)] : p \in {q \in Chains : q[1] \in useful}}
DeadIsWasted ==
    pc = "done" =>
        LET heeded == Useful \cup Told IN
        /\ DeadNode \cap heeded = {}
        /\ \A n \in Nodes \ heeded :
              IsA(n, {"filter", "encoder"}) /\ ~Excused(n) => n \in DeadNode

(* In a configuration Validate has nothing against every filter and encoder *)
(* works for an output and runs without a warning that it does not, and an  *)
(* input the engine calls disconnected feeds events edges.                  *)
AcceptedIsSound ==
    pc = "done" /\ Accepted =>
        LET useful == Useful IN
        /\ \A n \in Nodes : IsA(n, {"filter", "encoder"}) => n \in useful \ DeadNode
        /\ \A n \in DisconnectedSource : \E e \in events : e.from = n

(* "Nodes are the graph nodes at this depth, sorted by ID for determinism"  *)
(* (graph/plan.go).                                                         *)
StagesSorted ==
    pc = "done" => \A d \in {depth[n] : n \in Nodes} :
        \A i, j \in DOMAIN Stage(d) : i < j => Stage(d)[i] < Stage(d)[j]
=============================================================================
