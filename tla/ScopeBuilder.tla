----------------------------- MODULE ScopeBuilder -----------------------------
(***************************************************************************)
(* The graph of a scope, as it is compiled when the scope is finished      *)
(* (progress/subgraph.rs: SubgraphBuilder::reorganize_edges and build;     *)
(* progress/reachability.rs: Builder, is_acyclic, summarize_outputs,       *)
(* allocate_from).                                                         *)
(*                                                                         *)
(* The edges that data take are led round a device wrapper through its     *)
(* ghosts.  A worklist removes what no path leads to, to see whether a     *)
(* cycle leaves timestamps as they are; another walks back from the scope  *)
(* outputs and collects, for every port, the minimal summaries of the      *)
(* paths to each output.  The scope reports by these what its operators'   *)
(* capabilities may become outside.                                        *)
(***************************************************************************)
EXTENDS Integers, Sequences, FiniteSets, SequencesExt

CONSTANTS
  Graphs,           \* the scopes to build, see below
  Summary,          \* the path summaries
  SummaryLeq(_, _), \* PartialOrder::less_equal on them
  FollowedBy(_, _), \* PathSummary::followed_by: the set of at most one summary
  Identity          \* Default::default()

\* A port is a triple <<node, "in" or "out", index>>; node 0 is the scope itself.  A
\* graph has
\*   ports:   its ports,
\*   edges:   pairs <<output, input>> of ports, those of edge_stash,
\*   inner:   [<<input, output>> of one node -> set of summaries],
\*   wrapper: a node, or 0 if there is none,
\*   ghosts:  the sequence of its ghosts, nodes of one input and one output.

VARIABLES
  graph,
  phase,      \* "reorganize", "acyclic", "summarize", "done"
  edges,      \* the edges added to the reachability builder
  in_degree,  \* is_acyclic's, a function of the ports left
  ready,      \* is_acyclic's worklist
  acyclic,    \* what it returns
  worklist,   \* summarize_outputs', of triples <<port, output, summary>>
  results     \* [port -> [output -> set of summaries]]

vars == <<graph, phase, edges, in_degree, ready, acyclic, worklist, results>>

In(n) == <<n, "in", 0>>
Out(n) == <<n, "out", 0>>

Tracked == {p \in graph.ports : graph.wrapper = 0 \/ p[1] # graph.wrapper}
Internal(p, q) == IF <<p, q>> \in DOMAIN graph.inner THEN graph.inner[<<p, q>>] ELSE {}
Outputs == {p \in graph.ports : p[1] = 0 /\ p[2] = "in"}

-----------------------------------------------------------------------------
(* SubgraphBuilder *)

\* What fed the wrapper and what it fed, in one variable each of reorganize_edges: of the
\* edges into it, and of those out of it, the last in edge_stash; port 0 of the scope
\* itself if there is none.
StartSources ==
  LET fed == {e[1] : e \in {d \in graph.edges : d[2][1] = graph.wrapper}}
  IN  IF fed = {} THEN {Out(0)} ELSE fed

EndTargets ==
  LET read == {e[2] : e \in {d \in graph.edges : d[1][1] = graph.wrapper /\ d[2][1] # graph.wrapper}}
  IN  IF read = {} THEN {In(0)} ELSE read

\* The edges that lead round the wrapper: to its first ghost, from its last, and through
\* the ghosts.
Around(start_source, end_target) ==
  {<<start_source, In(graph.ghosts[1])>>,
   <<Out(graph.ghosts[Len(graph.ghosts)]), end_target>>}
    \cup {<<Out(graph.ghosts[k]), In(graph.ghosts[k + 1])>> : k \in 1 .. Len(graph.ghosts) - 1}

\* reorganize_edges, and the count of is_acyclic over the edges it leaves: each input has
\* one from each edge, each output one from each identity that leads to it.
Reorganize ==
  /\ phase = "reorganize"
  /\ \/ graph.wrapper = 0 /\ edges' = graph.edges
     \/ /\ graph.wrapper # 0
        /\ \E start_source \in StartSources, end_target \in EndTargets :
             edges' = {e \in graph.edges : graph.wrapper \notin {e[1][1], e[2][1]}}
                        \cup Around(start_source, end_target)
  /\ LET degree == [p \in Tracked |->
                      Cardinality({e \in edges' : e[2] = p})
                        + Cardinality({q \in Tracked : Identity \in Internal(q, p)})]
     IN  /\ in_degree' = [p \in {q \in Tracked : degree[q] # 0} |-> degree[p]]
         /\ ready' = {p \in Tracked : degree[p] = 0}
  /\ phase' = "acyclic"
  /\ UNCHANGED <<graph, acyclic, worklist, results>>

-----------------------------------------------------------------------------
(* is_acyclic *)

MutantFollowers(p) == {e[2] : e \in {d \in edges : d[1] = p}}

\* Where a default summary leads.
Followers(p) ==
  IF p[2] = "out" THEN {e[2] : e \in {d \in edges : d[1] = p}}
  ELSE {q \in Tracked : Identity \in Internal(p, q)}

\* One turn of the loop: a port that nothing leads to, of whatever order the map has.
RemovePort(p) ==
  /\ phase = "acyclic" /\ p \in ready
  /\ LET left == [q \in DOMAIN in_degree |->
                    in_degree[q] - (IF q \in Followers(p) THEN 1 ELSE 0)]
         free == {q \in DOMAIN left : left[q] = 0}
     IN  /\ in_degree' = [q \in DOMAIN left \ free |-> left[q]]
         /\ ready' = (ready \ {p}) \cup free
  /\ UNCHANGED <<graph, phase, edges, acyclic, worklist, results>>

\* "Acyclic graphs should reduce to empty collections."  A cycle is printed, no more;
\* then summarize_outputs begins at the edges that lead to scope outputs.
AllRemoved ==
  /\ phase = "acyclic" /\ ready = {}
  /\ acyclic' = (DOMAIN in_degree = {})
  /\ worklist' = SetToSeq({<<e[2], e[2], Identity>> : e \in {d \in edges : d[2][1] = 0}})
  /\ phase' = "summarize"
  /\ UNCHANGED <<graph, edges, in_degree, ready, results>>

-----------------------------------------------------------------------------
(* summarize_outputs *)

\* Antichain::insert: whether it inserts, and what it leaves.
Novel(A, s) == ~ \E r \in A : SummaryLeq(r, s)

Inserted(A, s) == IF Novel(A, s) THEN {r \in A : ~SummaryLeq(s, r)} \cup {s} ELSE A

\* The reverse edge map keeps one source for each target: the last, by node and port.
ReverseEdge(p) ==
  LET sources == {e[1] : e \in {d \in edges : d[2] = p}}
  IN  {q \in sources :
         \A r \in sources : r[1] < q[1] \/ (r[1] = q[1] /\ r[3] <= q[3])}

\* What a path summary becomes at the ports before one: up the operator, whose summaries
\* to this output it follows, or back along the edge.
Behind(p, s) ==
  IF p[2] = "out"
  THEN UNION {{<<q, c>> : c \in UNION {FollowedBy(r, s) : r \in Internal(q, p)}} : q \in Tracked}
  ELSE {<<q, s>> : q \in ReverseEdge(p)}

\* The inserts of one turn, as they are made one after the other.
InsertAll(o, found) ==
  FoldLeft(LAMBDA a, f :
             IF Novel(a.results[f[1]][o], f[2])
             THEN [results |-> [a.results EXCEPT ![f[1]][o] = Inserted(@, f[2])],
                   new |-> Append(a.new, <<f[1], o, f[2]>>)]
             ELSE a,
           [results |-> results, new |-> <<>>], found)

\* One turn of the loop.
Walk ==
  /\ phase = "summarize" /\ worklist # <<>>
  /\ LET entry == Head(worklist)
         all   == InsertAll(entry[2], SetToSeq(Behind(entry[1], entry[3])))
     IN  /\ results' = all.results
         /\ worklist' = Tail(worklist) \o all.new
  /\ UNCHANGED <<graph, phase, edges, in_degree, ready, acyclic>>

\* allocate_from takes the results over.
Walked ==
  /\ phase = "summarize" /\ worklist = <<>>
  /\ phase' = "done"
  /\ UNCHANGED <<graph, edges, in_degree, ready, acyclic, worklist, results>>

-----------------------------------------------------------------------------
Init ==
  /\ graph \in Graphs
  /\ phase = "reorganize"
  /\ edges = {} /\ in_degree = [p \in {} |-> 0] /\ ready = {} /\ acyclic = FALSE
  /\ worklist = <<>>
  /\ results = [p \in graph.ports |-> [o \in Outputs |-> {}]]

Next ==
  \/ Reorganize
  \/ \E p \in ready : RemovePort(p)
  \/ AllRemoved \/ Walk \/ Walked

Spec == Init /\ [][Next]_vars

-----------------------------------------------------------------------------
(* What the results should be, over the edges that the data take *)

\* The wrapper hands on what it is given, as its ghosts do; they have no edges.
DataHops(p, q, s) ==
  IF p[2] = "out" THEN IF <<p, q>> \in graph.edges THEN {s} ELSE {}
  ELSE UNION {FollowedBy(r, s) :
                r \in IF graph.wrapper # 0 /\ p = In(graph.wrapper) /\ q = Out(graph.wrapper)
                      THEN {Identity} ELSE Internal(p, q)}

\* Everything a path from a port to the output o may do to a timestamp, to as many hops
\* as can make a difference: a set of pairs of port and summary.
Along(o) ==
  LET within[n \in Nat] ==
        IF n = 0 THEN {<<o, Identity>>}
        ELSE LET shorter == within[n - 1]
             IN  shorter \cup UNION {UNION {{<<p, s>> : s \in DataHops(p, x[1], x[2])} :
                                              p \in graph.ports} : x \in shorter}
  IN  within[Cardinality(graph.ports) * 2]

Minimal(S) == {s \in S : \A r \in S : SummaryLeq(r, s) => r = s}

\* The scope is summarized by exactly the minimal summaries of the paths that data can
\* take to each of its outputs, through loops and through what a device does.
SummariesCorrect ==
  phase = "done" =>
    \A o \in Outputs :
      LET paths == Along(o)
      IN  \A p \in Tracked \ {o} :
            p[1] \notin ToSet(graph.ghosts) =>
              results[p][o] = Minimal({x[2] : x \in {y \in paths : y[1] = p}})

\* "Tests whether the graph a cycle of default path summaries": nothing else leaves
\* ports behind, wherever the removal began.
CyclesDetected ==
  phase = "done" =>
    (acyclic <=> ~ \E C \in SUBSET Tracked \ {{}} : \A p \in C : Followers(p) \cap C # {})

=============================================================================
