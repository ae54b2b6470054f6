---------------------------- MODULE FlowCompile ----------------------------
(***************************************************************************)
(* `compile` of geonosis-flow/src/compile.rs: the check that an admin's    *)
(* flow definition passes before it is saved, and again every time the     *)
(* executor loads it.  The four checks run in the order of the code and    *)
(* return early; the last one is a work-list search from the start node.   *)
(* Edge conditions and guards play no part in it and are left out.         *)
(***************************************************************************)
EXTENDS Naturals, Sequences, FiniteSets

CONSTANTS
    Node,       \* node ids an author may write
    MaxNodes,   \* bound on the length of the node list
    MaxEdges    \* bound on the number of edges

ASSUME CompileAssumption == MaxNodes \in Nat /\ MaxEdges \in Nat

VARIABLES
    nodes,        \* definition.nodes, a list of ids with their kinds
    start,        \* definition.start
    edges,        \* definition.edges, as pairs <<from, to>>
    pc,           \* the check that is next
    visited,      \* nodes the search has expanded
    queue,        \* nodes it has still to look at
    saw_success,  \* the Success nodes it has seen
    result        \* what compile returned

definition == <<nodes, start, edges>>
vars == <<nodes, start, edges, pc, visited, queue, saw_success, result>>

\* NodeKind: "Other" stands for the seven kinds the compiler does not tell apart.
Kind == {"Other", "Success", "Failure"}

Errors == {"DuplicateNode", "StartMissing", "EdgeFromUnknown", "EdgeToUnknown",
           "TerminalWithOutbound", "NoSuccessReachable"}

\* The lists of nodes an author may write.
NodeLists == UNION {[1 .. n -> [id : Node, kind : Kind]] : n \in 0 .. MaxNodes}

TypeOK ==
    /\ nodes \in NodeLists
    /\ start \in Node
    /\ edges \subseteq Node \X Node
    /\ pc \in {"nodes", "start", "edges", "terminals", "search", "done"}
    /\ visited \subseteq Node /\ queue \subseteq Node /\ saw_success \subseteq Node
    /\ result \in Errors \cup {"none", "Ok"}

\* Edges are pushed and looked up one by one, so the order of the list does not
\* matter to the compiler, and the search may take its work list in any order.
Init ==
    /\ nodes \in NodeLists
    /\ start \in Node
    /\ edges \in {E \in SUBSET (Node \X Node) : Cardinality(E) <= MaxEdges}
    /\ pc = "nodes"
    /\ visited = {} /\ queue = {} /\ saw_success = {}
    /\ result = "none"

\* The keys of by_id, and the nodes of one kind.
by_id == {nodes[i].id : i \in 1 .. Len(nodes)}
OfKind(k) == {nodes[i].id : i \in {j \in 1 .. Len(nodes) : nodes[j].kind = k}}
Unique == \A i, j \in 1 .. Len(nodes) : nodes[i].id = nodes[j].id => i = j

outbound(n) == {e[2] : e \in {f \in edges : f[1] = n}}

return(r) ==
    /\ pc' = "done"
    /\ result' = r
    /\ UNCHANGED <<nodes, start, edges, visited, queue, saw_success>>

goto(p) ==
    /\ pc' = p
    /\ UNCHANGED <<nodes, start, edges, visited, queue, saw_success, result>>

index_nodes ==
    /\ pc = "nodes"
    /\ IF Unique THEN goto("start") ELSE return("DuplicateNode")

check_start ==
    /\ pc = "start"
    /\ IF start \in by_id THEN goto("edges") ELSE return("StartMissing")

\* The first bad edge of the list decides the error; edges are a set here, so
\* any bad edge may.
check_edges ==
    /\ pc = "edges"
    /\ \/ (\A e \in edges : e[1] \in by_id /\ e[2] \in by_id) /\ goto("terminals")
       \/ (\E e \in edges : e[1] \notin by_id) /\ return("EdgeFromUnknown")
       \/ (\E e \in edges : e[1] \in by_id /\ e[2] \notin by_id) /\ return("EdgeToUnknown")

\* Outbound edges of Failure nodes go unnoticed.
check_terminals_Success ==
    /\ pc = "terminals"
    /\ IF \E n \in OfKind("Success") : outbound(n) # {}
       THEN return("TerminalWithOutbound")
       ELSE /\ pc' = "search"
            /\ queue' = {start}
            /\ UNCHANGED <<nodes, start, edges, visited, saw_success, result>>

check_terminals ==
    /\ pc = "terminals"
    /\ IF \E n \in OfKind("Success") \cup OfKind("Failure") : outbound(n) # {}
       THEN return("TerminalWithOutbound")
       ELSE /\ pc' = "search"
            /\ queue' = {start}
            /\ UNCHANGED <<nodes, start, edges, visited, saw_success, result>>

\* One turn of the loop: a node seen before is dropped, another is expanded.
pop(n) ==
    /\ pc = "search" /\ n \in queue
    /\ IF n \in visited
       THEN /\ queue' = queue \ {n}
            /\ UNCHANGED <<visited, saw_success>>
       ELSE /\ visited' = visited \cup {n}
            /\ saw_success' = saw_success \cup ({n} \cap OfKind("Success"))
            /\ queue' = (queue \ {n}) \cup outbound(n)
    /\ UNCHANGED <<nodes, start, edges, pc, result>>

finish ==
    /\ pc = "search" /\ queue = {}
    /\ return(IF saw_success = {} THEN "NoSuccessReachable" ELSE "Ok")

Next ==
    \/ index_nodes \/ check_start \/ check_edges \/ check_terminals
    \/ \E n \in Node : pop(n)
    \/ finish

\* compile is a loop without awaits: it runs until it returns.
Spec == Init /\ [][Next]_vars /\ WF_vars(Next)

-----------------------------------------------------------------------------
\* What the search decides, without the search: a Success node is reachable
\* from start when every set of nodes that holds start and is closed under the
\* edges holds one.
Closed(S) == start \in S /\ \A e \in edges : e[1] \in S => e[2] \in S
SuccessReachable == \A S \in SUBSET Node : Closed(S) => S \cap OfKind("Success") # {}

Walkable ==
    /\ Unique
    /\ start \in by_id
    /\ edges \subseteq by_id \X by_id
    /\ \A e \in edges : e[1] \notin OfKind("Success") \cup OfKind("Failure")
    /\ SuccessReachable

\* compile.rs 95-153 accepts exactly the definitions that the executor can index and
\* walk to a Success node: ids are unique, start and both ends of every edge exist, no
\* terminal has an outbound edge, and a Success node can be reached.  That is less than
\* the module's header promises: see TerminalsPromised.
Verdict ==
    /\ result = "Ok" => Walkable
    /\ result \in Errors => ~ Walkable

\* compile.rs 7-8, "exactly one `Success` terminal and at least one `Failure` terminal
\* reachable from `start`": compile asks for neither.  (Nor does it look for cycles, as
\* line 10 and dry_run.rs 38-41 have it: a node seen before is just not expanded again.)
TerminalsPromised ==
    result = "Ok" =>
        Cardinality(visited \cap OfKind("Success")) = 1 /\ visited \cap OfKind("Failure") # {}

=============================================================================
