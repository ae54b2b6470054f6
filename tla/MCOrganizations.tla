-------------------------- MODULE MCOrganizations --------------------------
\* Model-checking instances of two parts of a realm's configuration, one of them in
\* each behaviour: the organizations (Organizations, extended) and the versions of
\* the browser flow (FlowVersions), on either backend.
EXTENDS Organizations, TLC

CONSTANTS Login, Seeder, FlowId, Graph, NodesOf, Builtin, MaxVersion,
          g1, g2, n1, n2, n3

\* A graph that compiles has a node, and the seeder's compiles.
ASSUME GraphAssumption == Builtin \in Graph /\ \A g \in Graph : NodesOf[g] # {}

VARIABLES
    part,
    auth_flows, pc, version, node, loaded, from, erred, rewritten

flow_vars == <<auth_flows, pc, version, node, loaded, from, erred, rewritten>>

flows == INSTANCE FlowVersions WITH Id <- FlowId

\* Two graphs that share a node, as after an edit of the first.
Nodes == (g1 :> {n1, n2}) @@ (g2 :> {n2, n3})

MCInit == part \in {"organizations", "flows"} /\ Init /\ flows!Init

MCNext ==
    \/ part = "organizations" /\ Next /\ UNCHANGED <<part, flow_vars>>
    \/ /\ part = "flows" /\ flows!Next
       /\ UNCHANGED <<part, organizations, org_by_alias, rows, req, used, late, overtaken, unseen>>

MCSpec == MCInit /\ [][MCNext]_<<part, vars, flow_vars>>

Symmetry == Permutations(Task) \cup Permutations(Org) \cup Permutations(Alias)

\* See FlowVersions: a login is walked on the graph it was started on, from a node
\* of it.
VersionHeld == flows!VersionHeld
=============================================================================
