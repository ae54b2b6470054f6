---------------------------- MODULE FlowVersions ----------------------------
(***************************************************************************)
(* Versions of the browser flow of one realm: the seeder, the admin's      *)
(* editor, the logins in flight, and the `auth_flow` table they share, as  *)
(* MemoryStorage or PostgresStorage implements it.  A login pins the       *)
(* version it starts on and resolves it again at every post.               *)
(***************************************************************************)
EXTENDS Integers

CONSTANTS
    Login,      \* logins: ids of flow states
    Seeder,     \* pods that seed the realm's flows
    Id,         \* FlowIds
    Graph,      \* graphs that compile
    NodesOf,    \* the node ids of each graph
    Builtin,    \* the graph v0_1_flows gives
    None,
    MaxVersion  \* bound on version numbers

VARIABLES
    backend,    \* the deployment's storage: "memory" or "postgres"
    auth_flows, \* rows [id, version, graph]
    pc,         \* where each login and each seeder is
    version,    \* flow_version of a login
    node,       \* current_node of a login
    loaded,     \* the definition a post works on
    from,       \* the graph a login started on (None: none was found)
    \* history variables
    erred,      \* logins whose post could not read the version it is pinned to
    rewritten   \* versions that a save under an id in use took away or doubled

vars == <<backend, auth_flows, pc, version, node, loaded, from, erred, rewritten>>

\* An i32 the author writes: 0 stands for all that are not positive.
Version == 0 .. MaxVersion
Row == [id : Id, version : Version, graph : Graph]
NodeId == UNION {NodesOf[g] : g \in Graph}

\* A NodeId of no graph: NodeId::new().
Sentinel == None

TypeOK ==
    /\ backend \in {"memory", "postgres"}
    /\ auth_flows \subseteq Row
    /\ pc \in [Login \cup Seeder -> {"new", "idle", "fallback", "walk", "save", "seeded", "error"}]
    /\ version \in [Login -> Version]
    /\ node \in [Login -> NodeId \cup {Sentinel}]
    /\ loaded \in [Login -> Graph \cup {None}]
    /\ from \in [Login -> Graph \cup {None}]
    /\ erred \subseteq Login /\ rewritten \subseteq Version

Init ==
    /\ backend \in {"memory", "postgres"}
    /\ auth_flows = {}
    /\ pc = [p \in Login \cup Seeder |-> "new"]
    /\ version = [l \in Login |-> 1]
    /\ node = [l \in Login |-> Sentinel]
    /\ loaded = [l \in Login |-> None]
    /\ from = [l \in Login |-> None]
    /\ erred = {} /\ rewritten = {}

\* The entry node: definition.start.
start(g) == CHOOSE n \in NodesOf[g] : TRUE

-----------------------------------------------------------------------------
(* The table.                                                              *)
\* get_auth_flow_by_alias: a row of the highest version.
latest == {r \in auth_flows : \A q \in auth_flows : q.version <= r.version}

\* get_auth_flow_by_alias_and_version.
of_version(v) == {r \in auth_flows : r.version = v}

\* save_auth_flow.  Postgres inserts and has two unique constraints; the memory
\* store replaces the row of the same id, whatever its version, and compares
\* versions only for an id it does not have.
Conflict(r) ==
    LET same_id == \E q \in auth_flows : q.id = r.id
        same_version == of_version(r.version) # {}
    IN  IF backend = "postgres" THEN same_id \/ same_version ELSE same_version /\ ~ same_id

save_auth_flow(r) ==
    LET gone == {q \in auth_flows : q.id = r.id /\ q # r}
    IN  /\ auth_flows' = {q \in auth_flows : q.id # r.id} \cup {r}
        /\ rewritten' = rewritten \cup UNION {{q.version, r.version} : q \in gone}

-----------------------------------------------------------------------------
(* The seeder: a look, then an insert of version 1 under a fresh id.       *)
seed_look(s) ==
    /\ pc[s] = "new"
    /\ pc' = [pc EXCEPT ![s] = IF auth_flows = {} THEN "save" ELSE "seeded"]
    /\ UNCHANGED <<backend, auth_flows, version, node, loaded, from, erred, rewritten>>

seed_save(s) ==
    /\ pc[s] = "save"
    /\ \E i \in Id :
          LET r == [id |-> i, version |-> 1, graph |-> Builtin]
          IN  /\ \A q \in auth_flows : q.id # i
              /\ \/ /\ Conflict(r)
                    /\ pc' = [pc EXCEPT ![s] = "error"]
                    /\ UNCHANGED <<auth_flows, rewritten>>
                 \/ /\ ~ Conflict(r)
                    /\ save_auth_flow(r)
                    /\ pc' = [pc EXCEPT ![s] = "seeded"]
    /\ UNCHANGED <<backend, version, node, loaded, from, erred>>

\* The editor saves the definition in the text area as it stands: its author
\* chose the id, the version and the graph.
post_flow_save(r) ==
    /\ ~ Conflict(r)
    /\ save_auth_flow(r)
    /\ UNCHANGED <<backend, pc, version, node, loaded, from, erred>>

-----------------------------------------------------------------------------
(* Logins.                                                                 *)

\* No flow, or an error of the lookup: version 1 at a node of no graph.
start_flow(l) ==
    /\ pc[l] = "new"
    /\ \/ \E r \in latest :
             /\ version' = [version EXCEPT ![l] = r.version]
             /\ node' = [node EXCEPT ![l] = start(r.graph)]
             /\ from' = [from EXCEPT ![l] = r.graph]
       \/ UNCHANGED <<version, node, from>>
    /\ pc' = [pc EXCEPT ![l] = "idle"]
    /\ UNCHANGED <<backend, auth_flows, loaded, erred, rewritten>>

\* Re-anchor a login whose node is not in the graph it is resumed on.
load(l, g) ==
    /\ loaded' = [loaded EXCEPT ![l] = g]
    /\ node' = [node EXCEPT ![l] = IF @ \in NodesOf[g] THEN @ ELSE start(g)]
    /\ pc' = [pc EXCEPT ![l] = "walk"]
    /\ UNCHANGED <<backend, auth_flows, version, from, erred, rewritten>>

\* Without the pinned version.
resume_versioned_Latest(l) ==
    /\ pc[l] = "idle"
    /\ \E r \in latest : load(l, r.graph)

\* The handler goes on without the pinned version.
FallBack(l) ==
    /\ pc' = [pc EXCEPT ![l] = "fallback"]
    /\ UNCHANGED <<backend, auth_flows, version, node, loaded, from, rewritten>>

\* authenticate_post: the pinned version, or else the latest; `.ok()` makes any error
\* of the lookup a missing version.
resume_versioned(l) ==
    /\ pc[l] = "idle"
    /\ \/ version[l] > 0 /\ \E r \in of_version(version[l]) : load(l, r.graph)
       \/ (version[l] = 0 \/ of_version(version[l]) = {}) /\ FallBack(l) /\ UNCHANGED erred
       \/ (* StorageError *) version[l] > 0 /\ FallBack(l) /\ erred' = erred \cup {l}

\* No flow, or an error: a 500, and the login may post again.
resume_latest(l) ==
    /\ pc[l] = "fallback"
    /\ \/ \E r \in latest : load(l, r.graph)
       \/ /\ pc' = [pc EXCEPT ![l] = "idle"]
          /\ erred' = erred \ {l}
          /\ UNCHANGED <<backend, auth_flows, version, node, loaded, from, rewritten>>

\* The walk stops at some node of the graph and the state is saved, or the login
\* is over.  flow_version is never overwritten.
walk(l) ==
    /\ pc[l] = "walk"
    /\ \E n \in NodesOf[loaded[l]] : node' = [node EXCEPT ![l] = n]
    /\ pc' = [pc EXCEPT ![l] = "idle"]
    /\ loaded' = [loaded EXCEPT ![l] = None]
    /\ erred' = erred \ {l}
    /\ UNCHANGED <<backend, auth_flows, version, from, rewritten>>

Next ==
    \/ \E s \in Seeder : seed_look(s) \/ seed_save(s)
    \/ \E r \in Row : post_flow_save(r)
    \/ \E l \in Login : start_flow(l) \/ resume_versioned(l) \/ resume_latest(l) \/ walk(l)

Spec == Init /\ [][Next]_vars

-----------------------------------------------------------------------------
\* traits.rs 139-142, "older versions stay in the table": the version a login was
\* started on is in the table with the graph it had then, whatever the seeders and the
\* editor save while it is in flight.  On Postgres always; in the memory store until a
\* save under an id in use replaces a row, of that version or with it.
VersionsStay ==
    /\ \A l \in Login : from[l] # None /\ version[l] \notin rewritten
          => {r.graph : r \in of_version(version[l])} = {from[l]}
    /\ backend = "postgres" => rewritten = {}

\* login_actions.rs 60-64 and traits.rs 147-150: a login on a version > 0 is walked on
\* the graph it was started on, but for what they do not say: a post whose lookup of
\* the version failed goes on with the latest one although the version is there.
Pinned ==
    \A l \in Login :
        loaded[l] # None /\ from[l] # None /\ version[l] > 0 /\ version[l] \notin rewritten
            => loaded[l] = from[l] \/ l \in erred

\* compile.rs 48 indexes by_id with the current node and panics on one it does
\* not have: on either backend a walk starts on a node of the graph it was given,
\* whichever graph the table has under the version by then.
NodeInGraph == \A l \in Login : pc[l] = "walk" => node[l] \in NodesOf[loaded[l]]

\* A login meets the graph it was started on, or one that has its node.
VersionHeld == VersionsStay /\ Pinned /\ NodeInGraph
=============================================================================
