----------------------------- MODULE Directory -----------------------------
(***************************************************************************)
(* The directory of one realm: users, clients, roles, groups, agents and   *)
(* identity providers, with what is assigned to them, as the admin         *)
(* handlers change it over MemoryStorage or PostgresStorage.  A handler    *)
(* that gets a name resolves it to a row first and then makes one storage  *)
(* call on the row's id; other requests run in between.                    *)
(***************************************************************************)
EXTENDS Integers, Sequences, FiniteSets

CONSTANTS
    Task,       \* requests in flight
    Id,         \* ids, each given out once
    Name,
    Subject,    \* what an agent may act for
    None,
    MaxDepth,   \* bound on the length of a group's path
    MaxLinks,   \* bound on assignments
    MaxLoad     \* bound on ids given out plus requests in flight

VARIABLES
    backend,    \* the deployment's storage: "memory" or "postgres"
    rows,
    index,      \* the memory store's users_by_username and clients_by_client_id
    links,      \* assignments, and the secrets kept beside users and clients
    req,        \* what each request has resolved and is about to do
    used,       \* the table each id was given out for
    revoked,    \* agents with revoked_at set
    renamed     \* tables of the memory store in which an update moved a name

vars == <<backend, rows, index, links, req, used, revoked, renamed>>

Table == {"user", "client", "role", "group", "agent", "idp"}
Indexed == {"user", "client"}

\* A name is a path of one segment, a group's a path of several.
Plain == {<<n>> : n \in Name}
Path == UNION {[1 .. k -> Name] : k \in 1 .. MaxDepth}

\* up: the client of a role, the parent of a group, the subject of an agent.
Row == [table : Table, id : Id, name : Path, up : Id \cup Subject \cup {None}]
Link == [table : {"user_role", "user_group", "group_role", "password", "secret"}, of : Id, to : Id]
InFlight ==
    [do : {"create", "update", "restore", "delete", "revoke", "password", "secret"}, row : Row]

TypeOK ==
    /\ backend \in {"memory", "postgres"}
    /\ rows \subseteq Row
    /\ index \in [Indexed -> [Plain -> Id \cup {None}]]
    /\ links \subseteq Link
    /\ req \in [Task -> InFlight \cup {None}]
    /\ used \in [Id -> Table \cup {None}]
    /\ revoked \subseteq Id
    /\ renamed \subseteq Table

Init ==
    /\ backend \in {"memory", "postgres"}
    /\ rows = {}
    /\ index = [tbl \in Indexed |-> [n \in Plain |-> None]]
    /\ links = {}
    /\ req = [t \in Task |-> None]
    /\ used = [i \in Id |-> None]
    /\ revoked = {} /\ renamed = {}

Of(tbl) == {r \in rows : r.table = tbl}
Live(i) == \E r \in rows : r.id = i
Same(r) == {q \in rows : q.table = r.table /\ q.id = r.id}
Put(r) == rows' = (rows \ Same(r)) \cup {r}

\* Roles are named within their client, the rest within the realm.
Namesakes(r) ==
    {q \in Of(r.table) : q.name = r.name /\ (r.table = "role" => q.up = r.up)}

-----------------------------------------------------------------------------
(* MemoryStorage.                                                          *)
memory_get_by_index(tbl, n) == {r \in Of(tbl) : index[tbl][n] = r.id}

\* create_user, and create_client below.
memory_create_user(r) ==
    /\ index[r.table][r.name] = None
    /\ index' = [index EXCEPT ![r.table][r.name] = r.id]
    /\ Put(r)

memory_create_client(r) == memory_create_user(r)

memory_create_role(r) == Namesakes(r) = {} /\ Put(r) /\ UNCHANGED index

memory_create_group(r) == Namesakes(r) = {} /\ Put(r) /\ UNCHANGED index

memory_create_agent(r) == Namesakes(r) = {} /\ Put(r) /\ UNCHANGED index

memory_create_idp(r) == Namesakes(r) = {} /\ Put(r) /\ UNCHANGED index

memory_create(r) ==
    \/ r.table = "user" /\ memory_create_user(r)
    \/ r.table = "client" /\ memory_create_client(r)
    \/ r.table = "role" /\ memory_create_role(r)
    \/ r.table = "group" /\ memory_create_group(r)
    \/ r.table = "agent" /\ memory_create_agent(r)
    \/ r.table = "idp" /\ memory_create_idp(r)

\* The update_ of every table: the row of that id is replaced, no name is compared
\* and no index is touched.
memory_update(r) == Same(r) # {} /\ Put(r) /\ UNCHANGED index

memory_delete_user(r) ==
    /\ rows' = rows \ Same(r)
    /\ index' = [index EXCEPT ![r.table] =
                    [n \in Plain |-> IF \E q \in Same(r) : q.name = n THEN None ELSE @[n]]]
    /\ UNCHANGED links

memory_delete_client(r) == memory_delete_user(r)

memory_delete_role(r) ==
    /\ rows' = rows \ Same(r)
    /\ links' = {l \in links : l.table \in {"user_role", "group_role"} => l.to # r.id}
    /\ UNCHANGED index

\* The groups below it stay.
memory_delete_group(r) ==
    /\ rows' = rows \ Same(r)
    /\ links' = {l \in links : /\ l.table = "user_group" => l.to # r.id
                               /\ l.table = "group_role" => l.of # r.id}
    /\ UNCHANGED index

memory_delete_idp(r) == rows' = rows \ Same(r) /\ UNCHANGED <<index, links>>

memory_delete(r) ==
    /\ Same(r) # {}
    /\ \/ r.table = "user" /\ memory_delete_user(r)
       \/ r.table = "client" /\ memory_delete_client(r)
       \/ r.table = "role" /\ memory_delete_role(r)
       \/ r.table = "group" /\ memory_delete_group(r)
       \/ r.table = "idp" /\ memory_delete_idp(r)

memory_assign_user_role(l) == l.table = "user_role" /\ \E r \in Of("role") : r.id = l.to

memory_assign_user_group(l) == l.table = "user_group" /\ \E g \in Of("group") : g.id = l.to

memory_assign_group_role(l) ==
    /\ l.table = "group_role"
    /\ \E g \in Of("group") : g.id = l.of
    /\ \E r \in Of("role") : r.id = l.to

memory_assign(l) ==
    memory_assign_user_role(l) \/ memory_assign_user_group(l) \/ memory_assign_group_role(l)

-----------------------------------------------------------------------------
(* PostgresStorage, with the constraints of migrations 002, 003, 009, 011. *)
\* UNIQUE.  A NULL is equal to nothing: a role without a client has no namesake.
Unique(r) ==
    \A q \in Namesakes(r) : q.id = r.id \/ (r.table = "role" /\ r.up = None)

\* REFERENCES client(id), REFERENCES app_group(id).
References(r) ==
    /\ r.table = "role" /\ r.up # None => \E q \in Of("client") : q.id = r.up
    /\ r.table = "group" /\ r.up # None => \E q \in Of("group") : q.id = r.up

postgres_create(r) == Same(r) = {} /\ Unique(r) /\ References(r) /\ Put(r)

postgres_update_user(r) == Unique(r) /\ Put(r)

postgres_update_client(r) == Unique(r) /\ Put(r)

\* The client of a role is not in the SET list.
postgres_update_role(r) ==
    \E q \in Same(r) : LET s == [r EXCEPT !.up = q.up] IN Unique(s) /\ Put(s)

postgres_update_group(r) == Unique(r) /\ References(r) /\ Put(r)

\* Nor is the parent_subject of an agent.
postgres_update_agent(r) ==
    \E q \in Same(r) : LET s == [r EXCEPT !.up = q.up] IN Unique(s) /\ Put(s)

postgres_update(r) ==
    /\ Same(r) # {}
    /\ \/ r.table = "user" /\ postgres_update_user(r)
       \/ r.table = "client" /\ postgres_update_client(r)
       \/ r.table = "role" /\ postgres_update_role(r)
       \/ r.table = "group" /\ postgres_update_group(r)
       \/ r.table = "agent" /\ postgres_update_agent(r)

\* ON DELETE CASCADE: the least set that has the row and what references it.
Cascade(i) ==
    {x \in Id : \A S \in SUBSET Id :
        i \in S /\ (\A q \in Of("role") \cup Of("group") : q.up \in S => q.id \in S) => x \in S}

postgres_delete(r) ==
    /\ Same(r) # {}
    /\ LET gone == Cascade(r.id)
       IN  /\ rows' = {q \in rows : q.id \notin gone}
           /\ links' = {l \in links : l.of \notin gone /\ l.to \notin gone}

-----------------------------------------------------------------------------
(* The storage trait: an error of the backend is a call that is not        *)
(* enabled.                                                                *)
find(tbl, n) ==
    IF backend = "memory" /\ tbl \in Indexed THEN memory_get_by_index(tbl, n)
    ELSE {r \in Of(tbl) : r.name = n /\ (tbl = "role" => r.up = None)}

create(r) ==
    \/ backend = "memory" /\ memory_create(r)
    \/ backend = "postgres" /\ postgres_create(r) /\ UNCHANGED index

update(r) ==
    \/ backend = "memory" /\ memory_update(r)
    \/ backend = "postgres" /\ postgres_update(r) /\ UNCHANGED index

delete(r) ==
    \/ backend = "memory" /\ memory_delete(r)
    \/ backend = "postgres" /\ postgres_delete(r) /\ UNCHANGED index

assign(l) ==
    /\ Cardinality(links) < MaxLinks
    /\ backend = "memory" => memory_assign(l)
    /\ backend = "postgres" => Live(l.of) /\ Live(l.to)
    /\ links' = links \cup {l}

\* store_password_hash, store_client_secret_hash: the memory store keeps it for
\* any id, Postgres refuses a password and skips a secret without its row.
store_secret(l) ==
    /\ Cardinality(links) < MaxLinks
    /\ backend = "postgres" => Live(l.of)
    /\ links' = links \cup {l}

-----------------------------------------------------------------------------
(* The handlers, up to their last read.                                    *)
RowOf(tbl, i, n, up) == [table |-> tbl, id |-> i, name |-> n, up |-> up]

Given(tbl) == {i \in Id : used[i] = tbl}
Room ==
    Cardinality(Id \ Given(None)) + Cardinality({t \in Task : req[t] # None}) < MaxLoad

Pending(t, do, r) ==
    /\ Room
    /\ req[t] = None
    /\ req' = [req EXCEPT ![t] = [do |-> do, row |-> r]]
    /\ UNCHANGED <<backend, rows, index, links, revoked, renamed>>

Asks(t, do, r) == Pending(t, do, r) /\ UNCHANGED used

\* Inserts under a fresh id.
Inserts(r) ==
    /\ Room
    /\ used[r.id] = None
    /\ used' = [used EXCEPT ![r.id] = r.table]
    /\ create(r)
    /\ UNCHANGED <<backend, links, revoked, renamed>>

users_create(i, n) == Inserts(RowOf("user", i, n, None)) /\ UNCHANGED req

\* The payload's username is taken.
users_update_Renaming(t, n) ==
    \E r \in find("user", n), m \in Plain : Asks(t, "update", [r EXCEPT !.name = m])

\* Everything but what identifies the row is the payload's.
users_update(t, n) == \E r \in find("user", n) : Asks(t, "update", r)

users_delete(t, n) == \E r \in find("user", n) : Asks(t, "delete", r)

users_verify_email(t, n) == \E r \in find("user", n) : Asks(t, "update", r)

users_set_password(t, n) == \E r \in find("user", n) : Asks(t, "password", r)

\* A confidential client gets its secret in a second call.
clients_create(t, i, n) ==
    LET r == RowOf("client", i, n, None)
    IN  /\ Inserts(r)
        /\ \/ UNCHANGED req
           \/ req[t] = None /\ req' = [req EXCEPT ![t] = [do |-> "secret", row |-> r]]

clients_update(t, n) == \E r \in find("client", n) : Asks(t, "update", r)

clients_delete(t, n) == \E r \in find("client", n) : Asks(t, "delete", r)

roles_create(i, n, c) == Inserts(RowOf("role", i, n, c)) /\ UNCHANGED req

\* By realm-wide name; the payload carries the name and the client.
roles_update(t, n, m, c) ==
    \E r \in find("role", n) : Asks(t, "update", RowOf("role", r.id, m, c))

roles_delete(t, n) == \E r \in find("role", n) : Asks(t, "delete", r)

\* The path is made of the parent's as it was read.
groups_create(t, i, p, n) ==
    \/ /\ p = None
       /\ Inserts(RowOf("group", i, n, None)) /\ UNCHANGED req
    \/ \E g \in Of("group") :
          /\ g.id = p
          /\ Len(g.name) < MaxDepth
          /\ used[i] = None
          /\ used' = [used EXCEPT ![i] = "group"]
          /\ Pending(t, "create", RowOf("group", i, g.name \o n, p))

\* By id; the path stays, the payload carries the parent.
groups_update(t, i, p) ==
    \E g \in Of("group") : g.id = i /\ Asks(t, "update", [g EXCEPT !.up = p])

agents_create(i, n, s) == Inserts(RowOf("agent", i, n, s)) /\ UNCHANGED req

\* The payload carries the alias and revoked_at, not the parent.
agents_update(t, n, m, do) ==
    \E r \in find("agent", n) : Asks(t, do, [r EXCEPT !.name = m])

agents_revoke(t, n) == \E r \in find("agent", n) : Asks(t, "revoke", r)

idps_create(i, n) == Inserts(RowOf("idp", i, n, None)) /\ UNCHANGED req

\* Saved with create_idp, under the id and the alias it was found with.
idps_update(t, n) == \E r \in find("idp", n) : Asks(t, "create", r)

Deletes(r) == delete(r) /\ UNCHANGED <<backend, req, used, revoked, renamed>>

\* By id, in one call.
groups_delete(i) == \E g \in Of("group") : g.id = i /\ Deletes(g)

idps_delete(n) == \E r \in find("idp", n) : Deletes(r)

Assigns(l) == assign(l) /\ UNCHANGED <<backend, rows, index, req, used, revoked, renamed>>

assign_user_role(u, r) == Assigns([table |-> "user_role", of |-> u, to |-> r])

assign_user_group(u, g) == Assigns([table |-> "user_group", of |-> u, to |-> g])

assign_group_role(g, r) == Assigns([table |-> "group_role", of |-> g, to |-> r])

unassign(l) ==
    /\ links' = links \ {l}
    /\ UNCHANGED <<backend, rows, index, req, used, revoked, renamed>>

-----------------------------------------------------------------------------
(* The last storage call of a request.                                     *)
Does(t, do) == req[t] # None /\ req[t].do = do
Done(t) == req' = [req EXCEPT ![t] = None] /\ UNCHANGED backend

Create(t) ==
    /\ Does(t, "create")
    /\ create(req[t].row)
    /\ Done(t)
    /\ UNCHANGED <<links, used, revoked, renamed>>

\* "update" keeps or sets revoked_at, "restore" clears it.
Update(t) ==
    /\ Does(t, "update") \/ Does(t, "restore")
    /\ LET r == req[t].row
       IN  /\ update(r)
           /\ revoked' = IF Does(t, "restore") THEN revoked \ {r.id} ELSE revoked
           /\ renamed' = IF backend = "postgres" \/ Same(r) \subseteq Namesakes(r)
                         THEN renamed
                         ELSE renamed \cup {r.table}
    /\ Done(t)
    /\ UNCHANGED <<links, used>>

Delete(t) ==
    /\ Does(t, "delete")
    /\ delete(req[t].row)
    /\ Done(t)
    /\ UNCHANGED <<used, revoked, renamed>>

revoke_agent(t) ==
    /\ Does(t, "revoke")
    /\ Same(req[t].row) # {}
    /\ revoked' = revoked \cup {req[t].row.id}
    /\ Done(t)
    /\ UNCHANGED <<rows, index, links, used, renamed>>

StoreSecret(t) ==
    /\ Does(t, "password") \/ Does(t, "secret")
    /\ store_secret([table |-> req[t].do, of |-> req[t].row.id, to |-> req[t].row.id])
    /\ Done(t)
    /\ UNCHANGED <<rows, index, used, revoked, renamed>>

\* The storage call fails, or the request is dropped.
Drop(t) ==
    /\ req[t] # None
    /\ Done(t)
    /\ UNCHANGED <<rows, index, links, used, revoked, renamed>>

ByName(t, n) ==
    \/ users_update(t, n) \/ users_delete(t, n)
    \/ users_verify_email(t, n) \/ users_set_password(t, n)
    \/ clients_update(t, n) \/ clients_delete(t, n)
    \/ roles_delete(t, n)
    \/ \E m \in Plain, c \in Given("client") \cup {None} : roles_update(t, n, m, c)
    \/ \E m \in Plain, do \in {"update", "restore"} : agents_update(t, n, m, do)
    \/ agents_revoke(t, n)
    \/ idps_update(t, n)

Next ==
    \/ \E i \in Given(None), n \in Plain :
          \/ users_create(i, n) \/ idps_create(i, n)
          \/ \E t \in Task : clients_create(t, i, n)
          \/ \E c \in Given("client") \cup {None} : roles_create(i, n, c)
          \/ \E t \in Task, p \in Given("group") \cup {None} : groups_create(t, i, p, n)
          \/ \E s \in Subject : agents_create(i, n, s)
    \/ \E t \in Task, n \in Plain : ByName(t, n)
    \/ \E t \in Task, i \in Given("group"), p \in Given("group") \cup {None} : groups_update(t, i, p)
    \/ \E i \in Given("group") : groups_delete(i)
    \/ \E n \in Plain : idps_delete(n)
    \/ \E u \in Given("user"), r \in Given("role") : assign_user_role(u, r)
    \/ \E u \in Given("user"), g \in Given("group") : assign_user_group(u, g)
    \/ \E g \in Given("group"), r \in Given("role") : assign_group_role(g, r)
    \/ \E l \in links : l.table \in {"user_role", "user_group", "group_role"} /\ unassign(l)
    \/ \E t \in Task :
          Create(t) \/ Update(t) \/ Delete(t) \/ revoke_agent(t) \/ StoreSecret(t) \/ Drop(t)

Spec == Init /\ [][Next]_vars

-----------------------------------------------------------------------------
\* The handlers resolve the name in their path, and a name that is free can be
\* taken: with creates, renames and deletes by requests that resolved earlier, a
\* row is what its name leads to, alone, and an index entry leads to a row of that
\* name.  Left out are the names nothing guards: of roles without a client on
\* Postgres, and in the memory store of roles or agents once an update moved one.
NamesResolve ==
    /\ \A r \in rows :
          \/ backend = "memory" /\ r.table \in renamed \cap {"role", "agent"}
          \/ backend = "postgres" /\ r.table = "role" /\ r.up = None
          \/ /\ Namesakes(r) = {r}
             /\ r.table # "group" /\ (r.table = "role" => r.up = None) => find(r.table, r.name) = {r}
    /\ \A tbl \in Indexed, n \in Plain :
          index[tbl][n] # None => \E r \in Of(tbl) : r.id = index[tbl][n] /\ r.name = n

\* Deleting a role or a group takes every assignment of it along, and on Postgres
\* deleting anything takes along all that refers to it, subgroups of subgroups
\* included, whatever was resolved or being assigned meanwhile.
NothingDangles ==
    /\ \A l \in links :
          /\ l.table \in {"user_role", "user_group", "group_role"} \/ backend = "postgres" => Live(l.to)
          /\ l.table = "group_role" \/ backend = "postgres" => Live(l.of)
    /\ backend = "postgres" => \A r \in Of("role") \cup Of("group") : r.up # None => Live(r.up)

\* What the admin handlers rest on, under every overlap of their two steps.
DirectorySound == NamesResolve /\ NothingDangles

\* Migration 011, realm_role_name_unique: one role of a name per client or realm.
RoleNamesUnique == backend = "postgres" => \A r \in Of("role") : Namesakes(r) = {r}
=============================================================================
