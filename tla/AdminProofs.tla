---------------------------- MODULE AdminProofs ----------------------------
(***************************************************************************)
(* What administrators change: flow definitions, which `compile` checks,   *)
(* and the directory of a realm.                                           *)
(***************************************************************************)
EXTENDS FlowCompile, DirectoryPart, Integers, TLAPS

\* The checks passed so far, by the phase compile is in.
Passed ==
    /\ pc \in {"start", "edges", "terminals", "search"} => Unique
    /\ pc \in {"edges", "terminals", "search"} => start \in by_id
    /\ pc \in {"terminals", "search"} => edges \subseteq by_id \X by_id
    /\ pc = "search" => \A e \in edges : e[1] \notin OfKind("Success") \cup OfKind("Failure")

\* The search: what it has seen can be reached, what it has expanded has its
\* successors seen or waiting, and saw_success is exact.
Search ==
    /\ saw_success = visited \cap OfKind("Success")
    /\ \A S \in SUBSET Node : Closed(S) => visited \cup queue \subseteq S
    /\ \A e \in edges : e[1] \in visited => e[2] \in visited \cup queue
    /\ pc \in {"nodes", "start", "edges", "terminals"} => visited = {} /\ queue = {}
    /\ pc = "search" => start \in visited \cup queue
    /\ pc # "done" => result = "none"

Inv == TypeOK /\ Passed /\ Search /\ Verdict

\* The compiler starts with nothing seen.
LEMMA InitInv == Init => Inv
<1> SUFFICES ASSUME Init PROVE Inv
  BY Zenon
<1>2. TypeOK
  BY Zenon DEF Init, TypeOK, Errors
<1>3. Search /\ Passed /\ Verdict
  BY Zenon DEF Init, Search, Passed, Verdict, Closed, Errors
<1> QED
  BY <1>2, <1>3, Zenon DEF Inv

\* compile never changes the definition, nor then what follows from it.
LEMMA DefinitionFixed ==
  ASSUME UNCHANGED definition
  PROVE  /\ by_id' = by_id
         /\ \A k : OfKind(k)' = OfKind(k)
         /\ Unique' = Unique
         /\ \A S : Closed(S)' = Closed(S)
         /\ SuccessReachable' = SuccessReachable
         /\ Walkable' = Walkable
  BY DEF definition, by_id, OfKind, Unique, Closed, SuccessReachable, Walkable

\* Each pass and each step of the search keeps the invariant.
LEMMA NextInv == Inv /\ [Next]_vars => Inv'
<1> SUFFICES ASSUME Inv, [Next]_vars PROVE Inv'
  BY Zenon
<1> USE DEF Inv
<1>d. UNCHANGED definition
  BY Zenon DEF definition, Next, vars, index_nodes, check_start, check_edges, check_terminals, pop,
         finish, return, goto
<1>f. /\ by_id' = by_id
      /\ \A k : OfKind(k)' = OfKind(k)
      /\ Unique' = Unique
      /\ \A S : Closed(S)' = Closed(S)
      /\ SuccessReachable' = SuccessReachable
      /\ Walkable' = Walkable
  BY <1>d, DefinitionFixed, Zenon
<1>1. CASE index_nodes
  <2>1. TypeOK'
    BY <1>1, Zenon DEF index_nodes, goto, return, TypeOK, Errors
  <2>2. Passed'
    BY <1>1, <1>f, Zenon DEF index_nodes, goto, return, Passed
  <2>3. Search'
    BY <1>1, <1>d, <1>f, Zenon DEF index_nodes, goto, return, Search, definition
  <2>4. Verdict'
    BY <1>1, <1>d, <1>f, Zenon DEF index_nodes, goto, return, Verdict, Walkable, Search, Errors
  <2> QED
    BY <2>1, <2>2, <2>3, <2>4, Zenon
<1>2. CASE check_start
  <2>1. TypeOK'
    BY <1>2, Zenon DEF check_start, goto, return, TypeOK, Errors
  <2>2. Passed'
    BY <1>2, <1>d, <1>f, Zenon DEF check_start, goto, return, Passed, definition
  <2>3. Search'
    BY <1>2, <1>d, <1>f, Zenon DEF check_start, goto, return, Search, definition
  <2>4. Verdict'
    BY <1>2, <1>d, <1>f, Zenon DEF check_start, goto, return, Verdict, Walkable, Search, Errors
  <2> QED
    BY <2>1, <2>2, <2>3, <2>4, Zenon
<1>3. CASE check_edges
  <2>1. TypeOK'
    BY <1>3, Zenon DEF check_edges, goto, return, TypeOK, Errors
  <2>2. Passed'
    <3>1. (\A e \in edges : e[1] \in by_id /\ e[2] \in by_id) => edges \subseteq by_id \X by_id
      BY Zenon DEF TypeOK
    <3> QED
      BY <1>3, <1>d, <1>f, <3>1, Zenon DEF check_edges, goto, return, Passed, definition
  <2>3. Search'
    BY <1>3, <1>d, <1>f, Zenon DEF check_edges, goto, return, Search, definition
  <2>4. Verdict'
    <3>1. ASSUME NEW e \in edges, e[1] \notin by_id \/ e[2] \notin by_id PROVE ~ Walkable
      BY <3>1 DEF Walkable
    <3> QED
      BY <1>3, <1>d, <1>f, <3>1, Zenon DEF check_edges, goto, return, Verdict, Search, Errors
  <2> QED
    BY <2>1, <2>2, <2>3, <2>4, Zenon
<1>4. CASE check_terminals
  <2>1. TypeOK'
    BY <1>4, Zenon DEF check_terminals, return, TypeOK, Errors
  <2>2. Passed'
    <3>1. ASSUME NEW e \in edges, outbound(e[1]) = {} PROVE FALSE
      BY <3>1, Zenon DEF outbound
    <3>2. ~ (\E n \in OfKind("Success") \cup OfKind("Failure") : outbound(n) # {})
             => \A e \in edges : e[1] \notin OfKind("Success") \cup OfKind("Failure")
      BY <3>1, Zenon
    <3> QED
      BY <1>4, <1>d, <1>f, <3>2, Zenon DEF check_terminals, return, Passed, definition
  <2>3. Search'
    BY <1>4, <1>d, <1>f DEF check_terminals, return, Search, definition, Closed
  <2>4. Verdict'
    <3>1. ASSUME NEW n \in OfKind("Success") \cup OfKind("Failure"), outbound(n) # {} PROVE ~ Walkable
      BY <3>1, Zenon DEF outbound, Walkable
    <3> QED
      BY <1>4, <1>d, <1>f, <3>1, Zenon DEF check_terminals, return, Verdict, Search, Errors
  <2> QED
    BY <2>1, <2>2, <2>3, <2>4, Zenon
<1>5. ASSUME NEW n \in Node, pop(n) PROVE Inv'
  <2>o. \A m : m \in outbound(n) <=> \E e \in edges : e[1] = n /\ e[2] = m
    BY Zenon DEF outbound
  <2>t. outbound(n) \subseteq Node
    BY <2>o, Zenon DEF TypeOK
  <2>1. TypeOK'
    BY <1>5, <2>t, Zenon DEF pop, TypeOK
  <2>2. Passed'
    BY <1>5, <1>d, <1>f, Zenon DEF pop, Passed, definition
  <2>3. Search'
    <3>1. CASE n \in visited
      BY <1>5, <1>d, <1>f, <3>1, Zenon DEF pop, Search, definition
    <3>2. CASE n \notin visited
      <4>1. (saw_success = visited \cap OfKind("Success"))'
        BY <1>5, <1>f, <3>2, Zenon DEF pop, Search
      <4>2. (\A S \in SUBSET Node : Closed(S) => visited \cup queue \subseteq S)'
        <5>1. ASSUME NEW S \in SUBSET Node, Closed(S) PROVE outbound(n) \subseteq S /\ n \in S
          BY <1>5, <5>1, <2>o DEF pop, Search, Closed
        <5> QED
          BY <1>5, <1>f, <3>2, <5>1, Zenon DEF pop, Search
      <4>3. (\A e \in edges : e[1] \in visited => e[2] \in visited \cup queue)'
        BY <1>5, <1>d, <3>2, <2>o DEF pop, Search, definition
      <4>4. (/\ pc \in {"nodes", "start", "edges", "terminals"} => visited = {} /\ queue = {}
             /\ pc = "search" => start \in visited \cup queue
             /\ pc # "done" => result = "none")'
        BY <1>5, <1>d, <3>2, Zenon DEF pop, Search, definition
      <4> QED
        BY <4>1, <4>2, <4>3, <4>4, Zenon DEF Search
    <3> QED
      BY <3>1, <3>2, Zenon
  <2>4. Verdict'
    BY <1>5, <1>d, <1>f, Zenon DEF pop, Verdict, Errors, Search
  <2> QED
    BY <2>1, <2>2, <2>3, <2>4, Zenon
<1>6. CASE finish
  <2>1. TypeOK'
    BY <1>6, Zenon DEF finish, return, TypeOK, Errors
  <2>2. Passed' /\ Search'
    BY <1>6, <1>d, <1>f, Zenon DEF finish, return, Passed, Search, definition
  <2>3. Closed(visited)
    BY <1>6, Zenon DEF finish, Search, Closed
  <2>4. saw_success = {} => ~ SuccessReachable
    BY <2>3, Zenon DEF Search, SuccessReachable, TypeOK
  <2>5. saw_success # {} => SuccessReachable
    BY Zenon DEF Search, SuccessReachable
  <2>6. Verdict'
    BY <1>6, <1>d, <1>f, <2>4, <2>5, Zenon DEF finish, return, Verdict, Passed, Walkable, Errors
  <2> QED
    BY <2>1, <2>2, <2>6, Zenon
<1>7. CASE UNCHANGED vars
  BY <1>7, <1>f, Zenon DEF vars, TypeOK, Passed, Search, Verdict
<1> QED
  BY <1>1, <1>2, <1>3, <1>4, <1>5, <1>6, <1>7, Zenon DEF Next

\* compile.rs 95-153: whatever the definition, compile accepts it if and only if its
\* ids are unique, its start and edges exist, its terminals have no way out and a Success
\* node can be reached, in whatever order the search takes its work list.
THEOREM VerdictCorrect == Spec => []Verdict
<1>1. Inv => Verdict
  BY Zenon DEF Inv
<1> QED
  BY <1>1, InitInv, NextInv, PTL DEF Spec

-----------------------------------------------------------------------------
(* The directory.                                                          *)

\* The tables whose rows keep their names.
Settled == {"user", "client", "group", "idp"}

\* A row of a table, with an id and, where the table is indexed by name, a
\* plain name.
GoodRow(r) ==
    /\ r = [table |-> r.table, id |-> r.id, name |-> r.name, up |-> r.up]
    /\ r.table \in directory!Table /\ r.id \in RowId
    /\ r.table \in directory!Indexed => r.name \in directory!Plain

\* A row is stored, or a request holds it.
Mentioned(x) == x \in rows \/ \E t \in Clerk : d_req[t] # NoRow /\ x = d_req[t].row

\* The tables are functions on their ids, and only groups and identity
\* providers are created by a request that looked up first.
DirectoryTypes ==
    /\ backend \in {"memory", "postgres"}
    /\ d_req = [t \in Clerk |-> d_req[t]]
    /\ d_used = [i \in RowId |-> d_used[i]]
    /\ index \in [directory!Indexed -> [directory!Plain -> RowId \cup {NoRow}]]
    /\ \A t \in Clerk : d_req[t] # NoRow /\ d_req[t].do = "create" => d_req[t].row.table \in {"group", "idp"}

\* A row, stored or held by a request, is of the table its id was given to;
\* rows of one id have one name in the tables that have no rename; one row is
\* stored for an id.
RowsKnown ==
    /\ \A x : Mentioned(x) => GoodRow(x) /\ d_used[x.id] = x.table
    /\ \A x, y : Mentioned(x) /\ Mentioned(y) /\ x.id = y.id /\ x.table \in Settled => x.name = y.name
    /\ \A x, y \in rows : x.id = y.id => x = y

\* Two rows have the same name in the same table (and the same client, for
\* roles).
Alike(x, y) == x.table = y.table /\ x.name = y.name /\ (x.table = "role" => x.up = y.up)

\* Where neither backend guards a name: a rename in MemoryStorage, and realm
\* roles in PostgreSQL (a NULL client_id is distinct from itself).
Unguarded(x) ==
    \/ backend = "memory" /\ x.table \in renamed \cap {"role", "agent"}
    \/ backend = "postgres" /\ x.table = "role" /\ x.up = NoRow

\* A name is used once wherever it is guarded.
NamesOnce == \A x, y \in rows : Alike(x, y) => x = y \/ Unguarded(x)

\* MemoryStorage's name index leads from every stored row's name to its id, and
\* from nothing else.
IndexExact ==
    /\ backend = "memory" =>
          \A r \in rows : r.table \in directory!Indexed => index[r.table][r.name] = r.id
    /\ \A tbl \in directory!Indexed, n \in directory!Plain : index[tbl][n] # NoRow =>
          /\ backend = "memory"
          /\ \E r \in rows : r.table = tbl /\ r.id = index[tbl][n] /\ r.name = n

\* The ends of a link were given to the tables it joins.
LinkTables ==
    \A l \in links :
        /\ l.table = "user_role" => d_used[l.to] = "role"
        /\ l.table = "user_group" => d_used[l.to] = "group"
        /\ l.table = "group_role" => d_used[l.of] = "group" /\ d_used[l.to] = "role"
        /\ l.to \in RowId /\ l.of \in RowId

\* The inductive invariant of the directory.
DirectoryInv ==
    DirectoryTypes /\ RowsKnown /\ NamesOnce /\ IndexExact /\ LinkTables /\ directory!NothingDangles

\* The empty directory satisfies the invariant.
LEMMA DirectoryInit == directory!Init => DirectoryInv
BY DEF directory!Init, DirectoryInv, DirectoryTypes, RowsKnown, NamesOnce, IndexExact, LinkTables,
       Mentioned, directory!NothingDangles, directory!Of

\* The invariant gives the property: a guarded name finds the row that has it
\* and no other.
LEMMA NamesLead == DirectoryInv => DirectorySound
<1> SUFFICES ASSUME DirectoryInv PROVE directory!NamesResolve
  BY Zenon DEF DirectorySound, directory!DirectorySound, DirectoryInv
<1> USE DEF DirectoryInv, RowsKnown, Mentioned
<1>1. ASSUME NEW r \in rows, ~ Unguarded(r) PROVE directory!Namesakes(r) = {r}
  BY <1>1, Zenon DEF NamesOnce, Alike, directory!Namesakes, directory!Of
<1>2. ASSUME NEW r \in rows, ~ Unguarded(r), r.table # "group", r.table = "role" => r.up = NoRow
      PROVE  directory!find(r.table, r.name) = {r}
  <2>1. CASE backend = "memory" /\ r.table \in directory!Indexed
    <3>1. r.name \in directory!Plain /\ index[r.table][r.name] = r.id
      BY <2>1, Zenon DEF GoodRow, IndexExact
    <3>2. QED
      BY <2>1, <3>1, Zenon DEF directory!find, directory!memory_get_by_index, directory!Of
  <2>2. CASE ~ (backend = "memory" /\ r.table \in directory!Indexed)
    BY <1>2, <2>2, Zenon DEF NamesOnce, Alike, directory!find, directory!Of
  <2>3. QED
    BY <2>1, <2>2, Zenon
<1>3. ASSUME NEW tbl \in directory!Indexed, NEW n \in directory!Plain, index[tbl][n] # NoRow
      PROVE  \E r \in directory!Of(tbl) : r.id = index[tbl][n] /\ r.name = n
  BY <1>3 DEF IndexExact, directory!Of
<1>4. QED
  BY <1>1, <1>2, <1>3, Zenon DEF directory!NamesResolve, Unguarded

\* A step that changes no table keeps what is said of the tables.
LEMMA QuietKeeps ==
    ASSUME NamesOnce, IndexExact, LinkTables, directory!NothingDangles,
           UNCHANGED <<backend, rows, index, links, d_used, renamed>>
    PROVE  NamesOnce' /\ IndexExact' /\ LinkTables' /\ (directory!NothingDangles)'
<1>1. NamesOnce'
  BY DEF NamesOnce, Alike, Unguarded
<1>2. IndexExact' /\ LinkTables'
  BY DEF IndexExact, LinkTables
<1>3. (directory!NothingDangles)'
  BY Zenon DEF directory!NothingDangles, directory!Live, directory!Of
<1>4. QED
  BY <1>1, <1>2, <1>3, Zenon

\* What a step must show that mentions r and nothing else that is new.
LEMMA KnownGrows ==
    ASSUME RowsKnown, NEW r, GoodRow(r), d_used'[r.id] = r.table,
           \A x : Mentioned(x)' => Mentioned(x) \/ x = r,
           \A x : Mentioned(x) => d_used'[x.id] = d_used[x.id],
           \A x : Mentioned(x) /\ x.id = r.id =>
                x.table = r.table /\ (r.table \in Settled => x.name = r.name),
           \A x, y \in rows' : x.id = y.id => x = y
    PROVE  RowsKnown'
<1>1. \A x : Mentioned(x)' => GoodRow(x) /\ d_used'[x.id] = x.table
  BY Zenon DEF RowsKnown
<1>2. \A x, y : Mentioned(x)' /\ Mentioned(y)' /\ x.id = y.id /\ x.table \in Settled => x.name = y.name
  BY DEF RowsKnown
<1>3. QED
  BY <1>1, <1>2, Zenon DEF RowsKnown, GoodRow

\* A step that mentions no new row keeps RowsKnown.
LEMMA KnownShrinks ==
    ASSUME RowsKnown, d_used' = d_used,
           \A x : Mentioned(x)' => Mentioned(x),
           \A x, y \in rows' : x.id = y.id => x = y
    PROVE  RowsKnown'
BY Zenon DEF RowsKnown, GoodRow

\* A request that takes a stored row to change keeps the invariant.
LEMMA AsksKeeps ==
    ASSUME DirectoryInv, NEW t \in Clerk, NEW do, NEW g \in rows, NEW r, GoodRow(r),
           r.table = g.table, r.id = g.id, r.table \in Settled => r.name = g.name,
           do = "create" => r.table \in {"group", "idp"},
           directory!Asks(t, do, r)
    PROVE  DirectoryInv'
<1>1. /\ d_req' = [d_req EXCEPT ![t] = [do |-> do, row |-> r]]
      /\ UNCHANGED <<backend, rows, index, links, d_used, renamed>>
  BY Zenon DEF directory!Asks, directory!Pending
<1>2. DirectoryTypes'
  BY <1>1, Zenon DEF DirectoryInv, DirectoryTypes
<1>3. Mentioned(g)
  BY Zenon DEF Mentioned
<1>4. \A x : Mentioned(x)' => Mentioned(x) \/ x = r
  BY <1>1, Zenon DEF Mentioned, DirectoryInv, DirectoryTypes
<1>5. \A x : Mentioned(x) /\ x.id = r.id => x.table = r.table /\ (r.table \in Settled => x.name = r.name)
  BY <1>3 DEF DirectoryInv, RowsKnown
<1>6. RowsKnown'
  BY <1>1, <1>3, <1>4, <1>5, KnownGrows DEF DirectoryInv, RowsKnown
<1>7. QED
  BY <1>1, <1>2, <1>6, QuietKeeps, Zenon DEF DirectoryInv

\* A lookup by name returns stored rows of the table.
LEMMA FindRows ==
    ASSUME NEW tbl, NEW n, NEW r \in directory!find(tbl, n)
    PROVE  r \in rows /\ r.table = tbl
BY Zenon DEF directory!find, directory!memory_get_by_index, directory!Of

\* A stored row is a row of its table.
LEMMA StoredGood ==
    ASSUME DirectoryInv, NEW r \in rows
    PROVE  GoodRow(r) /\ d_used[r.id] = r.table
BY Zenon DEF DirectoryInv, RowsKnown, Mentioned

\* The handlers that look a row up by name and then change it keep the
\* invariant.
LEMMA ByNameKeeps ==
    ASSUME DirectoryInv, NEW t \in Clerk, NEW n \in directory!Plain, directory!ByName(t, n)
    PROVE  DirectoryInv'
<1>1. ASSUME NEW tbl, NEW r \in directory!find(tbl, n), NEW do, do = "create" => tbl = "idp",
             directory!Asks(t, do, r)
      PROVE  DirectoryInv'
  BY <1>1, FindRows, StoredGood, AsksKeeps, Zenon
<1>2. ASSUME NEW m \in directory!Plain, NEW c, directory!roles_update(t, n, m, c) PROVE DirectoryInv'
  <2>1. PICK g \in directory!find("role", n) : directory!Asks(t, "update", directory!RowOf("role", g.id, m, c))
    BY <1>2, Zenon DEF directory!roles_update
  <2>2. PICK r : r = directory!RowOf("role", g.id, m, c)
    BY Zenon
  <2>3. g \in rows /\ g.table = "role" /\ GoodRow(g)
    BY FindRows, StoredGood, Zenon
  <2>4. GoodRow(r) /\ r.table = "role" /\ r.id = g.id
    BY <2>2, <2>3, Zenon DEF GoodRow, directory!RowOf, directory!Indexed
  <2>5. QED
    BY <2>1, <2>2, <2>3, <2>4, AsksKeeps, Zenon DEF Settled
<1>3. ASSUME NEW m \in directory!Plain, NEW do \in {"update", "restore"}, directory!agents_update(t, n, m, do)
      PROVE  DirectoryInv'
  <2>1. PICK g \in directory!find("agent", n) : directory!Asks(t, do, [g EXCEPT !.name = m])
    BY <1>3, Zenon DEF directory!agents_update
  <2>2. PICK r : r = [g EXCEPT !.name = m]
    BY Zenon
  <2>3. g \in rows /\ g.table = "agent" /\ GoodRow(g)
    BY FindRows, StoredGood, Zenon
  <2>4. GoodRow(r) /\ r.table = "agent" /\ r.id = g.id
    BY <2>2, <2>3, Zenon DEF GoodRow, directory!Indexed
  <2>5. QED
    BY <2>1, <2>2, <2>3, <2>4, AsksKeeps, Zenon DEF Settled
<1>4. ASSUME NEW tbl, NEW do \in {"update", "delete", "password", "revoke"},
             \E r \in directory!find(tbl, n) : directory!Asks(t, do, r)
      PROVE  DirectoryInv'
  BY <1>1, <1>4, Zenon
<1>5. CASE directory!idps_update(t, n)
  BY <1>1, <1>5, Zenon DEF directory!idps_update
<1>6. CASE directory!users_update(t, n) \/ directory!users_delete(t, n) \/ directory!users_verify_email(t, n)
           \/ directory!users_set_password(t, n)
  BY <1>4, <1>6, Zenon DEF directory!users_update, directory!users_delete, directory!users_verify_email,
     directory!users_set_password
<1>7. CASE directory!clients_update(t, n) \/ directory!clients_delete(t, n) \/ directory!roles_delete(t, n)
           \/ directory!agents_revoke(t, n)
  BY <1>4, <1>7, Zenon DEF directory!clients_update, directory!clients_delete, directory!roles_delete,
     directory!agents_revoke
<1>8. QED
  BY <1>2, <1>3, <1>5, <1>6, <1>7, Zenon DEF directory!ByName

\* Moving a group under another keeps the invariant.
LEMMA GroupUpdateKeeps ==
    ASSUME DirectoryInv, NEW t \in Clerk, NEW i, NEW p, directory!groups_update(t, i, p)
    PROVE  DirectoryInv'
<1>1. PICK g \in rows : g.table = "group" /\ directory!Asks(t, "update", [g EXCEPT !.up = p])
  BY Zenon DEF directory!groups_update, directory!Of
<1>2. PICK r : r = [g EXCEPT !.up = p]
  BY Zenon
<1>3. GoodRow(g)
  BY StoredGood, Zenon
<1>4. GoodRow(r) /\ r.table = "group" /\ r.id = g.id /\ r.name = g.name
  BY <1>1, <1>2, <1>3, Zenon DEF GoodRow, directory!Indexed
<1>5. QED
  BY <1>1, <1>2, <1>4, AsksKeeps, Zenon

\* A request that is about to create a group under a parent keeps the
\* invariant.
LEMMA SubgroupKeeps ==
    ASSUME DirectoryInv, NEW t \in Clerk, NEW r, GoodRow(r), r.table = "group",
           d_used[r.id] = NoRow, d_used' = [d_used EXCEPT ![r.id] = "group"],
           directory!Pending(t, "create", r)
    PROVE  DirectoryInv'
<1>1. /\ d_req' = [d_req EXCEPT ![t] = [do |-> "create", row |-> r]]
      /\ UNCHANGED <<backend, rows, index, links, renamed>>
  BY Zenon DEF directory!Pending
<1>2. DirectoryTypes'
  BY <1>1, Zenon DEF DirectoryInv, DirectoryTypes
<1>3. \A x : Mentioned(x)' => Mentioned(x) \/ x = r
  BY <1>1, Zenon DEF Mentioned, DirectoryInv, DirectoryTypes
<1>4. \A x : Mentioned(x) => x.id # r.id /\ x.id \in RowId /\ d_used[x.id] = x.table
  BY DirectoryAssumption, Zenon DEF DirectoryInv, RowsKnown, GoodRow
<1>5. d_used'[r.id] = r.table /\ \A i \in RowId : i # r.id => d_used'[i] = d_used[i]
  BY Zenon DEF DirectoryInv, DirectoryTypes, GoodRow
<1>6. RowsKnown'
  BY <1>1, <1>3, <1>4, <1>5, KnownGrows DEF DirectoryInv, RowsKnown
<1>7. LinkTables'
  BY <1>1, <1>5, DirectoryAssumption DEF DirectoryInv, LinkTables, directory!Table
<1>8. NamesOnce' /\ IndexExact'
  BY <1>1 DEF DirectoryInv, NamesOnce, IndexExact, Alike, Unguarded
<1>9. (directory!NothingDangles)'
  BY <1>1, Zenon DEF DirectoryInv, directory!NothingDangles, directory!Live, directory!Of
<1>10. QED
  BY <1>2, <1>6, <1>7, <1>8, <1>9, Zenon DEF DirectoryInv

\* The row may go in: its id is new, or belongs to a group or provider of the name.
MayInsert(r) ==
    /\ GoodRow(r)
    /\ \A q \in rows : q.id = r.id =>
          q.table = r.table /\ q.name = r.name /\ r.table \in {"group", "idp"}

\* A create that succeeds adds the row, under a fresh id and a guarded name,
\* and indexes it.
LEMMA CreateAdds ==
    ASSUME DirectoryInv, NEW r, MayInsert(r), directory!create(r)
    PROVE  /\ rows' = rows \cup {r}
           /\ \A q \in rows : q.id # r.id
           /\ \A q \in rows : Alike(q, r) => backend = "postgres" /\ r.table = "role" /\ r.up = NoRow
           /\ backend = "postgres" => directory!References(r)
           /\ \/ /\ index' = index
                 /\ backend = "memory" => r.table \notin directory!Indexed
              \/ /\ index' = [index EXCEPT ![r.table][r.name] = r.id]
                 /\ backend = "memory" /\ r.table \in directory!Indexed /\ index[r.table][r.name] = NoRow
<1>1. CASE backend = "memory" /\ r.table \in directory!Indexed
  <2>1. index[r.table][r.name] = NoRow /\ index' = [index EXCEPT ![r.table][r.name] = r.id] /\ directory!Put(r)
    BY <1>1, Zenon DEF directory!create, directory!memory_create, directory!memory_create_user,
       directory!memory_create_client, directory!Indexed
  <2>2. \A q \in rows : q.id # r.id
    BY <1>1, Zenon DEF MayInsert, directory!Indexed
  <2>3. rows' = rows \cup {r}
    BY <2>1, <2>2, Zenon DEF directory!Put, directory!Same
  <2>4. \A q \in rows : ~ Alike(q, r)
    BY <1>1, <2>1, DirectoryAssumption, StoredGood DEF DirectoryInv, IndexExact, Alike, GoodRow
  <2>5. QED
    BY <1>1, <2>1, <2>2, <2>3, <2>4, Zenon
<1>2. CASE backend = "memory" /\ r.table \notin directory!Indexed
  <2>1. directory!Namesakes(r) = {} /\ directory!Put(r) /\ index' = index
    BY <1>2, Zenon DEF directory!create, directory!memory_create, directory!memory_create_role,
       directory!memory_create_group, directory!memory_create_agent, directory!memory_create_idp, directory!Indexed
  <2>2. \A q \in rows : ~ Alike(q, r)
    BY <2>1, Zenon DEF directory!Namesakes, directory!Of, Alike
  <2>3. \A q \in rows : q.id # r.id
    BY <2>2, Zenon DEF MayInsert, Alike
  <2>4. rows' = rows \cup {r}
    BY <2>1, <2>3, Zenon DEF directory!Put, directory!Same
  <2>5. QED
    BY <1>2, <2>1, <2>2, <2>3, <2>4, Zenon
<1>3. CASE backend = "postgres"
  <2>1. directory!Same(r) = {} /\ directory!Unique(r) /\ directory!References(r) /\ directory!Put(r) /\ index' = index
    BY <1>3, Zenon DEF directory!create, directory!postgres_create
  <2>2. \A q \in rows : q.id # r.id
    BY <2>1, Zenon DEF directory!Same, MayInsert
  <2>3. rows' = rows \cup {r}
    BY <2>1, Zenon DEF directory!Put
  <2>4. \A q \in rows : Alike(q, r) => r.table = "role" /\ r.up = NoRow
    BY <2>1, <2>2, Zenon DEF directory!Unique, directory!Namesakes, directory!Of, Alike
  <2>5. QED
    BY <1>3, <2>1, <2>2, <2>3, <2>4, Zenon
<1>4. QED
  BY <1>1, <1>2, <1>3, Zenon DEF DirectoryInv, DirectoryTypes

\* Adding the row keeps names, index and references.
LEMMA CreateKeeps ==
    ASSUME DirectoryInv, NEW r, MayInsert(r), directory!create(r),
           UNCHANGED <<backend, links, renamed>>
    PROVE  NamesOnce' /\ IndexExact' /\ (directory!NothingDangles)'
<1>1. /\ rows' = rows \cup {r}
      /\ \A q \in rows : Alike(q, r) => backend = "postgres" /\ r.table = "role" /\ r.up = NoRow
      /\ backend = "postgres" => directory!References(r)
  BY CreateAdds, Zenon
<1>2. NamesOnce'
  BY <1>1 DEF DirectoryInv, NamesOnce, Alike, Unguarded
<1>3. IndexExact'
  <2>1. CASE index' = index /\ (backend = "memory" => r.table \notin directory!Indexed)
    BY <1>1, <2>1 DEF DirectoryInv, IndexExact
  <2>2. CASE /\ index' = [index EXCEPT ![r.table][r.name] = r.id]
             /\ backend = "memory" /\ r.table \in directory!Indexed /\ index[r.table][r.name] = NoRow
    <3>1. r.name \in directory!Plain /\ r.id \in RowId
      BY <2>2, Zenon DEF MayInsert, GoodRow
    <3>2. index'[r.table][r.name] = r.id
      BY <2>2, <3>1, Zenon DEF DirectoryInv, DirectoryTypes
    <3>3. \A tbl \in directory!Indexed, n \in directory!Plain :
             (tbl # r.table \/ n # r.name) => index'[tbl][n] = index[tbl][n]
      BY <2>2, <3>1, Zenon DEF DirectoryInv, DirectoryTypes
    <3>4. \A q \in rows : ~ Alike(q, r)
      BY <1>1, <2>2, Zenon
    <3>5. ASSUME NEW q \in rows, q.table \in directory!Indexed PROVE index'[q.table][q.name] = q.id
      <4>1. q.name \in directory!Plain /\ q.table # "role"
        BY <3>5, StoredGood, Zenon DEF GoodRow, directory!Indexed
      <4>2. q.table # r.table \/ q.name # r.name
        BY <3>4, <4>1, Zenon DEF Alike
      <4>3. QED
        BY <2>2, <3>3, <3>5, <4>1, <4>2 DEF DirectoryInv, IndexExact
    <3>6. ASSUME NEW tbl \in directory!Indexed, NEW n \in directory!Plain, index'[tbl][n] # NoRow
          PROVE  \E q \in rows' : q.table = tbl /\ q.id = index'[tbl][n] /\ q.name = n
      <4>1. CASE tbl = r.table /\ n = r.name
        BY <1>1, <3>2, <4>1, Zenon
      <4>2. CASE tbl # r.table \/ n # r.name
        BY <1>1, <3>3, <3>6, <4>2 DEF DirectoryInv, IndexExact
      <4>3. QED
        BY <4>1, <4>2, Zenon
    <3>7. QED
      BY <1>1, <2>2, <3>2, <3>5, <3>6 DEF IndexExact
  <2>3. QED
    BY <2>1, <2>2, CreateAdds, Zenon
<1>4. (directory!NothingDangles)'
  <2>1. \A i : directory!Live(i) => directory!Live(i)'
    BY <1>1, Zenon DEF directory!Live
  <2>2. ASSUME backend = "postgres", r.table \in {"role", "group"}, r.up # NoRow PROVE directory!Live(r.up)
    BY <1>1, <2>2, Zenon DEF directory!References, directory!Of, directory!Live
  <2>3. QED
    BY <1>1, <2>1, <2>2, Zenon DEF DirectoryInv, directory!NothingDangles, directory!Of
<1>5. QED
  BY <1>2, <1>3, <1>4, Zenon

\* Adding the row keeps the type of the index.
LEMMA CreateTypes ==
    ASSUME DirectoryInv, NEW r, MayInsert(r), directory!create(r)
    PROVE  index' \in [directory!Indexed -> [directory!Plain -> RowId \cup {NoRow}]]
<1>1. CASE index' = index
  BY <1>1, Zenon DEF DirectoryInv, DirectoryTypes
<1>2. CASE index' = [index EXCEPT ![r.table][r.name] = r.id] /\ r.table \in directory!Indexed
  <2>1. r.name \in directory!Plain /\ r.id \in RowId
    BY <1>2, Zenon DEF MayInsert, GoodRow
  <2>2. PICK f : f = [index[r.table] EXCEPT ![r.name] = r.id]
    BY Zenon
  <2>3. f \in [directory!Plain -> RowId \cup {NoRow}]
    BY <1>2, <2>1, <2>2, Zenon DEF DirectoryInv, DirectoryTypes
  <2>4. index' = [index EXCEPT ![r.table] = f]
    BY <1>2, <2>2, Zenon DEF DirectoryInv, DirectoryTypes
  <2>5. QED
    BY <1>2, <2>3, <2>4, Zenon DEF DirectoryInv, DirectoryTypes
<1>3. QED
  BY <1>1, <1>2, CreateAdds, Zenon

\* A create without an earlier lookup keeps the invariant.
LEMMA InsertsKeeps ==
    ASSUME DirectoryInv, NEW r, GoodRow(r), directory!Inserts(r),
           \/ d_req' = d_req
           \/ \E t \in Clerk : d_req' = [d_req EXCEPT ![t] = [do |-> "secret", row |-> r]]
    PROVE  DirectoryInv'
<1>1. /\ d_used[r.id] = NoRow /\ d_used' = [d_used EXCEPT ![r.id] = r.table] /\ directory!create(r)
      /\ UNCHANGED <<backend, links, renamed>>
  BY Zenon DEF directory!Inserts
<1>2. \A x : Mentioned(x) => x.id # r.id /\ x.id \in RowId
  BY <1>1, DirectoryAssumption, Zenon DEF DirectoryInv, RowsKnown, GoodRow
<1>3. MayInsert(r)
  BY <1>2, Zenon DEF MayInsert, Mentioned
<1>4. rows' = rows \cup {r} /\ \A q \in rows : q.id # r.id
  BY <1>1, <1>3, CreateAdds, Zenon
<1>5. d_used'[r.id] = r.table /\ \A i \in RowId : i # r.id => d_used'[i] = d_used[i]
  BY <1>1, Zenon DEF DirectoryInv, DirectoryTypes, GoodRow
<1>6. \A x : Mentioned(x)' => Mentioned(x) \/ x = r
  BY <1>4 DEF Mentioned, DirectoryInv, DirectoryTypes
<1>7. \A x, y \in rows' : x.id = y.id => x = y
  BY <1>4, Zenon DEF DirectoryInv, RowsKnown
<1>8. RowsKnown'
  BY <1>2, <1>5, <1>6, <1>7, KnownGrows, Zenon DEF DirectoryInv
<1>9. index' \in [directory!Indexed -> [directory!Plain -> RowId \cup {NoRow}]]
  BY <1>1, <1>3, CreateTypes, Zenon
<1>10. DirectoryTypes'
  BY <1>1, <1>9 DEF DirectoryInv, DirectoryTypes
<1>11. LinkTables'
  BY <1>1, <1>5, DirectoryAssumption DEF DirectoryInv, LinkTables, directory!Table
<1>12. QED
  BY <1>1, <1>3, <1>8, <1>10, <1>11, CreateKeeps, Zenon DEF DirectoryInv

\* A request that ends mentions its row no more.
LEMMA DoneMentions ==
    ASSUME DirectoryTypes, NEW t \in Clerk, directory!Done(t), NEW x, Mentioned(x)'
    PROVE  x \in rows' \/ Mentioned(x)
BY Zenon DEF DirectoryTypes, directory!Done, Mentioned

\* The end of a request keeps the types.
LEMMA DoneTypes ==
    ASSUME DirectoryTypes, NEW t \in Clerk, directory!Done(t), d_used' = d_used,
           index' \in [directory!Indexed -> [directory!Plain -> RowId \cup {NoRow}]]
    PROVE  DirectoryTypes'
BY Zenon DEF DirectoryTypes, directory!Done

\* The create of a request that looked up first keeps the invariant, whatever
\* happened in between.
LEMMA CreateStep ==
    ASSUME DirectoryInv, NEW t \in Clerk, directory!Create(t)
    PROVE  DirectoryInv'
<1>1. PICK r : r = d_req[t].row
  BY Zenon
<1>2. /\ d_req[t] # NoRow /\ d_req[t].do = "create" /\ directory!create(r) /\ directory!Done(t)
      /\ UNCHANGED <<links, d_used, renamed>> /\ backend' = backend
  BY <1>1, Zenon DEF directory!Create, directory!Does, directory!Done
<1>3. Mentioned(r) /\ GoodRow(r) /\ r.table \in {"group", "idp"}
  BY <1>1, <1>2, Zenon DEF DirectoryInv, DirectoryTypes, RowsKnown, Mentioned
<1>4. MayInsert(r)
  BY <1>3 DEF MayInsert, DirectoryInv, RowsKnown, Mentioned, Settled
<1>5. rows' = rows \cup {r} /\ \A q \in rows : q.id # r.id
  BY <1>2, <1>4, CreateAdds, Zenon
<1>6. \A x : Mentioned(x)' => Mentioned(x)
  BY <1>2, <1>3, <1>5, DoneMentions, Zenon DEF DirectoryInv, Mentioned
<1>7. \A x, y \in rows' : x.id = y.id => x = y
  BY <1>5, Zenon DEF DirectoryInv, RowsKnown
<1>8. RowsKnown'
  BY <1>2, <1>6, <1>7, KnownShrinks, Zenon DEF DirectoryInv
<1>9. index' \in [directory!Indexed -> [directory!Plain -> RowId \cup {NoRow}]]
  BY <1>2, <1>4, CreateTypes, Zenon
<1>10. DirectoryTypes'
  BY <1>2, <1>9, DoneTypes, Zenon DEF DirectoryInv
<1>11. LinkTables'
  BY <1>2, Zenon DEF DirectoryInv, LinkTables
<1>12. QED
  BY <1>2, <1>4, <1>8, <1>10, <1>11, CreateKeeps, Zenon DEF DirectoryInv

\* An update replaces the stored row of the id by one with the request's name
\* and, in PostgreSQL, only under the unique indexes.
LEMMA UpdateReplaces ==
    ASSUME DirectoryInv, NEW r, GoodRow(r), d_used[r.id] = r.table, directory!update(r)
    PROVE  \E q, s :
              /\ q \in rows /\ q.id = r.id /\ q.table = r.table
              /\ rows' = (rows \ {q}) \cup {s} /\ index' = index
              /\ GoodRow(s) /\ s.id = r.id /\ s.table = r.table /\ s.name = r.name
              /\ backend = "memory" => s = r
              /\ backend = "postgres" =>
                    /\ directory!Unique(s)
                    /\ s.table = "role" => s.up = q.up
                    /\ s.table = "group" => directory!References(s)
<1>1. PICK q \in rows : q.id = r.id /\ q.table = r.table
  BY Zenon DEF directory!update, directory!memory_update, directory!postgres_update, directory!Same
<1>2. ASSUME NEW s, s.id = r.id, s.table = r.table PROVE directory!Same(s) = {q}
  BY <1>1, <1>2, Zenon DEF directory!Same, DirectoryInv, RowsKnown
<1>3. ASSUME NEW s, s.id = r.id, s.table = r.table, directory!Put(s) PROVE rows' = (rows \ {q}) \cup {s}
  BY <1>2, <1>3, Zenon DEF directory!Put
<1>4. CASE backend = "memory"
  BY <1>1, <1>3, <1>4, Zenon DEF directory!update, directory!memory_update
<1>5. CASE backend = "postgres"
  <2>1. index' = index
    BY <1>5, Zenon DEF directory!update
  <2>2. CASE r.table \in {"role", "agent"}
    <3>1. PICK s : s = [r EXCEPT !.up = q.up]
      BY Zenon
    <3>a. \A p \in directory!Same(r) : p = q
      BY <1>2
    <3>2. directory!Unique(s) /\ directory!Put(s)
      BY <1>5, <2>2, <3>a, <3>1, Zenon DEF directory!update, directory!postgres_update, directory!postgres_update_role,
         directory!postgres_update_agent
    <3>3. GoodRow(s) /\ s.id = r.id /\ s.table = r.table /\ s.name = r.name /\ s.up = q.up
      BY <3>1, Zenon DEF GoodRow
    <3>4. QED
      BY <1>1, <1>3, <1>5, <2>1, <2>2, <3>2, <3>3, Zenon
  <2>3. CASE r.table \notin {"role", "agent"}
    <3>1. directory!Unique(r) /\ directory!Put(r) /\ (r.table = "group" => directory!References(r))
      BY <1>5, <2>3, Zenon DEF directory!update, directory!postgres_update, directory!postgres_update_user,
         directory!postgres_update_client, directory!postgres_update_group
    <3>2. QED
      BY <1>1, <1>3, <1>5, <2>1, <2>3, <3>1, Zenon
  <2>4. QED
    BY <2>2, <2>3, Zenon
<1>6. QED
  BY <1>4, <1>5, Zenon DEF DirectoryInv, DirectoryTypes

\* The update of a request keeps the invariant, although the row it read may
\* have changed since.
LEMMA UpdateStep ==
    ASSUME DirectoryInv, NEW t \in Clerk, directory!Update(t)
    PROVE  DirectoryInv'
<1>1. PICK r : r = d_req[t].row
  BY Zenon
<1>2. /\ d_req[t] # NoRow /\ directory!update(r) /\ directory!Done(t)
      /\ UNCHANGED <<links, d_used, backend>>
      /\ renamed' = IF backend = "postgres" \/ directory!Same(r) \subseteq directory!Namesakes(r)
                    THEN renamed ELSE renamed \cup {r.table}
  BY <1>1, Zenon DEF directory!Update, directory!Does, directory!Done
<1>3. Mentioned(r) /\ GoodRow(r) /\ d_used[r.id] = r.table
  BY <1>1, <1>2, Zenon DEF DirectoryInv, RowsKnown, Mentioned
<1>4. PICK q, s :
        /\ q \in rows /\ q.id = r.id /\ q.table = r.table
        /\ rows' = (rows \ {q}) \cup {s} /\ index' = index
        /\ GoodRow(s) /\ s.id = r.id /\ s.table = r.table /\ s.name = r.name
        /\ backend = "memory" => s = r
        /\ backend = "postgres" =>
              /\ directory!Unique(s)
              /\ s.table = "role" => s.up = q.up
              /\ s.table = "group" => directory!References(s)
  BY <1>2, <1>3, UpdateReplaces, Zenon
<1>5. r.table \in Settled => q.name = r.name
  BY <1>3, <1>4, Zenon DEF DirectoryInv, RowsKnown, Mentioned
<1>6. \A x \in rows : x.id = r.id => x = q
  BY <1>4, Zenon DEF DirectoryInv, RowsKnown
<1>7. DirectoryTypes'
  BY <1>2, <1>4, DoneTypes, Zenon DEF DirectoryInv, DirectoryTypes
<1>8. RowsKnown'
  <2>1. \A x : Mentioned(x)' => Mentioned(x) \/ x = s
    BY <1>2, <1>4, DoneMentions, Zenon DEF DirectoryInv, Mentioned
  <2>2. \A x, y \in rows' : x.id = y.id => x = y
    BY <1>4, <1>6, Zenon DEF DirectoryInv, RowsKnown
  <2>3. \A x : Mentioned(x) /\ x.id = s.id => x.table = s.table /\ (s.table \in Settled => x.name = s.name)
    BY <1>3, <1>4 DEF DirectoryInv, RowsKnown
  <2>4. QED
    BY <1>2, <1>3, <1>4, <2>1, <2>2, <2>3, KnownGrows, Zenon DEF DirectoryInv
<1>9. NamesOnce'
  <2>1. CASE backend = "postgres"
    <3>1. \A x \in rows : Alike(x, s) => x.id = s.id \/ (s.table = "role" /\ s.up = NoRow)
      BY <1>4, <2>1, Zenon DEF directory!Unique, directory!Namesakes, directory!Of, Alike
    <3>2. QED
      BY <1>2, <1>4, <1>6, <2>1, <3>1 DEF DirectoryInv, NamesOnce, Alike, Unguarded
  <2>2. CASE backend = "memory" /\ Alike(q, r)
    BY <1>2, <1>4, <2>2 DEF DirectoryInv, NamesOnce, Alike, Unguarded
  <2>3. CASE backend = "memory" /\ ~ Alike(q, r)
    <3>1. r.table \in {"role", "agent"}
      BY <1>3, <1>4, <1>5, <2>3, Zenon DEF Alike, GoodRow, directory!Table, Settled
    <3>2. r.table \in renamed'
      BY <1>2, <1>4, <2>3, Zenon DEF Alike, directory!Same, directory!Namesakes, directory!Of
    <3>3. QED
      BY <1>2, <1>4, <2>3, <3>1, <3>2 DEF DirectoryInv, NamesOnce, Alike, Unguarded
  <2>4. QED
    BY <2>1, <2>2, <2>3, Zenon DEF DirectoryInv, DirectoryTypes
<1>10. IndexExact'
  <2>1. r.table \in directory!Indexed => q.name = s.name
    BY <1>4, <1>5, Zenon DEF Settled, directory!Indexed
  <2>2. QED
    BY <1>2, <1>4, <2>1 DEF DirectoryInv, IndexExact
<1>11. LinkTables'
  BY <1>2, Zenon DEF DirectoryInv, LinkTables
<1>12. (directory!NothingDangles)'
  <2>1. \A i : directory!Live(i) => directory!Live(i)'
    BY <1>4, Zenon DEF directory!Live
  <2>2. ASSUME backend = "postgres", s.table \in {"role", "group"}, s.up # NoRow PROVE directory!Live(s.up)
    BY <1>4, <2>2, Zenon DEF directory!References, directory!Of, directory!Live, DirectoryInv, directory!NothingDangles
  <2>3. QED
    BY <1>2, <1>4, <2>1, <2>2, Zenon DEF DirectoryInv, directory!NothingDangles, directory!Of
<1>13. QED
  BY <1>7, <1>8, <1>9, <1>10, <1>11, <1>12, Zenon DEF DirectoryInv

\* MemoryStorage's deletes remove the row, its index entry and the links that
\* lead to it.
LEMMA MemoryDelete ==
    ASSUME DirectoryInv, NEW r, GoodRow(r), d_used[r.id] = r.table,
           backend = "memory", directory!memory_delete(r), UNCHANGED <<backend, d_used, renamed>>
    PROVE  /\ rows' \subseteq rows /\ links' \subseteq links
           /\ index' \in [directory!Indexed -> [directory!Plain -> RowId \cup {NoRow}]]
           /\ IndexExact' /\ (directory!NothingDangles)'
<1>1. PICK q \in rows : q.id = r.id /\ q.table = r.table
  BY Zenon DEF directory!memory_delete, directory!Same
<1>2. directory!Same(r) = {q}
  BY <1>1, Zenon DEF directory!Same, DirectoryInv, RowsKnown
<1>3. rows' = rows \ {q}
  BY <1>2, Zenon DEF directory!memory_delete, directory!memory_delete_user, directory!memory_delete_client,
     directory!memory_delete_role, directory!memory_delete_group, directory!memory_delete_idp
<1>4. CASE r.table \in directory!Indexed
  <2>1. /\ index' = [index EXCEPT ![r.table] =
                       [n \in directory!Plain |-> IF \E p \in directory!Same(r) : p.name = n THEN NoRow ELSE @[n]]]
        /\ links' = links
    BY <1>4, Zenon DEF directory!memory_delete, directory!memory_delete_user, directory!memory_delete_client,
       directory!Indexed
  <2>2. PICK f : f = [n \in directory!Plain |-> IF n = q.name THEN NoRow ELSE index[r.table][n]]
    BY Zenon
  <2>3. index' = [index EXCEPT ![r.table] = f]
    BY <1>2, <1>4, <2>1, <2>2, Zenon DEF DirectoryInv, DirectoryTypes
  <2>4. f \in [directory!Plain -> RowId \cup {NoRow}]
    BY <1>4, <2>2 DEF DirectoryInv, DirectoryTypes
  <2>5. index' \in [directory!Indexed -> [directory!Plain -> RowId \cup {NoRow}]]
    BY <1>4, <2>3, <2>4, Zenon DEF DirectoryInv, DirectoryTypes
  <2>6. \A tbl \in directory!Indexed, n \in directory!Plain :
           index'[tbl][n] = IF tbl = q.table /\ n = q.name THEN NoRow ELSE index[tbl][n]
    BY <1>1, <1>4, <2>2, <2>3, Zenon DEF DirectoryInv, DirectoryTypes
  <2>7. ASSUME NEW p \in rows', p.table \in directory!Indexed PROVE index'[p.table][p.name] = p.id
    <3>1. p \in rows /\ p # q /\ p.name \in directory!Plain
      BY <1>3, <2>7, StoredGood, Zenon DEF GoodRow
    <3>2. index[p.table][p.name] = p.id /\ index[q.table][q.name] = q.id
      BY <1>1, <1>4, <2>7, <3>1, Zenon DEF DirectoryInv, IndexExact
    <3>3. p.id # q.id
      BY <3>1, Zenon DEF DirectoryInv, RowsKnown
    <3>4. QED
      BY <2>6, <2>7, <3>1, <3>2, <3>3
  <2>8. ASSUME NEW tbl \in directory!Indexed, NEW n \in directory!Plain, index'[tbl][n] # NoRow
        PROVE  \E p \in rows' : p.table = tbl /\ p.id = index'[tbl][n] /\ p.name = n
    BY <1>3, <2>6, <2>8 DEF DirectoryInv, IndexExact
  <2>9. IndexExact'
    BY <2>7, <2>8 DEF IndexExact
  <2>10. ASSUME NEW l \in links
         PROVE  /\ l.table \in {"user_role", "user_group", "group_role"} => l.to # q.id
                /\ l.table = "group_role" => l.of # q.id
    BY <1>1, <1>4, Zenon DEF DirectoryInv, LinkTables, directory!Indexed
  <2>11. (directory!NothingDangles)'
    BY <1>3, <2>1, <2>10, Zenon DEF DirectoryInv, directory!NothingDangles, directory!Live
  <2>12. QED
    BY <1>3, <2>1, <2>5, <2>9, <2>11, Zenon
<1>5. CASE r.table \notin directory!Indexed
  <2>1. index' = index /\ links' \subseteq links
    BY <1>5, Zenon DEF directory!memory_delete, directory!memory_delete_role, directory!memory_delete_group,
       directory!memory_delete_idp, directory!Indexed
  <2>2. IndexExact'
    BY <1>1, <1>3, <1>5, <2>1 DEF DirectoryInv, IndexExact
  <2>3. ASSUME NEW l \in links'
        PROVE  /\ l.table \in {"user_role", "user_group", "group_role"} => l.to # q.id
               /\ l.table = "group_role" => l.of # q.id
    <3>1. CASE r.table = "role"
      BY <1>1, <2>1, <3>1, Zenon DEF DirectoryInv, LinkTables, directory!memory_delete, directory!memory_delete_role
    <3>2. CASE r.table = "group"
      BY <1>1, <2>1, <3>2 DEF DirectoryInv, LinkTables, directory!memory_delete, directory!memory_delete_group
    <3>3. CASE r.table = "idp"
      BY <1>1, <2>1, <3>3, Zenon DEF DirectoryInv, LinkTables
    <3>4. QED
      BY <1>5, <3>1, <3>2, <3>3, Zenon DEF directory!memory_delete, directory!Indexed
  <2>4. (directory!NothingDangles)'
    BY <1>3, <2>1, <2>3, Zenon DEF DirectoryInv, directory!NothingDangles, directory!Live
  <2>5. QED
    BY <1>3, <2>1, <2>2, <2>4, Zenon DEF DirectoryInv, DirectoryTypes
<1>6. QED
  BY <1>4, <1>5, Zenon

\* The cascade of a delete takes the roles and groups under a row it takes.
LEMMA CascadeClosed ==
    ASSUME DirectoryInv, NEW i, NEW q \in rows, q.table \in {"role", "group"}, q.up \in directory!Cascade(i)
    PROVE  q.id \in directory!Cascade(i)
<1>1. q.id \in RowId /\ q \in directory!Of("role") \cup directory!Of("group")
  BY StoredGood, Zenon DEF GoodRow, directory!Of
<1>2. QED
  BY <1>1, Zenon DEF directory!Cascade

\* A delete in PostgreSQL cascades to every row and link that refers to what it
\* removes.
LEMMA PostgresDelete ==
    ASSUME DirectoryInv, NEW r, backend = "postgres", directory!postgres_delete(r), index' = index,
           UNCHANGED <<backend, d_used, renamed>>
    PROVE  /\ rows' \subseteq rows /\ links' \subseteq links
           /\ IndexExact' /\ (directory!NothingDangles)'
<1>1. PICK gone : gone = directory!Cascade(r.id)
  BY Zenon
<1>2. /\ rows' = {q \in rows : q.id \notin gone}
      /\ links' = {l \in links : l.of \notin gone /\ l.to \notin gone}
  BY <1>1, Zenon DEF directory!postgres_delete
<1>3. \A q \in rows : q.table \in {"role", "group"} /\ q.up \in gone => q.id \in gone
  BY <1>1, CascadeClosed, Zenon
<1>4. ASSUME NEW i, directory!Live(i), i \notin gone PROVE directory!Live(i)'
  BY <1>2, <1>4, Zenon DEF directory!Live
<1>5. (directory!NothingDangles)'
  BY <1>2, <1>3, <1>4, Zenon DEF DirectoryInv, directory!NothingDangles, directory!Of
<1>6. IndexExact'
  BY Zenon DEF DirectoryInv, IndexExact
<1>7. QED
  BY <1>2, <1>5, <1>6, Zenon

\* A delete on either backend keeps names, index and references.
LEMMA DeleteKeeps ==
    ASSUME DirectoryInv, NEW r, GoodRow(r), d_used[r.id] = r.table, directory!delete(r),
           UNCHANGED <<backend, d_used, renamed>>
    PROVE  /\ rows' \subseteq rows
           /\ index' \in [directory!Indexed -> [directory!Plain -> RowId \cup {NoRow}]]
           /\ NamesOnce' /\ IndexExact' /\ LinkTables' /\ (directory!NothingDangles)'
<1>1. /\ rows' \subseteq rows /\ links' \subseteq links
      /\ index' \in [directory!Indexed -> [directory!Plain -> RowId \cup {NoRow}]]
      /\ IndexExact' /\ (directory!NothingDangles)'
  BY MemoryDelete, PostgresDelete, Zenon DEF directory!delete, DirectoryInv, DirectoryTypes
<1>2. NamesOnce'
  BY <1>1, Zenon DEF DirectoryInv, NamesOnce, Alike, Unguarded
<1>3. LinkTables'
  BY <1>1, Zenon DEF DirectoryInv, LinkTables
<1>4. QED
  BY <1>1, <1>2, <1>3, Zenon

\* A delete by id keeps the invariant.
LEMMA DeletesKeeps ==
    ASSUME DirectoryInv, NEW r \in rows, directory!Deletes(r)
    PROVE  DirectoryInv'
<1>1. directory!delete(r) /\ UNCHANGED <<backend, d_req, d_used, renamed>>
  BY Zenon DEF directory!Deletes
<1>2. /\ rows' \subseteq rows
      /\ index' \in [directory!Indexed -> [directory!Plain -> RowId \cup {NoRow}]]
      /\ NamesOnce' /\ IndexExact' /\ LinkTables' /\ (directory!NothingDangles)'
  BY <1>1, StoredGood, DeleteKeeps, Zenon
<1>3. DirectoryTypes'
  BY <1>1, <1>2, Zenon DEF DirectoryInv, DirectoryTypes
<1>4. \A x : Mentioned(x)' => Mentioned(x)
  BY <1>1, <1>2, Zenon DEF Mentioned
<1>5. RowsKnown'
  BY <1>1, <1>2, <1>4, KnownShrinks, Zenon DEF DirectoryInv, RowsKnown
<1>6. QED
  BY <1>2, <1>3, <1>5, Zenon DEF DirectoryInv

\* The delete of a request that looked up first keeps the invariant.
LEMMA DeleteStep ==
    ASSUME DirectoryInv, NEW t \in Clerk, directory!Delete(t)
    PROVE  DirectoryInv'
<1>1. PICK r : r = d_req[t].row
  BY Zenon
<1>2. d_req[t] # NoRow /\ directory!delete(r) /\ directory!Done(t) /\ UNCHANGED <<backend, d_used, renamed>>
  BY <1>1, Zenon DEF directory!Delete, directory!Does, directory!Done
<1>3. GoodRow(r) /\ d_used[r.id] = r.table
  BY <1>1, <1>2, Zenon DEF DirectoryInv, RowsKnown, Mentioned
<1>4. /\ rows' \subseteq rows
      /\ index' \in [directory!Indexed -> [directory!Plain -> RowId \cup {NoRow}]]
      /\ NamesOnce' /\ IndexExact' /\ LinkTables' /\ (directory!NothingDangles)'
  BY <1>2, <1>3, DeleteKeeps, Zenon
<1>5. DirectoryTypes'
  BY <1>2, <1>4, DoneTypes, Zenon DEF DirectoryInv
<1>6. \A x : Mentioned(x)' => Mentioned(x)
  BY <1>2, <1>4, DoneMentions, Zenon DEF DirectoryInv, Mentioned
<1>7. RowsKnown'
  BY <1>2, <1>4, <1>6, KnownShrinks, Zenon DEF DirectoryInv, RowsKnown
<1>8. QED
  BY <1>4, <1>5, <1>7, Zenon DEF DirectoryInv

\* A request that ends without a change keeps the invariant.
LEMMA DoneStep ==
    ASSUME DirectoryInv, NEW t \in Clerk, directory!Done(t),
           UNCHANGED <<rows, index, links, d_used, renamed>>
    PROVE  DirectoryInv'
<1>1. DirectoryTypes' /\ backend' = backend
  BY DoneTypes, Zenon DEF DirectoryInv, DirectoryTypes, directory!Done
<1>2. \A x : Mentioned(x)' => Mentioned(x)
  BY DoneMentions, Zenon DEF DirectoryInv, Mentioned
<1>3. RowsKnown'
  BY <1>2, KnownShrinks, Zenon DEF DirectoryInv, RowsKnown
<1>4. QED
  BY <1>1, <1>3, QuietKeeps, Zenon DEF DirectoryInv

\* A step that changes links only, or the secrets among them as a request ends.
LEMMA LinksKeep ==
    ASSUME DirectoryInv, UNCHANGED <<backend, rows, index, d_used, renamed>>,
           LinkTables',
           \A l \in links' :
              /\ l.table \in {"user_role", "user_group", "group_role"} \/ backend = "postgres" => directory!Live(l.to)
              /\ l.table = "group_role" \/ backend = "postgres" => directory!Live(l.of),
           d_req' = d_req \/ \E t \in Clerk : directory!Done(t)
    PROVE  DirectoryInv'
<1>1. DirectoryTypes'
  BY DoneTypes, Zenon DEF DirectoryInv, DirectoryTypes
<1>2. \A x : Mentioned(x)' => Mentioned(x)
  BY DoneMentions, Zenon DEF DirectoryInv, Mentioned
<1>3. RowsKnown'
  BY <1>2, KnownShrinks, Zenon DEF DirectoryInv, RowsKnown
<1>4. NamesOnce' /\ IndexExact'
  BY DEF DirectoryInv, NamesOnce, IndexExact, Alike, Unguarded
<1>5. (directory!NothingDangles)'
  BY Zenon DEF DirectoryInv, directory!NothingDangles, directory!Live, directory!Of
<1>6. QED
  BY <1>1, <1>3, <1>4, <1>5, Zenon DEF DirectoryInv

\* A membership or role assignment, checked on each backend, keeps the
\* invariant.
LEMMA AssignsKeep ==
    ASSUME DirectoryInv, NEW tbl, NEW f \in RowId, NEW g \in RowId,
           \/ tbl = "user_role" /\ d_used[g] = "role"
           \/ tbl = "user_group" /\ d_used[g] = "group"
           \/ tbl = "group_role" /\ d_used[f] = "group" /\ d_used[g] = "role",
           directory!Assigns([table |-> tbl, of |-> f, to |-> g])
    PROVE  DirectoryInv'
<1>1. PICK l : l = [table |-> tbl, of |-> f, to |-> g]
  BY Zenon
<1>2. l.table = tbl /\ l.of = f /\ l.to = g
  BY <1>1, Zenon
<1>3. /\ links' = links \cup {l} /\ UNCHANGED <<backend, rows, index, d_req, d_used, renamed>>
      /\ backend = "memory" => directory!memory_assign(l)
      /\ backend = "postgres" => directory!Live(l.of) /\ directory!Live(l.to)
  BY <1>1, Zenon DEF directory!Assigns, directory!assign
<1>4. LinkTables'
  BY <1>2, <1>3, Zenon DEF DirectoryInv, LinkTables
<1>5. directory!Live(l.to) /\ (l.table = "group_role" => directory!Live(l.of))
  BY <1>3, Zenon DEF DirectoryInv, DirectoryTypes, directory!memory_assign, directory!memory_assign_user_role,
     directory!memory_assign_user_group, directory!memory_assign_group_role, directory!Live, directory!Of
<1>6. \A k \in links' :
        /\ k.table \in {"user_role", "user_group", "group_role"} \/ backend = "postgres" => directory!Live(k.to)
        /\ k.table = "group_role" \/ backend = "postgres" => directory!Live(k.of)
  BY <1>3, <1>5, Zenon DEF DirectoryInv, directory!NothingDangles
<1>7. QED
  BY <1>3, <1>4, <1>6, LinksKeep, Zenon

\* Removing a link keeps the invariant.
LEMMA UnassignKeeps ==
    ASSUME DirectoryInv, NEW l, directory!unassign(l)
    PROVE  DirectoryInv'
<1>1. links' \subseteq links /\ UNCHANGED <<backend, rows, index, d_req, d_used, renamed>>
  BY Zenon DEF directory!unassign
<1>2. LinkTables'
  BY <1>1, Zenon DEF DirectoryInv, LinkTables
<1>3. \A k \in links' :
        /\ k.table \in {"user_role", "user_group", "group_role"} \/ backend = "postgres" => directory!Live(k.to)
        /\ k.table = "group_role" \/ backend = "postgres" => directory!Live(k.of)
  BY <1>1, Zenon DEF DirectoryInv, directory!NothingDangles
<1>4. QED
  BY <1>1, <1>2, <1>3, LinksKeep, Zenon

\* Storing the secret of a client just created keeps the invariant, although
\* the client may be gone.
LEMMA StoreSecretStep ==
    ASSUME DirectoryInv, NEW t \in Clerk, directory!StoreSecret(t)
    PROVE  DirectoryInv'
<1>1. PICK l, i, do : i = d_req[t].row.id /\ do = d_req[t].do /\ l = [table |-> do, of |-> i, to |-> i]
  BY Zenon
<1>2. l.table = do /\ l.of = i /\ l.to = i
  BY <1>1, Zenon
<1>3. /\ links' = links \cup {l} /\ UNCHANGED <<backend, rows, index, d_used, renamed>> /\ directory!Done(t)
      /\ backend = "postgres" => directory!Live(l.of)
      /\ do \in {"password", "secret"} /\ d_req[t] # NoRow
  BY <1>1, Zenon DEF directory!StoreSecret, directory!store_secret, directory!Does, directory!Done
<1>4. i \in RowId
  BY <1>1, <1>3, Zenon DEF DirectoryInv, RowsKnown, Mentioned, GoodRow
<1>5. LinkTables'
  BY <1>2, <1>3, <1>4, Zenon DEF DirectoryInv, LinkTables
<1>6. \A k \in links' :
        /\ k.table \in {"user_role", "user_group", "group_role"} \/ backend = "postgres" => directory!Live(k.to)
        /\ k.table = "group_role" \/ backend = "postgres" => directory!Live(k.of)
  BY <1>2, <1>3, Zenon DEF DirectoryInv, directory!NothingDangles
<1>7. QED
  BY <1>3, <1>5, <1>6, LinksKeep, Zenon

\* The handlers that create a row keep the invariant.
LEMMA CreationsKeep ==
    ASSUME DirectoryInv, NEW i \in RowId, NEW n \in directory!Plain,
           \/ directory!users_create(i, n) \/ directory!idps_create(i, n)
           \/ \E t \in Clerk : directory!clients_create(t, i, n)
           \/ \E c : directory!roles_create(i, n, c)
           \/ \E t \in Clerk, p \in RowId \cup {NoRow} : directory!groups_create(t, i, p, n)
           \/ \E s \in Subject : directory!agents_create(i, n, s)
    PROVE  DirectoryInv'
<1>1. ASSUME NEW tbl \in directory!Table, NEW name, tbl \in directory!Indexed => name \in directory!Plain, NEW up
      PROVE  /\ GoodRow(directory!RowOf(tbl, i, name, up))
             /\ directory!RowOf(tbl, i, name, up).id = i /\ directory!RowOf(tbl, i, name, up).table = tbl
  BY <1>1, Zenon DEF GoodRow, directory!RowOf
<1>2. ASSUME NEW tbl \in directory!Table, NEW up, directory!Inserts(directory!RowOf(tbl, i, n, up)), d_req' = d_req
      PROVE  DirectoryInv'
  BY <1>1, <1>2, InsertsKeeps, Zenon
<1>3. ASSUME NEW t \in Clerk, directory!clients_create(t, i, n) PROVE DirectoryInv'
  <2>1. PICK r : r = directory!RowOf("client", i, n, NoRow)
    BY Zenon
  <2>2. GoodRow(r)
    BY <1>1, <2>1, Zenon DEF directory!Table
  <2>3. /\ directory!Inserts(r)
        /\ d_req' = d_req \/ d_req' = [d_req EXCEPT ![t] = [do |-> "secret", row |-> r]]
    BY <1>3, <2>1, Zenon DEF directory!clients_create
  <2>4. QED
    BY <2>2, <2>3, InsertsKeeps, Zenon
<1>4. ASSUME NEW t \in Clerk, NEW p \in RowId \cup {NoRow}, directory!groups_create(t, i, p, n)
      PROVE  DirectoryInv'
  <2>1. CASE directory!Inserts(directory!RowOf("group", i, n, NoRow)) /\ d_req' = d_req
    BY <1>2, <2>1, Zenon DEF directory!Table
  <2>2. ASSUME NEW g, d_used[i] = NoRow, d_used' = [d_used EXCEPT ![i] = "group"],
               directory!Pending(t, "create", directory!RowOf("group", i, g.name \o n, p))
        PROVE  DirectoryInv'
    <3>1. PICK r : r = directory!RowOf("group", i, g.name \o n, p)
      BY Zenon
    <3>2. GoodRow(r) /\ r.id = i /\ r.table = "group"
      BY <1>1, <3>1 DEF directory!Table, directory!Indexed
    <3>3. QED
      BY <2>2, <3>1, <3>2, SubgroupKeeps, Zenon
  <2>3. QED
    BY <1>4, <2>1, <2>2, Zenon DEF directory!groups_create
<1>5. ASSUME NEW c, directory!roles_create(i, n, c) PROVE DirectoryInv'
  BY <1>2, <1>5, Zenon DEF directory!roles_create, directory!Table
<1>6. CASE directory!users_create(i, n) \/ directory!idps_create(i, n)
  BY <1>2, <1>6, Zenon DEF directory!users_create, directory!idps_create, directory!Table
<1>7. ASSUME NEW s \in Subject, directory!agents_create(i, n, s) PROVE DirectoryInv'
  BY <1>2, <1>7, Zenon DEF directory!agents_create, directory!Table
<1>8. QED
  BY <1>3, <1>4, <1>5, <1>6, <1>7, Zenon

\* The second halves of the requests keep the invariant.
LEMMA RequestsKeep ==
    ASSUME DirectoryInv, NEW t \in Clerk,
           \/ directory!Create(t) \/ directory!Update(t) \/ directory!Delete(t)
           \/ directory!revoke_agent(t) \/ directory!StoreSecret(t) \/ directory!Drop(t)
    PROVE  DirectoryInv'
<1>1. CASE directory!revoke_agent(t) \/ directory!Drop(t)
  BY <1>1, DoneStep, Zenon DEF directory!revoke_agent, directory!Drop
<1>2. QED
  BY <1>1, CreateStep, UpdateStep, DeleteStep, StoreSecretStep, Zenon

\* Every step keeps the invariant.
LEMMA DirectoryStep == DirectoryInv /\ [directory!Next]_(directory!vars) => DirectoryInv'
<1> SUFFICES ASSUME DirectoryInv, [directory!Next]_(directory!vars) PROVE DirectoryInv'
  BY Zenon
<1>1. ASSUME NEW tbl \in directory!Table, NEW i \in directory!Given(tbl) PROVE i \in RowId /\ d_used[i] = tbl
  BY <1>1, Zenon DEF directory!Given
<1>2. ASSUME NEW i \in RowId, NEW n \in directory!Plain,
             \/ directory!users_create(i, n) \/ directory!idps_create(i, n)
             \/ \E t \in Clerk : directory!clients_create(t, i, n)
             \/ \E c \in directory!Given("client") \cup {NoRow} : directory!roles_create(i, n, c)
             \/ \E t \in Clerk, p \in directory!Given("group") \cup {NoRow} : directory!groups_create(t, i, p, n)
             \/ \E s \in Subject : directory!agents_create(i, n, s)
      PROVE  DirectoryInv'
  BY <1>2, CreationsKeep, Zenon DEF directory!Given
<1>3. ASSUME NEW i, directory!groups_delete(i) PROVE DirectoryInv'
  BY <1>3, DeletesKeeps, Zenon DEF directory!groups_delete, directory!Of
<1>4. ASSUME NEW n \in directory!Plain, directory!idps_delete(n) PROVE DirectoryInv'
  BY <1>4, FindRows, DeletesKeeps, Zenon DEF directory!idps_delete
<1>5. ASSUME NEW u \in directory!Given("user"), NEW r \in directory!Given("role"), directory!assign_user_role(u, r)
      PROVE  DirectoryInv'
  BY <1>1, <1>5, AssignsKeep, Zenon DEF directory!assign_user_role, directory!Table
<1>6. ASSUME NEW u \in directory!Given("user"), NEW g \in directory!Given("group"), directory!assign_user_group(u, g)
      PROVE  DirectoryInv'
  BY <1>1, <1>6, AssignsKeep, Zenon DEF directory!assign_user_group, directory!Table
<1>7. ASSUME NEW g \in directory!Given("group"), NEW r \in directory!Given("role"), directory!assign_group_role(g, r)
      PROVE  DirectoryInv'
  BY <1>1, <1>7, AssignsKeep, Zenon DEF directory!assign_group_role, directory!Table
<1>8. CASE UNCHANGED directory!vars
  <2>1. UNCHANGED <<backend, rows, index, links, d_req, d_used, renamed>>
    BY <1>8, Zenon DEF directory!vars
  <2>2. DirectoryTypes'
    BY <2>1, Zenon DEF DirectoryInv, DirectoryTypes
  <2>3. RowsKnown'
    BY <2>1, KnownShrinks, Zenon DEF DirectoryInv, RowsKnown, Mentioned
  <2>4. QED
    BY <2>1, <2>2, <2>3, QuietKeeps, Zenon DEF DirectoryInv
<1>9. \A i \in directory!Given(NoRow) : i \in RowId
  BY Zenon DEF directory!Given
<1>10. QED
  BY <1>2, <1>3, <1>4, <1>5, <1>6, <1>7, <1>8, <1>9, ByNameKeeps, GroupUpdateKeeps, UnassignKeeps, RequestsKeep
    , Zenon DEF directory!Next

\* Names resolve and nothing dangles on both backends, for any number of rows,
\* names and concurrent requests: what is looked up by a guarded name is the
\* row of that name, and no role, group or link refers to a row that is gone
\* where the backend promises it.
THEOREM DirectoryCorrect == directory!Spec => []DirectorySound
BY DirectoryInit, DirectoryStep, NamesLead, PTL DEF directory!Spec
=============================================================================
