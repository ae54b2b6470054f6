--------------------------- MODULE Organizations ---------------------------
(***************************************************************************)
(* Organizations of one realm: the admin handlers, the join by verified    *)
(* domain at login, and the tables they share, as MemoryStorage or         *)
(* PostgresStorage implements them.  A handler resolves the alias in its   *)
(* path to an organization and then makes one storage call on that id;     *)
(* other requests run in between.                                          *)
(***************************************************************************)
EXTENDS Integers, FiniteSets

CONSTANTS
    Task,       \* requests in flight
    Org,        \* OrganizationIds, each given out once
    Alias,
    User,
    Domain,
    Role,       \* OrgRoleIds
    RoleName,
    Invitation, \* OrgInvitationIds, with their tokens
    Client,
    Idp,
    None,
    MaxLoad     \* bound on the rows below `organization` plus requests in flight

VARIABLES
    backend,        \* the deployment's storage: "memory" or "postgres"
    organizations,  \* the alias of each organization, None where there is none
    org_by_alias,   \* the memory store's index
    rows,           \* domains, memberships, roles, invitations, policies, bindings
    req,            \* what each request has resolved and is about to do
    used,           \* ids given out, of organizations, roles and invitations
    late,           \* organizations written below after they were deleted
    overtaken,      \* joins whose membership was added by someone else meanwhile
    unseen          \* joins whose look for the membership failed

vars == <<backend, organizations, org_by_alias, rows, req, used, late, overtaken, unseen>>

ASSUME NoneAssumption == None \notin Org \cup Alias

Table == {"organization", "domain", "membership", "role", "invitation", "policy", "binding"}
Key == Alias \cup Domain \cup User \cup Role \cup Invitation \cup Client \cup Idp \cup {None}
Data == Role \cup RoleName \cup {"verified", "accepted"}

\* data: {"verified"} or {} of a domain, {"accepted"} or {} of an invitation, the
\* role ids of a membership, the name of a role.
Row == [table : Table, org : Org, key : Key, data : SUBSET Data]

Request ==
    [do : {"update", "delete", "list", "check", "join", "upsert", "set", "accept", "remove"},
     row : Row]

TypeOK ==
    /\ backend \in {"memory", "postgres"}
    /\ organizations \in [Org -> Alias \cup {None}]
    /\ org_by_alias \in [Alias -> Org \cup {None}]
    /\ rows \subseteq Row
    /\ req \in [Task -> Request \cup {None}]
    /\ used \subseteq Org \cup Role \cup Invitation
    /\ late \subseteq Org
    /\ overtaken \subseteq Task /\ unseen \subseteq Task

Init ==
    /\ backend \in {"memory", "postgres"}
    /\ organizations = [o \in Org |-> None]
    /\ org_by_alias = [a \in Alias |-> None]
    /\ rows = {}
    /\ req = [t \in Task |-> None]
    /\ used = {} /\ late = {} /\ overtaken = {} /\ unseen = {}

Live == {o \in Org : organizations[o] # None}
SameKey(q, r) == q.table = r.table /\ q.org = r.org /\ q.key = r.key
SameId(q, r) == q.table = r.table /\ q.key = r.key
Found(r) == \E q \in rows : SameKey(q, r)
Replace(r) == {q \in rows : ~ SameKey(q, r)} \cup {r}

-----------------------------------------------------------------------------
(* MemoryStorage.                                                          *)
memory_by_alias(a) == {o \in Live : org_by_alias[a] = o}

memory_create_organization(o, a) ==
    /\ org_by_alias[a] = None
    /\ org_by_alias' = [org_by_alias EXCEPT ![a] = o]
    /\ organizations' = [organizations EXCEPT ![o] = a]

\* The entry of the old alias stays.
memory_update_organization_Leaky(o, a) ==
    /\ organizations[o] # None
    /\ org_by_alias' = [org_by_alias EXCEPT ![a] = o]
    /\ organizations' = [organizations EXCEPT ![o] = a]

\* The index follows a changed alias, over whoever had it.
memory_update_organization(o, a) ==
    /\ organizations[o] # None
    /\ org_by_alias' =
          IF organizations[o] = a THEN org_by_alias
          ELSE [org_by_alias EXCEPT ![organizations[o]] = None, ![a] = o]
    /\ organizations' = [organizations EXCEPT ![o] = a]

memory_delete_organization(o) ==
    /\ organizations[o] # None
    /\ org_by_alias' = [org_by_alias EXCEPT ![organizations[o]] = None]
    /\ organizations' = [organizations EXCEPT ![o] = None]
    /\ rows' = {r \in rows : r.org # o \/ r.table \in {"role", "invitation"}}

\* find_org_by_verified_domain: the first verified row, if its organization is
\* there.
memory_find_by_domain(d) ==
    {r.org : r \in {q \in rows : q.table = "domain" /\ q.key = d /\ q.data # {}}} \cap Live

\* Inserts and upserts, under the key or under a fresh id: no table looks at the
\* organization or at a name.
memory_upsert(r) == rows' = Replace(r)

-----------------------------------------------------------------------------
(* PostgresStorage, with the constraints of migrations 007 and 011.        *)
postgres_by_alias(a) == {o \in Live : organizations[o] = a}

postgres_create_organization(o, a) ==
    /\ postgres_by_alias(a) = {}
    /\ organizations' = [organizations EXCEPT ![o] = a]
    /\ UNCHANGED org_by_alias

postgres_update_organization(o, a) ==
    /\ organizations[o] # None
    /\ postgres_by_alias(a) \subseteq {o}
    /\ organizations' = [organizations EXCEPT ![o] = a]
    /\ UNCHANGED org_by_alias

\* ON DELETE CASCADE on every table.
postgres_delete_organization(o) ==
    /\ organizations[o] # None
    /\ organizations' = [organizations EXCEPT ![o] = None]
    /\ rows' = {r \in rows : r.org # o}
    /\ UNCHANGED org_by_alias

\* ON CONFLICT (realm_id, domain): the holder's row takes the new data and keeps
\* its organization.
postgres_upsert_org_domain(r) ==
    \/ /\ ~ \E q \in rows : SameId(q, r)
       /\ r.org \in Live
       /\ rows' = rows \cup {r}
    \/ \E q \in rows :
          /\ SameId(q, r)
          /\ rows' = (rows \ {q}) \cup {[q EXCEPT !.data = r.data]}

postgres_upsert_org_membership(r) == r.org \in Live /\ rows' = Replace(r)

\* UNIQUE (organization_id, name).
NameFree(r) ==
    ~ \E q \in rows : q.table = "role" /\ q.org = r.org /\ q.data = r.data /\ q.key # r.key

postgres_create_org_role(r) == r.org \in Live /\ NameFree(r) /\ rows' = rows \cup {r}

postgres_create_org_invitation(r) == r.org \in Live /\ rows' = rows \cup {r}

postgres_upsert_org_consent_policy(r) == r.org \in Live /\ rows' = Replace(r)

postgres_upsert_org_idp_binding(r) == r.org \in Live /\ rows' = Replace(r)

postgres_upsert(r) ==
    \/ r.table = "domain" /\ postgres_upsert_org_domain(r)
    \/ r.table = "membership" /\ postgres_upsert_org_membership(r)
    \/ r.table = "role" /\ postgres_create_org_role(r)
    \/ r.table = "invitation" /\ postgres_create_org_invitation(r)
    \/ r.table = "policy" /\ postgres_upsert_org_consent_policy(r)
    \/ r.table = "binding" /\ postgres_upsert_org_idp_binding(r)

-----------------------------------------------------------------------------
(* The storage trait: an error of the backend is a call that is not        *)
(* enabled.                                                                *)
by_alias(a) == IF backend = "memory" THEN memory_by_alias(a) ELSE postgres_by_alias(a)

\* The join is a LIMIT 1 over the same rows.
find_org_by_verified_domain(d) == memory_find_by_domain(d)

create_organization(o, a) ==
    \/ backend = "memory" /\ memory_create_organization(o, a)
    \/ backend = "postgres" /\ postgres_create_organization(o, a)

update_organization(o, a) ==
    \/ backend = "memory" /\ memory_update_organization(o, a)
    \/ backend = "postgres" /\ postgres_update_organization(o, a)

delete_organization(o) ==
    \/ backend = "memory" /\ memory_delete_organization(o)
    \/ backend = "postgres" /\ postgres_delete_organization(o)

upsert(r) ==
    \/ backend = "memory" /\ memory_upsert(r)
    \/ backend = "postgres" /\ postgres_upsert(r)

\* By id; the organization of a role stays.
update_org_role(r) ==
    \E q \in rows :
        /\ SameId(q, r)
        /\ backend = "postgres" => NameFree(r)
        /\ rows' = (rows \ {q}) \cup {[q EXCEPT !.data = r.data]}

mark_org_invitation_accepted(r) ==
    \E q \in rows :
        /\ SameId(q, r)
        /\ rows' = (rows \ {q}) \cup {[q EXCEPT !.data = {"accepted"}]}

remove(r) == Found(r) /\ rows' = {q \in rows : ~ SameKey(q, r)}

-----------------------------------------------------------------------------
(* The handlers, up to their last read.                                    *)
Pending(t, do, o, table, key, data) ==
    /\ req[t] = None
    /\ Cardinality(rows) + Cardinality({s \in Task : req[s] # None}) < MaxLoad
    /\ req' = [req EXCEPT ![t] =
                 [do |-> do, row |-> [table |-> table, org |-> o, key |-> key, data |-> data]]]
    /\ UNCHANGED <<backend, organizations, org_by_alias, rows, late, overtaken, unseen>>

Asks(t, do, o, table, key, data) == Pending(t, do, o, table, key, data) /\ UNCHANGED used

\* Under a fresh id.
Issues(t, o, table, id, data) ==
    /\ id \notin used
    /\ used' = used \cup {id}
    /\ Pending(t, "upsert", o, table, id, data)

create(o, a) ==
    /\ o \notin used
    /\ create_organization(o, a)
    /\ used' = used \cup {o}
    /\ UNCHANGED <<backend, rows, req, late, overtaken, unseen>>

\* The payload carries the alias.
update(t, o, a) == Asks(t, "update", o, "organization", a, {})

delete_(t, o) == Asks(t, "delete", o, "organization", None, {})

add_domain(t, o, d) == Asks(t, "upsert", o, "domain", d, {})

remove_domain(t, o, d) == Asks(t, "remove", o, "domain", d, {})

mark_domain_verified(t, o, d) == Asks(t, "list", o, "domain", d, {"verified"})

add_member(t, o, u, rs) == Asks(t, "upsert", o, "membership", u, rs)

remove_member(t, o, u) == Asks(t, "remove", o, "membership", u, {})

create_invitation(t, o, i) == Issues(t, o, "invitation", i, {})

\* By token, while it has not expired; accepted or not.
accept_invitation(t, i) ==
    \E q \in rows : q.table = "invitation" /\ q.key = i /\ Asks(t, "accept", q.org, q.table, i, {})

create_role(t, o, r, n) == Issues(t, o, "role", r, {n})

\* By id: the organization in the path is not looked up.
update_role(t, r, n) ==
    \E q \in rows : q.table = "role" /\ q.key = r /\ Asks(t, "set", q.org, q.table, r, {n})

\* A built-in role is refused, but none is ever built in: create_role says false and
\* update_role keeps what it finds.
delete_role(t, r) ==
    \E q \in rows : q.table = "role" /\ q.key = r /\ Asks(t, "remove", q.org, q.table, r, q.data)

upsert_consent_policy(t, o, c) == Asks(t, "upsert", o, "policy", c, {})

delete_consent_policy(t, o, c) == Asks(t, "remove", o, "policy", c, {})

upsert_idp_binding(t, o, i) == Asks(t, "upsert", o, "binding", i, {})

remove_idp_binding(t, o, i) == Asks(t, "remove", o, "binding", i, {})

\* A login of a user whose verified address is in d.
auto_join_org_by_domain(t, u, d) ==
    \E o \in find_org_by_verified_domain(d) : Asks(t, "check", o, "membership", u, {})

Handler(t) ==
    \/ \E a \in Alias : \E o \in by_alias(a) :
          \/ \E b \in Alias : update(t, o, b)
          \/ delete_(t, o)
          \/ \E d \in Domain :
                add_domain(t, o, d) \/ remove_domain(t, o, d) \/ mark_domain_verified(t, o, d)
          \/ \E u \in User :
                remove_member(t, o, u) \/ \E rs \in SUBSET Role : add_member(t, o, u, rs)
          \/ \E i \in Invitation : create_invitation(t, o, i)
          \/ \E r \in Role, n \in RoleName : create_role(t, o, r, n)
          \/ \E c \in Client : upsert_consent_policy(t, o, c) \/ delete_consent_policy(t, o, c)
          \/ \E i \in Idp : upsert_idp_binding(t, o, i) \/ remove_idp_binding(t, o, i)
    \/ \E i \in Invitation : accept_invitation(t, i)
    \/ \E r \in Role : delete_role(t, r) \/ \E n \in RoleName : update_role(t, r, n)
    \/ \E u \in User, d \in Domain : auto_join_org_by_domain(t, u, d)

-----------------------------------------------------------------------------
(* The rest of a request.                                                  *)
Does(t, do) == req[t] # None /\ req[t].do = do
Done(t) ==
    req' = [req EXCEPT ![t] = None] /\ overtaken' = overtaken \ {t} /\ unseen' = unseen \ {t}

\* mark_domain_verified: the domain is among the organization's, or 404.
list_org_domains(t) ==
    /\ Does(t, "list")
    /\ req' = [req EXCEPT ![t] = IF Found(@.row) THEN [@ EXCEPT !.do = "upsert"] ELSE None]
    /\ UNCHANGED <<backend, organizations, org_by_alias, rows, used, late, overtaken, unseen>>

\* The login writes its membership without looking.
get_org_membership_Blind(t) ==
    /\ Does(t, "check")
    /\ req' = [req EXCEPT ![t] = [@ EXCEPT !.do = "join"]]
    /\ UNCHANGED <<backend, organizations, org_by_alias, rows, used, late, overtaken, unseen>>

\* auto_join_org_by_domain: a member already is left alone.  `.is_ok()` takes an error
\* of the lookup for no membership.
get_org_membership(t) ==
    /\ Does(t, "check")
    /\ \/ /\ req' = [req EXCEPT ![t] = IF Found(@.row) THEN None ELSE [@ EXCEPT !.do = "join"]]
          /\ UNCHANGED unseen
       \/ (* StorageError *)
          /\ req' = [req EXCEPT ![t] = [@ EXCEPT !.do = "join"]]
          /\ unseen' = unseen \cup {t}
    /\ UNCHANGED <<backend, organizations, org_by_alias, rows, used, late, overtaken>>

Upsert(t) ==
    /\ Does(t, "upsert") \/ Does(t, "join")
    /\ LET r == req[t].row
       IN  /\ upsert(r)
           /\ late' = late \cup ({r.org} \ Live)
           /\ overtaken' = (overtaken \cup {s \in Task : Does(s, "join") /\ SameKey(req[s].row, r)})
                               \ {t}
    /\ unseen' = unseen \ {t}
    /\ req' = [req EXCEPT ![t] = None]
    /\ UNCHANGED <<backend, organizations, org_by_alias, used>>

ChangeOrganization(t) ==
    /\ \/ Does(t, "update") /\ update_organization(req[t].row.org, req[t].row.key) /\ UNCHANGED rows
       \/ Does(t, "delete") /\ delete_organization(req[t].row.org)
    /\ Done(t)
    /\ UNCHANGED <<backend, used, late>>

ChangeRow(t) ==
    /\ \/ Does(t, "set") /\ update_org_role(req[t].row)
       \/ Does(t, "accept") /\ mark_org_invitation_accepted(req[t].row)
       \/ Does(t, "remove") /\ remove(req[t].row)
    /\ Done(t)
    /\ UNCHANGED <<backend, organizations, org_by_alias, used, late>>

\* The storage call fails, or the request is dropped.
Drop(t) ==
    /\ req[t] # None
    /\ Done(t)
    /\ UNCHANGED <<backend, organizations, org_by_alias, rows, used, late>>

Next ==
    \/ \E o \in Org, a \in Alias : create(o, a)
    \/ \E t \in Task :
          \/ Handler(t)
          \/ list_org_domains(t) \/ get_org_membership(t)
          \/ Upsert(t) \/ ChangeOrganization(t) \/ ChangeRow(t) \/ Drop(t)

Spec == Init /\ [][Next]_vars

-----------------------------------------------------------------------------
\* orgs.rs re-resolves the alias of its path in every handler: with renames and
\* deletes by requests that resolved earlier, an alias leads to at most one
\* organization, a live one that carries the alias now.  (In the memory store an
\* organization whose alias was taken over is no longer led to.)
LookupSound ==
    \A a \in Alias : \A o, p \in by_alias(a) : o = p /\ organizations[o] = a

\* Deleting an organization leaves nothing below it.  On Postgres that is so in
\* every table whatever requests were in flight; in the memory store roles and
\* invitations stay, and the other tables hold a row of a deleted organization
\* only when a request that had resolved it wrote after the delete.
NoOrphans ==
    \A r \in rows :
        \/ r.org \in Live
        \/ backend = "memory" /\ (r.table \in {"role", "invitation"} \/ r.org \in late)

\* Migration 007, org_domain_unique: on Postgres one organization holds a domain,
\* so that a login by domain has one organization to join, with upserts that race
\* removals and deletes.
DomainHeldOnce ==
    backend = "postgres" =>
        \A q, r \in rows : q.table = "domain" /\ SameId(q, r) => q = r

\* What renames, deletes and upserts of overlapping requests keep of the rows.
RowsSound == LookupSound /\ NoOrphans /\ DomainHeldOnce

\* login_actions.rs, "existing membership short-circuits ... on repeat logins": a join
\* writes over a membership, and over the roles in it, only if that membership was
\* added after the join looked for it, or if its look failed: upsert_org_membership
\* does not tell a new row from an old one.
JoinKeepsMember ==
    [][\A t \in Task :
          Does(t, "join") /\ Found(req[t].row) /\ rows' # rows /\ req'[t] = None
              => t \in overtaken \cup unseen]_vars
=============================================================================
