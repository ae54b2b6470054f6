------------------------------- MODULE Storage ------------------------------
(***************************************************************************)
(* The two backends of the Storage trait side by side: every call is made  *)
(* on MemoryStorage and on PostgresStorage, and the answers are compared.  *)
(* What a deletion does to other tables is in Directory and Organizations. *)
(***************************************************************************)
EXTENDS MemoryStorage, PostgresStorage

(* Calls.  What the callers pass: a fresh id with a new row, a row as read *)
(* (and perhaps deleted since) with what the handler lets the request      *)
(* change, any id, name, owner or realm for the rest.  Random names        *)
(* (user codes, broker states, invitation tokens) do not collide.          *)
used == {r.id : r \in given}

Acceptable(r) ==
    /\ r.id \notin used
    /\ table \in {"device", "broker_state", "invitation"} => \A q \in mem : q.name # r.name

\* The handlers put the names of a realm, a user, a client, a group and a provider
\* back as they were; the others are the request's.  They put created_at back but
\* for a role and a group, and a flow is saved under the version of the request.
Renamed == {"role", "agent", "organization", "org_role"}
Rewritten == {"role", "group", "auth_flow"}

Edits ==
    UNION {{[q EXCEPT !.set = v, !.lost = IF table \in {"user", "group"} THEN v ELSE @,
                      !.name = n, !.kept = k] :
                v \in Stamp(table),
                n \in IF table \in Renamed THEN Name ELSE {q.name},
                k \in IF table \in Rewritten THEN Stamp(table) ELSE {q.kept}} : q \in mem}
    \cup {r \in given : ~\E q \in mem : q.id = r.id}

(* The calls that the stores are known to take differently, and why.       *)
TakenName(r) == \E q \in mem : q.id # r.id /\ Same(q, r, {"realm", "of", "name"})
HeldDomain(r) == \E q \in mem : q.of # r.of /\ Same(q, r, {"realm", "name"})
Stored(r) == {q \in mem : q.id = r.id}

\* memory.rs looks at the id of a provider binding or an organization's role and not
\* at the name, which Postgres keeps unique, nor does it when a row is renamed.  A
\* domain is one row per organization in memory and one per realm in Postgres, where
\* the row of the holder is rewritten.
CreateDeparts(r) ==
    CASE table \in {"spi", "org_role"} /\ TakenName(r) -> "taken name"
      [] table = "domain" /\ HeldDomain(r) -> "held domain"
      [] OTHER -> "no"
\* A flow saved under the id of a stored one replaces it in memory, and is refused by
\* the primary key in Postgres.  Memory takes over the created_at of a role or a group
\* from the request, and no SET list has it.
UpdateDeparts(r) ==
    CASE table = "domain" /\ HeldDomain(r) -> "held domain"
      [] Stored(r) = {} -> "no"
      [] table = "auth_flow" -> "stored id"
      [] table \in Renamed /\ TakenName(r) -> "taken name"
      [] table \in {"role", "group"} /\ \E q \in Stored(r) : q.kept # r.kept -> "unwritten column"
      [] OTHER -> "no"
\* The maps below an organization are keyed by it alone: memory removes the row
\* whatever the realm (_realm in memory.rs).
OwnerDeparts(z, o, n) ==
    IF /\ table \in {"domain", "membership", "consent_policy", "idp_binding"}
       /\ z # home[o] /\ memOrg(o, n) # {}
    THEN "foreign organization" ELSE "no"

Strayed(old, new, zs) == {q.realm : q \in (old \ new) \cup (new \ old)} \ zs

\* One call for the realms zs, on both stores.
Twin(zs, departs, m, p) ==
    /\ mem' = m.rows /\ idx' = m.idx /\ pg' = p.rows
    /\ reply' = [departs |-> departs,
                 strayed |-> [memory |-> Strayed(mem, m.rows, zs), postgres |-> Strayed(pg, p.rows, zs)],
                 memory |-> <<m.is, Told(m.out)>>, postgres |-> <<p.is, Told(p.out)>>]
    /\ UNCHANGED <<table, home>>

Creates(m(_), p(_)) ==
    \E r \in Row :
        /\ Acceptable(r)
        /\ Twin({r.realm}, CreateDeparts(r), m(r), p(r))
        /\ given' = given \cup {q \in {r} : q.id # None}
Updates(m(_), p(_)) ==
    \E r \in Edits : Twin({r.realm}, UpdateDeparts(r), m(r), p(r)) /\ UNCHANGED given
\* Calls by an id, a code or a token take no realm: the caller looks at the row's.
WithId(m(_), p(_)) == \E i \in used : Twin(Realm, "no", m(i), p(i)) /\ UNCHANGED given
WithKey(m(_, _), p(_, _), K) ==
    \E z \in Realm, k \in K : Twin({z}, "no", m(z, k), p(z, k)) /\ UNCHANGED given
WithOwner(m(_, _, _), p(_, _, _)) ==
    \E z \in Realm, o \in Owner, n \in Name :
        Twin({z}, OwnerDeparts(z, o, n), m(z, o, n), p(z, o, n)) /\ UNCHANGED given

Realms ==
    /\ table = "realm"
    /\ \/ Creates(memory_create_realm, postgres_create_realm)
       \/ Updates(memory_update_realm, postgres_update_realm)
       \/ WithId(memory_delete_realm, postgres_delete_realm)

Users ==
    /\ table = "user"
    /\ \/ Creates(memory_create_user, postgres_create_user)
       \/ \E r \in Edits, e \in Owner :
            LET u == [r EXCEPT !.of = e]
            IN  Twin({u.realm}, "no", memory_update_user(u), postgres_update_user(u)) /\ UNCHANGED given
       \/ WithKey(memory_delete_user, postgres_delete_user, Id)

Clients ==
    /\ table = "client"
    /\ \/ Creates(memory_create_client, postgres_create_client)
       \/ Updates(memory_update_client, postgres_update_client)
       \/ WithKey(memory_delete_client, postgres_delete_client, Id)

Sessions ==
    /\ table = "session"
    /\ \/ Creates(memory_create_session, postgres_create_session)
       \/ Updates(memory_update_session, postgres_update_session)
       \/ WithId(memory_delete_session, postgres_delete_session)

Tokens ==
    \/ /\ table = "code"
       /\ \/ Creates(memory_save_code_grant, postgres_save_code_grant)
          \/ WithId(memory_consume_code, postgres_consume_code)
    \/ /\ table = "par"
       /\ \/ Creates(memory_save_par_request, postgres_save_par_request)
          \/ WithId(memory_consume_par_request, postgres_consume_par_request)
    \/ /\ table = "refresh"
       /\ \/ Creates(memory_save_refresh_token, postgres_save_refresh_token)
          \/ WithId(memory_mark_refresh_used, postgres_mark_refresh_used)
          \/ \E f \in Owner :
                /\ Twin(Realm, "no", memory_revoke_token_family(f), postgres_revoke_token_family(f))
                /\ UNCHANGED given
    \/ /\ table = "device"
       /\ \/ Creates(memory_save_device_grant, postgres_save_device_grant)
          \/ Updates(memory_update_device_grant, postgres_update_device_grant)
          \/ WithId(memory_delete_device_grant, postgres_delete_device_grant)

Flows ==
    \/ /\ table = "flow_state"
       /\ \/ Creates(memory_save_flow_state, postgres_save_flow_state)
          \/ Updates(memory_save_flow_state, postgres_save_flow_state)
          \/ WithId(memory_delete_flow_state, postgres_delete_flow_state)
    \/ /\ table = "auth_flow"
       /\ \/ Creates(memory_save_auth_flow, postgres_save_auth_flow)
          \/ Updates(memory_save_auth_flow, postgres_save_auth_flow)
          \/ WithKey(memory_delete_auth_flow, postgres_delete_auth_flow, Id)
    \/ /\ table = "consent"
       /\ \/ Creates(memory_save_consent_grant, postgres_save_consent_grant)
          \/ Updates(memory_save_consent_grant, postgres_save_consent_grant)
          \/ WithOwner(memory_delete_consent_grant, postgres_delete_consent_grant)

Federation ==
    \/ /\ table = "idp"
       /\ \/ Creates(memory_create_idp, postgres_create_idp)
          \/ Updates(memory_create_idp, postgres_create_idp)
          \/ WithKey(memory_delete_idp, postgres_delete_idp, Name)
    \/ /\ table = "broker_state"
       /\ \/ Creates(memory_save_broker_state, postgres_save_broker_state)
          \/ WithKey(memory_consume_broker_state, postgres_consume_broker_state, Name)
    \/ /\ table = "broker_link"
       /\ \/ Creates(memory_upsert_broker_link, postgres_upsert_broker_link)
          \/ Updates(memory_upsert_broker_link, postgres_upsert_broker_link)
    \/ /\ table = "ldap"
       /\ \/ Creates(memory_upsert_ldap_source, postgres_upsert_ldap_source)
          \/ Updates(memory_upsert_ldap_source, postgres_upsert_ldap_source)
          \/ WithKey(memory_delete_ldap_source, postgres_delete_ldap_source, Name)
    \/ /\ table = "wasm"
       /\ \/ Creates(memory_upload_wasm_module, postgres_upload_wasm_module)
          \/ WithKey(memory_delete_wasm_module, postgres_delete_wasm_module, Name)
    \/ /\ table = "spi"
       /\ \/ Creates(memory_create_spi_binding, postgres_create_spi_binding)
          \/ Updates(memory_update_spi_binding, postgres_update_spi_binding)
          \/ WithKey(memory_delete_spi_binding, postgres_delete_spi_binding, Id)
    \/ /\ table = "saml_id"
       /\ Creates(memory_save_saml_persistent_id, postgres_save_saml_persistent_id)

Accounts ==
    \/ /\ table = "role"
       /\ \/ Creates(memory_create_role, postgres_create_role)
          \/ Updates(memory_update_role, postgres_update_role)
          \/ WithKey(memory_delete_role, postgres_delete_role, Id)
    \/ /\ table = "user_role"
       /\ \/ Creates(memory_assign_user_role, postgres_assign_user_role)
          \/ WithOwner(memory_unassign_user_role, postgres_unassign_user_role)
    \/ /\ table = "user_group"
       /\ \/ Creates(memory_assign_user_group, postgres_assign_user_group)
          \/ WithOwner(memory_unassign_user_group, postgres_unassign_user_group)
    \/ /\ table = "group_role"
       /\ \/ Creates(memory_assign_group_role, postgres_assign_group_role)
          \/ WithOwner(memory_unassign_group_role, postgres_unassign_group_role)
    \/ /\ table = "group"
       /\ \/ Creates(memory_create_group, postgres_create_group)
          \/ Updates(memory_update_group, postgres_update_group)
          \/ WithKey(memory_delete_group, postgres_delete_group, Id)
    \/ /\ table = "profile"
       /\ Creates(memory_save_user_profile_schema, postgres_save_user_profile_schema)
    \/ /\ table = "agent"
       /\ \/ Creates(memory_create_agent, postgres_create_agent)
          \/ Updates(memory_update_agent, postgres_update_agent)
          \/ WithKey(memory_revoke_agent, postgres_revoke_agent, Id)

Orgs ==
    \/ /\ table = "organization"
       /\ \/ Creates(memory_create_organization, postgres_create_organization)
          \/ Updates(memory_update_organization, postgres_update_organization)
          \/ WithKey(memory_delete_organization, postgres_delete_organization, Id)
    \/ /\ table = "domain"
       /\ \/ Creates(memory_upsert_org_domain, postgres_upsert_org_domain)
          \/ Updates(memory_upsert_org_domain, postgres_upsert_org_domain)
          \/ WithOwner(memory_delete_org_domain, postgres_delete_org_domain)
    \/ /\ table = "membership"
       /\ \/ Creates(memory_upsert_org_membership, postgres_upsert_org_membership)
          \/ WithOwner(memory_delete_org_membership, postgres_delete_org_membership)
    \/ /\ table = "org_role"
       /\ \/ Creates(memory_create_org_role, postgres_create_org_role)
          \/ Updates(memory_update_org_role, postgres_update_org_role)
          \/ WithKey(memory_delete_org_role, postgres_delete_org_role, Id)
    \/ /\ table = "invitation"
       /\ \/ Creates(memory_create_org_invitation, postgres_create_org_invitation)
          \/ WithId(memory_mark_org_invitation_accepted, postgres_mark_org_invitation_accepted)
          \/ WithId(memory_delete_org_invitation, postgres_delete_org_invitation)
    \/ /\ table = "consent_policy"
       /\ \/ Creates(memory_upsert_org_consent_policy, postgres_upsert_org_consent_policy)
          \/ WithOwner(memory_delete_org_consent_policy, postgres_delete_org_consent_policy)
    \/ /\ table = "idp_binding"
       /\ \/ Creates(memory_upsert_org_idp_binding, postgres_upsert_org_idp_binding)
          \/ WithOwner(memory_delete_org_idp_binding, postgres_delete_org_idp_binding)

Init ==
    /\ table \in Table /\ home \in Homes
    /\ mem = {} /\ idx = {} /\ pg = {} /\ given = {}
    /\ reply = [departs |-> "no", strayed |-> [memory |-> {}, postgres |-> {}],
                memory |-> <<>>, postgres |-> <<>>]

Call == Realms \/ Users \/ Clients \/ Sessions \/ Tokens \/ Flows \/ Federation \/ Accounts \/ Orgs

\* After a call that the stores took differently there is nothing to compare.
Next == reply.departs = "no" /\ Call

Spec == Init /\ [][Next]_vars

-----------------------------------------------------------------------------
\* Reads of the maps below an organization, for one of another realm: memory.rs
\* ignores _realm in get_org_membership, list_org_memberships,
\* get_org_consent_policy, list_org_consent_policies and list_org_idp_bindings.
ForeignRead(a) == a[4] /\ table \in {"membership", "consent_policy", "idp_binding"}
Compared(R) == {a \in R : ~ForeignRead(a)}

\* geonosis-storage has one trait over two backends, and a deployment may take
\* either.  However the calls before went, the last one got the same answer from
\* both, a consumed row included, and both answer every read alike, exactly when it
\* is none of the five kinds of calls that the stores are known to take differently
\* (the Departs operators); reads for an organization of another realm are left out.
\* One store replaces whole values under hash keys beside an index it maintains by
\* hand, and the other writes the columns of a SET list under constraints and
\* decodes them, so an index entry left behind, a column missing in a list or a
\* constraint one of them lacks shows here.
BackendsAgree ==
    (reply.departs = "no") <=> /\ reply.memory = reply.postgres
                               /\ Compared(memory_reads) = Compared(postgres_reads)

\* A call that takes a realm changes and shows rows of that realm only, whatever id,
\* name or organization of another it is given: in Postgres always, in memory but for
\* the calls on the rows below an organization that ignore their _realm.  Calls by an
\* id, a code or a token alone take no realm, in either store (get_session and
\* mark_org_invitation_accepted of postgres.rs among them, although its header says
\* that "every tenanted query" is scoped), and are not what this is about.
TenantIsolation ==
    /\ reply.strayed.postgres = {}
    /\ reply.strayed.memory # {} => reply.departs = "foreign organization"
    /\ \A a \in Compared(memory_reads) \cup postgres_reads :
         a[1] # None => \A q \in a[3] : q.realm = a[1]
=============================================================================
