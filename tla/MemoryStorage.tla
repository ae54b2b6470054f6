---------------------------- MODULE MemoryStorage ---------------------------
(***************************************************************************)
(* The calls of MemoryStorage: hash maps, and indexes kept by hand.        *)
(***************************************************************************)
EXTENDS StorageTables

\* HashMap::insert under the fields K: a row of that key is replaced whole.
HashInsert(S, r, K) == {q \in S : ~Same(q, r, K)} \cup {r}
Replace(S, r, K) == IF \E q \in S : Same(q, r, K) THEN Ok(HashInsert(S, r, K)) ELSE NotFound(S)

Entries(z, n) == {e \in idx : e.realm = z /\ e.name = n}
Entered(I, z, n, i) ==
    {e \in I : ~(e.realm = z /\ e.name = n)} \cup {[realm |-> z, name |-> n, id |-> i]}
Dropped(I, z, N) == {e \in I : ~(e.realm = z /\ e.name \in N)}
Via(S, z, n) == {q \in S : \E e \in Entries(z, n) : e.id = q.id}

memScoped(z, i) == {q \in mem : q.realm = z /\ q.id = i}
memNamed(z, n) == {q \in mem : q.realm = z /\ q.name = n}
memOwned(z, o) == {q \in mem : q.realm = z /\ q.of = o}
\* The organization's maps are keyed by it alone.
memOrg(o, n) == {q \in mem : q.of = o /\ q.name = n}
NoColumn(r) == [r EXCEPT !.lost = "none"]

(* Realms: the whole value is the config column.                           *)
memory_create_realm(r) ==
    IF Entries(None, r.name) # {} THEN Conflict(mem)
    ELSE [Ok(HashInsert(mem, r, {"id"})) EXCEPT !.idx = Entered(idx, None, r.name, r.id)]
memory_get_realm(i) == {q \in mem : q.id = i}
memory_get_realm_by_slug(n) == Via(mem, None, n)
memory_update_realm(r) == Replace(mem, r, {"id"})
memory_delete_realm(i) ==
    LET D == memory_get_realm(i)
    IN  [Without(mem, D) EXCEPT !.idx = Dropped(idx, None, {q.name : q \in D})]
memory_list_realms == mem

(* Users: of is the email.  Credentials and federation have no column.     *)
memory_create_user(r) ==
    IF Entries(r.realm, r.name) # {} THEN Conflict(mem)
    ELSE [Ok(HashInsert(mem, r, {"realm", "id"})) EXCEPT
            !.idx = Entered(Entered(idx, r.realm, r.of, r.id), r.realm, r.name, r.id)]
memory_get_user(z, i) == memScoped(z, i)
memory_get_user_by_username(z, n) == {q \in Via(mem, z, n) : q.realm = z}
memory_update_user(r) == Replace(mem, r, {"realm", "id"})
memory_delete_user(z, i) ==
    LET D == memScoped(z, i)
    IN  [Without(mem, D) EXCEPT !.idx = Dropped(idx, z, UNION {{q.name, q.of} : q \in D})]
memory_list_users(z) == {q \in mem : q.realm = z}

(* Clients: the whole value is the config column.                          *)
memory_create_client(r) ==
    IF Entries(r.realm, r.name) # {} THEN Conflict(mem)
    ELSE [Ok(HashInsert(mem, r, {"realm", "id"})) EXCEPT !.idx = Entered(idx, r.realm, r.name, r.id)]
memory_get_client(z, i) == memScoped(z, i)
memory_get_client_by_client_id(z, n) == {q \in Via(mem, z, n) : q.realm = z}
memory_update_client(r) == Replace(mem, r, {"realm", "id"})
\* The client_id stays in the index.
memory_delete_client_KeepsIndex(z, i) == Without(mem, memScoped(z, i))

memory_delete_client(z, i) ==
    LET D == memScoped(z, i)
    IN  [Without(mem, D) EXCEPT !.idx = Dropped(idx, z, {q.name : q \in D})]
memory_list_clients(z) == {q \in mem : q.realm = z}

(* Sessions are found by their id alone.                                   *)
memory_create_session(r) == Ok(HashInsert(mem, r, {"id"}))
memory_get_session(i) == {q \in mem : q.id = i}
memory_update_session(r) == Replace(mem, r, {"id"})
memory_delete_session(i) == Without(mem, memory_get_session(i))
\* Here and in list_users the limit is not reached.
memory_list_sessions(z) == {q \in mem : q.realm = z}

(* Codes and pushed requests are consumed by the call that reads them.     *)
memory_save_code_grant(r) == Ok(HashInsert(mem, r, {"id"}))
memory_consume_code(i) == Consumed(mem, {q \in mem : q.id = i})
memory_save_par_request(r) == Ok(HashInsert(mem, r, {"id"}))
memory_consume_par_request(i) == Consumed(mem, {q \in mem : q.id = i})

(* Refresh tokens: of is the family.  The memory store's families map is   *)
(* in RefreshRotation.                                                     *)
memory_save_refresh_token(r) == Ok(HashInsert(mem, r, {"id"}))
memory_get_refresh_token(i) == {q \in mem : q.id = i}
memory_mark_refresh_used(i) == Marked(mem, memory_get_refresh_token(i))
memory_revoke_token_family(f) == Ok({q \in mem : q.of # f})

(* Device grants: the name is the user code, which the memory store keeps  *)
(* in a map of its own.                                                    *)
memory_save_device_grant(r) ==
    [Ok(HashInsert(mem, r, {"id"})) EXCEPT !.idx = Entered(idx, None, r.name, r.id)]
memory_get_device_grant_by_device_code(i) == {q \in mem : q.id = i}
memory_get_device_grant_by_user_code(n) == Via(mem, None, n)
memory_update_device_grant(r) == Replace(mem, r, {"id"})
memory_delete_device_grant(i) ==
    LET D == {q \in mem : q.id = i}
    IN  [Without(mem, D) EXCEPT !.idx = Dropped(idx, None, {q.name : q \in D})]

(* Flow states are saved at every step of a login.                         *)
memory_save_flow_state(r) == Ok(HashInsert(mem, r, {"id"}))
memory_get_flow_state(i) == {q \in mem : q.id = i}
memory_delete_flow_state(i) == Without(mem, memory_get_flow_state(i))

(* Flow definitions: kept is the version, "old" before "new".              *)
memory_save_auth_flow(r) ==
    IF /\ \E q \in mem : Same(q, r, {"realm", "name", "kept"})
       /\ ~\E q \in mem : Same(q, r, {"realm", "id"})
    THEN Conflict(mem)
    ELSE Ok(HashInsert(mem, r, {"realm", "id"}))
memory_get_auth_flow_by_alias(z, n) == Latest(memNamed(z, n))
memory_get_auth_flow_by_alias_and_version(z, n, v) == {q \in memNamed(z, n) : q.kept = v}
memory_list_auth_flows(z) == Latest({q \in mem : q.realm = z})
memory_delete_auth_flow(z, i) == Without(mem, memScoped(z, i))

(* Consent: of is the user, the name is the client.                        *)
memory_save_consent_grant(r) == Ok(HashInsert(mem, r, {"realm", "of", "name"}))
memory_get_consent_grant(z, u, c) == {q \in memOwned(z, u) : q.name = c}
memory_delete_consent_grant(z, u, c) == Without(mem, memory_get_consent_grant(z, u, c))

(* Identity providers, by alias.                                           *)
memory_create_idp(r) ==
    IF memNamed(r.realm, r.name) # {} THEN Conflict(mem)
    ELSE Ok(HashInsert(mem, r, {"realm", "name"}))
memory_get_idp_by_alias(z, n) == memNamed(z, n)
memory_list_idps(z) == {q \in mem : q.realm = z}
memory_delete_idp(z, n) == Without(mem, memNamed(z, n))

(* Broker states, consumed by the callback, and broker links: the name is  *)
(* the provider's alias and external id, of is the user.                   *)
memory_save_broker_state(r) == Ok(HashInsert(mem, r, {"realm", "name"}))
memory_consume_broker_state(z, n) == Consumed(mem, memNamed(z, n))
memory_upsert_broker_link(r) == Ok(HashInsert(mem, r, {"realm", "name"}))
memory_find_broker_link(z, n) == memNamed(z, n)
memory_list_broker_links(z, u) == memOwned(z, u)

(* LDAP sources and WASM modules are upserted by alias.  The config column *)
(* is the whole source; a module's row keeps its id and created_at.        *)
memory_upsert_ldap_source(r) == Ok(HashInsert(mem, r, {"realm", "name"}))
memory_get_ldap_source(z, n) == memNamed(z, n)
memory_list_ldap_sources(z) == {q \in mem : q.realm = z}
memory_delete_ldap_source(z, n) == Without(mem, memNamed(z, n))
memory_upload_wasm_module(r) == Ok(HashInsert(mem, r, {"realm", "name"}))
memory_get_wasm_module(z, n) == memNamed(z, n)
memory_list_wasm_modules(z) == {NoColumn(q) : q \in {x \in mem : x.realm = z}}
memory_delete_wasm_module(z, n) == Without(mem, memNamed(z, n))

(* Provider bindings: of is the interface, the name is the provider's URN. *)
memory_create_spi_binding(r) == Ok(HashInsert(mem, r, {"realm", "id"}))
memory_list_spi_bindings(z, f) == memOwned(z, f)
memory_update_spi_binding(r) == Replace(mem, r, {"realm", "id"})
memory_delete_spi_binding(z, i) == Without(mem, memScoped(z, i))

(* Roles: of is the client.  A realm's own roles, which Postgres does not  *)
(* keep apart by name, are in Directory.                                   *)
memory_create_role(r) ==
    IF \E q \in mem : Same(q, r, {"realm", "id"}) \/ Same(q, r, {"realm", "of", "name"})
    THEN Conflict(mem)
    ELSE Ok(HashInsert(mem, r, {"realm", "id"}))
memory_get_role(z, i) == memScoped(z, i)
memory_get_role_by_name(z, c, n) == {q \in memOwned(z, c) : q.name = n}
memory_list_roles(z, c) == memOwned(z, c)
memory_update_role(r) == Replace(mem, r, {"realm", "id"})
memory_delete_role(z, i) == Without(mem, memScoped(z, i))

(* Assignments: of is the user or the group, the name is what it is given. *)
Link(z, o, n) == {q \in mem : q.realm = z /\ q.of = o /\ q.name = n}
memory_assign_user_role(r) == Ok(IF Link(r.realm, r.of, r.name) = {} THEN mem \cup {r} ELSE mem)
memory_unassign_user_role(z, o, n) == Ok(mem \ Link(z, o, n))
memory_list_user_roles(z, o) == memOwned(z, o)
memory_assign_user_group(r) == Ok(IF Link(r.realm, r.of, r.name) = {} THEN mem \cup {r} ELSE mem)
memory_unassign_user_group(z, o, n) == Ok(mem \ Link(z, o, n))
memory_list_user_groups(z, o) == memOwned(z, o)
memory_assign_group_role(r) == Ok(IF Link(r.realm, r.of, r.name) = {} THEN mem \cup {r} ELSE mem)
memory_unassign_group_role(z, o, n) == Ok(mem \ Link(z, o, n))
memory_list_group_roles(z, o) == memOwned(z, o)

(* Groups: the name is the path.  Role ids have no column.                 *)
memory_create_group(r) ==
    IF \E q \in mem : Same(q, r, {"realm", "id"}) \/ Same(q, r, {"realm", "name"})
    THEN Conflict(mem)
    ELSE Ok(HashInsert(mem, r, {"realm", "id"}))
memory_get_group(z, i) == memScoped(z, i)
memory_get_group_by_path(z, n) == memNamed(z, n)
memory_list_groups(z) == {q \in mem : q.realm = z}
memory_update_group(r) == Replace(mem, r, {"realm", "id"})
memory_delete_group(z, i) == Without(mem, memScoped(z, i))

(* The profile schema of a realm, the default one until one is saved.      *)
memory_get_user_profile_schema(z) == OrDefault({q \in mem : q.realm = z}, z)
memory_save_user_profile_schema(r) == Ok(HashInsert(mem, r, {"realm"}))

(* Agents.  kept is the parent_subject; mark is revoked_at and ~enabled.   *)
memory_create_agent(r) ==
    IF \E q \in mem : Same(q, r, {"realm", "id"}) \/ Same(q, r, {"realm", "name"})
    THEN Conflict(mem)
    ELSE Ok(HashInsert(mem, r, {"realm", "id"}))
memory_get_agent(z, i) == memScoped(z, i)
memory_get_agent_by_alias(z, n) == memNamed(z, n)
memory_list_agents(z) == {q \in mem : q.realm = z}
memory_update_agent(r) == Replace(mem, r, {"realm", "id"})
memory_revoke_agent(z, i) == Marked(mem, memScoped(z, i))

(* Organizations, and what belongs to one: of is the organization.         *)
memory_create_organization(r) ==
    IF Entries(r.realm, r.name) # {} THEN Conflict(mem)
    ELSE [Ok(HashInsert(mem, r, {"realm", "id"})) EXCEPT !.idx = Entered(idx, r.realm, r.name, r.id)]
memory_get_organization(z, i) == memScoped(z, i)
memory_get_organization_by_alias(z, n) == {q \in Via(mem, z, n) : q.realm = z}
memory_list_organizations(z) == {q \in mem : q.realm = z}
memory_update_organization(r) ==
    LET old == {q.name : q \in memScoped(r.realm, r.id)} \ {r.name}
    IN  [Replace(mem, r, {"realm", "id"}) EXCEPT
            !.idx = IF old = {} THEN idx
                    ELSE Entered(Dropped(idx, r.realm, old), r.realm, r.name, r.id)]
memory_delete_organization(z, i) ==
    LET D == memScoped(z, i)
    IN  [Without(mem, D) EXCEPT !.idx = Dropped(idx, z, {q.name : q \in D})]

memory_upsert_org_domain(r) == Ok(HashInsert(mem, r, {"of", "name"}))
memory_list_org_domains(z, o) == memOwned(z, o)
memory_delete_org_domain(z, o, n) == Without(mem, memOrg(o, n))

memory_upsert_org_membership(r) == Ok(HashInsert(mem, r, {"of", "name"}))
memory_get_org_membership(z, o, n) == memOrg(o, n)
memory_list_org_memberships(z, o) == {q \in mem : q.of = o}
memory_list_user_orgs(z, n) == memNamed(z, n)
memory_delete_org_membership(z, o, n) == Without(mem, memOrg(o, n))

memory_create_org_role(r) ==
    IF memScoped(r.realm, r.id) # {} THEN Conflict(mem) ELSE Ok(HashInsert(mem, r, {"realm", "id"}))
memory_get_org_role(z, i) == memScoped(z, i)
memory_list_org_roles(z, o) == memOwned(z, o)
memory_update_org_role(r) == Replace(mem, r, {"realm", "id"})
memory_delete_org_role(z, i) == Without(mem, memScoped(z, i))

\* The name is the token.
memory_create_org_invitation(r) ==
    IF Entries(None, r.name) # {} THEN Conflict(mem)
    ELSE [Ok(HashInsert(mem, r, {"id"})) EXCEPT !.idx = Entered(idx, None, r.name, r.id)]
memory_get_org_invitation_by_token(n) == Via(mem, None, n)
memory_list_org_invitations(z, o) == memOwned(z, o)
memory_mark_org_invitation_accepted(i) == Marked(mem, {q \in mem : q.id = i})
memory_delete_org_invitation(i) ==
    LET D == {q \in mem : q.id = i}
    IN  [Without(mem, D) EXCEPT !.idx = Dropped(idx, None, {q.name : q \in D})]

\* The name is the client.
memory_upsert_org_consent_policy(r) == Ok(HashInsert(mem, r, {"of", "name"}))
memory_get_org_consent_policy(z, o, n) == memOrg(o, n)
memory_list_org_consent_policies(z, o) == {q \in mem : q.of = o}
memory_delete_org_consent_policy(z, o, n) == Without(mem, memOrg(o, n))

\* The name is the provider's alias.
memory_upsert_org_idp_binding(r) == Ok(HashInsert(mem, r, {"of", "name"}))
memory_list_org_idp_bindings(z, o) == {q \in mem : q.of = o}
memory_delete_org_idp_binding(z, o, n) == Without(mem, memOrg(o, n))

(* Persistent SAML ids: of is the user, the name is the service provider.  *)
\* entry().or_insert: the first writer wins.
memory_save_saml_persistent_id(r) ==
    Ok(IF Link(r.realm, r.of, r.name) = {} THEN mem \cup {r} ELSE mem)
memory_get_saml_persistent_id(z, o, n) == Link(z, o, n)

memory_reads ==
    CASE table = "realm" -> RI(memory_get_realm, Id) \cup RI(memory_get_realm_by_slug, Name)
                              \cup {<<None, None, Told(memory_list_realms), FALSE>>}
      [] table = "user" -> R2(memory_get_user, Id) \cup R2(memory_get_user_by_username, Name)
                             \cup R0(memory_list_users)
      [] table = "client" -> R2(memory_get_client, Id)
                               \cup R2(memory_get_client_by_client_id, Name) \cup R0(memory_list_clients)
      [] table = "session" -> RI(memory_get_session, Id) \cup R0(memory_list_sessions)
      [] table = "refresh" -> RI(memory_get_refresh_token, Id)
      [] table = "device" -> RI(memory_get_device_grant_by_device_code, Id)
                               \cup RI(memory_get_device_grant_by_user_code, Name)
      [] table = "flow_state" -> RI(memory_get_flow_state, Id)
      [] table = "auth_flow" -> R2(memory_get_auth_flow_by_alias, Name) \cup R0(memory_list_auth_flows)
                                  \cup RV(memory_get_auth_flow_by_alias_and_version)
      [] table = "consent" -> R3(memory_get_consent_grant)
      [] table = "idp" -> R2(memory_get_idp_by_alias, Name) \cup R0(memory_list_idps)
      [] table = "broker_link" -> R2(memory_find_broker_link, Name) \cup RO(memory_list_broker_links)
      [] table = "ldap" -> R2(memory_get_ldap_source, Name) \cup R0(memory_list_ldap_sources)
      [] table = "wasm" -> R2(memory_get_wasm_module, Name) \cup R0(memory_list_wasm_modules)
      [] table = "spi" -> R2(memory_list_spi_bindings, Owner)
      [] table = "role" -> R2(memory_get_role, Id) \cup R3(memory_get_role_by_name)
                             \cup RO(memory_list_roles)
      [] table = "user_role" -> RO(memory_list_user_roles)
      [] table = "user_group" -> RO(memory_list_user_groups)
      [] table = "group_role" -> RO(memory_list_group_roles)
      [] table = "group" -> R2(memory_get_group, Id) \cup R2(memory_get_group_by_path, Name)
                              \cup R0(memory_list_groups)
      [] table = "profile" -> R0(memory_get_user_profile_schema)
      [] table = "agent" -> R2(memory_get_agent, Id) \cup R2(memory_get_agent_by_alias, Name)
                              \cup R0(memory_list_agents)
      [] table = "organization" -> R2(memory_get_organization, Id)
                                     \cup R2(memory_get_organization_by_alias, Name)
                                     \cup R0(memory_list_organizations)
      [] table = "domain" -> RO(memory_list_org_domains)
      [] table = "membership" -> R3(memory_get_org_membership) \cup RO(memory_list_org_memberships)
                                   \cup R2(memory_list_user_orgs, Name)
      [] table = "org_role" -> R2(memory_get_org_role, Id) \cup RO(memory_list_org_roles)
      [] table = "invitation" -> RI(memory_get_org_invitation_by_token, Name)
                                   \cup RO(memory_list_org_invitations)
      [] table = "consent_policy" -> R3(memory_get_org_consent_policy)
                                       \cup RO(memory_list_org_consent_policies)
      [] table = "idp_binding" -> RO(memory_list_org_idp_bindings)
      [] table = "saml_id" -> R3(memory_get_saml_persistent_id)
      [] OTHER -> {}
=============================================================================
