--------------------------- MODULE PostgresStorage --------------------------
(***************************************************************************)
(* The calls of PostgresStorage: tables with the migrations' constraints,  *)
(* whose columns are written from and decoded to the trait's values.       *)
(***************************************************************************)
EXTENDS StorageTables

\* sqlx_err: a constraint the row breaks is a conflict, no row is not found.
sqlx_err(S, unique, found) ==
    IF ~unique THEN Conflict(S) ELSE IF ~found THEN NotFound(S) ELSE Ok(S)

\* INSERT with the primary key and UNIQUE (U).
INSERT(S, r, U) ==
    LET unique == \A q \in S : (r.id # None => q.id # r.id) /\ ~Same(q, r, U)
    IN  [sqlx_err(S, unique, TRUE) EXCEPT !.rows = IF unique THEN S \cup {r} ELSE S]

SET(q, r, F) == [f \in DOMAIN q |-> IF f \in F THEN r[f] ELSE q[f]]

\* UPDATE ... SET F WHERE: D are the rows that match, U is UNIQUE.
UPDATE(S, D, r, F, U) ==
    LET new == {SET(q, r, F) : q \in D}
        unique == \A q \in S \ D, x \in new : ~Same(q, x, U)
    IN  [sqlx_err(S, unique, D # {}) EXCEPT !.rows = IF unique THEN (S \ D) \cup new ELSE S]

\* INSERT ... ON CONFLICT (U) DO UPDATE SET F.
UPSERT(S, r, U, F) ==
    LET old == {q \in S : Same(q, r, U)}
    IN  IF old = {} THEN INSERT(S, r, U) ELSE UPDATE(S, old, r, F, U)

\* The transaction sets geonosis.realm_id; every policy and query keeps to it.
begin_realm(z) == {q \in pg : q.realm = z}

Scoped(z, i) == {q \in begin_realm(z) : q.id = i}
Named(z, n) == {q \in begin_realm(z) : q.name = n}
Owned(z, o) == {q \in begin_realm(z) : q.of = o}
OwnedNamed(z, o, n) == {q \in Owned(z, o) : q.name = n}

\* A value read from the columns C, what has no column being empty; and a value that
\* is stored whole as JSON, in the config or graph column beside the others.
FromColumns(q, C) ==
    [f \in {"id", "realm", "name", "of", "set", "kept", "lost", "mark"} |->
        IF f \in C THEN q[f]
        ELSE IF f = "lost" THEN "none" ELSE IF f = "mark" THEN FALSE ELSE None]
AsJson(r) ==
    [f \in {"id", "realm", "name", "kept", "config"} |-> IF f = "config" THEN r ELSE r[f]]
FromJson(q) == q.config

(* Realms: the whole value is the config column.                           *)
realm_from_row(q) == FromJson(q)
postgres_create_realm(r) == INSERT(pg, AsJson(r), {"name"})
postgres_get_realm(i) == {realm_from_row(q) : q \in {x \in pg : x.id = i}}
postgres_get_realm_by_slug(n) == {realm_from_row(q) : q \in {x \in pg : x.name = n}}
postgres_update_realm(r) ==
    UPDATE(pg, {q \in pg : q.id = r.id}, AsJson(r), {"name", "config"}, {"name"})
postgres_delete_realm(i) == Without(pg, {q \in pg : q.id = i})
postgres_list_realms == {realm_from_row(q) : q \in pg}

(* Users: of is the email.  Credentials and federation have no column.     *)
user_from_row(q) == FromColumns(q, {"id", "realm", "name", "of", "set", "kept"})
postgres_create_user(r) == INSERT(pg, r, {"realm", "name"})
postgres_get_user(z, i) == {user_from_row(q) : q \in Scoped(z, i)}
postgres_get_user_by_username(z, n) == {user_from_row(q) : q \in Named(z, n)}
postgres_update_user(r) ==
    UPDATE(pg, Scoped(r.realm, r.id), r, {"name", "of", "set", "mark"}, {"realm", "name"})
\* DELETE ... WHERE id = $1, without the realm.
postgres_delete_user_AnyRealm(z, i) == Without(pg, {q \in pg : q.id = i})

postgres_delete_user(z, i) == Without(pg, Scoped(z, i))
postgres_list_users(z) == {user_from_row(q) : q \in begin_realm(z)}

(* Clients: the whole value is the config column.                          *)
client_from_row(q) == FromJson(q)
postgres_create_client(r) == INSERT(pg, AsJson(r), {"realm", "name"})
postgres_get_client(z, i) == {client_from_row(q) : q \in Scoped(z, i)}
postgres_get_client_by_client_id(z, n) == {client_from_row(q) : q \in Named(z, n)}
postgres_update_client(r) ==
    UPDATE(pg, Scoped(r.realm, r.id), AsJson(r), {"name", "config"}, {"realm", "name"})
postgres_delete_client(z, i) == Without(pg, Scoped(z, i))
postgres_list_clients(z) == {client_from_row(q) : q \in begin_realm(z)}

(* Sessions are found by their id alone.                                   *)
authn_level_to_str(l) ==
    CASE l = "Anonymous" -> "anonymous" [] l = "Single" -> "single"
      [] l = "Mfa" -> "mfa" [] l = "HardwareBound" -> "hardware-bound"
session_from_row(q) ==
    [FromColumns(q, {"id", "realm", "set", "kept"}) EXCEPT
        !.set = CASE @ = "anonymous" -> "Anonymous" [] @ = "single" -> "Single"
                  [] @ = "mfa" -> "Mfa" [] @ = "hardware-bound" -> "HardwareBound"
                  [] OTHER -> "Single"]
postgres_create_session(r) == INSERT(pg, [r EXCEPT !.set = authn_level_to_str(@)], {"id"})
postgres_get_session(i) == {session_from_row(q) : q \in {x \in pg : x.id = i}}
\* Not started_at, nor the user.
postgres_update_session(r) ==
    UPDATE(pg, {q \in pg : q.id = r.id}, [r EXCEPT !.set = authn_level_to_str(@)], {"set"}, {"id"})
postgres_delete_session(i) == Without(pg, {q \in pg : q.id = i})
postgres_list_sessions(z) == {session_from_row(q) : q \in begin_realm(z)}

(* Codes and pushed requests are consumed by the call that reads them.     *)
code_grant_from_row(q) == FromColumns(q, {"id", "realm", "set", "kept"})
par_from_row(q) == FromColumns(q, {"id", "realm", "set", "kept"})
postgres_save_code_grant(r) == INSERT(pg, r, {"id"})
postgres_consume_code(i) ==
    LET c == Consumed(pg, {q \in pg : q.id = i})
    IN  [c EXCEPT !.out = {code_grant_from_row(q) : q \in @}]
postgres_save_par_request(r) == INSERT(pg, r, {"id"})
postgres_consume_par_request(i) ==
    LET c == Consumed(pg, {q \in pg : q.id = i})
    IN  [c EXCEPT !.out = {par_from_row(q) : q \in @}]

(* Refresh tokens: of is the family.  The memory store's families map is   *)
(* in RefreshRotation.                                                     *)
refresh_from_row(q) == FromColumns(q, {"id", "realm", "of", "set", "kept", "mark"})
postgres_save_refresh_token(r) == INSERT(pg, r, {"id"})
postgres_get_refresh_token(i) == {refresh_from_row(q) : q \in {x \in pg : x.id = i}}
postgres_mark_refresh_used(i) == Marked(pg, {q \in pg : q.id = i})
postgres_revoke_token_family(f) == Ok({q \in pg : q.of # f})

(* Device grants: the name is the user code, which the memory store keeps  *)
(* in a map of its own.                                                    *)
device_status_to_str(s) ==
    CASE s = "Pending" -> "pending" [] s = "Approved" -> "approved"
      [] s = "Denied" -> "denied" [] s = "Expired" -> "expired"
device_from_row(q) ==
    [FromColumns(q, {"id", "realm", "name", "set", "kept"}) EXCEPT
        !.set = CASE @ = "pending" -> "Pending" [] @ = "approved" -> "Approved"
                  [] @ = "denied" -> "Denied" [] OTHER -> "Expired"]
postgres_save_device_grant(r) == INSERT(pg, [r EXCEPT !.set = device_status_to_str(@)], {"name"})
postgres_get_device_grant_by_device_code(i) ==
    {device_from_row(q) : q \in {x \in pg : x.id = i}}
postgres_get_device_grant_by_user_code(n) ==
    {device_from_row(q) : q \in {x \in pg : x.name = n}}
postgres_update_device_grant(r) ==
    UPDATE(pg, {q \in pg : q.id = r.id}, [r EXCEPT !.set = device_status_to_str(@)], {"set"}, {"name"})
postgres_delete_device_grant(i) == Without(pg, {q \in pg : q.id = i})

(* Flow states are saved at every step of a login.                         *)
flow_state_from_row(q) == FromColumns(q, {"id", "realm", "set", "kept"})
\* Not the CSRF token, the flow or its version.
postgres_save_flow_state(r) == UPSERT(pg, r, {"id"}, {"set"})
postgres_get_flow_state(i) == {flow_state_from_row(q) : q \in {x \in pg : x.id = i}}
postgres_delete_flow_state(i) == Without(pg, {q \in pg : q.id = i})

(* Flow definitions: kept is the version, "old" before "new".              *)
postgres_save_auth_flow(r) == INSERT(pg, AsJson(r), {"realm", "name", "kept"})
postgres_get_auth_flow_by_alias(z, n) == {FromJson(q) : q \in Latest(Named(z, n))}
postgres_get_auth_flow_by_alias_and_version(z, n, v) ==
    {FromJson(q) : q \in {x \in Named(z, n) : x.kept = v}}
postgres_list_auth_flows(z) == {FromJson(q) : q \in Latest(begin_realm(z))}
postgres_delete_auth_flow(z, i) == Without(pg, Scoped(z, i))

(* Consent: of is the user, the name is the client.                        *)
consent_from_row(q) == FromColumns(q, {"id", "realm", "of", "name", "set", "kept"})
\* An existing row keeps its id and granted_at.
postgres_save_consent_grant(r) == UPSERT(pg, r, {"realm", "of", "name"}, {"set"})
postgres_get_consent_grant(z, u, c) == {consent_from_row(q) : q \in OwnedNamed(z, u, c)}
postgres_delete_consent_grant(z, u, c) == Without(pg, OwnedNamed(z, u, c))

(* Identity providers, by alias.                                           *)
idp_from_row(q) == FromColumns(q, {"id", "realm", "name", "set", "kept"})
postgres_create_idp(r) == INSERT(pg, r, {"realm", "name"})
postgres_get_idp_by_alias(z, n) == {idp_from_row(q) : q \in Named(z, n)}
postgres_list_idps(z) == {idp_from_row(q) : q \in begin_realm(z)}
postgres_delete_idp(z, n) == Without(pg, Named(z, n))

(* Broker states, consumed by the callback, and broker links: the name is  *)
(* the provider's alias and external id, of is the user.                   *)
broker_state_from_row(q) == FromColumns(q, {"id", "realm", "name", "set", "kept"})
broker_link_from_row(q) == FromColumns(q, {"id", "realm", "name", "of", "set", "kept"})
postgres_save_broker_state(r) == INSERT(pg, r, {"realm", "name"})
postgres_consume_broker_state(z, n) ==
    LET c == Consumed(pg, Named(z, n))
    IN  [c EXCEPT !.out = {broker_state_from_row(q) : q \in @}]
postgres_upsert_broker_link(r) == UPSERT(pg, r, {"realm", "name"}, {"of", "set"})
postgres_find_broker_link(z, n) == {broker_link_from_row(q) : q \in Named(z, n)}
postgres_list_broker_links(z, u) == {broker_link_from_row(q) : q \in Owned(z, u)}

(* LDAP sources and WASM modules are upserted by alias.  The config column *)
(* is the whole source; a module's row keeps its id and created_at.        *)
postgres_upsert_ldap_source(r) == UPSERT(pg, AsJson(r), {"realm", "name"}, {"config"})
postgres_get_ldap_source(z, n) == {FromJson(q) : q \in Named(z, n)}
postgres_list_ldap_sources(z) == {FromJson(q) : q \in begin_realm(z)}
postgres_delete_ldap_source(z, n) == Without(pg, Named(z, n))
wasm_module_from_row(q) == FromColumns(q, {"id", "realm", "name", "set", "kept", "lost"})
\* Without the bytecode, here lost.
wasm_module_header_from_row(q) == FromColumns(q, {"id", "realm", "name", "set", "kept"})
postgres_upload_wasm_module(r) == UPSERT(pg, r, {"realm", "name"}, {"set", "lost"})
postgres_get_wasm_module(z, n) == {wasm_module_from_row(q) : q \in Named(z, n)}
postgres_list_wasm_modules(z) == {wasm_module_header_from_row(q) : q \in begin_realm(z)}
postgres_delete_wasm_module(z, n) == Without(pg, Named(z, n))

(* Provider bindings: of is the interface, the name is the provider's URN. *)
spi_binding_from_row(q) == FromColumns(q, {"id", "realm", "of", "name", "set", "kept"})
postgres_create_spi_binding(r) == INSERT(pg, r, {"realm", "of", "name"})
postgres_list_spi_bindings(z, f) == {spi_binding_from_row(q) : q \in Owned(z, f)}
postgres_update_spi_binding(r) == UPDATE(pg, Scoped(r.realm, r.id), r, {"set"}, {"realm", "of", "name"})
postgres_delete_spi_binding(z, i) == Without(pg, Scoped(z, i))

(* Roles: of is the client.  A realm's own roles, which Postgres does not  *)
(* keep apart by name, are in Directory.                                   *)
role_from_row(q) == FromColumns(q, {"id", "realm", "of", "name", "set", "kept"})
postgres_create_role(r) == INSERT(pg, r, {"realm", "of", "name"})
postgres_get_role(z, i) == {role_from_row(q) : q \in Scoped(z, i)}
postgres_get_role_by_name(z, c, n) == {role_from_row(q) : q \in OwnedNamed(z, c, n)}
postgres_list_roles(z, c) == {role_from_row(q) : q \in Owned(z, c)}
postgres_update_role(r) == UPDATE(pg, Scoped(r.realm, r.id), r, {"name", "set"}, {"realm", "of", "name"})
postgres_delete_role(z, i) == Without(pg, Scoped(z, i))

(* Assignments: of is the user or the group, the name is what it is given. *)
\* ON CONFLICT DO NOTHING.
INSERT_OR_NOTHING(S, r, U) == IF \E q \in S : Same(q, r, U) THEN Ok(S) ELSE Ok(S \cup {r})
postgres_assign_user_role(r) == INSERT_OR_NOTHING(pg, r, {"of", "name"})
postgres_unassign_user_role(z, o, n) == Ok(pg \ OwnedNamed(z, o, n))
postgres_list_user_roles(z, o) == Owned(z, o)
postgres_assign_user_group(r) == INSERT_OR_NOTHING(pg, r, {"of", "name"})
postgres_unassign_user_group(z, o, n) == Ok(pg \ OwnedNamed(z, o, n))
postgres_list_user_groups(z, o) == Owned(z, o)
postgres_assign_group_role(r) == INSERT_OR_NOTHING(pg, r, {"of", "name"})
postgres_unassign_group_role(z, o, n) == Ok(pg \ OwnedNamed(z, o, n))
postgres_list_group_roles(z, o) == Owned(z, o)

(* Groups: the name is the path.  Role ids have no column.                 *)
group_from_row(q) == FromColumns(q, {"id", "realm", "name", "set", "kept"})
postgres_create_group(r) == INSERT(pg, r, {"realm", "name"})
postgres_get_group(z, i) == {group_from_row(q) : q \in Scoped(z, i)}
postgres_get_group_by_path(z, n) == {group_from_row(q) : q \in Named(z, n)}
postgres_list_groups(z) == {group_from_row(q) : q \in begin_realm(z)}
postgres_update_group(r) == UPDATE(pg, Scoped(r.realm, r.id), r, {"name", "set"}, {"realm", "name"})
postgres_delete_group(z, i) == Without(pg, Scoped(z, i))

(* The profile schema of a realm, the default one until one is saved.      *)
postgres_get_user_profile_schema(z) == OrDefault(begin_realm(z), z)
postgres_save_user_profile_schema(r) == UPSERT(pg, r, {"realm"}, {"set", "kept"})

(* Agents.  kept is the parent_subject; mark is revoked_at and ~enabled.   *)
agent_auth_method_to_str(m) ==
    CASE m = "PrivateKeyJwt" -> "private-key-jwt" [] m = "DpopBoundKey" -> "dpop-bound-key"
      [] m = "TokenExchangeOnly" -> "token-exchange-only"
agent_auth_method_from_str(s) ==
    CASE s = "private-key-jwt" -> "PrivateKeyJwt" [] s = "dpop-bound-key" -> "DpopBoundKey"
      [] s = "token-exchange-only" -> "TokenExchangeOnly" [] OTHER -> "invalid"
agent_from_row(q) ==
    [FromColumns(q, {"id", "realm", "name", "set", "kept", "mark"}) EXCEPT
        !.set = agent_auth_method_from_str(@)]
AgentRow(r) == [r EXCEPT !.set = agent_auth_method_to_str(@)]
postgres_create_agent(r) == INSERT(pg, AgentRow(r), {"realm", "name"})
postgres_get_agent(z, i) == {agent_from_row(q) : q \in Scoped(z, i)}
postgres_get_agent_by_alias(z, n) == {agent_from_row(q) : q \in Named(z, n)}
postgres_list_agents(z) == {agent_from_row(q) : q \in begin_realm(z)}
postgres_update_agent(r) ==
    UPDATE(pg, Scoped(r.realm, r.id), AgentRow(r), {"name", "set", "mark"}, {"realm", "name"})
postgres_revoke_agent(z, i) == Marked(pg, Scoped(z, i))

(* Organizations, and what belongs to one: of is the organization.         *)
organization_from_row(q) == FromColumns(q, {"id", "realm", "name", "set", "kept"})
postgres_create_organization(r) == INSERT(pg, r, {"realm", "name"})
postgres_get_organization(z, i) == {organization_from_row(q) : q \in Scoped(z, i)}
postgres_get_organization_by_alias(z, n) == {organization_from_row(q) : q \in Named(z, n)}
postgres_list_organizations(z) == {organization_from_row(q) : q \in begin_realm(z)}
postgres_update_organization(r) ==
    UPDATE(pg, Scoped(r.realm, r.id), r, {"name", "set"}, {"realm", "name"})
postgres_delete_organization(z, i) == Without(pg, Scoped(z, i))

org_domain_from_row(q) == FromColumns(q, {"id", "realm", "of", "name", "set", "kept"})
postgres_upsert_org_domain(r) == UPSERT(pg, r, {"realm", "name"}, {"set"})
postgres_list_org_domains(z, o) == {org_domain_from_row(q) : q \in Owned(z, o)}
postgres_delete_org_domain(z, o, n) == Without(pg, OwnedNamed(z, o, n))

membership_state_to_str(s) ==
    CASE s = "Active" -> "active" [] s = "Invited" -> "invited" [] s = "Suspended" -> "suspended"
membership_state_from_str(s) ==
    CASE s = "active" -> "Active" [] s = "invited" -> "Invited"
      [] s = "suspended" -> "Suspended" [] OTHER -> "invalid"
org_membership_from_row(q) ==
    [FromColumns(q, {"realm", "of", "name", "set", "kept"}) EXCEPT
        !.set = membership_state_from_str(@)]
\* An existing row keeps joined_at.
postgres_upsert_org_membership(r) ==
    UPSERT(pg, [r EXCEPT !.set = membership_state_to_str(@)], {"of", "name"}, {"set"})
postgres_get_org_membership(z, o, n) == {org_membership_from_row(q) : q \in OwnedNamed(z, o, n)}
postgres_list_org_memberships(z, o) == {org_membership_from_row(q) : q \in Owned(z, o)}
postgres_list_user_orgs(z, n) == {org_membership_from_row(q) : q \in Named(z, n)}
postgres_delete_org_membership(z, o, n) == Without(pg, OwnedNamed(z, o, n))

org_role_from_row(q) == FromColumns(q, {"id", "realm", "of", "name", "set", "kept"})
postgres_create_org_role(r) == INSERT(pg, r, {"of", "name"})
postgres_get_org_role(z, i) == {org_role_from_row(q) : q \in Scoped(z, i)}
postgres_list_org_roles(z, o) == {org_role_from_row(q) : q \in Owned(z, o)}
postgres_update_org_role(r) == UPDATE(pg, Scoped(r.realm, r.id), r, {"name", "set"}, {"of", "name"})
postgres_delete_org_role(z, i) == Without(pg, Scoped(z, i))

org_invitation_from_row(q) == FromColumns(q, {"id", "realm", "of", "name", "set", "kept", "mark"})
postgres_create_org_invitation(r) == INSERT(pg, r, {"id"})
postgres_get_org_invitation_by_token(n) == {org_invitation_from_row(q) : q \in {x \in pg : x.name = n}}
postgres_list_org_invitations(z, o) == {org_invitation_from_row(q) : q \in Owned(z, o)}
postgres_mark_org_invitation_accepted(i) == Marked(pg, {q \in pg : q.id = i})
postgres_delete_org_invitation(i) == Without(pg, {q \in pg : q.id = i})

org_consent_mode_to_str(m) ==
    CASE m = "UserDecides" -> "user-decides" [] m = "OrgPreApproved" -> "org-pre-approved"
      [] m = "OrgManaged" -> "org-managed"
org_consent_mode_from_str(s) ==
    CASE s = "user-decides" -> "UserDecides" [] s = "org-pre-approved" -> "OrgPreApproved"
      [] s = "org-managed" -> "OrgManaged" [] OTHER -> "invalid"
org_consent_policy_from_row(q) ==
    [FromColumns(q, {"id", "realm", "of", "name", "set", "kept"}) EXCEPT
        !.set = org_consent_mode_from_str(@)]
\* An existing row keeps its id, created_by and created_at.
postgres_upsert_org_consent_policy(r) ==
    UPSERT(pg, [r EXCEPT !.set = org_consent_mode_to_str(@)], {"of", "name"}, {"set"})
postgres_get_org_consent_policy(z, o, n) ==
    {org_consent_policy_from_row(q) : q \in OwnedNamed(z, o, n)}
postgres_list_org_consent_policies(z, o) == {org_consent_policy_from_row(q) : q \in Owned(z, o)}
postgres_delete_org_consent_policy(z, o, n) == Without(pg, OwnedNamed(z, o, n))

org_idp_binding_from_row(q) == FromColumns(q, {"realm", "of", "name", "set", "kept"})
postgres_upsert_org_idp_binding(r) == UPSERT(pg, r, {"of", "name"}, {"set", "kept"})
postgres_list_org_idp_bindings(z, o) == {org_idp_binding_from_row(q) : q \in Owned(z, o)}
postgres_delete_org_idp_binding(z, o, n) == Without(pg, OwnedNamed(z, o, n))

(* Persistent SAML ids: of is the user, the name is the service provider.  *)
postgres_save_saml_persistent_id(r) == INSERT_OR_NOTHING(pg, r, {"realm", "of", "name"})
postgres_get_saml_persistent_id(z, o, n) == OwnedNamed(z, o, n)

postgres_reads ==
    CASE table = "realm" -> RI(postgres_get_realm, Id) \cup RI(postgres_get_realm_by_slug, Name)
                              \cup {<<None, None, Told(postgres_list_realms), FALSE>>}
      [] table = "user" -> R2(postgres_get_user, Id) \cup R2(postgres_get_user_by_username, Name)
                             \cup R0(postgres_list_users)
      [] table = "client" -> R2(postgres_get_client, Id)
                               \cup R2(postgres_get_client_by_client_id, Name) \cup R0(postgres_list_clients)
      [] table = "session" -> RI(postgres_get_session, Id) \cup R0(postgres_list_sessions)
      [] table = "refresh" -> RI(postgres_get_refresh_token, Id)
      [] table = "device" -> RI(postgres_get_device_grant_by_device_code, Id)
                               \cup RI(postgres_get_device_grant_by_user_code, Name)
      [] table = "flow_state" -> RI(postgres_get_flow_state, Id)
      [] table = "auth_flow" -> R2(postgres_get_auth_flow_by_alias, Name) \cup R0(postgres_list_auth_flows)
                                  \cup RV(postgres_get_auth_flow_by_alias_and_version)
      [] table = "consent" -> R3(postgres_get_consent_grant)
      [] table = "idp" -> R2(postgres_get_idp_by_alias, Name) \cup R0(postgres_list_idps)
      [] table = "broker_link" -> R2(postgres_find_broker_link, Name) \cup RO(postgres_list_broker_links)
      [] table = "ldap" -> R2(postgres_get_ldap_source, Name) \cup R0(postgres_list_ldap_sources)
      [] table = "wasm" -> R2(postgres_get_wasm_module, Name) \cup R0(postgres_list_wasm_modules)
      [] table = "spi" -> R2(postgres_list_spi_bindings, Owner)
      [] table = "role" -> R2(postgres_get_role, Id) \cup R3(postgres_get_role_by_name)
                             \cup RO(postgres_list_roles)
      [] table = "user_role" -> RO(postgres_list_user_roles)
      [] table = "user_group" -> RO(postgres_list_user_groups)
      [] table = "group_role" -> RO(postgres_list_group_roles)
      [] table = "group" -> R2(postgres_get_group, Id) \cup R2(postgres_get_group_by_path, Name)
                              \cup R0(postgres_list_groups)
      [] table = "profile" -> R0(postgres_get_user_profile_schema)
      [] table = "agent" -> R2(postgres_get_agent, Id) \cup R2(postgres_get_agent_by_alias, Name)
                              \cup R0(postgres_list_agents)
      [] table = "organization" -> R2(postgres_get_organization, Id)
                                     \cup R2(postgres_get_organization_by_alias, Name)
                                     \cup R0(postgres_list_organizations)
      [] table = "domain" -> RO(postgres_list_org_domains)
      [] table = "membership" -> R3(postgres_get_org_membership) \cup RO(postgres_list_org_memberships)
                                   \cup R2(postgres_list_user_orgs, Name)
      [] table = "org_role" -> R2(postgres_get_org_role, Id) \cup RO(postgres_list_org_roles)
      [] table = "invitation" -> RI(postgres_get_org_invitation_by_token, Name)
                                   \cup RO(postgres_list_org_invitations)
      [] table = "consent_policy" -> R3(postgres_get_org_consent_policy)
                                       \cup RO(postgres_list_org_consent_policies)
      [] table = "idp_binding" -> RO(postgres_list_org_idp_bindings)
      [] table = "saml_id" -> R3(postgres_get_saml_persistent_id)
      [] OTHER -> {}
=============================================================================
