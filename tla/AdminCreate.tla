---------------------------- MODULE AdminCreate -----------------------------
(***************************************************************************)
(* The console's create pages: the form each page shows, and the row its   *)
(* POST handler builds from what was typed and from the defaults of the    *)
(* core types.                                                             *)
(***************************************************************************)
EXTENDS AdminForms

CONSTANTS
    Existing,   \* the clients and groups there are, by the text that names them
    Uuid        \* the texts that parse as ids, whether or not there is such a row

------------------------------------------------------------------------------
(* Realms.                                                                 *)

LoginSettings_default ==
    [registration |-> FALSE, reset_password |-> TRUE, remember_me |-> TRUE,
     email_login |-> TRUE, email_as_username |-> FALSE, duplicate_emails |-> FALSE,
     verify_email |-> FALSE, edit_username |-> FALSE, require_terms_acceptance |-> FALSE]
SessionPolicy_default ==
    [sso_session_idle |-> 30 * 60, sso_session_max |-> 10 * 3600,
     remember_me_idle |-> 60 * 24 * 3600, remember_me_max |-> 180 * 24 * 3600]
TokenPolicy_default ==
    [lifespans |-> [access_token_lifespan |-> 5 * 60,
                    access_token_lifespan_implicit |-> 15 * 60,
                    refresh_token_lifespan |-> 30 * 24 * 3600, auth_code_lifespan |-> 60,
                    refresh_token_max_reuse |-> 0],
     default_signing_alg |-> "RS256", allowed_signing_algs |-> <<"RS256", "ES256", "EdDSA">>,
     revoke_refresh_on_use |-> TRUE]
BruteForcePolicy_default ==
    [enabled |-> TRUE, permanent_lockout |-> FALSE,
     limits |-> [max_failures |-> 30, wait_increment |-> 60, max_wait |-> 15 * 60,
                 failure_reset |-> 12 * 3600]]
PasswordPolicy_default ==
    [n \in DOMAIN RuleDefault |-> IF n = "length" THEN 8 ELSE None] @@
    [n \in PlainRule |-> FALSE] @@
    [blacklist |-> None, hash_alg |-> "argon2id", hash_iterations |-> 3]
OtpPolicy_default ==
    [kind |-> "totp", algorithm |-> "sha1", digits |-> 6,
     counters |-> [period_seconds |-> 30, look_ahead_window |-> 1, initial_counter |-> 0]]
WebauthnPolicy_default ==
    [rp_id |-> None, rp_name |-> "Geonosis",
     signature_algorithms |-> <<"ES256", "RS256", "EdDSA">>, attestation |-> "none",
     attachment |-> None, user_verification |-> "preferred", require_resident_key |-> FALSE]
LocalizationPolicy_default ==
    [default_locale |-> "en-US", supported_locales |-> <<"en-US">>]

default_realm ==
    [general |-> [display_name |-> "", frontend_url |-> None, admin_frontend_url |-> None,
                  ssl_required |-> "ExternalRequests", sender_constraint_default |-> "None",
                  enabled |-> TRUE, organizations_enabled |-> FALSE],
     login |-> LoginSettings_default, sessions |-> SessionPolicy_default,
     tokens |-> TokenPolicy_default, password |-> PasswordPolicy_default,
     brute |-> BruteForcePolicy_default, otp |-> OtpPolicy_default,
     webauthn |-> WebauthnPolicy_default,
     themes |-> [n \in {"login", "account", "admin", "email"} |-> None],
     localization |-> LocalizationPolicy_default,
     events |-> [retention_days |-> 0, events_listeners |-> << >>,
                 login_enabled |-> FALSE, admin_enabled |-> FALSE],
     acr |-> [levels |-> "[]"],
     org_policy |-> [ttl_days |-> 0, self_signup |-> None,
                     require_domain_verification |-> FALSE,
                     auto_join_on_domain_match |-> FALSE],
     hidden |-> [slug |-> ""]]

RealmCreatePage ==
    [text |-> [slug |-> "", display_name |-> ""], box |-> [enabled |-> TRUE]]

post_realm_create(f) ==
    IF f.text.slug = "" THEN Refused
    ELSE [default_realm EXCEPT !.hidden.slug = f.text.slug,
                               !.general.display_name = f.text.display_name,
                               !.general.enabled = f.box.enabled]

------------------------------------------------------------------------------
(* Clients.  The kind decides the grants and is not shown on a tab.        *)

Grants(on) ==
    [n \in {"authorization_code", "refresh_token", "client_credentials", "password",
            "device_code", "token_exchange"} |-> n \in on]
web_app == Grants({"authorization_code", "refresh_token"})
public_app == Grants({"authorization_code", "refresh_token"})
service_account == Grants({"client_credentials"})

ClientCreatePage ==
    [text |-> [client_id |-> "", display_name |-> "",
               kind |-> Select("confidential",
                               <<"confidential", "public", "bearer-only", "service-account",
                                 "saml-service-provider", "scim-client">>),
               auth_method |-> Select("client-secret-basic", client_auth_options)],
     box |-> NoBox]

\* The display name is stored as it came, an empty one too.
post_client_create(f) ==
    [general |-> [display_name |-> f.text.display_name,
                  auth_method |-> Parsed(auth_method_value, "ClientSecretBasic",
                                         f.text.auth_method),
                  access_token_type |-> "jwt", enabled |-> TRUE],
     uris |-> [redirect_uris |-> << >>, post_logout_redirect_uris |-> << >>,
               web_origins |-> << >>],
     grants |-> CASE f.text.kind = "public" -> public_app
                  [] f.text.kind = "service-account" -> service_account
                  [] OTHER -> web_app,
     scopes |-> [default_scopes |-> << >>, optional_scopes |-> << >>],
     flow_bindings |-> [n \in {"browser", "direct_grant", "registration",
                               "reset_credentials", "client_authentication"} |-> None],
     consent |-> [consent_screen_text |-> None, required |-> FALSE,
                  display_on_consent_screen |-> FALSE],
     tokens |-> [access_token_lifespan |-> None, refresh_token_lifespan |-> None,
                 access_token_signing_alg |-> None, pairwise_sub_algorithm |-> None],
     logout |-> [front_channel_logout_enabled |-> FALSE, backchannel_logout_url |-> None],
     hidden |-> [client_id |-> f.text.client_id, kind |-> f.text.kind]]

------------------------------------------------------------------------------
(* Users, roles, groups, organizations.                                    *)

UserCreatePage ==
    [text |-> [n \in {"username", "email", "first_name", "last_name", "password"} |-> ""],
     box |-> [enabled |-> TRUE, email_verified |-> FALSE]]

\* The first of the handler's two writes.  Both name inputs are posted, so the
\* name is there, with empty parts if nothing was typed.
post_user_create(f) ==
    [general |-> [email |-> opt_str(f.text.email), email_verified |-> f.box.email_verified,
                  enabled |-> f.box.enabled,
                  name |-> [given |-> f.text.first_name, family |-> f.text.last_name,
                            middle |-> None, display |-> None],
                  required_actions |-> << >>, required_flow |-> None],
     hidden |-> [password |-> None, username |-> f.text.username]]

\* The second: a password that was typed and is not refused.  The user is there
\* even when it is.
post_user_create_password(r, f) ==
    IF f.text.password = "" \/ f.text.password \in Weak THEN Refused
    ELSE [r EXCEPT !.hidden.password = hash_password(f.text.password)]

RoleCreatePage ==
    [text |-> [n \in {"name", "description", "client_id"} |-> ""], box |-> NoBox]
post_role_create(f) ==
    IF f.text.client_id \notin {""} \cup Existing THEN Refused
    ELSE [general |-> [description |-> opt_str(f.text.description)],
          hidden |-> [name |-> f.text.name, client_id |-> opt_str(f.text.client_id)]]

GroupCreatePage == [text |-> [name |-> "", parent_id |-> ""], box |-> NoBox]

\* A parent that is no id is left out; one that is, and is not there, is refused.
post_group_create(f) ==
    IF f.text.parent_id \in Uuid \ Existing THEN Refused
    ELSE [general |-> [name |-> f.text.name],
          hidden |-> [path |-> IF f.text.parent_id \in Uuid
                               THEN <<f.text.parent_id, f.text.name>> ELSE <<f.text.name>>]]

OrgCreatePage ==
    [text |-> [n \in {"alias", "display_name", "description"} |-> ""],
     box |-> [enabled |-> TRUE]]
post_org_create(f) ==
    [general |-> [display_name |-> f.text.display_name,
                  description |-> opt_str(f.text.description),
                  default_idp_alias |-> None, redirect_url |-> None,
                  enabled |-> f.box.enabled],
     branding |-> [n \in {"logo_url", "primary_color", "theme"} |-> None],
     hidden |-> [alias |-> f.text.alias]]

------------------------------------------------------------------------------
(* Agents and identity providers.                                          *)

AgentRateLimit_default == [requests_per_minute |-> 60, tokens_per_day |-> None]

AgentCreatePage ==
    [text |-> [n \in {"alias", "display_name", "parent_id", "model_hint", "vendor"} |-> ""] @@
              [kind |-> "assistant", auth_method |-> "token-exchange-only",
               parent_kind |-> "user"],
     box |-> NoBox]

\* Whether there is a parent of that id is not looked up.
post_agent_create(f) ==
    IF f.text.parent_id \notin Uuid THEN Refused
    ELSE [general |-> [display_name |-> f.text.display_name, kind |-> f.text.kind,
                       model_hint |-> opt_str(f.text.model_hint),
                       vendor |-> opt_str(f.text.vendor), version |-> None,
                       auth_method |-> f.text.auth_method, expires_at |-> None,
                       enabled |-> TRUE],
          rate_limits |-> AgentRateLimit_default,
          hidden |-> [alias |-> f.text.alias,
                      parent |-> <<f.text.parent_kind, f.text.parent_id>>]]

IdpCreatePage(k) ==
    [text |-> [alias |-> "", display_name |-> "", kind |-> k], box |-> NoBox]

post_idp_create(f) ==
    [general |-> [display_name |-> f.text.display_name, first_login_flow_alias |-> "browser",
                  post_login_flow_alias |-> None, adapter_urn |-> None, enabled |-> TRUE,
                  link_only |-> FALSE],
     config |-> IF f.text.kind = "saml"
                THEN [entity_id |-> "", sso_url |-> "", slo_url |-> None,
                      signing_cert_pems |-> << >>, binding_outbound |-> "HttpRedirect",
                      binding_inbound |-> "HttpPost", name_id_format |-> "Persistent",
                      want_assertions_signed |-> TRUE, want_responses_signed |-> TRUE]
                ELSE [n \in OidcOptional |-> None] @@
                     [issuer |-> "", client_id |-> "", client_auth |-> "Basic",
                      scopes |-> <<"openid">>, pkce |-> TRUE,
                      accept_unsigned_userinfo |-> FALSE],
     hidden |-> [alias |-> f.text.alias] @@
                (IF f.text.kind = "saml" THEN << >>
                 ELSE [client_secret |-> None, client_assertion_key |-> None])]

------------------------------------------------------------------------------
CreatePage(k) ==
    CASE k = "realm" -> RealmCreatePage
      [] k = "client" -> ClientCreatePage
      [] k = "user" -> UserCreatePage
      [] k = "role" -> RoleCreatePage
      [] k = "group" -> GroupCreatePage
      [] k = "org" -> OrgCreatePage
      [] k = "agent" -> AgentCreatePage
      [] k \in {"oidc", "saml"} -> IdpCreatePage(k)

Created(k, f) ==
    CASE k = "realm" -> post_realm_create(f)
      [] k = "client" -> post_client_create(f)
      [] k = "user" -> post_user_create(f)
      [] k = "role" -> post_role_create(f)
      [] k = "group" -> post_group_create(f)
      [] k = "org" -> post_org_create(f)
      [] k = "agent" -> post_agent_create(f)
      [] k \in {"oidc", "saml"} -> post_idp_create(f)

\* The inputs a browser does not post empty.
Required == {"slug", "client_id", "username", "name", "alias", "display_name", "parent_id"}
==============================================================================
