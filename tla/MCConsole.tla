------------------------------ MODULE MCConsole ------------------------------
(* Model-checking instances of what a realm configures, one of them in each   *)
(* behaviour, and of the stores it is kept in: the admin console              *)
(* (AdminConsole, extended), the mappers of a brokered login (BrokerMappers)  *)
(* and the two backends (Storage).                                            *)
EXTENDS AdminConsole, TLC

CONSTANTS Realm, Id, Name, Owner, Homes

VARIABLES
    part,
    stored, claims, seed, rest, draft,
    table, mem, idx, pg, given, home, reply

mapper_vars == <<stored, claims, seed, rest, draft>>
storage_vars == <<table, mem, idx, pg, given, home, reply>>

------------------------------------------------------------------------------
(* Rows of every kind, with everything set or with nothing that is optional,  *)
(* and what administrators type.                                              *)

FullRealm ==
    [general |-> [display_name |-> "d", frontend_url |-> "https://a/",
                  admin_frontend_url |-> None, ssl_required |-> "All",
                  sender_constraint_default |-> "Mtls", enabled |-> TRUE,
                  organizations_enabled |-> FALSE],
     login |-> [registration |-> TRUE, reset_password |-> FALSE, remember_me |-> TRUE,
                email_login |-> TRUE, email_as_username |-> FALSE, duplicate_emails |-> FALSE,
                verify_email |-> TRUE, edit_username |-> FALSE,
                require_terms_acceptance |-> FALSE],
     sessions |-> [sso_session_idle |-> 90, sso_session_max |-> 500,
                   remember_me_idle |-> 500, remember_me_max |-> 5000],
     tokens |-> [lifespans |-> [access_token_lifespan |-> 90,
                                access_token_lifespan_implicit |-> 90,
                                refresh_token_lifespan |-> 500, auth_code_lifespan |-> 90,
                                refresh_token_max_reuse |-> 0],
                 default_signing_alg |-> "HS256",
                 allowed_signing_algs |-> <<"RS256", "ES256">>,
                 revoke_refresh_on_use |-> TRUE],
     password |-> [length |-> 7, special |-> None, upper |-> None, lower |-> 3,
                   digits |-> None, history |-> None, expire |-> 1,
                   not_username |-> TRUE, not_email |-> FALSE, pwned |-> FALSE,
                   blacklist |-> "re", hash_alg |-> None, hash_iterations |-> None],
     brute |-> [enabled |-> TRUE, permanent_lockout |-> FALSE,
                limits |-> [max_failures |-> 3, wait_increment |-> 90, max_wait |-> 500,
                            failure_reset |-> 5000]],
     otp |-> [kind |-> "hotp", algorithm |-> "sha256", digits |-> 7,
              counters |-> [period_seconds |-> 90, look_ahead_window |-> 1, initial_counter |-> 0]],
     webauthn |-> [rp_id |-> None, rp_name |-> "d", signature_algorithms |-> <<"ES256">>,
                   attestation |-> "direct", attachment |-> None,
                   user_verification |-> "preferred", require_resident_key |-> TRUE],
     themes |-> [login |-> None, account |-> "a", admin |-> None, email |-> None],
     localization |-> [default_locale |-> "en", supported_locales |-> <<"en", "de">>],
     events |-> [retention_days |-> 90, events_listeners |-> << >>,
                 login_enabled |-> TRUE, admin_enabled |-> FALSE],
     acr |-> [levels |-> "l"],
     org_policy |-> [ttl_days |-> 7, self_signup |-> None,
                     require_domain_verification |-> TRUE,
                     auto_join_on_domain_match |-> FALSE],
     hidden |-> [slug |-> "s"]]

FullClient ==
    [general |-> [display_name |-> "d", auth_method |-> "None",
                  access_token_type |-> "opaque", enabled |-> TRUE],
     uris |-> [redirect_uris |-> <<[uri |-> "u", wildcard_path |-> TRUE]>>,
               post_logout_redirect_uris |-> << >>, web_origins |-> <<"o", "p">>],
     grants |-> [authorization_code |-> TRUE, refresh_token |-> FALSE,
                 client_credentials |-> FALSE, password |-> FALSE, device_code |-> TRUE,
                 token_exchange |-> FALSE],
     scopes |-> [default_scopes |-> <<"openid", "email">>, optional_scopes |-> <<"x">>],
     flow_bindings |-> [browser |-> "f", direct_grant |-> None, registration |-> None,
                        reset_credentials |-> None, client_authentication |-> None],
     consent |-> [consent_screen_text |-> "c", required |-> TRUE,
                  display_on_consent_screen |-> FALSE],
     tokens |-> [access_token_lifespan |-> 90, refresh_token_lifespan |-> None,
                 access_token_signing_alg |-> None, pairwise_sub_algorithm |-> "sha256"],
     logout |-> [front_channel_logout_enabled |-> TRUE,
                 backchannel_logout_url |-> "https://a/"],
     hidden |-> [saml_sp_config |-> "sp"]]
BareClient ==
    [FullClient EXCEPT !.general.display_name = None, !.uris.redirect_uris = << >>,
                       !.scopes.default_scopes = <<"openid">>,
                       !.consent.consent_screen_text = None]

NickName == [given |-> None, family |-> None, middle |-> None, display |-> "n"]
FullUser ==
    [general |-> [email |-> "e", email_verified |-> TRUE, enabled |-> TRUE,
                  name |-> [given |-> "g", family |-> None, middle |-> "m",
                            display |-> None],
                  required_actions |-> <<"verify-email", "configure-otp">>,
                  required_flow |-> "f"],
     hidden |-> [password |-> [phc |-> "old"], attributes |-> "a"]]
BareUser == [FullUser EXCEPT !.general.name = NickName, !.general.email = None,
                             !.general.required_flow = None]

FullOrg == [general |-> [display_name |-> "d", description |-> None,
                         default_idp_alias |-> "i", redirect_url |-> "https://a/",
                         enabled |-> TRUE],
            branding |-> [logo_url |-> "https://a/", primary_color |-> "c", theme |-> None],
            hidden |-> [attributes |-> "a"]]
FullAgent == [general |-> [display_name |-> "d", kind |-> "custom", model_hint |-> "m",
                           vendor |-> None, version |-> "v",
                           auth_method |-> "dpop-bound-key", expires_at |-> None,
                           enabled |-> TRUE],
              rate_limits |-> [requests_per_minute |-> 90, tokens_per_day |-> 500],
              hidden |-> [allowed_scopes |-> <<"x">>]]
FullRole == [general |-> [description |-> "d"], hidden |-> [composites |-> "c"]]
FullGroup == [general |-> [name |-> "n"], hidden |-> [path |-> "n"]]

General == [display_name |-> "d", first_login_flow_alias |-> "f",
            post_login_flow_alias |-> None, adapter_urn |-> None, enabled |-> TRUE,
            link_only |-> FALSE]
FullOidc == [general |-> General,
             config |-> [n \in OidcOptional |-> IF n = "prompt" THEN "p" ELSE None] @@
                        [issuer |-> "i", client_id |-> "c", client_auth |-> "Jwt",
                         scopes |-> <<"openid", "email">>, pkce |-> TRUE,
                         accept_unsigned_userinfo |-> FALSE],
             hidden |-> [client_secret |-> "s", client_assertion_key |-> "k"]]
FullSaml == [general |-> General,
             config |-> [entity_id |-> "e", sso_url |-> "s", slo_url |-> None,
                         signing_cert_pems |-> <<Pem("one"), Pem("two")>>,
                         binding_outbound |-> "HttpPost", binding_inbound |-> "Artifact",
                         name_id_format |-> "X509SubjectName",
                         want_assertions_signed |-> TRUE, want_responses_signed |-> FALSE],
             hidden |-> [none |-> None]]
FullLdap == [connection |-> [page_size |-> 90, pool_size |-> 1, bind_timeout_ms |-> 7,
                             search_timeout_ms |-> 500, urls |-> <<"a", "b">>,
                             base_dn |-> "b", bind_dn |-> None, user_filter |-> "f",
                             tls |-> "Ldaps", enabled |-> TRUE],
             mapping |-> [email |-> "mail", first_name |-> None, last_name |-> "sn",
                          username |-> "uid", uid |-> "entryUUID",
                          extras |-> {<<"k", "v">>}],
             sync |-> [write_policy |-> "writable", sync_policy |-> "p", group_sync |-> "g"],
             hidden |-> [bind_password |-> "s", user_account_control |-> "u"]]

MCSample ==
    [realm |-> {FullRealm}, client |-> {FullClient, BareClient},
     user |-> {FullUser, BareUser}, org |-> {FullOrg}, agent |-> {FullAgent},
     role |-> {FullRole}, group |-> {FullGroup}, oidc |-> {FullOidc},
     saml |-> {FullSaml}, ldap |-> {FullLdap}]

Url == {"", "https://h", "https://b/", "no url"}
List == {<< >>, <<"o", "", "q">>}
Csv == {<< >>, join_comma(<<"openid", "email">>),
        <<[word |-> "openid", comma |-> FALSE], [word |-> "email", comma |-> FALSE]>>}
Json == {[json |-> TRUE, of |-> "q"], [json |-> FALSE, of |-> "q"]}
Num == {"", "8", "0"}
MCTyped ==
    [n \in UrlInput |-> Url] @@ [n \in ListInput |-> List] @@ [n \in NumberInput |-> Num] @@
    [scopes |-> {<< >>, join_comma(<<"openid", "x">>)}] @@
    [n \in ScopeInput \cup {"required_actions", "allowed_signing_algs",
                            "signature_algorithms", "supported_locales",
                            "events_listeners"} |-> Csv] @@
    [ssl_required |-> {"none"}, sender_constraint_default |-> {"none", "dpop"},
     auth_method |-> {"client-secret-basic", "private-key-jwt"},
     client_auth |-> {"none"}, tls |-> {"none", "starttls"}, write_policy |-> {"read-only"},
     hash_alg |-> {"bcrypt"}, binding_inbound |-> {"post"}, binding_outbound |-> {"redirect"},
     name_id_format |-> {"unspecified"},
     acr_levels_json |-> Json, sync_policy_json |-> Json \cup {[json |-> FALSE, of |-> ""]},
     signing_cert_pems |-> {<< >>, Pem("one")}, extras |-> {<<<<"k", "w">>, <<"junk">>>>},
     password |-> {"", "weak", "x"}, client_id |-> {"", "junk"},
     parent_id |-> {"", "junk", "z"}, kind |-> {"public", "service-account", "scim-client"},
     parent_kind |-> {"organization"}]

MCRules == [FullRealm.password EXCEPT !.length = 8, !.lower = None, !.digits = 1]
Counted(length, digits) ==
    [length |-> length, special |-> 0, upper |-> 0, lower |-> length - digits,
     digits |-> digits]
MCMeasure == [x |-> [count |-> Counted(8, 1), equals |-> {"not_email"}],
              y |-> [count |-> Counted(9, 3), equals |-> {}],
              old |-> [count |-> Counted(8, 0), equals |-> {}],
              weak |-> [count |-> Counted(8, 1), equals |-> {"not_username"}]]

------------------------------------------------------------------------------
Mapper(n, k, other) == [priority |-> n, kind |-> k] @@ other
ToAttribute(n, claim, overwrite) ==
    Mapper(n, "claim-to-attribute", [claim |-> claim, attribute |-> "d", overwrite |-> overwrite])
ToOrg(n, claim, any, role) ==
    Mapper(n, "claim-to-org", [claim |-> claim, values |-> {"a"}, match_any |-> any, org |-> "o", role |-> role])
ToRole(n, any) == Mapper(n, "claim-to-role", [claim |-> "groups", values |-> {"a"}, match_any |-> any, role |-> "admin"])
Template(n) ==
    Mapper(n, "username-template",
           [template |-> <<[kind |-> "claim", name |-> "team"], [kind |-> "claim", name |-> "groups"]>>])
MapperBindings ==
    {{ToAttribute(1, "dept", TRUE), ToAttribute(2, "team", FALSE), ToAttribute(2, "groups", TRUE),
      ToOrg(4, "groups", TRUE, "x"), ToOrg(4, "dept", FALSE, "y")},
     {ToAttribute(5, "team", FALSE), ToAttribute(4, "groups", FALSE), ToRole(3, FALSE), Template(2),
      Mapper(1, "email-verified-passthrough", [to |-> "draft"])}}
UpstreamClaims ==
    {"dept" :> <<"a">> @@ "groups" :> <<"a", "b">>,
     "team" :> <<"t">> @@ "groups" :> <<"a">> @@ "email_verified" :> <<"true">>, <<>>}
SeededDraft == [username |-> <<"ada">>, email_verified |-> FALSE, attributes |-> "d" :> <<"s">>, roles |-> {},
                orgs |-> "o" :> "z"]

mappers == INSTANCE BrokerMappers WITH Bindings <- MapperBindings, Claims <- UpstreamClaims,
                                       Drafts <- {SeededDraft, [SeededDraft EXCEPT !.attributes = <<>>, !.orgs = <<>>]}

------------------------------------------------------------------------------
\* The owners live in one realm, or each in one of its own.
OneHome == [o \in Owner |-> CHOOSE z \in Realm : TRUE]
MCHomes == {OneHome, CHOOSE f \in [Owner -> Realm] : \A o, p \in Owner : o # p => f[o] # f[p]}

backends == INSTANCE Storage

MCInit ==
    /\ part \in {"console", "mappers", "storage"}
    /\ IF part = "console" THEN TRUE ELSE kind = "role"
    /\ IF part = "console" THEN TRUE ELSE row = FullRole
    /\ IF part = "storage" THEN TRUE ELSE table = "client"
    /\ Init /\ backends!Init
    /\ table \in backends!Unowned \cup {"user", "spi"} => home = OneHome
    /\ IF part = "mappers" THEN mappers!Init
       ELSE stored = <<>> /\ claims = <<>> /\ seed = <<>> /\ rest = <<>> /\ draft = <<>>

MCNext ==
    \/ part = "console" /\ Next /\ UNCHANGED <<part, mapper_vars, storage_vars>>
    \/ part = "mappers" /\ mappers!Next /\ UNCHANGED <<part, vars, storage_vars>>
    \/ part = "storage" /\ backends!Next /\ UNCHANGED <<part, vars, mapper_vars>>

MCSpec == MCInit /\ [][MCNext]_<<part, vars, mapper_vars, storage_vars>>

\* Administrators are interchangeable, and so are ids and names.
Symmetry == Permutations(Operator) \cup Permutations(Id) \cup Permutations(Name)

\* See BrokerMappers: the mapper of the highest priority decides.
PriorityDecides == part = "mappers" => mappers!PriorityDecides

\* See Storage: both backends answer alike.
BackendsAgree == part = "storage" => backends!BackendsAgree

\* See Storage: no call for one realm shows or changes another's rows.
TenantIsolation == part = "storage" => backends!TenantIsolation
==============================================================================
