----------------------------- MODULE AdminForms -----------------------------
(***************************************************************************)
(* The forms of the admin console.  A page renders one tab of one row as a *)
(* form: text is what its inputs hold, box which check boxes are ticked.   *)
(* The browser posts the whole form back and the POST handler of the row   *)
(* reads it.  Each tab is one operator from the row (or the part of it the *)
(* tab shows) to the form, each handler one from the row and the form to   *)
(* the row it will write, or to Refused.                                   *)
(*                                                                         *)
(* A row groups its fields by the tab that shows them; hidden holds what   *)
(* no input of the console shows.                                          *)
(***************************************************************************)
EXTENDS Naturals, SequencesExt

CONSTANTS
    None, Refused,
    Rules,      \* the password policy of the realm, as the password tab stores it
    Measure     \* what validate counts in a password: a function on texts

NoText == [n \in {} |-> ""]
NoBox == [n \in {} |-> FALSE]

------------------------------------------------------------------------------
(* Widgets and conversions.                                                *)

\* A select shows the stored value if it is an option, else its first option.
Select(value, options) == IF Contains(options, value) THEN value ELSE options[1]

unwrap_or_default(v) == IF v = None THEN "" ELSE v
opt_str(s) == IF s = "" THEN None ELSE s

\* Number: the numbers that occur; to_string and parse of an unsigned integer.
Number == {0, 1, 3, 7, 8, 60, 90, 500, 5000, 10000}
to_string(v) == IF v = None THEN "" ELSE ToString(v)
parse(s, default) ==
    IF \E n \in Number : ToString(n) = s THEN CHOOSE n \in Number : ToString(n) = s
    ELSE default

\* Url::parse writes a bare host with its slash; what does not parse is dropped.
parse_optional_url(s) ==
    CASE s = "" -> None
      [] s = "https://h" -> "https://h/"
      [] s = "no url" -> None
      [] OTHER -> s

\* What an enumeration's match on an option gives back.
Parsed(value, default, s) ==
    IF \E v \in DOMAIN value : value[v] = s
    THEN CHOOSE v \in DOMAIN value : value[v] = s ELSE default

\* A text area is the sequence of its lines, joined by newlines.
lines(t) == SelectSeq(t, LAMBDA l : l # "")

\* A comma-separated input is the sequence of its words; joined, all words
\* but the last carry a comma.  split(',') is given such joined texts only.
join_comma(s) == [i \in DOMAIN s |-> [word |-> s[i], comma |-> i < Len(s)]]
split_comma(t) == [i \in DOMAIN t |-> t[i].word]
Words(t) == LET kept == SelectSeq(t, LAMBDA w : ~w.comma)
            IN [i \in DOMAIN kept |-> kept[i].word]

\* serde_json: "text" is text that is no JSON of the type asked for.
to_string_pretty(v) == [json |-> TRUE, of |-> v]
from_str(t) == IF t.json THEN t.of ELSE Refused

Durations(g) == [n \in DOMAIN g |-> to_string(g[n])]

------------------------------------------------------------------------------
(* Realm settings.                                                         *)

ssl_value == [None |-> "none", ExternalRequests |-> "external-requests", All |-> "all"]
sender_constraint_value == [None |-> "none", Dpop |-> "dpop", Mtls |-> "mtls"]
ssl_options == <<"none", "external-requests", "all">>
sender_options == <<"none", "dpop", "mtls">>
alg_options ==
    <<"RS256", "RS384", "RS512", "PS256", "ES256", "ES384", "ES512", "EdDSA">>

realm_tab_general(g) ==
    [text |-> [display_name |-> g.display_name,
               frontend_url |-> unwrap_or_default(g.frontend_url),
               admin_frontend_url |-> unwrap_or_default(g.admin_frontend_url),
               ssl_required |-> Select(ssl_value[g.ssl_required], ssl_options),
               sender_constraint_default |->
                  Select(sender_constraint_value[g.sender_constraint_default],
                         sender_options)],
     box |-> [enabled |-> g.enabled, organizations_enabled |-> g.organizations_enabled]]

realm_tab_login(g) == [text |-> NoText, box |-> g]

realm_tab_sessions(g) == [text |-> Durations(g), box |-> NoBox]

realm_tab_tokens(g) ==
    [text |-> Durations(g.lifespans) @@
              [default_signing_alg |-> Select(g.default_signing_alg, alg_options),
               allowed_signing_algs |-> join_comma(g.allowed_signing_algs)],
     box |-> [revoke_refresh_on_use |-> g.revoke_refresh_on_use]]

\* The rules with a number, and what an input shows when the rule is absent.
RuleDefault == [length |-> 8, special |-> 1, upper |-> 1, lower |-> 1, digits |-> 1,
                history |-> 3, expire |-> 90]
PlainRule == {"not_username", "not_email", "pwned"}
hash_options == <<"argon2id", "bcrypt", "pbkdf2">>

realm_tab_password(g) ==
    [text |-> [n \in DOMAIN RuleDefault |->
                  to_string(IF g[n] = None THEN RuleDefault[n] ELSE g[n])] @@
              [blacklist |-> unwrap_or_default(g.blacklist),
               hash_alg |-> Select(IF g.hash_alg = None THEN "argon2id" ELSE g.hash_alg,
                                   hash_options),
               hash_iterations |-> to_string(IF g.hash_iterations = None THEN 3
                                             ELSE g.hash_iterations)],
     box |-> [n \in DOMAIN RuleDefault \cup {"blacklist"} |-> g[n] # None] @@
             [n \in PlainRule |-> g[n]]]

realm_tab_brute(g) ==
    [text |-> Durations(g.limits),
     box |-> [enabled |-> g.enabled, permanent_lockout |-> g.permanent_lockout]]

realm_tab_otp(g) ==
    [text |-> [kind |-> Select(g.kind, <<"totp", "hotp">>),
               algorithm |-> Select(g.algorithm, <<"sha1", "sha256", "sha512">>),
               digits |-> Select(to_string(g.digits), <<"6", "8">>)] @@
              Durations(g.counters),
     box |-> NoBox]

realm_tab_webauthn(g) ==
    [text |-> [rp_id |-> unwrap_or_default(g.rp_id),
               rp_name |-> g.rp_name,
               signature_algorithms |-> join_comma(g.signature_algorithms),
               attestation |-> Select(g.attestation,
                                      <<"none", "indirect", "direct", "enterprise">>),
               attachment |-> Select(IF g.attachment = None THEN "any" ELSE g.attachment,
                                     <<"any", "platform", "cross-platform">>),
               user_verification |-> Select(g.user_verification,
                                            <<"required", "preferred", "discouraged">>)],
     box |-> [require_resident_key |-> g.require_resident_key]]

realm_tab_themes(g) ==
    [text |-> [n \in DOMAIN g |-> IF g[n] = None THEN "default" ELSE g[n]], box |-> NoBox]

realm_tab_localization(g) ==
    [text |-> [default_locale |-> g.default_locale,
               supported_locales |-> join_comma(g.supported_locales)], box |-> NoBox]

realm_tab_events(g) ==
    [text |-> [retention_days |-> to_string(g.retention_days),
               events_listeners |-> join_comma(g.events_listeners)],
     box |-> [login_enabled |-> g.login_enabled, admin_enabled |-> g.admin_enabled]]

realm_tab_acr(g) ==
    [text |-> [acr_levels_json |-> to_string_pretty(g.levels)], box |-> NoBox]

realm_tab_org_policy(g) ==
    [text |-> [default_invitation_ttl_days |-> to_string(g.ttl_days),
               default_role_for_self_signup |-> unwrap_or_default(g.self_signup)],
     box |-> [require_domain_verification |-> g.require_domain_verification,
              auto_join_on_domain_match |-> g.auto_join_on_domain_match]]

\* Only three of the tabs are saved; the others are read and change nothing.
post_realm_settings(r, tab, f) ==
    CASE tab = "general" ->
           [r EXCEPT !.general =
              [display_name |-> f.text.display_name,
               frontend_url |-> parse_optional_url(f.text.frontend_url),
               admin_frontend_url |-> parse_optional_url(f.text.admin_frontend_url),
               ssl_required |-> Parsed(ssl_value, "ExternalRequests", f.text.ssl_required),
               sender_constraint_default |->
                  Parsed(sender_constraint_value, "None", f.text.sender_constraint_default),
               enabled |-> f.box.enabled,
               organizations_enabled |-> f.box.organizations_enabled]]
      [] tab = "password" ->
           [r EXCEPT !.password =
              [n \in DOMAIN RuleDefault |->
                 IF f.box[n] THEN parse(f.text[n], RuleDefault[n]) ELSE None] @@
              [n \in PlainRule |-> f.box[n]] @@
              [blacklist |-> IF f.box.blacklist THEN opt_str(f.text.blacklist) ELSE None,
               hash_alg |-> f.text.hash_alg,
               hash_iterations |-> parse(f.text.hash_iterations, None)]]
      [] tab = "acr" ->
           IF from_str(f.text.acr_levels_json) = Refused THEN Refused
           ELSE [r EXCEPT !.acr.levels = from_str(f.text.acr_levels_json)]
      [] OTHER -> r

\* The realm page's button: the flag of the row just read, the other way.
post_realm_disable(r) == [r EXCEPT !.general.enabled = ~@]

------------------------------------------------------------------------------
(* Clients.                                                                *)

auth_method_value ==
    [ClientSecretBasic |-> "client-secret-basic", ClientSecretPost |-> "client-secret-post",
     ClientSecretJwt |-> "client-secret-jwt", PrivateKeyJwt |-> "private-key-jwt",
     None |-> "none", TlsClientAuth |-> "tls-client-auth"]
client_auth_options ==
    <<"client-secret-basic", "client-secret-post", "client-secret-jwt",
      "private-key-jwt", "none", "tls-client-auth">>

client_tab_general(g) ==
    [text |-> [display_name |-> unwrap_or_default(g.display_name),
               auth_method |-> Select(auth_method_value[g.auth_method], client_auth_options),
               access_token_type |-> Select(g.access_token_type, <<"jwt", "opaque">>)],
     box |-> [enabled |-> g.enabled]]

\* A redirect URI is a record; only its uri is shown.
client_tab_uris(g) ==
    [text |-> [redirect_uris |-> [i \in DOMAIN g.redirect_uris |-> g.redirect_uris[i].uri],
               post_logout_redirect_uris |->
                  [i \in DOMAIN g.post_logout_redirect_uris |->
                     g.post_logout_redirect_uris[i].uri],
               web_origins |-> g.web_origins],
     box |-> NoBox]

client_tab_grants(g) == [text |-> NoText, box |-> g]

client_tab_scopes(g) ==
    [text |-> [default_scopes |-> join_comma(g.default_scopes),
               optional_scopes |-> join_comma(g.optional_scopes)], box |-> NoBox]

client_tab_flow_bindings(g) ==
    [text |-> [n \in DOMAIN g |-> unwrap_or_default(g[n])], box |-> NoBox]

client_tab_consent(g) ==
    [text |-> [consent_screen_text |-> unwrap_or_default(g.consent_screen_text)],
     box |-> [required |-> g.required,
              display_on_consent_screen |-> g.display_on_consent_screen]]

client_tab_tokens(g) ==
    [text |-> [access_token_lifespan |-> to_string(g.access_token_lifespan),
               refresh_token_lifespan |-> to_string(g.refresh_token_lifespan),
               access_token_signing_alg |-> unwrap_or_default(g.access_token_signing_alg),
               pairwise_sub_algorithm |-> unwrap_or_default(g.pairwise_sub_algorithm)],
     box |-> NoBox]

client_tab_logout(g) ==
    [text |-> [backchannel_logout_url |-> unwrap_or_default(g.backchannel_logout_url)],
     box |-> [front_channel_logout_enabled |-> g.front_channel_logout_enabled]]

RedirectUris(t) == LET u == lines(t)
                   IN [i \in DOMAIN u |-> [uri |-> u[i], wildcard_path |-> FALSE]]
Lifespan(s) == LET n == parse(s, 0) IN IF n > 0 THEN n ELSE None

\* A word with its comma is no ScopeName and is filtered out.
post_client_update(r, tab, f) ==
    CASE tab = "general" ->
           [r EXCEPT !.general =
              [@ EXCEPT !.display_name = opt_str(f.text.display_name),
                        !.enabled = f.box.enabled,
                        !.auth_method = Parsed(auth_method_value, "ClientSecretBasic",
                                               f.text.auth_method)]]
      [] tab = "uris" ->
           [r EXCEPT !.uris =
              [redirect_uris |-> RedirectUris(f.text.redirect_uris),
               post_logout_redirect_uris |-> RedirectUris(f.text.post_logout_redirect_uris),
               web_origins |-> lines(f.text.web_origins)]]
      [] tab = "grants" -> [r EXCEPT !.grants = f.box]
      [] tab = "scopes" ->
           [r EXCEPT !.scopes = [default_scopes |-> Words(f.text.default_scopes),
                                 optional_scopes |-> Words(f.text.optional_scopes)]]
      [] tab = "consent" ->
           [r EXCEPT !.consent =
              [consent_screen_text |-> opt_str(f.text.consent_screen_text),
               required |-> f.box.required,
               display_on_consent_screen |-> f.box.display_on_consent_screen]]
      [] tab = "tokens" ->
           [r EXCEPT !.tokens =
              [@ EXCEPT !.access_token_lifespan = Lifespan(f.text.access_token_lifespan),
                        !.refresh_token_lifespan = Lifespan(f.text.refresh_token_lifespan)]]
      [] tab = "logout" ->
           [r EXCEPT !.logout =
              [front_channel_logout_enabled |-> f.box.front_channel_logout_enabled,
               backchannel_logout_url |->
                  parse_optional_url(f.text.backchannel_logout_url)]]
      [] OTHER -> r

------------------------------------------------------------------------------
(* Users, from the realm's pages and from the signed-in administrator's    *)
(* own profile.  A password is hidden: no page shows it.                   *)

user_render_general(g) ==
    [text |-> [email |-> unwrap_or_default(g.email),
               first_name |-> unwrap_or_default(g.name.given),
               last_name |-> unwrap_or_default(g.name.family),
               required_actions |-> join_comma(g.required_actions),
               required_flow |-> unwrap_or_default(g.required_flow)],
     box |-> [email_verified |-> g.email_verified, enabled |-> g.enabled]]

profile_render_general(g) ==
    [text |-> [email |-> unwrap_or_default(g.email),
               first_name |-> unwrap_or_default(g.name.given),
               last_name |-> unwrap_or_default(g.name.family)],
     box |-> [email_verified |-> g.email_verified]]

user_render_credentials(g) ==
    [text |-> [password |-> ""], box |-> [temporary |-> FALSE]]
profile_render_password(g) ==
    [text |-> [current |-> "", new |-> "", confirm |-> ""], box |-> NoBox]

\* Mutant: empty inputs clear the name.
PersonNameOf_Always(f, old) ==
    [given |-> opt_str(f.text.first_name), family |-> opt_str(f.text.last_name),
     middle |-> None, display |-> None]

\* A name is replaced, never cleared: both inputs empty keep the old one.
PersonNameOf(f, old) ==
    IF f.text.first_name = "" /\ f.text.last_name = "" THEN old
    ELSE [given |-> opt_str(f.text.first_name), family |-> opt_str(f.text.last_name),
          middle |-> None, display |-> None]

\* The rules a password breaks.  The others (history, expiry, pwned, blacklist,
\* hashing) are no concern of validate.
validate(rules, m) ==
    {n \in {"length", "special", "upper", "lower", "digits"} :
        rules[n] # None /\ m.count[n] < rules[n]} \cup
    {n \in {"not_username", "not_email"} : rules[n] /\ n \in m.equals}
Weak == {t \in DOMAIN Measure : validate(Rules, Measure[t]) # {}}

\* Injective: verify compares the texts.
hash_password(p) == [phc |-> p]

post_user_update(r, tab, f) ==
    CASE tab = "general" ->
           [r EXCEPT !.general =
              [@ EXCEPT !.email = opt_str(f.text.email),
                        !.email_verified = f.box.email_verified,
                        !.enabled = f.box.enabled,
                        !.name = PersonNameOf(f, @)]]
      [] tab = "credentials" ->
           IF f.text.password \in {""} \cup Weak THEN Refused
           ELSE [r EXCEPT !.hidden.password = hash_password(f.text.password)]

post_profile_general(r, f) ==
    [r EXCEPT !.general = [@ EXCEPT !.email = opt_str(f.text.email),
                                    !.email_verified = f.box.email_verified,
                                    !.name = PersonNameOf(f, @)]]

post_profile_password(r, f) ==
    IF \/ hash_password(f.text.current) # r.hidden.password
       \/ f.text.new # f.text.confirm
       \/ f.text.new \in {""} \cup Weak
    THEN Refused
    ELSE [r EXCEPT !.hidden.password = hash_password(f.text.new)]

------------------------------------------------------------------------------
(* Organizations, agents, roles and groups.                                *)

org_render_general(g) ==
    [text |-> [display_name |-> g.display_name,
               description |-> unwrap_or_default(g.description),
               default_idp_alias |-> unwrap_or_default(g.default_idp_alias),
               redirect_url |-> unwrap_or_default(g.redirect_url)],
     box |-> [enabled |-> g.enabled]]

org_render_branding(g) ==
    [text |-> [n \in {"logo_url", "primary_color", "theme"} |-> unwrap_or_default(g[n])],
     box |-> NoBox]

\* Mutant: a check box that is not on the tab is read as not ticked.
post_org_update_AllBoxes(r, tab, f) ==
    CASE tab = "general" ->
           [r EXCEPT !.general =
              [@ EXCEPT !.display_name = f.text.display_name,
                        !.description = opt_str(f.text.description),
                        !.enabled = f.box.enabled]]
      [] tab = "branding" ->
           [r EXCEPT !.branding.logo_url = parse_optional_url(f.text.logo_url),
                     !.general.enabled = FALSE]

post_org_update(r, tab, f) ==
    CASE tab = "general" ->
           [r EXCEPT !.general =
              [@ EXCEPT !.display_name = f.text.display_name,
                        !.description = opt_str(f.text.description),
                        !.enabled = f.box.enabled]]
      [] tab = "branding" ->
           [r EXCEPT !.branding.logo_url = parse_optional_url(f.text.logo_url)]

\* A custom kind is shown by its own name, which is no option.
agent_render_general(g) ==
    [text |-> [display_name |-> g.display_name,
               kind |-> Select(g.kind, <<"assistant", "scraper", "webhook", "batch">>),
               model_hint |-> unwrap_or_default(g.model_hint),
               vendor |-> unwrap_or_default(g.vendor),
               version |-> unwrap_or_default(g.version),
               auth_method |-> Select(g.auth_method, <<"private-key-jwt", "dpop-bound-key",
                                                       "token-exchange-only">>),
               expires_at |-> unwrap_or_default(g.expires_at)],
     box |-> [enabled |-> g.enabled]]

agent_render_rate_limits(g) ==
    [text |-> [requests_per_minute |-> to_string(g.requests_per_minute),
               tokens_per_day |-> to_string(g.tokens_per_day)], box |-> NoBox]

\* A limit that does not parse, the empty text included, stays as it was.
post_agent_update(r, tab, f) ==
    CASE tab = "general" ->
           [r EXCEPT !.general =
              [@ EXCEPT !.display_name = f.text.display_name,
                        !.model_hint = opt_str(f.text.model_hint),
                        !.vendor = opt_str(f.text.vendor),
                        !.enabled = f.box.enabled]]
      [] tab = "rate_limits" ->
           [r EXCEPT !.rate_limits =
              [requests_per_minute |-> parse(f.text.requests_per_minute,
                                             @.requests_per_minute),
               tokens_per_day |-> parse(f.text.tokens_per_day, @.tokens_per_day)]]

role_render_general(g) ==
    [text |-> [description |-> unwrap_or_default(g.description)], box |-> NoBox]

post_role_update(r, f) == [r EXCEPT !.general.description = opt_str(f.text.description)]

group_render_general(g) == [text |-> [name |-> g.name], box |-> NoBox]
post_group_update(r, f) ==
    IF f.text.name = "" THEN r ELSE [r EXCEPT !.general.name = f.text.name]

------------------------------------------------------------------------------
(* Identity providers and LDAP sources.  Their secrets are hidden: the     *)
(* input starts empty, and empty keeps the stored one.                     *)

idp_render_general(g) ==
    [text |-> [display_name |-> g.display_name,
               first_login_flow_alias |-> g.first_login_flow_alias,
               post_login_flow_alias |-> unwrap_or_default(g.post_login_flow_alias),
               adapter_urn |-> unwrap_or_default(g.adapter_urn)],
     box |-> [enabled |-> g.enabled, link_only |-> g.link_only]]

OidcOptional == {"discovery_url", "authorization_endpoint", "token_endpoint",
                 "userinfo_endpoint", "jwks_uri", "prompt", "response_mode"}
client_auth_value == [Basic |-> "basic", Jwt |-> "jwt", None |-> "none"]

oidc_render_config(g) ==
    [text |-> [n \in OidcOptional |-> unwrap_or_default(g[n])] @@
              [issuer |-> g.issuer, client_id |-> g.client_id, client_secret |-> "",
               client_auth |-> Select(client_auth_value[g.client_auth],
                                      <<"basic", "jwt", "none">>),
               scopes |-> join_comma(g.scopes)],
     box |-> [pkce |-> g.pkce, accept_unsigned_userinfo |-> g.accept_unsigned_userinfo]]

saml_binding_value == [HttpRedirect |-> "redirect", HttpPost |-> "post",
                       Artifact |-> "artifact"]
saml_binding_options == <<"redirect", "post", "artifact">>
saml_nameid_value ==
    [Unspecified |-> "unspecified", EmailAddress |-> "email", Persistent |-> "persistent",
     Transient |-> "transient", X509SubjectName |-> "x509"]

\* A text as its pieces between three dashes: a PEM certificate has dashes of
\* its own, and the joined text has three more between two certificates.
Pem(body) == <<"", "--BEGIN CERTIFICATE", body, "--END CERTIFICATE", "--">>
join_dashes(certs) == FlattenSeq(certs)
split_dashes(t) == LET kept == SelectSeq(t, LAMBDA p : p # "")
                   IN [i \in DOMAIN kept |-> <<kept[i]>>]

saml_render_config(g) ==
    [text |-> [entity_id |-> g.entity_id, sso_url |-> g.sso_url,
               slo_url |-> unwrap_or_default(g.slo_url),
               signing_cert_pems |-> join_dashes(g.signing_cert_pems),
               binding_outbound |-> Select(saml_binding_value[g.binding_outbound],
                                           saml_binding_options),
               binding_inbound |-> Select(saml_binding_value[g.binding_inbound],
                                          saml_binding_options),
               name_id_format |-> Select(saml_nameid_value[g.name_id_format],
                                         <<"unspecified", "email", "persistent",
                                           "transient", "x509">>)],
     box |-> [want_assertions_signed |-> g.want_assertions_signed,
              want_responses_signed |-> g.want_responses_signed]]

\* config is "oidc" or "saml" as the row's own configuration is.
post_idp_update(r, tab, f, config) ==
    CASE tab = "general" ->
           [r EXCEPT !.general =
              [display_name |-> f.text.display_name,
               first_login_flow_alias |-> IF f.text.first_login_flow_alias = ""
                                          THEN @.first_login_flow_alias
                                          ELSE f.text.first_login_flow_alias,
               post_login_flow_alias |-> opt_str(f.text.post_login_flow_alias),
               adapter_urn |-> opt_str(f.text.adapter_urn),
               enabled |-> f.box.enabled, link_only |-> f.box.link_only]]
      [] tab = "config" /\ config = "oidc" ->
           [r EXCEPT
              !.config = [n \in OidcOptional |-> opt_str(f.text[n])] @@
                         [issuer |-> f.text.issuer, client_id |-> f.text.client_id,
                          client_auth |-> Parsed(client_auth_value, "Basic",
                                                 f.text.client_auth),
                          scopes |-> split_comma(f.text.scopes), pkce |-> f.box.pkce,
                          accept_unsigned_userinfo |-> f.box.accept_unsigned_userinfo],
              !.hidden.client_secret = IF f.text.client_secret = "" THEN @
                                       ELSE f.text.client_secret]
      [] tab = "config" /\ config = "saml" ->
           [r EXCEPT !.config =
              [entity_id |-> f.text.entity_id, sso_url |-> f.text.sso_url,
               slo_url |-> opt_str(f.text.slo_url),
               signing_cert_pems |-> split_dashes(f.text.signing_cert_pems),
               binding_outbound |-> Parsed(saml_binding_value, "HttpRedirect",
                                           f.text.binding_outbound),
               binding_inbound |-> Parsed(saml_binding_value, "HttpRedirect",
                                          f.text.binding_inbound),
               name_id_format |-> Parsed(saml_nameid_value, "Unspecified",
                                         f.text.name_id_format),
               want_assertions_signed |-> f.box.want_assertions_signed,
               want_responses_signed |-> f.box.want_responses_signed]]

tls_value == [None |-> "none", StartTls |-> "starttls", Ldaps |-> "ldaps"]
LdapNumber == [page_size |-> 500, pool_size |-> 8, bind_timeout_ms |-> 5000,
               search_timeout_ms |-> 10000]

ldap_render_connection(g) ==
    [text |-> [n \in DOMAIN LdapNumber |-> to_string(g[n])] @@
              [urls |-> g.urls, base_dn |-> g.base_dn,
               bind_dn |-> unwrap_or_default(g.bind_dn), bind_password |-> "",
               user_filter |-> g.user_filter,
               tls |-> Select(tls_value[g.tls], <<"none", "starttls", "ldaps">>)],
     box |-> [enabled |-> g.enabled]]

\* extras: lines k=v; a line is the pair, or the lone text if it has no "=".
ldap_render_mapping(g) ==
    [text |-> [n \in {"email", "first_name", "last_name"} |-> unwrap_or_default(g[n])] @@
              [username |-> g.username, uid |-> g.uid, extras |-> SetToSeq(g.extras)],
     box |-> NoBox]

ldap_render_sync(g) ==
    [text |-> [write_policy |-> Select(g.write_policy, <<"read-only", "writable">>),
               sync_policy_json |-> to_string_pretty(g.sync_policy)],
     box |-> [group_sync_enabled |-> g.group_sync # None]]

post_federation_update(r, tab, f) ==
    CASE tab = "connection" ->
           [r EXCEPT
              !.connection = [n \in DOMAIN LdapNumber |-> parse(f.text[n], LdapNumber[n])] @@
                             [urls |-> lines(f.text.urls), base_dn |-> f.text.base_dn,
                              bind_dn |-> opt_str(f.text.bind_dn),
                              user_filter |-> f.text.user_filter,
                              tls |-> Parsed(tls_value, "None", f.text.tls),
                              enabled |-> f.box.enabled],
              !.hidden.bind_password = IF f.text.bind_password = "" THEN @
                                       ELSE f.text.bind_password]
      [] tab = "mapping" ->
           [r EXCEPT !.mapping =
              [n \in {"email", "first_name", "last_name"} |-> opt_str(f.text[n])] @@
              [username |-> f.text.username, uid |-> f.text.uid,
               extras |-> {e \in ToSet(f.text.extras) : Len(e) = 2}]]
      [] tab = "sync" ->
           IF f.text.sync_policy_json.of = "" THEN
              [r EXCEPT !.sync.write_policy = f.text.write_policy]
           ELSE IF from_str(f.text.sync_policy_json) = Refused THEN Refused
           ELSE [r EXCEPT !.sync.write_policy = f.text.write_policy,
                          !.sync.sync_policy = from_str(f.text.sync_policy_json)]
==============================================================================
