---------------------------- MODULE AdminConsole ----------------------------
(***************************************************************************)
(* Administrators working on one row through the console's forms.  A page  *)
(* is rendered from a read of the row and may be old when it is posted.    *)
(* The POST handler reads the row again, sets the fields of its own tab    *)
(* and writes the whole row back: the read and the write are two storage   *)
(* calls with an await between them, and other handlers run in it.         *)
(***************************************************************************)
EXTENDS AdminCreate, FiniteSets

CONSTANTS
    Operator,   \* administrators
    Kind,       \* what is edited: a subset of DOMAIN Tabs
    Sample,     \* a function from kinds to the rows they may start as
    Typed,      \* what may be typed into an input, by the input's name
    Idle, Gone, \* no page or save; a row, or a page, that is no longer there
    Absent      \* a row that was not made yet

VARIABLES
    kind,
    row,        \* the stored row; Absent before it is made, Gone when it has been deleted
    page,       \* the form each operator has open
    task,       \* the save each operator has in flight: its row is about to be written
    left,       \* what the posts made so far, and the first row, leave each tab showing
    last,       \* the form that was last saved, or created, in each tab
    stale       \* some write was computed from a row that was no longer the stored one

vars == <<kind, row, page, task, left, last, stale>>

Tabs ==
    [realm |-> {"general", "login", "sessions", "tokens", "password", "brute", "otp",
                "webauthn", "themes", "localization", "events", "acr", "org_policy"},
     client |-> {"general", "uris", "grants", "scopes", "flow_bindings", "consent",
                 "tokens", "logout"},
     user |-> {"general", "credentials", "profile", "profile_password"},
     org |-> {"general", "branding"},
     agent |-> {"general", "rate_limits"},
     role |-> {"general"},
     group |-> {"general"},
     oidc |-> {"general", "config"},
     saml |-> {"general", "config"},
     ldap |-> {"connection", "mapping", "sync"}]

------------------------------------------------------------------------------
(* Which operator renders a tab, and which handler takes its post.         *)

RealmSettingsPage(tab, r) ==
    CASE tab = "general" -> realm_tab_general(r.general)
      [] tab = "login" -> realm_tab_login(r.login)
      [] tab = "sessions" -> realm_tab_sessions(r.sessions)
      [] tab = "tokens" -> realm_tab_tokens(r.tokens)
      [] tab = "password" -> realm_tab_password(r.password)
      [] tab = "brute" -> realm_tab_brute(r.brute)
      [] tab = "otp" -> realm_tab_otp(r.otp)
      [] tab = "webauthn" -> realm_tab_webauthn(r.webauthn)
      [] tab = "themes" -> realm_tab_themes(r.themes)
      [] tab = "localization" -> realm_tab_localization(r.localization)
      [] tab = "events" -> realm_tab_events(r.events)
      [] tab = "acr" -> realm_tab_acr(r.acr)
      [] tab = "org_policy" -> realm_tab_org_policy(r.org_policy)

ClientDetailPage(tab, r) ==
    CASE tab = "general" -> client_tab_general(r.general)
      [] tab = "uris" -> client_tab_uris(r.uris)
      [] tab = "grants" -> client_tab_grants(r.grants)
      [] tab = "scopes" -> client_tab_scopes(r.scopes)
      [] tab = "flow_bindings" -> client_tab_flow_bindings(r.flow_bindings)
      [] tab = "consent" -> client_tab_consent(r.consent)
      [] tab = "tokens" -> client_tab_tokens(r.tokens)
      [] tab = "logout" -> client_tab_logout(r.logout)

UserDetailPage(tab, r) ==
    CASE tab = "general" -> user_render_general(r.general)
      [] tab = "credentials" -> user_render_credentials(r.general)
      [] tab = "profile" -> profile_render_general(r.general)
      [] tab = "profile_password" -> profile_render_password(r.general)

OrgDetailPage(tab, r) ==
    IF tab = "general" THEN org_render_general(r.general) ELSE org_render_branding(r.branding)
AgentDetailPage(tab, r) ==
    IF tab = "general" THEN agent_render_general(r.general)
    ELSE agent_render_rate_limits(r.rate_limits)
RoleDetailPage(tab, r) == role_render_general(r.general)
GroupDetailPage(tab, r) == group_render_general(r.general)
IdpDetailPage(tab, r, config) ==
    IF tab = "general" THEN idp_render_general(r.general)
    ELSE IF config = "oidc" THEN oidc_render_config(r.config)
    ELSE saml_render_config(r.config)
LdapDetailPage(tab, r) ==
    CASE tab = "connection" -> ldap_render_connection(r.connection)
      [] tab = "mapping" -> ldap_render_mapping(r.mapping)
      [] tab = "sync" -> ldap_render_sync(r.sync)

Render(k, tab, r) ==
    CASE k = "realm" -> RealmSettingsPage(tab, r)
      [] k = "client" -> ClientDetailPage(tab, r)
      [] k = "user" -> UserDetailPage(tab, r)
      [] k = "org" -> OrgDetailPage(tab, r)
      [] k = "agent" -> AgentDetailPage(tab, r)
      [] k = "role" -> RoleDetailPage(tab, r)
      [] k = "group" -> GroupDetailPage(tab, r)
      [] k = "oidc" -> IdpDetailPage(tab, r, "oidc")
      [] k = "saml" -> IdpDetailPage(tab, r, "saml")
      [] k = "ldap" -> LdapDetailPage(tab, r)

Handled(k, tab, r, f) ==
    CASE k = "realm" -> post_realm_settings(r, tab, f)
      [] k = "client" -> post_client_update(r, tab, f)
      [] k = "user" /\ tab = "profile" -> post_profile_general(r, f)
      [] k = "user" /\ tab = "profile_password" -> post_profile_password(r, f)
      [] k = "user" -> post_user_update(r, tab, f)
      [] k = "org" -> post_org_update(r, tab, f)
      [] k = "agent" -> post_agent_update(r, tab, f)
      [] k = "role" -> post_role_update(r, f)
      [] k = "group" -> post_group_update(r, f)
      [] k = "oidc" -> post_idp_update(r, tab, f, "oidc")
      [] k = "saml" -> post_idp_update(r, tab, f, "saml")
      [] k = "ldap" -> post_federation_update(r, tab, f)

------------------------------------------------------------------------------
\* There is no page that creates an LDAP source.
Init ==
    /\ kind \in Kind
    /\ row \in Sample[kind] \cup (IF kind = "ldap" THEN {} ELSE {Absent})
    /\ page = [o \in Operator |-> Idle]
    /\ task = [o \in Operator |-> Idle]
    /\ left = [t \in Tabs[kind] |-> IF row = Absent THEN {} ELSE {Render(kind, t, row)}]
    /\ last = [t \in Tabs[kind] |-> None]
    /\ stale = FALSE

Exists == row \notin {Absent, Gone}

Typeable(n) == IF n \in DOMAIN Typed THEN Typed[n] ELSE {"", "x"}
Edited(f) ==
    {[f EXCEPT !.text[n] = v] : <<n, v>> \in UNION {{n} \X Typeable(n) : n \in DOMAIN f.text}}
    \cup {[f EXCEPT !.box[n] = ~@] : n \in DOMAIN f.box}

\* The bound on typing: one input is changed before a post, and the three
\* passwords of a password form.
Filled(f) ==
    IF "confirm" \in DOMAIN f.text
    THEN {[f EXCEPT !.text = g] : g \in [DOMAIN f.text -> {"", "old", "x", "y", "weak"}]}
    ELSE {f} \cup Edited(f)

\* The page is rendered and filled in; typing concerns nobody else.
Open(o) ==
    /\ page[o] = Idle /\ task[o] = Idle /\ Exists
    /\ \E t \in Tabs[kind] : \E f \in Filled(Render(kind, t, row)) :
         page' = [page EXCEPT ![o] = [tab |-> t, form |-> f]]
    /\ UNCHANGED <<kind, row, task, left, last, stale>>

\* The two general tabs of a user show the same fields.
Sharing(t) == IF kind = "user" /\ t \in {"general", "profile"} THEN {"general", "profile"}
              ELSE IF t = "disable" THEN {"general"} ELSE {t}

Prepare(o, t, form, touched, new) ==
    /\ task' = [task EXCEPT ![o] = [tab |-> t, form |-> form, touched |-> touched,
                                    read |-> row, new |-> new]]
    /\ left' = [u \in Tabs[kind] |->
                  IF u \in Sharing(t) THEN left[u] \cup {Render(kind, u, new)} ELSE left[u]]

\* A create page posted with its required inputs typed.  The row is made by one
\* storage call, which refuses a second one; a user's password is stored by a
\* call of its own.
Completed(f) ==
    [f EXCEPT !.text = [n \in DOMAIN @ |-> IF n \in Required /\ @[n] = "" THEN "x" ELSE @[n]]]
Create(o) ==
    /\ row = Absent /\ page[o] = Idle /\ task[o] = Idle
    /\ \E f \in {Completed(CreatePage(kind))} \cup Edited(Completed(CreatePage(kind))) :
         LET new == Created(kind, f)
             secured == IF kind = "user" THEN post_user_create_password(new, f) ELSE Refused
         IN /\ kind \in {"oidc", "saml"} => f.text.kind = kind
            /\ new # Refused
            /\ row' = new
            /\ left' = [t \in Tabs[kind] |-> {Render(kind, t, new)}]
            /\ last' = [last EXCEPT !["general"] = f]
            /\ task' = IF secured = Refused THEN task
                       ELSE [task EXCEPT ![o] = [tab |-> "credentials", form |-> f,
                                                 touched |-> TRUE, read |-> new,
                                                 new |-> secured]]
    /\ page' = [page EXCEPT ![o] = Gone]
    /\ UNCHANGED <<kind, stale>>

\* The handler up to its write: not found, refused, or about to write.
Post(o) ==
    /\ page[o] # Idle /\ page[o] # Gone /\ task[o] = Idle
    /\ page' = [page EXCEPT ![o] = Gone]
    /\ LET p == page[o]
           new == Handled(kind, p.tab, row, p.form)
       IN IF row = Gone \/ new = Refused THEN UNCHANGED <<task, left>>
          ELSE Prepare(o, p.tab, p.form, p.form # Render(kind, p.tab, row), new)
    /\ UNCHANGED <<kind, row, last, stale>>

Disable(o) ==
    /\ kind = "realm" /\ page[o] = Idle /\ task[o] = Idle /\ Exists
    /\ page' = [page EXCEPT ![o] = Gone]
    /\ Prepare(o, "disable", Idle, TRUE, post_realm_disable(row))
    /\ UNCHANGED <<kind, row, last, stale>>

\* The storage call: a password is stored beside the row, an identity provider
\* is saved with create_idp, an LDAP source with an upsert, the rest updated.
Stored(t) ==
    CASE t.tab \in {"credentials", "profile_password"} ->
           IF row = Gone THEN Gone ELSE [row EXCEPT !.hidden.password = t.new.hidden.password]
      [] kind \in {"oidc", "saml"} -> IF row = Gone THEN t.new ELSE row
      [] kind = "ldap" -> t.new
      [] OTHER -> IF row = Gone THEN Gone ELSE t.new

\* Whether the storage call succeeds.
Lands(t) == IF kind \in {"oidc", "saml"} THEN row = Gone ELSE row # Gone

Write(o) ==
    /\ task[o] # Idle
    /\ row' = Stored(task[o])
    /\ last' = [t \in Tabs[kind] |->
                  IF ~Lands(task[o]) THEN last[t]
                  ELSE IF t = task[o].tab THEN task[o].form
                  ELSE IF t \in Sharing(task[o].tab) THEN None
                  ELSE last[t]]
    /\ stale' = (stale \/ row # task[o].read)
    /\ task' = [task EXCEPT ![o] = Idle]
    /\ UNCHANGED <<kind, page, left>>

\* The row is deleted by the console's own button or through the API; nothing
\* deletes an LDAP source.
Delete ==
    /\ Exists /\ kind # "ldap"
    /\ row' = Gone
    /\ UNCHANGED <<kind, page, task, left, last, stale>>

Next ==
    \/ \E o \in Operator : Create(o) \/ Open(o) \/ Post(o) \/ Disable(o) \/ Write(o)
    \/ Delete

Spec == Init /\ [][Next]_vars

------------------------------------------------------------------------------
TypeOK ==
    /\ kind \in Kind
    /\ DOMAIN page = Operator /\ DOMAIN task = Operator
    /\ DOMAIN left = Tabs[kind] /\ DOMAIN last = Tabs[kind]
    /\ stale \in BOOLEAN

\* Two saves that overlap may lose one of the two, but never mix them: what a tab
\* shows is what one post to that tab, or the first row, leaves in it.
TabsWhole == Exists => \A t \in Tabs[kind] : Render(kind, t, row) \in left[t]

\* Inputs that are shown and posted and that no handler reads.
Ignored(k, t) ==
    CASE k = "realm" /\ t \notin {"general", "password", "acr"} ->
           LET f == Render(k, t, row) IN DOMAIN f.text \cup DOMAIN f.box
      [] k = "client" /\ t = "general" -> {"access_token_type"}
      [] k = "client" /\ t = "flow_bindings" ->
           {"browser", "direct_grant", "registration", "reset_credentials",
            "client_authentication"}
      [] k = "client" /\ t = "tokens" -> {"access_token_signing_alg", "pairwise_sub_algorithm"}
      [] k = "user" /\ t = "general" -> {"required_actions", "required_flow"}
      [] k = "user" /\ t = "credentials" -> {"temporary"}
      [] k = "org" /\ t = "general" -> {"default_idp_alias", "redirect_url"}
      [] k = "org" /\ t = "branding" -> {"primary_color", "theme"}
      [] k = "agent" /\ t = "general" -> {"kind", "version", "auth_method", "expires_at"}
      [] k = "ldap" /\ t = "sync" -> {"group_sync_enabled"}
      [] OTHER -> {}

Secret == {"client_secret", "bind_password", "password", "current", "new", "confirm"}
UrlInput == {"frontend_url", "admin_frontend_url", "backchannel_logout_url", "logo_url"}
ListInput == {"redirect_uris", "post_logout_redirect_uris", "web_origins", "urls"}
ScopeInput == {"default_scopes", "optional_scopes"}
NumberInput == DOMAIN RuleDefault \cup DOMAIN LdapNumber \cup
               {"hash_iterations", "access_token_lifespan", "refresh_token_lifespan",
                "requests_per_minute", "tokens_per_day"}

\* Texts that are stored otherwise than typed: secrets, which are never shown
\* again; urls that are normalised or do not parse; empty lines; several scopes,
\* which are shown with commas and read without; numbers that do not parse, and
\* those of a rule that is off; a name, a flow alias or a policy left empty,
\* which keeps the old one.
Reinterpreted(t, n, f) ==
    \/ n \in Secret
    \/ n \in UrlInput /\ f.text[n] \in {"https://h", "no url"}
    \/ n \in ListInput /\ lines(f.text[n]) # f.text[n]
    \/ n = "extras" /\ \E i \in DOMAIN f.text[n] : Len(f.text[n][i]) # 2
    \/ kind = "client" /\ n \in ScopeInput /\ Len(f.text[n]) > 1
    \/ n \in NumberInput /\ parse(f.text[n], 0) = 0
    \/ n \in DOMAIN RuleDefault /\ ~f.box[n]
    \/ n = "blacklist" /\ (f.text[n] = "" \/ ~f.box[n])
    \/ n \in {"first_name", "last_name"} /\ t # "mapping"
       /\ f.text.first_name = "" /\ f.text.last_name = ""
    \/ n \in {"first_login_flow_alias", "name"} /\ f.text[n] = ""
    \/ n = "sync_policy_json" /\ f.text[n].of = ""

\* While no save overlapped another, a tab that is opened again shows every
\* input and every check box as it was last saved there, or typed when the row was
\* created, but for the inputs no handler reads and the texts that are stored
\* otherwise than typed.
Reopens ==
    (~stale /\ Exists) =>
       \A t \in {u \in Tabs[kind] : last[u] # None} :
          LET shown == Render(kind, t, row)
          IN /\ \A n \in (DOMAIN shown.text \cap DOMAIN last[t].text) \ Ignored(kind, t) :
                  Reinterpreted(t, n, last[t]) \/ shown.text[n] = last[t].text[n]
             /\ \A n \in (DOMAIN shown.box \cap DOMAIN last[t].box) \ Ignored(kind, t) :
                  \/ n = "blacklist" /\ Reinterpreted(t, n, last[t])
                  \/ shown.box[n] = last[t].box[n]

\* The rows an untouched form does change: hash rules it adds, a wildcard flag
\* and parts of a name it does not show, an empty text that creating the row
\* left, scopes behind a comma, certificates.
Rewrites(k, t, r) ==
    \/ k = "realm" /\ t = "password" /\ None \in {r.password.hash_alg,
                                                  r.password.hash_iterations}
    \/ k = "client" /\ t = "uris"
       /\ \E i \in DOMAIN r.uris.redirect_uris : r.uris.redirect_uris[i].wildcard_path
    \/ k = "client" /\ t = "scopes"
       /\ \E n \in ScopeInput : Len(r.scopes[n]) > 1
    \/ k = "user" /\ t \in {"general", "profile"}
       /\ {r.general.name.middle, r.general.name.display} # {None}
       /\ {r.general.name.given, r.general.name.family} # {None}
    \/ k = "client" /\ t = "general" /\ r.general.display_name = ""
    \/ k = "user" /\ t \in {"general", "profile"}
       /\ "" \in {r.general.name.given, r.general.name.family}
       /\ {r.general.name.given, r.general.name.family} # {""}
    \/ k = "saml" /\ t = "config"

\* What administrators read back: no mix of two saves, and what was saved.
ShownAsSaved == TabsWhole /\ Reopens

\* Posting a tab as it is shown at that moment leaves the whole row as it was,
\* the fields no input shows included, when no other save came in between.  And a
\* save in flight when its row is deleted does not bring the row back, except for
\* an identity provider, which is saved with create_idp.
UntouchedKeeps ==
    [][/\ \A o \in Operator :
            (/\ task[o] # Idle /\ task'[o] = Idle
             /\ ~task[o].touched /\ ~stale' /\ ~Rewrites(kind, task[o].tab, row))
               => row' = row
       /\ row = Gone => row' = Gone \/ kind \in {"oidc", "saml"}]_vars
==============================================================================
