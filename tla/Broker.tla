------------------------------- MODULE Broker -------------------------------
(***************************************************************************)
(* Identity brokering: the redirect to an upstream identity provider with   *)
(* its BrokerAuthnState row, the OIDC callback, the SAML ACS, the link      *)
(* between the upstream account and a local user.                           *)
(* Callbacks interleave at their awaits; the same callback may arrive more  *)
(* than once, late, or at a provider that was disabled meanwhile.           *)
(***************************************************************************)
EXTENDS Naturals, Sequences

CONSTANTS Realm, Alias, Task, None, Idle,
          Cfg,        \* <<realm, alias>> -> the IdentityProvider row
          Reply,      \* the token responses that an upstream may give
          Document,   \* the SAML responses that an upstream may post
          MaxState,   \* bound: BrokerAuthnState rows ever created
          MaxUser,    \* bound: placeholder user ids in use at once
          MaxNow      \* bound on the clock, in lifetimes of a state row

VARIABLES
    enabled,    \* the providers that are enabled
    discovery,  \* DiscoveryCache: alias -> issuer of the cached document
    row,        \* the BrokerAuthnState rows
    created,    \* how many were created; a row's state value is its number
    sentTo,     \* the authorization requests that left, with their issuer
    spent,      \* history: how many callbacks consumed each state value
    link,       \* BrokerLink rows: key -> user
    overlapped, \* history: the keys whose first logins overlapped
    task, now

vars == <<enabled, discovery, row, created, sentTo, spent, link, overlapped, task, now>>

Provider == DOMAIN Cfg
Set(t, new) == task' = [task EXCEPT ![t] = new]
At(t, op) == task[t] # Idle /\ task[t].op = op
StateValue == 1..MaxState

----------------------------------------------------------------------------
(***************************************************************************)
(* The redirect                                                            *)
(***************************************************************************)
fetch_discovery(cfg) == IF cfg.published = cfg.issuer THEN cfg.issuer ELSE None

\* DiscoveryCache::discovery: one entry per alias, whichever realm asked first.
Discovered(p) == IF discovery[p[2]] # None THEN discovery[p[2]] ELSE fetch_discovery(Cfg[p])

extra_authorization_params(cfg) ==
    CASE cfg.adapter \in {"google", "microsoft"} -> <<<<"prompt", "select_account">>>>
      [] cfg.adapter = "apple" -> <<<<"response_mode", "form_post">>, <<"scope", <<"openid", "email", "name">>>>>>
      [] OTHER -> <<>>

\* The query is a list: what the configuration adds follows the adapter's.
authorization_url(cfg, state) ==
    <<<<"scope", cfg.scope>>, <<"state", state>>, <<"nonce", state>>>>
        \o (IF cfg.pkce THEN <<<<"code_challenge", state>>>> ELSE <<>>)
        \o extra_authorization_params(cfg)
        \o (IF cfg.prompt = None THEN <<>> ELSE <<<<"prompt", cfg.prompt>>>>)

NewState(p, n) ==
    [realm |-> p[1], alias |-> p[2], state |-> n, nonce |-> n, expires |-> now + 1,
     verifier |-> IF Cfg[p].kind = "oidc" /\ Cfg[p].pkce THEN n ELSE None]

\* broker_login: the row is saved before the request is built, and stays
\* when the Artifact binding then fails.
broker_login(p) ==
    /\ p \in enabled /\ created + 1 \in StateValue
    /\ LET cfg == Cfg[p]
           issuer == Discovered(p)
       IN  /\ cfg.kind = "oidc" => issuer # None
           /\ discovery' = IF cfg.kind = "oidc" THEN [discovery EXCEPT ![p[2]] = issuer] ELSE discovery
           /\ created' = created + 1
           /\ row' = row \cup {NewState(p, created')}
           /\ sentTo' =
                CASE cfg.kind = "oidc" ->
                       sentTo \cup {[to |-> issuer, query |-> authorization_url(cfg, created')]}
                  [] cfg.kind = "saml" /\ cfg.binding # "artifact" ->
                       sentTo \cup {[to |-> cfg.issuer, query |-> <<<<"RelayState", created'>>>>]}
                  [] OTHER -> sentTo
    /\ UNCHANGED <<enabled, spent, link, overlapped, task, now>>

----------------------------------------------------------------------------
(***************************************************************************)
(* The OIDC callback.  exchange_and_verify asks fake_realm_for, which only   *)
(* ever fails, before it redeems the code.                                  *)
(***************************************************************************)
audience_matches(aud, expected) == expected \in aud
jwk_to_public(k) == <<k.kty, k.alg>> \in {<<"RSA", "RS256">>, <<"EC", "ES256">>, <<"OKP", "EdDSA">>}
verify_jwt(tok, k) == tok.alg = k.alg /\ tok.signed_by = k.secret
verify_id_token(tok, cfg, nonce) ==
    /\ tok.alg \in {"RS256", "ES256", "EdDSA"}
    /\ \E k \in cfg.jwks : k.kid = tok.kid /\ jwk_to_public(k) /\ verify_jwt(tok, k)
    /\ tok.iss = cfg.issuer /\ audience_matches(tok.aud, cfg.client_id)
    /\ tok.fresh
    /\ nonce # None => tok.nonce = nonce

assertion_from_claims(tok) == [external |-> tok.sub, claims |-> tok.claims]
enrich_assertion(a, tok, cfg) ==
    [a EXCEPT !.claims = @ \cup
        CASE cfg.adapter = "microsoft" -> tok.extra \cap {"tid", "oid"}
          [] cfg.adapter = "apple" /\ tok.relayed_email -> {"email_relay"}
          [] OTHER -> {}]

\* What the userinfo endpoint of the upstream adds, None when it does not answer.
userinfo_override(reply, cfg) == IF cfg.adapter = "github" THEN reply.userinfo ELSE {}

fake_realm_for(alias) == None
exchange_and_verify(p, st, reply) ==
    IF Discovered(p) = None \/ fake_realm_for(p[2]) = None \/ reply.id_token = None THEN None
    ELSE IF ~verify_id_token(reply.id_token, Cfg[p], st.nonce) THEN None
    ELSE LET a == enrich_assertion(assertion_from_claims(reply.id_token), reply.id_token, Cfg[p])
             extra == userinfo_override(reply, Cfg[p])
         IN  IF extra = None THEN None ELSE [a EXCEPT !.claims = @ \cup extra]

\* Mutant: the row is read, not deleted.
consume_broker_state_Keep(s) == UNCHANGED row /\ spent' = [spent EXCEPT ![s.state] = @ + 1]

consume_broker_state(s) == row' = row \ {s} /\ spent' = [spent EXCEPT ![s.state] = @ + 1]

is_expired(s) == now > s.expires

FindLink(p, a) == [op |-> "find_link", key |-> <<p[1], p[2], a.external>>, login |-> None, found |-> None]

\* A callback without a code is a reply of None.  The row is gone whatever becomes of the exchange.
broker_endpoint_get(t, p, s, reply) ==
    /\ task[t] = Idle /\ Cfg[p].kind = "oidc" /\ s \in row /\ s.realm = p[1]
    /\ consume_broker_state(s)
    /\ LET a == exchange_and_verify(p, s, reply)
       IN  IF is_expired(s) \/ reply = None THEN UNCHANGED <<task, discovery>>
           ELSE /\ discovery' = [discovery EXCEPT ![p[2]] = Discovered(p)]
                /\ IF a = None THEN UNCHANGED task ELSE Set(t, FindLink(p, a))
    /\ UNCHANGED <<enabled, created, sentTo, link, overlapped, now>>

----------------------------------------------------------------------------
(***************************************************************************)
(* The SAML ACS.  The status is read from the text of the StatusCode        *)
(* element; its Value attribute is not looked at.                           *)
(***************************************************************************)
parse_response(d) == [d EXCEPT !.status = IF d.status.text = None THEN "" ELSE d.status.text]

verify_response_signature(r, cfg) ==
    /\ r.signature # None
    /\ r.signature.alg = "rsa-sha256" /\ r.signature.reference # None
    /\ r.signature.intact /\ r.signature.key \in cfg.certs

assertion_to_broker(r, realm) ==
    IF r.status = "Success" /\ realm \in r.audiences /\ r.window = "open"
    THEN [external |-> r.name_id, claims |-> {n \in DOMAIN r.attributes : r.attributes[n] # <<>>}]
    ELSE None

broker_endpoint_post(t, p, s, d) ==
    /\ task[t] = Idle /\ Cfg[p].kind = "saml"
    /\ LET r == parse_response(d)
           a == assertion_to_broker(r, p[1])
       IN  /\ Cfg[p].want_signed => verify_response_signature(r, Cfg[p])
           /\ s \in row /\ s.realm = p[1]
           /\ consume_broker_state(s)
           /\ IF a = None THEN UNCHANGED task
              ELSE Set(t, FindLink(p, a))
    /\ UNCHANGED <<enabled, discovery, created, sentTo, link, overlapped, now>>

----------------------------------------------------------------------------
(***************************************************************************)
(* persist_or_link: find, then upsert what was found with a new             *)
(* last_login_at, or a link to a placeholder user.                          *)
(***************************************************************************)
Fresh == CHOOSE n \in 1..MaxUser :
           n \notin {link[k] : k \in DOMAIN link} \cup {task[t].found : t \in {t \in Task : task[t] # Idle}}

\* A callback that found no link of account k and has not written its own yet.
FirstLogin(t, k) == At(t, "upsert_link") /\ task[t].key = k /\ task[t].login = "first"

find_broker_link(t) ==
    /\ At(t, "find_link")
    /\ LET k == task[t].key
           known == k \in DOMAIN link
       IN  /\ Set(t, [op |-> "upsert_link", key |-> k, login |-> IF known THEN "again" ELSE "first",
                      found |-> IF known THEN link[k] ELSE Fresh])
           /\ overlapped' = IF ~known /\ \E u \in Task : FirstLogin(u, k)
                            THEN overlapped \cup {k} ELSE overlapped
    /\ UNCHANGED <<enabled, discovery, row, created, sentTo, spent, link, now>>

\* Mutant: every login writes a link of its own.
upsert_broker_link_New(t) ==
    /\ At(t, "upsert_link")
    /\ link' = [k \in DOMAIN link \cup {task[t].key} |-> IF k = task[t].key THEN Fresh ELSE link[k]]
    /\ Set(t, Idle)
    /\ UNCHANGED <<enabled, discovery, row, created, sentTo, spent, overlapped, now>>

upsert_broker_link(t) ==
    /\ At(t, "upsert_link")
    /\ link' = [k \in DOMAIN link \cup {task[t].key} |->
                  IF k = task[t].key THEN task[t].found ELSE link[k]]
    /\ Set(t, Idle)
    /\ UNCHANGED <<enabled, discovery, row, created, sentTo, spent, overlapped, now>>

\* The connection of a callback goes away and its handler with it.
Dropped(t) ==
    /\ task[t] # Idle /\ Set(t, Idle)
    /\ UNCHANGED <<enabled, discovery, row, created, sentTo, spent, link, overlapped, now>>

Disable(p) ==
    /\ p \in enabled /\ enabled' = enabled \ {p}
    /\ UNCHANGED <<discovery, row, created, sentTo, spent, link, overlapped, task, now>>

\* A lifetime passes; the discovery document (DISCOVERY_TTL) goes with it.
Tick ==
    /\ now < MaxNow /\ now' = now + 1
    /\ discovery' = [a \in Alias |-> None]
    /\ UNCHANGED <<enabled, row, created, sentTo, spent, link, overlapped, task>>

----------------------------------------------------------------------------
Init ==
    /\ enabled = Provider /\ discovery = [a \in Alias |-> None]
    /\ row = {} /\ created = 0 /\ sentTo = {} /\ spent = [n \in StateValue |-> 0]
    /\ link = <<>> /\ overlapped = {} /\ task = [t \in Task |-> Idle] /\ now = 0

Next ==
    \/ Tick
    \/ \E p \in Provider : broker_login(p) \/ Disable(p)
    \/ \E t \in Task :
        \/ find_broker_link(t) \/ upsert_broker_link(t) \/ Dropped(t)
        \/ \E p \in Provider, s \in row :
            \/ \E reply \in Reply : broker_endpoint_get(t, p, s, reply)
            \/ \E d \in Document : broker_endpoint_post(t, p, s, d)

Spec == Init /\ [][Next]_vars

----------------------------------------------------------------------------
TypeOK ==
    /\ enabled \subseteq Provider /\ created \in 0..MaxState
    /\ DOMAIN link \subseteq Realm \X Alias \X {d.name_id : d \in Document}
    /\ \A s \in row : s.state \in 1..created /\ s.alias \in Alias

\* Where a state value is in its life; "spent_again" is no phase of SingleUse.
StatePhase(n) ==
    IF n > created THEN "unissued"
    ELSE IF spent[n] > 0 THEN IF spent[n] = 1 THEN "honoured" ELSE "spent_again"
    ELSE IF \E s \in row : s.state = n THEN "live"
    ELSE "void"

statePhases == [n \in StateValue |-> StatePhase(n)]
States == INSTANCE SingleUse WITH Ticket <- StateValue, phase <- statePhases

\* The broker's state implements SingleUse: of all the callbacks that present
\* it, at the same time, twice or late, one at most gets past
\* consume_broker_state.
StatesSingleUse == States!Spec

\* "captures the link so subsequent logins resolve in a single round-trip"
\* (persist_or_link): a link is never lost, and although every login writes it
\* back from a copy, its user changes only when first logins of the account
\* overlapped.
LinkWrite ==
    \A k \in DOMAIN link :
        /\ k \in DOMAIN link'
        /\ k \notin overlapped => link'[k] = link[k]
LinkKept == [][LinkWrite]_vars
=============================================================================
