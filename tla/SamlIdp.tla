------------------------------ MODULE SamlIdp ------------------------------
(***************************************************************************)
(* The SAML identity provider and the two logout surfaces: SP-initiated     *)
(* and IdP-initiated sign-on, persistent NameIDs, single logout with its    *)
(* fan-out, and OIDC logout.  Handlers interleave at their awaits and can   *)
(* be dropped at any of them; what a handler sends leaves when it returns.  *)
(*                                                                         *)
(* A document is a record of the elements and attributes that the parsers   *)
(* read.  The login flow itself is LoginSession's: here it is the step that *)
(* creates the session.                                                     *)
(***************************************************************************)
EXTENDS Naturals, FiniteSets, Sequences, Functions

CONSTANTS User, Task, None, Idle, Gone,
          Client,     \* client_id of each client of the realm
          Config,     \* its saml_sp_config, None for an OIDC client
          Profile,    \* the attributes of each user
          Documents,  \* the AuthnRequests that service providers send
          Backchannel,\* the clients with a backchannel_logout_url
          MaxSession, \* bound: sessions, and flow states, ever created
          MaxBrowser, \* bound: browsers with a geonosis_sid
          MaxName,    \* bound: NameIDs in use at once
          MaxSent     \* bound: Responses sent and sign-ons in flight

VARIABLES
    flow,      \* flow states with a SAML continuation
    flows,     \* how many were created
    session,   \* the session rows
    cookie,    \* the sessions whose id a browser holds in geonosis_sid
    names,     \* saml_persistent_id rows
    task,      \* the handlers in flight
    sent,      \* the Responses that reached a service provider
    notices,   \* LogoutRequests and logout tokens sent to others
    over       \* history: the sessions a logout has answered for

vars == <<flow, flows, session, cookie, names, task, sent, notices, over>>

Sid == 1..MaxSession
Free == {s \in Sid : session[s] = None}
Live(s) == session[s] \notin {None, Gone}
Saml(c) == c \in Client /\ Config[c] # None
Persistent(c) == Config[c].format \in {"persistent", "x509"}
MaySignOn == Cardinality(sent) + Cardinality({t \in Task : task[t] # Idle}) < MaxSent
Set(t, new) == task' = [task EXCEPT ![t] = new]
At(t, op) == task[t] # Idle /\ task[t].op = op

----------------------------------------------------------------------------
(***************************************************************************)
(* Parsing and signatures.  A Redirect payload is inflated up to a cap; its *)
(* signature is in the query, that of a POST document inside the XML.       *)
(***************************************************************************)
decode_redirect_payload(d) == ~d.oversize
start_authn_request(d) == d.id # None /\ d.instant # None
parse_authn_request(d) == d.root = "AuthnRequest" /\ start_authn_request(d) /\ d.issuer # None

verify_redirect_signature(certs, sig) == sig.alg = "rsa-sha256" /\ sig.key \in certs
verify_inbound_redirect_signature(d) ==
    /\ parse_authn_request(d) /\ Saml(d.issuer)
    /\ Config[d.issuer].certs # {} => verify_redirect_signature(Config[d.issuer].certs, d.query)

extract_signature_pieces(d) == d.inner
verify_post_authn_request_signature(d, certs) ==
    LET sig == extract_signature_pieces(d)
    IN  CASE sig = None -> "NoSignature"
          [] sig # None /\ sig.alg = "rsa-sha256" /\ sig.key \in certs -> "Ok"
          [] OTHER -> "Error"

\* The ACS URL of an accepted request: one on the list, or the first.
AcsUrl(d) == IF d.acs = None THEN Head(Config[d.issuer].acs) ELSE d.acs

SignatureAccepted(d) ==
    LET verdict == verify_post_authn_request_signature(d, Config[d.issuer].certs)
    IN  verdict = "Ok" \/ (verdict = "NoSignature" /\ ~Config[d.issuer].signed)

\* Mutant: the requested ACS URL is taken as it is.
handle_sso_accepts_AnyAcs(d) ==
    /\ parse_authn_request(d) /\ Saml(d.issuer) /\ SignatureAccepted(d)
    /\ d.acs = None => Config[d.issuer].acs # <<>>

handle_sso_accepts(d) ==
    /\ parse_authn_request(d) /\ Saml(d.issuer)
    /\ SignatureAccepted(d)
    /\ IF d.acs = None THEN Config[d.issuer].acs # <<>> ELSE d.acs \in Range(Config[d.issuer].acs)

sso_post_accepts(d) == d.binding = "post" /\ handle_sso_accepts(d)
sso_get_accepts(d) ==
    /\ d.binding = "redirect" /\ decode_redirect_payload(d)
    /\ d.query # None => verify_inbound_redirect_signature(d)
    /\ handle_sso_accepts(d)

\* handle_sso: the continuation is saved with the flow state.
handle_sso(d) ==
    /\ flows < MaxSession
    /\ sso_post_accepts(d) \/ sso_get_accepts(d)
    /\ flows' = flows + 1
    /\ flow' = flow \cup {[id |-> flows', sp |-> d.issuer, request |-> d.id, acs |-> AcsUrl(d)]}
    /\ UNCHANGED <<session, cookie, names, task, sent, notices, over>>

----------------------------------------------------------------------------
(***************************************************************************)
(* Assertions                                                              *)
(***************************************************************************)
Present(v) == IF v \in {None, ""} THEN <<>> ELSE <<v>>
resolve_attribute_source(src, u) ==
    CASE src.kind = "static" -> src.values
      [] src.kind = "user-attribute" ->
           IF src.name \in DOMAIN Profile[u].attributes THEN Profile[u].attributes[src.name] ELSE <<>>
      [] src.kind = "username" -> <<Profile[u].username>>
      [] OTHER -> Present(Profile[u][src.kind])

\* The attributes of an assertion, whose order no service provider relies on.
apply_attribute_mappers(u, mappers) ==
    {a \in {[name |-> m.name, values |-> resolve_attribute_source(m.source, u)] : m \in Range(mappers)} :
        a.values # <<>>}

default_user_attributes(u) ==
    LET p == Profile[u]
    IN  {a \in {[name |-> "name", values |-> <<p.username>>],
                [name |-> "emailaddress", values |-> IF p.email = None THEN <<>> ELSE <<p.email>>],
                [name |-> "givenname", values |-> Present(p.given)],
                [name |-> "surname", values |-> Present(p.family)]} : a.values # <<>>}

Attributes(u, sp) ==
    IF Config[sp].mappers = <<>> THEN default_user_attributes(u)
    ELSE apply_attribute_mappers(u, Config[sp].mappers)

\* The NameID of the formats that need no row.
name_id(u, sp, sid) ==
    CASE Config[sp].format = "emailAddress" ->
           IF Profile[u].email = None THEN Profile[u].username ELSE Profile[u].email
      [] Config[sp].format = "transient" -> sid
      [] OTHER -> Profile[u].username

\* Recipient is the first ACS URL of the SP, whichever one was asked for.
build_assertion(u, sp, sid, name) ==
    [user |-> u, audience |-> sp, name |-> name, recipient |-> Head(Config[sp].acs),
     attributes |-> Attributes(u, sp), sid |-> sid,
     index |-> IF Config[sp].index = "use-session-id" THEN sid ELSE None]

serialize_response(a, acs, in_response_to, raced) ==
    [assertion |-> a, destination |-> acs, request |-> in_response_to, raced |-> raced]

----------------------------------------------------------------------------
(***************************************************************************)
(* A finished login with a continuation: the session, then                  *)
(* try_complete_saml, then the participation and the flow state.            *)
(***************************************************************************)
NewTask(op, u, sid, sp, acs, request, f) ==
    [op |-> op, user |-> u, sid |-> sid, sp |-> sp, acs |-> acs, request |-> request,
     flow |-> f, name |-> None, raced |-> FALSE,
     out |-> {}, clients |-> {}]

NameStep(sp) == IF Persistent(sp) THEN "read_name" ELSE "sign"

create_session(t, u, f) ==
    /\ task[t] = Idle /\ f \in flow /\ MaySignOn
    /\ \E s \in Free :
        /\ \A r \in Free : s <= r
        /\ session' = [session EXCEPT ![s] = [user |-> u, clients |-> {}]]
        /\ Set(t, NewTask(NameStep(f.sp), u, s, f.sp, f.acs, f.request, f))
    /\ UNCHANGED <<flow, flows, cookie, names, sent, notices, over>>

\* The ULIDs nobody holds.  What a dropped handler minted is free again.
Unused ==
    (1..MaxName) \ ({names[x] : x \in User \X Client}
                      \cup {m.assertion.name[2] : m \in {n \in sent : Persistent(n.assertion.audience)}}
                      \cup {task[t].name : t \in {u \in Task : task[u] # Idle}})

\* resolve_persistent_name_id: get, then mint and save; the name it returns
\* is its own whoever was first to save.
get_saml_persistent_id(t) ==
    /\ At(t, "read_name")
    /\ LET row == names[task[t].user, task[t].sp]
       IN  \/ row # None /\ Set(t, [task[t] EXCEPT !.name = row, !.op = "sign"])
           \/ /\ row = None
              /\ \E n \in Unused :
                    /\ \A m \in Unused : n <= m
                    /\ Set(t, [task[t] EXCEPT !.name = n, !.raced = TRUE, !.op = "save_name"])
    /\ UNCHANGED <<flow, flows, session, cookie, names, sent, notices, over>>

save_saml_persistent_id(t) ==
    /\ At(t, "save_name")
    /\ names' = [names EXCEPT ![<<task[t].user, task[t].sp>>] = IF @ = None THEN task[t].name ELSE @]
    /\ Set(t, [task[t] EXCEPT !.op = "sign"])
    /\ UNCHANGED <<flow, flows, session, cookie, sent, notices, over>>

NameOf(t) ==
    <<Config[task[t].sp].format,
      IF Persistent(task[t].sp) THEN task[t].name ELSE name_id(task[t].user, task[t].sp, task[t].sid)>>
Response(t) ==
    serialize_response(build_assertion(task[t].user, task[t].sp, task[t].sid, NameOf(t)),
                       task[t].acs, task[t].request, task[t].raced)

\* sign_assertion fails when the realm has no active RS256 key here; the
\* error is a response too, so that the participation is recorded either way.
sign_assertion(t) ==
    /\ At(t, "sign")
    /\ \E out \in {{Response(t)}, {}} :
        IF task[t].flow = None
        THEN sent' = sent \cup out /\ Set(t, Idle)
        ELSE /\ UNCHANGED sent
             /\ Set(t, [task[t] EXCEPT !.op = "get_session", !.out = out])
    /\ UNCHANGED <<flow, flows, session, cookie, names, notices, over>>

get_session(t) ==
    /\ At(t, "get_session")
    /\ Set(t, IF Live(task[t].sid)
              THEN [task[t] EXCEPT !.op = "update_session", !.clients = session[task[t].sid].clients]
              ELSE [task[t] EXCEPT !.op = "drop_flow"])
    /\ UNCHANGED <<flow, flows, session, cookie, names, sent, notices, over>>

\* Mutant: a session that is gone is written back.
update_session_Upsert(t) ==
    /\ At(t, "update_session")
    /\ session' = [session EXCEPT ![task[t].sid] =
         [user |-> task[t].user, clients |-> task[t].clients \cup {task[t].sp}]]
    /\ Set(t, [task[t] EXCEPT !.op = "drop_flow"])
    /\ UNCHANGED <<flow, flows, cookie, names, sent, notices, over>>

\* The list read before is written with the SP added; NotFound is ignored.
update_session(t) ==
    /\ At(t, "update_session")
    /\ session' = IF Live(task[t].sid)
                  THEN [session EXCEPT ![task[t].sid].clients = task[t].clients \cup {task[t].sp}]
                  ELSE session
    /\ Set(t, [task[t] EXCEPT !.op = "drop_flow"])
    /\ UNCHANGED <<flow, flows, cookie, names, sent, notices, over>>

delete_flow_state(t) ==
    /\ At(t, "drop_flow")
    /\ flow' = flow \ {task[t].flow}
    /\ sent' = sent \cup task[t].out
    /\ Set(t, Idle)
    /\ UNCHANGED <<flows, session, cookie, names, notices, over>>

----------------------------------------------------------------------------
(***************************************************************************)
(* IdP-initiated sign-on with the session of an OIDC login, whose redirect  *)
(* sets the cookie.                                                         *)
(***************************************************************************)
OidcLogin(u) ==
    /\ Cardinality(cookie) < MaxBrowser
    /\ \E s \in Free :
        /\ \A r \in Free : s <= r
        /\ session' = [session EXCEPT ![s] = [user |-> u, clients |-> {}]]
        /\ cookie' = cookie \cup {s}
    /\ UNCHANGED <<flow, flows, names, task, sent, notices, over>>

unsolicited(t, s, sp) ==
    /\ task[t] = Idle /\ s \in cookie /\ Live(s) /\ Saml(sp) /\ Config[sp].acs # <<>> /\ MaySignOn
    /\ Set(t, NewTask(NameStep(sp), session[s].user, s, sp, Head(Config[sp].acs), None, None))
    /\ UNCHANGED <<flow, flows, session, cookie, names, sent, notices, over>>

----------------------------------------------------------------------------
(***************************************************************************)
(* Logout.  slo_post takes a LogoutRequest from an SP that holds a Response *)
(* and sends back its SessionIndex; a random one names no session.          *)
(***************************************************************************)
parse_logout_request(sp) == Saml(sp)

\* The clients of the session other than the one that asks.
Peers(s, sp) == IF s \in Sid /\ Live(s) THEN session[s].clients \ {sp} ELSE {}

slo_post(t, m) ==
    /\ task[t] = Idle /\ m \in sent /\ parse_logout_request(m.assertion.audience)
    /\ Set(t, [NewTask("delete_session", m.assertion.user, m.assertion.index, m.assertion.audience, None, None, None)
                 EXCEPT !.clients = Peers(m.assertion.index, m.assertion.audience)])
    /\ UNCHANGED <<flow, flows, session, cookie, names, sent, notices, over>>

End(s) == IF s \in Sid /\ Live(s) THEN session' = [session EXCEPT ![s] = Gone] ELSE UNCHANGED session

delete_session(t) ==
    /\ At(t, "delete_session")
    /\ End(task[t].sid)
    /\ Set(t, [task[t] EXCEPT !.op = "fan_out"])
    /\ UNCHANGED <<flow, flows, cookie, names, sent, notices, over>>

\* propagate_saml_logout: a peer with an SLO endpoint is posted a
\* LogoutRequest in a task of its own; the answer to the SP does not wait.
propagate_saml_logout(t) ==
    /\ At(t, "fan_out")
    /\ notices' = notices \cup {[to |-> c, sid |-> task[t].sid] :
                                  c \in {p \in task[t].clients : Saml(p) /\ Config[p].slo}}
    /\ over' = over \cup ({task[t].sid} \cap Sid)
    /\ Set(t, Idle)
    /\ UNCHANGED <<flow, flows, session, cookie, names, sent>>

\* logout_get and logout_post with the id_token_hint of a session: the
\* session goes, and the client of the hint is sent a logout token when it
\* has registered a callback.
logout_get(s) ==
    /\ s \in cookie
    /\ End(s)
    /\ over' = over \cup {s}
    /\ UNCHANGED <<flow, flows, cookie, names, task, sent, notices>>

\* A refresh token names its client by the row id, which is not a client_id:
\* no client is found for it.
client_id_hint(refresh, hint, form) ==
    IF refresh # None THEN <<"row", refresh>> ELSE IF hint # None THEN hint ELSE form

\* Only a client with a callback is sent a logout token.
dispatch_backchannel_logout(client, s) == {[to |-> c, sid |-> s] : c \in {client} \cap Backchannel}

logout_post(s, refresh, hint, form) ==
    /\ s \in cookie
    /\ IF hint # None THEN End(s) /\ over' = over \cup {s} ELSE UNCHANGED <<session, over>>
    /\ notices' = IF refresh = None /\ hint = None THEN notices
                  ELSE notices \cup dispatch_backchannel_logout(client_id_hint(refresh, hint, form), s)
    /\ UNCHANGED <<flow, flows, cookie, names, task, sent>>

\* An administrator, or the user, revokes a session listed to them.
revoke_session(s) ==
    /\ Live(s) /\ End(s)
    /\ over' = over \cup {s}
    /\ UNCHANGED <<flow, flows, cookie, names, task, sent, notices>>

\* The connection of a request goes away and its handler with it.
Dropped(t) ==
    /\ task[t] # Idle /\ Set(t, Idle)
    /\ UNCHANGED <<flow, flows, session, cookie, names, sent, notices, over>>

----------------------------------------------------------------------------
Init ==
    /\ flow = {} /\ flows = 0 /\ cookie = {}
    /\ session = [s \in Sid |-> None]
    /\ names = [x \in User \X Client |-> None]
    /\ task = [t \in Task |-> Idle]
    /\ sent = {} /\ notices = {} /\ over = {}

Step(t) ==
    \/ get_saml_persistent_id(t) \/ save_saml_persistent_id(t) \/ sign_assertion(t)
    \/ get_session(t) \/ update_session(t) \/ delete_flow_state(t)
    \/ delete_session(t) \/ propagate_saml_logout(t) \/ Dropped(t)

Next ==
    \/ \E d \in Documents : handle_sso(d)
    \/ \E u \in User : OidcLogin(u)
    \/ \E s \in Sid : logout_get(s) \/ revoke_session(s)
    \/ \E s \in Sid, refresh, hint \in Backchannel \cup {None} :
        \* The form's client_id is read where there is neither.
        \E form \in IF {refresh, hint} = {None} THEN Backchannel ELSE {None} :
            logout_post(s, refresh, hint, form)
    \/ \E t \in Task :
        \/ Step(t)
        \/ \E u \in User, f \in flow : create_session(t, u, f)
        \/ \E s \in Sid, sp \in Client : unsolicited(t, s, sp)
        \/ \E m \in sent : slo_post(t, m)

Spec == Init /\ [][Next]_vars

----------------------------------------------------------------------------
TypeOK ==
    /\ flows \in 0..MaxSession /\ cookie \subseteq Sid /\ over \subseteq Sid
    /\ \A s \in Sid : Live(s) => session[s].user \in User /\ session[s].clients \subseteq Client
    /\ names \in [User \X Client -> 1..MaxName \cup {None}]

\* A session that a single logout, an OIDC logout or a revocation has ended is gone
\* and does not come back, also when the sign-on that created it is still
\* recording its participation (slo_post, logout_get, update_session).  And nobody
\* is told of the end of a session that lives (propagate_saml_logout,
\* dispatch_backchannel_logout).
LoggedOutIsOver ==
    /\ \A s \in over : ~Live(s)
    /\ \A n \in notices : n.sid \in Sid => ~Live(n.sid)

\* A Response goes to a registered ACS URL of the SP that is its audience,
\* answers a request of that very SP or none, and has no empty attribute: two
\* requests in flight are never mixed up through the flow state.  And, "first
\* writer wins so a concurrent SSO request can't shift the downstream NameID"
\* (save_saml_persistent_id): it carries the stored name, unless its handler
\* itself found the row missing.
ResponseFits ==
    \A m \in sent :
        /\ m.destination \in Range(Config[m.assertion.audience].acs)
        /\ m.request # None =>
             \E d \in Documents : d.id = m.request /\ d.issuer = m.assertion.audience
        /\ \A a \in m.assertion.attributes : a.values # <<>>
        /\ Persistent(m.assertion.audience) =>
             LET row == names[m.assertion.user, m.assertion.audience]
             IN  row # None /\ (m.raced \/ m.assertion.name[2] = row)

\* "the same (user, SP) tuple resolves to the same NameID across sessions"
\* (try_complete_saml).
NameIdStable ==
    \A m, n \in sent :
        /\ Persistent(m.assertion.audience) /\ m.assertion.audience = n.assertion.audience
        /\ m.assertion.user = n.assertion.user
        => m.assertion.name = n.assertion.name
=============================================================================
