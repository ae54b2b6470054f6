------------------------------ MODULE MCLogin ------------------------------
(* Model-checking instances of the ways into a session, one of them in each   *)
(* behaviour: the interactive login with single sign-on and authorization     *)
(* codes (LoginSession, extended), the login brokered to an upstream provider *)
(* (Broker), and the sign-on and logout of SAML service providers (SamlIdp).  *)
EXTENDS LoginSession, Sequences, TLC

CONSTANTS
    Idle, Gone,
    User, SamlClient, Config, Profile, Documents, Backchannel, MaxSession, MaxBrowser, MaxName, MaxSent,
    Realm, Alias, Cfg, Reply, Document, MaxState, MaxUser, MaxNow,
    person, sp, plain, bare, rp

\* What stands for nothing is no session row, session id or name; ACS URLs are
\* listed in order; the row id of a client is no client_id.
ASSUME SamlAssumption ==
    /\ Gone # None /\ None \notin 1..MaxSession /\ None \notin 1..MaxName
    /\ \A u \in User, c \in SUBSET SamlClient : [user |-> u, clients |-> c] # None
    /\ \A c \in SamlClient : Config[c] # None => Config[c].acs \in Seq(STRING)
    /\ \A c \in Backchannel : <<"row", c>> \notin Backchannel

VARIABLES
    part,
    flow, flows, session, cookie, names, s_task, sent, notices, over,
    enabled, discovery, b_row, b_created, sentTo, spent, link, overlapped, b_task, now

saml_vars == <<flow, flows, session, cookie, names, s_task, sent, notices, over>>
broker_vars == <<enabled, discovery, b_row, b_created, sentTo, spent, link, overlapped, b_task, now>>

saml == INSTANCE SamlIdp WITH Client <- SamlClient, task <- s_task

broker == INSTANCE Broker WITH row <- b_row, created <- b_created, task <- b_task

------------------------------------------------------------------------------
\* sp asks for signed requests and a persistent name, plain for neither, bare has
\* registered no ACS URL; rp is an OpenID Connect client with a back channel.
Doc(id, issuer, acs, binding, query, inner) ==
    [root |-> "AuthnRequest", id |-> id, instant |-> "now", issuer |-> issuer, acs |-> acs,
     binding |-> binding, query |-> query, inner |-> inner, oversize |-> FALSE]
Signed == [alg |-> "rsa-sha256", key |-> "key of sp"]
Requests ==
    {Doc("req sp", sp, "a2", "post", None, Signed), Doc("req plain", plain, None, "redirect", None, None),
     Doc("foreign acs", plain, "a1", "post", None, None), Doc("unsigned", sp, None, "post", None, None),
     Doc("no acs", bare, None, "post", None, None),
     Doc("query signed", sp, None, "redirect", Signed, None), Doc("no saml", rp, None, "post", None, None)}
Mappers == <<[name |-> "mail", source |-> [kind |-> "email"]],
             [name |-> "group", source |-> [kind |-> "user-attribute", name |-> "group"]]>>
SpConfig ==
    sp :> [acs |-> <<"a1", "a2">>, format |-> "persistent", index |-> "use-session-id", slo |-> TRUE,
           signed |-> TRUE, certs |-> {"key of sp"}, mappers |-> Mappers] @@
    plain :> [acs |-> <<"b1">>, format |-> "transient", index |-> "random", slo |-> FALSE,
              signed |-> FALSE, certs |-> {}, mappers |-> <<>>] @@
    bare :> [acs |-> <<>>, format |-> "unspecified", index |-> "random", slo |-> TRUE,
             signed |-> FALSE, certs |-> {}, mappers |-> <<>>] @@
    rp :> None
Ada == [username |-> "ada", email |-> "ada@example.org", given |-> "", family |-> "L",
        display |-> None, attributes |-> [dept |-> <<"x", "y">>]]
Profiles == person :> Ada

------------------------------------------------------------------------------
\* One upstream per realm and protocol; under one alias the two realms have
\* different upstreams.
UpstreamIdp == [issuer |-> "up", published |-> "up", adapter |-> "google", scope |-> "openid", pkce |-> TRUE,
         prompt |-> "login", client_id |-> "c", jwks |-> {[kid |-> "k", kty |-> "RSA", alg |-> "RS256", secret |-> "s"]},
         binding |-> "redirect", certs |-> {"cert"}, want_signed |-> TRUE]
IdpConfig == [p \in {<<"r", "oidc">>, <<"r", "saml">>, <<"q", "oidc">>, <<"q", "saml">>} |->
    CASE p = <<"r", "oidc">> -> [kind |-> "oidc"] @@ UpstreamIdp
      [] p = <<"r", "saml">> -> [kind |-> "saml"] @@ UpstreamIdp
      [] p = <<"q", "oidc">> -> [kind |-> "oidc", issuer |-> "other", published |-> "other"] @@ UpstreamIdp
      [] OTHER -> [kind |-> "saml", binding |-> "artifact", want_signed |-> FALSE] @@ UpstreamIdp]
TokenReply ==
    {[id_token |-> [alg |-> "RS256", kid |-> "k", iss |-> "up", aud |-> {"c"}, fresh |-> TRUE, nonce |-> 1,
                    signed_by |-> "s", sub |-> "ext", claims |-> {"email"}, extra |-> {"tid"},
                    relayed_email |-> FALSE],
      userinfo |-> {"name"}],
     [id_token |-> None], None}
GoodResponse == [status |-> [value |-> "Success", text |-> "Success"], audiences |-> {"r"}, window |-> "open",
         name_id |-> "ext", attributes |-> [mail |-> <<"m">>, none |-> <<>>],
         signature |-> [alg |-> "rsa-sha256", reference |-> "id", intact |-> TRUE, key |-> "cert"]]
Response ==
    {GoodResponse, [GoodResponse EXCEPT !.status.text = None], [GoodResponse EXCEPT !.window = "past"],
     [GoodResponse EXCEPT !.signature = None, !.audiences = {"q"}]}

------------------------------------------------------------------------------
MCInit == part \in {"login", "saml", "broker"} /\ Init /\ saml!Init /\ broker!Init

MCNext ==
    \/ part = "login" /\ Next /\ UNCHANGED <<part, saml_vars, broker_vars>>
    \/ part = "saml" /\ saml!Next /\ UNCHANGED <<part, vars, broker_vars>>
    \/ part = "broker" /\ broker!Next /\ UNCHANGED <<part, vars, saml_vars>>

MCSpec == MCInit /\ [][MCNext]_<<part, vars, saml_vars, broker_vars>>

\* Tasks are interchangeable.
Symmetry == Permutations(Task)

\* See SamlIdp: a session that was logged out is never answered for again.
LoggedOutIsOver == saml!LoggedOutIsOver

\* See SamlIdp: a response goes where its request may be answered.
ResponseFits == saml!ResponseFits

\* See SamlIdp: what the comment on the persistent name promises.
NameIdStable == saml!NameIdStable

\* See Broker: the state of a brokered login is used once.
StatesSingleUse == broker!StatesSingleUse

\* See Broker: a link stays with its user.
LinkKept == broker!LinkKept
==============================================================================
