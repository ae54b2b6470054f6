------------------------------- MODULE Grants -------------------------------
(***************************************************************************)
(* The grants of /token that start from something other than a login page: *)
(* device codes (device.rs, `handle_device_code`), pushed authorization    *)
(* requests (par.rs, the `request_uri` of `handle_authorize`), token       *)
(* exchange, the password grant and client credentials.                    *)
(*                                                                         *)
(* A step is one storage call.  A refusal that changes nothing is a guard, *)
(* and the handlers hold a copy of what they read at their last step.  The *)
(* refresh token saved at the end of `issue_user_tokens` is IssueFamily of *)
(* RefreshRotation.  Nothing in the repository approves or denies a device *)
(* grant: the verification page is external.                               *)
(***************************************************************************)
EXTENDS Integers, Sequences, FiniteSets

CONSTANTS
    Task,       \* tasks serving requests
    Client,
    grants,     \* the grant types each client's policy permits
    Pairwise,   \* clients with pairwise_sub_algorithm = sha256
    User,
    Scope,
    Device,     \* device codes; the user code names the same grant
    Uri,        \* request_uris
    Token,      \* access tokens, each with the session id minted for it
    None,       \* absent, and the `sub` that is no local user id
    MaxLoad     \* bound on codes, sessions and tokens given out plus requests in flight

VARIABLES
    device_grants,  \* the row of a device code, None when there is none
    par_requests,   \* the request_uris that have a row
    sessions,       \* stored sessions
    tokens,         \* the claims of the access tokens handed out
    expired,        \* device codes, request_uris and tokens past their lifetime
    req,            \* what each task holds between two storage calls
    \* history variables
    asked,          \* device codes and request_uris ever given out
    served          \* how many logins a request_uri has started

storage == <<device_grants, par_requests, sessions>>
history == <<asked, served>>
vars == <<storage, tokens, expired, req, history>>

\* last_polled_at, as it compares with interval_seconds.
Polled == {"never", "recent", "old"}
Grant == [status : {"Pending", "Approved", "Denied"}, user : User \cup {None},
          client : Client, scope : SUBSET Scope, polled : Polled]

\* user, from and by are history: the user the token speaks for, what it was
\* obtained with, and the task that redeemed a device code for it.  act lists the newest actor first.
Claims == [client : Client, sub : User \cup {None}, scope : SUBSET Scope, act : Seq(Client),
           user : User \cup {None}, from : Device \cup Token \cup {None}, by : Task \cup {None}]

Work ==
    [do : {"update"}, on : Device, grant : Grant]
    \cup [do : {"delete"}, on : Device]
    \cup [do : {"redeem"}, on : Device, claims : Claims]
    \cup [do : {"issue"}, claims : Claims]
    \cup [do : {"mint"}, on : Token, claims : Claims]
    \cup [do : {"flow"}, on : Uri]

TypeOK ==
    /\ device_grants \in [Device -> Grant \cup {None}]
    /\ par_requests \subseteq Uri
    /\ sessions \subseteq Token
    /\ tokens \in [Token -> Claims \cup {None}]
    /\ expired \subseteq Device \cup Uri \cup Token
    /\ req \in [Task -> Work \cup {None}]
    /\ asked \subseteq Device \cup Uri
    /\ served \in [Uri -> 0 .. 2]

Init ==
    /\ device_grants = [d \in Device |-> None]
    /\ par_requests = {} /\ sessions = {} /\ expired = {}
    /\ tokens = [k \in Token |-> None]
    /\ req = [t \in Task |-> None]
    /\ asked = {}
    /\ served = [u \in Uri |-> 0]

\* Room for one more code, token or request in flight.
Room ==
    Cardinality(asked) + Cardinality(sessions \cup {k \in Token : tokens[k] # None})
        + Cardinality({t \in Task : req[t] # None}) < MaxLoad

\* assert_grant_permitted, for a client that has authenticated.
permitted(c, grant) == grant \in grants[c]

Idle(t) == req[t] = None /\ Room

Await(t, r) == req' = [req EXCEPT ![t] = r]
Respond(t) == Await(t, None)

\* The future is dropped, the pod dies, or the storage call fails.
Drop(t) ==
    /\ req[t] # None
    /\ Respond(t)
    /\ UNCHANGED <<storage, tokens, expired, history>>

-----------------------------------------------------------------------------
(* Tokens.                                                                 *)

\* resolve_sub: a pairwise client sees a hash, which is no user id.
resolve_sub(user, c) == IF c \in Pairwise THEN None ELSE user

claims(t, c, user, scope, act, from) ==
    [client |-> c, sub |-> resolve_sub(user, c), scope |-> scope, act |-> act,
     user |-> user, from |-> from, by |-> IF from \in Device THEN t ELSE None]

Fresh(k) == k \notin sessions /\ tokens[k] = None

\* The session row comes first, then the tokens that name it.
create_session(t, k) ==
    /\ req[t] # None /\ req[t].do = "issue"
    /\ Fresh(k)
    /\ sessions' = sessions \cup {k}
    /\ Await(t, [do |-> "mint", on |-> k, claims |-> req[t].claims])
    /\ UNCHANGED <<device_grants, par_requests, tokens, expired, history>>

mint_access_token(t) ==
    /\ req[t] # None /\ req[t].do = "mint"
    /\ tokens' = [tokens EXCEPT ![req[t].on] = req[t].claims]
    /\ Respond(t)
    /\ UNCHANGED <<storage, expired, history>>

\* The credentials of an enabled user were right.
handle_password(t, c, user, scope) ==
    /\ Idle(t) /\ permitted(c, "password")
    /\ Await(t, [do |-> "issue", claims |-> claims(t, c, user, scope, <<>>, None)])
    /\ UNCHANGED <<storage, tokens, expired, history>>

\* A service account: its session id is never stored, its sub names the client.
client_credentials(t, c, scope, k) ==
    /\ Idle(t) /\ permitted(c, "client_credentials")
    /\ Fresh(k)
    /\ tokens' = [tokens EXCEPT ![k] = claims(t, c, None, scope, <<>>, None)]
    /\ UNCHANGED <<storage, expired, req, history>>

\* Signature, issuer and lifetime; no session or user row is looked at.
verify_access_token(k) == tokens[k] # None /\ k \notin expired

build_actor_chain(actor, inner) == <<actor>> \o inner

handle_token_exchange(t, c, k, scope) ==
    /\ Idle(t) /\ permitted(c, "token_exchange")
    /\ verify_access_token(k)
    /\ tokens[k].sub \in User
    /\ scope \subseteq tokens[k].scope
    /\ Await(t, [do |-> "issue",
                 claims |-> claims(t, c, tokens[k].sub, scope,
                                   build_actor_chain(c, tokens[k].act), k)])
    /\ UNCHANGED <<storage, tokens, expired, history>>

-----------------------------------------------------------------------------
(* Device codes.                                                           *)

\* The storage calls.
save_device_grant(d, grant) == device_grants' = [device_grants EXCEPT ![d] = grant]

\* Mutant: an upsert.
update_device_grant_Upsert(d, grant) == device_grants' = [device_grants EXCEPT ![d] = grant]

\* Writes the whole row, its status included, if there still is one.
update_device_grant(d, grant) ==
    device_grants' = [device_grants EXCEPT ![d] = IF @ = None THEN @ ELSE grant]

delete_device_grant(d) == device_grants' = [device_grants EXCEPT ![d] = None]

device_authorize(d, c, scope) ==
    /\ d \notin asked /\ Room
    /\ permitted(c, "device_code")
    /\ asked' = asked \cup {d}
    /\ save_device_grant(d, [status |-> "Pending", user |-> None, client |-> c, scope |-> scope,
                             polled |-> "never"])
    /\ UNCHANGED <<par_requests, sessions, tokens, expired, req, served>>

\* The user answers on the verification page.
Decide(d, status, user) ==
    /\ device_grants[d] # None /\ device_grants[d].status = "Pending"
    /\ device_grants' = [device_grants EXCEPT ![d] = [@ EXCEPT !.status = status, !.user = user]]
    /\ UNCHANGED <<par_requests, sessions, tokens, expired, req, history>>

\* A poll by the grant's own client.  Lifetime first, then the interval.  (No
\* code gives a row the status Expired.)
handle_device_code(t, c, d) ==
    LET grant == [device_grants[d] EXCEPT !.polled = "recent"] IN
    /\ Idle(t) /\ permitted(c, "device_code")
    /\ device_grants[d] # None /\ device_grants[d].client = c
    /\ \/ d \in expired /\ Await(t, [do |-> "delete", on |-> d])
       \/ /\ d \notin expired /\ device_grants[d].polled # "recent"
          /\ \/ /\ grant.status = "Pending"
                /\ Await(t, [do |-> "update", on |-> d, grant |-> grant])
             \/ grant.status = "Denied" /\ Await(t, [do |-> "delete", on |-> d])
             \/ /\ grant.status = "Approved"
                /\ Await(t, [do |-> "redeem", on |-> d,
                             claims |-> claims(t, c, grant.user, grant.scope, <<>>, d)])
    /\ UNCHANGED <<storage, tokens, expired, history>>

\* authorization_pending: the copy with its new last_polled_at is written back.
RecordPoll(t) ==
    /\ req[t] # None /\ req[t].do = "update"
    /\ update_device_grant(req[t].on, req[t].grant)
    /\ Respond(t)
    /\ UNCHANGED <<par_requests, sessions, tokens, expired, history>>

\* Mutant: an approved grant is left for its expiry to clean up.
SettlePoll_KeepsApproved(t) ==
    /\ req[t] # None
    /\ \/ req[t].do = "delete" /\ Respond(t) /\ delete_device_grant(req[t].on)
       \/ /\ req[t].do = "redeem"
          /\ Await(t, [do |-> "issue", claims |-> req[t].claims])
          /\ UNCHANGED device_grants
    /\ UNCHANGED <<par_requests, sessions, tokens, expired, history>>

\* expired_token and access_denied, or on to the tokens.  The result of the call
\* is ignored: a poll that finds the row gone by now goes on as well.
SettlePoll(t) ==
    /\ req[t] # None
    /\ \/ req[t].do = "delete" /\ Respond(t)
       \/ req[t].do = "redeem" /\ Await(t, [do |-> "issue", claims |-> req[t].claims])
    /\ delete_device_grant(req[t].on)
    /\ UNCHANGED <<par_requests, sessions, tokens, expired, history>>

\* The poll interval of d goes by, for the row and for the copies of it.
Aged(g) == IF g.polled = "recent" THEN [g EXCEPT !.polled = "old"] ELSE g

Elapse(d) ==
    /\ device_grants' = [device_grants EXCEPT ![d] = IF @ = None THEN @ ELSE Aged(@)]
    /\ req' = [t \in Task |->
           IF req[t] # None /\ req[t].do = "update" /\ req[t].on = d
           THEN [req[t] EXCEPT !.grant = Aged(@)] ELSE req[t]]
    /\ UNCHANGED <<par_requests, sessions, tokens, expired, history>>

-----------------------------------------------------------------------------
(* Pushed authorization requests.                                          *)

\* The client named in the parameters is the one that authenticated.
par(u) ==
    /\ u \notin asked /\ Room
    /\ asked' = asked \cup {u}
    /\ par_requests' = par_requests \cup {u}
    /\ UNCHANGED <<device_grants, sessions, tokens, expired, req, served>>

\* The row is read and removed in one call; expires_at is compared with nothing.
consume_par_request(u) == u \in par_requests /\ par_requests' = par_requests \ {u}

\* The realm is compared when the row is gone: a request_uri presented at another
\* realm (home is FALSE) is lost.
handle_authorize(t, u, home) ==
    /\ Idle(t)
    /\ consume_par_request(u)
    /\ IF home THEN Await(t, [do |-> "flow", on |-> u]) ELSE Respond(t)
    /\ UNCHANGED <<device_grants, sessions, tokens, expired, asked, served>>

\* It goes on with the pushed parameters: client policy, then a new flow state
\* (or, with a session, the code of LoginSession).
start_flow(t) ==
    /\ req[t] # None /\ req[t].do = "flow"
    /\ served' = [served EXCEPT ![req[t].on] = @ + 1]
    /\ Respond(t)
    /\ UNCHANGED <<storage, tokens, expired, asked>>

-----------------------------------------------------------------------------
Expire(x) ==
    /\ x \notin expired
    /\ x \in asked \cup {k \in Token : tokens[k] # None}
    /\ expired' = expired \cup {x}
    /\ UNCHANGED <<storage, tokens, req, history>>

Next ==
    \/ \E d \in Device :
          \/ \E c \in Client, scope \in SUBSET Scope : device_authorize(d, c, scope)
          \/ \E user \in User : Decide(d, "Approved", user)
          \/ Decide(d, "Denied", None)
          \/ Elapse(d)
          \/ \E t \in Task, c \in Client : handle_device_code(t, c, d)
    \/ \E t \in Task, c \in Client, scope \in SUBSET Scope :
          \/ \E user \in User : handle_password(t, c, user, scope)
          \/ \E k \in Token :
                \/ client_credentials(t, c, scope, k)
                \/ handle_token_exchange(t, c, k, scope)
    \/ \E t \in Task :
          \/ RecordPoll(t) \/ SettlePoll(t)
          \/ \E k \in Token : create_session(t, k)
          \/ mint_access_token(t)
          \/ start_flow(t)
          \/ Drop(t)
    \/ \E u \in Uri :
          \/ par(u)
          \/ \E t \in Task, home \in BOOLEAN : handle_authorize(t, u, home)
    \/ \E x \in Device \cup Uri \cup Token : Expire(x)

Spec == Init /\ [][Next]_vars

-----------------------------------------------------------------------------
(* Properties.                                                             *)

\* A request_uri starts at most one login, and a task gets at most one set of
\* tokens for a device code: of two polls that both get tokens, each had read
\* the approved row before the other one deleted it.
ServedOnce ==
    /\ \A u \in Uri : served[u] <= 1
    /\ \A k, m \in Token :
          /\ tokens[k] # None /\ tokens[m] # None
          /\ tokens[k].from \in Device
          /\ tokens[k].from = tokens[m].from /\ tokens[k].by = tokens[m].by
          => k = m

\* A device code or request_uri whose row is gone never has one again, although
\* a poll may write back a row it read before another poll deleted it.
GoneForGood ==
    [][/\ \A d \in Device \cap asked :
             device_grants[d] = None => device_grants'[d] = None
       /\ \A u \in Uri \cap asked : u \notin par_requests => u \notin par_requests']_vars

\* What k was exchanged for, what that was exchanged for, and so on.
From(k) == {m \in Token : tokens[k] # None /\ tokens[k].from = m}
Earlier(k) ==
    {m \in Token : \A S \in SUBSET Token :
        From(k) \subseteq S /\ (\A x \in S : From(x) \subseteq S) => m \in S}

\* Down any chain of exchanges the act claim keeps the whole lineage of every
\* token before it, each link under the client that added it, the user stays the
\* same and no scope comes back that an earlier link gave up.
Lineage ==
    \A k \in Token : \A m \in Earlier(k) :
        LET new == Len(tokens[k].act) - Len(tokens[m].act)
        IN  /\ new > 0
            /\ SubSeq(tokens[k].act, new + 1, Len(tokens[k].act)) = tokens[m].act
            /\ tokens[k].act[1] = tokens[k].client
            /\ tokens[k].user = tokens[m].user
            /\ tokens[k].scope \subseteq tokens[m].scope

\* What the token endpoint promises of codes and exchanges.
GrantsSound == ServedOnce /\ Lineage
=============================================================================
