---------------------------- MODULE LoginSession ----------------------------
(***************************************************************************)
(* Interactive login, single sign-on and the authorization code:           *)
(* `start_flow` and `shortcircuit` of /authorize, `authenticate_post` and  *)
(* `mint_code_and_redirect` of /login-actions, the authorization-code      *)
(* exchange of /token and the session deletion of /logout.                 *)
(*                                                                         *)
(* A step is one storage call; a handler's copy of a row is what it read   *)
(* at its last step.  The flow engine is abstracted to its outcome: done,  *)
(* failed or one more page to render (FlowEngine has the walk itself).     *)
(***************************************************************************)
EXTENDS Naturals

CONSTANTS
    Task,       \* tasks serving requests
    Flow,       \* FlowStateId
    Session,    \* SessionId
    Code,       \* CodeId
    Client,
    None        \* absent id

ASSUME NoneAssumption == None \notin Flow \cup Session \cup Code \cup Client

VARIABLES
    flow_states,   \* ids of the stored flow states
    sessions,      \* ids of the stored sessions
    clients,       \* their `clients` column, one set per session
    codes,         \* ids of the stored code grants
    pc,            \* the storage call each task is about to make
    heldFlow,      \* the flow state the task works on
    heldSession,   \* its session id
    heldClients,   \* its copy of that session's `clients` column
    heldClient,    \* the client of its authorize request
    heldCode,      \* the code it is exchanging
    \* history variables
    started,       \* flow states ever saved by start_flow
    created,       \* sessions ever created
    codeSession,   \* the session a code was minted for (None: not minted)
    granted,       \* how often a code was turned into tokens
    finished,      \* flows dropped while no other task held them
    settled        \* clients recorded while no other task was recording one

storage == <<flow_states, sessions, clients, codes>>
held == <<heldFlow, heldSession, heldClients, heldClient, heldCode>>
history == <<started, created, codeSession, granted, finished, settled>>
vars == <<storage, pc, held, history>>

PC == {"idle", "stepping", "resaving", "creating", "coding", "dropping",
       "participating", "sso_coding", "exchanging"}

\* The steps that work on a copy of a flow state.
FlowPC == {"stepping", "resaving", "creating", "coding", "dropping"}

TypeOK ==
    /\ flow_states \subseteq started /\ started \subseteq Flow
    /\ sessions \subseteq created /\ created \subseteq Session
    /\ clients \in [Session -> SUBSET Client]
    /\ codes \subseteq Code
    /\ pc \in [Task -> PC]
    /\ heldFlow \in [Task -> Flow \cup {None}]
    /\ heldSession \in [Task -> Session \cup {None}]
    /\ heldClients \in [Task -> SUBSET Client]
    /\ heldClient \in [Task -> Client \cup {None}]
    /\ heldCode \in [Task -> Code \cup {None}]
    /\ codeSession \in [Code -> Session \cup {None}]
    /\ \A c \in codes : codeSession[c] \in created
    /\ granted \in [Code -> {0, 1, 2}]
    /\ finished \subseteq Flow
    /\ settled \in [Session -> SUBSET Client]

Init ==
    /\ flow_states = {} /\ sessions = {} /\ codes = {}
    /\ clients = [s \in Session |-> {}]
    /\ pc = [t \in Task |-> "idle"]
    /\ heldFlow = [t \in Task |-> None]
    /\ heldSession = [t \in Task |-> None]
    /\ heldClients = [t \in Task |-> {}]
    /\ heldClient = [t \in Task |-> None]
    /\ heldCode = [t \in Task |-> None]
    /\ started = {} /\ created = {}
    /\ codeSession = [c \in Code |-> None]
    /\ granted = [c \in Code |-> 0]
    /\ finished = {}
    /\ settled = [s \in Session |-> {}]

-----------------------------------------------------------------------------
(* The request answers and its copies are forgotten.  A dropped future, a  *)
(* dead pod and a failing storage call end it the same way.                *)

Respond(t) ==
    /\ pc' = [pc EXCEPT ![t] = "idle"]
    /\ heldFlow' = [heldFlow EXCEPT ![t] = None]
    /\ heldSession' = [heldSession EXCEPT ![t] = None]
    /\ heldClients' = [heldClients EXCEPT ![t] = {}]
    /\ heldClient' = [heldClient EXCEPT ![t] = None]
    /\ heldCode' = [heldCode EXCEPT ![t] = None]

GoTo(t, p) == pc' = [pc EXCEPT ![t] = p]

Drop(t) ==
    /\ pc[t] # "idle"
    /\ Respond(t)
    /\ UNCHANGED <<storage, history>>

-----------------------------------------------------------------------------
(* /authorize without a usable session: a fresh flow state.                *)

start_flow(f) ==
    /\ f \notin started
    /\ flow_states' = flow_states \cup {f}
    /\ started' = started \cup {f}
    /\ UNCHANGED <<sessions, clients, codes, pc, held, created, codeSession,
                   granted, finished, settled>>

(* /login-actions/authenticate.                                            *)

\* An unknown id is refused; an expired row is deleted before the refusal.
authenticate_post(t, f) ==
    /\ pc[t] = "idle"
    /\ f \in flow_states
    /\ heldFlow' = [heldFlow EXCEPT ![t] = f]
    /\ GoTo(t, "stepping") \/ GoTo(t, "dropping")
    /\ UNCHANGED <<storage, heldSession, heldClients, heldClient, heldCode, history>>

\* executor.step: Failed answers 401 and leaves the row as it is, Render and
\* Redirect save it, Done goes on to mint.
Step(t) ==
    /\ pc[t] = "stepping"
    /\ \/ Respond(t)
       \/ GoTo(t, "resaving") /\ UNCHANGED held
       \/ GoTo(t, "creating") /\ UNCHANGED held
    /\ UNCHANGED <<storage, history>>

\* save_flow_state is an upsert: the row is there afterwards even if another
\* task dropped it meanwhile.
SaveFlowState(t) ==
    /\ pc[t] = "resaving"
    /\ flow_states' = flow_states \cup {heldFlow[t]}
    /\ Respond(t)
    /\ UNCHANGED <<sessions, clients, codes, history>>

CreateSession(t, s) ==
    /\ pc[t] = "creating"
    /\ s \notin created
    /\ sessions' = sessions \cup {s}
    /\ created' = created \cup {s}
    /\ clients' = [clients EXCEPT ![s] = {}]
    /\ heldSession' = [heldSession EXCEPT ![t] = s]
    /\ GoTo(t, "coding")
    /\ UNCHANGED <<flow_states, codes, heldFlow, heldClients, heldClient,
                   heldCode, started, codeSession, granted, finished, settled>>

save_code_grant(c, s) ==
    /\ codeSession[c] = None
    /\ codes' = codes \cup {c}
    /\ codeSession' = [codeSession EXCEPT ![c] = s]
    /\ UNCHANGED <<flow_states, sessions, clients, started, created, granted,
                   finished, settled>>

\* The client of the authorize parameters is not recorded in the session on
\* this path.
mint_code(t, c) ==
    /\ pc[t] = "coding"
    /\ save_code_grant(c, heldSession[t])
    /\ GoTo(t, "dropping")
    /\ UNCHANGED held

\* Another task between reading flow f and its last step on it.
HeldByOther(f, t) ==
    \E u \in Task \ {t} : heldFlow[u] = f /\ pc[u] \in FlowPC

\* Mutant: the row is kept, as if only its expiry removed it.
DropFlowState_Kept(t) ==
    /\ pc[t] = "dropping"
    /\ finished' = IF HeldByOther(heldFlow[t], t) THEN finished
                                                  ELSE finished \cup {heldFlow[t]}
    /\ Respond(t)
    /\ UNCHANGED <<storage, started, created, codeSession, granted, settled>>

\* delete_flow_state, last step of a finished login (its error is ignored)
\* and of a submit to an expired flow.
DropFlowState(t) ==
    /\ pc[t] = "dropping"
    /\ flow_states' = flow_states \ {heldFlow[t]}
    /\ finished' = IF HeldByOther(heldFlow[t], t) THEN finished
                                                  ELSE finished \cup {heldFlow[t]}
    /\ Respond(t)
    /\ UNCHANGED <<sessions, clients, codes, started, created,
                   codeSession, granted, settled>>

-----------------------------------------------------------------------------
(* /authorize with the cookie of a stored, unexpired session.              *)

resolve_session(t, s, cl) ==
    /\ pc[t] = "idle"
    /\ s \in sessions
    /\ heldSession' = [heldSession EXCEPT ![t] = s]
    /\ heldClients' = [heldClients EXCEPT ![t] = clients[s]]
    /\ heldClient' = [heldClient EXCEPT ![t] = cl]
    /\ GoTo(t, "participating")
    /\ UNCHANGED <<storage, heldFlow, heldCode, history>>

\* Another task about to write its own copy of session s.
RecordedByOther(s, t) ==
    \E u \in Task \ {t} : pc[u] = "participating" /\ heldSession[u] = s

\* Mutant: the write replaces the recorded clients by the new one.
update_session_participation_Replace(t) ==
    LET s == heldSession[t] new == {heldClient[t]} IN
    /\ pc[t] = "participating"
    /\ clients' = IF s \in sessions THEN [clients EXCEPT ![s] = new] ELSE clients
    /\ settled' = IF s \in sessions /\ ~RecordedByOther(s, t)
                     THEN [settled EXCEPT ![s] = @ \cup new] ELSE settled
    /\ GoTo(t, "sso_coding")
    /\ UNCHANGED <<flow_states, sessions, codes, held, started, created,
                   codeSession, granted, finished>>

\* The whole row is written back from the copy; a session deleted meanwhile
\* is only logged ("proceeding with stale session").
update_session_participation(t) ==
    LET s == heldSession[t] new == heldClients[t] \cup {heldClient[t]} IN
    /\ pc[t] = "participating"
    /\ clients' = IF s \in sessions THEN [clients EXCEPT ![s] = new] ELSE clients
    /\ settled' = IF s \in sessions /\ ~RecordedByOther(s, t)
                     THEN [settled EXCEPT ![s] = @ \cup new] ELSE settled
    /\ GoTo(t, "sso_coding")
    /\ UNCHANGED <<flow_states, sessions, codes, held, started, created,
                   codeSession, granted, finished>>

shortcircuit(t, c) ==
    /\ pc[t] = "sso_coding"
    /\ save_code_grant(c, heldSession[t])
    /\ Respond(t)

logout(s) ==
    /\ s \in sessions
    /\ sessions' = sessions \ {s}
    /\ UNCHANGED <<flow_states, clients, codes, pc, held, history>>

-----------------------------------------------------------------------------
(* /token, grant_type=authorization_code.                                  *)

\* Mutant: the code is read, and deleted only with the tokens.
consume_code_Read(t, c) ==
    /\ pc[t] = "idle"
    /\ \/ /\ c \in codes
          /\ heldCode' = [heldCode EXCEPT ![t] = c]
          /\ GoTo(t, "exchanging")
       \/ /\ c \notin codes
          /\ UNCHANGED <<heldCode, pc>>
    /\ UNCHANGED <<storage, heldFlow, heldSession, heldClients, heldClient, history>>

\* Removes and returns the row in one call, MemoryStorage under its lock,
\* PostgresStorage by DELETE ... RETURNING; an unknown code is invalid_grant.
consume_code(t, c) ==
    /\ pc[t] = "idle"
    /\ \/ /\ c \in codes
          /\ codes' = codes \ {c}
          /\ heldCode' = [heldCode EXCEPT ![t] = c]
          /\ GoTo(t, "exchanging")
       \/ /\ c \notin codes
          /\ UNCHANGED <<codes, heldCode, pc>>
    /\ UNCHANGED <<flow_states, sessions, clients, heldFlow,
                   heldSession, heldClients, heldClient, history>>

\* Expiry, client, redirect_uri and PKCE are checked after the code is gone;
\* when they pass the tokens are minted.
exchange(t) ==
    /\ pc[t] = "exchanging"
    /\ \/ UNCHANGED granted
       \/ granted' = [granted EXCEPT ![heldCode[t]] = IF @ = 2 THEN 2 ELSE @ + 1]
    /\ Respond(t)
    /\ UNCHANGED <<storage, started, created, codeSession, finished, settled>>

Next ==
    \/ \E f \in Flow : start_flow(f)
    \/ \E s \in Session : logout(s)
    \/ \E t \in Task :
          \/ \E f \in Flow : authenticate_post(t, f)
          \/ \E s \in Session : CreateSession(t, s)
          \/ \E s \in Session, cl \in Client : resolve_session(t, s, cl)
          \/ \E c \in Code : mint_code(t, c) \/ shortcircuit(t, c) \/ consume_code(t, c)
          \/ Step(t) \/ SaveFlowState(t) \/ DropFlowState(t)
          \/ update_session_participation(t)
          \/ exchange(t)
          \/ Drop(t)

Spec == Init /\ [][Next]_vars

-----------------------------------------------------------------------------
(* Properties.                                                             *)

\* traits.rs, "Atomically consume a code": whatever tasks present it, on
\* whatever pod, an authorization code is turned into tokens at most once.
CodeGrantedOnce == \A c \in Code : granted[c] <= 1

Exchanged(c) == \E t \in Task : pc[t] = "exchanging" /\ heldCode[t] = c

\* Where a code is in its life.  "granted again" is no phase of SingleUse.
CodePhase(c) ==
    IF codeSession[c] = None THEN "unissued"
    ELSE IF granted[c] > 0 THEN IF granted[c] = 1 THEN "honoured" ELSE "granted again"
    ELSE IF c \in codes THEN "live"
    ELSE IF Exchanged(c) THEN "taken"
    ELSE "void"

codePhases == [c \in Code |-> CodePhase(c)]
Codes == INSTANCE SingleUse WITH Ticket <- Code, phase <- codePhases

\* The code exchange implements SingleUse: a code is minted once, one presenter
\* gets hold of it, and it is honoured or refused then, for good, although the
\* exchange is several storage calls that other exchanges run between.
CodesSingleUse == Codes!Spec

\* A flow state that was dropped while no other task was working on it never
\* comes back, so its login cannot be completed a second time.
FinishedFlowStaysGone == finished \cap flow_states = {}

\* A client recorded in a session while nobody else was recording one is
\* never lost from a later write-back of the row: logout fan-out reaches it.
SettledClientStays == \A s \in sessions : settled[s] \subseteq clients[s]
=============================================================================
