------------------------------ MODULE LdapPool ------------------------------
(***************************************************************************)
(* The LDAP connection pool of geonosis-federation-ldap with its circuit   *)
(* breaker (pool.rs), under concurrent calls of bind_as_user (bind.rs),    *)
(* which acquires twice: to look the DN up and to bind as that DN. The     *)
(* directory servers come and go.                                          *)
(*                                                                         *)
(* Instants appear only as the age of the last opening, which grows to     *)
(* PROBE_INTERVAL and no further: try_half_open compares with nothing      *)
(* else. consecutive_failures stops at CIRCUIT_OPEN_THRESHOLD, the only    *)
(* value it is compared with. The field `backoff` is written and never     *)
(* read, and is left out.                                                  *)
(***************************************************************************)
EXTENDS Naturals, FiniteSets

CONSTANTS
    Task,                    \* calls of bind_as_user in flight
    pool_size,
    total,                   \* number of configured urls
    CIRCUIT_OPEN_THRESHOLD,
    PROBE_INTERVAL

ASSUME PoolAssumption ==
    /\ IsFiniteSet(Task)
    /\ pool_size \in Nat \ {0} /\ total \in Nat \ {0}
    /\ CIRCUIT_OPEN_THRESHOLD \in Nat \ {0} /\ PROBE_INTERVAL \in Nat

Url == 0 .. total - 1

VARIABLES
    state, consecutive_failures, age,  \* the breaker
    permits,                           \* free permits of the semaphore
    cursor,                            \* fetch_add counter, modulo total
    up,                                \* urls that accept a connection and bind
    pc,
    phase,                             \* 1: locate the DN, 2: bind as it
    start, offset,                     \* the loop of dial
    \* history variables
    steady                             \* urls up ever since the dial began

breaker == <<state, consecutive_failures, age>>
dialing == <<start, offset, steady>>
vars == <<breaker, permits, cursor, up, pc, phase, dialing>>

TypeOK ==
    /\ state \in {"Closed", "Open", "HalfOpen"}
    /\ consecutive_failures \in 0 .. CIRCUIT_OPEN_THRESHOLD
    /\ age \in 0 .. PROBE_INTERVAL
    /\ permits \in 0 .. pool_size
    /\ cursor \in Url
    /\ up \subseteq Url
    /\ pc \in [Task -> {"idle", "acquire", "waiting", "dial", "search", "bind"}]
    /\ phase \in [Task -> {1, 2}]
    /\ start \in [Task -> Url] /\ offset \in [Task -> Url]
    /\ steady \in [Task -> SUBSET Url]

Init ==
    /\ state = "Closed" /\ consecutive_failures = 0 /\ age = 0
    /\ permits = pool_size
    /\ cursor = 0
    /\ up = Url
    /\ pc = [t \in Task |-> "idle"]
    /\ phase = [t \in Task |-> 1]
    /\ start = [t \in Task |-> 0] /\ offset = [t \in Task |-> 0]
    /\ steady = [t \in Task |-> {}]

\* The call is answered; its loop variables are put back for the next one.
Finish(t) ==
    /\ pc' = [pc EXCEPT ![t] = "idle"]
    /\ phase' = [phase EXCEPT ![t] = 1]
    /\ start' = [start EXCEPT ![t] = 0]
    /\ offset' = [offset EXCEPT ![t] = 0]
    /\ steady' = [steady EXCEPT ![t] = {}]

GoTo(t, l) == pc' = [pc EXCEPT ![t] = l]

-----------------------------------------------------------------------------
\* Breaker::record_failure, record_success and try_half_open

record_failure ==
    /\ consecutive_failures' = IF consecutive_failures < CIRCUIT_OPEN_THRESHOLD
                               THEN consecutive_failures + 1
                               ELSE consecutive_failures
    /\ IF consecutive_failures' = CIRCUIT_OPEN_THRESHOLD
       THEN state' = "Open" /\ age' = 0
       ELSE UNCHANGED <<state, age>>

record_success == state' = "Closed" /\ consecutive_failures' = 0 /\ age' = 0

MayPass == state # "Open" \/ age = PROBE_INTERVAL

try_half_open ==
    /\ MayPass
    /\ state' = IF state = "Open" THEN "HalfOpen" ELSE state
    /\ UNCHANGED <<consecutive_failures, age>>

-----------------------------------------------------------------------------
\* bind_as_user enters phase 1.
bind_as_user(t) ==
    /\ pc[t] = "idle"
    /\ GoTo(t, "acquire")
    /\ UNCHANGED <<breaker, permits, cursor, up, phase, dialing>>

acquire_Restamp(t) ==
    /\ pc[t] = "acquire"
    /\ \/ /\ try_half_open
          /\ GoTo(t, "waiting")
          /\ UNCHANGED <<permits, cursor, up, phase, dialing>>
       \/ /\ ~ MayPass
          /\ age' = 0
          /\ Finish(t)
          /\ UNCHANGED <<state, consecutive_failures, permits, cursor, up>>

\* acquire: the breaker is asked first ...
acquire(t) ==
    /\ pc[t] = "acquire"
    /\ \/ /\ try_half_open
          /\ GoTo(t, "waiting")
          /\ UNCHANGED <<permits, cursor, up, phase, dialing>>
       \/ /\ ~ MayPass   \* LdapError::CircuitOpen
          /\ Finish(t)
          /\ UNCHANGED <<breaker, permits, cursor, up>>

\* ... then a permit is awaited; dial takes the next start url.
acquire_owned(t) ==
    /\ pc[t] = "waiting" /\ permits > 0
    /\ permits' = permits - 1
    /\ start' = [start EXCEPT ![t] = cursor]
    /\ offset' = [offset EXCEPT ![t] = 0]
    /\ steady' = [steady EXCEPT ![t] = up]
    /\ cursor' = (cursor + 1) % total
    /\ GoTo(t, "dial")
    /\ UNCHANGED <<breaker, up, phase>>

\* No permit within CONNECT_WAIT: LdapError::PoolExhausted.
PoolExhausted(t) ==
    /\ pc[t] = "waiting" /\ permits = 0
    /\ Finish(t)
    /\ UNCHANGED <<breaker, permits, cursor, up>>

url(t) == (start[t] + offset[t]) % total

\* dial_one succeeds on the current url: the connection goes to the caller.
dial_ok(t) ==
    /\ pc[t] = "dial" /\ url(t) \in up
    /\ record_success
    /\ GoTo(t, IF phase[t] = 1 THEN "search" ELSE "bind")
    /\ UNCHANGED <<permits, cursor, up, phase, dialing>>

\* It fails and the loop goes on to the next url ...
dial_next(t) ==
    /\ pc[t] = "dial" /\ url(t) \notin up /\ offset[t] < total - 1
    /\ offset' = [offset EXCEPT ![t] = @ + 1]
    /\ UNCHANGED <<breaker, permits, cursor, up, pc, phase, start, steady>>

\* ... or was the last: the failure is recorded and the permit returned.
dial_err_Leak(t) ==
    /\ pc[t] = "dial" /\ url(t) \notin up /\ offset[t] = total - 1
    /\ record_failure
    /\ Finish(t)
    /\ UNCHANGED <<permits, cursor, up>>

dial_err(t) ==
    /\ pc[t] = "dial" /\ url(t) \notin up /\ offset[t] = total - 1
    /\ record_failure
    /\ permits' = permits + 1
    /\ Finish(t)
    /\ UNCHANGED <<cursor, up>>

\* Phase 1 ends: the DN is found, the connection is dropped and phase 2
\* begins, or the search fails, times out or finds nothing.
search(t) ==
    /\ pc[t] = "search"
    /\ permits' = permits + 1
    /\ \/ /\ GoTo(t, "acquire")
          /\ phase' = [phase EXCEPT ![t] = 2]
          /\ UNCHANGED dialing
       \/ Finish(t)
    /\ UNCHANGED <<breaker, cursor, up>>

\* Phase 2 ends with any outcome.
simple_bind(t) ==
    /\ pc[t] = "bind"
    /\ permits' = permits + 1
    /\ Finish(t)
    /\ UNCHANGED <<breaker, cursor, up>>

Holding == {t \in Task : pc[t] \in {"dial", "search", "bind"}}

\* The caller's future is dropped at an await (there is none before the
\* breaker is asked); the permit it holds is released.
Drop(t) ==
    /\ pc[t] \notin {"idle", "acquire"}
    /\ permits' = IF t \in Holding THEN permits + 1 ELSE permits
    /\ Finish(t)
    /\ UNCHANGED <<breaker, cursor, up>>

Tick ==
    /\ state = "Open" /\ age < PROBE_INTERVAL
    /\ age' = age + 1
    /\ UNCHANGED <<state, consecutive_failures, permits, cursor, up, pc, phase, dialing>>

\* Servers become reachable or unreachable.
Directory ==
    /\ \E u \in Url : up' \in {up \cup {u}, up \ {u}}
    /\ steady' = [t \in Task |-> steady[t] \cap up']
    /\ UNCHANGED <<breaker, permits, cursor, pc, phase, start, offset>>

Step(t) ==
    \/ bind_as_user(t) \/ acquire(t) \/ acquire_owned(t) \/ PoolExhausted(t)
    \/ dial_ok(t) \/ dial_next(t) \/ dial_err(t) \/ search(t) \/ simple_bind(t)

Next == Tick \/ Directory \/ \E t \in Task : Step(t) \/ Drop(t)

Spec == Init /\ [][Next]_vars

\* Time passes, users keep logging in, every dial and operation ends (all
\* have timeouts), and of the calls that get to dial a reachable server not
\* all are dropped.
Fairness ==
    /\ WF_vars(Tick)
    /\ \A t \in Task : WF_vars(Step(t)) /\ SF_vars(acquire_owned(t)) /\ SF_vars(dial_ok(t))

FairSpec == Spec /\ Fairness

-----------------------------------------------------------------------------
\* Every permit is free or held by a call that dials or uses a connection:
\* each error path, phase change and dropped call of acquire and
\* bind_as_user returns exactly one.
PermitsConserved == permits + Cardinality(Holding) = pool_size

\* The breaker is closed exactly while fewer than CIRCUIT_OPEN_THRESHOLD
\* dials in a row have failed, whatever dials of before an opening still end
\* after it (record_failure, record_success, try_half_open).
BreakerConsistent == (state = "Closed") <=> (consecutive_failures < CIRCUIT_OPEN_THRESHOLD)

\* Failover: a dial that gives up has found every url down; none of them was
\* reachable all along ("Round-robin URL selection (with failover on connect
\* failure)").
FailsOverAll ==
    [][\A t \in Task : dial_err(t) => steady[t] = {}]_vars

\* With all servers reachable from some point on, an open circuit closes
\* again: no lost trial, exhausted pool or late failure keeps it open.
Recovers == <>[](up = Url) => []<>(state = "Closed")
=============================================================================
