------------------------------ MODULE PodProofs ------------------------------
(***************************************************************************)
(* Proofs about what runs in one pod: the safety properties of LdapPool,   *)
(* for any number of callers, permits, urls and any threshold; of          *)
(* SingleFlight, for any number of callers and loads; and of RateLimiter,  *)
(* for any number of requests, any burst, rate and length of a second.     *)
(***************************************************************************)
EXTENDS MCPod, FiniteSetTheorems, TLAPS

\* The remainder stays below the number of urls.
LEMMA ModUrl == \A n \in Nat : n % total \in Url
BY PoolAssumption, SMT DEF Url

\* Type correctness is inductive only together with the permits' account:
\* permits stays within pool_size because every one returned was taken.
Inv == TypeOK /\ PermitsConserved

\* Finitely many requests hold a permit.
LEMMA HoldingFinite == IsFiniteSet(Holding) /\ Cardinality(Holding) \in Nat
<1>1. Holding \subseteq Task
  BY Zenon DEF Holding
<1> QED
  BY <1>1, PoolAssumption, FS_Subset, FS_CardinalityType, Zenon

\* A call leaves or joins the holders: their number changes by one.
LEMMA Leave == ASSUME NEW t \in Holding, Holding' = Holding \ {t}
               PROVE  Cardinality(Holding') = Cardinality(Holding) - 1
BY HoldingFinite, FS_RemoveElement, Zenon

\* A request that takes a permit makes one more holder.
LEMMA Join == ASSUME NEW t, t \notin Holding, Holding' = Holding \cup {t}
              PROVE  Cardinality(Holding') = Cardinality(Holding) + 1
BY HoldingFinite, FS_AddElement, Zenon

\* A held permit leaves room to return it.
LEMMA Room == ASSUME Inv, NEW t \in Holding
              PROVE  permits + 1 \in 0 .. pool_size
<1>1. Cardinality(Holding) # 0
  BY HoldingFinite, FS_EmptySet, Zenon
<1> QED
  BY <1>1, HoldingFinite, PoolAssumption DEF Inv, TypeOK, PermitsConserved

\* The pool starts with every permit free.
LEMMA InitInv == Init => Inv
<1> SUFFICES ASSUME Init PROVE Inv
  BY Zenon
<1>1. TypeOK
  BY PoolAssumption DEF Init, TypeOK, Url
<1>2. Holding = {}
  BY Zenon DEF Init, Holding
<1> QED
  BY <1>1, <1>2, FS_EmptySet, PoolAssumption DEF Init, Inv, PermitsConserved

\* Every step of the pool conserves the permits.
LEMMA NextInv == Inv /\ [Next]_vars => Inv'
<1> SUFFICES ASSUME Inv, [Next]_vars PROVE Inv'
  BY Zenon
<1> USE PoolAssumption DEF Inv, TypeOK
<1>s. ASSUME TypeOK', Holding' = Holding, permits' = permits PROVE Inv'
  BY <1>s, HoldingFinite, Zenon DEF PermitsConserved
<1>r. ASSUME TypeOK', NEW t \in Holding, Holding' = Holding \ {t}, permits' = permits + 1
      PROVE  Inv'
  <2>1. Cardinality(Holding') = Cardinality(Holding) - 1
    BY <1>r, Leave, Zenon
  <2> HIDE DEF TypeOK
  <2>2. permits \in Nat /\ pool_size \in Nat
    BY DEF TypeOK
  <2>3. permits' + Cardinality(Holding') = pool_size
    BY <1>r, <2>1, <2>2, HoldingFinite DEF PermitsConserved
  <2> QED BY <1>r, <2>3, Zenon DEF PermitsConserved
<1>1. ASSUME NEW t \in Task, bind_as_user(t) PROVE Inv'
  BY <1>1, <1>s, Zenon DEF bind_as_user, GoTo, breaker, dialing, Holding
<1>2. ASSUME NEW t \in Task, acquire(t) PROVE Inv'
  <2>3. MayPass => TypeOK'
    BY <1>2, Zenon DEF acquire, try_half_open, GoTo, dialing
  <2>4. ASSUME ~ MayPass PROVE TypeOK'
    <3>1. Finish(t) /\ UNCHANGED <<breaker, permits, cursor, up>>
      BY <1>2, <2>4, Zenon DEF acquire, try_half_open
    <3> QED BY <3>1 DEF Finish, breaker, Url
  <2>1. TypeOK'
    BY <2>3, <2>4, Zenon
  <2>2. Holding' = Holding /\ permits' = permits
    BY <1>2, Zenon DEF acquire, GoTo, Finish, Holding
  <2> QED BY <2>1, <2>2, <1>s, Zenon
<1>3. ASSUME NEW t \in Task, acquire_owned(t) PROVE Inv'
  <2>1. TypeOK'
    BY <1>3, ModUrl DEF acquire_owned, GoTo, breaker, Url
  <2>2. t \notin Holding /\ Holding' = Holding \cup {t} /\ permits' = permits - 1
    BY <1>3, Zenon DEF acquire_owned, GoTo, Holding
  <2>3. Cardinality(Holding') = Cardinality(Holding) + 1
    BY <2>2, Join, Zenon
  <2> HIDE DEF TypeOK
  <2>4. permits \in Nat /\ pool_size \in Nat
    BY DEF TypeOK
  <2>5. permits' + Cardinality(Holding') = pool_size
    BY <2>2, <2>3, <2>4, HoldingFinite DEF PermitsConserved
  <2> QED BY <2>1, <2>5, Zenon DEF PermitsConserved
<1>4. ASSUME NEW t \in Task, PoolExhausted(t) PROVE Inv'
  <2>1. TypeOK'
    BY <1>4 DEF PoolExhausted, Finish, breaker, Url
  <2>2. Holding' = Holding /\ permits' = permits
    BY <1>4, Zenon DEF PoolExhausted, Finish, Holding
  <2> QED BY <2>1, <2>2, <1>s, Zenon
<1>5. ASSUME NEW t \in Task, dial_ok(t) PROVE Inv'
  <2>1. TypeOK'
    BY <1>5 DEF dial_ok, record_success, GoTo, dialing
  <2>2. Holding' = Holding /\ permits' = permits
    BY <1>5, Zenon DEF dial_ok, GoTo, Holding
  <2> QED BY <2>1, <2>2, <1>s, Zenon
<1>6. ASSUME NEW t \in Task, dial_next(t) PROVE Inv'
  BY <1>6, <1>s DEF dial_next, breaker, Holding, Url
<1>7. ASSUME NEW t \in Task, dial_err(t) PROVE Inv'
  <2>1. t \in Holding /\ Holding' = Holding \ {t} /\ permits' = permits + 1
    BY <1>7, Zenon DEF dial_err, Finish, Holding
  <2>2. TypeOK'
    BY <1>7, <2>1, Room DEF dial_err, record_failure, Finish, Url
  <2> QED BY <2>1, <2>2, <1>r, Zenon
<1>8. ASSUME NEW t \in Task, search(t) PROVE Inv'
  <2>1. t \in Holding /\ Holding' = Holding \ {t} /\ permits' = permits + 1
    BY <1>8, Zenon DEF search, Finish, GoTo, Holding
  <2>2. TypeOK'
    BY <1>8, <2>1, Room DEF search, GoTo, Finish, breaker, dialing, Url
  <2> QED BY <2>1, <2>2, <1>r, Zenon
<1>9. ASSUME NEW t \in Task, simple_bind(t) PROVE Inv'
  <2>1. t \in Holding /\ Holding' = Holding \ {t} /\ permits' = permits + 1
    BY <1>9, Zenon DEF simple_bind, Finish, Holding
  <2>2. TypeOK'
    BY <1>9, <2>1, Room DEF simple_bind, Finish, breaker, Url
  <2> QED BY <2>1, <2>2, <1>r, Zenon
<1>10. ASSUME NEW t \in Task, Drop(t) PROVE Inv'
  <2>1. CASE t \in Holding
    <3>1. Holding' = Holding \ {t} /\ permits' = permits + 1
      BY <1>10, <2>1, Zenon DEF Drop, Finish, Holding
    <3>2. TypeOK'
      BY <1>10, <2>1, <3>1, Room DEF Drop, Finish, breaker, Url
    <3> QED BY <2>1, <3>1, <3>2, <1>r, Zenon
  <2>2. CASE t \notin Holding
    <3>1. Holding' = Holding /\ permits' = permits
      BY <1>10, <2>2, Zenon DEF Drop, Finish, Holding
    <3>2. TypeOK'
      BY <1>10, <3>1 DEF Drop, Finish, breaker, Url
    <3> QED BY <3>1, <3>2, <1>s, Zenon
  <2> QED BY <2>1, <2>2, Zenon
<1>11. CASE Tick
  BY <1>11, <1>s DEF Tick, dialing, Holding
<1>12. CASE Directory
  <2>1. TypeOK'
    BY <1>12, Zenon DEF Directory, breaker
  <2> QED BY <2>1, <1>12, <1>s, Zenon DEF Directory, Holding
<1>13. CASE UNCHANGED vars
  BY <1>13, <1>s, Zenon DEF vars, breaker, dialing, Holding
<1> QED
  BY <1>1, <1>2, <1>3, <1>4, <1>5, <1>6, <1>7, <1>8, <1>9, <1>10, <1>11, <1>12, <1>13
  DEF Next, Step

\* In every behaviour the variables have their types and every permit is
\* free or held by exactly one call: acquire and bind_as_user neither leak
\* nor duplicate a permit, on no error path and wherever a call is dropped.
THEOREM PermitsCorrect == Spec => [](TypeOK /\ PermitsConserved)
<1>1. Inv => TypeOK /\ PermitsConserved
  BY Zenon DEF Inv
<1> QED
  BY <1>1, InitInv, NextInv, PTL DEF Spec

\* Every step keeps the breaker consistent with its count of failures.
LEMMA NextBreaker == Inv /\ BreakerConsistent /\ [Next]_vars => BreakerConsistent'
<1> SUFFICES ASSUME Inv, BreakerConsistent, [Next]_vars PROVE BreakerConsistent'
  BY Zenon
<1> USE PoolAssumption DEF BreakerConsistent
<1>t. state \in {"Closed", "Open", "HalfOpen"}
      /\ consecutive_failures \in 0 .. CIRCUIT_OPEN_THRESHOLD
  BY Zenon DEF Inv, TypeOK
<1>1. ASSUME NEW t \in Task, acquire(t) PROVE BreakerConsistent'
  BY <1>1, <1>t, Zenon DEF acquire, try_half_open, breaker
<1>2. ASSUME NEW t \in Task, dial_ok(t) PROVE BreakerConsistent'
  BY <1>2 DEF dial_ok, record_success
<1>3. ASSUME NEW t \in Task, dial_err(t) PROVE BreakerConsistent'
  BY <1>3, <1>t DEF dial_err, record_failure
<1>4. ASSUME NEW t \in Task,
             \/ bind_as_user(t) \/ acquire_owned(t) \/ PoolExhausted(t) \/ dial_next(t)
             \/ search(t) \/ simple_bind(t) \/ Drop(t)
      PROVE  BreakerConsistent'
  BY <1>4, Zenon DEF bind_as_user, acquire_owned, PoolExhausted, dial_next, search, simple_bind,
              Drop, breaker
<1>5. CASE Tick \/ Directory \/ UNCHANGED vars
  BY <1>5, Zenon DEF Tick, Directory, vars, breaker
<1> QED
  BY <1>1, <1>2, <1>3, <1>4, <1>5, Zenon DEF Next, Step

\* In every behaviour the breaker is closed exactly while fewer than
\* CIRCUIT_OPEN_THRESHOLD dials in a row have failed, in whatever order the
\* dials of concurrent calls end.
THEOREM BreakerCorrect == Spec => []BreakerConsistent
<1>1. Init => BreakerConsistent
  BY PoolAssumption DEF Init, BreakerConsistent
<1> QED
  BY <1>1, InitInv, NextInv, NextBreaker, PTL DEF Spec

\* The urls a dial has got past are those from its start on, each of them down
\* when it was tried: none has been up ever since the dial began.
Passed(t) == {(start[t] + i) % total : i \in 0 .. offset[t] - 1}
Tried ==
    /\ \A t \in Task : steady[t] \subseteq up
    /\ \A t \in Task : pc[t] = "dial" => Passed(t) \cap steady[t] = {}

\* The loop of dial comes round to every url: from any start, some offset below
\* total leads to it.
LEMMA RoundRobin == \A s, u \in Url : \E i \in 0 .. total - 1 : (s + i) % total = u
<1> SUFFICES ASSUME NEW s \in Url, NEW u \in Url
             PROVE  \E i \in 0 .. total - 1 : (s + i) % total = u
  BY Zenon
<1> USE PoolAssumption DEF Url
<1>1. CASE s <= u
  <2>1. u - s \in 0 .. total - 1 /\ s + (u - s) = u
    BY <1>1
  <2>2. u % total = u
    OBVIOUS
  <2> QED BY <2>1, <2>2, Zenon
<1>2. CASE u < s
  <2>1. u + total - s \in 0 .. total - 1 /\ s + (u + total - s) = u + total
    BY <1>2
  <2>2. (u + total) % total = u
    OBVIOUS
  <2> QED BY <2>1, <2>2, Zenon
<1> QED BY <1>1, <1>2

\* A server a request takes for steady has been up throughout its attempt.
LEMMA SteadyUp == Inv /\ Tried /\ [Next]_vars => \A t \in Task : steady'[t] \subseteq up'
<1> SUFFICES ASSUME Inv, Tried, [Next]_vars, NEW u \in Task PROVE steady'[u] \subseteq up'
  BY Zenon
<1>t. steady \in [Task -> SUBSET Url] /\ steady[u] \subseteq up
  BY Zenon DEF Inv, TypeOK, Tried
<1>1. ASSUME UNCHANGED <<steady, up>> PROVE steady'[u] \subseteq up'
  BY <1>1, <1>t, Zenon
<1>2. ASSUME NEW t \in Task, Finish(t), UNCHANGED up PROVE steady'[u] \subseteq up'
  BY <1>2, <1>t, Zenon DEF Finish
<1>3. ASSUME NEW t \in Task, acquire_owned(t) PROVE steady'[u] \subseteq up'
  BY <1>3, <1>t, Zenon DEF acquire_owned
<1>4. CASE Directory
  BY <1>4, <1>t, Zenon DEF Directory
<1>5. ASSUME NEW t \in Task, acquire(t) PROVE steady'[u] \subseteq up'
  BY <1>5, <1>1, <1>2, Zenon DEF acquire, dialing
<1>6. ASSUME NEW t \in Task, search(t) PROVE steady'[u] \subseteq up'
  BY <1>6, <1>1, <1>2, Zenon DEF search, dialing
<1>7. ASSUME NEW t \in Task, bind_as_user(t) \/ dial_ok(t) \/ dial_next(t)
      PROVE  steady'[u] \subseteq up'
  BY <1>7, <1>1, Zenon DEF bind_as_user, dial_ok, dial_next, dialing
<1>8. ASSUME NEW t \in Task, PoolExhausted(t) \/ dial_err(t) \/ simple_bind(t) \/ Drop(t)
      PROVE  steady'[u] \subseteq up'
  BY <1>8, <1>2, Zenon DEF PoolExhausted, dial_err, simple_bind, Drop
<1>9. CASE Tick \/ UNCHANGED vars
  BY <1>9, <1>1, Zenon DEF Tick, vars, dialing
<1> QED
  BY <1>3, <1>4, <1>5, <1>6, <1>7, <1>8, <1>9, Zenon DEF Next, Step

\* Every step keeps the account of the servers a request has tried.
LEMMA NextTried == Inv /\ Tried /\ [Next]_vars => Tried'
<1> SUFFICES ASSUME Inv, Tried, [Next]_vars, NEW u \in Task, pc'[u] = "dial"
             PROVE  (Passed(u) \cap steady[u] = {})'
  BY SteadyUp, Zenon DEF Tried
<1>t. /\ pc \in [Task -> {"idle", "acquire", "waiting", "dial", "search", "bind"}]
      /\ start \in [Task -> Url] /\ offset \in [Task -> Url]
      /\ steady \in [Task -> SUBSET Url]
  BY Zenon DEF Inv, TypeOK
<1>s. ASSUME pc[u] = "dial", start'[u] = start[u], offset'[u] = offset[u],
             steady'[u] \subseteq steady[u]
      PROVE  (Passed(u) \cap steady[u] = {})'
  BY <1>s, Zenon DEF Tried, Passed
<1>1. ASSUME NEW t \in Task, acquire_owned(t) PROVE (Passed(u) \cap steady[u] = {})'
  <2>1. CASE t = u
    <3>1. offset'[u] = 0
      BY <1>1, <1>t, <2>1, Zenon DEF acquire_owned
    <3> QED BY <3>1 DEF Passed
  <2>2. CASE t # u
    BY <1>1, <1>t, <1>s, <2>2, Zenon DEF acquire_owned, GoTo
  <2> QED BY <2>1, <2>2, Zenon
<1>2. ASSUME NEW t \in Task, dial_next(t) PROVE (Passed(u) \cap steady[u] = {})'
  <2>1. CASE t = u
    <3>1. /\ pc[u] = "dial" /\ start'[u] = start[u] /\ steady'[u] = steady[u]
          /\ offset'[u] = offset[u] + 1 /\ offset[u] \in Nat
      BY <1>2, <1>t, <2>1, PoolAssumption DEF dial_next, Url
    <3>2. Passed(u)' \subseteq Passed(u) \cup {url(u)}
      BY <3>1 DEF Passed, url
    <3>3. url(u) \notin steady[u]
      BY <1>2, <2>1, Zenon DEF dial_next, Tried
    <3> QED BY <3>1, <3>2, <3>3, Zenon DEF Tried
  <2>2. CASE t # u
    BY <1>2, <1>t, <1>s, <2>2, Zenon DEF dial_next
  <2> QED BY <2>1, <2>2, Zenon
<1>3. ASSUME NEW t \in Task, Finish(t) PROVE (Passed(u) \cap steady[u] = {})'
  <2>1. t # u
    BY <1>3, <1>t, Zenon DEF Finish
  <2> QED BY <1>3, <1>t, <1>s, <2>1, Zenon DEF Finish
<1>4. ASSUME pc'[u] = pc[u], UNCHANGED dialing PROVE (Passed(u) \cap steady[u] = {})'
  BY <1>4, <1>s, Zenon DEF dialing
<1>5. CASE Tick \/ UNCHANGED vars
  BY <1>5, <1>s, Zenon DEF Tick, vars, dialing
<1>6. CASE Directory
  BY <1>6, <1>t, <1>s, Zenon DEF Directory
<1>7. ASSUME NEW t \in Task, bind_as_user(t) \/ acquire(t) \/ search(t)
      PROVE  (Passed(u) \cap steady[u] = {})'
  <2>1. CASE Finish(t)
    BY <1>3, <2>1, Zenon
  <2>2. CASE GoTo(t, "acquire") \/ GoTo(t, "waiting")
    <3>1. pc'[u] = pc[u]
      BY <1>t, <2>2, Zenon DEF GoTo
    <3>2. ~ Finish(t)
      BY <1>t, <2>2, Zenon DEF GoTo, Finish
    <3>3. UNCHANGED dialing
      BY <1>7, <3>2, Zenon DEF bind_as_user, acquire, search
    <3> QED BY <1>4, <3>1, <3>3, Zenon
  <2> QED BY <1>7, <2>1, <2>2, Zenon DEF bind_as_user, acquire, search
<1>8. ASSUME NEW t \in Task, dial_ok(t) PROVE (Passed(u) \cap steady[u] = {})'
  <2>1. pc'[u] = pc[u]
    BY <1>8, <1>t, Zenon DEF dial_ok, GoTo
  <2> QED BY <1>8, <1>4, <2>1, Zenon DEF dial_ok
<1>9. ASSUME NEW t \in Task, PoolExhausted(t) \/ dial_err(t) \/ simple_bind(t) \/ Drop(t)
      PROVE  (Passed(u) \cap steady[u] = {})'
  BY <1>9, <1>3, Zenon DEF PoolExhausted, dial_err, simple_bind, Drop
<1> QED
  BY <1>1, <1>2, <1>5, <1>6, <1>7, <1>8, <1>9, Zenon DEF Next, Step

\* Whatever servers come and go while it dials, a call gives up only when no url
\* was reachable from beginning to end: for any number of urls the loop of dial
\* misses none.
THEOREM FailoverCorrect == Spec => FailsOverAll
<1>1. Init => Tried
  <2> SUFFICES ASSUME Init PROVE Tried
    BY Zenon
  <2> QED BY Zenon DEF Init, Tried
<1>2. ASSUME Inv, Tried, NEW t \in Task, dial_err(t) PROVE steady[t] = {}
  <2> SUFFICES ASSUME NEW u \in steady[t] PROVE FALSE
    BY Zenon
  <2>1. u \in Url /\ start[t] \in Url /\ pc[t] = "dial" /\ offset[t] = total - 1
    BY <1>2, Zenon DEF Inv, TypeOK, dial_err
  <2>2. PICK i \in 0 .. total - 1 : (start[t] + i) % total = u
    BY <2>1, RoundRobin, Zenon
  <2>3. CASE i = offset[t]
    BY <1>2, <2>2, <2>3, Zenon DEF dial_err, url, Tried
  <2>4. CASE i # offset[t]
    <3>1. i \in 0 .. offset[t] - 1
      BY <2>1, <2>2, <2>4, PoolAssumption
    <3>2. u \in Passed(t)
      BY <2>2, <3>1, Zenon DEF Passed
    <3> QED BY <1>2, <2>1, <3>2, Zenon DEF Tried
  <2> QED BY <2>3, <2>4, Zenon
<1>3. Inv /\ Tried => \A t \in Task : dial_err(t) => steady[t] = {}
  BY <1>2, Zenon
<1> QED
  BY <1>1, <1>3, InitInv, NextInv, NextTried, PTL DEF Spec, FailsOverAll

-----------------------------------------------------------------------------
(* The request coalescer.                                                  *)

\* The coalescer has its shape at first.
LEMMA FlightInitType == flight!Init => flight!TypeOK
BY DEF flight!Init, flight!TypeOK, flight!PC, flight!LeaderPC, flight!Outcome

\* Every step keeps the shape.
LEMMA FlightNextType == flight!TypeOK /\ [flight!Next]_flight_vars => flight!TypeOK'
<1> SUFFICES ASSUME flight!TypeOK, [flight!Next]_flight_vars PROVE flight!TypeOK'
  BY Zenon
<1> USE DEF flight!TypeOK, flight!PC, flight!LeaderPC, flight!Outcome, flight!GoTo, flight!Return
<1>1. ASSUME NEW c \in Caller, flight!get(c) PROVE flight!TypeOK'
  BY <1>1, Zenon DEF flight!get
<1>2. ASSUME NEW c \in Caller, flight!enter(c) PROVE flight!TypeOK'
  BY <1>2 DEF flight!enter
<1>3. ASSUME NEW c \in Caller, flight!loader(c) PROVE flight!TypeOK'
  BY <1>3, Zenon DEF flight!loader
<1>4. ASSUME NEW c \in Caller, flight!send(c) PROVE flight!TypeOK'
  BY <1>4 DEF flight!send, flight!Subscribed
<1>5. ASSUME NEW c \in Caller, flight!exit(c) PROVE flight!TypeOK'
  BY <1>5 DEF flight!exit
<1>6. ASSUME NEW c \in Caller, flight!put(c) PROVE flight!TypeOK'
  BY <1>6 DEF flight!put
<1>7. ASSUME NEW c \in Caller, flight!recv(c) PROVE flight!TypeOK'
  BY <1>7 DEF flight!recv
<1>8. CASE flight!Evict
  BY <1>8, Zenon DEF flight!Evict
<1>9. ASSUME NEW c \in Caller, flight!Drop(c) PROVE flight!TypeOK'
  <2>1. s_pc[c] = "loading" => chan[c] \in 1 .. loads
    OBVIOUS
  <2>2. s_lost' \subseteq 1 .. loads
    BY <2>1, <1>9, Zenon DEF flight!Drop
  <2> QED
    BY <2>2, <1>9 DEF flight!Drop
<1>10. CASE UNCHANGED flight_vars
  BY <1>10, Zenon DEF flight_vars
<1> QED
  BY <1>1, <1>2, <1>3, <1>4, <1>5, <1>6, <1>7, <1>8, <1>9, <1>10, Zenon DEF flight!Next, flight!Call

\* A leader's channel is the registered one and nobody else's; a registration
\* without a leader belongs to a dropped call.  This is what makes removing
\* the registration by key, in `exit`, safe.
LeaderInv ==
    /\ \A c \in Caller : s_pc[c] \in flight!LeaderPC => chan[c] = registry
    /\ flight!LoaderExclusive
    /\ flight!RegistrationHasLeader

\* Every step keeps it.
LEMMA NextLeader == flight!TypeOK /\ LeaderInv /\ [flight!Next]_flight_vars => LeaderInv'
<1> SUFFICES ASSUME flight!TypeOK, LeaderInv, [flight!Next]_flight_vars PROVE LeaderInv'
  BY Zenon
<1> USE DEF LeaderInv, flight!LoaderExclusive, flight!RegistrationHasLeader,
        flight!TypeOK, flight!PC, flight!LeaderPC, flight!Outcome, flight!GoTo, flight!Return
<1>1. ASSUME NEW c \in Caller, flight!get(c) PROVE LeaderInv'
  BY <1>1 DEF flight!get
<1>2. ASSUME NEW c \in Caller, flight!enter(c) PROVE LeaderInv'
  BY <1>2 DEF flight!enter
<1>3. ASSUME NEW c \in Caller, flight!loader(c) PROVE LeaderInv'
  BY <1>3 DEF flight!loader
<1>4. ASSUME NEW c \in Caller, flight!send(c) PROVE LeaderInv'
  BY <1>4 DEF flight!send
<1>5. ASSUME NEW c \in Caller, flight!exit(c) PROVE LeaderInv'
  BY <1>5 DEF flight!exit
<1>6. ASSUME NEW c \in Caller, flight!put(c) PROVE LeaderInv'
  BY <1>6 DEF flight!put
<1>7. ASSUME NEW c \in Caller, flight!recv(c) PROVE LeaderInv'
  BY <1>7 DEF flight!recv
<1>8. CASE flight!Evict
  BY <1>8, Zenon DEF flight!Evict
<1>9. ASSUME NEW c \in Caller, flight!Drop(c) PROVE LeaderInv'
  BY <1>9, Zenon DEF flight!Drop
<1>10. CASE UNCHANGED flight_vars
  BY <1>10, Zenon DEF flight_vars
<1> QED
  BY <1>1, <1>2, <1>3, <1>4, <1>5, <1>6, <1>7, <1>8, <1>9, <1>10, Zenon DEF flight!Next, flight!Call

\* It holds at first: nobody leads.
LEMMA InitLeader == flight!Init => LeaderInv
BY Zenon DEF flight!Init, LeaderInv, flight!LoaderExclusive, flight!RegistrationHasLeader, flight!LeaderPC

\* The loader of get_or_load never runs twice at the same time for a key, whatever
\* the number of callers, evictions and dropped calls; and after a load ends, with a
\* value or an error, its registration is gone: only a dropped leader leaves one.
THEOREM LoaderCorrect == flight!Spec => []LoaderSound
<1>1. LeaderInv => LoaderSound
  BY Zenon DEF LeaderInv, LoaderSound, flight!LoaderSound
<1>2. flight!Spec => flight!Init /\ [][flight!Next]_flight_vars
  BY PTL DEF flight!Spec, flight!vars, flight_vars
<1> QED
  BY <1>1, <1>2, FlightInitType, FlightNextType, InitLeader, NextLeader, PTL

-----------------------------------------------------------------------------
(* The rate limiter.                                                       *)

RatePC == {"idle", "insert", "load_last", "cas_last", "load_refill",
           "cas_refill", "load_consume", "cas_consume"}

\* The shape of the limiter.  A request that is to add a refill holds the span of time
\* it adds for.
RateShape ==
    /\ r_clock \in Nat /\ buckets \in {"none", "inserted"}
    /\ tokens \in Nat /\ last_refill_nanos \in Nat /\ last_refill_nanos <= r_clock
    /\ r_pc \in [Task -> RatePC]
    /\ now_ns \in [Task -> Nat] /\ last_ns \in [Task -> Nat] /\ cur \in [Task -> Nat]
    /\ granted \in Nat
    /\ \A t \in Task : /\ now_ns[t] <= r_clock
                       /\ r_pc[t] \in {"cas_last", "load_refill", "cas_refill"} => last_ns[t] < now_ns[t]
    /\ buckets = "none" =>
          /\ granted = 0 /\ tokens = capacity /\ last_refill_nanos = 0
          /\ \A t \in Task : r_pc[t] \in {"idle", "insert"}

\* The tokens that requests have taken time for and not added yet.
Refilling(t) == r_pc[t] \in {"load_refill", "cas_refill"}
Share(t, n) == {<<t, i>> : i \in 1..n}
Owed == UNION {Share(t, rate!add(t)) : t \in {u \in Task : Refilling(u)}}

\* What was granted, what is there and what is owed stay within the burst and the
\* time that was taken.
Budget ==
    /\ IsFiniteSet(Owed)
    /\ (granted + tokens + Cardinality(Owed)) * SEC <= capacity * SEC + refill_per_sec * last_refill_nanos

\* A share has as many elements as it has tokens.
LEMMA ShareSize ==
    ASSUME NEW t, NEW n \in Nat
    PROVE  IsFiniteSet(Share(t, n)) /\ Cardinality(Share(t, n)) = n
<1>1. IsFiniteSet(1..n) /\ Cardinality(1..n) = n
  BY FS_Interval
<1>2. [i \in 1..n |-> <<t, i>>] \in Bijection(1..n, Share(t, n))
  <2> DEFINE f == [i \in 1..n |-> <<t, i>>]
  <2>1. f \in [1..n -> Share(t, n)] /\ \A i \in 1..n : f[i] = <<t, i>>
    BY Zenon DEF Share
  <2>2. \A i, j \in 1..n : f[i] = f[j] => i = j
    BY <2>1, Zenon
  <2>3. \A x \in Share(t, n) : \E i \in 1..n : f[i] = x
    <3> SUFFICES ASSUME NEW x \in Share(t, n) PROVE \E i \in 1..n : f[i] = x
      BY Zenon
    <3>1. PICK i \in 1..n : x = <<t, i>>
      BY Zenon DEF Share
    <3> QED
      BY <2>1, <3>1, Zenon
  <2> HIDE DEF f
  <2>4. f \in Bijection(1..n, Share(t, n))
    BY <2>1, <2>2, <2>3, Zenon DEF Bijection, Injection, Surjection, IsInjective
  <2> QED
    BY <2>4, Zenon DEF f
<1> QED
  BY <1>1, <1>2, FS_Bijection DEF ExistsBijection

\* What a span of time is worth, rounded down.
LEMMA RefillWorth ==
    ASSUME NEW d \in Nat
    PROVE  (d * refill_per_sec) \div SEC \in Nat /\ ((d * refill_per_sec) \div SEC) * SEC <= refill_per_sec * d
<1>1. d * refill_per_sec \in Nat /\ d * refill_per_sec = refill_per_sec * d
  BY RateAssumption
<1>2. \A x \in Nat : x \div SEC \in Nat /\ (x \div SEC) * SEC <= x
  BY RateAssumption
<1> QED
  BY <1>1, <1>2, Zenon

\* The share of a request that refills.
LEMMA AddNat ==
    ASSUME RateShape, NEW t \in Task, last_ns[t] < now_ns[t]
    PROVE  /\ rate!add(t) \in Nat
           /\ rate!add(t) * SEC <= refill_per_sec * (now_ns[t] - last_ns[t])
<1>1. now_ns[t] - last_ns[t] \in Nat
  BY DEF RateShape
<1> QED
  BY <1>1, RefillWorth, Zenon DEF rate!add

\* Every step keeps the shape.
LEMMA NextRateShape == RateShape /\ [rate!Next]_rate_vars => RateShape'
<1> SUFFICES ASSUME RateShape, [rate!Next]_rate_vars PROVE RateShape'
  BY Zenon
<1> USE DEF RateShape, RatePC
<1>1. CASE rate!Tick
  BY <1>1 DEF rate!Tick, rate!locals
<1>2. ASSUME NEW t \in Task, rate!try_consume(t) PROVE RateShape'
  BY <1>2 DEF rate!try_consume, rate!GoTo
<1>3. ASSUME NEW t \in Task, rate!insert(t) PROVE RateShape'
  BY <1>3, RateAssumption DEF rate!insert, rate!GoTo
<1>4. ASSUME NEW t \in Task, rate!load_last(t) PROVE RateShape'
  <2>1. CASE r_pc' = [r_pc EXCEPT ![t] = "cas_last"] /\ now_ns[t] > last_refill_nanos
    BY <1>4, <2>1, Zenon DEF rate!load_last
  <2>2. CASE r_pc' = [r_pc EXCEPT ![t] = "load_consume"]
    BY <1>4, <2>2, Zenon DEF rate!load_last
  <2> QED
    BY <1>4, <2>1, <2>2, Zenon DEF rate!load_last, rate!GoTo
<1>5. ASSUME NEW t \in Task, rate!cas_last(t) PROVE RateShape'
  BY <1>5 DEF rate!cas_last, rate!GoTo, rate!locals
<1>6. ASSUME NEW t \in Task, rate!load_refill(t) PROVE RateShape'
  BY <1>6, Zenon DEF rate!load_refill, rate!GoTo
<1>7. ASSUME NEW t \in Task, rate!cas_refill(t) PROVE RateShape'
  <2>1. rate!add(t) \in Nat
    BY <1>7, AddNat, Zenon DEF rate!cas_refill
  <2>2. rate!Saturated(cur[t] + rate!add(t)) \in Nat
    BY <2>1, RateAssumption DEF rate!Saturated
  <2> QED
    BY <1>7, <2>2, Zenon DEF rate!cas_refill, rate!GoTo
<1>8. ASSUME NEW t \in Task, rate!load_consume(t) PROVE RateShape'
  BY <1>8, Zenon DEF rate!load_consume, rate!GoTo
<1>9. ASSUME NEW t \in Task, rate!cas_consume(t) PROVE RateShape'
  <2>1. CASE rate!Return(t) /\ UNCHANGED <<tokens, granted>>
    BY <1>9, <2>1 DEF rate!cas_consume, rate!Return, rate!GoTo
  <2>2. CASE cur[t] # 0 /\ tokens' = cur[t] - 1 /\ granted' = granted + 1 /\ rate!Return(t)
    BY <1>9, <2>2 DEF rate!cas_consume, rate!Return, rate!GoTo
  <2>3. CASE cur' = [cur EXCEPT ![t] = tokens] /\ UNCHANGED <<tokens, r_pc, now_ns, last_ns, granted>>
    BY <1>9, <2>3, Zenon DEF rate!cas_consume
  <2> QED
    BY <1>9, <2>1, <2>2, <2>3, Zenon DEF rate!cas_consume
<1>10. CASE UNCHANGED rate_vars
  BY <1>10, Zenon DEF rate_vars
<1> QED
  BY <1>1, <1>2, <1>3, <1>4, <1>5, <1>6, <1>7, <1>8, <1>9, <1>10, Zenon DEF rate!Next, rate!Check

\* A step that moves no refill leaves what is owed.
LEMMA OwedFrame ==
    ASSUME \A t \in Task : Refilling(t)' <=> Refilling(t),
           \A t \in Task : Refilling(t) => now_ns'[t] = now_ns[t] /\ last_ns'[t] = last_ns[t]
    PROVE  Owed' = Owed
<1>1. {t \in Task : Refilling(t)'} = {t \in Task : Refilling(t)}
  BY Zenon
<1>2. \A t \in Task : Refilling(t) => rate!add(t)' = rate!add(t)
  BY Zenon DEF rate!add
<1>3. ASSUME NEW x PROVE x \in Owed' <=> x \in Owed
  BY <1>1, <1>2 DEF Owed, Share
<1> QED
  BY <1>3, Zenon

\* A request that has moved the time stamp owes its share, and nobody else's changes.
LEMMA OwedTakes ==
    ASSUME NEW t \in Task, ~Refilling(t), Refilling(t)', UNCHANGED <<now_ns, last_ns>>,
           \A u \in Task \ {t} : Refilling(u)' <=> Refilling(u)
    PROVE  /\ Owed' = Owed \cup Share(t, rate!add(t)) /\ Owed \cap Share(t, rate!add(t)) = {}
<1>1. \A u \in Task : rate!add(u)' = rate!add(u)
  BY Zenon DEF rate!add
<1>2. ASSUME NEW x PROVE x \in Owed' <=> x \in Owed \cup Share(t, rate!add(t))
  BY <1>1 DEF Owed, Share
<1>3. ASSUME NEW x \in Owed, x \in Share(t, rate!add(t)) PROVE FALSE
  <2>1. PICK u \in Task : Refilling(u) /\ x \in Share(u, rate!add(u))
    BY Zenon DEF Owed
  <2>2. u = t
    BY <1>3, <2>1 DEF Share
  <2> QED
    BY <2>1, <2>2, Zenon
<1> QED
  BY <1>2, <1>3, Zenon

\* A request that adds its refill owes nothing any more.
LEMMA OwedPays ==
    ASSUME NEW t \in Task, Refilling(t), ~Refilling(t)', UNCHANGED <<now_ns, last_ns>>,
           \A u \in Task \ {t} : Refilling(u)' <=> Refilling(u)
    PROVE  /\ Owed = Owed' \cup Share(t, rate!add(t)) /\ Owed' \cap Share(t, rate!add(t)) = {}
<1>1. \A u \in Task : rate!add(u)' = rate!add(u)
  BY Zenon DEF rate!add
<1>2. ASSUME NEW x PROVE x \in Owed <=> x \in Owed' \cup Share(t, rate!add(t))
  BY <1>1 DEF Owed, Share
<1>3. ASSUME NEW x \in Owed', x \in Share(t, rate!add(t)) PROVE FALSE
  <2>1. PICK u \in Task : Refilling(u)' /\ x \in Share(u, rate!add(u))
    BY <1>1, Zenon DEF Owed, Share
  <2>2. u = t
    BY <1>3, <2>1 DEF Share
  <2> QED
    BY <2>1, <2>2, Zenon
<1> QED
  BY <1>2, <1>3, Zenon

\* Linear reasoning under a factor.
LEMMA Scale ==
    ASSUME NEW a \in Nat, NEW b \in Nat, NEW c \in Nat
    PROVE  (a + b) * c = a * c + b * c /\ (a <= b => a * c <= b * c) /\ a * c \in Nat
  OBVIOUS

\* A smaller sum stays below a bound, under a factor and with a summand more.
LEMMA Below ==
    ASSUME NEW g \in Nat, NEW t \in Nat, NEW h \in Nat, NEW u \in Nat, NEW n \in Nat,
           NEW c \in Nat, NEW b \in Nat, h + u <= g + t, (g + t + n) * c <= b
    PROVE  (h + u + n) * c <= b
<1>1. h + u + n \in Nat /\ g + t + n \in Nat /\ h + u + n <= g + t + n
  OBVIOUS
<1>2. (h + u + n) * c <= (g + t + n) * c /\ (h + u + n) * c \in Nat /\ (g + t + n) * c \in Nat
  BY <1>1, Scale, Zenon
<1> QED
  BY <1>2

\* A step that moves no refill and grants no more than it consumes.
LEMMA BudgetFrame ==
    ASSUME RateShape, RateShape', Budget, Owed' = Owed,
           granted' + tokens' <= granted + tokens, last_refill_nanos' = last_refill_nanos
    PROVE  Budget'
<1>0. PICK n : n = Cardinality(Owed) /\ n = Cardinality(Owed')
  BY Zenon
<1>1. IsFiniteSet(Owed) /\ n \in Nat
  BY <1>0, FS_CardinalityType, Zenon DEF Budget
<1>2. PICK b : b = capacity * SEC + refill_per_sec * last_refill_nanos
  BY Zenon
<1>3. b \in Nat
  <2>1. capacity * SEC \in Nat /\ refill_per_sec * last_refill_nanos \in Nat
    BY Scale, RateAssumption, Zenon DEF RateShape
  <2> QED
    BY <1>2, <2>1
<1>4. (granted + tokens + n) * SEC <= b
  BY <1>0, <1>2, Zenon DEF Budget
<1>5. granted \in Nat /\ tokens \in Nat /\ granted' \in Nat /\ tokens' \in Nat /\ SEC \in Nat
  BY RateAssumption, Zenon DEF RateShape
<1>6. (granted' + tokens' + n) * SEC <= b
  BY <1>1, <1>3, <1>4, <1>5, Below, Zenon
<1> QED
  BY <1>0, <1>1, <1>2, <1>6, Zenon DEF Budget

\* The time stamp moves: what is owed grows by what the time is worth.
LEMMA BudgetTakes ==
    ASSUME RateShape, RateShape', Budget, NEW t \in Task, r_pc[t] = "cas_last",
           last_refill_nanos = last_ns[t], last_refill_nanos' = now_ns[t],
           r_pc' = [r_pc EXCEPT ![t] = "load_refill"],
           UNCHANGED <<tokens, granted, now_ns, last_ns>>
    PROVE  Budget'
<1> DEFINE n == Cardinality(Owed)
           k == rate!add(t)
           d == now_ns[t] - last_ns[t]
<1>0. /\ granted \in Nat /\ tokens \in Nat /\ now_ns[t] \in Nat /\ last_ns[t] \in Nat
      /\ last_ns[t] < now_ns[t] /\ d \in Nat
  BY DEF RateShape
<1>1. k \in Nat /\ k * SEC <= refill_per_sec * d
  BY <1>0, AddNat, Zenon
<1>2. IsFiniteSet(Owed) /\ n \in Nat
  BY FS_CardinalityType, Zenon DEF Budget
<1>3. Owed' = Owed \cup Share(t, k) /\ Owed \cap Share(t, k) = {}
  <2>1. ~Refilling(t) /\ Refilling(t)' /\ \A u \in Task \ {t} : Refilling(u)' <=> Refilling(u)
    BY Zenon DEF Refilling, RateShape
  <2> QED
    BY <2>1, OwedTakes, Zenon
<1>4. IsFiniteSet(Owed') /\ Cardinality(Owed') = n + k
  <2>1. IsFiniteSet(Share(t, k)) /\ Cardinality(Share(t, k)) = k
    BY <1>1, ShareSize, Zenon
  <2>2. Cardinality({}) = 0
    BY FS_EmptySet, Zenon
  <2>3. IsFiniteSet(Owed \cup Share(t, k)) /\ Cardinality(Owed \cup Share(t, k)) = n + k - 0
    BY <1>2, <1>3, <2>1, <2>2, FS_Union
  <2> QED
    BY <1>1, <1>2, <1>3, <2>3
<1>5. (granted + tokens + n) * SEC <= capacity * SEC + refill_per_sec * last_ns[t]
  BY Zenon DEF Budget
<1> HIDE DEF n, k
<1>6. (granted + tokens + (n + k)) * SEC = (granted + tokens + n) * SEC + k * SEC
  <2>1. granted + tokens + n \in Nat /\ granted + tokens + (n + k) = (granted + tokens + n) + k /\ SEC \in Nat
    BY <1>0, <1>1, <1>2, RateAssumption
  <2> QED
    BY <1>1, <2>1, Scale
<1>7. refill_per_sec * now_ns[t] = refill_per_sec * last_ns[t] + refill_per_sec * d
  <2>1. now_ns[t] = last_ns[t] + d
    BY <1>0
  <2>2. (last_ns[t] + d) * refill_per_sec = last_ns[t] * refill_per_sec + d * refill_per_sec
    BY <1>0, Scale, RateAssumption
  <2>3. \A x, y \in Nat : x * y = y * x
    OBVIOUS
  <2> HIDE DEF d
  <2> QED
    BY <1>0, <2>1, <2>2, <2>3, RateAssumption, Zenon
<1>8. /\ (granted + tokens + n) * SEC \in Nat /\ k * SEC \in Nat /\ capacity * SEC \in Nat
      /\ refill_per_sec * last_ns[t] \in Nat /\ refill_per_sec * d \in Nat
  <2>1. granted + tokens + n \in Nat /\ SEC \in Nat
    BY <1>0, <1>1, <1>2, RateAssumption
  <2> HIDE DEF d
  <2> QED
    BY <1>0, <1>1, <2>1, Scale, RateAssumption, Zenon
<1> HIDE DEF d
<1>9. (granted + tokens + (n + k)) * SEC <= capacity * SEC + refill_per_sec * now_ns[t]
  BY <1>1, <1>5, <1>6, <1>7, <1>8
<1> QED
  BY <1>4, <1>9, Zenon DEF Budget

\* The refill is added: what is owed becomes tokens, up to the capacity.
LEMMA BudgetPays ==
    ASSUME RateShape, RateShape', Budget, NEW t \in Task, r_pc[t] = "cas_refill", tokens = cur[t],
           tokens' = rate!Saturated(cur[t] + rate!add(t)),
           r_pc' = [r_pc EXCEPT ![t] = "load_consume"],
           UNCHANGED <<last_refill_nanos, granted, now_ns, last_ns>>
    PROVE  Budget'
<1> DEFINE n == Cardinality(Owed')
           k == rate!add(t)
<1>0. granted \in Nat /\ tokens \in Nat /\ tokens' \in Nat /\ last_ns[t] < now_ns[t] /\ last_refill_nanos \in Nat
  BY Zenon DEF RateShape
<1>1. k \in Nat
  BY <1>0, AddNat, Zenon
<1>2. Owed = Owed' \cup Share(t, k) /\ Owed' \cap Share(t, k) = {}
  <2>1. Refilling(t) /\ ~Refilling(t)' /\ \A u \in Task \ {t} : Refilling(u)' <=> Refilling(u)
    BY Zenon DEF Refilling, RateShape
  <2> QED
    BY <2>1, OwedPays, Zenon
<1>3. IsFiniteSet(Owed') /\ n \in Nat /\ Cardinality(Owed) = n + k
  <2>0. IsFiniteSet(Owed')
    BY <1>2, FS_Subset DEF Budget
  <2>1. IsFiniteSet(Share(t, k)) /\ Cardinality(Share(t, k)) = k
    BY <1>1, ShareSize, Zenon
  <2>2. Cardinality({}) = 0
    BY FS_EmptySet, Zenon
  <2>3. n \in Nat
    BY <2>0, FS_CardinalityType, Zenon
  <2> QED
    BY <1>1, <1>2, <2>0, <2>1, <2>2, <2>3, FS_Union
<1>4. (granted + tokens + (n + k)) * SEC <= capacity * SEC + refill_per_sec * last_refill_nanos
  BY <1>3, Zenon DEF Budget
<1> HIDE DEF n, k
<1>5. tokens' <= tokens + k
  BY <1>0, <1>1, RateAssumption DEF rate!Saturated, k
<1>6. (granted + tokens' + n) * SEC <= (granted + tokens + (n + k)) * SEC
  <2>1. /\ granted + tokens' + n \in Nat /\ granted + tokens + (n + k) \in Nat /\ SEC \in Nat
        /\ granted + tokens' + n <= granted + tokens + (n + k)
    BY <1>0, <1>1, <1>3, <1>5, RateAssumption
  <2> QED
    BY <2>1, Scale, Zenon
<1>7. /\ (granted + tokens' + n) * SEC \in Nat /\ (granted + tokens + (n + k)) * SEC \in Nat
      /\ capacity * SEC + refill_per_sec * last_refill_nanos \in Nat
  <2>1. granted + tokens' + n \in Nat /\ granted + tokens + (n + k) \in Nat /\ SEC \in Nat
        /\ capacity \in Nat /\ refill_per_sec \in Nat
    BY <1>0, <1>1, <1>3, RateAssumption
  <2>2. capacity * SEC \in Nat /\ refill_per_sec * last_refill_nanos \in Nat
    BY <1>0, <2>1, Scale, Zenon
  <2> QED
    BY <2>1, <2>2, Scale
<1>8. (granted + tokens' + n) * SEC <= capacity * SEC + refill_per_sec * last_refill_nanos
  BY <1>4, <1>6, <1>7
<1> QED
  BY <1>3, <1>8, Zenon DEF Budget, n

\* Every step stays within the budget.
LEMMA NextBudget == RateShape /\ RateShape' /\ Budget /\ [rate!Next]_rate_vars => Budget'
<1> SUFFICES ASSUME RateShape, RateShape', Budget, [rate!Next]_rate_vars PROVE Budget'
  BY Zenon
<1>0. granted \in Nat /\ tokens \in Nat /\ granted + tokens <= granted + tokens
  BY DEF RateShape
<1>a. ASSUME NEW t \in Task, \A u \in Task \ {t} : r_pc'[u] = r_pc[u] /\ now_ns'[u] = now_ns[u] /\ last_ns'[u] = last_ns[u],
             Refilling(t)' <=> Refilling(t),
             Refilling(t) => now_ns'[t] = now_ns[t] /\ last_ns'[t] = last_ns[t],
             granted' + tokens' <= granted + tokens, last_refill_nanos' = last_refill_nanos
      PROVE  Budget'
  <2>1. \A u \in Task : Refilling(u)' <=> Refilling(u)
    BY <1>a, Zenon DEF Refilling
  <2>2. \A u \in Task : Refilling(u) => now_ns'[u] = now_ns[u] /\ last_ns'[u] = last_ns[u]
    BY <1>a, Zenon
  <2>3. Owed' = Owed
    BY <2>1, <2>2, OwedFrame, Zenon
  <2> QED
    BY <1>a, <2>3, BudgetFrame, Zenon
<1>1. CASE rate!Tick \/ UNCHANGED rate_vars
  <2>1. UNCHANGED <<r_pc, now_ns, last_ns, granted, tokens, last_refill_nanos>>
    BY <1>1, Zenon DEF rate!Tick, rate!locals, rate_vars
  <2>2. Owed' = Owed
    BY <2>1, OwedFrame, Zenon DEF Refilling
  <2> QED
    BY <1>0, <2>1, <2>2, BudgetFrame, Zenon
<1>2. ASSUME NEW t \in Task, rate!try_consume(t) PROVE Budget'
  BY <1>0, <1>2, <1>a, Zenon DEF rate!try_consume, rate!GoTo, Refilling, RateShape
<1>3. ASSUME NEW t \in Task, rate!insert(t) PROVE Budget'
  BY <1>0, <1>3, <1>a, Zenon DEF rate!insert, rate!GoTo, Refilling, RateShape
<1>4. ASSUME NEW t \in Task, rate!load_last(t) PROVE Budget'
  BY <1>0, <1>4, <1>a, Zenon DEF rate!load_last, rate!GoTo, Refilling, RateShape
<1>5. ASSUME NEW t \in Task, rate!cas_last(t) PROVE Budget'
  <2>1. CASE last_refill_nanos = last_ns[t]
    BY <1>5, <2>1, BudgetTakes, Zenon DEF rate!cas_last, rate!GoTo, rate!locals
  <2>2. CASE last_refill_nanos # last_ns[t]
    BY <1>0, <1>5, <1>a, <2>2, Zenon DEF rate!cas_last, rate!GoTo, rate!locals, Refilling, RateShape
  <2> QED
    BY <2>1, <2>2, Zenon
<1>6. ASSUME NEW t \in Task, rate!load_refill(t) PROVE Budget'
  BY <1>0, <1>6, <1>a, Zenon DEF rate!load_refill, rate!GoTo, Refilling, RateShape
<1>7. ASSUME NEW t \in Task, rate!cas_refill(t) PROVE Budget'
  <2>1. CASE tokens = cur[t] /\ tokens' = rate!Saturated(cur[t] + rate!add(t)) /\ rate!GoTo(t, "load_consume")
    BY <1>7, <2>1, BudgetPays, Zenon DEF rate!cas_refill, rate!GoTo
  <2>2. CASE UNCHANGED <<tokens, r_pc>>
    <3>1. UNCHANGED <<r_pc, now_ns, last_ns, granted, tokens, last_refill_nanos>>
      BY <1>7, <2>2, Zenon DEF rate!cas_refill
    <3>2. Owed' = Owed
      BY <3>1, OwedFrame, Zenon DEF Refilling
    <3> QED
      BY <1>0, <3>1, <3>2, BudgetFrame, Zenon
  <2>3. \/ tokens = cur[t] /\ tokens' = rate!Saturated(cur[t] + rate!add(t)) /\ rate!GoTo(t, "load_consume")
        \/ UNCHANGED <<tokens, r_pc>>
    BY <1>7, Zenon DEF rate!cas_refill
  <2> QED
    BY <2>1, <2>2, <2>3, Zenon
<1>8. ASSUME NEW t \in Task, rate!load_consume(t) PROVE Budget'
  BY <1>0, <1>8, <1>a, Zenon DEF rate!load_consume, rate!GoTo, Refilling, RateShape
<1>9. ASSUME NEW t \in Task, rate!cas_consume(t) PROVE Budget'
  <2>0. \/ granted' = granted /\ tokens' = tokens
        \/ tokens # 0 /\ tokens' = tokens - 1 /\ granted' = granted + 1
    BY <1>9, Zenon DEF rate!cas_consume
  <2>1. granted' + tokens' <= granted + tokens /\ last_refill_nanos' = last_refill_nanos
    <3>1. \A g, u \in Nat : u # 0 => (g + 1) + (u - 1) <= g + u
      OBVIOUS
    <3>2. last_refill_nanos' = last_refill_nanos
      BY <1>9, Zenon DEF rate!cas_consume
    <3>3. CASE granted' = granted /\ tokens' = tokens
      BY <1>0, <3>2, <3>3, Zenon
    <3>4. CASE tokens # 0 /\ tokens' = tokens - 1 /\ granted' = granted + 1
      <4>1. (granted + 1) + (tokens - 1) <= granted + tokens
        BY <1>0, <3>1, <3>4, Zenon
      <4> QED
        BY <3>2, <3>4, <4>1, Zenon
    <3> QED
      BY <2>0, <3>3, <3>4, Zenon
  <2> QED
    BY <1>9, <1>a, <2>1, Zenon DEF rate!cas_consume, rate!Return, rate!GoTo, Refilling, RateShape
<1> QED
  BY <1>1, <1>2, <1>3, <1>4, <1>5, <1>6, <1>7, <1>8, <1>9, Zenon DEF rate!Next, rate!Check

\* Whatever the interleaving of refills and consumptions, and for any burst, rate, unit
\* of the clock and number of requests: no more of them pass than the burst and the
\* refill rate allow (Bucket::try_consume).
THEOREM RateCorrect == rate!Spec => []WithinRate
<1>1. rate!Init => RateShape
  BY RateAssumption DEF rate!Init, RateShape, RatePC
<1>2. rate!Init => Budget
  <2> SUFFICES ASSUME rate!Init PROVE Budget
    BY Zenon
  <2>1. Owed = {}
    BY Zenon DEF rate!Init, Owed, Refilling
  <2>2. IsFiniteSet(Owed) /\ Cardinality(Owed) = 0
    BY <2>1, FS_EmptySet, Zenon
  <2> QED
    BY <2>2, RateAssumption DEF rate!Init, Budget
<1>3. RateShape /\ Budget => WithinRate
  <2> SUFFICES ASSUME RateShape, Budget PROVE WithinRate
    BY Zenon
  <2> DEFINE n == Cardinality(Owed)
  <2>1. n \in Nat /\ granted \in Nat /\ tokens \in Nat /\ last_refill_nanos \in Nat /\ r_clock \in Nat
        /\ last_refill_nanos <= r_clock
    BY FS_CardinalityType, Zenon DEF Budget, RateShape
  <2>2. (granted + tokens + n) * SEC <= capacity * SEC + refill_per_sec * last_refill_nanos
    BY Zenon DEF Budget
  <2> HIDE DEF n
  <2>3. granted * SEC <= (granted + tokens + n) * SEC
    <3>1. granted <= granted + tokens + n /\ granted + tokens + n \in Nat /\ SEC \in Nat
      BY <2>1, RateAssumption
    <3> QED
      BY <2>1, <3>1, Scale, Zenon
  <2>4. refill_per_sec * last_refill_nanos <= refill_per_sec * r_clock
    <3>1. last_refill_nanos * refill_per_sec <= r_clock * refill_per_sec
      BY <2>1, Scale, RateAssumption, Zenon
    <3>2. \A x, y \in Nat : x * y = y * x
      OBVIOUS
    <3> QED
      BY <2>1, <3>1, <3>2, RateAssumption, Zenon
  <2>5. /\ granted * SEC \in Nat /\ (granted + tokens + n) * SEC \in Nat /\ capacity * SEC \in Nat
        /\ refill_per_sec * last_refill_nanos \in Nat /\ refill_per_sec * r_clock \in Nat
    <3>1. granted + tokens + n \in Nat
      BY <2>1
    <3> QED
      BY <2>1, <3>1, Scale, RateAssumption, Zenon
  <2> QED
    BY <2>2, <2>3, <2>4, <2>5 DEF WithinRate, rate!WithinRate
<1>4. [rate!Next]_(rate!vars) => [rate!Next]_rate_vars
  BY Zenon DEF rate!vars, rate!locals, rate_vars
<1>5. rate!Spec => rate!Init /\ [][rate!Next]_rate_vars
  BY <1>4, PTL DEF rate!Spec
<1> QED
  BY <1>1, <1>2, <1>3, <1>5, NextRateShape, NextBudget, PTL
=============================================================================
