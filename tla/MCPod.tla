------------------------------- MODULE MCPod -------------------------------
\* Model-checking instances of what the tasks of one pod share, one of them in
\* each behaviour: the LDAP connection pool (LdapPool, extended), the request
\* coalescer in front of the cache (SingleFlight) and the rate limiter
\* (RateLimiter).  Without symmetry: the first two have liveness properties.
EXTENDS LdapPool

CONSTANTS
    Caller, MaxLoads, MayDrop,
    capacity, refill_per_sec, SEC, RateTime

\* A second has at least one unit of the clock.
ASSUME RateAssumption ==
    capacity \in Nat /\ refill_per_sec \in Nat /\ SEC \in Nat \ {0} /\ RateTime \in Nat

VARIABLES
    part,
    cached, registry, loads, s_pc, chan, result, mail, s_lost,
    r_clock, buckets, tokens, last_refill_nanos, r_pc, now_ns, last_ns, cur, granted

flight_vars == <<cached, registry, loads, s_pc, chan, result, mail, s_lost>>
rate_vars ==
    <<r_clock, buckets, tokens, last_refill_nanos, r_pc, now_ns, last_ns, cur, granted>>

flight == INSTANCE SingleFlight WITH pc <- s_pc, lost <- s_lost

rate == INSTANCE RateLimiter WITH MaxTime <- RateTime, clock <- r_clock, pc <- r_pc

MCInit == part \in {"pool", "flight", "rate"} /\ Init /\ flight!Init /\ rate!Init

InPool(A) == part = "pool" /\ A /\ UNCHANGED <<part, flight_vars, rate_vars>>
InFlight(A) == part = "flight" /\ A /\ UNCHANGED <<part, vars, rate_vars>>
InRate(A) == part = "rate" /\ A /\ UNCHANGED <<part, vars, flight_vars>>

MCNext == InPool(Next) \/ InFlight(flight!Next) \/ InRate(rate!Next)

MCVars == <<part, vars, flight_vars, rate_vars>>

\* Fairness of LdapPool and FairSpec of SingleFlight, each in its own part.
MCFairness ==
    /\ WF_MCVars(InPool(Tick))
    /\ \A t \in Task :
          /\ WF_MCVars(InPool(Step(t)))
          /\ SF_MCVars(InPool(acquire_owned(t)))
          /\ SF_MCVars(InPool(dial_ok(t)))
    /\ \A c \in Caller : WF_MCVars(InFlight(flight!Call(c)))

MCSpec == MCInit /\ [][MCNext]_MCVars /\ MCFairness

\* See SingleFlight: one load at a time for a key, by whom the registry names.
LoaderSound == flight!LoaderSound

\* See SingleFlight: who subscribes while the leader loads is answered.
EarlyWaiterServed == flight!EarlyWaiterServed

\* See SingleFlight: what the doc comment promises every concurrent caller.
WaiterServed == flight!WaiterServed

\* See RateLimiter: no more requests pass than burst and refill rate allow.
WithinRate == rate!WithinRate
=============================================================================
