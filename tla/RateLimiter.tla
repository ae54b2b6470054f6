---------------------------- MODULE RateLimiter ----------------------------
(***************************************************************************)
(* The per-pod rate limiter of geonosis-server for one realm: the lazily   *)
(* created bucket of PerRealmRateLimiter and the lock-free try_consume of  *)
(* Bucket, one atomic operation per step, under concurrent requests.       *)
(*                                                                         *)
(* compare_exchange_weak may fail although the value is the expected one;  *)
(* the loop then goes round with the value it found.                       *)
(***************************************************************************)
EXTENDS Naturals

CONSTANTS
    Task,            \* requests being checked
    capacity,
    refill_per_sec,
    SEC,             \* clock units in a second (1_000_000_000 in the code)
    MaxTime          \* bound on the clock

VARIABLES
    clock,              \* time since `base`
    buckets,            \* "none" until the realm's bucket is inserted
    tokens,
    last_refill_nanos,
    pc,
    now_ns,
    last_ns,            \* the task's last load of last_refill_nanos
    cur,                \* ... and of tokens
    \* history variable
    granted             \* requests let through

locals == <<now_ns, last_ns, cur>>
vars == <<clock, buckets, tokens, last_refill_nanos, pc, locals, granted>>

TypeOK ==
    /\ clock \in 0 .. MaxTime
    /\ buckets \in {"none", "inserted"}
    /\ tokens \in 0 .. capacity
    /\ last_refill_nanos \in 0 .. clock
    /\ pc \in [Task -> {"idle", "insert", "load_last", "cas_last", "load_refill",
                        "cas_refill", "load_consume", "cas_consume"}]
    /\ now_ns \in [Task -> 0 .. clock]
    /\ last_ns \in [Task -> 0 .. clock]
    /\ cur \in [Task -> 0 .. capacity]
    /\ granted \in Nat

Init ==
    /\ clock = 0
    /\ buckets = "none" /\ tokens = capacity /\ last_refill_nanos = 0
    /\ pc = [t \in Task |-> "idle"]
    /\ now_ns = [t \in Task |-> 0]
    /\ last_ns = [t \in Task |-> 0]
    /\ cur = [t \in Task |-> 0]
    /\ granted = 0

GoTo(t, l) == pc' = [pc EXCEPT ![t] = l]

\* The answer; the locals are put back for the next request.
Return(t) ==
    /\ GoTo(t, "idle")
    /\ now_ns' = [now_ns EXCEPT ![t] = 0]
    /\ last_ns' = [last_ns EXCEPT ![t] = 0]
    /\ cur' = [cur EXCEPT ![t] = 0]

-----------------------------------------------------------------------------

Tick ==
    /\ clock < MaxTime
    /\ clock' = clock + 1
    /\ UNCHANGED <<buckets, tokens, last_refill_nanos, pc, locals, granted>>

\* PerRealmRateLimiter::try_consume, fast path: the bucket is there. The
\* instant is taken before anything of the bucket is read.
try_consume(t) ==
    /\ pc[t] = "idle"
    /\ \/ /\ buckets = "inserted"
          /\ now_ns' = [now_ns EXCEPT ![t] = clock]
          /\ GoTo(t, "load_last")
       \/ buckets = "none" /\ GoTo(t, "insert") /\ UNCHANGED now_ns
    /\ UNCHANGED <<clock, buckets, tokens, last_refill_nanos, last_ns, cur, granted>>

\* Slow path: entry().or_insert() under the write lock.
insert(t) ==
    /\ pc[t] = "insert"
    /\ buckets' = "inserted"
    /\ IF buckets = "none"
       THEN tokens' = capacity /\ last_refill_nanos' = 0
       ELSE UNCHANGED <<tokens, last_refill_nanos>>
    /\ now_ns' = [now_ns EXCEPT ![t] = clock]
    /\ GoTo(t, "load_last")
    /\ UNCHANGED <<clock, last_ns, cur, granted>>

-----------------------------------------------------------------------------
\* Bucket::try_consume

add(t) == ((now_ns[t] - last_ns[t]) * refill_per_sec) \div SEC

\* 1. Refill: load the timestamp; nothing to add, or try to move it.
load_last(t) ==
    /\ pc[t] = "load_last"
    /\ last_ns' = [last_ns EXCEPT ![t] = last_refill_nanos]
    /\ GoTo(t, IF /\ now_ns[t] > last_refill_nanos
                  /\ ((now_ns[t] - last_refill_nanos) * refill_per_sec) \div SEC > 0
               THEN "cas_last"
               ELSE "load_consume")
    /\ UNCHANGED <<clock, buckets, tokens, last_refill_nanos, now_ns, cur, granted>>

cas_last(t) ==
    /\ pc[t] = "cas_last"
    /\ \/ /\ last_refill_nanos = last_ns[t]
          /\ last_refill_nanos' = now_ns[t]
          /\ GoTo(t, "load_refill")
       \/ /\ last_refill_nanos # last_ns[t]
          /\ GoTo(t, "load_consume")
          /\ UNCHANGED last_refill_nanos
    /\ UNCHANGED <<clock, buckets, tokens, locals, granted>>

load_refill(t) ==
    /\ pc[t] = "load_refill"
    /\ cur' = [cur EXCEPT ![t] = tokens]
    /\ GoTo(t, "cas_refill")
    /\ UNCHANGED <<clock, buckets, tokens, last_refill_nanos, now_ns, last_ns, granted>>

Saturated(n) == IF n < capacity THEN n ELSE capacity

cas_refill_Store(t) ==
    /\ pc[t] = "cas_refill"
    /\ tokens' = Saturated(cur[t] + add(t))
    /\ GoTo(t, "load_consume")
    /\ UNCHANGED <<cur, clock, buckets, last_refill_nanos, now_ns, last_ns, granted>>

cas_refill(t) ==
    /\ pc[t] = "cas_refill"
    /\ \/ /\ tokens = cur[t]
          /\ tokens' = Saturated(cur[t] + add(t))
          /\ GoTo(t, "load_consume")
          /\ UNCHANGED cur
       \/ cur' = [cur EXCEPT ![t] = tokens] /\ UNCHANGED <<tokens, pc>>
    /\ UNCHANGED <<clock, buckets, last_refill_nanos, now_ns, last_ns, granted>>

\* 2. Consume.
load_consume(t) ==
    /\ pc[t] = "load_consume"
    /\ cur' = [cur EXCEPT ![t] = tokens]
    /\ GoTo(t, "cas_consume")
    /\ UNCHANGED <<clock, buckets, tokens, last_refill_nanos, now_ns, last_ns, granted>>

cas_consume(t) ==
    /\ pc[t] = "cas_consume"
    /\ \/ /\ cur[t] = 0          \* 429
          /\ Return(t)
          /\ UNCHANGED <<tokens, granted>>
       \/ /\ cur[t] # 0 /\ tokens = cur[t]
          /\ tokens' = cur[t] - 1
          /\ granted' = granted + 1
          /\ Return(t)
       \/ /\ cur[t] # 0
          /\ cur' = [cur EXCEPT ![t] = tokens]
          /\ UNCHANGED <<tokens, pc, now_ns, last_ns, granted>>
    /\ UNCHANGED <<clock, buckets, last_refill_nanos>>

Check(t) ==
    \/ insert(t) \/ load_last(t) \/ cas_last(t) \/ load_refill(t)
    \/ cas_refill(t) \/ load_consume(t) \/ cas_consume(t)

Next == Tick \/ \E t \in Task : try_consume(t) \/ Check(t)

Spec == Init /\ [][Next]_vars

-----------------------------------------------------------------------------
\* The limit itself: whatever the interleaving of refills and consumptions,
\* no more requests pass than the burst and the refill rate allow ("CAS-loop
\* on the timestamp so two threads refilling simultaneously don't
\* double-count").
WithinRate == granted * SEC <= capacity * SEC + refill_per_sec * clock
=============================================================================
