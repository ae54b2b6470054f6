------------------------------- MODULE Cache -------------------------------
(***************************************************************************)
(* The cache crate: the in-process LocalCache of each pod with its side     *)
(* index, the cross-pod invalidation over Postgres LISTEN/NOTIFY, and the   *)
(* shared RedisCache.  Tasks read through get_or_load and write a row and   *)
(* then invalidate it, by key or by prefix; every await is a step.          *)
(*                                                                         *)
(* A row is its version, so a cached entry is stale when its version is not *)
(* the row's.  An index bucket is a set: push may repeat a key, but retain  *)
(* and remove drop every copy.                                              *)
(***************************************************************************)
EXTENDS Naturals, FiniteSets, SequencesExt

CONSTANTS Pod, Task, Idle, Absent,
          Key,         \* records [realm, class, id] (CacheKey)
          MaxVersion   \* bound: versions of a row

VARIABLES
    backend,   \* "local" or "redis"
    row,       \* the row behind each key: its version
    inner,     \* the entries of each store: a version, or Absent
    index,     \* LocalCache.prefix_index, bucket by bucket
    mail,      \* notifications sent to a pod's listener and not yet taken
    linked,    \* whether the pod's LISTEN session is attached
    sweep,     \* keys the pod's listener has taken and not yet dropped
    task,
    \* history variables
    missed,    \* stale keys whose drop or notification was lost on the way to a store
    late       \* keys put after their drop, whose drop failed, or gone from the index alone

vars == <<backend, row, inner, index, mail, linked, sweep, task, missed, late>>

Redis == "redis"
Store == Pod \cup {Redis}
StoreOf(p) == IF backend = "local" THEN p ELSE Redis

(***************************************************************************)
(* Keys, prefixes and the payloads on the channel.  apply_payload turns     *)
(* both kinds of payload into a prefix drop.                                *)
(***************************************************************************)
prefix(k) == [realm |-> k.realm, class |-> k.class]
matches(x, k) == k.realm = x.realm /\ k.class = x.class
InBucket(x) == {k \in Key : matches(x, k)}
key_payload(k) == [kind |-> "k", key |-> k]
prefix_payload(k) == [kind |-> "p", key |-> prefix(k)]
parse_prefix_from_key(m) == prefix(m.key)
parse_prefix_from_glob(m) == m.key
parse_prefix(m) ==
    IF m.kind = "k" THEN parse_prefix_from_key(m) ELSE parse_prefix_from_glob(m)

(***************************************************************************)
(* The two halves of LocalCache: moka's map and the side index.             *)
(***************************************************************************)
record_key(s, k) == index' = [index EXCEPT ![s] = @ \cup {k}]
drop_key_from_index(s, k) == index' = [index EXCEPT ![s] = @ \ {k}]
take_prefix_keys(s, x) == index' = [index EXCEPT ![s] = @ \ InBucket(x)]
insert(s, k, v) == inner' = [inner EXCEPT ![s][k] = v]
remove(s, k) == inner' = [inner EXCEPT ![s][k] = Absent]
Forget(s, ks) ==
    /\ late' = [late EXCEPT ![s] = @ \ ks]
    /\ missed' = [missed EXCEPT ![s] = @ \ ks]

Become(t, new) == task' = [task EXCEPT ![t] = new]
Doing(t, op) == task[t] # Idle /\ task[t].op = op
Pod_(t) == task[t].pod
Key_(t) == task[t].key
Here(t) == StoreOf(Pod_(t))
Stale(s, k) == inner[s][k] # Absent /\ inner[s][k] # row[k]
channel == <<mail, linked, sweep>>

----------------------------------------------------------------------------
(***************************************************************************)
(* CacheExt::get_or_load: a hit changes nothing; after a miss the loader    *)
(* reads the row and the value is put.                                      *)
(***************************************************************************)
get_raw(t, p, k) ==
    /\ task[t] = Idle /\ inner[StoreOf(p)][k] = Absent
    /\ Become(t, [op |-> "load", pod |-> p, key |-> k, ver |-> 0, due |-> {}])
    /\ UNCHANGED <<backend, row, inner, index, channel, missed, late>>

loader(t) ==
    /\ Doing(t, "load")
    /\ Become(t, [task[t] EXCEPT !.ver = row[Key_(t)],
                                 !.op = IF backend = "local" THEN "record" ELSE "insert"])
    /\ UNCHANGED <<backend, row, inner, index, channel, missed, late>>

put_raw_record(t) ==
    /\ Doing(t, "record")
    /\ record_key(Pod_(t), Key_(t))
    /\ Become(t, [task[t] EXCEPT !.op = "insert"])
    /\ UNCHANGED <<backend, row, inner, channel, missed, late>>

\* SETEX may fail, in which case nothing is stored.
put_raw_insert(t) ==
    /\ Doing(t, "insert")
    /\ LET s == Here(t)
           k == Key_(t)
       IN  \/ /\ insert(s, k, task[t].ver)
              /\ missed' = [missed EXCEPT ![s] = @ \ {k}]
              /\ late' = [late EXCEPT ![s] =
                   IF task[t].ver # row[k] \/ (backend = "local" /\ k \notin index[s])
                   THEN @ \cup {k} ELSE @ \ {k}]
           \/ backend = "redis" /\ UNCHANGED <<inner, missed, late>>
    /\ Become(t, Idle)
    /\ UNCHANGED <<backend, row, index, channel>>

(***************************************************************************)
(* A write path: the row, then the invalidation of its own pod, then the    *)
(* notification.                                                            *)
(***************************************************************************)
Write(t, p, k) ==
    /\ task[t] = Idle /\ row[k] < MaxVersion
    /\ row' = [row EXCEPT ![k] = @ + 1]
    /\ \E op \in {"drop", "prefix"} :
          Become(t, [op |-> op, pod |-> p, key |-> k, ver |-> 0, due |-> {}])
    /\ UNCHANGED <<backend, inner, index, channel, missed, late>>

\* LocalCache::invalidate, index first.
invalidate_index(t) ==
    /\ Doing(t, "drop") /\ backend = "local"
    /\ drop_key_from_index(Pod_(t), Key_(t))
    /\ Become(t, [task[t] EXCEPT !.op = "drop entry"])
    /\ UNCHANGED <<backend, row, inner, channel, missed, late>>

\* moka's invalidate, or DEL, which may fail and leave the entry to its TTL.
invalidate_entry(t) ==
    /\ Doing(t, "drop entry") \/ (Doing(t, "drop") /\ backend = "redis")
    /\ \/ remove(Here(t), Key_(t)) /\ Forget(Here(t), {Key_(t)})
       \/ /\ backend = "redis"
          /\ late' = [late EXCEPT ![Redis] = @ \cup {Key_(t)}]
          /\ UNCHANGED <<inner, missed>>
    /\ Become(t, [task[t] EXCEPT !.op = "publish key"])
    /\ UNCHANGED <<backend, row, index, channel>>

\* LocalCache::invalidate_prefix takes the bucket and drops key after key;
\* RedisCache walks the keyspace.
invalidate_prefix(t) ==
    /\ Doing(t, "prefix")
    /\ LET x == prefix(Key_(t))
       IN  IF backend = "local"
           THEN /\ take_prefix_keys(Pod_(t), x)
                /\ Become(t, [task[t] EXCEPT !.op = "sweep", !.due = index[Pod_(t)] \cap InBucket(x)])
           ELSE /\ UNCHANGED index
                /\ Become(t, [task[t] EXCEPT !.op = "scan", !.due =
                       {k \in InBucket(x) : inner[Redis][k] # Absent}])
    /\ UNCHANGED <<backend, row, inner, channel, missed, late>>

sweep_one(t) ==
    /\ Doing(t, "sweep")
    /\ IF task[t].due = {}
       THEN /\ Become(t, [task[t] EXCEPT !.op = "publish prefix"])
            /\ UNCHANGED <<inner, missed, late>>
       ELSE \E k \in task[t].due :
               /\ remove(Pod_(t), k) /\ Forget(Pod_(t), {k})
               /\ Become(t, [task[t] EXCEPT !.due = @ \ {k}])
    /\ UNCHANGED <<backend, row, index, channel>>

\* One SCAN page and its UNLINK: a key present for the whole walk is on some
\* page, one that comes and goes may be.  A failing command ends the walk or
\* skips the page.
scan_page(t) ==
    /\ Doing(t, "scan")
    /\ \/ \E batch \in SUBSET InBucket(prefix(Key_(t))) :
            /\ batch # {}
            /\ inner' = [inner EXCEPT ![Redis] =
                 [k \in Key |-> IF k \in batch THEN Absent ELSE @[k]]]
            /\ Forget(Redis, batch)
            /\ LET due == task[t].due \ batch
               IN  Become(t, [task[t] EXCEPT !.due = due,
                              !.op = IF due = {} THEN "publish prefix" ELSE "scan"])
       \/ /\ late' = [late EXCEPT ![Redis] = @ \cup InBucket(prefix(Key_(t)))]
          /\ Become(t, [task[t] EXCEPT !.op = "publish prefix"])
          /\ UNCHANGED <<inner, missed>>
       \/ /\ task[t].due = {}
          /\ Become(t, [task[t] EXCEPT !.op = "publish prefix"])
          /\ UNCHANGED <<inner, missed, late>>
    /\ UNCHANGED <<backend, row, index, channel>>

\* Mutant: invalidate_prefix forgets to notify the other pods.
publish_KeysOnly(t) ==
    /\ Doing(t, "publish key") \/ Doing(t, "publish prefix")
    /\ mail' = [p \in Pod |->
         IF Doing(t, "publish key") /\ linked[p] THEN Append(mail[p], key_payload(Key_(t)))
         ELSE mail[p]]
    /\ Become(t, Idle)
    /\ UNCHANGED <<backend, row, inner, index, linked, sweep, missed, late>>

\* The stores ss will not hear that the entries of a prefix are to be dropped.
Miss(ss, x) ==
    missed' = [s \in Store |->
        missed[s] \cup IF s \in ss THEN {k \in InBucket(x) : Stale(s, k)} ELSE {}]

\* NOTIFY reaches every attached session, the others never see it; or it fails, and the
\* caller is told but nobody sends it again.  Nobody subscribes to Redis's channel yet.
publish(t) ==
    /\ Doing(t, "publish key") \/ Doing(t, "publish prefix")
    /\ LET m == IF Doing(t, "publish key") THEN key_payload(Key_(t)) ELSE prefix_payload(Key_(t))
       IN  IF backend = "local"
           THEN \E reached \in {{p \in Pod : linked[p]}, {}} :
                   /\ mail' = [p \in Pod |-> IF p \in reached THEN Append(mail[p], m) ELSE mail[p]]
                   /\ Miss(Pod \ reached, prefix(Key_(t)))
           ELSE UNCHANGED <<mail, missed>>
    /\ Become(t, Idle)
    /\ UNCHANGED <<backend, row, inner, index, linked, sweep, late>>

\* A task that has changed the row and has still to drop it from the stores.
Writes(t) ==
    \E op \in {"drop", "drop entry", "prefix", "sweep", "scan", "publish key", "publish prefix"} :
        Doing(t, op)

\* The task's future is dropped at an await, or its loader fails: a writer then leaves
\* the entries it has not come to, and those it has taken from the index already.
Drop(t) ==
    /\ task[t] # Idle
    /\ IF Writes(t)
       THEN /\ Miss(Store, prefix(Key_(t)))
            /\ late' = [late EXCEPT ![Pod_(t)] = @ \cup
                   {k \in InBucket(prefix(Key_(t))) : inner[Pod_(t)][k] # Absent /\ k \notin index[Pod_(t)]}]
       ELSE UNCHANGED <<missed, late>>
    /\ Become(t, Idle)
    /\ UNCHANGED <<backend, row, inner, index, channel>>

----------------------------------------------------------------------------
(***************************************************************************)
(* The listener of a pod: apply_payload, one notification at a time, and    *)
(* the session that can be lost with what it had not delivered.             *)
(***************************************************************************)
apply_payload(p) ==
    /\ backend = "local" /\ linked[p] /\ mail[p] # <<>> /\ sweep[p] = {}
    /\ LET x == parse_prefix(Head(mail[p]))
       IN  /\ sweep' = [sweep EXCEPT ![p] = index[p] \cap InBucket(x)]
           /\ take_prefix_keys(p, x)
    /\ mail' = [mail EXCEPT ![p] = Tail(@)]
    /\ UNCHANGED <<backend, row, inner, linked, task, missed, late>>

listener_drop(p) ==
    /\ \E k \in sweep[p] :
        /\ remove(p, k) /\ Forget(p, {k})
        /\ sweep' = [sweep EXCEPT ![p] = @ \ {k}]
    /\ UNCHANGED <<backend, row, index, mail, linked, task>>

\* run_one ends with an error; the keys of a sweep already begun are finished.
Disconnect(p) ==
    /\ backend = "local" /\ linked[p] /\ sweep[p] = {}
    /\ linked' = [linked EXCEPT ![p] = FALSE]
    /\ missed' = [missed EXCEPT ![p] = @ \cup
         {k \in Key : Stale(p, k) /\ \E i \in DOMAIN mail[p] : matches(parse_prefix(mail[p][i]), k)}]
    /\ mail' = [mail EXCEPT ![p] = <<>>]
    /\ UNCHANGED <<backend, row, inner, index, sweep, task, late>>

\* spawn_listener attaches again after RECONNECT_BACKOFF, without a flush.
Reconnect(p) ==
    /\ ~linked[p]
    /\ linked' = [linked EXCEPT ![p] = TRUE]
    /\ UNCHANGED <<backend, row, inner, index, mail, sweep, task, missed, late>>

\* Mutant: the expiry walks the side index instead of the entries.
Expire_Indexed(s, k) ==
    /\ inner[s][k] # Absent /\ k \in index[s]
    /\ remove(s, k) /\ Forget(s, {k})
    /\ UNCHANGED <<backend, row, index, channel, task>>

\* time_to_live, and moka's eviction: the index is not told.
Expire(s, k) ==
    /\ inner[s][k] # Absent
    /\ remove(s, k) /\ Forget(s, {k})
    /\ UNCHANGED <<backend, row, index, channel, task>>

----------------------------------------------------------------------------
Init ==
    /\ backend \in {"local", "redis"}
    /\ row = [k \in Key |-> 1]
    /\ inner = [s \in Store |-> [k \in Key |-> Absent]]
    /\ index = [s \in Store |-> {}]
    /\ mail = [p \in Pod |-> <<>>]
    /\ linked = [p \in Pod |-> backend = "local"]
    /\ sweep = [p \in Pod |-> {}]
    /\ task = [t \in Task |-> Idle]
    /\ missed = [s \in Store |-> {}]
    /\ late = [s \in Store |-> {}]

Step(t) ==
    \/ loader(t) \/ put_raw_record(t) \/ put_raw_insert(t)
    \/ invalidate_index(t) \/ invalidate_entry(t) \/ invalidate_prefix(t)
    \/ sweep_one(t) \/ scan_page(t) \/ publish(t)

Listen(p) == apply_payload(p) \/ listener_drop(p)

Next ==
    \/ \E t \in Task : Step(t) \/ Drop(t) \/ \E p \in Pod, k \in Key : get_raw(t, p, k) \/ Write(t, p, k)
    \/ \E p \in Pod : Listen(p) \/ Disconnect(p) \/ (backend = "local" /\ Reconnect(p))
    \/ \E s \in Store, k \in Key : Expire(s, k)

\* An entry's time to live runs out.  Nothing is asked of tasks and listeners.
Fairness == \A s \in Store, k \in Key : WF_vars(Expire(s, k))

Spec == Init /\ [][Next]_vars
FairSpec == Spec /\ Fairness

----------------------------------------------------------------------------
TypeOK ==
    /\ row \in [Key -> 1..MaxVersion]
    /\ \A s \in Store : inner[s] \in [Key -> 1..MaxVersion \cup {Absent}]
    /\ index \in [Store -> SUBSET Key]
    /\ \A p \in Pod : sweep[p] \subseteq Key

Writing(k) == \E t \in Task : Writes(t) /\ matches(prefix(Key_(t)), k)

\* listen.rs 5-7, "any write path can NOTIFY and every pod drops the affected entries":
\* a pod serves a row that has been rewritten only
\*  - while the write or its notification is still under way,
\*  - because the notification failed, found the pod's session detached or was lost
\*    with it, or the writer was dropped before it came to the entry,
\*  - because the entry was put by a load that overlapped a drop, or a drop overlapped
\*    it so that the index lost it, or
\*  - because Redis refused the drop.
\* So an entry whose drop ran its course is never served stale.
StaleExplained ==
    \A s \in Store, k \in Key : Stale(s, k) =>
        \/ Writing(k)
        \/ k \in missed[s] \cup late[s]
        \/ /\ s \in Pod
           /\ \/ k \in sweep[s]
              \/ \E i \in DOMAIN mail[s] : matches(parse_prefix(mail[s][i]), k)

\* "a buggy caller doesn't permanently anchor entries": when the writes are
\* over, every store ends up with current entries only, also those whose
\* drop was missed, refused or overtaken, and whether or not anybody still listens.
Converges == <>[](\A s \in Store, k \in Key : ~Stale(s, k))

\* "precise, synchronous invalidations" (prefix_index): while no put is
\* between its two halves, every live entry is in the index and a prefix
\* drop finds it.
IndexCovers ==
    (\A t \in Task : ~Doing(t, "insert")) =>
        \A p \in Pod, k \in Key : inner[p][k] # Absent => k \in index[p] \cup sweep[p]
=============================================================================
