----------------------------- MODULE AuditTrail -----------------------------
(***************************************************************************)
(* The audit pipeline of one pod.  Handlers publish events to an unbounded *)
(* channel and go on; one task takes them out in order and hands each to   *)
(* every sink in turn, the Postgres table first and the webhooks after it. *)
(* A webhook is retried with a backoff and given up after max_attempts.    *)
(* Beside it a runner prunes the table, realm by realm, from a list of the *)
(* realms' retention that it read at the start of its pass.                *)
(***************************************************************************)
EXTENDS Naturals, FiniteSets, Sequences, Functions

CONSTANTS
    Realm,
    Hooks,              \* how many webhooks are configured
    max_attempts,
    MIN_RETENTION_DAYS,
    RetentionDays,      \* what an administrator may set; 0 keeps everything
    Idle,               \* no event in hand, no pass under way
    MaxEvent, MaxDay    \* bounds

VARIABLES
    events,     \* every event published, its realm and its day; its id is its index
    queue,      \* the channel: ids
    hand,       \* the event the task is handing out: to which sink, at which attempt
    got,        \* what each sink took, in order; a webhook may take an event twice
    dead,       \* what each sink logged as dropped
    lost,       \* what a crash took from the channel and the task
    table,      \* the rows of audit_event
    day,
    retention,  \* retention_days of each realm
    pass,       \* the realms still to prune with the days that were read
    held        \* history: the retention each realm has had since the pass began

vars == <<events, queue, hand, got, dead, lost, table, day, retention, pass, held>>

Sink == 1..(Hooks + 1)
Postgres == 1
Event == 1..Len(events)

Init ==
    /\ events = << >> /\ queue = << >> /\ hand = Idle
    /\ got = [s \in Sink |-> << >>] /\ dead = [s \in Sink |-> {}] /\ lost = {}
    /\ table = {}
    /\ day = 0 /\ retention \in [Realm -> RetentionDays]
    /\ pass = Idle /\ held = [r \in Realm |-> {}]

------------------------------------------------------------------------------
(* The publisher and its task.                                             *)

publish(r) ==
    /\ Len(events) < MaxEvent
    /\ events' = Append(events, [realm |-> r, day |-> day])
    /\ queue' = Append(queue, Len(events) + 1)
    /\ UNCHANGED <<hand, got, dead, lost, table, day, retention, pass, held>>

recv ==
    /\ hand = Idle /\ queue # << >>
    /\ hand' = [event |-> Head(queue), sink |-> 1, attempt |-> 0, asleep |-> FALSE]
    /\ queue' = Tail(queue)
    /\ UNCHANGED <<events, got, dead, lost, table, day, retention, pass, held>>

\* Mutant: an error of a sink ends the event.
NextSink_Stops(failed) ==
    IF failed \/ hand.sink = Hooks + 1 THEN Idle
    ELSE [hand EXCEPT !.sink = @ + 1, !.attempt = 0]

\* The loop over the sinks goes on whether or not this one failed.
NextSink(failed) ==
    IF hand.sink = Hooks + 1 THEN Idle ELSE [hand EXCEPT !.sink = @ + 1, !.attempt = 0]

Took == got' = [got EXCEPT ![hand.sink] = Append(@, hand.event)]
Dropped == dead' = [dead EXCEPT ![hand.sink] = @ \cup {hand.event}]

\* An insert that fails is logged; the event is not tried again.
PostgresAuditSink_ingest ==
    /\ hand # Idle /\ hand.sink = Postgres
    /\ \/ /\ table' = table \cup {hand.event}
          /\ Took /\ hand' = NextSink(FALSE) /\ UNCHANGED dead
       \/ /\ \/ table' = table \cup {hand.event} /\ Took    \* the answer was lost
             \/ UNCHANGED <<table, got>>
          /\ Dropped /\ hand' = NextSink(TRUE)
    /\ UNCHANGED <<events, queue, lost, day, retention, pass, held>>

\* Mutant: the attempts are not counted.
Retried_Forever == [hand EXCEPT !.asleep = TRUE]
Retried == [hand EXCEPT !.attempt = @ + 1, !.asleep = TRUE]

\* What an attempt comes to.  An answer that is late or lost is an error like a
\* 5xx, a 429 or a 408, and the receiver may have taken the event all the same.
WebhookSink_ingest ==
    /\ hand # Idle /\ hand.sink # Postgres /\ ~hand.asleep
    /\ \/ Took /\ hand' = NextSink(FALSE) /\ UNCHANGED dead         \* 2xx, 3xx
       \/ Dropped /\ hand' = NextSink(TRUE) /\ UNCHANGED got        \* 4xx: permanent
       \/ /\ Took \/ UNCHANGED got                                  \* transient
          /\ IF hand.attempt + 1 = max_attempts
             THEN Dropped /\ hand' = NextSink(TRUE)
             ELSE hand' = Retried /\ UNCHANGED dead
    /\ UNCHANGED <<events, queue, lost, table, day, retention, pass, held>>

Wake ==
    /\ hand # Idle /\ hand.asleep
    /\ hand' = [hand EXCEPT !.asleep = FALSE]
    /\ UNCHANGED <<events, queue, got, dead, lost, table, day, retention, pass, held>>

\* The channel, the task and the runner are in memory only.
Crash ==
    /\ lost' = lost \cup Range(queue) \cup (IF hand = Idle THEN {} ELSE {hand.event})
    /\ queue' = << >> /\ hand' = Idle
    /\ pass' = Idle /\ held' = [r \in Realm |-> {}]
    /\ UNCHANGED <<events, got, dead, table, day, retention>>

------------------------------------------------------------------------------
(* Retention.                                                              *)

\* Mutant: the floor is left out.
effective_NoFloor(days) == days
effective(days) == IF days > MIN_RETENTION_DAYS THEN days ELSE MIN_RETENTION_DAYS

\* list_realm_retention; a list that fails ends the pass before it begins.
run_pass ==
    /\ pass = Idle
    /\ \E order \in Bijection(1..Cardinality(Realm), Realm) :
         pass' = [i \in DOMAIN order |-> [realm |-> order[i], days |-> retention[order[i]]]]
    /\ held' = [r \in Realm |-> {retention[r]}]
    /\ UNCHANGED <<events, queue, hand, got, dead, lost, table, day, retention>>

\* One realm of the list: kept, pruned, or an error that is counted.
prune_realm ==
    /\ pass # Idle
    /\ LET p == Head(pass)
           old == {e \in table : events[e].realm = p.realm
                                 /\ day - events[e].day > effective(p.days)}
       IN table' \in {table} \cup (IF p.days = 0 THEN {} ELSE {table \ old})
    /\ pass' = IF Len(pass) = 1 THEN Idle ELSE Tail(pass)
    /\ held' = IF Len(pass) = 1 THEN [r \in Realm |-> {}] ELSE held
    /\ UNCHANGED <<events, queue, hand, got, dead, lost, day, retention>>

Tick == day < MaxDay /\ day' = day + 1
        /\ UNCHANGED <<events, queue, hand, got, dead, lost, table, retention, pass, held>>
SetRetention(r) ==
    /\ \E d \in RetentionDays \ {retention[r]} :
         /\ retention' = [retention EXCEPT ![r] = d]
         /\ held' = IF pass = Idle THEN held ELSE [held EXCEPT ![r] = @ \cup {d}]
    /\ UNCHANGED <<events, queue, hand, got, dead, lost, table, day, pass>>

Drain == recv \/ PostgresAuditSink_ingest \/ WebhookSink_ingest \/ Wake

Trailing == Drain \/ Crash \/ \E r \in Realm : publish(r)
Retaining == run_pass \/ prune_realm \/ Tick \/ \E r \in Realm : SetRetention(r)

Next == Trailing \/ Retaining

\* The task is polled while it has something to do: every attempt has a timeout
\* and every backoff ends.
Spec == Init /\ [][Next]_vars /\ WF_vars(Drain)

------------------------------------------------------------------------------
TypeOK ==
    /\ Range(queue) \subseteq Event /\ table \subseteq Event /\ lost \subseteq Event
    /\ hand = Idle \/ /\ hand.event \in Event /\ hand.sink \in Sink
                      /\ hand.attempt \in 0..(max_attempts - 1)
    /\ \A s \in Sink : Range(got[s]) \subseteq Event /\ dead[s] \subseteq Event

\* The sinks the task is done with for an event.
Past(e) == IF hand # Idle /\ hand.event = e THEN 1..(hand.sink - 1)
           ELSE IF e \in Range(queue) THEN {} ELSE Sink

\* No sink is skipped for an event because another one failed: it took the event
\* or logged that it dropped it, or the pod crashed.  And every sink takes events
\* in the order they were published, a repeated one right after itself.
TrailWhole ==
    /\ \A e \in Event : \A s \in Past(e) : e \in Range(got[s]) \cup dead[s] \cup lost
    /\ \A s \in Sink : \A i, j \in DOMAIN got[s] : i < j => got[s][i] <= got[s][j]

\* A row is pruned only when it is older than a retention that its own realm has had
\* since the pass began and that was not "keep", and never within the floor of thirty
\* days: a list that is out of date prunes by an older setting of the same realm, not
\* by another's, and a setting made before the pass began is honoured.
FloorKept ==
    [][\A e \in table \ table' :
         /\ day - events[e].day > MIN_RETENTION_DAYS
         /\ \E d \in held[events[e].realm] \ {0} : day - events[e].day > d]_vars

\* The channel empties: a receiver that never answers is given up, so that no
\* event waits for ever behind another.
Drains == (queue # << >> \/ hand # Idle) ~> (queue = << >> /\ hand = Idle)

\* "failures are logged and re-tried on the next event"
InsertRetried ==
    \A e \in dead[Postgres] : \A f \in Range(got[Postgres]) : f > e => e \in Range(got[Postgres])
==============================================================================
