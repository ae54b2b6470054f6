----------------------------- MODULE BruteForce -----------------------------
(***************************************************************************)
(* Login-failure lockout of geonosis-authenticators: check_locked,         *)
(* record_success and record_failure around the password verification of   *)
(* the `password` authenticator, for one user.                             *)
(*                                                                         *)
(* check_locked and record_* read the user row on their own, and record_*  *)
(* writes the whole row back: between read and write other attempts run.   *)
(* update_user writes the lockout columns whoever calls it, so the other   *)
(* callers are here too: the ones that read the row, change something else *)
(* and write it back, and the PATCH whose body is the whole row.           *)
(***************************************************************************)
EXTENDS Integers

CONSTANTS
    Task,                \* tasks serving login attempts for the user
    enabled,             \* BruteForcePolicy
    max_login_failures,
    wait_increment,
    max_wait,
    failure_reset,
    permanent_lockout,
    Body,                \* the lockout columns of the users that are PATCHed
    MaxTime,             \* bound on the clock
    MaxFailures          \* bound on the counters when a failure is recorded

ASSUME PolicyAssumption ==
    /\ max_login_failures \in Nat /\ wait_increment \in Nat
    /\ max_wait \in Nat /\ failure_reset \in Nat
    /\ enabled \in BOOLEAN /\ permanent_lockout \in BOOLEAN
    /\ MaxTime \in Nat /\ MaxFailures \in Nat

NoTime == -1

Row == [failed_attempts : Nat, locked_until : {NoTime} \cup Nat,
        last_failed_at : {NoTime} \cup Nat]

ASSUME BodyAssumption == Body \subseteq Row

\* "Sentinel far future": a hundred years past any instant of the model.
Forever == MaxTime + wait_increment + max_wait + 1

VARIABLES
    clock,
    failed_attempts,  \* columns of the user row
    locked_until,
    last_failed_at,
    pc,
    now,              \* ctx.now, taken when the attempt starts
    copy,             \* the row as the task read it
    \* history variables
    failures,         \* failures since the last success or elapsed window,
                      \* counted one by one, on top of what a PATCH set
    contended,        \* tasks whose read and write overlapped another's write
    imposed           \* the rows PATCHed in that are not all clear

row == <<failed_attempts, locked_until, last_failed_at>>
vars == <<clock, row, pc, now, copy, failures, contended, imposed>>

Recording == {t \in Task : pc[t] \in {"fail_write", "clear_write", "rewrite"}}

TypeOK ==
    /\ clock \in 0 .. MaxTime
    /\ failed_attempts \in Nat
    /\ locked_until \in {NoTime} \cup Nat
    /\ last_failed_at \in {NoTime} \cup Nat
    /\ pc \in [Task -> {"idle", "checking", "verifying", "failing", "clearing",
                        "fail_write", "clear_write", "rewrite"}]
    /\ now \in [Task -> 0 .. clock]
    /\ copy \in [Task -> Row]
    /\ failures \in Nat
    /\ contended \subseteq Task
    /\ imposed \subseteq Body

EmptyRow == [failed_attempts |-> 0, locked_until |-> NoTime, last_failed_at |-> NoTime]

Init ==
    /\ clock = 0
    /\ failed_attempts = 0 /\ locked_until = NoTime /\ last_failed_at = NoTime
    /\ pc = [t \in Task |-> "idle"]
    /\ now = [t \in Task |-> 0]
    /\ copy = [t \in Task |-> EmptyRow]
    /\ failures = 0
    /\ contended = {}
    /\ imposed = {}

-----------------------------------------------------------------------------

Tick ==
    /\ clock < MaxTime
    /\ clock' = clock + 1
    /\ UNCHANGED <<row, pc, now, copy, failures, contended, imposed>>

GoTo(t, p) == pc' = [pc EXCEPT ![t] = p]

\* process: an attempt for an enabled user takes its time stamp.
Begin(t) ==
    /\ pc[t] = "idle"
    /\ now' = [now EXCEPT ![t] = clock]
    /\ GoTo(t, "checking")
    /\ UNCHANGED <<clock, row, copy, failures, contended, imposed>>

\* The attempt is over; a failing storage call and a dropped request end it
\* the same way, and `let _ =` ignores the errors of record_*.
Respond(t) ==
    /\ GoTo(t, "idle")
    /\ now' = [now EXCEPT ![t] = 0]
    /\ copy' = [copy EXCEPT ![t] = EmptyRow]

\* process stops on Locked alone: when the row cannot be read it goes on.
check_locked(t) ==
    /\ pc[t] = "checking"
    /\ \/ locked_until > now[t] /\ Respond(t)
       \/ locked_until <= now[t] /\ GoTo(t, "verifying") /\ UNCHANGED <<now, copy>>
       \/ (* StorageError *) GoTo(t, "verifying") /\ UNCHANGED <<now, copy>>
    /\ UNCHANGED <<clock, row, failures, contended, imposed>>

verify_password(t) ==
    /\ pc[t] = "verifying"
    /\ \/ GoTo(t, "clearing")
       \/ GoTo(t, "failing")
    /\ UNCHANGED <<clock, row, now, copy, failures, contended, imposed>>

\* get_user of record_success, record_failure and the other writers.
ReadRow(t) ==
    /\ copy' = [copy EXCEPT ![t] = [failed_attempts |-> failed_attempts,
                                     locked_until |-> locked_until,
                                     last_failed_at |-> last_failed_at]]
    /\ contended' = IF Recording = {} THEN contended ELSE contended \cup {t}
    /\ UNCHANGED <<clock, row, now, failures, imposed>>

\* An all-clear row is not written.
record_success_read(t) ==
    /\ pc[t] = "clearing"
    /\ \/ /\ failed_attempts = 0 /\ locked_until = NoTime /\ last_failed_at = NoTime
          /\ Respond(t)
          /\ UNCHANGED <<clock, row, failures, contended, imposed>>
       \/ /\ ~(failed_attempts = 0 /\ locked_until = NoTime /\ last_failed_at = NoTime)
          /\ GoTo(t, "clear_write")
          /\ ReadRow(t)

record_success_write(t) ==
    /\ pc[t] = "clear_write"
    /\ failed_attempts' = 0 /\ locked_until' = NoTime /\ last_failed_at' = NoTime
    /\ failures' = 0
    /\ Respond(t)
    /\ UNCHANGED <<clock, contended, imposed>>

record_failure_read(t) ==
    /\ pc[t] = "failing"
    /\ failures < MaxFailures /\ failed_attempts < MaxFailures
    /\ GoTo(t, "fail_write")
    /\ ReadRow(t)

\* The counter after one more failure at time n, given its last value.
Elapsed(last, n) == last # NoTime /\ n - last > failure_reset
Counted(count, last, n) == (IF Elapsed(last, n) THEN 0 ELSE count) + 1

\* Linear in the failures past the threshold, capped.
Wait(attempts) ==
    LET raw == wait_increment * (attempts - max_login_failures + 1) IN
    IF raw > max_wait THEN max_wait ELSE raw

\* Mutant: the lock needs one failure more than the threshold.
Lock_OffByOne(attempts, n, until) ==
    IF enabled /\ attempts > max_login_failures
       THEN IF permanent_lockout THEN Forever ELSE n + Wait(attempts)
       ELSE until

\* locked_until after a failure.
Lock(attempts, n, until) ==
    IF enabled /\ attempts >= max_login_failures
       THEN IF permanent_lockout THEN Forever ELSE n + Wait(attempts)
       ELSE until

record_failure_write(t) ==
    LET attempts == Counted(copy[t].failed_attempts, copy[t].last_failed_at, now[t]) IN
    /\ pc[t] = "fail_write"
    /\ failed_attempts' = attempts
    /\ last_failed_at' = now[t]
    /\ locked_until' = Lock(attempts, now[t], copy[t].locked_until)
    /\ failures' = Counted(failures, last_failed_at, now[t])
    /\ Respond(t)
    /\ UNCHANGED <<clock, contended, imposed>>

\* The authenticators that burn or issue a credential, the acknowledged action,
\* verify_email and the console's forms: the lockout columns go back as read.
rewrite_read(t) ==
    /\ pc[t] = "idle"
    /\ GoTo(t, "rewrite")
    /\ ReadRow(t)

rewrite_write(t) ==
    /\ pc[t] = "rewrite"
    /\ failed_attempts' = copy[t].failed_attempts
    /\ locked_until' = copy[t].locked_until
    /\ last_failed_at' = copy[t].last_failed_at
    /\ Respond(t)
    /\ UNCHANGED <<clock, failures, contended, imposed>>

\* PATCH writes the columns of its body, read from no row: absent ones are empty.
update(b) ==
    /\ failed_attempts' = b.failed_attempts
    /\ locked_until' = b.locked_until
    /\ last_failed_at' = b.last_failed_at
    /\ failures' = b.failed_attempts
    /\ contended' = contended \cup Recording
    /\ imposed' = imposed \cup ({b} \ {EmptyRow})
    /\ UNCHANGED <<clock, pc, now, copy>>

Drop(t) ==
    /\ pc[t] # "idle"
    /\ Respond(t)
    /\ UNCHANGED <<clock, row, failures, contended, imposed>>

Next ==
    \/ Tick
    \/ \E t \in Task :
          \/ Begin(t) \/ check_locked(t) \/ verify_password(t)
          \/ record_success_read(t) \/ record_success_write(t)
          \/ record_failure_read(t) \/ record_failure_write(t)
          \/ rewrite_read(t) \/ rewrite_write(t)
          \/ Drop(t)
    \/ \E b \in Body : update(b)

Spec == Init /\ [][Next]_vars

-----------------------------------------------------------------------------

\* A counter at or over the threshold goes with a lock, whatever interleaving
\* of stale write-backs produced the row: record_failure sets both at once.  The
\* one way to have the counter without the lock is a PATCH that wrote just that.
ThresholdLocks ==
    \/ enabled /\ failed_attempts > 0 /\ failed_attempts >= max_login_failures
           => locked_until # NoTime
    \/ \E b \in imposed : b.failed_attempts = failed_attempts /\ b.locked_until = NoTime

\* A temporary lock always ends within max_wait from now, whatever the
\* counter and whatever old lock a write-back carries over, unless a PATCH wrote
\* that very lock.
LockEndsInTime ==
    \/ permanent_lockout
    \/ locked_until <= clock + max_wait
    \/ \E b \in imposed : b.locked_until = locked_until

\* While no write came between another task's read and write of the row
\* (update_user writes the lockout columns whatever the caller changed), the
\* counter is exactly the number of failures since the last success or elapsed
\* reset window, on top of what a PATCH since then set.
CountsWhenSequential == contended = {} => failed_attempts = failures

\* The lockout as a whole: it sets in, it ends, and it counts what happened.
LockoutSound == ThresholdLocks /\ LockEndsInTime /\ CountsWhenSequential
=============================================================================
