---------------------------- MODULE GuardProofs ----------------------------
(***************************************************************************)
(* Proofs about what guards a login and what records it.                   *)
(*                                                                         *)
(* BruteForce, for every policy, any number of tasks and any clock, and    *)
(* UserCredentials, for any credentials and actions: the rows that matter  *)
(* are the stored one and the copies about to be written back, and the     *)
(* invariants say the same of both.                                        *)
(*                                                                         *)
(* AuditTrail, for any number of realms, webhooks, attempts and events.    *)
(***************************************************************************)
EXTENDS MCLoginDefences, AuditPart, Functions, TLAPS

\* A wait is a natural number.
LEMMA WaitType ==
  ASSUME NEW n \in Nat, n >= max_login_failures
  PROVE  Wait(n) \in Nat /\ Wait(n) <= max_wait
<1>1. n - max_login_failures + 1 \in Nat
  BY PolicyAssumption
<1>2. ASSUME NEW i \in Nat, NEW j \in Nat PROVE i * j \in Nat
  OBVIOUS
<1>3. wait_increment * (n - max_login_failures + 1) \in Nat
  BY <1>1, <1>2, PolicyAssumption, Zenon
<1> QED
  BY <1>3, PolicyAssumption DEF Wait

\* The lock record_failure computes, from a time stamp that may be older than
\* the clock c, or carries over.
LEMMA LockReach ==
  ASSUME NEW a \in Nat, NEW n \in Nat, NEW u \in {NoTime} \cup Nat, NEW c \in Nat, n <= c
  PROVE  permanent_lockout \/ Lock(a, n, u) <= c + max_wait \/ Lock(a, n, u) = u
<1>1. CASE enabled /\ a >= max_login_failures /\ ~permanent_lockout
  <2>1. Wait(a) \in Nat /\ Wait(a) <= max_wait
    BY <1>1, WaitType, Zenon
  <2>2. Lock(a, n, u) = n + Wait(a)
    BY <1>1, Zenon DEF Lock
  <2> QED
    BY <2>1, <2>2, PolicyAssumption
<1>2. CASE ~(enabled /\ a >= max_login_failures)
  BY <1>2, Zenon DEF Lock
<1> QED
  BY <1>1, <1>2, Zenon

\* What record_failure computes from a row.
LEMMA LockType ==
  ASSUME NEW a \in Nat, NEW n \in Nat, NEW u \in {NoTime} \cup Nat
  PROVE  /\ Lock(a, n, u) \in {NoTime} \cup Nat
         /\ enabled /\ a >= max_login_failures => Lock(a, n, u) # NoTime
<1>1. Forever \in Nat /\ NoTime \notin Nat
  BY PolicyAssumption DEF Forever, NoTime
<1>2. CASE enabled /\ a >= max_login_failures
  <2>1. Wait(a) \in Nat /\ Wait(a) <= max_wait
    BY <1>2, WaitType, Zenon
  <2>2. CASE permanent_lockout
    <3>1. Lock(a, n, u) = Forever
      BY <1>2, <2>2, Zenon DEF Lock
    <3> QED
      BY <3>1, <2>2, <1>1, Zenon
  <2>3. CASE ~permanent_lockout
    <3>1. Lock(a, n, u) = n + Wait(a)
      BY <1>2, <2>3, Zenon DEF Lock
    <3> QED
      BY <3>1, <2>1, <1>1, PolicyAssumption
  <2> QED
    BY <2>2, <2>3, Zenon
<1>3. CASE ~(enabled /\ a >= max_login_failures)
  <2>1. Lock(a, n, u) = u
    BY <1>3, Zenon DEF Lock
  <2> QED
    BY <2>1, <1>3, Zenon
<1> QED
  BY <1>2, <1>3, Zenon

\* A failure written back from the copy of t, as plain facts about its columns.
LEMMA FailureWrites ==
  ASSUME TypeOK, NEW t \in Task, record_failure_write(t)
  PROVE  \E a \in Nat :
            /\ a > 0
            /\ a = Counted(copy[t].failed_attempts, copy[t].last_failed_at, now[t])
            /\ failed_attempts' = a
            /\ last_failed_at' = now[t]
            /\ locked_until' = Lock(a, now[t], copy[t].locked_until)
            /\ locked_until' \in {NoTime} \cup Nat
<1> DEFINE a == Counted(copy[t].failed_attempts, copy[t].last_failed_at, now[t])
<1>1. copy[t].failed_attempts \in Nat /\ copy[t].locked_until \in {NoTime} \cup Nat
      /\ now[t] \in Nat
  BY PolicyAssumption DEF TypeOK, Row
<1>2. a \in Nat /\ a > 0
  BY <1>1 DEF Counted
<1>3. locked_until' = Lock(a, now[t], copy[t].locked_until)
      /\ failed_attempts' = a /\ last_failed_at' = now[t]
  BY Zenon DEF record_failure_write
<1>4. Lock(a, now[t], copy[t].locked_until) \in {NoTime} \cup Nat
  BY <1>1, <1>2, LockType, Zenon
<1> QED
  BY <1>2, <1>3, <1>4, Zenon

\* The attempts start well-typed.
LEMMA InitType == Init => TypeOK
BY PolicyAssumption DEF Init, TypeOK, Row, EmptyRow, NoTime

\* Every step of the attempts keeps them well-typed.
LEMMA NextType == TypeOK /\ [Next]_vars => TypeOK'
<1> SUFFICES ASSUME TypeOK, [Next]_vars PROVE TypeOK'
  BY Zenon
<1> USE PolicyAssumption, BodyAssumption DEF TypeOK
<1>1. CASE Tick
  BY <1>1 DEF Tick, row
<1>2. ASSUME NEW t \in Task, Begin(t) PROVE TypeOK'
  BY <1>2 DEF Begin, GoTo, row
<1>3. ASSUME NEW t \in Task, check_locked(t) PROVE TypeOK'
  BY <1>3 DEF check_locked, GoTo, Respond, EmptyRow, Row, row
<1>4. ASSUME NEW t \in Task, verify_password(t) PROVE TypeOK'
  BY <1>4, Zenon DEF verify_password, GoTo, row
<1>5. ASSUME NEW t \in Task, record_success_read(t) PROVE TypeOK'
  <2>1. CASE Respond(t) /\ UNCHANGED <<clock, row, failures, contended, imposed>>
    BY <2>1 DEF GoTo, Respond, EmptyRow, Row, row
  <2>2. CASE GoTo(t, "clear_write") /\ ReadRow(t)
    BY <2>2 DEF GoTo, ReadRow, Row, row
  <2> QED
    BY <1>5, <2>1, <2>2, Zenon DEF record_success_read
<1>6. ASSUME NEW t \in Task, record_success_write(t) PROVE TypeOK'
  BY <1>6 DEF record_success_write, GoTo, Respond, EmptyRow, Row, row
<1>7. ASSUME NEW t \in Task, record_failure_read(t) PROVE TypeOK'
  BY <1>7 DEF record_failure_read, GoTo, ReadRow, Row, row
<1>8. ASSUME NEW t \in Task, record_failure_write(t) PROVE TypeOK'
  <2>1. failed_attempts' \in Nat /\ last_failed_at' = now[t]
        /\ locked_until' \in {NoTime} \cup Nat
    BY <1>8, FailureWrites, Zenon
  <2>2. failures' \in Nat
    BY <1>8 DEF record_failure_write, Counted
  <2> HIDE DEF TypeOK
  <2>3. /\ UNCHANGED <<clock, contended, imposed>>
        /\ pc' = [pc EXCEPT ![t] = "idle"]
        /\ now' = [now EXCEPT ![t] = 0]
        /\ copy' = [copy EXCEPT ![t] = EmptyRow]
    BY <1>8, Zenon DEF record_failure_write, Respond, GoTo
  <2> QED
    BY <2>1, <2>2, <2>3 DEF TypeOK, EmptyRow, Row, NoTime
<1>9. ASSUME NEW t \in Task, Drop(t) PROVE TypeOK'
  BY <1>9 DEF Drop, GoTo, Respond, EmptyRow, Row, row
<1>11. ASSUME NEW t \in Task, rewrite_read(t) PROVE TypeOK'
  BY <1>11 DEF rewrite_read, GoTo, ReadRow, Row, row
<1>12. ASSUME NEW t \in Task, rewrite_write(t) PROVE TypeOK'
  BY <1>12 DEF rewrite_write, GoTo, Respond, EmptyRow, Row, row
<1>13. ASSUME NEW b \in Body, update(b) PROVE TypeOK'
  BY <1>13 DEF update, Recording, Row
<1>10. CASE UNCHANGED vars
  BY <1>10, Zenon DEF vars, row
<1> QED
  BY <1>1, <1>2, <1>3, <1>4, <1>5, <1>6, <1>7, <1>8, <1>9, <1>11, <1>12, <1>13, <1>10,
     Zenon DEF Next

-----------------------------------------------------------------------------
\* A row with the count n and the lock u respects the policy at time c, or is one that
\* was PATCHed in: I are those.
RowSound(n, u, c, I) ==
    /\ \/ enabled /\ n > 0 /\ n >= max_login_failures => u # NoTime
       \/ \E b \in I : b.failed_attempts = n /\ b.locked_until = NoTime
    /\ \/ permanent_lockout
       \/ u <= c + max_wait
       \/ \E b \in I : b.locked_until = u

\* The stored row and every copy of it respect the policy.
LockInv ==
    /\ RowSound(failed_attempts, locked_until, clock, imposed)
    /\ \A t \in Task : RowSound(copy[t].failed_attempts, copy[t].locked_until, clock, imposed)

\* An empty row does, and time and more PATCHes take nothing from a row that does.
LEMMA RowKept ==
  ASSUME NEW c \in Nat, NEW d \in Nat, c <= d, NEW I, NEW J, I \subseteq J
  PROVE  /\ RowSound(0, NoTime, d, J)
         /\ \A n \in Nat, u \in {NoTime} \cup Nat : RowSound(n, u, c, I) => RowSound(n, u, d, J)
BY PolicyAssumption DEF RowSound, NoTime

\* When the row is left alone, the copies are carried over or emptied.
LEMMA CopyKept ==
  ASSUME TypeOK, LockInv, clock' \in Nat, clock <= clock', imposed \subseteq imposed',
         \A t \in Task : copy'[t] = copy[t] \/ copy'[t] = EmptyRow
                            \/ copy'[t] = [failed_attempts |-> failed_attempts,
                                           locked_until |-> locked_until,
                                           last_failed_at |-> last_failed_at]
  PROVE  \A t \in Task : RowSound(copy'[t].failed_attempts, copy'[t].locked_until, clock', imposed')
<1> SUFFICES ASSUME NEW t \in Task
             PROVE RowSound(copy'[t].failed_attempts, copy'[t].locked_until, clock', imposed')
  BY Zenon
<1>1. clock \in Nat /\ failed_attempts \in Nat /\ locked_until \in {NoTime} \cup Nat
      /\ copy[t].failed_attempts \in Nat /\ copy[t].locked_until \in {NoTime} \cup Nat
  BY PolicyAssumption DEF TypeOK, Row
<1>5. \A n \in Nat, u \in {NoTime} \cup Nat :
         RowSound(n, u, clock, imposed) => RowSound(n, u, clock', imposed')
  BY <1>1, RowKept, Zenon
<1>6. RowSound(copy[t].failed_attempts, copy[t].locked_until, clock', imposed')
  BY <1>1, <1>5, Zenon DEF LockInv
<1>2. CASE copy'[t] = copy[t]
  BY <1>2, <1>6, Zenon
<1>3. CASE copy'[t] = EmptyRow
  <2>1. copy'[t].failed_attempts = 0 /\ copy'[t].locked_until = NoTime
    BY <1>3 DEF EmptyRow
  <2> QED
    BY <2>1, <1>1, RowKept, Zenon
<1>4. CASE copy'[t] = [failed_attempts |-> failed_attempts, locked_until |-> locked_until,
                       last_failed_at |-> last_failed_at]
  <2>1. copy'[t].failed_attempts = failed_attempts /\ copy'[t].locked_until = locked_until
    BY <1>4
  <2> QED
    BY <2>1, <1>1, <1>5, Zenon DEF LockInv
<1> QED
  BY <1>2, <1>3, <1>4, Zenon

\* What the steps do to the copies.
LEMMA CopyStep ==
  ASSUME TypeOK, [Next]_vars
  PROVE  /\ clock' \in Nat /\ clock <= clock' /\ imposed \subseteq imposed'
         /\ \A t \in Task : copy'[t] = copy[t] \/ copy'[t] = EmptyRow
                            \/ copy'[t] = [failed_attempts |-> failed_attempts,
                                           locked_until |-> locked_until,
                                           last_failed_at |-> last_failed_at]
<1> USE PolicyAssumption DEF TypeOK
<1>1. CASE Tick
  BY <1>1 DEF Tick
<1>2. CASE UNCHANGED vars
  BY <1>2 DEF vars
<1>3. ASSUME NEW b \in Body, update(b) PROVE copy' = copy /\ clock' = clock /\ imposed \subseteq imposed'
  BY <1>3, Zenon DEF update
<1>4. ASSUME NEW t \in Task, ReadRow(t)
      PROVE  clock' = clock /\ imposed' = imposed
             /\ copy' = [copy EXCEPT ![t] = [failed_attempts |-> failed_attempts,
                                             locked_until |-> locked_until,
                                             last_failed_at |-> last_failed_at]]
  BY <1>4, Zenon DEF ReadRow
<1>5. ASSUME NEW t \in Task, Begin(t) \/ check_locked(t) \/ verify_password(t)
             \/ record_success_write(t) \/ record_failure_write(t) \/ rewrite_write(t) \/ Drop(t)
      PROVE  clock' = clock /\ imposed' = imposed
             /\ (copy' = copy \/ copy' = [copy EXCEPT ![t] = EmptyRow])
  BY <1>5, Zenon DEF Begin, check_locked, verify_password, record_success_write,
        record_failure_write, rewrite_write, Drop, Respond
<1>6. ASSUME NEW t \in Task, record_success_read(t) \/ record_failure_read(t) \/ rewrite_read(t)
      PROVE  ReadRow(t) \/ (clock' = clock /\ imposed' = imposed /\ copy' = [copy EXCEPT ![t] = EmptyRow])
  BY <1>6, Zenon DEF record_success_read, record_failure_read, rewrite_read, Respond
<1>7. ASSUME NEW t \in Task, clock' = clock, imposed' = imposed,
             NEW c, copy' = [copy EXCEPT ![t] = c]
      PROVE  \A u \in Task : copy'[u] = copy[u] \/ copy'[u] = c
  BY <1>7
<1>8. clock \in Nat /\ clock <= clock
  OBVIOUS
<1> HIDE DEF TypeOK
<1> QED
  BY <1>1, <1>2, <1>3, <1>4, <1>5, <1>6, <1>7, <1>8, Zenon DEF Next

\* Every step keeps the lock tied to the count of failures.
LEMMA NextLock == TypeOK /\ LockInv /\ [Next]_vars => LockInv'
<1> SUFFICES ASSUME TypeOK, LockInv, [Next]_vars PROVE LockInv'
  BY Zenon
<1>1. \A t \in Task : RowSound(copy'[t].failed_attempts, copy'[t].locked_until, clock', imposed')
  BY CopyStep, CopyKept, Zenon
<1>2. clock \in Nat /\ clock' \in Nat /\ clock <= clock' /\ imposed \subseteq imposed'
      /\ failed_attempts \in Nat /\ locked_until \in {NoTime} \cup Nat
  BY CopyStep, PolicyAssumption DEF TypeOK
<1> SUFFICES RowSound(failed_attempts', locked_until', clock', imposed')
  BY <1>1, Zenon DEF LockInv
<1>3. CASE UNCHANGED row
  BY <1>2, <1>3, RowKept, Zenon DEF LockInv, row
<1>4. ASSUME NEW t \in Task, record_success_write(t)
      PROVE  RowSound(failed_attempts', locked_until', clock', imposed')
  <2>1. failed_attempts' = 0 /\ locked_until' = NoTime
    BY <1>4, Zenon DEF record_success_write
  <2> QED
    BY <2>1, <1>2, RowKept, Zenon
<1>5. ASSUME NEW t \in Task, rewrite_write(t)
      PROVE  RowSound(failed_attempts', locked_until', clock', imposed')
  <2>1. failed_attempts' = copy[t].failed_attempts /\ locked_until' = copy[t].locked_until
    BY <1>5, Zenon DEF rewrite_write
  <2>2. copy[t].failed_attempts \in Nat /\ copy[t].locked_until \in {NoTime} \cup Nat
    BY DEF TypeOK, Row
  <2>3. RowSound(copy[t].failed_attempts, copy[t].locked_until, clock, imposed)
    BY Zenon DEF LockInv
  <2>4. \A n \in Nat, u \in {NoTime} \cup Nat :
           RowSound(n, u, clock, imposed) => RowSound(n, u, clock', imposed')
    BY <1>2, RowKept, Zenon
  <2> QED
    BY <2>1, <2>2, <2>3, <2>4, Zenon
<1>6. ASSUME NEW b \in Body, update(b)
      PROVE  RowSound(failed_attempts', locked_until', clock', imposed')
  <2>1. failed_attempts' = b.failed_attempts /\ locked_until' = b.locked_until
        /\ imposed' = imposed \cup ({b} \ {EmptyRow})
    BY <1>6, Zenon DEF update
  <2>2. CASE b = EmptyRow
    <3>1. failed_attempts' = 0 /\ locked_until' = NoTime
      BY <2>1, <2>2 DEF EmptyRow
    <3> QED
      BY <3>1, <1>2, RowKept, Zenon
  <2>3. CASE b # EmptyRow
    <3>1. b \in imposed'
      BY <2>1, <2>3, Zenon
    <3> QED
      BY <3>1, <2>1, Zenon DEF RowSound
  <2> QED
    BY <2>2, <2>3, Zenon
<1>7. ASSUME NEW t \in Task, record_failure_write(t)
      PROVE  RowSound(failed_attempts', locked_until', clock', imposed')
  <2>1. PICK a \in Nat :
           /\ failed_attempts' = a
           /\ locked_until' = Lock(a, now[t], copy[t].locked_until)
    BY <1>7, FailureWrites, Zenon
  <2>2. /\ copy[t].failed_attempts \in Nat /\ copy[t].locked_until \in {NoTime} \cup Nat
        /\ now[t] \in Nat /\ now[t] <= clock
    BY PolicyAssumption DEF TypeOK, Row
  <2>3. enabled /\ a >= max_login_failures => locked_until' # NoTime
    BY <2>1, <2>2, LockType, Zenon
  <2>4. clock' = clock /\ imposed' = imposed
    BY <1>7, Zenon DEF record_failure_write
  <2>5. \/ permanent_lockout \/ copy[t].locked_until <= clock + max_wait
        \/ \E b \in imposed : b.locked_until = copy[t].locked_until
    BY Zenon DEF LockInv, RowSound
  <2>6. permanent_lockout \/ locked_until' <= clock + max_wait
        \/ locked_until' = copy[t].locked_until
    BY <2>1, <2>2, <1>2, LockReach, Zenon
  <2> QED
    BY <2>1, <2>3, <2>4, <2>5, <2>6, Zenon DEF RowSound
<1>8. ASSUME NEW t \in Task,
             \/ Begin(t) \/ check_locked(t) \/ verify_password(t) \/ record_success_read(t)
             \/ record_failure_read(t) \/ rewrite_read(t) \/ Drop(t)
      PROVE  UNCHANGED row
  BY <1>8, Zenon DEF Begin, check_locked, verify_password, record_success_read, record_failure_read,
        rewrite_read, Drop, ReadRow
<1>9. Tick \/ UNCHANGED vars => UNCHANGED row
  BY Zenon DEF Tick, vars
<1> QED
  BY <1>3, <1>4, <1>5, <1>6, <1>7, <1>8, <1>9, Zenon DEF Next

\* At the start there is no lock to account for.
LEMMA InitLock == Init => LockInv
BY PolicyAssumption DEF Init, LockInv, RowSound, EmptyRow, NoTime

\* Types of the row, the copies and the history.
THEOREM TypeCorrect == Spec => []TypeOK
BY InitType, NextType, PTL DEF Spec

\* For every policy: once the counter is at the threshold the row is locked,
\* although record_* and the other writers of the row write back rows that may be
\* out of date, unless a PATCH wrote the count without the lock.
THEOREM ThresholdCorrect == Spec => []ThresholdLocks
<1>1. LockInv => ThresholdLocks
  BY Zenon DEF LockInv, RowSound, ThresholdLocks
<1> QED
  BY <1>1, InitType, NextType, InitLock, NextLock, PTL DEF Spec

\* For every policy: no temporary lock reaches further than max_wait ahead, but one
\* that a PATCH wrote.
THEOREM LockEnds == Spec => []LockEndsInTime
<1>1. LockInv => LockEndsInTime
  BY Zenon DEF LockInv, RowSound, LockEndsInTime
<1> QED
  BY <1>1, InitType, NextType, InitLock, NextLock, PTL DEF Spec

-----------------------------------------------------------------------------
\* Without overlap at most one task is between its read and its write, and
\* its copy is the stored row.
CountInv ==
    contended = {} =>
        /\ CountsWhenSequential
        /\ \A t \in Recording :
              copy[t] = [failed_attempts |-> failed_attempts,
                         locked_until |-> locked_until,
                         last_failed_at |-> last_failed_at]
        /\ \A t, u \in Recording : t = u

\* Every step keeps the count within the failures that happened.
LEMMA NextCount == TypeOK /\ CountInv /\ [Next]_vars => CountInv'
<1> SUFFICES ASSUME TypeOK, CountInv, [Next]_vars PROVE CountInv'
  BY Zenon
<1> USE PolicyAssumption DEF TypeOK, CountInv, CountsWhenSequential, Recording
<1>1. CASE Tick
  BY <1>1, Zenon DEF Tick, row
<1>2. ASSUME NEW t \in Task, Begin(t) PROVE CountInv'
  BY <1>2 DEF Begin, GoTo, row
<1>3. ASSUME NEW t \in Task, check_locked(t) PROVE CountInv'
  BY <1>3 DEF check_locked, GoTo, Respond, row
<1>4. ASSUME NEW t \in Task, verify_password(t) PROVE CountInv'
  BY <1>4 DEF verify_password, GoTo, row
<1>5. ASSUME NEW t \in Task, record_success_read(t) PROVE CountInv'
  <2>1. CASE Respond(t) /\ UNCHANGED <<clock, row, failures, contended, imposed>>
    BY <2>1, <1>5 DEF record_success_read, GoTo, Respond, row
  <2>2. CASE GoTo(t, "clear_write") /\ ReadRow(t)
    BY <2>2, Zenon DEF GoTo, ReadRow, row
  <2> QED
    BY <1>5, <2>1, <2>2, Zenon DEF record_success_read
<1>6. ASSUME NEW t \in Task, record_success_write(t) PROVE CountInv'
  BY <1>6 DEF record_success_write, GoTo, Respond
<1>7. ASSUME NEW t \in Task, record_failure_read(t) PROVE CountInv'
  BY <1>7 DEF record_failure_read, GoTo, ReadRow, row
<1>8. ASSUME NEW t \in Task, record_failure_write(t) PROVE CountInv'
  BY <1>8 DEF record_failure_write, GoTo, Respond
<1>9. ASSUME NEW t \in Task, Drop(t) PROVE CountInv'
  BY <1>9, Zenon DEF Drop, GoTo, Respond, row
<1>11. ASSUME NEW t \in Task, rewrite_read(t) PROVE CountInv'
  BY <1>11 DEF rewrite_read, GoTo, ReadRow, row
<1>12. ASSUME NEW t \in Task, rewrite_write(t) PROVE CountInv'
  BY <1>12 DEF rewrite_write, GoTo, Respond
<1>13. ASSUME NEW b \in Body, update(b) PROVE CountInv'
  BY <1>13 DEF update
<1>10. CASE UNCHANGED vars
  BY <1>10, Zenon DEF vars, row
<1> QED
  BY <1>1, <1>2, <1>3, <1>4, <1>5, <1>6, <1>7, <1>8, <1>9, <1>11, <1>12, <1>13, <1>10,
     Zenon DEF Next

\* For every policy: the counter is the number of failures since the last
\* success or elapsed window, on top of what a PATCH set, as long as no write of the
\* row comes between another task's read and write.
THEOREM CountCorrect == Spec => []CountsWhenSequential
<1>1. Init => CountInv
  BY Zenon DEF Init, CountInv, CountsWhenSequential, Recording
<1>2. CountInv => CountsWhenSequential
  BY Zenon DEF CountInv, CountsWhenSequential
<1> QED
  BY <1>1, <1>2, InitType, NextType, NextCount, PTL DEF Spec

\* The lockout sets in at the threshold, ends in time and counts exactly while no two
\* writers of the row overlap (record_failure, record_success, and every other caller of
\* update_user), apart from what a PATCH wrote into the lockout columns.
THEOREM LockoutCorrect == Spec => []LockoutSound
BY ThresholdCorrect, LockEnds, CountCorrect, PTL DEF LockoutSound

-----------------------------------------------------------------------------
\* One-time credentials

HoldingPC == {"recovery", "link_issue", "link_verify", "sms_issue", "sms_verify", "webauthn", "ack", "touch"}

\* The shape of the requests: one that may still write holds a row, one that issues
\* holds what it drew, and one that passed verify_assertion a count above its copy's.
CredentialShape ==
    /\ user_row \in credentials!Row
    /\ counter \in Nat
    /\ u_pc \in [Task -> HoldingPC \cup {"idle", "link_send", "sms_send", "asserted"}]
    /\ DOMAIN u_copy = Task /\ DOMAIN arg = Task
    /\ \A t \in Task :
          /\ u_pc[t] \in HoldingPC => u_copy[t] \in credentials!Row
          /\ u_pc[t] = "link_issue" => arg[t] \in Link
          /\ u_pc[t] = "sms_issue" => arg[t] \in Sms
          /\ u_pc[t] \in {"asserted", "webauthn"} => arg[t] \in Nat
          /\ u_pc[t] = "webauthn" => u_copy[t].sign_count <= arg[t]

\* A row that holds nothing which the row and the requests did not hold already.
Kept(r) ==
    /\ credentials!Live(r) \subseteq credentials!Held
    /\ credentials!Pending(r) \subseteq credentials!AllPending
    /\ \E m \in credentials!Floor : m <= r.sign_count

\* What is in the row and in the copies is held.
LEMMA OwnKept ==
    ASSUME CredentialShape
    PROVE  /\ Kept(user_row)
           /\ \A u \in Task : u_pc[u] \in HoldingPC => Kept(u_copy[u])
           /\ \A u \in Task : u_pc[u] \in {"link_issue", "sms_issue"} => arg[u] \in credentials!Held
<1>1. user_row.sign_count \in Nat /\ \A u \in Task : u_pc[u] \in HoldingPC => u_copy[u].sign_count \in Nat
  BY Zenon DEF CredentialShape, credentials!Row
<1>2. Kept(user_row)
  BY <1>1 DEF Kept, credentials!Held, credentials!AllPending, credentials!Floor
<1>3. ASSUME NEW u \in Task, u_pc[u] \in HoldingPC PROVE Kept(u_copy[u])
  <2>1. u \in credentials!Holding
    BY <1>3, Zenon DEF credentials!Holding, HoldingPC
  <2>2. u_copy[u].sign_count \in credentials!Floor /\ u_copy[u].sign_count <= u_copy[u].sign_count
    BY <1>1, <1>3, <2>1 DEF credentials!Floor
  <2> QED
    BY <2>1, <2>2, Zenon DEF Kept, credentials!Held, credentials!AllPending
<1>4. ASSUME NEW u \in Task, u_pc[u] \in {"link_issue", "sms_issue"} PROVE arg[u] \in credentials!Held
  BY <1>4, Zenon DEF credentials!Held, credentials!Holding
<1> QED
  BY <1>2, <1>3, <1>4, Zenon

\* A step after which every row in sight is kept, and every drawn credential to be
\* stored was held, is a step of BurnedForGood.
LEMMA AllKept ==
    ASSUME Kept(user_row'),
           \A u \in Task : u_pc'[u] \in HoldingPC => Kept(u_copy'[u]),
           \A u \in Task : u_pc'[u] \in {"link_issue", "sms_issue"} =>
                               arg'[u] \notin drawn \/ arg'[u] \in credentials!Held
    PROVE  /\ credentials!Held' \cap drawn \subseteq credentials!Held
           /\ credentials!AllPending' \subseteq credentials!AllPending
           /\ \A n \in credentials!Floor' : \E m \in credentials!Floor : m <= n
<1>1. credentials!Holding' = {u \in Task : u_pc'[u] \in HoldingPC}
  BY Zenon DEF credentials!Holding, HoldingPC
<1>2. ASSUME NEW x \in credentials!Held', x \in drawn PROVE x \in credentials!Held
  <2>1. \/ x \in credentials!Live(user_row')
        \/ \E u \in credentials!Holding' : x \in credentials!Live(u_copy'[u])
        \/ \E u \in Task : u_pc'[u] \in {"link_issue", "sms_issue"} /\ x = arg'[u]
    BY <1>1, <1>2, Zenon DEF credentials!Held, credentials!Live, HoldingPC
  <2> QED
    BY <1>1, <1>2, <2>1, Zenon DEF Kept
<1>3. ASSUME NEW x \in credentials!AllPending' PROVE x \in credentials!AllPending
  <2>1. \/ x \in credentials!Pending(user_row')
        \/ \E u \in credentials!Holding' : x \in credentials!Pending(u_copy'[u])
    BY <1>1, <1>3, Zenon DEF credentials!AllPending, credentials!Pending
  <2> QED
    BY <1>1, <2>1, Zenon DEF Kept
<1>4. ASSUME NEW n \in credentials!Floor' PROVE \E m \in credentials!Floor : m <= n
  <2>1. n = user_row'.sign_count \/ \E u \in credentials!Holding' : n = u_copy'[u].sign_count
    BY <1>4, Zenon DEF credentials!Floor
  <2> QED
    BY <1>1, <2>1, Zenon DEF Kept
<1> QED
  BY <1>2, <1>3, <1>4, Zenon

\* A row made of a kept one, with nothing more than what is held.
LEMMA KeptFrom ==
    ASSUME CredentialShape, NEW r \in credentials!Row, NEW q \in credentials!Row, Kept(r),
           credentials!Live(q) \subseteq credentials!Live(r) \cup credentials!Held,
           credentials!Pending(q) \subseteq credentials!Pending(r), r.sign_count <= q.sign_count
    PROVE  Kept(q)
<1>1. credentials!Floor \subseteq Nat
  BY DEF credentials!Floor, credentials!Holding, CredentialShape, credentials!Row, HoldingPC
<1>2. r.sign_count \in Nat /\ q.sign_count \in Nat
  BY Zenon DEF credentials!Row
<1> QED
  BY <1>1, <1>2 DEF Kept

\* The whole of a write: it is a row, and it is kept.
LEMMA WriteKept ==
    ASSUME CredentialShape, NEW t \in Task, u_pc[t] \in HoldingPC,
           NEW q,
           \/ u_pc[t] = "recovery" /\ q = [u_copy[t] EXCEPT !.recovery = @ \ {arg[t]}]
           \/ u_pc[t] = "link_issue" /\ q = [u_copy[t] EXCEPT !.magic = arg[t]]
           \/ u_pc[t] = "link_verify" /\ q = [u_copy[t] EXCEPT !.magic = None]
           \/ u_pc[t] = "sms_issue" /\ q = [u_copy[t] EXCEPT !.phone = arg[t]]
           \/ u_pc[t] = "sms_verify" /\ q = [u_copy[t] EXCEPT !.phone = None]
           \/ u_pc[t] = "webauthn" /\ q = [u_copy[t] EXCEPT !.sign_count = arg[t]]
           \/ u_pc[t] = "ack" /\ q = [u_copy[t] EXCEPT !.actions = {i \in @ : RequiredActions[i] # arg[t]}]
           \/ u_pc[t] = "touch" /\ q = u_copy[t]
    PROVE  q \in credentials!Row /\ Kept(q)
<1>1. PICK r : r = u_copy[t]
  BY Zenon
<1>2. r \in credentials!Row /\ Kept(r)
  BY <1>1, OwnKept, Zenon DEF CredentialShape
<1>3. r.sign_count \in Nat /\ r.sign_count <= r.sign_count
  BY <1>2 DEF credentials!Row
<1>a. ASSUME q \in credentials!Row, credentials!Live(q) \subseteq credentials!Live(r) \cup credentials!Held,
             credentials!Pending(q) \subseteq credentials!Pending(r), r.sign_count <= q.sign_count
      PROVE  q \in credentials!Row /\ Kept(q)
  BY <1>2, <1>a, KeptFrom, Zenon
<1>4. CASE u_pc[t] = "recovery" /\ q = [u_copy[t] EXCEPT !.recovery = @ \ {arg[t]}]
  <2>1. q = [recovery |-> r.recovery \ {arg[t]}, magic |-> r.magic, phone |-> r.phone,
             sign_count |-> r.sign_count, actions |-> r.actions]
    BY <1>1, <1>2, <1>4, Zenon DEF credentials!Row
  <2> QED
    BY <1>2, <1>3, <1>a, <2>1, Zenon DEF credentials!Row, credentials!Live, credentials!Pending
<1>5. CASE u_pc[t] = "link_issue" /\ q = [u_copy[t] EXCEPT !.magic = arg[t]]
  <2>1. q = [recovery |-> r.recovery, magic |-> arg[t], phone |-> r.phone,
             sign_count |-> r.sign_count, actions |-> r.actions]
    BY <1>1, <1>2, <1>5, Zenon DEF credentials!Row
  <2>2. arg[t] \in Link /\ arg[t] \in credentials!Held
    BY <1>5, OwnKept, Zenon DEF CredentialShape
  <2> QED
    BY <1>2, <1>3, <1>a, <2>1, <2>2, Zenon DEF credentials!Row, credentials!Live, credentials!Pending
<1>6. CASE u_pc[t] = "link_verify" /\ q = [u_copy[t] EXCEPT !.magic = None]
  <2>1. q = [recovery |-> r.recovery, magic |-> None, phone |-> r.phone,
             sign_count |-> r.sign_count, actions |-> r.actions]
    BY <1>1, <1>2, <1>6, Zenon DEF credentials!Row
  <2> QED
    BY <1>2, <1>3, <1>a, <2>1, Zenon DEF credentials!Row, credentials!Live, credentials!Pending
<1>7. CASE u_pc[t] = "sms_issue" /\ q = [u_copy[t] EXCEPT !.phone = arg[t]]
  <2>1. q = [recovery |-> r.recovery, magic |-> r.magic, phone |-> arg[t],
             sign_count |-> r.sign_count, actions |-> r.actions]
    BY <1>1, <1>2, <1>7, Zenon DEF credentials!Row
  <2>2. arg[t] \in Sms /\ arg[t] \in credentials!Held
    BY <1>7, OwnKept, Zenon DEF CredentialShape
  <2> QED
    BY <1>2, <1>3, <1>a, <2>1, <2>2, Zenon DEF credentials!Row, credentials!Live, credentials!Pending
<1>8. CASE u_pc[t] = "sms_verify" /\ q = [u_copy[t] EXCEPT !.phone = None]
  <2>1. q = [recovery |-> r.recovery, magic |-> r.magic, phone |-> None,
             sign_count |-> r.sign_count, actions |-> r.actions]
    BY <1>1, <1>2, <1>8, Zenon DEF credentials!Row
  <2> QED
    BY <1>2, <1>3, <1>a, <2>1, Zenon DEF credentials!Row, credentials!Live, credentials!Pending
<1>9. CASE u_pc[t] = "webauthn" /\ q = [u_copy[t] EXCEPT !.sign_count = arg[t]]
  <2>1. q = [recovery |-> r.recovery, magic |-> r.magic, phone |-> r.phone,
             sign_count |-> arg[t], actions |-> r.actions]
    BY <1>1, <1>2, <1>9, Zenon DEF credentials!Row
  <2>2. arg[t] \in Nat /\ r.sign_count <= arg[t]
    BY <1>1, <1>9, Zenon DEF CredentialShape
  <2> QED
    BY <1>2, <1>3, <1>a, <2>1, <2>2, Zenon DEF credentials!Row, credentials!Live, credentials!Pending
<1>10. CASE u_pc[t] = "ack" /\ q = [u_copy[t] EXCEPT !.actions = {i \in @ : RequiredActions[i] # arg[t]}]
  <2>1. q = [recovery |-> r.recovery, magic |-> r.magic, phone |-> r.phone, sign_count |-> r.sign_count,
             actions |-> {i \in r.actions : RequiredActions[i] # arg[t]}]
    BY <1>1, <1>2, <1>10, Zenon DEF credentials!Row
  <2> QED
    BY <1>2, <1>3, <1>a, <2>1, Zenon DEF credentials!Row, credentials!Live, credentials!Pending
<1>11. CASE u_pc[t] = "touch" /\ q = u_copy[t]
  BY <1>1, <1>2, <1>11, Zenon
<1> QED
  BY <1>4, <1>5, <1>6, <1>7, <1>8, <1>9, <1>10, <1>11, Zenon

\* The part of BurnedForGood that is about one step.
BurnedStep ==
    /\ credentials!Held' \cap drawn \subseteq credentials!Held
    /\ credentials!AllPending' \subseteq credentials!AllPending
    /\ \A n \in credentials!Floor' : \E m \in credentials!Floor : m <= n

\* A read: the copy is the row.
LEMMA ReadKeeps ==
    ASSUME CredentialShape, NEW t \in Task, NEW a, NEW next \in HoldingPC, credentials!get_user(t, a, next),
           next \in {"link_issue", "sms_issue"} => a \notin drawn,
           next = "link_issue" => a \in Link, next = "sms_issue" => a \in Sms,
           next = "webauthn" => a \in Nat /\ user_row.sign_count <= a
    PROVE  CredentialShape' /\ BurnedStep
<1>1. /\ user_row' = user_row /\ counter' = counter
      /\ u_pc' = [u_pc EXCEPT ![t] = next] /\ u_copy' = [u_copy EXCEPT ![t] = user_row]
      /\ arg' = [arg EXCEPT ![t] = a]
  BY Zenon DEF credentials!get_user
<1>2. /\ u_pc'[t] = next /\ u_copy'[t] = user_row /\ arg'[t] = a
      /\ \A u \in Task \ {t} : u_pc'[u] = u_pc[u] /\ u_copy'[u] = u_copy[u] /\ arg'[u] = arg[u]
  BY <1>1, Zenon DEF CredentialShape
<1>3. CredentialShape'
  <2>1. u_pc' \in [Task -> HoldingPC \cup {"idle", "link_send", "sms_send", "asserted"}]
    BY <1>1, Zenon DEF CredentialShape
  <2>2. next # "asserted"
    BY Zenon DEF HoldingPC
  <2>3. ASSUME NEW u \in Task
        PROVE  /\ u_pc'[u] \in HoldingPC => u_copy'[u] \in credentials!Row
               /\ u_pc'[u] = "link_issue" => arg'[u] \in Link
               /\ u_pc'[u] = "sms_issue" => arg'[u] \in Sms
               /\ u_pc'[u] \in {"asserted", "webauthn"} => arg'[u] \in Nat
               /\ u_pc'[u] = "webauthn" => u_copy'[u].sign_count <= arg'[u]
    <3>1. CASE u = t
      BY <1>2, <2>2, <3>1, Zenon DEF CredentialShape
    <3>2. CASE u # t
      BY <1>2, <3>2, Zenon DEF CredentialShape
    <3> QED
      BY <3>1, <3>2, Zenon
  <2> QED
    BY <1>1, <2>1, <2>3, Zenon DEF CredentialShape
<1>4. BurnedStep
  BY <1>1, <1>2, OwnKept, AllKept, Zenon DEF BurnedStep
<1> QED
  BY <1>3, <1>4, Zenon

\* A step that ends the request or sends what it issued, with a kept row.
LEMMA EndKeeps ==
    ASSUME CredentialShape, NEW t \in Task, user_row' \in credentials!Row, Kept(user_row'),
           counter' \in Nat, NEW l \in {"idle", "link_send", "sms_send", "asserted"},
           u_pc' = [u_pc EXCEPT ![t] = l], l = "asserted" => arg'[t] \in Nat,
           DOMAIN u_copy' = Task, DOMAIN arg' = Task,
           \A u \in Task \ {t} : u_copy'[u] = u_copy[u] /\ arg'[u] = arg[u]
    PROVE  CredentialShape' /\ BurnedStep
<1>1. /\ u_pc' \in [Task -> HoldingPC \cup {"idle", "link_send", "sms_send", "asserted"}]
      /\ u_pc'[t] = l /\ \A u \in Task \ {t} : u_pc'[u] = u_pc[u]
  BY Zenon DEF CredentialShape
<1>2. l \notin HoldingPC
  BY Zenon DEF HoldingPC
<1>3. CredentialShape'
  <2>3. ASSUME NEW u \in Task
        PROVE  /\ u_pc'[u] \in HoldingPC => u_copy'[u] \in credentials!Row
               /\ u_pc'[u] = "link_issue" => arg'[u] \in Link
               /\ u_pc'[u] = "sms_issue" => arg'[u] \in Sms
               /\ u_pc'[u] \in {"asserted", "webauthn"} => arg'[u] \in Nat
               /\ u_pc'[u] = "webauthn" => u_copy'[u].sign_count <= arg'[u]
    <3>1. CASE u = t
      BY <1>1, <1>2, <3>1, Zenon DEF HoldingPC
    <3>2. CASE u # t
      BY <1>1, <3>2, Zenon DEF CredentialShape
    <3> QED
      BY <3>1, <3>2, Zenon
  <2> QED
    BY <1>1, <2>3, Zenon DEF CredentialShape
<1>4. \A u \in Task : u_pc'[u] \in HoldingPC => Kept(u_copy'[u])
  BY <1>1, <1>2, OwnKept, Zenon
<1>5. \A u \in Task : u_pc'[u] \in {"link_issue", "sms_issue"} =>
                           arg'[u] \notin drawn \/ arg'[u] \in credentials!Held
  BY <1>1, <1>2, OwnKept, Zenon DEF HoldingPC
<1> QED
  BY <1>3, <1>4, <1>5, AllKept, Zenon DEF BurnedStep

\* What is left of a request that has ended.
LEMMA FinishParts ==
    ASSUME CredentialShape, NEW t \in Task, credentials!Finish(t)
    PROVE  /\ u_pc' = [u_pc EXCEPT ![t] = "idle"]
           /\ DOMAIN u_copy' = Task /\ DOMAIN arg' = Task
           /\ \A u \in Task \ {t} : u_copy'[u] = u_copy[u] /\ arg'[u] = arg[u]
  BY Zenon DEF credentials!Finish, CredentialShape

\* A request that is refused or dropped.
LEMMA RefuseKeeps ==
    ASSUME CredentialShape, NEW t \in Task, credentials!Refuse(t)
    PROVE  CredentialShape' /\ BurnedStep
<1>1. Kept(user_row) /\ user_row \in credentials!Row /\ counter \in Nat
  BY OwnKept, Zenon DEF CredentialShape
<1>2. user_row' = user_row /\ counter' = counter /\ credentials!Finish(t)
  BY Zenon DEF credentials!Refuse
<1> QED
  BY <1>1, <1>2, FinishParts, EndKeeps, Zenon

\* A write.
LEMMA UpdateKeeps ==
    ASSUME CredentialShape, NEW t \in Task, NEW q \in credentials!Row, Kept(q), credentials!update_user(t, q)
    PROVE  CredentialShape' /\ BurnedStep
<1>1. user_row' = q /\ counter' = counter /\ counter \in Nat /\ credentials!Finish(t)
  BY Zenon DEF credentials!update_user, CredentialShape
<1> QED
  BY <1>1, FinishParts, EndKeeps, Zenon

\* Every step keeps the shape and burns for good.
LEMMA NextBurned == CredentialShape /\ [credentials!Next]_credential_vars => CredentialShape' /\ [BurnedStep]_credential_vars
<1> SUFFICES ASSUME CredentialShape, credentials!Next PROVE CredentialShape' /\ BurnedStep
  <2>1. CASE UNCHANGED credential_vars
    BY <2>1, Zenon DEF credential_vars, CredentialShape
  <2> QED
    BY <2>1, Zenon
<1>0. PICK t \in Task :
        \/ \E k \in RecoveryCode : credentials!recovery_read(t, k)
        \/ credentials!recovery_write(t)
        \/ \E k \in Link : credentials!link_issue_read(t, k) \/ credentials!link_verify_read(t, k)
        \/ credentials!link_issue_write(t) \/ credentials!link_verify_write(t)
        \/ credentials!send(t)
        \/ \E k \in Sms : credentials!sms_issue_read(t, k) \/ credentials!sms_verify_read(t, k)
        \/ credentials!sms_issue_write(t) \/ credentials!sms_verify_write(t)
        \/ credentials!sign(t) \/ credentials!webauthn_read(t) \/ credentials!webauthn_write(t)
        \/ credentials!action_read(t) \/ credentials!action_write(t)
        \/ credentials!verify_email_read(t) \/ credentials!verify_email_write(t)
        \/ credentials!Drop(t)
  BY Zenon DEF credentials!Next
<1> DEFINE Good == CredentialShape' /\ BurnedStep
<1>a. ASSUME NEW a, NEW next \in HoldingPC \ {"link_issue", "sms_issue", "webauthn"},
             credentials!get_user(t, a, next)
      PROVE  Good
  BY <1>a, ReadKeeps, Zenon
<1>b. ASSUME NEW q, q \in credentials!Row /\ Kept(q), credentials!update_user(t, q) PROVE Good
  BY <1>b, UpdateKeeps, Zenon
<1> USE DEF HoldingPC
<1>1. ASSUME NEW k \in RecoveryCode, credentials!recovery_read(t, k) PROVE Good
  BY <1>1, <1>a, RefuseKeeps, Zenon DEF credentials!recovery_read
<1>2. CASE credentials!recovery_write(t)
  BY <1>2, <1>b, WriteKept, Zenon DEF credentials!recovery_write
<1>3. ASSUME NEW k \in Link, credentials!link_issue_read(t, k) PROVE Good
  BY <1>3, ReadKeeps, Zenon DEF credentials!link_issue_read
<1>4. ASSUME NEW k \in Link, credentials!link_verify_read(t, k) PROVE Good
  BY <1>4, <1>a, RefuseKeeps, Zenon DEF credentials!link_verify_read
<1>5. CASE credentials!link_issue_write(t)
  <2>1. user_row' \in credentials!Row /\ Kept(user_row')
    BY <1>5, WriteKept, Zenon DEF credentials!link_issue_write
  <2> QED
    BY <1>5, <2>1, EndKeeps, Zenon DEF credentials!link_issue_write, CredentialShape
<1>6. CASE credentials!link_verify_write(t)
  BY <1>6, <1>b, WriteKept, Zenon DEF credentials!link_verify_write
<1>7. CASE credentials!send(t)
  <2>1. Kept(user_row) /\ user_row \in credentials!Row /\ counter \in Nat
    BY OwnKept, Zenon DEF CredentialShape
  <2>2. user_row' = user_row /\ counter' = counter /\ credentials!Finish(t)
    BY <1>7, Zenon DEF credentials!send
  <2> QED
    BY <2>1, <2>2, FinishParts, EndKeeps, Zenon
<1>8. ASSUME NEW k \in Sms, credentials!sms_issue_read(t, k) PROVE Good
  BY <1>8, ReadKeeps, Zenon DEF credentials!sms_issue_read
<1>9. ASSUME NEW k \in Sms, credentials!sms_verify_read(t, k) PROVE Good
  BY <1>9, <1>a, RefuseKeeps, Zenon DEF credentials!sms_verify_read
<1>10. CASE credentials!sms_issue_write(t)
  <2>1. user_row' \in credentials!Row /\ Kept(user_row')
    BY <1>10, WriteKept, Zenon DEF credentials!sms_issue_write
  <2> QED
    BY <1>10, <2>1, EndKeeps, Zenon DEF credentials!sms_issue_write, CredentialShape
<1>11. CASE credentials!sms_verify_write(t)
  BY <1>11, <1>b, WriteKept, Zenon DEF credentials!sms_verify_write
<1>12. CASE credentials!sign(t)
  <2>1. Kept(user_row)
    BY OwnKept, Zenon
  <2>2. user_row \in credentials!Row /\ counter + 1 \in Nat
    BY DEF CredentialShape
  <2> QED
    BY <1>12, <2>1, <2>2, EndKeeps, Zenon DEF credentials!sign, CredentialShape
<1>13. CASE credentials!webauthn_read(t)
  <2>1. arg[t] \in Nat /\ user_row.sign_count \in Nat
    BY <1>13, Zenon DEF credentials!webauthn_read, CredentialShape, credentials!Row
  <2>2. CASE credentials!Refuse(t)
    BY <2>2, RefuseKeeps, Zenon
  <2>3. CASE credentials!verify_assertion(user_row.sign_count, arg[t]) /\ credentials!get_user(t, arg[t], "webauthn")
    BY <2>1, <2>3, ReadKeeps DEF credentials!verify_assertion
  <2> QED
    BY <1>13, <2>2, <2>3, Zenon DEF credentials!webauthn_read
<1>14. CASE credentials!webauthn_write(t)
  BY <1>14, <1>b, WriteKept, Zenon DEF credentials!webauthn_write
<1>15. CASE credentials!action_read(t)
  BY <1>15, <1>a, RefuseKeeps, Zenon DEF credentials!action_read
<1>16. CASE credentials!action_write(t)
  BY <1>16, <1>b, WriteKept, Zenon DEF credentials!action_write
<1>17. CASE credentials!verify_email_read(t)
  BY <1>17, <1>a, Zenon DEF credentials!verify_email_read
<1>18. CASE credentials!verify_email_write(t)
  BY <1>18, <1>b, WriteKept, Zenon DEF credentials!verify_email_write
<1>19. CASE credentials!Drop(t)
  BY <1>19, RefuseKeeps, Zenon DEF credentials!Drop
<1> QED
  BY <1>0, <1>1, <1>2, <1>3, <1>4, <1>5, <1>6, <1>7, <1>8, <1>9, <1>10, <1>11, <1>12, <1>13,
     <1>14, <1>15, <1>16, <1>17, <1>18, <1>19

\* For any number of requests, codes, links and actions: a one-time credential that
\* neither the row nor a request in flight holds never comes back, an acknowledged
\* action stays acknowledged, and the signature count falls below none of the counts
\* that were in sight (the authenticators' get_user / update_user pairs).
THEOREM BurnedCorrect == credentials!Spec => BurnedForGood
<1>1. credentials!Init => CredentialShape
  BY DEF credentials!Init, CredentialShape, credentials!Row, HoldingPC
<1>2. credentials!Spec => credentials!Init /\ [][credentials!Next]_credential_vars
  BY PTL DEF credentials!Spec, credentials!vars, credential_vars
<1>3. [BurnedStep]_credential_vars =>
        [/\ credentials!Held' \cap drawn \subseteq credentials!Held
         /\ credentials!AllPending' \subseteq credentials!AllPending
         /\ \A n \in credentials!Floor' : \E m \in credentials!Floor : m <= n]_(credentials!vars)
  BY Zenon DEF BurnedStep, credential_vars, credentials!vars
<1>4. CredentialShape /\ [credentials!Next]_credential_vars =>
        [/\ credentials!Held' \cap drawn \subseteq credentials!Held
         /\ credentials!AllPending' \subseteq credentials!AllPending
         /\ \A n \in credentials!Floor' : \E m \in credentials!Floor : m <= n]_(credentials!vars)
  BY <1>3, NextBurned, Zenon
<1> QED
  BY <1>1, <1>2, <1>4, NextBurned, PTL DEF BurnedForGood, credentials!BurnedForGood

-----------------------------------------------------------------------------
(* The audit trail.                                                        *)

Hand == [event : Nat, sink : audit!Sink, attempt : Nat, asleep : BOOLEAN]
Reading == [realm : Tenants, days : RetentionDays]

\* The shape of the variables of the audit trail.
AuditShape ==
    /\ events \in Seq([realm : Tenants, day : Nat]) /\ day \in Nat
    /\ queue \in Seq(Nat) /\ hand \in Hand \cup {Idle}
    /\ got \in [audit!Sink -> Seq(Nat)] /\ dead \in [audit!Sink -> SUBSET Nat]
    /\ lost \subseteq Nat
    /\ retention \in [Tenants -> RetentionDays]
    /\ pass \in Seq(Reading) \cup {Idle} /\ pass # << >>

\* The ids go through the channel, the task and the sinks in the order they were drawn.
InOrder ==
    /\ \A i \in DOMAIN queue : queue[i] \in 1..Len(events)
    /\ \A i, j \in DOMAIN queue : i < j => queue[i] < queue[j]
    /\ hand # Idle => /\ hand.event \in 1..Len(events)
                      /\ \A i \in DOMAIN queue : hand.event < queue[i]
    /\ \A s \in audit!Sink : \A k \in DOMAIN got[s] :
          /\ got[s][k] <= Len(events)
          /\ hand # Idle => got[s][k] <= hand.event
          /\ \A i \in DOMAIN queue : got[s][k] < queue[i]
Trail == InOrder /\ TrailWhole

\* What Append does to the places of a sequence.
LEMMA AppendPlaces ==
    ASSUME NEW S, NEW s \in Seq(S), NEW e \in S
    PROVE  /\ Append(s, e) \in Seq(S) /\ Len(Append(s, e)) = Len(s) + 1
           /\ DOMAIN Append(s, e) = 1..(Len(s) + 1) /\ DOMAIN s = 1..Len(s) /\ Len(s) \in Nat
           /\ Append(s, e)[Len(s) + 1] = e
           /\ \A i \in 1..Len(s) : Append(s, e)[i] = s[i]
           /\ Range(Append(s, e)) = Range(s) \cup {e}
<1>1. /\ Append(s, e) \in Seq(S) /\ Len(Append(s, e)) = Len(s) + 1
      /\ DOMAIN Append(s, e) = 1..(Len(s) + 1) /\ DOMAIN s = 1..Len(s) /\ Len(s) \in Nat
      /\ Append(s, e)[Len(s) + 1] = e
      /\ \A i \in 1..Len(s) : Append(s, e)[i] = s[i]
  OBVIOUS
<1> QED
  BY <1>1 DEF Range

\* What is appended is in the range.
LEMMA AppendRange ==
    ASSUME NEW s \in Seq(Nat), NEW e \in Nat
    PROVE  e \in Range(Append(s, e))
<1>1. Len(s) + 1 \in DOMAIN Append(s, e) /\ Append(s, e)[Len(s) + 1] = e
  OBVIOUS
<1> QED
  BY <1>1, Zenon DEF Range

\* The places of a sequence hold its elements.
LEMMA Places ==
    ASSUME NEW S, NEW s \in Seq(S), NEW i \in 1..Len(s)
    PROVE  s[i] \in S
  OBVIOUS

\* What Tail does to the places of a sequence.
LEMMA TailPlaces ==
    ASSUME NEW S, NEW s \in Seq(S), s # << >>
    PROVE  /\ Tail(s) \in Seq(S) /\ Len(Tail(s)) = Len(s) - 1 /\ Len(s) \in Nat \ {0}
           /\ DOMAIN s = 1..Len(s) /\ DOMAIN Tail(s) = 1..(Len(s) - 1)
           /\ Head(s) = s[1] /\ Head(s) \in S
           /\ \A i \in 1..(Len(s) - 1) : Tail(s)[i] = s[i + 1]
           /\ Range(s) = Range(Tail(s)) \cup {Head(s)}
<1>1. /\ Tail(s) \in Seq(S) /\ Len(Tail(s)) = Len(s) - 1 /\ Len(s) \in Nat \ {0}
      /\ DOMAIN s = 1..Len(s) /\ DOMAIN Tail(s) = 1..(Len(s) - 1)
      /\ Head(s) = s[1] /\ Head(s) \in S
      /\ \A i \in 1..(Len(s) - 1) : Tail(s)[i] = s[i + 1]
  OBVIOUS
<1>2. ASSUME NEW i \in 1..Len(s), i # 1 PROVE i - 1 \in 1..(Len(s) - 1) /\ s[i] = Tail(s)[i - 1]
  <2>1. i - 1 \in 1..(Len(s) - 1) /\ (i - 1) + 1 = i
    BY <1>1, <1>2
  <2> QED
    BY <1>1, <2>1, Zenon
<1>3. ASSUME NEW x \in Range(s) PROVE x \in Range(Tail(s)) \cup {Head(s)}
  <2>1. PICK i \in 1..Len(s) : x = s[i]
    BY <1>1, <1>3, Zenon DEF Range
  <2> QED
    BY <1>1, <1>2, <2>1, Zenon DEF Range
<1>4. ASSUME NEW x \in Range(Tail(s)) \cup {Head(s)} PROVE x \in Range(s)
  <2>1. CASE x = Head(s)
    BY <1>1, <2>1 DEF Range
  <2>2. CASE x \in Range(Tail(s))
    <3>1. PICK i \in 1..(Len(s) - 1) : x = Tail(s)[i]
      BY <1>1, <2>2, Zenon DEF Range
    <3>2. i + 1 \in 1..Len(s) /\ x = s[i + 1]
      BY <1>1, <3>1
    <3> QED
      BY <1>1, <3>2, Zenon DEF Range
  <2> QED
    BY <1>4, <2>1, <2>2, Zenon
<1> QED
  BY <1>1, <1>3, <1>4, Zenon

\* The task goes on to the next sink, or is done with the event.
LEMMA NextSinkHand ==
    ASSUME hand \in Hand, NEW failed
    PROVE  /\ hand.sink = Hooks + 1 => audit!NextSink(failed) = Idle
           /\ hand.sink # Hooks + 1 =>
                 /\ audit!NextSink(failed) \in Hand /\ audit!NextSink(failed) # Idle
                 /\ audit!NextSink(failed).event = hand.event
                 /\ audit!NextSink(failed).sink = hand.sink + 1
<1>1. ASSUME hand.sink # Hooks + 1
      PROVE  /\ audit!NextSink(failed) \in Hand
             /\ audit!NextSink(failed).event = hand.event
             /\ audit!NextSink(failed).sink = hand.sink + 1
  <2>1. hand.sink + 1 \in audit!Sink
    BY <1>1, AuditAssumption DEF Hand, audit!Sink
  <2> QED
    BY <1>1, <2>1, Zenon DEF audit!NextSink, Hand
<1>2. Idle \notin Hand
  BY AuditAssumption DEF Hand, audit!Sink
<1> QED
  BY <1>1, <1>2, Zenon DEF audit!NextSink

\* What the task does with the event in hand: a sink takes it, or drops it, and the
\* task goes on or tries again.
Handing ==
    /\ hand # Idle
    /\ audit!Took \/ got' = got
    /\ audit!Dropped \/ dead' = dead
    /\ \/ (audit!Took \/ audit!Dropped) /\ \E failed \in BOOLEAN : hand' = audit!NextSink(failed)
       \/ hand' \in Hand /\ hand'.event = hand.event /\ hand'.sink = hand.sink
    /\ UNCHANGED <<events, queue, lost, day, retention, pass>>

\* The steps of the task are such.
LEMMA IngestHands ==
    ASSUME AuditShape,
           audit!PostgresAuditSink_ingest \/ audit!WebhookSink_ingest \/ audit!Wake
    PROVE  Handing
<1>1. CASE audit!PostgresAuditSink_ingest
  BY <1>1, Zenon DEF audit!PostgresAuditSink_ingest, Handing
<1>2. CASE audit!WebhookSink_ingest
  <2>1. hand # Idle /\ hand \in Hand
    BY <1>2, Zenon DEF audit!WebhookSink_ingest, AuditShape
  <2>2. audit!Retried \in Hand /\ audit!Retried.event = hand.event /\ audit!Retried.sink = hand.sink
    <3>1. hand.attempt + 1 \in Nat
      BY <2>1 DEF Hand
    <3> QED
      BY <2>1, <3>1, Zenon DEF audit!Retried, Hand
  <2> QED
    BY <1>2, <2>1, <2>2, Zenon DEF audit!WebhookSink_ingest, Handing
<1>3. CASE audit!Wake
  <2>1. hand # Idle /\ hand \in Hand
    BY <1>3, Zenon DEF audit!Wake, AuditShape
  <2>2. hand' \in Hand /\ hand'.event = hand.event /\ hand'.sink = hand.sink
    BY <1>3, <2>1, Zenon DEF audit!Wake, Hand
  <2> QED
    BY <1>3, <2>1, <2>2, Zenon DEF audit!Wake, Handing
<1> QED
  BY <1>1, <1>2, <1>3, Zenon

\* Idle is not the empty sequence.
LEMMA IdleNotEmpty == Idle # << >>
<1>1. << >> \in Seq([realm : Tenants, days : RetentionDays])
  OBVIOUS
<1> QED
  BY <1>1, AuditAssumption, Zenon

\* The operators on functions that AuditTrail takes from the library.
LEMMA AuditRange ==
    /\ \A f : audit!Range(f) = Range(f)
    /\ \A S, T : audit!Bijection(S, T) \subseteq [S -> T]
    /\ \A S : audit!Cardinality(S) = Cardinality(S)
  BY Zenon DEF audit!Cardinality, Cardinality, audit!Range, Range, audit!Bijection, audit!Injection, audit!Surjection

\* The sink in hand has the event at the end of what it took, or took nothing more.
LEMMA GotMoves ==
    ASSUME AuditShape, hand \in Hand, audit!Took \/ got' = got
    PROVE  /\ got' \in [audit!Sink -> Seq(Nat)]
           /\ \A s \in audit!Sink : got'[s] = got[s] \/ (s = hand.sink /\ got'[s] = Append(got[s], hand.event))
           /\ audit!Took => got'[hand.sink] = Append(got[hand.sink], hand.event)
           /\ \A s \in audit!Sink : Range(got[s]) \subseteq Range(got'[s])
<1>1. hand.sink \in audit!Sink /\ hand.event \in Nat
  BY Zenon DEF Hand
<1>2. CASE got' = got
  <2>1. got[hand.sink] # Append(got[hand.sink], hand.event)
    <3>1. Len(Append(got[hand.sink], hand.event)) = Len(got[hand.sink]) + 1 /\ Len(got[hand.sink]) \in Nat
      BY <1>1, AppendPlaces DEF AuditShape
    <3> QED
      BY <3>1
  <2> QED
    BY <1>1, <1>2, <2>1, Zenon DEF audit!Took, AuditShape
<1>3. CASE audit!Took
  <2>1. got'[hand.sink] = Append(got[hand.sink], hand.event)
        /\ \A s \in audit!Sink \ {hand.sink} : got'[s] = got[s]
    BY <1>1, <1>3, Zenon DEF audit!Took, AuditShape
  <2>2. /\ Append(got[hand.sink], hand.event) \in Seq(Nat)
        /\ Range(Append(got[hand.sink], hand.event)) = Range(got[hand.sink]) \cup {hand.event}
    <3>1. got[hand.sink] \in Seq(Nat)
      BY <1>1, Zenon DEF AuditShape
    <3> QED
      BY <1>1, <3>1, AppendPlaces
  <2>3. got' \in [audit!Sink -> Seq(Nat)]
    BY <1>1, <1>3, <2>2, Zenon DEF audit!Took, AuditShape
  <2> QED
    BY <2>1, <2>2, <2>3, Zenon
<1> QED
  BY <1>2, <1>3, Zenon

\* Every step keeps the shape.
LEMMA NextAuditShape == AuditShape /\ [audit!Next]_audit_vars => AuditShape'
<1> SUFFICES ASSUME AuditShape, [audit!Next]_audit_vars PROVE AuditShape'
  BY Zenon
<1>0. CASE UNCHANGED audit_vars
  BY <1>0, Zenon DEF AuditShape, audit_vars, audit!Sink, Hand
<1>1. ASSUME NEW r \in Tenants, audit!publish(r) PROVE AuditShape'
  <2>1. [realm |-> r, day |-> day] \in [realm : Tenants, day : Nat]
    BY Zenon DEF AuditShape
  <2>2. events' \in Seq([realm : Tenants, day : Nat])
    BY <1>1, <2>1, AppendPlaces, Zenon DEF AuditShape, audit!publish
  <2>3. queue' \in Seq(Nat)
    <3>1. Len(events) + 1 \in Nat
      BY <2>1, AppendPlaces DEF AuditShape
    <3> QED
      BY <1>1, <3>1, AppendPlaces, Zenon DEF AuditShape, audit!publish
  <2> QED
    BY <1>1, <2>2, <2>3, Zenon DEF AuditShape, audit!publish
<1>2. ASSUME NEW r \in Tenants, audit!SetRetention(r) PROVE AuditShape'
  BY <1>2, Zenon DEF AuditShape, audit!SetRetention
<1>3. CASE audit!recv
  <2>1. Tail(queue) \in Seq(Nat) /\ Head(queue) \in Nat
    BY <1>3, TailPlaces, Zenon DEF AuditShape, audit!recv
  <2>2. 1 \in audit!Sink
    BY AuditAssumption DEF audit!Sink
  <2>3. hand' \in Hand
    BY <1>3, <2>1, <2>2, Zenon DEF audit!recv, Hand
  <2> QED
    BY <1>3, <2>1, <2>3, Zenon DEF AuditShape, audit!recv
<1>4. CASE audit!PostgresAuditSink_ingest \/ audit!WebhookSink_ingest \/ audit!Wake
  <2>1. Handing
    BY <1>4, IngestHands, Zenon
  <2>2. hand \in Hand
    BY <2>1, Zenon DEF Handing, AuditShape
  <2>3. got' \in [audit!Sink -> Seq(Nat)]
    BY <2>1, <2>2, GotMoves, Zenon DEF Handing
  <2>4. dead' \in [audit!Sink -> SUBSET Nat]
    <3>1. hand.sink \in audit!Sink /\ hand.event \in Nat
      BY <2>2, Zenon DEF Hand
    <3>2. CASE dead' = dead
      BY <3>2, Zenon DEF AuditShape
    <3>3. CASE audit!Dropped
      BY <3>1, <3>3, Zenon DEF AuditShape, audit!Dropped
    <3> QED
      BY <2>1, <3>2, <3>3, Zenon DEF Handing
  <2>5. hand' \in Hand \cup {Idle}
    BY <2>1, <2>2, NextSinkHand, Zenon DEF Handing
  <2> QED
    BY <2>1, <2>3, <2>4, <2>5, Zenon DEF AuditShape, Handing
<1>5. CASE audit!Crash
  <2>1. lost' \subseteq Nat
    <3>1. Range(queue) \subseteq Nat
      BY DEF AuditShape, Range
    <3>2. hand # Idle => hand.event \in Nat
      BY Zenon DEF AuditShape, Hand
    <3> QED
      BY <1>5, <3>1, <3>2, AuditRange, Zenon DEF AuditShape, audit!Crash
  <2>2. queue' \in Seq(Nat) /\ hand' = Idle /\ pass' = Idle
    BY <1>5 DEF audit!Crash
  <2> QED
    BY <1>5, <2>1, <2>2, IdleNotEmpty, Zenon DEF AuditShape, audit!Crash
<1>6. CASE audit!run_pass
  <2>1. PICK order \in audit!Bijection(1..Cardinality(Tenants), Tenants) :
          pass' = [i \in DOMAIN order |-> [realm |-> order[i], days |-> retention[order[i]]]]
    BY <1>6, AuditRange, Zenon DEF audit!run_pass
  <2>2. order \in [1..Cardinality(Tenants) -> Tenants]
    BY AuditRange, Zenon
  <2>3. Cardinality(Tenants) \in Nat /\ Cardinality(Tenants) # 0
    BY AuditAssumption, Zenon
  <2>4. pass' \in [1..Cardinality(Tenants) -> Reading]
    BY <2>1, <2>2, Zenon DEF AuditShape, Reading
  <2>5. pass' \in Seq(Reading) /\ pass' # << >>
    BY <2>3, <2>4
  <2> QED
    BY <1>6, <2>5, Zenon DEF AuditShape, audit!run_pass
<1>7. CASE audit!prune_realm
  <2>1. pass \in Seq(Reading) /\ pass # << >>
    BY <1>7, Zenon DEF AuditShape, audit!prune_realm
  <2>2. pass' \in Seq(Reading) \cup {Idle} /\ pass' # << >>
    <3>1. CASE Len(pass) = 1
      BY <1>7, <3>1, IdleNotEmpty, Zenon DEF audit!prune_realm
    <3>2. CASE Len(pass) # 1
      <4>1. Tail(pass) \in Seq(Reading) /\ Len(Tail(pass)) # 0
        BY <2>1, <3>2, TailPlaces
      <4>2. pass' = Tail(pass) /\ Len(<< >>) = 0
        BY <1>7, <3>2, Zenon DEF audit!prune_realm
      <4> QED
        BY <4>1, <4>2, Zenon
    <3> QED
      BY <3>1, <3>2, Zenon
  <2> QED
    BY <1>7, <2>2, Zenon DEF AuditShape, audit!prune_realm
<1>8. CASE audit!Tick
  BY <1>8 DEF AuditShape, audit!Tick
<1> QED
  BY <1>0, <1>1, <1>2, <1>3, <1>4, <1>5, <1>6, <1>7, <1>8, Zenon DEF audit!Next, audit!Trailing, audit!Retaining, audit!Drain

\* The trail is whole at first.
LEMMA InitAuditShape == audit!Init => AuditShape /\ Trail
<1> SUFFICES ASSUME audit!Init PROVE AuditShape /\ Trail
  BY Zenon
<1>1. AuditShape
  BY IdleNotEmpty DEF audit!Init, AuditShape, audit!Sink
<1>2. InOrder
  BY DEF audit!Init, InOrder
<1>3. TrailWhole
  <2>1. audit!Event = {}
    BY DEF audit!Init, audit!Event
  <2> QED
    BY <2>1 DEF audit!Init, TrailWhole, audit!TrailWhole
<1> QED
  BY <1>1, <1>2, <1>3, Zenon DEF Trail

\* TrailWhole, with the operators of the library.
LEMMA TrailParts ==
    /\ TrailWhole <=>
         /\ \A e \in 1..Len(events) : \A s \in audit!Past(e) : e \in Range(got[s]) \cup dead[s] \cup lost
         /\ \A s \in audit!Sink : \A i, j \in DOMAIN got[s] : i < j => got[s][i] <= got[s][j]
    /\ TrailWhole' <=>
         /\ \A e \in 1..Len(events') : \A s \in audit!Past(e)' : e \in Range(got'[s]) \cup dead'[s] \cup lost'
         /\ \A s \in audit!Sink : \A i, j \in DOMAIN got'[s] : i < j => got'[s][i] <= got'[s][j]
  BY AuditRange, Zenon DEF TrailWhole, audit!TrailWhole, audit!Event, audit!Sink

\* The sinks the task is done with, before and after a step.
LEMMA PastParts ==
    ASSUME NEW e
    PROVE  /\ audit!Past(e) = IF hand # Idle /\ hand.event = e THEN 1..(hand.sink - 1)
                              ELSE IF e \in Range(queue) THEN {} ELSE audit!Sink
           /\ audit!Past(e)' = IF hand' # Idle /\ hand'.event = e THEN 1..(hand'.sink - 1)
                               ELSE IF e \in Range(queue') THEN {} ELSE audit!Sink
  BY AuditRange, Zenon DEF audit!Past, audit!Sink

\* A published event has the next id and waits behind the others.
LEMMA TrailPublish ==
    ASSUME AuditShape, Trail, NEW r \in Tenants, audit!publish(r)
    PROVE  Trail'
<1> DEFINE n == Len(events)
<1>0. n \in Nat
  BY DEF AuditShape
<1>1. Len(events') = n + 1
  BY DEF AuditShape, audit!publish
<1>2. /\ queue' \in Seq(Nat) /\ Len(queue') = Len(queue) + 1
      /\ DOMAIN queue' = 1..(Len(queue) + 1) /\ DOMAIN queue = 1..Len(queue) /\ Len(queue) \in Nat
      /\ queue'[Len(queue) + 1] = n + 1
      /\ \A i \in 1..Len(queue) : queue'[i] = queue[i]
      /\ Range(queue') = Range(queue) \cup {n + 1}
  <2>1. queue \in Seq(Nat) /\ n + 1 \in Nat /\ queue' = Append(queue, n + 1)
    BY <1>0 DEF AuditShape, audit!publish
  <2> HIDE DEF n
  <2> QED
    BY <2>1, AppendPlaces
<1>3. UNCHANGED <<hand, got, dead, lost>>
  BY Zenon DEF audit!publish
<1> HIDE DEF n
<1>4. \A i \in DOMAIN queue : queue[i] \in 1..n
  BY Zenon DEF Trail, InOrder, n
<1>5. hand # Idle => hand.event \in 1..n
  BY Zenon DEF Trail, InOrder, n
<1>6. \A s \in audit!Sink : \A k \in DOMAIN got[s] : got[s][k] <= n /\ got[s][k] \in Nat
  BY DEF Trail, InOrder, n, AuditShape
<1>7. InOrder'
  <2>1. \A i \in DOMAIN queue' : queue'[i] \in 1..Len(events')
    BY <1>0, <1>1, <1>2, <1>4
  <2>2. \A i, j \in DOMAIN queue' : i < j => queue'[i] < queue'[j]
    <3> SUFFICES ASSUME NEW i \in DOMAIN queue', NEW j \in DOMAIN queue', i < j PROVE queue'[i] < queue'[j]
      BY Zenon
    <3>1. i \in DOMAIN queue /\ queue'[i] = queue[i]
      BY <1>2
    <3>2. CASE j = Len(queue) + 1
      BY <1>0, <1>2, <1>4, <3>1, <3>2
    <3>3. CASE j # Len(queue) + 1
      <4>1. j \in DOMAIN queue /\ queue'[j] = queue[j]
        BY <1>2, <3>3
      <4> QED
        BY <3>1, <4>1, Zenon DEF Trail, InOrder
    <3> QED
      BY <3>2, <3>3, Zenon
  <2>3. hand' # Idle => /\ hand'.event \in 1..Len(events')
                        /\ \A i \in DOMAIN queue' : hand'.event < queue'[i]
    <3> SUFFICES ASSUME hand # Idle
                 PROVE  /\ hand.event \in 1..(n + 1)
                        /\ \A i \in DOMAIN queue' : hand.event < queue'[i]
      BY <1>1, <1>3, Zenon
    <3>1. hand.event \in 1..n /\ \A i \in DOMAIN queue : hand.event < queue[i]
      BY <1>5, Zenon DEF Trail, InOrder
    <3>2. hand.event \in 1..(n + 1) /\ hand.event < n + 1
      BY <1>0, <3>1
    <3>3. \A i \in DOMAIN queue' : hand.event < queue'[i]
      BY <1>2, <3>1, <3>2, SMTT(20)
    <3> QED
      BY <3>2, <3>3, Zenon
  <2>4. ASSUME NEW s \in audit!Sink, NEW k \in DOMAIN got'[s]
        PROVE  /\ got'[s][k] <= Len(events')
               /\ hand' # Idle => got'[s][k] <= hand'.event
               /\ \A i \in DOMAIN queue' : got'[s][k] < queue'[i]
    <3>1. /\ got[s][k] <= n /\ got[s][k] \in Nat
          /\ hand # Idle => got[s][k] <= hand.event
          /\ \A i \in DOMAIN queue : got[s][k] < queue[i]
      BY <1>3, <1>6, <2>4, Zenon DEF Trail, InOrder
    <3>2. \A i \in DOMAIN queue' : got[s][k] < queue'[i]
      BY <1>0, <1>2, <3>1, SMTT(20)
    <3> QED
      BY <1>0, <1>1, <1>3, <3>1, <3>2
  <2> QED
    BY <2>1, <2>2, <2>3, <2>4, Zenon DEF InOrder, audit!Sink
<1>8. TrailWhole'
  <2>1. ASSUME NEW e \in 1..Len(events'), NEW s \in audit!Past(e)'
        PROVE  e \in Range(got'[s]) \cup dead'[s] \cup lost'
    <3>1. e \in 1..n /\ s \in audit!Past(e)
      <4>1. e # n + 1
        <5>1. e = n + 1 => ~(hand # Idle /\ hand.event = e) /\ e \in Range(queue')
          BY <1>0, <1>2, <1>5
        <5> QED
          BY <1>3, <2>1, <5>1, PastParts, Zenon
      <4>2. audit!Past(e)' = audit!Past(e)
        BY <1>2, <1>3, <4>1, PastParts, Zenon DEF audit!Sink
      <4> QED
        BY <1>0, <1>1, <2>1, <4>1, <4>2
    <3> QED
      BY <1>3, <3>1, TrailParts, Zenon DEF Trail, n
  <2>2. \A s \in audit!Sink : \A i, j \in DOMAIN got[s] : i < j => got[s][i] <= got[s][j]
    BY TrailParts, Zenon DEF Trail
  <2> QED
    BY <1>3, <2>1, <2>2, TrailParts, Zenon DEF audit!Sink
<1> QED
  BY <1>7, <1>8, Zenon DEF Trail

\* The task takes the oldest event in the channel.
LEMMA TrailRecv ==
    ASSUME AuditShape, Trail, audit!recv
    PROVE  Trail'
<1>1. /\ hand = Idle /\ hand' = [event |-> Head(queue), sink |-> 1, attempt |-> 0, asleep |-> FALSE]
      /\ UNCHANGED <<events, got, dead, lost>>
  BY Zenon DEF audit!recv
<1>2. hand'.event = queue[1] /\ hand'.sink = 1
  BY <1>1, TailPlaces DEF audit!recv, AuditShape
<1>3. /\ Len(queue) \in Nat \ {0} /\ DOMAIN queue = 1..Len(queue)
      /\ DOMAIN queue' = 1..(Len(queue) - 1)
      /\ \A i \in 1..(Len(queue) - 1) : queue'[i] = queue[i + 1]
      /\ Range(queue) = Range(queue') \cup {queue[1]}
  BY TailPlaces, Zenon DEF audit!recv, AuditShape
<1>4. 1 \in DOMAIN queue /\ \A i \in DOMAIN queue' : i + 1 \in DOMAIN queue /\ 1 < i + 1 /\ queue'[i] = queue[i + 1]
  BY <1>3
<1>5. InOrder'
  <2>1. \A i \in DOMAIN queue' : queue'[i] \in 1..Len(events')
    BY <1>1, <1>4, Zenon DEF Trail, InOrder
  <2>2. \A i, j \in DOMAIN queue' : i < j => queue'[i] < queue'[j]
    <3> SUFFICES ASSUME NEW i \in DOMAIN queue', NEW j \in DOMAIN queue', i < j PROVE queue'[i] < queue'[j]
      BY Zenon
    <3>1. i + 1 < j + 1
      BY <1>3
    <3> QED
      BY <1>4, <3>1, Zenon DEF Trail, InOrder
  <2>3. /\ hand'.event \in 1..Len(events')
        /\ \A i \in DOMAIN queue' : hand'.event < queue'[i]
    BY <1>1, <1>2, <1>4, Zenon DEF Trail, InOrder
  <2>4. ASSUME NEW s \in audit!Sink, NEW k \in DOMAIN got'[s]
        PROVE  /\ got'[s][k] <= Len(events')
               /\ got'[s][k] <= hand'.event
               /\ \A i \in DOMAIN queue' : got'[s][k] < queue'[i]
    <3>1. got[s][k] <= Len(events) /\ \A i \in DOMAIN queue : got[s][k] < queue[i]
      BY <1>1, <2>4, Zenon DEF Trail, InOrder
    <3>2. got[s][k] \in Nat /\ queue[1] \in Nat
      BY <1>1, <1>4, <2>4 DEF AuditShape
    <3>3. got[s][k] <= queue[1]
      BY <1>4, <3>1, <3>2
    <3> QED
      BY <1>1, <1>2, <1>4, <3>1, <3>3, Zenon
  <2> QED
    BY <2>1, <2>2, <2>3, <2>4, Zenon DEF InOrder, audit!Sink
<1>6. TrailWhole'
  <2>1. ASSUME NEW e \in 1..Len(events'), NEW s \in audit!Past(e)'
        PROVE  e \in Range(got'[s]) \cup dead'[s] \cup lost'
    <3>1. e # queue[1]
      <4>1. hand' # Idle
        <5>1. hand' \in [event : Nat, sink : Nat, attempt : Nat, asleep : BOOLEAN]
          BY <1>1, TailPlaces DEF audit!recv, AuditShape
        <5> QED
          BY <5>1, AuditAssumption, Zenon
      <4>2. e = queue[1] => audit!Past(e)' = 1..0
        BY <1>2, <4>1, PastParts
      <4> QED
        BY <2>1, <4>2
    <3>2. s \in audit!Past(e)
      BY <1>1, <1>2, <1>3, <2>1, <3>1, PastParts
    <3> QED
      BY <1>1, <2>1, <3>2, TrailParts, Zenon DEF Trail
  <2>2. \A s \in audit!Sink : \A i, j \in DOMAIN got[s] : i < j => got[s][i] <= got[s][j]
    BY TrailParts, Zenon DEF Trail
  <2> QED
    BY <1>1, <2>1, <2>2, TrailParts, Zenon
<1> QED
  BY <1>5, <1>6, Zenon DEF Trail

\* A crash accounts for everything in the channel and in hand.
LEMMA TrailCrash ==
    ASSUME AuditShape, Trail, audit!Crash
    PROVE  Trail'
<1>1. /\ queue' = << >> /\ hand' = Idle /\ UNCHANGED <<events, got, dead>>
      /\ lost' = lost \cup Range(queue) \cup (IF hand = Idle THEN {} ELSE {hand.event})
  BY AuditRange, Zenon DEF audit!Crash
<1>2. InOrder'
  BY <1>1 DEF Trail, InOrder, audit!Sink
<1>3. TrailWhole'
  <2>1. ASSUME NEW e \in 1..Len(events'), NEW s \in audit!Past(e)'
        PROVE  e \in Range(got'[s]) \cup dead'[s] \cup lost'
    <3>1. s \in audit!Sink
      BY <1>1, <2>1, PastParts, Zenon
    <3>2. CASE e \in Range(queue) \/ (hand # Idle /\ hand.event = e)
      BY <1>1, <3>2, Zenon
    <3>3. CASE ~(e \in Range(queue) \/ (hand # Idle /\ hand.event = e))
      <4>1. s \in audit!Past(e)
        BY <3>1, <3>3, PastParts, Zenon
      <4> QED
        BY <1>1, <2>1, <4>1, TrailParts, Zenon DEF Trail
    <3> QED
      BY <3>2, <3>3, Zenon
  <2>2. \A s \in audit!Sink : \A i, j \in DOMAIN got[s] : i < j => got[s][i] <= got[s][j]
    BY TrailParts, Zenon DEF Trail
  <2> QED
    BY <1>1, <2>1, <2>2, TrailParts, Zenon
<1> QED
  BY <1>2, <1>3, Zenon DEF Trail

\* The task hands its event to a sink: it takes it or drops it before the task goes on.
LEMMA TrailHand ==
    ASSUME AuditShape, Trail, Handing
    PROVE  Trail'
<1>1. hand # Idle /\ hand \in Hand /\ hand.sink \in audit!Sink /\ hand.event \in Nat
      /\ UNCHANGED <<events, queue, lost>>
  BY Zenon DEF Handing, AuditShape, Hand
<1>2. /\ got' \in [audit!Sink -> Seq(Nat)]
      /\ \A s \in audit!Sink : got'[s] = got[s] \/ (s = hand.sink /\ got'[s] = Append(got[s], hand.event))
      /\ audit!Took => got'[hand.sink] = Append(got[hand.sink], hand.event)
      /\ \A s \in audit!Sink : Range(got[s]) \subseteq Range(got'[s])
  BY <1>1, GotMoves, Zenon DEF Handing
<1>3. \A s \in audit!Sink : dead[s] \subseteq dead'[s]
  BY <1>1, Zenon DEF Handing, audit!Dropped, AuditShape
<1>4. hand' # Idle => hand'.event = hand.event /\ hand' \in Hand
  BY <1>1, NextSinkHand, Zenon DEF Handing
<1>5. ASSUME NEW s \in audit!Sink, NEW k \in DOMAIN got'[s]
      PROVE  got'[s][k] \in Nat /\ ((k \in DOMAIN got[s] /\ got'[s][k] = got[s][k]) \/ got'[s][k] = hand.event)
  <2>1. CASE got'[s] = got[s]
    BY <1>5, <2>1 DEF AuditShape
  <2>2. CASE got'[s] = Append(got[s], hand.event)
    <3>1. got[s] \in Seq(Nat)
      BY Zenon DEF AuditShape
    <3>2. /\ DOMAIN got'[s] = 1..(Len(got[s]) + 1) /\ DOMAIN got[s] = 1..Len(got[s]) /\ Len(got[s]) \in Nat
          /\ got'[s][Len(got[s]) + 1] = hand.event
          /\ \A i \in 1..Len(got[s]) : got'[s][i] = got[s][i]
      BY <1>1, <2>2, <3>1, AppendPlaces
    <3>3. k = Len(got[s]) + 1 \/ k \in 1..Len(got[s])
      BY <1>5, <3>2
    <3> QED
      BY <1>1, <3>1, <3>2, <3>3
  <2> QED
    BY <1>2, <2>1, <2>2, Zenon
<1>6. InOrder'
  <2>1. \A i \in DOMAIN queue : hand.event < queue[i]
    BY <1>1, Zenon DEF Trail, InOrder
  <2>2. hand.event \in 1..Len(events)
    BY <1>1, Zenon DEF Trail, InOrder
  <2>3. ASSUME NEW s \in audit!Sink, NEW k \in DOMAIN got'[s]
        PROVE  /\ got'[s][k] <= Len(events')
               /\ hand' # Idle => got'[s][k] <= hand'.event
               /\ \A i \in DOMAIN queue' : got'[s][k] < queue'[i]
    <3>1. CASE got'[s][k] = hand.event
      BY <1>1, <1>4, <2>1, <2>2, <3>1 DEF AuditShape
    <3>2. CASE k \in DOMAIN got[s] /\ got'[s][k] = got[s][k]
      BY <1>1, <1>4, <3>2, Zenon DEF Trail, InOrder
    <3> QED
      BY <1>5, <2>3, <3>1, <3>2, Zenon
  <2>4. hand' # Idle => /\ hand'.event \in 1..Len(events')
                        /\ \A i \in DOMAIN queue' : hand'.event < queue'[i]
    BY <1>1, <1>4, <2>1, <2>2, Zenon
  <2> QED
    BY <1>1, <2>3, <2>4, Zenon DEF Trail, InOrder, audit!Sink
<1>7. TrailWhole'
  <2>1. ASSUME NEW e \in 1..Len(events'), NEW s \in audit!Past(e)'
        PROVE  e \in Range(got'[s]) \cup dead'[s] \cup lost'
    <3>0. s \in audit!Sink
      BY <1>1, <1>4, <2>1, PastParts, AuditAssumption DEF Hand, audit!Sink
    <3>1. CASE e # hand.event
      <4>1. s \in audit!Past(e)
        BY <1>1, <1>4, <2>1, <3>1, PastParts
      <4> QED
        BY <1>1, <1>2, <1>3, <2>1, <3>0, <4>1, TrailParts, Zenon DEF Trail
    <3>2. CASE e = hand.event
      <4>1. audit!Past(e) = 1..(hand.sink - 1)
        BY <1>1, <3>2, PastParts, Zenon
      <4>2. CASE s \in 1..(hand.sink - 1)
        BY <1>1, <1>2, <1>3, <2>1, <3>0, <4>1, <4>2, TrailParts, Zenon DEF Trail
      <4>3. CASE s \notin 1..(hand.sink - 1)
        <5>1. (audit!Took \/ audit!Dropped) /\ \E failed \in BOOLEAN : hand' = audit!NextSink(failed)
          <6>1. ASSUME hand' \in Hand, hand'.event = hand.event, hand'.sink = hand.sink
                PROVE  s \in 1..(hand.sink - 1)
            <7>1. hand' # Idle
              <8>1. Hand \subseteq [event : Nat, sink : Nat, attempt : Nat, asleep : BOOLEAN]
                BY AuditAssumption DEF Hand, audit!Sink
              <8> QED
                BY <6>1, <8>1, AuditAssumption, Zenon
            <7>2. hand' # Idle /\ hand'.event = e
              BY <3>2, <6>1, <7>1, Zenon
            <7>3. audit!Past(e)' = 1..(hand'.sink - 1)
              BY <7>2, PastParts, Zenon
            <7> QED
              BY <2>1, <6>1, <7>3, Zenon
          <6> QED
            BY <4>3, <6>1, Zenon DEF Handing
        <5>2. s = hand.sink
          <6>1. CASE hand.sink = Hooks + 1
            BY <3>0, <4>3, <6>1, AuditAssumption DEF audit!Sink
          <6>2. CASE hand.sink # Hooks + 1
            <7>1. audit!Past(e)' = 1..hand.sink
              BY <1>1, <3>2, <5>1, <6>2, NextSinkHand, PastParts, AuditAssumption DEF audit!Sink
            <7> QED
              BY <1>1, <2>1, <3>0, <4>3, <7>1, AuditAssumption DEF audit!Sink
          <6> QED
            BY <6>1, <6>2, Zenon
        <5>3. CASE audit!Took
          <6>1. got[s] \in Seq(Nat) /\ got'[s] = Append(got[s], hand.event)
            BY <1>2, <5>2, <5>3, <3>0, Zenon DEF AuditShape
          <6>2. hand.event \in Range(got'[s])
            <7>1. hand.event \in Nat
              BY <1>1, Zenon
            <7>2. hand.event \in Range(Append(got[s], hand.event))
              BY <6>1, <7>1, AppendRange, Zenon
            <7> QED
              BY <6>1, <7>2, Zenon
          <6> QED
            BY <3>2, <6>2, Zenon
        <5>4. CASE audit!Dropped
          BY <3>0, <3>2, <5>2, <5>4, Zenon DEF audit!Dropped, AuditShape
        <5> QED
          BY <5>1, <5>3, <5>4, Zenon
      <4> QED
        BY <4>2, <4>3, Zenon
    <3> QED
      BY <3>1, <3>2, Zenon
  <2>2. ASSUME NEW s \in audit!Sink, NEW i \in DOMAIN got'[s], NEW j \in DOMAIN got'[s], i < j
        PROVE  got'[s][i] <= got'[s][j]
    <3>1. \A k \in DOMAIN got[s] : got[s][k] <= hand.event
      BY <1>1, Zenon DEF Trail, InOrder
    <3>2. got'[s][i] <= hand.event
      BY <1>1, <1>5, <3>1
    <3>3. CASE got'[s] = got[s]
      BY <2>2, <3>3, TrailParts, Zenon DEF Trail
    <3>4. CASE got'[s] = Append(got[s], hand.event)
      <4>1. got[s] \in Seq(Nat)
        BY Zenon DEF AuditShape
      <4>2. /\ DOMAIN got'[s] = 1..(Len(got[s]) + 1) /\ DOMAIN got[s] = 1..Len(got[s]) /\ Len(got[s]) \in Nat
            /\ got'[s][Len(got[s]) + 1] = hand.event
            /\ \A k \in 1..Len(got[s]) : got'[s][k] = got[s][k]
        BY <1>1, <3>4, <4>1, AppendPlaces
      <4>3. CASE j = Len(got[s]) + 1
        BY <3>2, <4>2, <4>3, Zenon
      <4>4. CASE j # Len(got[s]) + 1
        <5>1. i \in 1..Len(got[s]) /\ j \in 1..Len(got[s])
          BY <2>2, <4>2, <4>4
        <5> QED
          BY <2>2, <4>2, <5>1, TrailParts, Zenon DEF Trail
      <4> QED
        BY <4>3, <4>4, Zenon
    <3> QED
      BY <1>2, <3>3, <3>4, Zenon
  <2> QED
    BY <2>1, <2>2, TrailParts, Zenon
<1> QED
  BY <1>6, <1>7, Zenon DEF Trail

\* Every step keeps the trail whole.
LEMMA NextTrail == AuditShape /\ Trail /\ [audit!Next]_audit_vars => Trail'
<1> SUFFICES ASSUME AuditShape, Trail, [audit!Next]_audit_vars PROVE Trail'
  BY Zenon
<1>0. ASSUME UNCHANGED <<events, queue, hand, got, dead, lost>> PROVE Trail'
  <2>1. \A e : audit!Past(e)' = audit!Past(e)
    BY <1>0, PastParts, Zenon
  <2>2. TrailWhole'
    BY <1>0, <2>1, TrailParts, Zenon DEF Trail
  <2> QED
    BY <1>0, <2>2, Zenon DEF Trail, InOrder, audit!Sink
<1>1. ASSUME NEW r \in Tenants, audit!publish(r) PROVE Trail'
  BY <1>1, TrailPublish, Zenon
<1>2. ASSUME NEW r \in Tenants, audit!SetRetention(r) PROVE Trail'
  BY <1>0, <1>2, Zenon DEF audit!SetRetention
<1>3. CASE audit!recv
  BY <1>3, TrailRecv, Zenon
<1>4. CASE audit!PostgresAuditSink_ingest \/ audit!WebhookSink_ingest \/ audit!Wake
  BY <1>4, IngestHands, TrailHand, Zenon
<1>5. CASE audit!Crash
  BY <1>5, TrailCrash, Zenon
<1>6. CASE audit!run_pass \/ audit!prune_realm \/ audit!Tick
  BY <1>0, <1>6, Zenon DEF audit!run_pass, audit!prune_realm, audit!Tick
<1>7. CASE UNCHANGED audit_vars
  BY <1>0, <1>7, Zenon DEF audit_vars
<1> QED
  BY <1>1, <1>2, <1>3, <1>4, <1>5, <1>6, <1>7, Zenon DEF audit!Next, audit!Trailing, audit!Retaining, audit!Drain

\* No sink is skipped for an event, whatever the other sinks answer and whenever the
\* pod crashes, and every sink takes events in the order they were published, for any
\* number of webhooks, attempts and events (publisher task, AuditSink::ingest).
THEOREM TrailCorrect == audit!Spec => []TrailWhole
<1>1. Trail => TrailWhole
  BY Zenon DEF Trail
<1>2. audit!Spec => audit!Init /\ [][audit!Next]_audit_vars
  BY PTL DEF audit!Spec, audit!vars, audit_vars
<1> QED
  BY <1>1, <1>2, InitAuditShape, NextAuditShape, NextTrail, PTL

\* Every row is an event that was published.
RowsPublished == table \subseteq 1..Len(events)

\* Every step keeps the rows among the events.
LEMMA NextRows == AuditShape /\ Trail /\ RowsPublished /\ [audit!Next]_audit_vars => RowsPublished'
<1> SUFFICES ASSUME AuditShape, Trail, RowsPublished, [audit!Next]_audit_vars PROVE RowsPublished'
  BY Zenon
<1>0. ASSUME UNCHANGED <<table, events>> PROVE RowsPublished'
  BY <1>0, Zenon DEF RowsPublished
<1>1. ASSUME NEW r \in Tenants, audit!publish(r) PROVE RowsPublished'
  BY <1>1 DEF audit!publish, RowsPublished, AuditShape
<1>2. CASE audit!PostgresAuditSink_ingest
  <2>1. hand.event \in 1..Len(events)
    BY <1>2, Zenon DEF audit!PostgresAuditSink_ingest, Trail, InOrder
  <2> QED
    BY <1>2, <2>1, Zenon DEF audit!PostgresAuditSink_ingest, RowsPublished
<1>3. CASE audit!prune_realm
  BY <1>3, Zenon DEF audit!prune_realm, RowsPublished
<1> QED
  BY <1>0, <1>1, <1>2, <1>3, Zenon DEF audit!Next, audit!Trailing, audit!Retaining, audit!Drain,
        audit!SetRetention, audit!recv, audit!Wake, audit!WebhookSink_ingest,
        audit!Crash, audit!run_pass, audit!Tick, audit_vars

\* What a pass still has to prune by is among what the realm has had since it began.
Listed ==
    /\ held \in [Tenants -> SUBSET RetentionDays]
    /\ pass # Idle => \A i \in 1..Len(pass) : pass[i].days \in held[pass[i].realm]

\* Every step keeps the list within what the realms have had.
LEMMA NextListed == AuditShape /\ Listed /\ [audit!Next]_audit_vars => Listed'
<1> SUFFICES ASSUME AuditShape, Listed, [audit!Next]_audit_vars PROVE Listed'
  BY Zenon
<1>0. ASSUME UNCHANGED <<pass, held>> PROVE Listed'
  BY <1>0, Zenon DEF Listed
<1>1. ASSUME pass' = Idle, held' = [r \in Tenants |-> {}] PROVE Listed'
  BY <1>1, Zenon DEF Listed
<1>2. CASE audit!run_pass
  <2>1. PICK order \in audit!Bijection(1..audit!Cardinality(Tenants), Tenants) :
           pass' = [i \in DOMAIN order |-> [realm |-> order[i], days |-> retention[order[i]]]]
    BY <1>2, Zenon DEF audit!run_pass
  <2>2. order \in [1..Cardinality(Tenants) -> Tenants] /\ Cardinality(Tenants) \in Nat
    BY <2>1, AuditRange, AuditAssumption, Zenon
  <2>3. Len(pass') = Cardinality(Tenants)
        /\ \A i \in 1..Cardinality(Tenants) :
              pass'[i].realm = order[i] /\ pass'[i].days = retention[order[i]] /\ order[i] \in Tenants
    BY <2>1, <2>2
  <2>4. held' = [r \in Tenants |-> {retention[r]}]
    BY <1>2, Zenon DEF audit!run_pass
  <2>5. held' \in [Tenants -> SUBSET RetentionDays]
    BY <2>4, Zenon DEF AuditShape
  <2> QED
    BY <2>3, <2>4, <2>5, Zenon DEF Listed
<1>3. CASE audit!prune_realm
  <2>1. pass # Idle /\ pass \in Seq(Reading) /\ pass # << >>
    BY <1>3, Zenon DEF audit!prune_realm, AuditShape
  <2>2. CASE pass' = Tail(pass) /\ UNCHANGED held
    <3>1. /\ Len(Tail(pass)) = Len(pass) - 1 /\ Len(pass) \in Nat \ {0}
          /\ \A i \in 1..(Len(pass) - 1) : Tail(pass)[i] = pass[i + 1]
      BY <2>1, TailPlaces, Zenon
    <3>2. \A i \in 1..(Len(pass) - 1) : i + 1 \in 1..Len(pass)
      BY <3>1
    <3> DEFINE q == Tail(pass)
    <3>3. \A i \in 1..Len(q) : q[i].days \in held[q[i].realm]
      BY <2>1, <3>1, <3>2, Zenon DEF Listed
    <3> HIDE DEF q
    <3> QED
      BY <2>2, <3>3, Zenon DEF Listed, q
  <2>3. \/ pass' = Idle /\ held' = [r \in Tenants |-> {}]
        \/ pass' = Tail(pass) /\ UNCHANGED held
    <3>1. /\ pass' = IF Len(pass) = 1 THEN Idle ELSE Tail(pass)
          /\ held' = IF Len(pass) = 1 THEN [r \in Tenants |-> {}] ELSE held
      BY <1>3, Zenon DEF audit!prune_realm
    <3> QED
      BY <3>1, Zenon
  <2> QED
    BY <1>1, <2>2, <2>3, Zenon
<1>4. ASSUME NEW r \in Tenants, audit!SetRetention(r) PROVE Listed'
  <2>1. PICK d \in RetentionDays :
           held' = IF pass = Idle THEN held ELSE [held EXCEPT ![r] = held[r] \cup {d}]
    BY <1>4, Zenon DEF audit!SetRetention
  <2>2. pass' = pass
    BY <1>4, Zenon DEF audit!SetRetention
  <2>3. CASE pass # Idle
    <3>1. held' = [held EXCEPT ![r] = held[r] \cup {d}]
      BY <2>1, <2>3, Zenon
    <3>2. held' \in [Tenants -> SUBSET RetentionDays] /\ \A q \in Tenants : held[q] \subseteq held'[q]
      BY <3>1 DEF Listed
    <3>3. \A i \in 1..Len(pass) : pass[i].realm \in Tenants
      <4> SUFFICES ASSUME NEW i \in 1..Len(pass) PROVE pass[i].realm \in Tenants
        BY Zenon
      <4>1. pass \in Seq(Reading)
        BY <2>3, Zenon DEF AuditShape
      <4>2. pass[i] \in Reading
        BY <4>1, Places, Zenon
      <4> QED
        BY <4>2, Zenon DEF Reading
    <3> QED
      BY <2>2, <2>3, <3>2, <3>3, Zenon DEF Listed
  <2> QED
    BY <1>0, <2>1, <2>2, <2>3, Zenon
<1>5. CASE audit!Crash
  BY <1>1, <1>5, Zenon DEF audit!Crash
<1> QED
  BY <1>0, <1>2, <1>3, <1>4, <1>5, Zenon DEF audit!Next, audit!Trailing, audit!Retaining, audit!Drain,
        audit!publish, audit!recv, audit!Wake, audit!WebhookSink_ingest, audit!PostgresAuditSink_ingest,
        audit!Tick, audit_vars

\* A row of the trail goes only after the floor of thirty days, and only when it is
\* older than a retention its realm has had since the pass began, although the pass
\* goes by a list it read then (run_pass, prune_realm, effective retention).
THEOREM FloorCorrect == audit!Spec => FloorKept
<1> DEFINE Floor(e) == /\ day - events[e].day > MIN_RETENTION_DAYS
                       /\ \E d \in held[events[e].realm] \ {0} : day - events[e].day > d
<1>1. AuditShape /\ RowsPublished /\ Listed /\ [audit!Next]_audit_vars
         => [\A e \in table \ table' : Floor(e)]_audit_vars
  <2> SUFFICES ASSUME AuditShape, RowsPublished, Listed, [audit!Next]_audit_vars, NEW e \in table \ table'
               PROVE  Floor(e)
    BY Zenon
  <2>1. audit!prune_realm
    BY Zenon DEF audit!Next, audit!Trailing, audit!Retaining, audit!Drain, audit!publish,
           audit!SetRetention, audit!recv, audit!Wake,
           audit!PostgresAuditSink_ingest, audit!WebhookSink_ingest, audit!Crash, audit!run_pass,
           audit!Tick, audit_vars
  <2>2. pass # Idle /\ Head(pass) \in Reading /\ Head(pass) = pass[1] /\ Len(pass) \in Nat \ {0}
    BY <2>1, TailPlaces, Zenon DEF audit!prune_realm, AuditShape
  <2>3. /\ Head(pass).days # 0 /\ events[e].realm = Head(pass).realm
        /\ day - events[e].day > audit!effective(Head(pass).days)
    BY <2>1, Zenon DEF audit!prune_realm
  <2>4. events[e].day \in Nat /\ day \in Nat /\ Head(pass).days \in Nat
    <3>1. e \in 1..Len(events) /\ events \in Seq([realm : Tenants, day : Nat])
      BY Zenon DEF RowsPublished, AuditShape
    <3>2. events[e] \in [realm : Tenants, day : Nat]
      BY <3>1, Places, Zenon
    <3>3. Head(pass).days \in Nat
      BY <2>2, AuditAssumption, Zenon DEF Reading
    <3> QED
      BY <3>2, <3>3, Zenon DEF AuditShape
  <2>5. Head(pass).days \in held[events[e].realm]
    <3>1. 1 \in 1..Len(pass)
      BY <2>2
    <3> QED
      BY <2>2, <2>3, <3>1, Zenon DEF Listed
  <2>6. day - events[e].day > MIN_RETENTION_DAYS /\ day - events[e].day > Head(pass).days
    BY <2>3, <2>4, AuditAssumption DEF audit!effective
  <2> QED
    BY <2>3, <2>5, <2>6, Zenon
<1>2. audit!Spec => audit!Init /\ [][audit!Next]_audit_vars
  BY PTL DEF audit!Spec, audit!vars, audit_vars
<1>3. audit!Init => RowsPublished /\ Listed
  BY Zenon DEF audit!Init, RowsPublished, Listed
<1> QED
  BY <1>1, <1>2, <1>3, InitAuditShape, NextAuditShape, NextTrail, NextRows, NextListed, PTL
     DEF FloorKept, audit!FloorKept, audit!vars, audit_vars
=============================================================================
