----------------------------- MODULE AuditPart -----------------------------
\* The audit trail of one pod (AuditTrail) under names of its own, its assumption and
\* its properties: what MCFleet checks and the proofs are about.
EXTENDS Naturals, FiniteSets, Sequences

CONSTANTS Tenants, Idle, Hooks, max_attempts, MIN_RETENTION_DAYS, RetentionDays, MaxEvent, MaxDay

\* A backoff has at least one attempt before it; Idle is no event in hand and no pass
\* under way; there are finitely many realms and at least one, and a retention is a
\* number of days.
ASSUME AuditAssumption ==
    /\ Hooks \in Nat /\ max_attempts \in Nat \ {0}
    /\ Cardinality(Tenants) \in Nat \ {0}
    /\ MIN_RETENTION_DAYS \in Nat /\ RetentionDays \subseteq Nat
    /\ Idle \notin [event : Nat, sink : Nat, attempt : Nat, asleep : BOOLEAN]
    /\ Idle \notin Seq([realm : Tenants, days : RetentionDays])

VARIABLES events, queue, hand, got, dead, lost, table, day, retention, pass, held

audit_vars == <<events, queue, hand, got, dead, lost, table, day, retention, pass, held>>

audit == INSTANCE AuditTrail WITH Realm <- Tenants

\* See AuditTrail: no sink is skipped, and each keeps the order.
TrailWhole == audit!TrailWhole

\* See AuditTrail: nothing is pruned within the floor or its realm's retention.
FloorKept == audit!FloorKept

\* See AuditTrail: every event leaves the task.
Drains == audit!Drains
=============================================================================
