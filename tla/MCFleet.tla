------------------------------ MODULE MCFleet ------------------------------
\* Model-checking instances of what the pods of a deployment share, one of them in
\* each behaviour: the database they migrate and provision and the keys they hold
\* (Fleet) and the audit trail each of them writes (AuditPart): the events on their way
\* to the sinks, and the pruning of a table that has been written.
\* Without symmetry: both have liveness properties.
EXTENDS Fleet, AuditPart, TLC

CONSTANTS p1, p2

VARIABLE part

\* The binary of p2 knows one migration more.
KnownValue == p1 :> 1..1 @@ p2 :> 1..2

\* It starts again once, before, while and after the other does.
MCBoots == p1 :> 1 @@ p2 :> 2

\* The trail with MaxEvent rows that every sink took on day 0, two days later.
Written ==
    /\ events \in [1..MaxEvent -> [realm : Tenants, day : {0}]]
    /\ queue = << >> /\ hand = Idle
    /\ got = [s \in audit!Sink |-> [i \in 1..MaxEvent |-> i]]
    /\ dead = [s \in audit!Sink |-> {}] /\ lost = {}
    /\ table = 1..MaxEvent /\ day = 2 /\ retention \in [Tenants -> RetentionDays]
    /\ pass = Idle /\ held = [t \in Tenants |-> {}]

MCInit ==
    /\ part \in {"fleet", "trail", "retention"}
    /\ Init
    /\ IF part = "retention" THEN Written
       ELSE retention = [t \in Tenants |-> 0] /\ audit!Init

InFleet(A) == part = "fleet" /\ A /\ UNCHANGED <<part, audit_vars>>
InAudit(A) == part # "fleet" /\ A /\ UNCHANGED <<part, vars>>

MCNext ==
    \/ InFleet(Next)
    \/ part = "trail" /\ InAudit(audit!Trailing)
    \/ part = "retention" /\ InAudit(audit!Next)

MCVars == <<part, vars, audit_vars>>

\* The fairness of each component, in its own part.
MCFairness ==
    /\ \A p \in Pod : WF_MCVars(InFleet(StartUp(p)))
    /\ WF_MCVars(InAudit(audit!Drain))

MCSpec == MCInit /\ [][MCNext]_MCVars /\ MCFairness
=============================================================================
