-------------------------- MODULE MCLoginDefences --------------------------
\* Model-checking instances of what stands between a client and a login, one of
\* them in each behaviour: the lockout counters (BruteForce, extended) and the
\* credentials on the user row (UserCredentials).
EXTENDS BruteForce, Sequences, TLC

CONSTANTS
    RecoveryCode, Link, Sms, RequiredActions, a1, a2, MaxCount, None

VARIABLES
    part,
    user_row, u_pc, u_copy, arg, drawn, sent, counter

credential_vars == <<user_row, u_pc, u_copy, arg, drawn, sent, counter>>

credentials == INSTANCE UserCredentials
    WITH row <- user_row, pc <- u_pc, copy <- u_copy

ActionsValue == <<a1, a2>>

\* A body without the lockout columns, one with a count and no lock, and one with a
\* lock that outlasts any wait of the policy.
Patched ==
    {EmptyRow, [EmptyRow EXCEPT !.failed_attempts = max_login_failures],
     [EmptyRow EXCEPT !.locked_until = Forever]}

MCInit ==
    /\ part \in {"lockout", "credentials"}
    /\ Init /\ credentials!Init

MCNext ==
    \/ part = "lockout" /\ Next /\ UNCHANGED <<part, credential_vars>>
    \/ part = "credentials" /\ credentials!Next /\ UNCHANGED <<part, vars>>

MCSpec == MCInit /\ [][MCNext]_<<part, vars, credential_vars>>

\* The requests are interchangeable.
Symmetry == Permutations(Task)

\* See UserCredentials: a one-time credential that was burned stays burned, and the
\* stored signature count never falls.
BurnedForGood == credentials!BurnedForGood
=============================================================================
