-------------------------- MODULE MCTokenEndpoint --------------------------
\* Model-checking instances of the token endpoint and of the directory its
\* tokens speak of, one of them in each behaviour: refresh-token rotation
\* (RefreshRotation), the grants that start from a code, a credential or a token
\* (Grants) and the administration of the directory (Directory).
EXTENDS GrantsPart, DirectoryPart, TLC

CONSTANTS c1, c2

VARIABLE part

MCInit ==
    /\ part \in {"rotation", "grants", "directory"}
    /\ IF part = "directory" THEN TRUE ELSE backend = "memory"
    /\ Init /\ endpoint!Init /\ directory!Init

MCNext ==
    \/ part = "rotation" /\ Next /\ UNCHANGED <<part, grant_vars, directory_vars>>
    \/ part = "grants" /\ endpoint!Next /\ UNCHANGED <<part, vars, directory_vars>>
    \/ part = "directory" /\ directory!Next /\ UNCHANGED <<part, vars, grant_vars>>

MCSpec == MCInit /\ [][MCNext]_<<part, vars, grant_vars, directory_vars>>

\* c1 is an application, c2 an agent that acts for users.
Policy ==
    (c1 :> {"password", "device_code", "token_exchange"})
    @@ (c2 :> {"client_credentials", "token_exchange"})

\* Ids are random values: every action treats them alike, and names too.
Symmetry == Permutations(Request) \cup Permutations(Token) \cup Permutations(Family)

\* See Directory: what the constraint on role names says.
RoleNamesUnique == directory!RoleNamesUnique
=============================================================================
