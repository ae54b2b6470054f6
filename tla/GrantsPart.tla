----------------------------- MODULE GrantsPart -----------------------------
\* The grants of the token endpoint beside its refresh tokens: Token is the ids
\* of refresh tokens in RefreshRotation, of access tokens in Grants.
EXTENDS RefreshRotation

CONSTANTS Client, grants, Pairwise, User, Scope, Device, Uri, None, MaxLoad

ASSUME GrantsAssumption ==
    None \notin User \cup Device \cup Token /\ Device \cap Token = {}

VARIABLES device_grants, par_requests, sessions, tokens, lapsed, req, asked, served

grant_vars ==
    <<device_grants, par_requests, sessions, tokens, lapsed, req, asked, served>>

endpoint == INSTANCE Grants WITH Task <- Request, expired <- lapsed

\* See Grants: nothing is served twice, and a chain of exchanges keeps its lineage.
GrantsSound == endpoint!GrantsSound

\* See Grants: a row that is gone stays gone.
GoneForGood == endpoint!GoneForGood
=============================================================================
