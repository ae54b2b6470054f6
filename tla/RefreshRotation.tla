-------------------------- MODULE RefreshRotation --------------------------
(***************************************************************************)
(* Refresh-token rotation and family reuse detection.                      *)
(*                                                                         *)
(* geonosis-protocol-oauth/src/refresh.rs and the handlers that reach it:  *)
(* `handle_refresh` of the token endpoint, `revoke` and `logout_post`.     *)
(*                                                                         *)
(* Every storage call is atomic (one lock section of MemoryStorage, one    *)
(* SQL statement of PostgresStorage) and every await between two of them   *)
(* is a point where other requests run, on this pod or on another one.     *)
(* `handle_refresh` is therefore three steps: read the row, mark it used,  *)
(* save the replacement.  A request may end at any await: its future is    *)
(* dropped when the peer disconnects, the pod dies, the call fails.        *)
(***************************************************************************)
CONSTANTS
    Request,    \* the tasks serving requests; a task serves any number in turn
    Token,      \* refresh-token ids (keyed hashes of random secrets)
    Family,     \* TokenFamilyId
    NoToken,    \* "no token"
    NoFamily,   \* the family of an id nobody has minted yet
    NoRequest   \* "minted by no refresh request"

ASSUME NoneAssumption ==
    NoToken \notin Token /\ NoFamily \notin Family /\ NoRequest \notin Request

VARIABLES
    refresh_tokens, \* the ids that have a row
    used,           \* the rows whose `used` column is true
    expired,        \* the ids whose expires_at has passed
    family,         \* the family_id column, kept for ids whose row is gone
    families,       \* MemoryStorage's index from a family to its ids
    pc,             \* what each request is about to do
    presented,      \* the token each request presented (it holds a copy)
    \* history variables, read by no action's guard
    parent,         \* the token a replacement was minted from
    minter,         \* the request that minted it
    burned,         \* families some request has revoked
    detected,       \* those of them revoked because a used token came back
    dead,           \* families revoked while no rotation was half written
    abandoned       \* tokens marked used by a request that ended before saving

storage == <<refresh_tokens, used, family, families>>
history == <<parent, minter, burned, detected, dead, abandoned>>
vars == <<storage, expired, pc, presented, history>>

PC == {"idle", "validated", "marked", "reuse", "revoke"}

TypeOK ==
    /\ refresh_tokens \subseteq Token
    /\ used \subseteq refresh_tokens
    /\ expired \subseteq Token
    /\ family \in [Token -> Family \cup {NoFamily}]
    /\ families \in [Family -> SUBSET Token]
    /\ pc \in [Request -> PC]
    /\ presented \in [Request -> Token \cup {NoToken}]
    /\ parent \in [Token -> Token \cup {NoToken}]
    /\ minter \in [Token -> Request \cup {NoRequest}]
    /\ burned \subseteq Family
    /\ detected \subseteq burned
    /\ dead \subseteq burned
    /\ abandoned \subseteq Token

Init ==
    /\ refresh_tokens = {} /\ used = {} /\ expired = {}
    /\ family = [t \in Token |-> NoFamily]
    /\ families = [f \in Family |-> {}]
    /\ pc = [r \in Request |-> "idle"]
    /\ presented = [r \in Request |-> NoToken]
    /\ parent = [t \in Token |-> NoToken]
    /\ minter = [t \in Token |-> NoRequest]
    /\ burned = {} /\ detected = {} /\ dead = {} /\ abandoned = {}

-----------------------------------------------------------------------------
(* The storage calls.                                                      *)

Unminted(t) == family[t] = NoFamily

save_refresh_token(n, f) ==
    /\ families' = [families EXCEPT ![f] = @ \cup {n}]
    /\ refresh_tokens' = refresh_tokens \cup {n}
    /\ used' = used \ {n}
    /\ family' = [family EXCEPT ![n] = f]

mark_refresh_used(t) ==
    /\ t \in refresh_tokens
    /\ used' = used \cup {t}
    /\ UNCHANGED <<refresh_tokens, family, families>>

\* The index decides which rows go, as in MemoryStorage; FamilyIndex below is
\* what makes it the DELETE ... WHERE family_id of PostgresStorage.
revoke_token_family(f) ==
    /\ refresh_tokens' = refresh_tokens \ families[f]
    /\ used' = used \ families[f]
    /\ families' = [families EXCEPT ![f] = {}]
    /\ UNCHANGED family

-----------------------------------------------------------------------------
(* Requests.                                                               *)

\* The request is answered: its task forgets the token.
Respond(r) ==
    /\ pc' = [pc EXCEPT ![r] = "idle"]
    /\ presented' = [presented EXCEPT ![r] = NoToken]

\* The request goes on to the storage call p with its copy of token t's row.
Await(r, t, p) ==
    /\ pc' = [pc EXCEPT ![r] = p]
    /\ presented' = [presented EXCEPT ![r] = t]

\* The first token of a new family: the last step of the authorization-code
\* exchange and of issue_user_tokens, one storage call.
IssueFamily(n, f) ==
    /\ Unminted(n)
    /\ \A t \in Token : family[t] # f
    /\ save_refresh_token(n, f)
    /\ UNCHANGED <<expired, pc, presented, history>>

\* Mutant: `used` is not looked at.
validate_refresh_NoReuseCheck(r, t) ==
    /\ pc[r] = "idle"
    /\ \/ t \notin refresh_tokens /\ Respond(r)
       \/ t \in refresh_tokens \cap expired /\ Respond(r)
       \/ t \in refresh_tokens \ expired /\ Await(r, t, "validated")
    /\ UNCHANGED <<storage, expired, history>>

\* A token that is unknown or expired is refused at once.  expires_at is
\* compared before `used`: an expired used token leaves its family alone.
validate_refresh(r, t) ==
    /\ pc[r] = "idle"
    /\ \/ t \notin refresh_tokens /\ Respond(r)
       \/ t \in refresh_tokens \cap expired /\ Respond(r)
       \/ t \in used \ expired /\ Await(r, t, "reuse")
       \/ t \in refresh_tokens \ (used \cup expired) /\ Await(r, t, "validated")
    /\ UNCHANGED <<storage, expired, history>>

\* First half of rotate_refresh_token; no row, no rotation (server_error).
MarkPriorUsed(r) ==
    /\ pc[r] = "validated"
    /\ \/ mark_refresh_used(presented[r]) /\ Await(r, presented[r], "marked")
       \/ /\ presented[r] \notin refresh_tokens
          /\ Respond(r)
          /\ UNCHANGED storage
    /\ UNCHANGED <<expired, history>>

\* Mutant: the result of the save is ignored, and the save failed.
SaveReplacement_Swallowed(r, n) ==
    /\ pc[r] = "marked"
    /\ Unminted(n)
    /\ Respond(r)
    /\ UNCHANGED <<storage, expired, history>>

\* Mutant: the prior row is written back from the copy read before the mark.
SaveReplacement_WritesBack(r, n) ==
    /\ pc[r] = "marked"
    /\ Unminted(n)
    /\ families' = [families EXCEPT ![family[presented[r]]] = @ \cup {n}]
    /\ refresh_tokens' = refresh_tokens \cup {n}
    /\ used' = used \ {n, presented[r]}
    /\ family' = [family EXCEPT ![n] = family[presented[r]]]
    /\ Respond(r)
    /\ UNCHANGED <<expired, history>>

\* Second half, with the replacement handle_refresh built from its copy of
\* the prior row: a fresh id in the prior's family.
SaveReplacement(r, n) ==
    /\ pc[r] = "marked"
    /\ Unminted(n)
    /\ save_refresh_token(n, family[presented[r]])
    /\ parent' = [parent EXCEPT ![n] = presented[r]]
    /\ minter' = [minter EXCEPT ![n] = r]
    /\ Respond(r)
    /\ UNCHANGED <<expired, burned, detected, dead, abandoned>>

\* `revoke` and the refresh_token branch of `logout_post` look the row up and
\* revoke its family whatever its state; both ignore a missing row.
LookUpFamily(r, t) ==
    /\ pc[r] = "idle"
    /\ \/ t \in refresh_tokens /\ Await(r, t, "revoke")
       \/ t \notin refresh_tokens /\ Respond(r)
    /\ UNCHANGED <<storage, expired, history>>

\* A rotation of family f that has marked its prior and not yet saved.
HalfWritten(f) ==
    \E r \in Request : pc[r] = "marked" /\ family[presented[r]] = f

BurnFamily(r) ==
    LET f == family[presented[r]] IN
    /\ pc[r] \in {"reuse", "revoke"}
    /\ revoke_token_family(f)
    /\ Respond(r)
    /\ burned' = burned \cup {f}
    /\ detected' = IF pc[r] = "reuse" THEN detected \cup {f} ELSE detected
    /\ dead' = IF HalfWritten(f) THEN dead ELSE dead \cup {f}
    /\ UNCHANGED <<expired, parent, minter, abandoned>>

\* The future is dropped, the pod dies, or the storage call returns an error.
Drop(r) ==
    /\ pc[r] # "idle"
    /\ Respond(r)
    /\ abandoned' = IF pc[r] = "marked" THEN abandoned \cup {presented[r]}
                                        ELSE abandoned
    /\ UNCHANGED <<storage, expired, parent, minter, burned, detected, dead>>

Expire(t) ==
    /\ t \in refresh_tokens \ expired
    /\ expired' = expired \cup {t}
    /\ UNCHANGED <<storage, pc, presented, history>>

Next ==
    \/ \E n \in Token, f \in Family : IssueFamily(n, f)
    \/ \E r \in Request, t \in Token :
          \/ validate_refresh(r, t)
          \/ LookUpFamily(r, t)
          \/ SaveReplacement(r, t)
    \/ \E r \in Request : MarkPriorUsed(r) \/ BurnFamily(r) \/ Drop(r)
    \/ \E t \in Token : Expire(t)

Spec == Init /\ [][Next]_vars

-----------------------------------------------------------------------------
(* Properties.                                                             *)

\* MemoryStorage's family index lists exactly the stored rows of the family,
\* so revoking through the index removes what Postgres' DELETE by family_id
\* removes, whatever rotations and revocations interleave.
FamilyIndex ==
    \A f \in Family : families[f] = {t \in refresh_tokens : family[t] = f}

\* The debug_assert of rotate_refresh_token, kept by every chain of
\* rotations: a replacement belongs to the family of the token it replaces,
\* and that token was marked used for as long as it has a row.
RotationKeepsFamily ==
    \A n \in Token : parent[n] # NoToken =>
        /\ family[n] = family[parent[n]]
        /\ parent[n] \in refresh_tokens => parent[n] \in used

\* A task never obtains two replacements for one refresh token, however its
\* requests interleave with others': sequential retries cannot fork a family,
\* only requests that had all read the row before the first of them marked it.
NoForkByOneTask ==
    \A n, m \in Token :
        /\ parent[n] # NoToken
        /\ parent[n] = parent[m]
        /\ minter[n] = minter[m]
        => n = m

\* "Reuse burns the entire family", for a family revoked while no rotation of
\* it stood between its two writes: no row of it exists, ever again.
DeadFamilyStaysDead ==
    \A f \in dead : \A t \in refresh_tokens : family[t] # f

\* A family that was issued and not revoked can still be refreshed, or a
\* rotation is in flight, or one was cut off between its two writes; nothing
\* else takes the last unused token away.
UsableUnlessAbandoned ==
    \A t \in Token :
        (family[t] # NoFamily /\ family[t] \notin burned) =>
            \/ \E u \in refresh_tokens \ used : family[u] = family[t]
            \/ HalfWritten(family[t])
            \/ \E u \in abandoned : family[u] = family[t]

\* The three together: what revocation takes away, and that nothing else does.
FamilyWhole == FamilyIndex /\ DeadFamilyStaysDead /\ UsableUnlessAbandoned

\* The rows of a family disappear together: no step takes one of them away
\* and leaves another, so a reused token never survives the burn of its kin.
FamilyFallsTogether ==
    [][\A t, u \in refresh_tokens :
          family[t] = family[u] /\ t \notin refresh_tokens'
              => u \notin refresh_tokens']_vars

\* A row's `used` flag never goes back, and an id that lost its row never
\* gets one again: a spent or revoked secret stays worthless.
SpentForGood ==
    [][\A t \in Token :
          /\ t \in used => t \in used' \/ t \notin refresh_tokens'
          /\ (~Unminted(t) /\ t \notin refresh_tokens)
                 => t \notin refresh_tokens']_vars

\* src/README.md:71, "reuse burns the entire family": once reuse was detected
\* and answered, the family has no row.  False of the code: a rotation between
\* its two writes saves its replacement into the burned family.
ReuseBurnsEntireFamily ==
    \A f \in detected : \A t \in refresh_tokens : family[t] # f
=============================================================================
