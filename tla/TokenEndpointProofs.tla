------------------------ MODULE TokenEndpointProofs ------------------------
(***************************************************************************)
(* Proofs about RefreshRotation, for any sets of requests, tokens and      *)
(* families.  The inductive invariant is built in layers:                  *)
(*   TypeInv    types, and that rows and requests refer to minted ids;     *)
(*   Index      MemoryStorage's family index is exact;                     *)
(*   Lineage    a replaced token is used or gone, and its replacer is      *)
(*              past it;                                                   *)
(*   DeadInv    a dead family has neither a row nor a half-written         *)
(*              rotation.                                                  *)
(* And about Grants, for any sets of clients, users, device codes,         *)
(* request_uris, tokens and requests:                                      *)
(*   Uris       a request_uri whose row was consumed is served once;       *)
(*   Codes      a poll stores one token at most for a device code;         *)
(*   Chained    an exchanged token follows the one it was exchanged for.   *)
(***************************************************************************)
EXTENDS GrantsPart, Integers, Sequences, TLAPS

\* Rows and pending requests refer to minted ids.
RowsMinted == \A t \in refresh_tokens : family[t] # NoFamily

Holding ==
    \A r \in Request : pc[r] # "idle" =>
        presented[r] \in Token /\ family[presented[r]] # NoFamily

TypeInv == TypeOK /\ RowsMinted /\ Holding

\* The empty tables have the types.
LEMMA InitTypeInv == Init => TypeInv
BY DEF Init, TypeInv, TypeOK, RowsMinted, Holding, PC

\* Every step of the refresh grant keeps the types and refers to minted ids
\* only.
LEMMA TypeInvStep == TypeInv /\ [Next]_vars => TypeInv'
<1> SUFFICES ASSUME TypeInv, [Next]_vars PROVE TypeInv'
  BY Zenon
<1> USE NoneAssumption DEF TypeInv, TypeOK, RowsMinted, Holding, PC
<1>1. ASSUME NEW n \in Token, NEW f \in Family, IssueFamily(n, f)
      PROVE  TypeInv'
  BY <1>1 DEF IssueFamily, save_refresh_token, Unminted, history
<1>2. ASSUME NEW r \in Request, NEW t \in Token, validate_refresh(r, t)
      PROVE  TypeInv'
  BY <1>2 DEF validate_refresh, Respond, Await, storage, history
<1>3. ASSUME NEW r \in Request, NEW t \in Token, LookUpFamily(r, t)
      PROVE  TypeInv'
  BY <1>3 DEF LookUpFamily, Respond, Await, storage, history
<1>4. ASSUME NEW r \in Request, NEW n \in Token, SaveReplacement(r, n)
      PROVE  TypeInv'
  <2> DEFINE f == family[presented[r]]
  <2>1. f \in Family /\ presented[r] \in Token
    BY <1>4, Zenon DEF SaveReplacement
  <2>2. TypeOK'
    BY <1>4, <2>1 DEF SaveReplacement, save_refresh_token, Respond
  <2>3. RowsMinted' /\ Holding'
    BY <1>4, <2>1 DEF SaveReplacement, save_refresh_token, Respond, Unminted
  <2> QED BY <2>2, <2>3, Zenon
<1>5. ASSUME NEW r \in Request, MarkPriorUsed(r)
      PROVE  TypeInv'
  BY <1>5 DEF MarkPriorUsed, mark_refresh_used, Respond, Await, storage, history
<1>6. ASSUME NEW r \in Request, BurnFamily(r)
      PROVE  TypeInv'
  <2>1. family[presented[r]] \in Family /\ presented[r] \in Token
    BY <1>6, Zenon DEF BurnFamily
  <2> QED BY <1>6, <2>1, Zenon DEF BurnFamily, revoke_token_family, Respond
<1>7. ASSUME NEW r \in Request, Drop(r)
      PROVE  TypeInv'
  BY <1>7 DEF Drop, Respond, storage
<1>8. ASSUME NEW t \in Token, Expire(t)
      PROVE  TypeInv'
  BY <1>8 DEF Expire, storage, history
<1>9. CASE UNCHANGED vars
  BY <1>9, Zenon DEF vars, storage, history
<1> QED BY <1>1, <1>2, <1>3, <1>4, <1>5, <1>6, <1>7, <1>8, <1>9, Zenon DEF Next

\* Every state of the rotation protocol is well typed: the columns hold what
\* their types say and no handler reaches a family or a row through an id that
\* was never minted.
THEOREM TypeCorrect == Spec => []TypeOK
<1>1. TypeInv => TypeOK
  BY Zenon DEF TypeInv
<1> QED BY <1>1, InitTypeInv, TypeInvStep, PTL DEF Spec

-----------------------------------------------------------------------------
\* MemoryStorage's family index stays exact: a save adds to both tables, a
\* revocation removes from both.
LEMMA IndexStep == TypeInv /\ FamilyIndex /\ [Next]_vars => FamilyIndex'
<1> SUFFICES ASSUME TypeInv, FamilyIndex, [Next]_vars PROVE FamilyIndex'
  BY Zenon
<1> USE NoneAssumption DEF TypeInv, TypeOK, RowsMinted, Holding, FamilyIndex
<1>1. ASSUME NEW n \in Token, NEW f \in Family, IssueFamily(n, f)
      PROVE  FamilyIndex'
  BY <1>1 DEF IssueFamily, save_refresh_token, Unminted
<1>2. ASSUME NEW r \in Request, NEW n \in Token, SaveReplacement(r, n)
      PROVE  FamilyIndex'
  <2>1. family[presented[r]] \in Family
    BY <1>2, Zenon DEF SaveReplacement
  <2> QED BY <1>2, <2>1 DEF SaveReplacement, save_refresh_token, Unminted
<1>3. ASSUME NEW r \in Request, BurnFamily(r)
      PROVE  FamilyIndex'
  <2>1. family[presented[r]] \in Family
    BY <1>3, Zenon DEF BurnFamily
  <2> QED BY <1>3, <2>1 DEF BurnFamily, revoke_token_family
<1>4. ASSUME NEW r \in Request, MarkPriorUsed(r)
      PROVE  FamilyIndex'
  BY <1>4 DEF MarkPriorUsed, mark_refresh_used, storage
<1>5. CASE UNCHANGED <<refresh_tokens, family, families>>
  BY <1>5
<1> QED
  BY <1>1, <1>2, <1>3, <1>4, <1>5
 , Zenon DEF Next, validate_refresh, LookUpFamily, Drop, Expire, vars, storage

\* MemoryStorage's family index is exact in every reachable state, so its
\* revocation through the index and Postgres' DELETE by family_id remove the
\* same rows.
THEOREM IndexCorrect == Spec => []FamilyIndex
<1>1. Init => FamilyIndex
  BY Zenon DEF Init, FamilyIndex
<1> QED BY <1>1, InitTypeInv, TypeInvStep, IndexStep, PTL DEF Spec

-----------------------------------------------------------------------------
\* A request past its first write stands on a token that is used or gone.
MarkedIsSpent ==
    \A r \in Request :
        pc[r] = "marked" /\ presented[r] \in refresh_tokens
            => presented[r] \in used

\* Only minted tokens are replaced, and the task that replaced one is not
\* about to replace it again.
ReplacerIsPast ==
    \A n \in Token : parent[n] # NoToken =>
        /\ family[parent[n]] # NoFamily
        /\ minter[n] \in Request
        /\ presented[minter[n]] = parent[n]
               => pc[minter[n]] \notin {"validated", "marked"}

Lineage == RotationKeepsFamily /\ MarkedIsSpent /\ ReplacerIsPast /\ NoForkByOneTask

\* A rotation saves the replacement before it marks the prior token, and no
\* other task of the same token gets between.
LEMMA LineageStep == TypeInv /\ FamilyIndex /\ Lineage /\ [Next]_vars => Lineage'
<1> SUFFICES ASSUME TypeInv, FamilyIndex, Lineage, [Next]_vars PROVE Lineage'
  BY Zenon
<1> USE NoneAssumption DEF TypeInv, TypeOK, RowsMinted, Holding, FamilyIndex,
        Lineage, RotationKeepsFamily, MarkedIsSpent, ReplacerIsPast, NoForkByOneTask
<1>1. ASSUME NEW n \in Token, NEW f \in Family, IssueFamily(n, f)
      PROVE  Lineage'
  BY <1>1 DEF IssueFamily, save_refresh_token, Unminted, history
<1>2. ASSUME NEW r \in Request, NEW t \in Token, validate_refresh(r, t)
      PROVE  Lineage'
  BY <1>2 DEF validate_refresh, Respond, Await, storage, history
<1>3. ASSUME NEW r \in Request, NEW t \in Token, LookUpFamily(r, t)
      PROVE  Lineage'
  BY <1>3 DEF LookUpFamily, Respond, Await, storage, history
<1>4. ASSUME NEW r \in Request, NEW n \in Token, SaveReplacement(r, n)
      PROVE  Lineage'
  <2>1. /\ presented[r] \in Token /\ family[presented[r]] \in Family
        /\ family[n] = NoFamily /\ n # presented[r] /\ parent[n] = NoToken
        /\ n \notin refresh_tokens /\ pc[r] = "marked"
    BY <1>4 DEF SaveReplacement, Unminted
  <2>2. \A m \in Token : parent[m] # NoToken => parent[m] # n /\ m # n
    BY <2>1, Zenon
  <2>3. /\ parent' = [parent EXCEPT ![n] = presented[r]]
        /\ minter' = [minter EXCEPT ![n] = r]
        /\ pc' = [pc EXCEPT ![r] = "idle"]
        /\ presented' = [presented EXCEPT ![r] = NoToken]
        /\ family' = [family EXCEPT ![n] = family[presented[r]]]
        /\ refresh_tokens' = refresh_tokens \cup {n}
        /\ used' = used \ {n}
    BY <1>4, Zenon DEF SaveReplacement, save_refresh_token, Respond
  <2>4. RotationKeepsFamily'
    BY <2>1, <2>2, <2>3
  <2>5. MarkedIsSpent'
    BY <2>1, <2>3
  <2>6. ReplacerIsPast'
    BY <2>1, <2>2, <2>3
  <2>7. \A m \in Token : parent[m] = presented[r] => minter[m] # r
    BY <2>1
  <2>8. NoForkByOneTask'
    BY <2>1, <2>3, <2>7
  <2> QED BY <2>4, <2>5, <2>6, <2>8, Zenon
<1>5. ASSUME NEW r \in Request, MarkPriorUsed(r)
      PROVE  Lineage'
  BY <1>5 DEF MarkPriorUsed, mark_refresh_used, Respond, Await, storage, history
<1>6. ASSUME NEW r \in Request, BurnFamily(r)
      PROVE  Lineage'
  BY <1>6, Zenon DEF BurnFamily, revoke_token_family, Respond
<1>7. ASSUME NEW r \in Request, Drop(r)
      PROVE  Lineage'
  BY <1>7, Zenon DEF Drop, Respond, storage
<1>8. ASSUME NEW t \in Token, Expire(t)
      PROVE  Lineage'
  BY <1>8, Zenon DEF Expire, storage, history
<1>9. CASE UNCHANGED vars
  BY <1>9, Zenon DEF vars, storage, history
<1> QED BY <1>1, <1>2, <1>3, <1>4, <1>5, <1>6, <1>7, <1>8, <1>9, Zenon DEF Next

\* The layers hold of the empty tables.
LEMMA InitInvs == Init => TypeInv /\ FamilyIndex /\ Lineage
BY InitTypeInv, NoneAssumption, Zenon
DEF Init, FamilyIndex, Lineage, RotationKeepsFamily, MarkedIsSpent,
    ReplacerIsPast, NoForkByOneTask

\* A replacement stays in the family of the token it replaces, and a replaced
\* token is marked used for as long as it has a row.
THEOREM RotationCorrect == Spec => []RotationKeepsFamily
<1>1. Lineage => RotationKeepsFamily
  BY Zenon DEF Lineage
<1> QED BY <1>1, InitInvs, TypeInvStep, IndexStep, LineageStep, PTL DEF Spec

\* No task ever obtains two replacements for one refresh token: forks of a
\* family come only from requests that overlap.
THEOREM NoFork == Spec => []NoForkByOneTask
<1>1. Lineage => NoForkByOneTask
  BY Zenon DEF Lineage
<1> QED BY <1>1, InitInvs, TypeInvStep, IndexStep, LineageStep, PTL DEF Spec

-----------------------------------------------------------------------------
\* A revoked family was issued, so it is never issued again, and a dead one
\* has no rotation in flight that could bring it back.
BurnedWasIssued == \A f \in burned : \E t \in Token : family[t] = f

DeadNotHalfWritten == \A f \in dead : ~HalfWritten(f)

DeadInv == DeadFamilyStaysDead /\ BurnedWasIssued /\ DeadNotHalfWritten

\* No step gives a dead family a row or a half-written rotation.
LEMMA DeadStep == TypeInv /\ FamilyIndex /\ DeadInv /\ [Next]_vars => DeadInv'
<1> SUFFICES ASSUME TypeInv, FamilyIndex, DeadInv, [Next]_vars PROVE DeadInv'
  BY Zenon
<1> USE NoneAssumption DEF TypeInv, TypeOK, RowsMinted, Holding, FamilyIndex,
        DeadInv, DeadFamilyStaysDead, BurnedWasIssued, DeadNotHalfWritten, HalfWritten
<1>1. ASSUME NEW n \in Token, NEW f \in Family, IssueFamily(n, f)
      PROVE  DeadInv'
  <2>1. f \notin burned
    BY <1>1, Zenon DEF IssueFamily
  <2> QED BY <1>1, <2>1 DEF IssueFamily, save_refresh_token, Unminted, history
<1>2. ASSUME NEW r \in Request, NEW t \in Token, validate_refresh(r, t)
      PROVE  DeadInv'
  BY <1>2 DEF validate_refresh, Respond, Await, storage, history
<1>3. ASSUME NEW r \in Request, NEW t \in Token, LookUpFamily(r, t)
      PROVE  DeadInv'
  BY <1>3 DEF LookUpFamily, Respond, Await, storage, history
<1>4. ASSUME NEW r \in Request, NEW n \in Token, SaveReplacement(r, n)
      PROVE  DeadInv'
  <2>1. presented[r] \in Token /\ family[presented[r]] \in Family \ dead
    BY <1>4 DEF SaveReplacement
  <2> QED BY <1>4, <2>1 DEF SaveReplacement, save_refresh_token, Unminted, Respond
<1>5. ASSUME NEW r \in Request, MarkPriorUsed(r)
      PROVE  DeadInv'
  BY <1>5 DEF MarkPriorUsed, mark_refresh_used, Respond, Await, storage, history
<1>6. ASSUME NEW r \in Request, BurnFamily(r)
      PROVE  DeadInv'
  <2>1. presented[r] \in Token /\ family[presented[r]] \in Family
    BY <1>6 DEF BurnFamily
  <2> QED BY <1>6, <2>1 DEF BurnFamily, revoke_token_family, Respond
<1>7. ASSUME NEW r \in Request, Drop(r)
      PROVE  DeadInv'
  BY <1>7 DEF Drop, Respond, storage
<1>8. ASSUME NEW t \in Token, Expire(t)
      PROVE  DeadInv'
  BY <1>8, Zenon DEF Expire, storage, history
<1>9. CASE UNCHANGED vars
  BY <1>9, Zenon DEF vars, storage, history
<1> QED BY <1>1, <1>2, <1>3, <1>4, <1>5, <1>6, <1>7, <1>8, <1>9, Zenon DEF Next

\* Reuse burns the entire family for good, provided no rotation of it stood
\* between its two writes when it was revoked: no row of it ever exists again.
THEOREM DeadCorrect == Spec => []DeadFamilyStaysDead
<1>1. Init => DeadInv
  BY Zenon DEF Init, DeadInv, DeadFamilyStaysDead, BurnedWasIssued, DeadNotHalfWritten
<1>2. DeadInv => DeadFamilyStaysDead
  BY Zenon DEF DeadInv
<1> QED BY <1>1, <1>2, InitInvs, TypeInvStep, IndexStep, DeadStep, PTL DEF Spec

-----------------------------------------------------------------------------
\* A live family without a usable token has a rotation in flight or a request
\* that was dropped in one.
LEMMA UsableStep ==
    TypeInv /\ FamilyIndex /\ UsableUnlessAbandoned /\ [Next]_vars
        => UsableUnlessAbandoned'
<1> SUFFICES ASSUME TypeInv, FamilyIndex, UsableUnlessAbandoned, [Next]_vars
             PROVE  UsableUnlessAbandoned'
  BY Zenon
<1> USE NoneAssumption DEF TypeInv, TypeOK, RowsMinted, Holding, FamilyIndex,
        UsableUnlessAbandoned, HalfWritten
<1>1. ASSUME NEW n \in Token, NEW f \in Family, IssueFamily(n, f)
      PROVE  UsableUnlessAbandoned'
  BY <1>1 DEF IssueFamily, save_refresh_token, Unminted, history
<1>2. ASSUME NEW r \in Request, NEW t \in Token, validate_refresh(r, t)
      PROVE  UsableUnlessAbandoned'
  BY <1>2 DEF validate_refresh, Respond, Await, storage, history
<1>3. ASSUME NEW r \in Request, NEW t \in Token, LookUpFamily(r, t)
      PROVE  UsableUnlessAbandoned'
  BY <1>3 DEF LookUpFamily, Respond, Await, storage, history
<1>4. ASSUME NEW r \in Request, NEW n \in Token, SaveReplacement(r, n)
      PROVE  UsableUnlessAbandoned'
  <2>1. /\ presented[r] \in Token /\ family[presented[r]] \in Family
        /\ family[n] = NoFamily /\ n # presented[r]
    BY <1>4 DEF SaveReplacement, Unminted
  <2> QED BY <1>4, <2>1 DEF SaveReplacement, save_refresh_token, Respond
<1>5. ASSUME NEW r \in Request, MarkPriorUsed(r)
      PROVE  UsableUnlessAbandoned'
  BY <1>5 DEF MarkPriorUsed, mark_refresh_used, Respond, Await, storage, history
<1>6. ASSUME NEW r \in Request, BurnFamily(r)
      PROVE  UsableUnlessAbandoned'
  <2>1. presented[r] \in Token /\ family[presented[r]] \in Family
    BY <1>6 DEF BurnFamily
  <2> QED BY <1>6, <2>1 DEF BurnFamily, revoke_token_family, Respond
<1>7. ASSUME NEW r \in Request, Drop(r)
      PROVE  UsableUnlessAbandoned'
  BY <1>7, Zenon DEF Drop, Respond, storage
<1>8. ASSUME NEW t \in Token, Expire(t)
      PROVE  UsableUnlessAbandoned'
  BY <1>8, Zenon DEF Expire, storage, history
<1>9. CASE UNCHANGED vars
  BY <1>9, Zenon DEF vars, storage, history
<1> QED BY <1>1, <1>2, <1>3, <1>4, <1>5, <1>6, <1>7, <1>8, <1>9, Zenon DEF Next

\* An issued family that nobody revoked can be refreshed again, unless a
\* rotation of it is in flight or was cut off between its two writes.
THEOREM UsableCorrect == Spec => []UsableUnlessAbandoned
<1>1. Init => UsableUnlessAbandoned
  BY Zenon DEF Init, UsableUnlessAbandoned
<1> QED BY <1>1, InitInvs, TypeInvStep, IndexStep, UsableStep, PTL DEF Spec

-----------------------------------------------------------------------------
\* Rows leave refresh_tokens by whole families only.
LEMMA RemovalStep ==
    ASSUME TypeInv, FamilyIndex, [Next]_vars
    PROVE  \A t, u \in refresh_tokens :
               family[t] = family[u] /\ t \notin refresh_tokens'
                   => u \notin refresh_tokens'
<1> USE DEF TypeInv, TypeOK, RowsMinted, Holding, FamilyIndex
<1>1. ASSUME NEW r \in Request, BurnFamily(r)
      PROVE  \A t, u \in refresh_tokens :
                 family[t] = family[u] /\ t \notin refresh_tokens'
                     => u \notin refresh_tokens'
  <2>1. family[presented[r]] \in Family
    BY <1>1, Zenon DEF BurnFamily
  <2> QED BY <1>1, <2>1 DEF BurnFamily, revoke_token_family
<1>2. CASE refresh_tokens \subseteq refresh_tokens'
  BY <1>2, Zenon
<1> QED
  BY <1>1, <1>2
 , Zenon DEF Next, IssueFamily, save_refresh_token, validate_refresh, LookUpFamily,
      SaveReplacement, MarkPriorUsed, mark_refresh_used, Drop, Expire, vars, storage

\* The rows of a family disappear together, in one step.
THEOREM FamilyFalls == Spec => FamilyFallsTogether
<1>1. TypeInv /\ FamilyIndex /\ [Next]_vars =>
        [\A t, u \in refresh_tokens :
            family[t] = family[u] /\ t \notin refresh_tokens'
                => u \notin refresh_tokens']_vars
  BY RemovalStep, Zenon
<1> QED
  BY <1>1, InitInvs, TypeInvStep, IndexStep, PTL DEF Spec, FamilyFallsTogether

\* A used token stays used, and one that left the table does not come back.
LEMMA SpentStep ==
    ASSUME TypeInv, FamilyIndex, [Next]_vars
    PROVE  \A t \in Token :
               /\ t \in used => t \in used' \/ t \notin refresh_tokens'
               /\ (~Unminted(t) /\ t \notin refresh_tokens)
                      => t \notin refresh_tokens'
<1> USE DEF TypeInv, TypeOK, RowsMinted, Holding, Unminted
<1>1. ASSUME NEW n \in Token, NEW f, Unminted(n), save_refresh_token(n, f)
      PROVE  n \notin used /\ used' = used /\ refresh_tokens' = refresh_tokens \cup {n}
  BY <1>1, Zenon DEF save_refresh_token
<1>2. CASE refresh_tokens' \subseteq refresh_tokens /\ used \subseteq used'
  BY <1>2, Zenon
<1>3. ASSUME NEW r \in Request, BurnFamily(r)
      PROVE  /\ refresh_tokens' \subseteq refresh_tokens
             /\ \A t \in used : t \in used' \/ t \notin refresh_tokens'
  BY <1>3, Zenon DEF BurnFamily, revoke_token_family
<1> QED
  BY <1>1, <1>2, <1>3
  DEF Next, IssueFamily, validate_refresh, LookUpFamily,
      SaveReplacement, MarkPriorUsed, mark_refresh_used, Drop, Expire, vars, storage

\* A used row stays used while it exists and a removed id never returns.
THEOREM SpentCorrect == Spec => SpentForGood
<1>1. TypeInv /\ FamilyIndex /\ [Next]_vars =>
        [\A t \in Token :
            /\ t \in used => t \in used' \/ t \notin refresh_tokens'
            /\ (~Unminted(t) /\ t \notin refresh_tokens)
                   => t \notin refresh_tokens']_vars
  BY SpentStep, Zenon
<1> QED
  BY <1>1, InitInvs, TypeInvStep, IndexStep, PTL DEF Spec, SpentForGood

\* The family index is exact, a family revoked between rotations stays dead, and
\* only a cut-off rotation leaves a live family without a usable token.
THEOREM FamilyCorrect == Spec => []FamilyWhole
BY IndexCorrect, DeadCorrect, UsableCorrect, PTL DEF FamilyWhole

-----------------------------------------------------------------------------
(* The other grants.                                                       *)

\* The request r has storage call do in flight.
Waits(r, do) == r # None /\ r.do = do

\* The request holds the claims of a token it has not stored yet.
Carries(r) == r # None /\ r.do \in {"redeem", "issue", "mint"}

\* What holds of every set of claims: a public subject names its user, and
\* claims taken from a subject token prepend their client to its actors, keep
\* its user and widen no scope.
GoodClaims(c, tk) ==
    /\ c.act \in Seq(Client)
    /\ c.sub \in User => c.user = c.sub
    /\ c.from \in Token =>
          /\ tk[c.from] # None
          /\ c.act = <<c.client>> \o tk[c.from].act
          /\ c.user = tk[c.from].user
          /\ c.scope \subseteq tk[c.from].scope

\* The tables are functions on their ids, and a request awaiting a call has the
\* fields of that call.
Shapes ==
    /\ device_grants = [d \in Device |-> device_grants[d]]
    /\ tokens = [k \in Token |-> tokens[k]]
    /\ req = [t \in Request |-> req[t]]
    /\ served \in [Uri -> Nat]
    /\ \A t \in Request :
          /\ Waits(req[t], "update") => req[t] = [do |-> "update", on |-> req[t].on, grant |-> req[t].grant]
          /\ Waits(req[t], "redeem") => req[t].on = req[t].claims.from
          /\ Waits(req[t], "flow") => req[t].on \in Uri
          /\ Waits(req[t], "mint") => req[t].on \in Token

\* A request_uri is served at most once: never before it is pushed, never while
\* its row is there, and one request at most holds the consumed row.
Uris ==
    /\ \A u \in par_requests : u \in asked
    /\ \A u \in Uri :
          /\ served[u] <= 1
          /\ u \notin asked \/ u \in par_requests => served[u] = 0
    /\ \A t \in Request : Waits(req[t], "flow") =>
          /\ served[req[t].on] = 0 /\ req[t].on \in asked \ par_requests
          /\ \A s \in Request : Waits(req[s], "flow") /\ req[s].on = req[t].on => s = t

\* A subject token being minted was issued to a session, is not stored, and one
\* request mints it.
Minting ==
    \A t \in Request : Waits(req[t], "mint") =>
        /\ req[t].on \in sessions /\ tokens[req[t].on] = None
        /\ \A s \in Request : Waits(req[s], "mint") /\ req[s].on = req[t].on => s = t

\* Every stored token, and every set of claims a request is about to store, has
\* good claims.
Chained ==
    /\ \A k \in Token : tokens[k] # None => GoodClaims(tokens[k], tokens)
    /\ \A t \in Request : Carries(req[t]) => GoodClaims(req[t].claims, tokens)

\* Request t has stored token k for device code d.
Redeemed(k, d, t) == tokens[k] # None /\ tokens[k].from = d /\ tokens[k].by = t

\* A device code with a token has no row left; a request that carries claims
\* for a code has stored no token for it; and a request stores one token at
\* most for a code.
Codes ==
    /\ \A d \in Device : device_grants[d] # None => d \in asked
    /\ \A k \in Token : tokens[k] # None /\ tokens[k].from \in Device =>
          device_grants[tokens[k].from] = None /\ tokens[k].from \in asked
    /\ \A t \in Request : Carries(req[t]) /\ req[t].claims.from \in Device =>
          /\ req[t].claims.by = t /\ req[t].claims.from \in asked
          /\ \A k \in Token : ~ Redeemed(k, req[t].claims.from, t)
          /\ req[t].do # "redeem" => device_grants[req[t].claims.from] = None
    /\ \A k, m \in Token :
          /\ tokens[k] # None /\ tokens[m] # None
          /\ tokens[k].from \in Device
          /\ tokens[k].from = tokens[m].from /\ tokens[k].by = tokens[m].by
          => k = m

\* The invariant holds of the empty tables.
LEMMA GrantsInit == endpoint!Init => Shapes /\ Uris /\ Minting /\ Chained /\ Codes
BY DEF endpoint!Init, Shapes, Uris, Minting, Chained, Codes, Waits, Carries

\* The fields of the claims a handler builds; resolve_sub gives a public
\* subject for its own user only.
LEMMA ClaimsFields ==
    ASSUME NEW t, NEW c, NEW user, NEW scope, NEW act, NEW from, NEW cl,
           cl = endpoint!claims(t, c, user, scope, act, from)
    PROVE  /\ cl.client = c /\ cl.scope = scope /\ cl.act = act /\ cl.user = user /\ cl.from = from
           /\ cl.sub \in User => cl.user = cl.sub
           /\ from \in Device => cl.by = t
BY GrantsAssumption, Zenon DEF endpoint!claims, endpoint!resolve_sub

\* What a poll of a device code awaits: the deletion of the row, its update, or its
\* redemption by claims that come from the code.
LEMMA DevicePolled ==
    ASSUME NEW d, NEW t, NEW c, endpoint!handle_device_code(t, c, d)
    PROVE  \E r :
              /\ req' = [req EXCEPT ![t] = r]
              /\ \/ r = [do |-> "delete", on |-> d]
                 \/ \E g : r = [do |-> "update", on |-> d, grant |-> g]
                 \/ \E user, scope : r = [do |-> "redeem", on |-> d,
                                         claims |-> endpoint!claims(t, c, user, scope, <<>>, d)]
<1> DEFINE grant == [device_grants[d] EXCEPT !.polled = "recent"]
           cl == endpoint!claims(t, c, grant.user, grant.scope, <<>>, d)
<1>1. \/ req' = [req EXCEPT ![t] = [do |-> "delete", on |-> d]]
      \/ req' = [req EXCEPT ![t] = [do |-> "update", on |-> d, grant |-> grant]]
      \/ req' = [req EXCEPT ![t] = [do |-> "redeem", on |-> d, claims |-> cl]]
  BY Zenon DEF endpoint!handle_device_code, endpoint!Await
<1> QED
  BY <1>1, Zenon

\* A request that awaits a call has the fields of that call.
Formed(r) ==
    /\ Waits(r, "update") => r = [do |-> "update", on |-> r.on, grant |-> r.grant]
    /\ Waits(r, "redeem") => r.on = r.claims.from
    /\ Waits(r, "flow") => r.on \in Uri
    /\ Waits(r, "mint") => r.on \in Token

\* Such a request keeps the shapes.
LEMMA AwaitShapes ==
    ASSUME Shapes, NEW t \in Request, NEW r, Formed(r), req' = [req EXCEPT ![t] = r],
           device_grants' = [d \in Device |-> device_grants'[d]], tokens' = tokens, served' = served
    PROVE  Shapes'
<1>1. req' = [u \in Request |-> req'[u]]
  BY Zenon DEF Shapes
<1>2. ASSUME NEW u \in Request PROVE Formed(req'[u])
  <2>1. CASE u = t
    BY <2>1, Zenon DEF Shapes
  <2>2. CASE u # t
    BY <2>2, Zenon DEF Shapes, Formed
  <2> QED
    BY <2>1, <2>2
<1> QED
  BY <1>1, <1>2, Zenon DEF Shapes, Formed

\* Every handler keeps the shapes.
LEMMA ShapesStep == Shapes /\ [endpoint!Next]_(endpoint!vars) => Shapes'
<1> SUFFICES ASSUME Shapes, [endpoint!Next]_(endpoint!vars) PROVE Shapes'
  BY Zenon
<1> USE DEF Shapes, Waits, endpoint!Await, endpoint!Respond,
            endpoint!storage, endpoint!history
<1>1. ASSUME NEW d \in Device, NEW c \in Client, NEW scope \in SUBSET Scope,
             endpoint!device_authorize(d, c, scope)
      PROVE  Shapes'
  BY <1>1, Zenon DEF endpoint!device_authorize, endpoint!save_device_grant
<1>2. ASSUME NEW d \in Device, NEW status, NEW user, endpoint!Decide(d, status, user)
      PROVE  Shapes'
  BY <1>2, Zenon DEF endpoint!Decide
<1>3. ASSUME NEW d \in Device, endpoint!Elapse(d)
      PROVE  Shapes'
  <2>1. device_grants' = [x \in Device |-> device_grants'[x]] /\ tokens' = tokens /\ served' = served
    BY <1>3, Zenon DEF endpoint!Elapse
  <2>2. req' = [t \in Request |-> req'[t]]
    BY <1>3, Zenon DEF endpoint!Elapse
  <2>3. ASSUME NEW t \in Request
        PROVE  req'[t] = req[t] \/ (Waits(req[t], "update") /\ req'[t] = [do |-> "update", on |-> req[t].on, grant |-> endpoint!Aged(req[t].grant)])
    BY <1>3 DEF endpoint!Elapse
  <2>4. QED
    BY <2>1, <2>2, <2>3
<1>4. ASSUME NEW d \in Device, NEW t \in Request, NEW c \in Client,
             endpoint!handle_device_code(t, c, d)
      PROVE  Shapes'
  <2>1. PICK r :
          /\ req' = [req EXCEPT ![t] = r]
          /\ \/ r = [do |-> "delete", on |-> d]
             \/ \E g : r = [do |-> "update", on |-> d, grant |-> g]
             \/ \E user, scope : r = [do |-> "redeem", on |-> d,
                                     claims |-> endpoint!claims(t, c, user, scope, <<>>, d)]
    BY <1>4, DevicePolled, Zenon
  <2>2. ASSUME NEW user, NEW scope, r = [do |-> "redeem", on |-> d,
                                         claims |-> endpoint!claims(t, c, user, scope, <<>>, d)]
        PROVE  Formed(r)
    <3>1. PICK cl : cl = endpoint!claims(t, c, user, scope, <<>>, d)
      BY Zenon
    <3>2. cl.from = d
      BY <3>1, ClaimsFields
    <3> QED
      BY <2>2, <3>1, <3>2 DEF Formed
  <2>3. Formed(r)
    BY <2>1, <2>2 DEF Formed
  <2> QED
    BY <1>4, <2>1, <2>3, AwaitShapes, Zenon DEF endpoint!handle_device_code
<1>5. ASSUME NEW t \in Request, NEW c \in Client, NEW scope \in SUBSET Scope, NEW user \in User,
             endpoint!handle_password(t, c, user, scope)
      PROVE  Shapes'
  BY <1>5, Zenon DEF endpoint!handle_password, endpoint!claims
<1>6. ASSUME NEW t \in Request, NEW c \in Client, NEW scope \in SUBSET Scope, NEW k \in Token,
             endpoint!client_credentials(t, c, scope, k)
      PROVE  Shapes'
  BY <1>6, Zenon DEF endpoint!client_credentials, endpoint!claims
<1>7. ASSUME NEW t \in Request, NEW c \in Client, NEW scope \in SUBSET Scope, NEW k \in Token,
             endpoint!handle_token_exchange(t, c, k, scope)
      PROVE  Shapes'
  BY <1>7, Zenon DEF endpoint!handle_token_exchange, endpoint!claims
<1>8. ASSUME NEW t \in Request, endpoint!RecordPoll(t)
      PROVE  Shapes'
  BY <1>8, Zenon DEF endpoint!RecordPoll, endpoint!update_device_grant
<1>9. ASSUME NEW t \in Request, endpoint!SettlePoll(t)
      PROVE  Shapes'
  <2>1. PICK r : req' = [req EXCEPT ![t] = r] /\ (r = None \/ r = [do |-> "issue", claims |-> req[t].claims])
    BY <1>9, Zenon DEF endpoint!SettlePoll
  <2>2. Formed(r)
    BY <2>1 DEF Formed
  <2>3. device_grants' = [d \in Device |-> device_grants'[d]]
    BY <1>9, Zenon DEF endpoint!SettlePoll, endpoint!delete_device_grant
  <2> QED
    BY <1>9, <2>1, <2>2, <2>3, AwaitShapes, Zenon DEF endpoint!SettlePoll
<1>10. ASSUME NEW t \in Request, NEW k \in Token, endpoint!create_session(t, k)
      PROVE  Shapes'
  BY <1>10, Zenon DEF endpoint!create_session
<1>11. ASSUME NEW t \in Request, endpoint!mint_access_token(t)
      PROVE  Shapes'
  BY <1>11, Zenon DEF endpoint!mint_access_token
<1>12. ASSUME NEW t \in Request, endpoint!start_flow(t)
      PROVE  Shapes'
  BY <1>12 DEF endpoint!start_flow
<1>13. ASSUME NEW t \in Request, endpoint!Drop(t)
      PROVE  Shapes'
  BY <1>13, Zenon DEF endpoint!Drop
<1>14. ASSUME NEW q \in Uri, endpoint!par(q)
      PROVE  Shapes'
  BY <1>14, Zenon DEF endpoint!par
<1>15. ASSUME NEW q \in Uri, NEW t \in Request, NEW home \in BOOLEAN,
             endpoint!handle_authorize(t, q, home)
      PROVE  Shapes'
  BY <1>15 DEF endpoint!handle_authorize
<1>16. ASSUME NEW x \in Device \cup Uri \cup Token, endpoint!Expire(x)
      PROVE  Shapes'
  BY <1>16, Zenon DEF endpoint!Expire
<1>17. ASSUME UNCHANGED endpoint!vars PROVE Shapes'
  BY <1>17, Zenon DEF endpoint!vars
<1> HIDE DEF Shapes, Waits
<1>18. QED
  BY <1>1, <1>2, <1>3, <1>4, <1>5, <1>6, <1>7, <1>8, <1>9, <1>10, <1>11, <1>12,
     <1>13, <1>14, <1>15, <1>16, <1>17, Zenon DEF endpoint!Next

\* Pushing, consuming and serving a request_uri keep Uris: the row is consumed
\* before the flow is started.
LEMMA UrisStep == Shapes /\ Uris /\ [endpoint!Next]_(endpoint!vars) => Uris'
<1> SUFFICES ASSUME Shapes, Uris, [endpoint!Next]_(endpoint!vars) PROVE Uris'
  BY Zenon
<1> USE DEF Shapes, Uris, Waits, endpoint!Await, endpoint!Respond,
            endpoint!storage, endpoint!history
<1>1. ASSUME NEW d \in Device, NEW c \in Client, NEW scope \in SUBSET Scope,
             endpoint!device_authorize(d, c, scope)
      PROVE  Uris'
  BY <1>1, Zenon DEF endpoint!device_authorize, endpoint!save_device_grant
<1>2. ASSUME NEW d \in Device, NEW status, NEW user, endpoint!Decide(d, status, user)
      PROVE  Uris'
  BY <1>2, Zenon DEF endpoint!Decide
<1>3. ASSUME NEW d \in Device, endpoint!Elapse(d)
      PROVE  Uris'
  BY <1>3 DEF endpoint!Elapse
<1>4. ASSUME NEW d \in Device, NEW t \in Request, NEW c \in Client,
             endpoint!handle_device_code(t, c, d)
      PROVE  Uris'
  BY <1>4 DEF endpoint!handle_device_code
<1>5. ASSUME NEW t \in Request, NEW c \in Client, NEW scope \in SUBSET Scope, NEW user \in User,
             endpoint!handle_password(t, c, user, scope)
      PROVE  Uris'
  BY <1>5, Zenon DEF endpoint!handle_password
<1>6. ASSUME NEW t \in Request, NEW c \in Client, NEW scope \in SUBSET Scope, NEW k \in Token,
             endpoint!client_credentials(t, c, scope, k)
      PROVE  Uris'
  BY <1>6, Zenon DEF endpoint!client_credentials
<1>7. ASSUME NEW t \in Request, NEW c \in Client, NEW scope \in SUBSET Scope, NEW k \in Token,
             endpoint!handle_token_exchange(t, c, k, scope)
      PROVE  Uris'
  BY <1>7, Zenon DEF endpoint!handle_token_exchange
<1>8. ASSUME NEW t \in Request, endpoint!RecordPoll(t)
      PROVE  Uris'
  BY <1>8, Zenon DEF endpoint!RecordPoll, endpoint!update_device_grant
<1>9. ASSUME NEW t \in Request, endpoint!SettlePoll(t)
      PROVE  Uris'
  BY <1>9 DEF endpoint!SettlePoll, endpoint!delete_device_grant
<1>10. ASSUME NEW t \in Request, NEW k \in Token, endpoint!create_session(t, k)
      PROVE  Uris'
  BY <1>10, Zenon DEF endpoint!create_session
<1>11. ASSUME NEW t \in Request, endpoint!mint_access_token(t)
      PROVE  Uris'
  BY <1>11, Zenon DEF endpoint!mint_access_token
<1>12. ASSUME NEW t \in Request, endpoint!start_flow(t)
      PROVE  Uris'
  BY <1>12 DEF endpoint!start_flow
<1>13. ASSUME NEW t \in Request, endpoint!Drop(t)
      PROVE  Uris'
  BY <1>13, Zenon DEF endpoint!Drop
<1>14. ASSUME NEW q \in Uri, endpoint!par(q)
      PROVE  Uris'
  BY <1>14 DEF endpoint!par
<1>15. ASSUME NEW q \in Uri, NEW t \in Request, NEW home \in BOOLEAN,
             endpoint!handle_authorize(t, q, home)
      PROVE  Uris'
  BY <1>15 DEF endpoint!handle_authorize, endpoint!consume_par_request
<1>16. ASSUME NEW x \in Device \cup Uri \cup Token, endpoint!Expire(x)
      PROVE  Uris'
  BY <1>16, Zenon DEF endpoint!Expire
<1>17. ASSUME UNCHANGED endpoint!vars PROVE Uris'
  BY <1>17, Zenon DEF endpoint!vars
<1> HIDE DEF Shapes, Uris, Waits
<1>18. QED
  BY <1>1, <1>2, <1>3, <1>4, <1>5, <1>6, <1>7, <1>8, <1>9, <1>10, <1>11, <1>12,
     <1>13, <1>14, <1>15, <1>16, <1>17, Zenon DEF endpoint!Next

\* Starting and finishing a mint keep Minting.
LEMMA MintingStep == Shapes /\ Minting /\ [endpoint!Next]_(endpoint!vars) => Minting'
<1> SUFFICES ASSUME Shapes, Minting, [endpoint!Next]_(endpoint!vars) PROVE Minting'
  BY Zenon
<1> USE DEF Shapes, Minting, Waits, endpoint!Await, endpoint!Respond,
            endpoint!storage, endpoint!history
<1>1. ASSUME NEW d \in Device, NEW c \in Client, NEW scope \in SUBSET Scope,
             endpoint!device_authorize(d, c, scope)
      PROVE  Minting'
  BY <1>1, Zenon DEF endpoint!device_authorize, endpoint!save_device_grant
<1>2. ASSUME NEW d \in Device, NEW status, NEW user, endpoint!Decide(d, status, user)
      PROVE  Minting'
  BY <1>2, Zenon DEF endpoint!Decide
<1>3. ASSUME NEW d \in Device, endpoint!Elapse(d)
      PROVE  Minting'
  BY <1>3 DEF endpoint!Elapse
<1>4. ASSUME NEW d \in Device, NEW t \in Request, NEW c \in Client,
             endpoint!handle_device_code(t, c, d)
      PROVE  Minting'
  BY <1>4 DEF endpoint!handle_device_code
<1>5. ASSUME NEW t \in Request, NEW c \in Client, NEW scope \in SUBSET Scope, NEW user \in User,
             endpoint!handle_password(t, c, user, scope)
      PROVE  Minting'
  BY <1>5, Zenon DEF endpoint!handle_password
<1>6. ASSUME NEW t \in Request, NEW c \in Client, NEW scope \in SUBSET Scope, NEW k \in Token,
             endpoint!client_credentials(t, c, scope, k)
      PROVE  Minting'
  BY <1>6 DEF endpoint!client_credentials, endpoint!Fresh
<1>7. ASSUME NEW t \in Request, NEW c \in Client, NEW scope \in SUBSET Scope, NEW k \in Token,
             endpoint!handle_token_exchange(t, c, k, scope)
      PROVE  Minting'
  BY <1>7, Zenon DEF endpoint!handle_token_exchange
<1>8. ASSUME NEW t \in Request, endpoint!RecordPoll(t)
      PROVE  Minting'
  BY <1>8, Zenon DEF endpoint!RecordPoll, endpoint!update_device_grant
<1>9. ASSUME NEW t \in Request, endpoint!SettlePoll(t)
      PROVE  Minting'
  BY <1>9 DEF endpoint!SettlePoll, endpoint!delete_device_grant
<1>10. ASSUME NEW t \in Request, NEW k \in Token, endpoint!create_session(t, k)
      PROVE  Minting'
  BY <1>10 DEF endpoint!create_session, endpoint!Fresh
<1>11. ASSUME NEW t \in Request, endpoint!mint_access_token(t)
      PROVE  Minting'
  BY <1>11, Zenon DEF endpoint!mint_access_token
<1>12. ASSUME NEW t \in Request, endpoint!start_flow(t)
      PROVE  Minting'
  BY <1>12, Zenon DEF endpoint!start_flow
<1>13. ASSUME NEW t \in Request, endpoint!Drop(t)
      PROVE  Minting'
  BY <1>13, Zenon DEF endpoint!Drop
<1>14. ASSUME NEW q \in Uri, endpoint!par(q)
      PROVE  Minting'
  BY <1>14, Zenon DEF endpoint!par
<1>15. ASSUME NEW q \in Uri, NEW t \in Request, NEW home \in BOOLEAN,
             endpoint!handle_authorize(t, q, home)
      PROVE  Minting'
  BY <1>15 DEF endpoint!handle_authorize, endpoint!consume_par_request
<1>16. ASSUME NEW x \in Device \cup Uri \cup Token, endpoint!Expire(x)
      PROVE  Minting'
  BY <1>16, Zenon DEF endpoint!Expire
<1>17. ASSUME UNCHANGED endpoint!vars PROVE Minting'
  BY <1>17, Zenon DEF endpoint!vars
<1> HIDE DEF Shapes, Minting, Waits
<1>18. QED
  BY <1>1, <1>2, <1>3, <1>4, <1>5, <1>6, <1>7, <1>8, <1>9, <1>10, <1>11, <1>12,
     <1>13, <1>14, <1>15, <1>16, <1>17, Zenon DEF endpoint!Next

\* Claims that come from no subject token are good.
LEMMA FirstClaims ==
    ASSUME NEW t, NEW c, NEW user, NEW scope, NEW from, from \notin Token, NEW cl, NEW tk,
           cl = endpoint!claims(t, c, user, scope, <<>>, from)
    PROVE  GoodClaims(cl, tk)
<1>1. cl.act = <<>> /\ cl.from = from /\ (cl.sub \in User => cl.user = cl.sub)
  BY ClaimsFields
<1>2. <<>> \in Seq(Client)
  OBVIOUS
<1>3. QED
  BY <1>1, <1>2, Zenon DEF GoodClaims

\* Storing a token under a free id leaves the claims of the others good.
LEMMA MintKeeps ==
    ASSUME NEW tk, NEW tk2, NEW k, tk = [x \in Token |-> tk[x]], tk[k] = None, NEW new,
           tk2 = [tk EXCEPT ![k] = new], NEW c, GoodClaims(c, tk)
    PROVE  GoodClaims(c, tk2)
BY Zenon DEF GoodClaims

\* Every handler builds good claims, and storing them keeps the chain.
LEMMA ChainedStep == Shapes /\ Minting /\ Chained /\ [endpoint!Next]_(endpoint!vars) => Chained'
<1> SUFFICES ASSUME Shapes, Minting, Chained, [endpoint!Next]_(endpoint!vars) PROVE Chained'
  BY Zenon
<1> USE DEF Shapes, Minting, Chained, Waits, Carries, endpoint!Await, endpoint!Respond,
            endpoint!storage, endpoint!history
<1>1. ASSUME NEW d \in Device, NEW c \in Client, NEW scope \in SUBSET Scope,
             endpoint!device_authorize(d, c, scope)
      PROVE  Chained'
  BY <1>1, Zenon DEF endpoint!device_authorize, endpoint!save_device_grant
<1>2. ASSUME NEW d \in Device, NEW status, NEW user, endpoint!Decide(d, status, user)
      PROVE  Chained'
  BY <1>2, Zenon DEF endpoint!Decide
<1>3. ASSUME NEW d \in Device, endpoint!Elapse(d)
      PROVE  Chained'
  BY <1>3 DEF endpoint!Elapse
<1>4. ASSUME NEW d \in Device, NEW t \in Request, NEW c \in Client,
             endpoint!handle_device_code(t, c, d)
      PROVE  Chained'
  <2>1. PICK gr : gr = [device_grants[d] EXCEPT !.polled = "recent"]
    BY Zenon
  <2>2. PICK cl : cl = endpoint!claims(t, c, gr.user, gr.scope, <<>>, d)
    BY Zenon
  <2>3. GoodClaims(cl, tokens)
    BY <2>2, FirstClaims, GrantsAssumption, Zenon
  <2>4. tokens' = tokens
    BY <1>4, Zenon DEF endpoint!handle_device_code
  <2>5. \/ req' = [req EXCEPT ![t] = [do |-> "delete", on |-> d]]
        \/ req' = [req EXCEPT ![t] = [do |-> "update", on |-> d, grant |-> gr]]
        \/ req' = [req EXCEPT ![t] = [do |-> "redeem", on |-> d, claims |-> cl]]
    BY <1>4, <2>1, <2>2, Zenon DEF endpoint!handle_device_code
  <2>6. QED
    BY <2>3, <2>4, <2>5
<1>5. ASSUME NEW t \in Request, NEW c \in Client, NEW scope \in SUBSET Scope, NEW user \in User,
             endpoint!handle_password(t, c, user, scope)
      PROVE  Chained'
  <2>1. PICK cl : cl = endpoint!claims(t, c, user, scope, <<>>, None)
    BY Zenon
  <2>2. GoodClaims(cl, tokens)
    BY <2>1, FirstClaims, GrantsAssumption, Zenon
  <2>3. QED
    BY <1>5, <2>1, <2>2, Zenon DEF endpoint!handle_password
<1>6. ASSUME NEW t \in Request, NEW c \in Client, NEW scope \in SUBSET Scope, NEW k \in Token,
             endpoint!client_credentials(t, c, scope, k)
      PROVE  Chained'
  <2>1. PICK cl : cl = endpoint!claims(t, c, None, scope, <<>>, None)
    BY Zenon
  <2>2. GoodClaims(cl, tokens)
    BY <2>1, FirstClaims, GrantsAssumption, Zenon
  <2>3. tokens' = [tokens EXCEPT ![k] = cl] /\ tokens[k] = None /\ req' = req
    BY <1>6, <2>1, Zenon DEF endpoint!client_credentials, endpoint!Fresh
  <2>4. ASSUME NEW x, GoodClaims(x, tokens) PROVE GoodClaims(x, tokens')
    BY <2>3, <2>4, MintKeeps, Zenon
  <2>5. QED
    BY <2>2, <2>3, <2>4, Zenon
<1>7. ASSUME NEW t \in Request, NEW c \in Client, NEW scope \in SUBSET Scope, NEW k \in Token,
             endpoint!handle_token_exchange(t, c, k, scope)
      PROVE  Chained'
  <2>1. PICK act, cl : act = endpoint!build_actor_chain(c, tokens[k].act)
                       /\ cl = endpoint!claims(t, c, tokens[k].sub, scope, act, k)
    BY Zenon
  <2>2. tokens[k] # None /\ tokens[k].sub \in User /\ scope \subseteq tokens[k].scope /\ tokens' = tokens
        /\ req' = [req EXCEPT ![t] = [do |-> "issue", claims |-> cl]]
    BY <1>7, <2>1, Zenon DEF endpoint!handle_token_exchange, endpoint!verify_access_token
  <2>3. tokens[k].act \in Seq(Client) /\ tokens[k].sub = tokens[k].user
    BY <2>2, Zenon DEF GoodClaims
  <2>4. /\ cl.client = c /\ cl.scope = scope /\ cl.act = act /\ cl.user = tokens[k].sub
        /\ cl.from = k /\ (cl.sub \in User => cl.user = cl.sub)
    BY <2>1, ClaimsFields
  <2>5. act = <<c>> \o tokens[k].act /\ act \in Seq(Client)
    BY <2>1, <2>3 DEF endpoint!build_actor_chain
  <2>6. GoodClaims(cl, tokens)
    BY <2>2, <2>3, <2>4, <2>5, Zenon DEF GoodClaims
  <2>7. QED
    BY <2>2, <2>6, Zenon
<1>8. ASSUME NEW t \in Request, endpoint!RecordPoll(t)
      PROVE  Chained'
  BY <1>8, Zenon DEF endpoint!RecordPoll, endpoint!update_device_grant
<1>9. ASSUME NEW t \in Request, endpoint!SettlePoll(t)
      PROVE  Chained'
  BY <1>9 DEF endpoint!SettlePoll, endpoint!delete_device_grant
<1>10. ASSUME NEW t \in Request, NEW k \in Token, endpoint!create_session(t, k)
      PROVE  Chained'
  BY <1>10, Zenon DEF endpoint!create_session, endpoint!Fresh
<1>11. ASSUME NEW t \in Request, endpoint!mint_access_token(t)
      PROVE  Chained'
  <2>1. PICK k, cl : k = req[t].on /\ cl = req[t].claims
    BY Zenon
  <2>2. k \in Token /\ tokens' = [tokens EXCEPT ![k] = cl] /\ tokens[k] = None
        /\ req' = [req EXCEPT ![t] = None] /\ GoodClaims(cl, tokens)
    BY <1>11, <2>1, Zenon DEF endpoint!mint_access_token
  <2>4. ASSUME NEW x, GoodClaims(x, tokens) PROVE GoodClaims(x, tokens')
    BY <2>2, <2>4, MintKeeps, Zenon
  <2>5. QED
    BY <2>2, <2>4, Zenon
<1>12. ASSUME NEW t \in Request, endpoint!start_flow(t)
      PROVE  Chained'
  BY <1>12, Zenon DEF endpoint!start_flow
<1>13. ASSUME NEW t \in Request, endpoint!Drop(t)
      PROVE  Chained'
  BY <1>13, Zenon DEF endpoint!Drop
<1>14. ASSUME NEW q \in Uri, endpoint!par(q)
      PROVE  Chained'
  BY <1>14, Zenon DEF endpoint!par
<1>15. ASSUME NEW q \in Uri, NEW t \in Request, NEW home \in BOOLEAN,
             endpoint!handle_authorize(t, q, home)
      PROVE  Chained'
  BY <1>15 DEF endpoint!handle_authorize, endpoint!consume_par_request
<1>16. ASSUME NEW x \in Device \cup Uri \cup Token, endpoint!Expire(x)
      PROVE  Chained'
  BY <1>16, Zenon DEF endpoint!Expire
<1>17. ASSUME UNCHANGED endpoint!vars PROVE Chained'
  BY <1>17, Zenon DEF endpoint!vars
<1> HIDE DEF Shapes, Minting, Chained, Waits, Carries
<1>18. QED
  BY <1>1, <1>2, <1>3, <1>4, <1>5, <1>6, <1>7, <1>8, <1>9, <1>10, <1>11, <1>12,
     <1>13, <1>14, <1>15, <1>16, <1>17, Zenon DEF endpoint!Next

\* A step that stores no token for a device code, brings back no device row and has no request carry
\* claims for a device code which it did not carry before.
NoCodeUsed ==
    /\ asked \subseteq asked'
    /\ \A k \in Token : tokens'[k] # None /\ tokens'[k].from \in Device => tokens'[k] = tokens[k]
    /\ \A d \in Device : device_grants'[d] # None => d \in asked' /\ (d \in asked => device_grants[d] # None)
    /\ \A t \in Request : Carries(req'[t]) /\ req'[t].claims.from \in Device =>
          /\ Carries(req[t]) /\ req'[t].claims = req[t].claims
          /\ req'[t].do # "redeem" => req[t].do # "redeem" \/ device_grants'[req[t].claims.from] = None

\* Such a step keeps what is known of the codes.
LEMMA CodesFrame == ASSUME Codes, NoCodeUsed PROVE Codes'
<1> USE DEF NoCodeUsed
<1>1. ASSUME NEW k \in Token, tokens'[k] # None, tokens'[k].from \in Device
      PROVE  device_grants'[tokens'[k].from] = None /\ tokens'[k].from \in asked'
  <2>1. tokens[k] # None /\ tokens'[k].from = tokens[k].from
    BY <1>1, Zenon
  <2>2. device_grants[tokens[k].from] = None /\ tokens[k].from \in asked
    BY <1>1, <2>1, Zenon DEF Codes
  <2> QED
    BY <1>1, <2>1, <2>2, Zenon
<1>2. ASSUME NEW t \in Request, Carries(req'[t]), req'[t].claims.from \in Device
      PROVE  /\ req'[t].claims.by = t /\ req'[t].claims.from \in asked'
             /\ \A k \in Token : ~ (tokens'[k] # None /\ tokens'[k].from = req'[t].claims.from /\ tokens'[k].by = t)
             /\ req'[t].do # "redeem" => device_grants'[req'[t].claims.from] = None
  <2>1. Carries(req[t]) /\ req'[t].claims = req[t].claims
    BY <1>2, Zenon
  <2>2. /\ req[t].claims.by = t /\ req[t].claims.from \in asked
        /\ \A k \in Token : ~ Redeemed(k, req[t].claims.from, t)
        /\ req[t].do # "redeem" => device_grants[req[t].claims.from] = None
    BY <1>2, <2>1, Zenon DEF Codes
  <2>3. ASSUME NEW k \in Token, tokens'[k] # None, tokens'[k].from = req'[t].claims.from, tokens'[k].by = t
        PROVE  FALSE
    BY <1>2, <2>1, <2>2, <2>3, Zenon DEF Redeemed
  <2> QED
    BY <1>2, <2>1, <2>2, <2>3, Zenon
<1>3. ASSUME NEW k \in Token, NEW m \in Token, tokens'[k] # None, tokens'[m] # None,
             tokens'[k].from \in Device, tokens'[k].from = tokens'[m].from, tokens'[k].by = tokens'[m].by
      PROVE  k = m
  <2>1. tokens'[k] = tokens[k] /\ tokens'[m] = tokens[m]
    BY <1>3, Zenon
  <2> QED
    BY <1>3, <2>1, Zenon DEF Codes
<1>4. \A d \in Device : device_grants'[d] # None => d \in asked'
  BY Zenon
<1> QED
  BY <1>1, <1>2, <1>3, <1>4, Zenon DEF Codes, Redeemed

\* Every handler keeps Codes: a poll deletes the row before it issues the
\* token.
LEMMA CodesStep == Shapes /\ Minting /\ Codes /\ [endpoint!Next]_(endpoint!vars) => Codes'
<1> SUFFICES ASSUME Shapes, Minting, Codes, [endpoint!Next]_(endpoint!vars) PROVE Codes'
  BY Zenon
<1> USE DEF endpoint!Await, endpoint!Respond, endpoint!storage, endpoint!history
<1>1. ASSUME NEW d \in Device, NEW c \in Client, NEW scope \in SUBSET Scope,
             endpoint!device_authorize(d, c, scope)
      PROVE  Codes'
  <2>1. NoCodeUsed
    BY <1>1, Zenon DEF endpoint!device_authorize, endpoint!save_device_grant, NoCodeUsed, Shapes, Carries, Codes
  <2> QED
    BY <2>1, CodesFrame, Zenon
<1>2. ASSUME NEW d \in Device, NEW status, NEW user, endpoint!Decide(d, status, user)
      PROVE  Codes'
  <2>1. NoCodeUsed
    BY <1>2, Zenon DEF endpoint!Decide, NoCodeUsed, Shapes, Carries, Codes
  <2> QED
    BY <2>1, CodesFrame, Zenon
<1>3. ASSUME NEW d \in Device, endpoint!Elapse(d)
      PROVE  Codes'
  <2>1. NoCodeUsed
    BY <1>3 DEF endpoint!Elapse, NoCodeUsed, Shapes, Carries, Codes
  <2> QED
    BY <2>1, CodesFrame, Zenon
<1>4. ASSUME NEW d \in Device, NEW t \in Request, NEW c \in Client,
             endpoint!handle_device_code(t, c, d)
      PROVE  Codes'
  <2>1. PICK r :
          /\ req' = [req EXCEPT ![t] = r]
          /\ \/ r = [do |-> "delete", on |-> d]
             \/ \E g : r = [do |-> "update", on |-> d, grant |-> g]
             \/ \E user, scope : r = [do |-> "redeem", on |-> d,
                                     claims |-> endpoint!claims(t, c, user, scope, <<>>, d)]
    BY <1>4, DevicePolled, Zenon
  <2>2. /\ tokens' = tokens /\ asked' = asked /\ device_grants' = device_grants
        /\ device_grants[d] # None
    BY <1>4, Zenon DEF endpoint!handle_device_code
  <2>3. \A u \in Request : u # t => req'[u] = req[u]
    BY <2>1, Zenon DEF Shapes
  <2>4. req'[t] = r
    BY <2>1, Zenon DEF Shapes
  <2>5. CASE ~ Carries(r)
    <3>1. NoCodeUsed
      BY <2>2, <2>3, <2>4, <2>5, Zenon DEF NoCodeUsed, Codes
    <3> QED
      BY <3>1, CodesFrame, Zenon
  <2>6. CASE Carries(r)
    <3>0. PICK user, scope : r = [do |-> "redeem", on |-> d,
                                 claims |-> endpoint!claims(t, c, user, scope, <<>>, d)]
      BY <2>1, <2>6 DEF Carries
    <3>1. PICK cl : cl = endpoint!claims(t, c, user, scope, <<>>, d)
      BY Zenon
    <3>2. r.do = "redeem" /\ r.claims = cl /\ cl.from = d /\ cl.by = t
      BY <3>0, <3>1, ClaimsFields
    <3>3. d \in asked /\ \A k \in Token : ~ Redeemed(k, d, t)
      <4>1. d \in asked
        BY <2>2, Zenon DEF Codes
      <4>2. ASSUME NEW k \in Token, tokens[k] # None, tokens[k].from = d PROVE FALSE
        BY <2>2, <4>2, Zenon DEF Codes
      <4> QED
        BY <4>1, <4>2, Zenon DEF Redeemed
    <3>4. ASSUME NEW u \in Request, Carries(req'[u]), req'[u].claims.from \in Device
          PROVE  /\ req'[u].claims.by = u /\ req'[u].claims.from \in asked
                 /\ \A k \in Token : ~ Redeemed(k, req'[u].claims.from, u)
                 /\ req'[u].do # "redeem" => device_grants[req'[u].claims.from] = None
      <4>1. CASE u = t
        BY <2>4, <3>2, <3>3, <4>1, Zenon
      <4>2. CASE u # t
        BY <2>3, <3>4, <4>2, Zenon DEF Codes
      <4> QED
        BY <4>1, <4>2
    <3> QED
      BY <2>2, <3>4, Zenon DEF Codes, Redeemed
  <2> QED
    BY <2>5, <2>6
<1>5. ASSUME NEW t \in Request, NEW c \in Client, NEW scope \in SUBSET Scope, NEW user \in User,
             endpoint!handle_password(t, c, user, scope)
      PROVE  Codes'
  <2>1. PICK cl : cl = endpoint!claims(t, c, user, scope, <<>>, None)
    BY Zenon
  <2>2. cl.from \notin Device
    BY <2>1, ClaimsFields, GrantsAssumption
  <2>3. NoCodeUsed
    BY <1>5, <2>1, <2>2, Zenon DEF endpoint!handle_password, endpoint!Fresh, NoCodeUsed, Shapes, Carries, Codes
  <2> QED
    BY <2>3, CodesFrame, Zenon
<1>6. ASSUME NEW t \in Request, NEW c \in Client, NEW scope \in SUBSET Scope, NEW k \in Token,
             endpoint!client_credentials(t, c, scope, k)
      PROVE  Codes'
  <2>1. PICK cl : cl = endpoint!claims(t, c, None, scope, <<>>, None)
    BY Zenon
  <2>2. cl.from \notin Device
    BY <2>1, ClaimsFields, GrantsAssumption
  <2>3. NoCodeUsed
    BY <1>6, <2>1, <2>2, Zenon DEF endpoint!client_credentials, endpoint!Fresh, NoCodeUsed, Shapes, Carries, Codes
  <2> QED
    BY <2>3, CodesFrame, Zenon
<1>7. ASSUME NEW t \in Request, NEW c \in Client, NEW scope \in SUBSET Scope, NEW k \in Token,
             endpoint!handle_token_exchange(t, c, k, scope)
      PROVE  Codes'
  <2>1. PICK cl : cl = endpoint!claims(t, c, tokens[k].sub, scope, endpoint!build_actor_chain(c, tokens[k].act), k)
    BY Zenon
  <2>2. cl.from \notin Device
    BY <2>1, ClaimsFields, GrantsAssumption
  <2>3. NoCodeUsed
    BY <1>7, <2>1, <2>2, Zenon DEF endpoint!handle_token_exchange, endpoint!Fresh, NoCodeUsed, Shapes, Carries, Codes
  <2> QED
    BY <2>3, CodesFrame, Zenon
<1>8. ASSUME NEW t \in Request, endpoint!RecordPoll(t)
      PROVE  Codes'
  <2>1. NoCodeUsed
    BY <1>8 DEF endpoint!RecordPoll, endpoint!update_device_grant, NoCodeUsed, Shapes, Carries, Codes
  <2> QED
    BY <2>1, CodesFrame, Zenon
<1>11. ASSUME NEW t \in Request, endpoint!mint_access_token(t)
      PROVE  Codes'
  BY <1>11 DEF endpoint!mint_access_token, Shapes, Minting, Codes, Waits, Carries, Redeemed
<1>9. ASSUME NEW t \in Request, endpoint!SettlePoll(t)
      PROVE  Codes'
  <2>1. /\ tokens' = tokens /\ asked' = asked /\ req[t] # None
        /\ device_grants' = [device_grants EXCEPT ![req[t].on] = None]
    BY <1>9, Zenon DEF endpoint!SettlePoll, endpoint!delete_device_grant
  <2>2. \A d \in Device : device_grants'[d] # None => device_grants[d] # None
    BY <2>1, Zenon DEF Shapes
  <2>3. CASE req[t].do = "redeem" /\ req' = [req EXCEPT ![t] = [do |-> "issue", claims |-> req[t].claims]]
    <3>1. req[t].on = req[t].claims.from
      BY <2>1, <2>3, Zenon DEF Shapes, Waits
    <3>2. req[t].claims.from \in Device => device_grants'[req[t].claims.from] = None
      BY <2>1, <3>1, Zenon DEF Shapes
    <3>3. \A u \in Request : u # t => req'[u] = req[u]
      BY <2>3, Zenon DEF Shapes
    <3>4. Carries(req[t]) /\ req'[t].claims = req[t].claims
      BY <2>1, <2>3, Zenon DEF Shapes, Carries
    <3>5. NoCodeUsed
      BY <2>1, <2>2, <3>2, <3>3, <3>4, Zenon DEF NoCodeUsed, Codes
    <3> QED
      BY <3>5, CodesFrame, Zenon
  <2>4. CASE req' = [req EXCEPT ![t] = None]
    <3>1. \A u \in Request : Carries(req'[u]) => req'[u] = req[u]
      BY <2>4, Zenon DEF Shapes, Carries
    <3>2. NoCodeUsed
      BY <2>1, <2>2, <3>1, Zenon DEF NoCodeUsed, Codes
    <3> QED
      BY <3>2, CodesFrame, Zenon
  <2> QED
    BY <1>9, <2>3, <2>4, Zenon DEF endpoint!SettlePoll
<1>10. ASSUME NEW t \in Request, NEW k \in Token, endpoint!create_session(t, k)
      PROVE  Codes'
  <2>1. NoCodeUsed
    BY <1>10, Zenon DEF endpoint!create_session, endpoint!Fresh, NoCodeUsed, Shapes, Carries, Codes
  <2> QED
    BY <2>1, CodesFrame, Zenon
<1>12. ASSUME NEW t \in Request, endpoint!start_flow(t)
      PROVE  Codes'
  <2>1. NoCodeUsed
    BY <1>12, Zenon DEF endpoint!start_flow, NoCodeUsed, Shapes, Carries, Codes
  <2> QED
    BY <2>1, CodesFrame, Zenon
<1>13. ASSUME NEW t \in Request, endpoint!Drop(t)
      PROVE  Codes'
  <2>1. NoCodeUsed
    BY <1>13, Zenon DEF endpoint!Drop, NoCodeUsed, Shapes, Carries, Codes
  <2> QED
    BY <2>1, CodesFrame, Zenon
<1>14. ASSUME NEW q \in Uri, endpoint!par(q)
      PROVE  Codes'
  <2>1. NoCodeUsed
    BY <1>14, Zenon DEF endpoint!par, NoCodeUsed, Shapes, Carries, Codes
  <2> QED
    BY <2>1, CodesFrame, Zenon
<1>15. ASSUME NEW q \in Uri, NEW t \in Request, NEW home \in BOOLEAN,
             endpoint!handle_authorize(t, q, home)
      PROVE  Codes'
  <2>1. NoCodeUsed
    BY <1>15 DEF endpoint!handle_authorize, endpoint!consume_par_request, NoCodeUsed, Shapes, Carries, Codes
  <2> QED
    BY <2>1, CodesFrame, Zenon
<1>16. ASSUME NEW x \in Device \cup Uri \cup Token, endpoint!Expire(x)
      PROVE  Codes'
  <2>1. NoCodeUsed
    BY <1>16, Zenon DEF endpoint!Expire, NoCodeUsed, Shapes, Carries, Codes
  <2> QED
    BY <2>1, CodesFrame, Zenon
<1>17. ASSUME UNCHANGED endpoint!vars PROVE Codes'
  <2>1. NoCodeUsed
    BY <1>17, Zenon DEF endpoint!vars, NoCodeUsed, Shapes, Carries, Codes
  <2> QED
    BY <2>1, CodesFrame, Zenon
<1>18. QED
  BY <1>1, <1>2, <1>3, <1>4, <1>5, <1>6, <1>7, <1>8, <1>9, <1>10, <1>11, <1>12,
     <1>13, <1>14, <1>15, <1>16, <1>17 DEF endpoint!Next

\* No step brings back a device code or a request_uri that was handed out and
\* is gone.
LEMMA GoneStep ==
    Shapes /\ [endpoint!Next]_(endpoint!vars) =>
        /\ \A d \in Device \cap asked : device_grants[d] = None => device_grants'[d] = None
        /\ \A u \in Uri \cap asked : u \notin par_requests => u \notin par_requests'
<1> DEFINE Goal ==
        /\ \A d \in Device \cap asked : device_grants[d] = None => device_grants'[d] = None
        /\ \A u \in Uri \cap asked : u \notin par_requests => u \notin par_requests'
<1> SUFFICES ASSUME Shapes, [endpoint!Next]_(endpoint!vars) PROVE Goal
  BY Zenon
<1> USE DEF Shapes, endpoint!Await, endpoint!Respond,
            endpoint!storage, endpoint!history
<1>1. ASSUME NEW d \in Device, NEW c \in Client, NEW scope \in SUBSET Scope,
             endpoint!device_authorize(d, c, scope)
      PROVE  Goal
  BY <1>1, Zenon DEF endpoint!device_authorize, endpoint!save_device_grant
<1>2. ASSUME NEW d \in Device, NEW status, NEW user, endpoint!Decide(d, status, user)
      PROVE  Goal
  BY <1>2, Zenon DEF endpoint!Decide
<1>3. ASSUME NEW d \in Device, endpoint!Elapse(d)
      PROVE  Goal
  BY <1>3, Zenon DEF endpoint!Elapse
<1>4. ASSUME NEW d \in Device, NEW t \in Request, NEW c \in Client,
             endpoint!handle_device_code(t, c, d)
      PROVE  Goal
  BY <1>4, Zenon DEF endpoint!handle_device_code
<1>5. ASSUME NEW t \in Request, NEW c \in Client, NEW scope \in SUBSET Scope, NEW user \in User,
             endpoint!handle_password(t, c, user, scope)
      PROVE  Goal
  BY <1>5, Zenon DEF endpoint!handle_password
<1>6. ASSUME NEW t \in Request, NEW c \in Client, NEW scope \in SUBSET Scope, NEW k \in Token,
             endpoint!client_credentials(t, c, scope, k)
      PROVE  Goal
  BY <1>6, Zenon DEF endpoint!client_credentials
<1>7. ASSUME NEW t \in Request, NEW c \in Client, NEW scope \in SUBSET Scope, NEW k \in Token,
             endpoint!handle_token_exchange(t, c, k, scope)
      PROVE  Goal
  BY <1>7, Zenon DEF endpoint!handle_token_exchange
<1>8. ASSUME NEW t \in Request, endpoint!RecordPoll(t)
      PROVE  Goal
  BY <1>8, Zenon DEF endpoint!RecordPoll, endpoint!update_device_grant
<1>9. ASSUME NEW t \in Request, endpoint!SettlePoll(t)
      PROVE  Goal
  BY <1>9, Zenon DEF endpoint!SettlePoll, endpoint!delete_device_grant
<1>10. ASSUME NEW t \in Request, NEW k \in Token, endpoint!create_session(t, k)
      PROVE  Goal
  BY <1>10, Zenon DEF endpoint!create_session
<1>11. ASSUME NEW t \in Request, endpoint!mint_access_token(t)
      PROVE  Goal
  BY <1>11, Zenon DEF endpoint!mint_access_token
<1>12. ASSUME NEW t \in Request, endpoint!start_flow(t)
      PROVE  Goal
  BY <1>12, Zenon DEF endpoint!start_flow
<1>13. ASSUME NEW t \in Request, endpoint!Drop(t)
      PROVE  Goal
  BY <1>13, Zenon DEF endpoint!Drop
<1>14. ASSUME NEW q \in Uri, endpoint!par(q)
      PROVE  Goal
  BY <1>14, Zenon DEF endpoint!par
<1>15. ASSUME NEW q \in Uri, NEW t \in Request, NEW home \in BOOLEAN,
             endpoint!handle_authorize(t, q, home)
      PROVE  Goal
  BY <1>15, Zenon DEF endpoint!handle_authorize, endpoint!consume_par_request
<1>16. ASSUME NEW x \in Device \cup Uri \cup Token, endpoint!Expire(x)
      PROVE  Goal
  BY <1>16, Zenon DEF endpoint!Expire
<1>17. ASSUME UNCHANGED endpoint!vars PROVE Goal
  BY <1>17, Zenon DEF endpoint!vars
<1>18. QED
  BY <1>1, <1>2, <1>3, <1>4, <1>5, <1>6, <1>7, <1>8, <1>9, <1>10, <1>11, <1>12,
     <1>13, <1>14, <1>15, <1>16, <1>17, Zenon DEF endpoint!Next

\* The sequence a is longer than b and ends with b.
Ends(a, b) ==
    /\ Len(a) > Len(b)
    /\ \A i \in 1 .. Len(b) : a[i + (Len(a) - Len(b))] = b[i]

\* A sequence with one more element in front ends with the sequence.
LEMMA ConsEnds ==
    ASSUME NEW c, NEW b \in Seq(Client), NEW a \in Seq(Client), a = <<c>> \o b
    PROVE  Ends(a, b) /\ a[1] = c
<1>1. Len(a) = Len(b) + 1 /\ Len(a) \in Nat /\ Len(b) \in Nat
  OBVIOUS
<1>2. \A i \in 1 .. Len(b) : a[i + 1] = b[i]
  OBVIOUS
<1>3. QED
  BY <1>1, <1>2 DEF Ends

\* Ending with is transitive.
LEMMA EndsTrans ==
    ASSUME NEW a \in Seq(Client), NEW b \in Seq(Client), NEW c \in Seq(Client),
           Ends(a, b), Ends(b, c)
    PROVE  Ends(a, c)
<1>1. Len(a) \in Nat /\ Len(b) \in Nat /\ Len(c) \in Nat /\ Len(a) > Len(c)
  BY DEF Ends
<1>2. ASSUME NEW i \in 1 .. Len(c) PROVE a[i + (Len(a) - Len(c))] = c[i]
  <2>j. PICK j : j = i + (Len(b) - Len(c))
    BY Zenon
  <2>0. Len(b) > Len(c) /\ b[i + (Len(b) - Len(c))] = c[i]
    BY Zenon DEF Ends
  <2>1. j \in 1 .. Len(b) /\ b[j] = c[i]
    <3>1. j \in 1 .. Len(b)
      BY <1>1, <2>j, <2>0
    <3> QED
      BY <3>1, <2>j, <2>0, Zenon
  <2>2. a[j + (Len(a) - Len(b))] = b[j]
    BY <2>1, Zenon DEF Ends
  <2>3. j + (Len(a) - Len(b)) = i + (Len(a) - Len(c))
    BY <1>1, <2>j
  <2>4. QED
    BY <2>1, <2>2, <2>3, Zenon
<1>3. QED
  BY <1>1, <1>2, Zenon DEF Ends

\* What a sequence ends with is its suffix of that length.
LEMMA EndsSuffix ==
    ASSUME NEW a \in Seq(Client), NEW b \in Seq(Client), Ends(a, b)
    PROVE  Len(a) - Len(b) > 0 /\ SubSeq(a, Len(a) - Len(b) + 1, Len(a)) = b
<1>1. PICK p \in Nat, q \in Nat : p = Len(a) /\ q = Len(b) /\ p > q
  BY DEF Ends
<1>n. PICK n : n = p - q
  BY Zenon
<1>2. n = p - q /\ n \in Nat /\ n > 0 /\ p - (n + 1) + 1 = q
  BY <1>1, <1>n
<1>3. PICK z : z = SubSeq(a, n + 1, p)
  BY Zenon
<1>4. \A i \in n + 1 .. p : a[i] \in Client
  BY <1>1, <1>2
<1>5. z \in Seq(Client) /\ Len(z) = q
  BY <1>1, <1>2, <1>3, <1>4
<1>6. ASSUME NEW i \in 1 .. q PROVE z[i] = b[i]
  <2>1. z[i] = a[n + i]
    BY <1>1, <1>2, <1>3, <1>4, <1>5
  <2>2. a[i + n] = b[i]
    BY <1>1, <1>2, Zenon DEF Ends
  <2>3. QED
    BY <2>1, <2>2, <1>2
<1>7. z = b
  BY <1>1, <1>5, <1>6
<1>8. QED
  BY <1>1, <1>2, <1>3, <1>7, Zenon

\* Good claims along the chain of subject tokens give Lineage: a token's actors
\* end with those of every token it was exchanged from.
LEMMA ChainedLineage == Shapes /\ Chained => endpoint!Lineage
<1> SUFFICES ASSUME Shapes, Chained, NEW k \in Token, NEW m \in endpoint!Earlier(k)
             PROVE  /\ Len(tokens[k].act) - Len(tokens[m].act) > 0
                    /\ SubSeq(tokens[k].act, Len(tokens[k].act) - Len(tokens[m].act) + 1, Len(tokens[k].act)) = tokens[m].act
                    /\ tokens[k].act[1] = tokens[k].client
                    /\ tokens[k].user = tokens[m].user
                    /\ tokens[k].scope \subseteq tokens[m].scope
  BY Zenon DEF endpoint!Lineage
<1> DEFINE S == {x \in Token :
            /\ tokens[x] # None
            /\ Ends(tokens[k].act, tokens[x].act)
            /\ tokens[k] # None
            /\ tokens[k].act[1] = tokens[k].client
            /\ tokens[k].user = tokens[x].user
            /\ tokens[k].scope \subseteq tokens[x].scope}
<1>1. ASSUME NEW x \in Token, NEW y \in endpoint!From(x)
      PROVE  /\ tokens[x] # None /\ tokens[y] # None /\ y \in Token
             /\ tokens[x].act \in Seq(Client) /\ tokens[y].act \in Seq(Client)
             /\ tokens[x].act = <<tokens[x].client>> \o tokens[y].act
             /\ tokens[x].user = tokens[y].user
             /\ tokens[x].scope \subseteq tokens[y].scope
  BY Zenon DEF endpoint!From, Chained, GoodClaims
<1>2. ASSUME NEW x \in Token, NEW y \in endpoint!From(x)
      PROVE  Ends(tokens[x].act, tokens[y].act) /\ tokens[x].act[1] = tokens[x].client
  <2>1. PICK a, b, c : a = tokens[x].act /\ b = tokens[y].act /\ c = tokens[x].client
    BY Zenon
  <2>2. a \in Seq(Client) /\ b \in Seq(Client) /\ a = <<c>> \o b
    BY <1>1, <2>1, Zenon
  <2>3. Ends(a, b) /\ a[1] = c
    BY <2>2, ConsEnds, Zenon
  <2>4. QED
    BY <2>1, <2>3, Zenon
<1>3. endpoint!From(k) \subseteq S
  BY <1>1, <1>2, Zenon
<1>4. ASSUME NEW x \in S PROVE endpoint!From(x) \subseteq S
  <2> SUFFICES ASSUME NEW y \in endpoint!From(x) PROVE y \in S
    BY Zenon
  <2>1. tokens[k].act \in Seq(Client)
    BY Zenon DEF Chained, GoodClaims
  <2>2. Ends(tokens[k].act, tokens[y].act)
    <3>1. PICK a, b, c : a = tokens[k].act /\ b = tokens[x].act /\ c = tokens[y].act
      BY Zenon
    <3>2. a \in Seq(Client) /\ b \in Seq(Client) /\ c \in Seq(Client)
      BY <1>1, <2>1, <3>1, Zenon
    <3>3. Ends(a, b) /\ Ends(b, c)
      BY <1>2, <3>1, Zenon
    <3>4. QED
      BY <3>1, <3>2, <3>3, EndsTrans, Zenon
  <2>3. QED
    BY <1>1, <2>2, Zenon
<1>5. m \in S
  <2>1. S \in SUBSET Token
    BY Zenon
  <2> HIDE DEF S
  <2>2. QED
    BY <1>3, <1>4, <2>1, Zenon DEF endpoint!Earlier
<1>6. tokens[k].act \in Seq(Client) /\ tokens[m].act \in Seq(Client)
  BY <1>5, Zenon DEF Chained, GoodClaims
<1>7. Ends(tokens[k].act, tokens[m].act)
  BY <1>5, Zenon
<1>8. /\ Len(tokens[k].act) - Len(tokens[m].act) > 0
      /\ SubSeq(tokens[k].act, Len(tokens[k].act) - Len(tokens[m].act) + 1, Len(tokens[k].act)) = tokens[m].act
  BY <1>6, <1>7, EndsSuffix, Zenon
<1>9. QED
  BY <1>5, <1>8, Zenon

\* The inductive invariant of the grants.
GrantsInv == Shapes /\ Uris /\ Minting /\ Chained /\ Codes

\* Every request_uri is served once at most, every device code gives one token
\* at most to a request, and a token exchanged from another names the whole
\* chain of actors, whatever the storage calls interleave with.
THEOREM GrantsCorrect == endpoint!Spec => []GrantsSound
<1>1. GrantsInv /\ [endpoint!Next]_(endpoint!vars) => GrantsInv'
  BY ShapesStep, UrisStep, MintingStep, ChainedStep, CodesStep, Zenon DEF GrantsInv
<1>2. GrantsInv => GrantsSound
  BY ChainedLineage, Zenon DEF GrantsInv, Uris, Codes, GrantsSound, endpoint!GrantsSound, endpoint!ServedOnce
<1>3. endpoint!Init => GrantsInv
  BY GrantsInit, Zenon DEF GrantsInv
<1>4. QED
  BY <1>1, <1>2, <1>3, PTL DEF endpoint!Spec

\* A device code or a request_uri that has been used up or has expired never
\* comes back, although an update of a device row races its deletion.
THEOREM GoneCorrect == endpoint!Spec => GoneForGood
<1>1. Shapes /\ [endpoint!Next]_(endpoint!vars) =>
        [/\ \A d \in Device \cap asked : device_grants[d] = None => device_grants'[d] = None
         /\ \A u \in Uri \cap asked : u \notin par_requests => u \notin par_requests']_(endpoint!vars)
  BY GoneStep, Zenon
<1>2. QED
  BY <1>1, GrantsInit, ShapesStep, PTL DEF endpoint!Spec, GoneForGood, endpoint!GoneForGood
=============================================================================
