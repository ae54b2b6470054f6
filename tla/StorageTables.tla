---------------------------- MODULE StorageTables ---------------------------
(***************************************************************************)
(* The tables of the Storage trait, as both backends keep them: what a row *)
(* is, the outcomes of a call, and what the reads of the two backends are  *)
(* compared by.  MemoryStorage and PostgresStorage extend this module, and *)
(* Storage makes every call on both.  A behaviour works on one table; the  *)
(* rows it refers to exist.                                                *)
(***************************************************************************)
EXTENDS Integers, FiniteSets

CONSTANTS
    Realm,
    Id,         \* ids, codes and tokens: random, each given out once
    Name,       \* what a row is called within its realm, in one case
    Owner,      \* what a row belongs to: a user, a client, an organization
    None,
    Homes       \* the ways in which the owners may live in realms

VARIABLES
    table,      \* the table this behaviour works on
    mem, idx,   \* MemoryStorage: the rows, and the secondary index
    pg,         \* PostgresStorage: the rows, as columns
    given,      \* rows as created, each under an id of its own
    home,       \* the realm of each owner
    reply       \* the two answers of the last call, the realms it strayed into,
                \* and why the stores are known to take it differently, if they are

vars == <<table, mem, idx, pg, given, home, reply>>

\* set: what a write replaces; kept: what only an insert writes; lost: what a user
\* or a group carries and no column holds, or a module's bytes; mark: used,
\* accepted_at or revoked_at.  In an Upserted table an upsert with a fresh id and
\* created_at replaces them in memory and leaves them in Postgres: they are not kept.
\* Rows of a join table or of one per realm have no id.
Stamp(t) ==
    CASE t = "session" -> {"Anonymous", "Single", "Mfa", "HardwareBound"}
      [] t = "device" -> {"Pending", "Approved", "Denied", "Expired"}
      [] t = "membership" -> {"Active", "Invited", "Suspended"}
      [] t = "consent_policy" -> {"UserDecides", "OrgPreApproved", "OrgManaged"}
      [] t = "agent" -> {"PrivateKeyJwt", "DpopBoundKey", "TokenExchangeOnly"}
      [] OTHER -> {"old", "new"}

Keyless == {"user_role", "user_group", "group_role", "profile", "membership", "idp_binding", "saml_id"}
Nameless == {"session", "code", "refresh", "par", "flow_state", "profile"}
Unowned == {"realm", "client", "session", "code", "par", "device", "flow_state", "auth_flow", "idp",
            "broker_state", "ldap", "wasm", "profile", "agent", "group", "organization"}
Table ==
    {"realm", "user", "client", "session", "code", "refresh", "par", "device", "flow_state",
     "auth_flow", "consent", "idp", "broker_state", "broker_link", "ldap", "wasm", "spi", "role",
     "user_role", "group", "user_group", "group_role", "profile", "agent", "organization", "domain",
     "membership", "org_role", "invitation", "consent_policy", "idp_binding", "saml_id"}

Upserted == {"consent", "broker_link", "wasm", "domain", "membership", "consent_policy"}

Row ==
    {r \in {[id |-> i, realm |-> z, name |-> n, of |-> o, set |-> v,
             kept |-> IF table \in Upserted THEN "none" ELSE v,
             lost |-> IF table \in {"user", "group", "wasm"} THEN v ELSE "none",
             mark |-> FALSE] :
                i \in IF table \in Keyless THEN {None} ELSE Id, z \in Realm,
                n \in IF table \in Nameless THEN {None} ELSE Name,
                o \in IF table \in Unowned THEN {None} ELSE Owner, v \in Stamp(table)} :
        table \in Unowned \cup {"user", "spi"} \/ r.realm = home[r.of]}

\* What both stores are to tell alike: Postgres has no column for some fields of a
\* user and of a group, and the id of an upserted row is that of the first insert.
Untold ==
    CASE table \in {"user", "group"} -> {"lost"} [] table \in Upserted -> {"id"} [] OTHER -> {}
Told(R) == {[f \in DOMAIN r \ Untold |-> r[f]] : r \in R}

-----------------------------------------------------------------------------
(* Outcomes of a call.                                                     *)
Ok(S) == [is |-> "ok", rows |-> S, idx |-> idx, out |-> {}]
NotFound(S) == [is |-> "not_found", rows |-> S, idx |-> idx, out |-> {}]
Conflict(S) == [is |-> "conflict", rows |-> S, idx |-> idx, out |-> {}]

Same(q, r, F) == \A f \in F : q[f] = r[f]
Without(S, D) == IF D = {} THEN NotFound(S) ELSE Ok(S \ D)
Consumed(S, D) == IF D = {} THEN NotFound(S) ELSE [Ok(S \ D) EXCEPT !.out = D]
Marked(S, D) ==
    IF D = {} THEN NotFound(S) ELSE Ok((S \ D) \cup {[q EXCEPT !.mark = TRUE] : q \in D})

\* Flow definitions: kept is the version, "old" before "new".
Latest(S) ==
    {q \in S : \A x \in S : Same(x, q, {"realm", "name"}) /\ x.kept = "new" => q.kept = "new"}

\* The profile schema of a realm is the default one until one is saved.
DefaultFor(z) ==
    [id |-> None, realm |-> z, name |-> None, of |-> None,
     set |-> "default", kept |-> "default", lost |-> "none", mark |-> FALSE]
OrDefault(S, z) == IF S = {} THEN {DefaultFor(z)} ELSE S

-----------------------------------------------------------------------------
(* Every read of the table, as the set of (realm, key, rows, whether the    *)
(* key is an owner of another realm).                                      *)
R0(f(_)) == {<<z, None, Told(f(z)), FALSE>> : z \in Realm}
RI(f(_), K) == {<<None, k, Told(f(k)), FALSE>> : k \in K}
R2(f(_, _), K) == {<<z, k, Told(f(z, k)), FALSE>> : z \in Realm, k \in K}
R3(f(_, _, _)) ==
    {<<z, <<o, n>>, Told(f(z, o, n)), z # home[o]>> : z \in Realm, o \in Owner, n \in Name}
RO(f(_, _)) == {<<z, o, Told(f(z, o)), z # home[o]>> : z \in Realm, o \in Owner}
RV(f(_, _, _)) ==
    {<<z, <<n, v>>, Told(f(z, n, v)), FALSE>> : z \in Realm, n \in Name, v \in Stamp(table)}
=============================================================================
