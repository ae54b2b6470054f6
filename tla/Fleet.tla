------------------------------- MODULE Fleet -------------------------------
(***************************************************************************)
(* Server processes (pods) over one Postgres database: what main does       *)
(* before it serves (migrations under the advisory lock, the schema window, *)
(* the derived hash keys, the quickstart realm, the signing keys of every   *)
(* realm), and what the handlers do with the keys of their own process      *)
(* afterwards (minting, introspection, JWKS, refresh lookup, revocation,    *)
(* client secrets, realm creation).  A pod can crash between any two steps; *)
(* what it held in memory is gone and its database session ends.            *)
(*                                                                         *)
(* A nonce or a key drawn by a process is named after the pod, its start    *)
(* and its purpose, and a token or a secret is a number: two of them are    *)
(* equal exactly when they are the same draw.                               *)
(***************************************************************************)
EXTENDS Naturals, FiniteSets, Sequences, Functions

CONSTANTS Pod, Realm, Master, None,
          Known,          \* the migrations embedded in each pod's binary
          MigrateOnBoot,  \* the pods started with migrate_on_boot
          Quickstart,     \* the pods started with bootstrap_quickstart
          MaxBoots,       \* bound: starts of each pod
          MaxFresh        \* bound: no token or secret is drawn past it

\* Every binary embeds the migrations up to some version; None is neither a pod nor
\* a creation request.
ASSUME FleetAssumption ==
    /\ \A p \in Pod : \A v \in Known[p] : v \in Nat \ {0} /\ 1..v \subseteq Known[p]
    /\ Master \in Realm
    /\ None \notin Pod /\ None \notin [realm : Realm, next : {"flows", "keys"}]

VARIABLES
    applied,   \* rows of _sqlx_migrations, in the order they were inserted
    lock,      \* the session that holds ADVISORY_LOCK_KEY
    rows,      \* what the database holds of each realm
    refresh,   \* refresh token rows, by hash
    secrets,   \* client secret hashes, with the plaintext the operator holds
    proc,      \* each pod's progress
    subkey,    \* AppState.refresh_hash_key and client_secret_hash_key
    kms,       \* SoftwareKms.store of each pod
    creating,  \* the realm creation request in flight on each pod
    access,    \* access tokens that clients hold
    seen,      \* history: the realms a pod has seeded, or is to seed, since it started
    torn,      \* history: the realms whose provisioning was cut short
    fresh      \* the next token or secret

vars == <<applied, lock, rows, refresh, secrets, proc, subkey, kms, creating,
          access, seen, torn, fresh>>
db == <<applied, lock, rows, refresh, secrets>>

At(p, pc) == proc[p].pc = pc
Goto(p, pc, todo) == proc' = [proc EXCEPT ![p].pc = pc, ![p].todo = todo]
Serving(p) == At(p, "serving")

(***************************************************************************)
(* Key derivation.  MasterKey::wrap draws a nonce, and derive_subkey hashes *)
(* nonce and ciphertext: a key is its label and the draw.                   *)
(***************************************************************************)
wrap(nonce) == nonce
derive_subkey(label, nonce) == <<label, wrap(nonce)>>
derive_realm_key(base, r, label) == <<base, r, label>>
token_hash(key, secret) == <<key, secret>>
refresh_hash_key(p, r) == derive_realm_key(subkey[p].refresh, r, "refresh")

(***************************************************************************)
(* SoftwareKms: the signing keys of one process.                            *)
(***************************************************************************)
Active(p, r) == {k \in kms[p] : k.realm = r /\ k.state = "Active"}
jwks(p, r) ==
    {k.kid : k \in {j \in kms[p] : j.realm = r /\ j.state \in {"Active", "PreviousActive"}}}
get_stored(p, kid) == {k \in kms[p] : k.kid = kid}
register(p, k) == kms' = [kms EXCEPT ![p] = {j \in @ : j.kid # k.kid} \cup {k}]
seed_realm_keys(p, r) ==
    IF Active(p, r) # {}
    THEN UNCHANGED kms
    ELSE register(p, [kid |-> <<p, proc[p].boots, r>>, realm |-> r, state |-> "Active"])

\* Mutant: the signature is checked and the issuer is not.
verify_access_token_AnyIssuer(p, r, t) == get_stored(p, t.kid) # {}

(***************************************************************************)
(* verify_access_token: the key is looked up by kid in this process, then   *)
(* the issuer has to be the realm of the request.                           *)
(***************************************************************************)
verify_access_token(p, r, t) == get_stored(p, t.kid) # {} /\ t.realm = r
userinfo(p, r, t) == "realm" \in rows[r] /\ verify_access_token(p, r, t)
introspect(p, r, t) == "realm" \in rows[r] /\ verify_access_token(p, r, t)
get_refresh_token(p, r, tok) ==
    {q \in refresh : q.hash = token_hash(refresh_hash_key(p, r), tok)}
authenticate_client(p, r, plain) ==
    \E c \in secrets : c.realm = r
        /\ c.hash = token_hash(derive_realm_key(subkey[p].client, r, "client-secret"), plain)

----------------------------------------------------------------------------
(***************************************************************************)
(* Start-up                                                                *)
(***************************************************************************)
Boot(p) ==
    /\ At(p, "down") /\ proc[p].boots < MaxBoots[p]
    /\ proc' = [proc EXCEPT ![p] = [pc |-> IF p \in MigrateOnBoot THEN "lock" ELSE "compat",
                                    todo |-> {}, boots |-> @.boots + 1]]
    /\ UNCHANGED <<db, subkey, kms, creating, access, seen, torn, fresh>>

\* What bootstrap::run writes, in this order.
Parts == <<"realm", "flows", "end_user", "admin_user", "client">>

\* What a start-up error and a crash leave: the session's lock is released,
\* the memory is gone, and a realm being provisioned stays as it is.
Cut(p) ==
    (IF At(p, "provision") /\ proc[p].todo \notin {{}, 1..Len(Parts)} THEN {Master} ELSE {})
        \cup (IF creating[p] = None THEN {} ELSE {creating[p].realm})

Exit(p) ==
    /\ proc' = [proc EXCEPT ![p].pc = "down", ![p].todo = {}]
    /\ lock' = IF lock = p THEN None ELSE lock
    /\ subkey' = [subkey EXCEPT ![p] = None]
    /\ kms' = [kms EXCEPT ![p] = {}]
    /\ creating' = [creating EXCEPT ![p] = None]
    /\ seen' = [seen EXCEPT ![p] = {}]
    /\ torn' = torn \cup {r \in Cut(p) : "realm" \in rows[r]}
    /\ UNCHANGED <<applied, rows, refresh, secrets, access, fresh>>

\* Mutant: the answer of pg_try_advisory_lock is ignored.
TryLock_Ignored(p) ==
    /\ At(p, "lock")
    /\ lock' = p
    /\ Goto(p, "migrate", Known[p] \ Range(applied))
    /\ UNCHANGED <<applied, rows, refresh, secrets, subkey, kms, creating, access, seen, torn, fresh>>

\* run_with_leader_lock: pg_try_advisory_lock, polled until the deadline.
TryLock(p) ==
    /\ At(p, "lock") /\ lock = None
    /\ lock' = p
    /\ Goto(p, "migrate", Known[p] \ Range(applied))
    /\ UNCHANGED <<applied, rows, refresh, secrets, subkey, kms, creating, access, seen, torn, fresh>>

LockTimeout(p) == At(p, "lock") /\ lock # None /\ Exit(p)

\* MIGRATIONS.run on the same session: it refuses a database with a migration
\* the binary does not know, then applies what is missing in version order.
Migrate(p) ==
    /\ At(p, "migrate") /\ Range(applied) \subseteq Known[p]
    /\ \E v \in proc[p].todo :
        /\ \A w \in proc[p].todo : v <= w
        /\ applied' = Append(applied, v)
        /\ Goto(p, "migrate", proc[p].todo \ {v})
    /\ UNCHANGED <<lock, rows, refresh, secrets, subkey, kms, creating, access, seen, torn, fresh>>

\* Mutant: a migration the binary does not know is not an error.
MigrateFails_KnownOnly(p) ==
    /\ At(p, "migrate")
    /\ proc[p].todo # {} /\ Range(applied) \subseteq Known[p]
    /\ Exit(p)

MigrateFails(p) ==
    /\ At(p, "migrate")
    /\ proc[p].todo # {} \/ ~(Range(applied) \subseteq Known[p])
    /\ Exit(p)

Unlock(p) ==
    /\ At(p, "migrate") /\ proc[p].todo = {} /\ Range(applied) \subseteq Known[p]
    /\ lock' = None
    /\ Goto(p, "compat", {})
    /\ UNCHANGED <<applied, rows, refresh, secrets, subkey, kms, creating, access, seen, torn, fresh>>

\* enforce_schema_compat: max(version) of an empty or absent table is an
\* error; every version the project has shipped is inside V0_1_COMPAT.  The
\* hash keys are derived next.
SchemaCompatible == applied # <<>>

enforce_schema_compat(p) ==
    /\ At(p, "compat")
    /\ IF ~SchemaCompatible
       THEN Exit(p)
       ELSE /\ subkey' = [subkey EXCEPT ![p] =
                 [refresh |-> derive_subkey("geonosis-refresh-hash-v1", <<p, proc[p].boots>>),
                  client |-> derive_subkey("geonosis-client-secret-hash-v1", <<p, proc[p].boots>>)]]
            /\ Goto(p, IF p \in Quickstart THEN "quickstart" ELSE "list", {})
            /\ UNCHANGED <<db, kms, creating, access, seen, torn, fresh>>

----------------------------------------------------------------------------
(***************************************************************************)
(* bootstrap::run: a realm that is there ends it; otherwise the realm row,  *)
(* the flows, the two users and the client are written one by one.          *)
(***************************************************************************)
bootstrap_run(p) ==
    /\ At(p, "quickstart")
    /\ IF "realm" \in rows[Master]
       THEN Goto(p, "list", {})
       ELSE Goto(p, "provision", 1..Len(Parts))
    /\ UNCHANGED <<db, subkey, kms, creating, access, seen, torn, fresh>>

\* create_realm answers Conflict when another pod was first, which main
\* returns as its own error.
Provision(p) ==
    /\ At(p, "provision") /\ proc[p].todo # {}
    /\ \E i \in proc[p].todo :
        /\ \A j \in proc[p].todo : i <= j
        /\ IF Parts[i] = "realm" /\ "realm" \in rows[Master]
           THEN Exit(p)
           ELSE /\ rows' = [rows EXCEPT ![Master] = @ \cup {Parts[i]}]
                /\ Goto(p, "provision", proc[p].todo \ {i})
                /\ UNCHANGED <<applied, lock, refresh, secrets, subkey, kms, creating, access,
                               seen, torn, fresh>>

Provisioned(p) ==
    /\ At(p, "provision") /\ proc[p].todo = {}
    /\ Goto(p, "list", {})
    /\ UNCHANGED <<db, subkey, kms, creating, access, seen, torn, fresh>>

\* main's seeding loop; when list_realms fails it is skipped with a warning.
ListRealms(p) ==
    /\ At(p, "list")
    /\ \E found \in {{r \in Realm : "realm" \in rows[r]}, {}} :
        /\ Goto(p, "seed", found)
        /\ seen' = [seen EXCEPT ![p] = found]
    /\ UNCHANGED <<db, subkey, kms, creating, access, torn, fresh>>

Seed(p) ==
    /\ At(p, "seed")
    /\ \E r \in proc[p].todo : seed_realm_keys(p, r) /\ Goto(p, "seed", proc[p].todo \ {r})
    /\ UNCHANGED <<db, subkey, creating, access, seen, torn, fresh>>

\* Key generation or wrapping fails: main logs it and goes on without the key.
SeedFails(p) ==
    /\ At(p, "seed")
    /\ \E r \in proc[p].todo :
        /\ Active(p, r) = {}
        /\ Goto(p, "seed", proc[p].todo \ {r})
        /\ seen' = [seen EXCEPT ![p] = @ \ {r}]
    /\ UNCHANGED <<db, subkey, kms, creating, access, torn, fresh>>

Serve(p) ==
    /\ At(p, "seed") /\ proc[p].todo = {}
    /\ Goto(p, "serving", {})
    /\ UNCHANGED <<db, subkey, kms, creating, access, seen, torn, fresh>>

Crash(p) == ~At(p, "down") /\ Exit(p)

----------------------------------------------------------------------------
(***************************************************************************)
(* Requests                                                                *)
(***************************************************************************)
\* handlers_v1::realms::create: the row, the flows, then the keys of the pod
\* that serves the request.
CreateRealm(p, r) ==
    /\ Serving(p) /\ creating[p] = None /\ rows[r] = {}
    /\ rows' = [rows EXCEPT ![r] = {"realm"}]
    /\ creating' = [creating EXCEPT ![p] = [realm |-> r, next |-> "flows"]]
    /\ UNCHANGED <<applied, lock, refresh, secrets, proc, subkey, kms, access, seen, torn, fresh>>

CreateRealmFlows(p) ==
    /\ creating[p] # None /\ creating[p].next = "flows" /\ "realm" \in rows[creating[p].realm]
    /\ rows' = [rows EXCEPT ![creating[p].realm] = @ \cup {"flows"}]
    /\ creating' = [creating EXCEPT ![p].next = "keys"]
    /\ UNCHANGED <<applied, lock, refresh, secrets, proc, subkey, kms, access, seen, torn, fresh>>

CreateRealmKeys(p) ==
    /\ creating[p] # None /\ creating[p].next = "keys"
    /\ seed_realm_keys(p, creating[p].realm)
    /\ seen' = [seen EXCEPT ![p] = @ \cup {creating[p].realm}]
    /\ creating' = [creating EXCEPT ![p] = None]
    /\ UNCHANGED <<db, proc, subkey, access, torn, fresh>>

\* The request is answered with an error, and the realm and its flows stay.
CreateRealmKeysFails(p) ==
    /\ creating[p] # None /\ creating[p].next = "keys" /\ Active(p, creating[p].realm) = {}
    /\ creating' = [creating EXCEPT ![p] = None]
    /\ UNCHANGED <<db, proc, subkey, kms, access, seen, torn, fresh>>

\* The caller of the creation request goes away: its handler is dropped.
CreateRealmDropped(p) ==
    /\ creating[p] # None
    /\ creating' = [creating EXCEPT ![p] = None]
    /\ torn' = torn \cup {creating[p].realm}
    /\ UNCHANGED <<db, proc, subkey, kms, access, seen, fresh>>

\* handlers_v1::realms::delete_ refuses the master realm; the rows that refer
\* to the realm go with it, the keys in the pods' memory stay.
DeleteRealm(p, r) ==
    /\ Serving(p) /\ r # Master /\ "realm" \in rows[r]
    /\ rows' = [rows EXCEPT ![r] = {"deleted"}]
    /\ refresh' = {q \in refresh : q.realm # r}
    /\ secrets' = {c \in secrets : c.realm # r}
    /\ UNCHANGED <<applied, lock, proc, subkey, kms, creating, access, seen, torn, fresh>>

\* Token endpoint: mint_access_token with the active key of this process and
\* a refresh row under this process's hash key.
Mint(p, r) ==
    /\ Serving(p) /\ "realm" \in rows[r] /\ fresh < MaxFresh
    /\ \E k \in Active(p, r) :
        access' = access \cup {[kid |-> k.kid, realm |-> r]}
    /\ refresh' = refresh \cup {[tok |-> fresh, realm |-> r,
                                 hash |-> token_hash(refresh_hash_key(p, r), fresh)]}
    /\ fresh' = fresh + 1
    /\ UNCHANGED <<applied, lock, rows, secrets, proc, subkey, kms, creating, seen, torn>>

\* revoke: the family of the row that this process's hash finds goes; the
\* answer is 200 either way.
Revoke(p, q) ==
    /\ Serving(p) /\ q \in refresh
    /\ refresh' = refresh \ get_refresh_token(p, q.realm, q.tok)
    /\ UNCHANGED <<applied, lock, rows, secrets, proc, subkey, kms, creating, access, seen, torn, fresh>>

\* handlers_v1::clients::create for a confidential client: the hash is taken
\* with the key of the deployment.
CreateClient(p, r) ==
    /\ Serving(p) /\ "realm" \in rows[r] /\ fresh < MaxFresh
    /\ secrets' = secrets \cup {[realm |-> r, plain |-> fresh, by |-> <<p, proc[p].boots>>,
                                 hash |-> token_hash(subkey[p].client, fresh)]}
    /\ fresh' = fresh + 1
    /\ UNCHANGED <<applied, lock, rows, refresh, proc, subkey, kms, creating, access, seen, torn>>

----------------------------------------------------------------------------
Init ==
    /\ applied = <<>> /\ lock = None
    /\ rows = [r \in Realm |-> {}]
    /\ refresh = {} /\ secrets = {} /\ access = {} /\ torn = {}
    /\ proc = [p \in Pod |-> [pc |-> "down", todo |-> {}, boots |-> 0]]
    /\ subkey = [p \in Pod |-> None]
    /\ kms = [p \in Pod |-> {}]
    /\ creating = [p \in Pod |-> None]
    /\ seen = [p \in Pod |-> {}]
    /\ fresh = 1

StartUp(p) ==
    \/ TryLock(p) \/ LockTimeout(p) \/ Migrate(p) \/ MigrateFails(p) \/ Unlock(p)
    \/ enforce_schema_compat(p) \/ bootstrap_run(p) \/ Provision(p) \/ Provisioned(p)
    \/ ListRealms(p) \/ Seed(p) \/ SeedFails(p) \/ Serve(p)

Request(p) ==
    \/ CreateRealmFlows(p) \/ CreateRealmKeys(p) \/ CreateRealmKeysFails(p) \/ CreateRealmDropped(p)
    \/ \E r \in Realm : CreateRealm(p, r) \/ DeleteRealm(p, r) \/ Mint(p, r) \/ CreateClient(p, r)
    \/ \E q \in refresh : Revoke(p, q)

Next == \E p \in Pod : Boot(p) \/ StartUp(p) \/ Request(p) \/ Crash(p)

\* The start-up future is polled until it returns.
Fairness == \A p \in Pod : WF_vars(StartUp(p))

Spec == Init /\ [][Next]_vars
FairSpec == Spec /\ Fairness
----------------------------------------------------------------------------

TypeOK ==
    /\ applied \in Seq(Nat) /\ lock \in Pod \cup {None}
    /\ rows \in [Realm -> SUBSET (Range(Parts) \cup {"deleted"})]
    /\ \A p \in Pod : proc[p].pc \in {"down", "lock", "migrate", "compat", "quickstart",
                                      "provision", "list", "seed", "serving"}
    /\ \A p \in Pod : \A k \in kms[p] : k.realm \in Realm

\* "Multiple pods can call this on boot - exactly one will execute pending
\* migrations" (run_with_leader_lock): over any number of pods, binaries that
\* know different migrations, failures and crashes, every migration is applied
\* once and in version order.
MigratedInOrder == \A i \in DOMAIN applied : applied[i] = i

\* main seeds the keys of every realm it lists before it listens, and the request
\* that creates a realm seeds them on its pod: a serving pod holds exactly one
\* active key for each of these realms, but for those whose seeding failed, without
\* which it serves.
OneActiveKey ==
    \A p \in Pod : Serving(p) => \A r \in seen[p] : \E k \in kms[p] : Active(p, r) = {k}

\* A token that a running process has minted stays valid on it, for its own
\* realm while it exists and for no other, and its key stays on its JWKS, whatever realms are
\* seeded after it: the keys are looked up by kid across realms, so that only
\* the issuer separates them (mint_access_token, load_public, jwks).
IssuedVerifies ==
    \A t \in access, p \in Pod : ~At(p, "down") /\ t.kid = <<p, proc[p].boots, t.realm>> =>
        /\ t.kid \in jwks(p, t.realm)
        /\ \A r \in Realm :
            /\ introspect(p, r, t) <=> r = t.realm /\ "realm" \in rows[r]
            /\ userinfo(p, r, t) <=> introspect(p, r, t)

\* bootstrap::run is "idempotent" and a creation request seeds its realm: a
\* realm in the database is whole, or one process is still provisioning it,
\* or a crash or a dropped request cut its provisioning short - and only that;
\* and a bootstrap that ends has written all of the master realm.
Whole(r) == rows[r] = {"realm", "flows"} \/ (r = Master /\ rows[r] = Range(Parts))
Provisioning(r) ==
    {p \in Pod : \/ r = Master /\ At(p, "provision") /\ proc[p].todo \notin {{}, 1..Len(Parts)}
                 \/ creating[p] # None /\ creating[p].realm = r /\ creating[p].next = "flows"}
ProvisionedOnce ==
    /\ \A r \in Realm : "realm" \in rows[r] =>
        /\ \A p, q \in Provisioning(r) : p = q
        /\ Whole(r) \/ Provisioning(r) # {} \/ r \in torn
    /\ \A p \in Pod : At(p, "provision") /\ proc[p].todo = {} => rows[Master] = Range(Parts)

\* What pods that start together leave in the database.
StartsOnce == MigratedInOrder /\ ProvisionedOnce

\* What a serving pod signs with, and what it accepts.
KeysServe == OneActiveKey /\ IssuedVerifies

\* A start-up that is not cut short ends: the pod serves or has exited, also
\* when another pod holds the migration lock or has migrated past its binary.
StartUpEnds == \A p \in Pod : ~At(p, "down") ~> At(p, "down") \/ Serving(p)

\* "a deterministic 32-byte domain-separated subkey" (derive_subkey): a refresh
\* token is found by every serving pod, after a restart too.
RefreshHonoured ==
    \A q \in refresh, p \in Pod : Serving(p) => get_refresh_token(p, q.realm, q.tok) # {}

\* "The plaintext is returned once" (clients::create): the secret that was
\* returned authenticates the client on the pod that made it.
SecretAuthenticates ==
    \A c \in secrets, p \in Pod :
        Serving(p) /\ c.by = <<p, proc[p].boots>> => authenticate_client(p, c.realm, c.plain)
=============================================================================
