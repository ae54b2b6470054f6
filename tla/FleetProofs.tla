---------------------------- MODULE FleetProofs ----------------------------
(***************************************************************************)
(* Proofs about Fleet, for any number of pods, realms, migrations and      *)
(* starts.                                                                 *)
(***************************************************************************)
EXTENDS Fleet, TLAPS

PC == {"down", "lock", "migrate", "compat", "quickstart", "provision", "list", "seed", "serving"}
Creation == [realm : Realm, next : {"flows", "keys"}]
Key(p, b, r) == [kid |-> <<p, b, r>>, realm |-> r, state |-> "Active"]
SigningKey == {Key(p, b, r) : p \in Pod, b \in Nat, r \in Realm}

\* What a pod has left to do in each step of its start-up: migrations, parts of the
\* master realm, realms.
Todo(pc) ==
    IF pc = "migrate" THEN Nat ELSE IF pc = "provision" THEN 1..5
    ELSE IF pc = "seed" THEN Realm ELSE {}
Procs == [Pod -> {x \in [pc : PC, todo : SUBSET (Nat \cup Realm), boots : Nat] : x.todo \subseteq Todo(x.pc)}]

\* The shape of the variables the invariants below speak of.
Shape ==
    /\ applied \in Seq(Nat) /\ lock \in Pod \cup {None}
    /\ rows \in [Realm -> SUBSET (Range(Parts) \cup {"deleted"})]
    /\ proc \in Procs
    /\ creating \in [Pod -> Creation \cup {None}]
    /\ kms \in [Pod -> SUBSET SigningKey]
    /\ seen \in [Pod -> SUBSET Realm]
    /\ torn \subseteq Realm

\* The names of the parts of a realm.
LEMMA PartNames ==
    /\ Len(Parts) = 5
    /\ Parts[1] = "realm" /\ Parts[2] = "flows" /\ Parts[3] = "end_user"
    /\ Parts[4] = "admin_user" /\ Parts[5] = "client"
    /\ Range(Parts) = {"realm", "flows", "end_user", "admin_user", "client"}
<1>1. DOMAIN Parts = 1..5
  BY DEF Parts
<1>2. /\ Len(Parts) = 5
      /\ Parts[1] = "realm" /\ Parts[2] = "flows" /\ Parts[3] = "end_user"
      /\ Parts[4] = "admin_user" /\ Parts[5] = "client"
  BY Zenon DEF Parts
<1>3. Range(Parts) = {Parts[1], Parts[2], Parts[3], Parts[4], Parts[5]}
  BY <1>1 DEF Range
<1> QED
  BY <1>2, <1>3, Zenon

\* What a pod has left to do fits the step it is at.
LEMMA TodoFits ==
    ASSUME Shape, NEW p \in Pod
    PROVE  /\ proc \in Procs /\ proc[p].pc \in PC /\ proc[p].boots \in Nat
           /\ proc[p].todo \subseteq Todo(proc[p].pc)
  BY Zenon DEF Shape, Procs

\* A step of a pod's start-up moves that pod alone.
LEMMA GotoMoves ==
    ASSUME proc \in Procs, NEW p \in Pod, NEW pc \in PC, NEW todo \in SUBSET Todo(pc),
           Goto(p, pc, todo)
    PROVE  /\ proc' \in Procs
           /\ proc'[p].pc = pc /\ proc'[p].todo = todo /\ proc'[p].boots = proc[p].boots
           /\ \A q \in Pod \ {p} : proc'[q] = proc[q]
<1>1. todo \subseteq Nat \cup Realm
  BY DEF Todo
<1> QED
  BY <1>1, Zenon DEF Goto, Procs

\* Seeding a realm's keys adds at most the key of this start of the pod.
LEMMA SeedMoves ==
    ASSUME kms \in [Pod -> SUBSET SigningKey], proc \in Procs, NEW p \in Pod, NEW r \in Realm,
           seed_realm_keys(p, r)
    PROVE  /\ kms' \in [Pod -> SUBSET SigningKey]
           /\ \A q \in Pod \ {p} : kms'[q] = kms[q]
<1>1. CASE Active(p, r) # {}
  BY <1>1, Zenon DEF seed_realm_keys
<1>2. CASE Active(p, r) = {}
  <2>1. kms' = [kms EXCEPT ![p] = {j \in @ : j.kid # <<p, proc[p].boots, r>>} \cup {Key(p, proc[p].boots, r)}]
    BY <1>2, Zenon DEF seed_realm_keys, register, Key
  <2>2. Key(p, proc[p].boots, r) \in SigningKey
    BY DEF SigningKey, Procs
  <2> QED
    BY <2>1, <2>2, Zenon
<1> QED
  BY <1>1, <1>2, Zenon

\* An exit of a pod, whatever the reason, keeps the shape and takes the pod down.
LEMMA ExitMoves ==
    ASSUME Shape, NEW p \in Pod, Exit(p)
    PROVE  /\ Shape'
           /\ proc'[p].pc = "down" /\ proc'[p].todo = {} /\ proc'[p].boots = proc[p].boots
           /\ \A q \in Pod \ {p} : proc'[q] = proc[q]
<1>1. Goto(p, "down", {})
  BY Zenon DEF Exit, Goto
<1>2. /\ proc' \in Procs
      /\ proc'[p].pc = "down" /\ proc'[p].todo = {} /\ proc'[p].boots = proc[p].boots
      /\ \A q \in Pod \ {p} : proc'[q] = proc[q]
  BY <1>1, GotoMoves DEF Shape, PC, Todo
<1>3. torn' \subseteq Realm
  BY FleetAssumption DEF Exit, Cut, Shape, Creation
<1>4. lock' \in Pod \cup {None}
  BY Zenon DEF Exit, Shape
<1>5. /\ kms' \in [Pod -> SUBSET SigningKey]
      /\ seen' \in [Pod -> SUBSET Realm]
      /\ creating' \in [Pod -> Creation \cup {None}]
  BY Zenon DEF Exit, Shape
<1> QED
  BY <1>2, <1>3, <1>4, <1>5, Zenon DEF Shape, Exit

\* Every step keeps the shape.
LEMMA NextShape == Shape /\ [Next]_vars => Shape'
<1> SUFFICES ASSUME Shape, [Next]_vars PROVE Shape'
  BY Zenon
<1>0. CASE UNCHANGED vars
  BY <1>0, Zenon DEF Shape, vars
<1>1. ASSUME NEW p \in Pod, Boot(p) PROVE Shape'
  <2>1. proc' \in Procs
    BY <1>1 DEF Shape, Boot, Procs, PC, Todo, At, Todo
  <2> QED
    BY <1>1, <2>1, Zenon DEF Shape, Boot, db
<1>2. ASSUME NEW p \in Pod, StartUp(p) PROVE Shape'
  <2>1. CASE TryLock(p)
    <3>1. Known[p] \ Range(applied) \subseteq Nat
      BY FleetAssumption, Zenon
    <3>2. proc' \in Procs
      BY <2>1, <3>1, GotoMoves, TodoFits, Zenon DEF TryLock, PC, Todo
    <3> QED
      BY <2>1, <3>2, Zenon DEF Shape, TryLock
  <2>2. CASE LockTimeout(p)
    BY <2>2, ExitMoves, Zenon DEF LockTimeout
  <2>3. CASE Migrate(p)
    <3>1. PICK v \in proc[p].todo : applied' = Append(applied, v) /\ Goto(p, "migrate", proc[p].todo \ {v})
      BY <2>3, Zenon DEF Migrate
    <3>2. proc' \in Procs
      <4>1. proc[p].todo \ {v} \subseteq Todo("migrate")
        BY <2>3, TodoFits, Zenon DEF Migrate, At
      <4> QED
        BY <3>1, <4>1, GotoMoves, TodoFits, Zenon DEF PC
    <3> QED
      <4>1. v \in Nat
        BY <2>3, TodoFits, Zenon DEF Migrate, At, Todo
      <4> QED
        BY <2>3, <3>1, <3>2, <4>1 DEF Shape, Migrate
  <2>4. CASE MigrateFails(p)
    BY <2>4, ExitMoves, Zenon DEF MigrateFails
  <2>5. CASE Unlock(p)
    <3>1. proc' \in Procs
      BY <2>5, GotoMoves, TodoFits, Zenon DEF Unlock, PC, Todo
    <3> QED
      BY <2>5, <3>1, Zenon DEF Shape, Unlock, db
  <2>6. CASE enforce_schema_compat(p)
    <3>1. CASE SchemaCompatible
      <4>1. Goto(p, "quickstart", {}) \/ Goto(p, "list", {})
        BY <2>6, <3>1, Zenon DEF enforce_schema_compat
      <4>2. proc' \in Procs
        BY <4>1, GotoMoves, TodoFits DEF PC, Todo
      <4> QED
        BY <2>6, <3>1, <4>2, Zenon DEF Shape, enforce_schema_compat, db
    <3> QED
      BY <2>6, <3>1, ExitMoves, Zenon DEF enforce_schema_compat
  <2>7. CASE bootstrap_run(p)
    <3>1. proc' \in Procs
      <4>1. Goto(p, "list", {}) \/ Goto(p, "provision", 1..5)
        BY <2>7, PartNames, Zenon DEF bootstrap_run
      <4> QED
        BY <4>1, GotoMoves, TodoFits DEF PC, Todo
    <3> QED
      BY <2>7, <3>1, Zenon DEF Shape, bootstrap_run, db
  <2>8. CASE Provision(p)
    <3>1. PICK i \in proc[p].todo :
               \/ Exit(p)
               \/ /\ rows' = [rows EXCEPT ![Master] = @ \cup {Parts[i]}]
                  /\ Goto(p, "provision", proc[p].todo \ {i})
                  /\ UNCHANGED <<applied, lock, refresh, secrets, subkey, kms, creating, access,
                                 seen, torn, fresh>>
      BY <2>8, Zenon DEF Provision
    <3>2. CASE ~Exit(p)
      <4>1. proc' \in Procs
        <5>1. proc[p].todo \ {i} \subseteq Todo("provision")
          BY <2>8, TodoFits, Zenon DEF Provision, At
        <5> QED
          BY <3>1, <3>2, <5>1, GotoMoves, TodoFits, Zenon DEF PC
      <4>2. Parts[i] \in Range(Parts)
        <5>1. i \in 1..5
          BY <2>8, TodoFits, Zenon DEF Provision, At, Todo
        <5>2. i = 1 \/ i = 2 \/ i = 3 \/ i = 4 \/ i = 5
          BY <5>1
        <5> QED
          BY <5>2, PartNames, Zenon
      <4> QED
        BY <3>1, <3>2, <4>1, <4>2 DEF Shape
    <3> QED
      BY <3>1, <3>2, ExitMoves, Zenon
  <2>9. CASE Provisioned(p)
    <3>1. proc' \in Procs
      BY <2>9, GotoMoves, TodoFits, Zenon DEF Provisioned, PC, Todo
    <3> QED
      BY <2>9, <3>1, Zenon DEF Shape, Provisioned, db
  <2>10. CASE ListRealms(p)
    <3>1. proc' \in Procs
      BY <2>10, GotoMoves, TodoFits, Zenon DEF ListRealms, PC, Todo
    <3> QED
      BY <2>10, <3>1 DEF Shape, ListRealms, db
  <2>11. CASE Seed(p)
    <3>1. PICK r \in proc[p].todo : seed_realm_keys(p, r) /\ Goto(p, "seed", proc[p].todo \ {r})
      BY <2>11, Zenon DEF Seed
    <3>2. proc' \in Procs
      <4>1. proc[p].todo \ {r} \subseteq Todo("seed")
        BY <2>11, TodoFits, Zenon DEF Seed, At
      <4> QED
        BY <3>1, <4>1, GotoMoves, TodoFits, Zenon DEF PC
    <3>3. kms' \in [Pod -> SUBSET SigningKey]
      <4>1. r \in Realm
        BY <2>11, TodoFits, Zenon DEF Seed, At, Todo
      <4> QED
        BY <3>1, <4>1, SeedMoves, Zenon DEF Shape
    <3> QED
      BY <2>11, <3>2, <3>3, Zenon DEF Shape, Seed, db
  <2>13. CASE SeedFails(p)
    <3>1. PICK r \in proc[p].todo : Goto(p, "seed", proc[p].todo \ {r}) /\ seen' = [seen EXCEPT ![p] = @ \ {r}]
      BY <2>13, Zenon DEF SeedFails
    <3>2. proc' \in Procs
      <4>1. proc[p].todo \ {r} \subseteq Todo("seed")
        BY <2>13, TodoFits, Zenon DEF SeedFails, At
      <4> QED
        BY <3>1, <4>1, GotoMoves, TodoFits, Zenon DEF PC
    <3> QED
      BY <2>13, <3>1, <3>2, Zenon DEF Shape, SeedFails, db
  <2>12. CASE Serve(p)
    <3>1. proc' \in Procs
      BY <2>12, GotoMoves, TodoFits, Zenon DEF Serve, PC, Todo
    <3> QED
      BY <2>12, <3>1, Zenon DEF Shape, Serve, db
  <2> QED
    BY <1>2, <2>1, <2>2, <2>3, <2>4, <2>5, <2>6, <2>7, <2>8, <2>9, <2>10, <2>11, <2>12, <2>13, Zenon DEF StartUp
<1>3. ASSUME NEW p \in Pod, Request(p) PROVE Shape'
  <2>1. CASE CreateRealmFlows(p)
    BY <2>1, PartNames, FleetAssumption, Zenon DEF Shape, CreateRealmFlows, Creation
  <2>2. CASE CreateRealmKeys(p)
    <3>1. creating[p].realm \in Realm
      BY <2>2, Zenon DEF Shape, CreateRealmKeys, Creation
    <3>2. kms' \in [Pod -> SUBSET SigningKey]
      BY <2>2, <3>1, SeedMoves, Zenon DEF Shape, CreateRealmKeys
    <3> QED
      BY <2>2, <3>1, <3>2, Zenon DEF Shape, CreateRealmKeys, db
  <2>9. CASE CreateRealmKeysFails(p)
    BY <2>9, FleetAssumption, Zenon DEF Shape, CreateRealmKeysFails, Creation, db
  <2>3. CASE CreateRealmDropped(p)
    BY <2>3, FleetAssumption, Zenon DEF Shape, CreateRealmDropped, Creation, db
  <2>4. ASSUME NEW r \in Realm, CreateRealm(p, r) PROVE Shape'
    BY <2>4, PartNames, Zenon DEF Shape, CreateRealm, Creation
  <2>5. ASSUME NEW r \in Realm, DeleteRealm(p, r) PROVE Shape'
    BY <2>5, Zenon DEF Shape, DeleteRealm
  <2>6. ASSUME NEW r \in Realm, Mint(p, r) PROVE Shape'
    BY <2>6, Zenon DEF Shape, Mint
  <2>7. ASSUME NEW r \in Realm, CreateClient(p, r) PROVE Shape'
    BY <2>7, Zenon DEF Shape, CreateClient
  <2>8. ASSUME NEW q \in refresh, Revoke(p, q) PROVE Shape'
    BY <2>8, Zenon DEF Shape, Revoke
  <2> QED
    BY <1>3, <2>1, <2>2, <2>3, <2>4, <2>5, <2>6, <2>7, <2>8, <2>9, Zenon DEF Request
<1>4. ASSUME NEW p \in Pod, Crash(p) PROVE Shape'
  BY <1>4, ExitMoves, Zenon DEF Crash
<1> QED
  BY <1>0, <1>1, <1>2, <1>3, <1>4, Zenon DEF Next

\* Init has the shape.
LEMMA InitShape == Init => Shape
  BY DEF Init, Shape, Procs, PC, Todo

-----------------------------------------------------------------------------
(* Migrations.                                                             *)

\* A pod that migrates holds the lock, so that what it has left to do is what it
\* knows and the database has not.
Migrating ==
    \A p \in Pod : At(p, "migrate") => lock = p /\ proc[p].todo = Known[p] \ Range(applied)

\* In version order without a gap, the versions applied are a prefix.
LEMMA AppliedPrefix ==
    ASSUME applied \in Seq(Nat), MigratedInOrder
    PROVE  Range(applied) = 1..Len(applied)
  BY DEF MigratedInOrder, Range

\* A step that touches neither the table nor the lock, and sends no pod to migrate.
LEMMA MigratingFrame ==
    ASSUME MigratedInOrder, Migrating, UNCHANGED <<applied, lock>>,
           \A q \in Pod : At(q, "migrate")' => At(q, "migrate") /\ proc'[q].todo = proc[q].todo
    PROVE  MigratedInOrder' /\ Migrating'
  BY Zenon DEF MigratedInOrder, Migrating, At

\* A pod that exits releases the lock if it holds it.
LEMMA MigratingExit ==
    ASSUME Shape, MigratedInOrder, Migrating, NEW p \in Pod, Exit(p)
    PROVE  MigratedInOrder' /\ Migrating'
<1>1. ~At(p, "migrate")' /\ \A q \in Pod \ {p} : proc'[q] = proc[q]
  BY ExitMoves, Zenon DEF At
<1>2. applied' = applied /\ (lock' = lock \/ lock = p)
  BY Zenon DEF Exit
<1> QED
  BY <1>1, <1>2, Zenon DEF MigratedInOrder, Migrating, At

\* The lock holder applies the next version.
LEMMA MigratingMigrate ==
    ASSUME Shape, MigratedInOrder, Migrating, NEW p \in Pod, Migrate(p)
    PROVE  MigratedInOrder' /\ Migrating'
<1>1. PICK v \in proc[p].todo :
           /\ \A w \in proc[p].todo : v <= w
           /\ applied' = Append(applied, v)
           /\ Goto(p, "migrate", proc[p].todo \ {v})
  BY Zenon DEF Migrate
<1>2. Range(applied) = 1..Len(applied) /\ applied \in Seq(Nat) /\ Len(applied) \in Nat
  BY AppliedPrefix DEF Shape
<1>3. lock = p /\ proc[p].todo = Known[p] \ Range(applied)
  BY Zenon DEF Migrating, Migrate
<1>4. v \in Nat /\ v > Len(applied) /\ 1..v \subseteq Known[p]
  BY <1>2, <1>3, FleetAssumption
<1>5. Len(applied) + 1 \in proc[p].todo
  BY <1>2, <1>3, <1>4
<1>6. v = Len(applied) + 1
  BY <1>1, <1>2, <1>4, <1>5
<1>7. /\ applied' \in Seq(Nat) /\ Len(applied') = Len(applied) + 1
      /\ \A i \in 1..Len(applied) : applied'[i] = applied[i]
      /\ applied'[Len(applied) + 1] = v
  BY <1>1, <1>2, <1>4
<1>8. MigratedInOrder'
  <2>1. DOMAIN applied = 1..Len(applied) /\ DOMAIN applied' = 1..(Len(applied) + 1)
    BY <1>2, <1>7
  <2>2. \A i \in 1..Len(applied) : applied[i] = i
    BY <2>1, Zenon DEF MigratedInOrder
  <2>3. \A i \in 1..(Len(applied) + 1) : applied'[i] = i
    BY <1>2, <1>6, <1>7, <2>2
  <2> QED
    BY <2>1, <2>3, Zenon DEF MigratedInOrder
<1>9. Range(applied') = 1..Len(applied')
  BY <1>7, <1>8 DEF MigratedInOrder, Range
<1>10. Range(applied') = Range(applied) \cup {v}
  BY <1>2, <1>6, <1>7, <1>9
<1>11. proc[p].todo \ {v} \subseteq Todo("migrate")
  BY TodoFits, Zenon DEF Migrate, At
<1>12. proc'[p].todo = proc[p].todo \ {v} /\ \A q \in Pod \ {p} : proc'[q] = proc[q]
  BY <1>1, <1>11, GotoMoves, TodoFits DEF PC
<1>13. \A q \in Pod \ {p} : ~At(q, "migrate")
  BY <1>3, Zenon DEF Migrating
<1>14. lock' = lock
  BY Zenon DEF Migrate
<1>15. Migrating'
  BY <1>3, <1>10, <1>12, <1>13, <1>14, Zenon DEF Migrating, At
<1> QED
  BY <1>8, <1>15, Zenon

\* Every step keeps the order of the migrations.
LEMMA NextMigrating == Shape /\ MigratedInOrder /\ Migrating /\ [Next]_vars => MigratedInOrder' /\ Migrating'
<1> SUFFICES ASSUME Shape, MigratedInOrder, Migrating, [Next]_vars PROVE MigratedInOrder' /\ Migrating'
  BY Zenon
<1>0. CASE UNCHANGED vars
  BY <1>0, MigratingFrame, Zenon DEF vars, At
<1>1. ASSUME NEW p \in Pod, Boot(p) PROVE MigratedInOrder' /\ Migrating'
  <2>1. /\ proc'[p].pc # "migrate" /\ \A q \in Pod \ {p} : proc'[q] = proc[q]
    BY <1>1, TodoFits, Zenon DEF Boot, Procs
  <2> QED
    BY <1>1, <2>1, MigratingFrame, Zenon DEF Boot, db, At
<1>2. ASSUME NEW p \in Pod, StartUp(p) PROVE MigratedInOrder' /\ Migrating'
  <2>0. ASSUME NEW pc \in PC, NEW todo \in SUBSET Todo(pc), Goto(p, pc, todo), pc # "migrate",
               UNCHANGED <<applied, lock>>
        PROVE  MigratedInOrder' /\ Migrating'
    <3>1. proc'[p].pc # "migrate" /\ \A q \in Pod \ {p} : proc'[q] = proc[q]
      BY <2>0, GotoMoves, TodoFits, Zenon
    <3> QED
      BY <2>0, <3>1, MigratingFrame, Zenon DEF At
  <2>1. CASE TryLock(p)
    <3>1. Known[p] \ Range(applied) \subseteq Todo("migrate")
      BY FleetAssumption, Zenon DEF Todo
    <3>2. proc'[p].todo = Known[p] \ Range(applied) /\ \A q \in Pod \ {p} : proc'[q] = proc[q]
      BY <2>1, <3>1, GotoMoves, TodoFits, Zenon DEF TryLock, PC
    <3>3. \A q \in Pod : ~At(q, "migrate")
      BY <2>1, FleetAssumption, Zenon DEF TryLock, Migrating
    <3>4. applied' = applied /\ lock' = p
      BY <2>1, Zenon DEF TryLock
    <3> QED
      BY <3>2, <3>3, <3>4, Zenon DEF MigratedInOrder, Migrating, At
  <2>2. CASE LockTimeout(p)
    BY <2>2, MigratingExit, Zenon DEF LockTimeout
  <2>3. CASE Migrate(p)
    BY <2>3, MigratingMigrate, Zenon
  <2>4. CASE MigrateFails(p)
    BY <2>4, MigratingExit, Zenon DEF MigrateFails
  <2>5. CASE Unlock(p)
    <3>1. ~At(p, "migrate")' /\ \A q \in Pod \ {p} : proc'[q] = proc[q]
      BY <2>5, GotoMoves, TodoFits DEF Unlock, PC, Todo, At
    <3>2. lock = p /\ applied' = applied
      BY <2>5, Zenon DEF Unlock, Migrating
    <3> QED
      BY <3>1, <3>2, Zenon DEF MigratedInOrder, Migrating, At
  <2>6. CASE enforce_schema_compat(p)
    <3>1. CASE SchemaCompatible
      <4>1. (Goto(p, "quickstart", {}) \/ Goto(p, "list", {})) /\ UNCHANGED <<applied, lock>>
        BY <2>6, <3>1, Zenon DEF enforce_schema_compat, db
      <4> QED
        BY <2>0, <4>1, Zenon DEF PC
    <3> QED
      BY <2>6, <3>1, MigratingExit, Zenon DEF enforce_schema_compat
  <2>7. CASE bootstrap_run(p)
    <3>1. (Goto(p, "list", {}) \/ Goto(p, "provision", 1..5)) /\ UNCHANGED <<applied, lock>>
      BY <2>7, PartNames, Zenon DEF bootstrap_run, db
    <3> QED
      BY <2>0, <3>1 DEF PC, Todo
  <2>8. CASE Provision(p)
    <3>1. PICK i \in proc[p].todo :
               Exit(p) \/ (Goto(p, "provision", proc[p].todo \ {i}) /\ UNCHANGED <<applied, lock>>)
      BY <2>8, Zenon DEF Provision
    <3>2. proc[p].todo \ {i} \subseteq Todo("provision")
      BY <2>8, TodoFits, Zenon DEF Provision, At
    <3> QED
      BY <2>0, <3>1, <3>2, MigratingExit, Zenon DEF PC
  <2>9. CASE Provisioned(p)
    BY <2>0, <2>9, Zenon DEF Provisioned, db, PC
  <2>10. CASE ListRealms(p)
    <3>1. PICK found \in SUBSET Realm : Goto(p, "seed", found)
      BY <2>10, Zenon DEF ListRealms
    <3> QED
      BY <2>0, <2>10, <3>1, Zenon DEF ListRealms, db, PC, Todo
  <2>11. CASE Seed(p)
    <3>1. PICK r \in proc[p].todo : Goto(p, "seed", proc[p].todo \ {r})
      BY <2>11, Zenon DEF Seed
    <3>2. proc[p].todo \ {r} \subseteq Todo("seed")
      BY <2>11, TodoFits, Zenon DEF Seed, At
    <3> QED
      BY <2>0, <2>11, <3>1, <3>2, Zenon DEF Seed, db, PC
  <2>13. CASE SeedFails(p)
    <3>1. PICK r \in proc[p].todo : Goto(p, "seed", proc[p].todo \ {r})
      BY <2>13, Zenon DEF SeedFails
    <3>2. proc[p].todo \ {r} \subseteq Todo("seed")
      BY <2>13, TodoFits, Zenon DEF SeedFails, At
    <3> QED
      BY <2>0, <2>13, <3>1, <3>2, Zenon DEF SeedFails, db, PC
  <2>12. CASE Serve(p)
    BY <2>0, <2>12, Zenon DEF Serve, db, PC
  <2> QED
    BY <1>2, <2>1, <2>2, <2>3, <2>4, <2>5, <2>6, <2>7, <2>8, <2>9, <2>10, <2>11, <2>12, <2>13, Zenon DEF StartUp
<1>3. ASSUME NEW p \in Pod, Request(p) PROVE MigratedInOrder' /\ Migrating'
  <2>1. UNCHANGED <<applied, lock, proc>>
    BY <1>3, Zenon DEF Request, CreateRealmFlows, CreateRealmKeys, CreateRealmKeysFails,
        CreateRealmDropped, CreateRealm, DeleteRealm,
        Mint, CreateClient, Revoke, db
  <2> QED
    BY <2>1, MigratingFrame, Zenon DEF At
<1>4. ASSUME NEW p \in Pod, Crash(p) PROVE MigratedInOrder' /\ Migrating'
  BY <1>4, MigratingExit, Zenon DEF Crash
<1> QED
  BY <1>0, <1>1, <1>2, <1>3, <1>4, Zenon DEF Next

\* run_with_leader_lock: whatever pods start, fail and crash, and whatever versions
\* their binaries know, every migration is applied once and in version order.
THEOREM MigrationsCorrect == Spec => []MigratedInOrder
<1>1. Init => MigratedInOrder /\ Migrating
  BY DEF Init, MigratedInOrder, Migrating, At
<1> QED
  BY <1>1, InitShape, NextShape, NextMigrating, PTL DEF Spec

-----------------------------------------------------------------------------
(* Signing keys.                                                           *)

\* A pod holds keys of this start of its own only, none while it is down; it holds
\* the key of every realm it has listed or created, but for those it has still to
\* seed before it serves; and creation requests are served by serving pods.
PodKeys(p) ==
    /\ kms[p] \subseteq {Key(p, proc[p].boots, r) : r \in Realm}
    /\ At(p, "down") => kms[p] = {}
    /\ \A r \in seen[p] : Key(p, proc[p].boots, r) \in kms[p] \/ (At(p, "seed") /\ r \in proc[p].todo)
    /\ proc[p].pc \notin {"seed", "serving"} => seen[p] = {}
    /\ creating[p] # None => Serving(p)

\* A token is signed by a start of some pod, and a pod that is still in that start
\* holds the key.
Token(p, b, r) == [kid |-> <<p, b, r>>, realm |-> r]
TokenKeys ==
    \A t \in access : \E p \in Pod, b \in Nat, r \in Realm :
        /\ t = Token(p, b, r) /\ b <= proc[p].boots
        /\ b = proc[p].boots /\ ~At(p, "down") => Key(p, b, r) \in kms[p]
KeysHeld == TokenKeys /\ \A p \in Pod : PodKeys(p)

\* The two names of a key and a token tell their parts.
LEMMA KeyParts ==
    ASSUME NEW p, NEW b, NEW r, NEW q, NEW c, NEW z
    PROVE  /\ Key(p, b, r).kid = <<p, b, r>> /\ Key(p, b, r).realm = r /\ Key(p, b, r).state = "Active"
           /\ Token(p, b, r).kid = <<p, b, r>> /\ Token(p, b, r).realm = r
           /\ <<p, b, r>> = <<q, c, z>> => p = q /\ b = c /\ r = z
  BY Zenon DEF Key, Token

\* The keys serve what they are for.
LEMMA KeysHeldServe == Shape /\ KeysHeld => KeysServe
<1> SUFFICES ASSUME Shape, KeysHeld PROVE KeysServe
  BY Zenon
<1>1. OneActiveKey
  <2> SUFFICES ASSUME NEW p \in Pod, Serving(p), NEW r \in seen[p] PROVE \E k \in kms[p] : Active(p, r) = {k}
    BY Zenon DEF OneActiveKey
  <2>1. PodKeys(p)
    BY Zenon DEF KeysHeld
  <2>2. Key(p, proc[p].boots, r) \in kms[p]
    BY <2>1, Zenon DEF PodKeys, Serving, At
  <2>3. Active(p, r) = {Key(p, proc[p].boots, r)}
    <3>1. Key(p, proc[p].boots, r) \in Active(p, r)
      BY <2>2, KeyParts DEF Active
    <3>2. ASSUME NEW k \in Active(p, r) PROVE k = Key(p, proc[p].boots, r)
      <4>1. PICK z \in Realm : k = Key(p, proc[p].boots, z)
        BY <2>1, <3>2, Zenon DEF PodKeys, Active
      <4>2. k.realm = r
        BY <3>2, Zenon DEF Active
      <4> QED
        BY <4>1, <4>2, KeyParts
    <3> QED
      BY <3>1, <3>2, Zenon
  <2> QED
    BY <2>2, <2>3, Zenon
<1>2. IssuedVerifies
  <2> SUFFICES ASSUME NEW t \in access, NEW p \in Pod, ~At(p, "down"), t.kid = <<p, proc[p].boots, t.realm>>
               PROVE  /\ t.kid \in jwks(p, t.realm)
                      /\ \A r \in Realm :
                            /\ introspect(p, r, t) <=> r = t.realm /\ "realm" \in rows[r]
                            /\ userinfo(p, r, t) <=> introspect(p, r, t)
    BY Zenon DEF IssuedVerifies
  <2>1. PICK q \in Pod, b \in Nat, z \in Realm :
             /\ t = Token(q, b, z)
             /\ b = proc[q].boots /\ ~At(q, "down") => Key(q, b, z) \in kms[q]
    BY Zenon DEF KeysHeld, TokenKeys
  <2>2. q = p /\ b = proc[p].boots /\ z = t.realm
    BY <2>1, KeyParts
  <2>3. Key(p, proc[p].boots, t.realm) \in kms[p]
    BY <2>1, <2>2, Zenon
  <2>4. t.kid \in jwks(p, t.realm)
    BY <2>3, KeyParts DEF jwks
  <2>5. get_stored(p, t.kid) # {}
    BY <2>3, KeyParts DEF get_stored
  <2> QED
    BY <2>4, <2>5, Zenon DEF introspect, userinfo, verify_access_token
<1> QED
  BY <1>1, <1>2, Zenon DEF KeysServe

\* A pod that keeps its start, or goes down, or starts anew, keeps the tokens' keys.
LEMMA TokenKeysFrame ==
    ASSUME Shape, TokenKeys, access' = access,
           \A q \in Pod :
              \/ proc'[q].boots = proc[q].boots /\ (At(q, "down")' \/ (~At(q, "down") /\ kms[q] \subseteq kms'[q]))
              \/ proc'[q].boots = proc[q].boots + 1
    PROVE  TokenKeys'
<1> SUFFICES ASSUME NEW t \in access
             PROVE  \E p \in Pod, b \in Nat, r \in Realm :
                       /\ t = Token(p, b, r) /\ b <= proc'[p].boots
                       /\ b = proc'[p].boots /\ ~At(p, "down")' => Key(p, b, r) \in kms'[p]
  BY Zenon DEF TokenKeys
<1>1. PICK p \in Pod, b \in Nat, r \in Realm :
           /\ t = Token(p, b, r) /\ b <= proc[p].boots
           /\ b = proc[p].boots /\ ~At(p, "down") => Key(p, b, r) \in kms[p]
  BY Zenon DEF TokenKeys
<1>2. proc[p].boots \in Nat
  BY TodoFits, Zenon
<1>3. b <= proc'[p].boots
  BY <1>1, <1>2
<1>4. b = proc'[p].boots /\ ~At(p, "down")' => Key(p, b, r) \in kms'[p]
  BY <1>1, <1>2
<1> QED
  BY <1>1, <1>3, <1>4, Zenon

\* A pod that exits forgets its keys.
LEMMA KeysExit ==
    ASSUME Shape, KeysHeld, NEW p \in Pod, Exit(p)
    PROVE  KeysHeld'
<1>1. /\ proc'[p].pc = "down" /\ proc'[p].todo = {} /\ proc'[p].boots = proc[p].boots
      /\ \A q \in Pod \ {p} : proc'[q] = proc[q]
  BY ExitMoves, Zenon
<1>2. /\ kms'[p] = {} /\ seen'[p] = {} /\ creating'[p] = None /\ access' = access
      /\ \A q \in Pod \ {p} : kms'[q] = kms[q] /\ seen'[q] = seen[q] /\ creating'[q] = creating[q]
  BY Zenon DEF Exit, Shape
<1>3. TokenKeys'
  <2>1. \A q \in Pod : proc'[q].boots = proc[q].boots
                        /\ (At(q, "down")' \/ (~At(q, "down") /\ kms[q] \subseteq kms'[q]))
    BY <1>1, <1>2, Zenon DEF At
  <2> QED
    BY <1>2, <2>1, TokenKeysFrame, Zenon DEF KeysHeld
<1>4. PodKeys(p)'
  BY <1>1, <1>2, Zenon DEF PodKeys, At, Serving
<1>5. ASSUME NEW q \in Pod \ {p} PROVE PodKeys(q)'
  BY <1>1, <1>2 DEF KeysHeld, PodKeys, At, Serving
<1> QED
  BY <1>3, <1>4, <1>5, Zenon DEF KeysHeld

\* Before it lists the realms a pod has neither seen one nor a request.
LEMMA KeysGoto ==
    ASSUME Shape, KeysHeld, NEW p \in Pod, NEW pc \in PC, NEW todo \in SUBSET Todo(pc), Goto(p, pc, todo),
           proc[p].pc \notin {"down", "seed", "serving"}, pc \notin {"down", "seed", "serving"},
           UNCHANGED <<kms, seen, creating, access>>
    PROVE  KeysHeld'
<1>1. /\ proc'[p].pc = pc /\ proc'[p].boots = proc[p].boots
      /\ \A q \in Pod \ {p} : proc'[q] = proc[q]
  BY GotoMoves, TodoFits, Zenon
<1>2. TokenKeys'
  BY <1>1, TokenKeysFrame, Zenon DEF KeysHeld, At
<1>3. PodKeys(p)'
  BY <1>1, Zenon DEF KeysHeld, PodKeys, At, Serving
<1>4. ASSUME NEW q \in Pod \ {p} PROVE PodKeys(q)'
  BY <1>1 DEF KeysHeld, PodKeys, At, Serving
<1> QED
  BY <1>2, <1>3, <1>4, Zenon DEF KeysHeld

\* Seeding adds exactly the key of the realm, which the pod may hold already.
LEMMA SeedAdds ==
    ASSUME Shape, NEW p \in Pod, PodKeys(p), NEW r \in Realm, seed_realm_keys(p, r)
    PROVE  kms'[p] = kms[p] \cup {Key(p, proc[p].boots, r)}
<1>1. CASE Active(p, r) # {}
  <2>1. PICK k \in kms[p] : k.realm = r
    BY <1>1, Zenon DEF Active
  <2>2. k = Key(p, proc[p].boots, r)
    BY <2>1, KeyParts DEF PodKeys
  <2> QED
    BY <1>1, <2>1, <2>2, Zenon DEF seed_realm_keys
<1>2. CASE Active(p, r) = {}
  <2>1. kms' = [kms EXCEPT ![p] = {j \in @ : j.kid # <<p, proc[p].boots, r>>} \cup {Key(p, proc[p].boots, r)}]
    BY <1>2, Zenon DEF seed_realm_keys, register, Key
  <2>2. ASSUME NEW j \in kms[p] PROVE j.kid # <<p, proc[p].boots, r>>
    <3>1. (j.realm # r /\ j.state = "Active") \/ j.state # "Active"
      BY <1>2, Zenon DEF Active
    <3>2. PICK z \in Realm : j = Key(p, proc[p].boots, z)
      BY Zenon DEF PodKeys
    <3> QED
      BY <3>1, <3>2, KeyParts
  <2> QED
    BY <2>1, <2>2, Zenon DEF Shape
<1> QED
  BY <1>1, <1>2, Zenon

\* A pod that seeds a realm keeps what it held.
LEMMA KeysSeeded ==
    ASSUME Shape, KeysHeld, NEW p \in Pod, NEW r \in Realm, seed_realm_keys(p, r), access' = access,
           proc[p].pc # "down", proc'[p].pc # "down", proc'[p].boots = proc[p].boots,
           \A q \in Pod \ {p} : proc'[q] = proc[q] /\ seen'[q] = seen[q] /\ creating'[q] = creating[q],
           PodKeys(p)'
    PROVE  KeysHeld'
<1>1. \A q \in Pod \ {p} : kms'[q] = kms[q]
  BY SeedMoves, Zenon DEF Shape
<1>2. kms[p] \subseteq kms'[p]
  BY SeedAdds, Zenon DEF KeysHeld
<1>3. TokenKeys'
  BY <1>1, <1>2, TokenKeysFrame, Zenon DEF KeysHeld, At
<1>4. ASSUME NEW q \in Pod \ {p} PROVE PodKeys(q)'
  BY <1>1 DEF KeysHeld, PodKeys, At, Serving
<1> QED
  BY <1>3, <1>4, Zenon DEF KeysHeld

\* Every step keeps the keys.
LEMMA NextKeys == Shape /\ KeysHeld /\ [Next]_vars => KeysHeld'
<1> SUFFICES ASSUME Shape, KeysHeld, [Next]_vars PROVE KeysHeld'
  BY Zenon
<1>0. CASE UNCHANGED vars
  BY <1>0 DEF vars, KeysHeld, TokenKeys, PodKeys, At, Serving
<1>1. ASSUME NEW p \in Pod, Boot(p) PROVE KeysHeld'
  <2>1. /\ proc'[p].pc \in {"lock", "compat"} /\ proc'[p].boots = proc[p].boots + 1 /\ At(p, "down")
        /\ \A q \in Pod \ {p} : proc'[q] = proc[q]
    BY <1>1, TodoFits, Zenon DEF Boot, Procs
  <2>2. UNCHANGED <<kms, seen, creating, access>>
    BY <1>1, Zenon DEF Boot
  <2>3. TokenKeys'
    BY <2>1, <2>2, TokenKeysFrame, Zenon DEF KeysHeld, At
  <2>4. PodKeys(p)'
    BY <2>1, <2>2, Zenon DEF KeysHeld, PodKeys, At, Serving
  <2>5. ASSUME NEW q \in Pod \ {p} PROVE PodKeys(q)'
    BY <2>1, <2>2 DEF KeysHeld, PodKeys, At, Serving
  <2> QED
    BY <2>3, <2>4, <2>5, Zenon DEF KeysHeld
<1>2. ASSUME NEW p \in Pod, StartUp(p) PROVE KeysHeld'
  <2>1. CASE TryLock(p)
    <3>1. Known[p] \ Range(applied) \subseteq Todo("migrate")
      BY FleetAssumption, Zenon DEF Todo
    <3> QED
      BY <2>1, <3>1, KeysGoto, Zenon DEF TryLock, At, PC
  <2>2. CASE LockTimeout(p)
    BY <2>2, KeysExit, Zenon DEF LockTimeout
  <2>3. CASE Migrate(p)
    <3>1. PICK v \in proc[p].todo : Goto(p, "migrate", proc[p].todo \ {v})
      BY <2>3, Zenon DEF Migrate
    <3>2. proc[p].todo \ {v} \subseteq Todo("migrate")
      BY <2>3, TodoFits, Zenon DEF Migrate, At
    <3> QED
      BY <2>3, <3>1, <3>2, KeysGoto, Zenon DEF Migrate, At, PC
  <2>4. CASE MigrateFails(p)
    BY <2>4, KeysExit, Zenon DEF MigrateFails
  <2>5. CASE Unlock(p)
    BY <2>5, KeysGoto, Zenon DEF Unlock, At, PC
  <2>6. CASE enforce_schema_compat(p)
    <3>1. CASE SchemaCompatible
      <4>1. /\ Goto(p, "quickstart", {}) \/ Goto(p, "list", {})
            /\ At(p, "compat") /\ UNCHANGED <<kms, seen, creating, access>>
        BY <2>6, <3>1, Zenon DEF enforce_schema_compat
      <4> QED
        BY <4>1, KeysGoto, Zenon DEF At, PC
    <3> QED
      BY <2>6, <3>1, KeysExit, Zenon DEF enforce_schema_compat
  <2>7. CASE bootstrap_run(p)
    <3>1. /\ Goto(p, "list", {}) \/ Goto(p, "provision", 1..5)
          /\ At(p, "quickstart") /\ UNCHANGED <<kms, seen, creating, access>>
      BY <2>7, PartNames, Zenon DEF bootstrap_run
    <3> QED
      BY <3>1, KeysGoto DEF At, PC, Todo
  <2>8. CASE Provision(p)
    <3>1. PICK i \in proc[p].todo :
               \/ Exit(p)
               \/ Goto(p, "provision", proc[p].todo \ {i}) /\ UNCHANGED <<kms, seen, creating, access>>
      BY <2>8, Zenon DEF Provision
    <3>2. proc[p].todo \ {i} \subseteq Todo("provision") /\ proc[p].pc = "provision"
      BY <2>8, TodoFits, Zenon DEF Provision, At
    <3> QED
      BY <3>1, <3>2, KeysExit, KeysGoto, Zenon DEF PC
  <2>9. CASE Provisioned(p)
    BY <2>9, KeysGoto, Zenon DEF Provisioned, At, PC
  <2>10. CASE ListRealms(p)
    <3>1. PICK found \in SUBSET Realm : Goto(p, "seed", found) /\ seen' = [seen EXCEPT ![p] = found]
      BY <2>10, Zenon DEF ListRealms
    <3>2. /\ proc'[p].pc = "seed" /\ proc'[p].todo = found /\ proc'[p].boots = proc[p].boots
          /\ \A q \in Pod \ {p} : proc'[q] = proc[q]
      BY <3>1, GotoMoves, TodoFits, Zenon DEF PC, Todo
    <3>3. seen'[p] = found /\ \A q \in Pod \ {p} : seen'[q] = seen[q]
      BY <3>1, Zenon DEF Shape
    <3>4. UNCHANGED <<kms, creating, access>> /\ At(p, "list")
      BY <2>10, Zenon DEF ListRealms
    <3>5. TokenKeys'
      BY <3>2, <3>4, TokenKeysFrame, Zenon DEF KeysHeld, At
    <3>6. PodKeys(p)'
      BY <3>2, <3>3, <3>4 DEF KeysHeld, PodKeys, At, Serving
    <3>7. ASSUME NEW q \in Pod \ {p} PROVE PodKeys(q)'
      BY <3>2, <3>3, <3>4 DEF KeysHeld, PodKeys, At, Serving
    <3> QED
      BY <3>5, <3>6, <3>7, Zenon DEF KeysHeld
  <2>11. CASE Seed(p)
    <3>1. PICK r \in proc[p].todo : seed_realm_keys(p, r) /\ Goto(p, "seed", proc[p].todo \ {r})
      BY <2>11, Zenon DEF Seed
    <3>2. r \in Realm /\ proc[p].todo \ {r} \subseteq Todo("seed") /\ proc[p].pc = "seed"
      BY <2>11, TodoFits, Zenon DEF Seed, At, Todo
    <3>3. /\ proc'[p].pc = "seed" /\ proc'[p].todo = proc[p].todo \ {r} /\ proc'[p].boots = proc[p].boots
          /\ \A q \in Pod \ {p} : proc'[q] = proc[q]
      BY <3>1, <3>2, GotoMoves, TodoFits, Zenon DEF PC
    <3>4. kms'[p] = kms[p] \cup {Key(p, proc[p].boots, r)}
      BY <3>1, <3>2, SeedAdds, Zenon DEF KeysHeld
    <3>5. UNCHANGED <<seen, creating, access>>
      BY <2>11, Zenon DEF Seed
    <3>6. PodKeys(p)'
      BY <3>2, <3>3, <3>4, <3>5 DEF KeysHeld, PodKeys, At, Serving
    <3> QED
      BY <3>1, <3>2, <3>3, <3>5, <3>6, KeysSeeded, Zenon
  <2>13. CASE SeedFails(p)
    <3>1. PICK r \in proc[p].todo : Goto(p, "seed", proc[p].todo \ {r}) /\ seen' = [seen EXCEPT ![p] = @ \ {r}]
      BY <2>13, Zenon DEF SeedFails
    <3>2. proc[p].todo \ {r} \subseteq Todo("seed") /\ proc[p].pc = "seed"
      BY <2>13, TodoFits, Zenon DEF SeedFails, At
    <3>3. /\ proc'[p].pc = "seed" /\ proc'[p].todo = proc[p].todo \ {r} /\ proc'[p].boots = proc[p].boots
          /\ \A q \in Pod \ {p} : proc'[q] = proc[q]
      BY <3>1, <3>2, GotoMoves, TodoFits, Zenon DEF PC
    <3>4. UNCHANGED <<kms, creating, access>>
      BY <2>13, Zenon DEF SeedFails
    <3>5. seen'[p] = seen[p] \ {r} /\ \A q \in Pod \ {p} : seen'[q] = seen[q]
      BY <3>1, Zenon DEF Shape
    <3>6. TokenKeys'
      BY <3>2, <3>3, <3>4, TokenKeysFrame, Zenon DEF KeysHeld, At
    <3>7. PodKeys(p)'
      BY <3>2, <3>3, <3>4, <3>5 DEF KeysHeld, PodKeys, At, Serving
    <3>8. ASSUME NEW q \in Pod \ {p} PROVE PodKeys(q)'
      BY <3>3, <3>4, <3>5 DEF KeysHeld, PodKeys, At, Serving
    <3> QED
      BY <3>6, <3>7, <3>8, Zenon DEF KeysHeld
  <2>12. CASE Serve(p)
    <3>1. /\ proc'[p].pc = "serving" /\ proc'[p].boots = proc[p].boots
          /\ \A q \in Pod \ {p} : proc'[q] = proc[q]
      BY <2>12, GotoMoves, TodoFits, Zenon DEF Serve, PC
    <3>2. UNCHANGED <<kms, seen, creating, access>> /\ At(p, "seed") /\ proc[p].todo = {}
      BY <2>12, Zenon DEF Serve
    <3>3. TokenKeys'
      BY <3>1, <3>2, TokenKeysFrame, Zenon DEF KeysHeld, At
    <3>4. PodKeys(p)'
      BY <3>1, <3>2 DEF KeysHeld, PodKeys, At, Serving
    <3>5. ASSUME NEW q \in Pod \ {p} PROVE PodKeys(q)'
      BY <3>1, <3>2 DEF KeysHeld, PodKeys, At, Serving
    <3> QED
      BY <3>3, <3>4, <3>5, Zenon DEF KeysHeld
  <2> QED
    BY <1>2, <2>1, <2>2, <2>3, <2>4, <2>5, <2>6, <2>7, <2>8, <2>9, <2>10, <2>11, <2>12, <2>13, Zenon DEF StartUp
<1>3. ASSUME NEW p \in Pod, Request(p) PROVE KeysHeld'
  <2>0. ASSUME UNCHANGED <<proc, kms, seen, access>>,
               \A q \in Pod : creating'[q] # None => Serving(q)
        PROVE  KeysHeld'
    BY <2>0 DEF KeysHeld, TokenKeys, PodKeys, At, Serving
  <2>a. \A q \in Pod : creating[q] # None => Serving(q)
    BY Zenon DEF KeysHeld, PodKeys
  <2>1. CASE CreateRealmFlows(p)
    BY <2>0, <2>1, <2>a, Zenon DEF CreateRealmFlows, Shape
  <2>2. CASE CreateRealmKeys(p)
    <3> DEFINE r == creating[p].realm
    <3>1. r \in Realm /\ Serving(p)
      BY <2>2, <2>a, Zenon DEF Shape, CreateRealmKeys, Creation
    <3>2. kms'[p] = kms[p] \cup {Key(p, proc[p].boots, r)}
      BY <2>2, <3>1, SeedAdds, Zenon DEF KeysHeld, CreateRealmKeys
    <3>3. /\ seen'[p] = seen[p] \cup {r} /\ creating'[p] = None /\ UNCHANGED <<proc, access>>
          /\ \A q \in Pod \ {p} : seen'[q] = seen[q] /\ creating'[q] = creating[q]
      BY <2>2, Zenon DEF CreateRealmKeys, Shape
    <3>4. PodKeys(p)'
      BY <3>1, <3>2, <3>3 DEF KeysHeld, PodKeys, At, Serving
    <3> QED
      BY <2>2, <3>1, <3>3, <3>4, KeysSeeded, Zenon DEF CreateRealmKeys, Serving, At
  <2>9. CASE CreateRealmKeysFails(p)
    BY <2>0, <2>9, <2>a, Zenon DEF CreateRealmKeysFails, Shape
  <2>3. CASE CreateRealmDropped(p)
    BY <2>0, <2>3, <2>a, Zenon DEF CreateRealmDropped, Shape
  <2>4. ASSUME NEW r \in Realm, CreateRealm(p, r) PROVE KeysHeld'
    BY <2>0, <2>4, <2>a, Zenon DEF CreateRealm, Shape
  <2>5. ASSUME NEW r \in Realm, DeleteRealm(p, r) PROVE KeysHeld'
    BY <2>0, <2>5, <2>a, Zenon DEF DeleteRealm
  <2>6. ASSUME NEW r \in Realm, Mint(p, r) PROVE KeysHeld'
    <3>1. PICK k \in Active(p, r) : access' = access \cup {[kid |-> k.kid, realm |-> r]}
      BY <2>6, Zenon DEF Mint
    <3>2. UNCHANGED <<proc, kms, seen, creating>>
      BY <2>6, Zenon DEF Mint
    <3>3. k \in kms[p] /\ k.realm = r
      BY Zenon DEF Active
    <3>4. k = Key(p, proc[p].boots, r)
      <4>1. PICK z \in Realm : k = Key(p, proc[p].boots, z)
        BY <3>3, Zenon DEF KeysHeld, PodKeys
      <4> QED
        BY <3>3, <4>1, KeyParts
    <3>5. access' = access \cup {Token(p, proc[p].boots, r)}
      <4>1. k.kid = <<p, proc[p].boots, r>>
        BY <3>4, KeyParts
      <4> QED
        BY <3>1, <4>1, Zenon DEF Token
    <3>6. TokenKeys'
      <4> SUFFICES ASSUME NEW t \in access'
                   PROVE  \E q \in Pod, b \in Nat, z \in Realm :
                             /\ t = Token(q, b, z) /\ b <= proc[q].boots
                             /\ b = proc[q].boots /\ ~At(q, "down") => Key(q, b, z) \in kms[q]
        BY <3>2 DEF TokenKeys, At
      <4>1. CASE t \in access
        BY <4>1, Zenon DEF KeysHeld, TokenKeys
      <4>2. CASE t = Token(p, proc[p].boots, r)
        BY <3>3, <3>4, <4>2, TodoFits
      <4> QED
        BY <3>5, <4>1, <4>2, Zenon
    <3> QED
      <4>1. \A q \in Pod : PodKeys(q)'
        BY <3>2, Zenon DEF KeysHeld, PodKeys, At, Serving
      <4> QED
        BY <3>6, <4>1, Zenon DEF KeysHeld
  <2>7. ASSUME NEW r \in Realm, CreateClient(p, r) PROVE KeysHeld'
    BY <2>0, <2>7, <2>a, Zenon DEF CreateClient
  <2>8. ASSUME NEW q \in refresh, Revoke(p, q) PROVE KeysHeld'
    BY <2>0, <2>8, <2>a, Zenon DEF Revoke
  <2> QED
    BY <1>3, <2>1, <2>2, <2>3, <2>4, <2>5, <2>6, <2>7, <2>8, <2>9, Zenon DEF Request
<1>4. ASSUME NEW p \in Pod, Crash(p) PROVE KeysHeld'
  BY <1>4, KeysExit, Zenon DEF Crash
<1> QED
  BY <1>0, <1>1, <1>2, <1>3, <1>4, Zenon DEF Next

\* Every serving pod holds exactly one active key for each realm it has listed or
\* created but those whose seeding failed, and what a pod has signed since it started
\* verifies on it, for its own
\* realm and no other (seed_realm_keys, mint_access_token, verify_access_token, jwks).
THEOREM KeysCorrect == Spec => []KeysServe
<1>1. Init => KeysHeld
  BY Zenon DEF Init, KeysHeld, TokenKeys, PodKeys, At, Serving
<1> QED
  BY <1>1, InitShape, NextShape, NextKeys, KeysHeldServe, PTL DEF Spec

-----------------------------------------------------------------------------
(* Provisioning.                                                           *)

\* The parts of the master realm before the k-th, and a pod that has written some.
Before(k) == {Parts[i] : i \in 1..(k - 1)}
Writing(p) == At(p, "provision") /\ proc[p].todo # 1..5

\* A bootstrap writes the parts in order; it has written all of them but those it has
\* left; and no second pod, and no creation request, writes the master realm with it.
MasterWritten ==
    /\ \A p \in Pod : At(p, "provision") =>
          \E k \in 1..6 : proc[p].todo = k..5 /\ (k # 1 => rows[Master] = Before(k))
    /\ \A p, q \in Pod : Writing(p) /\ Writing(q) => p = q
    /\ \A p, q \in Pod : Writing(p) /\ creating[q] # None => creating[q].realm # Master

\* A realm row is the first and goes last; a request in flight has written what it
\* has written, unless the realm was deleted meanwhile, and it is the only one.
RealmWritten ==
    /\ \A r \in Realm : "realm" \in rows[r] \/ rows[r] = {} \/ rows[r] = {"deleted"}
    /\ \A r \in Realm : "deleted" \in rows[r] => rows[r] = {"deleted"} /\ r # Master
    /\ \A p \in Pod : creating[p] # None =>
          \/ rows[creating[p].realm] = {"deleted"}
          \/ creating[p].next = "flows" /\ rows[creating[p].realm] = {"realm"}
          \/ creating[p].next = "keys" /\ rows[creating[p].realm] = {"realm", "flows"}
    /\ \A p, q \in Pod : creating[p] # None /\ creating[q] # None /\ creating[p].realm = creating[q].realm
                           => p = q

\* A pod in the middle of writing a realm, and what that leaves.
Writes(p, r) ==
    \/ r = Master /\ At(p, "provision") /\ proc[p].todo \notin {{}, 1..5}
    \/ creating[p] # None /\ creating[p].realm = r /\ creating[p].next = "flows"
Accounted == \A r \in Realm : "realm" \in rows[r] => Whole(r) \/ (\E p \in Pod : Writes(p, r)) \/ r \in torn

Provisions == MasterWritten /\ RealmWritten /\ Accounted

\* What the parts before the k-th are.
LEMMA BeforeParts ==
    /\ Before(2) = {"realm"} /\ Before(6) = Range(Parts)
    /\ \A k \in 1..5, j \in 2..6 : j = k + 1 => Before(j) = Before(k) \cup {Parts[k]}
    /\ \A k \in 2..6 : "realm" \in Before(k) /\ "deleted" \notin Before(k)
<1>1. \A k \in 1..5, j \in 2..6 : j = k + 1 => Before(j) = Before(k) \cup {Parts[k]}
  BY DEF Before
<1>2. Before(1) = {}
  BY DEF Before
<1>3. /\ Before(2) = {"realm"} /\ Before(3) = {"realm", "flows"}
      /\ Before(4) = {"realm", "flows", "end_user"}
      /\ Before(5) = {"realm", "flows", "end_user", "admin_user"}
      /\ Before(6) = {"realm", "flows", "end_user", "admin_user", "client"}
  <2>1. Before(2) = {"realm"}
    BY <1>1, <1>2, PartNames
  <2>2. Before(3) = {"realm", "flows"}
    BY <1>1, <2>1, PartNames
  <2>3. Before(4) = {"realm", "flows", "end_user"}
    BY <1>1, <2>2, PartNames
  <2>4. Before(5) = {"realm", "flows", "end_user", "admin_user"}
    BY <1>1, <2>3, PartNames
  <2>5. Before(6) = {"realm", "flows", "end_user", "admin_user", "client"}
    BY <1>1, <2>4, PartNames
  <2> QED
    BY <2>1, <2>2, <2>3, <2>4, <2>5, Zenon
<1>4. ASSUME NEW k \in 2..6 PROVE "realm" \in Before(k) /\ "deleted" \notin Before(k)
  <2>1. k = 2 \/ k = 3 \/ k = 4 \/ k = 5 \/ k = 6
    OBVIOUS
  <2> QED
    BY <1>3, <2>1
<1> QED
  BY <1>1, <1>3, <1>4, PartNames, Zenon

\* A pod that has written part of the master realm has written its row.
LEMMA WritingRow ==
    ASSUME MasterWritten, NEW p \in Pod, Writing(p)
    PROVE  \E k \in 2..6 : proc[p].todo = k..5 /\ rows[Master] = Before(k)
<1>1. PICK k \in 1..6 : proc[p].todo = k..5 /\ (k # 1 => rows[Master] = Before(k))
  BY Zenon DEF MasterWritten, Writing
<1>2. k # 1
  BY <1>1, Zenon DEF Writing
<1> QED
  BY <1>1, <1>2

\* At most one process writes a realm, and a realm nobody writes is whole or torn.
LEMMA ProvisionsOnce == Shape /\ Provisions => ProvisionedOnce
<1> SUFFICES ASSUME Shape, Provisions PROVE ProvisionedOnce
  BY Zenon
<1>0. \A r \in Realm : Provisioning(r) = {p \in Pod : Writes(p, r)}
  BY PartNames, Zenon DEF Provisioning, Writes
<1>1. ASSUME NEW r \in Realm, NEW p \in Provisioning(r), NEW q \in Provisioning(r) PROVE p = q
  BY <1>0, <1>1 DEF Writes, Writing, Provisions, MasterWritten, RealmWritten
<1>2. ASSUME NEW r \in Realm, "realm" \in rows[r] PROVE Whole(r) \/ Provisioning(r) # {} \/ r \in torn
  BY <1>0, <1>2, Zenon DEF Provisions, Accounted
<1>3. ASSUME NEW p \in Pod, At(p, "provision"), proc[p].todo = {} PROVE rows[Master] = Range(Parts)
  <2>1. Writing(p)
    BY <1>3 DEF Writing
  <2>2. PICK k \in 2..6 : proc[p].todo = k..5 /\ rows[Master] = Before(k)
    BY <2>1, WritingRow, Zenon DEF Provisions
  <2>3. k = 6
    <3>1. 5 \notin k..5
      BY <1>3, <2>2, Zenon
    <3> QED
      BY <3>1
  <2> QED
    BY <2>2, <2>3, BeforeParts, Zenon
<1> QED
  BY <1>1, <1>2, <1>3, Zenon DEF ProvisionedOnce

\* A step that writes no realm, and neither sends a pod to bootstrap nor moves one
\* that does.
LEMMA ProvisionsFrame ==
    ASSUME Provisions, UNCHANGED <<rows, creating, torn>>,
           \A q \in Pod : proc'[q] = proc[q] \/ (proc'[q].pc # "provision" /\ proc[q].pc # "provision")
    PROVE  Provisions'
<1>1. MasterWritten'
  BY DEF Provisions, MasterWritten, Writing, At
<1>2. RealmWritten'
  BY Zenon DEF Provisions, RealmWritten
<1>3. \A p \in Pod, r \in Realm : Writes(p, r)' <=> Writes(p, r)
  BY Zenon DEF Writes, At
<1>4. Accounted'
  BY <1>3, Zenon DEF Provisions, Accounted, Whole
<1> QED
  BY <1>1, <1>2, <1>4, Zenon DEF Provisions

\* A start-up step outside the bootstrap.
LEMMA ProvisionsGoto ==
    ASSUME Shape, Provisions, NEW p \in Pod, NEW pc \in PC, NEW todo \in SUBSET Todo(pc), Goto(p, pc, todo),
           ~At(p, "provision"), pc # "provision", UNCHANGED <<rows, creating, torn>>
    PROVE  Provisions'
<1>1. proc'[p].pc = pc /\ \A q \in Pod \ {p} : proc'[q] = proc[q]
  BY GotoMoves, TodoFits, Zenon
<1>2. \A q \in Pod : proc'[q] = proc[q] \/ (proc'[q].pc # "provision" /\ proc[q].pc # "provision")
  BY <1>1, Zenon DEF At
<1> QED
  BY <1>2, ProvisionsFrame, Zenon

\* What a pod was writing when it exited is torn.
LEMMA ProvisionsExit ==
    ASSUME Shape, Provisions, NEW p \in Pod, Exit(p)
    PROVE  Provisions'
<1>1. ~At(p, "provision")' /\ \A q \in Pod \ {p} : proc'[q] = proc[q]
  BY ExitMoves, Zenon DEF At
<1>2. /\ rows' = rows /\ creating'[p] = None
      /\ \A q \in Pod \ {p} : creating'[q] = creating[q]
  BY Zenon DEF Exit, Shape
<1>3. torn' = torn \cup {r \in Cut(p) : "realm" \in rows[r]}
  BY Zenon DEF Exit
<1>4. MasterWritten'
  BY <1>1, <1>2 DEF Provisions, MasterWritten, Writing, At
<1>5. RealmWritten'
  BY <1>1, <1>2 DEF Provisions, RealmWritten
<1>6. Accounted'
  <2> SUFFICES ASSUME NEW r \in Realm, "realm" \in rows[r]
               PROVE  Whole(r) \/ (\E q \in Pod : Writes(q, r)') \/ r \in torn'
    BY <1>2, Zenon DEF Accounted, Whole
  <2>1. CASE Whole(r) \/ r \in torn
    BY <1>3, <2>1, Zenon
  <2>2. CASE Writes(p, r)
    BY <1>3, <2>2, PartNames, Zenon DEF Writes, Cut
  <2>3. ASSUME NEW q \in Pod \ {p}, Writes(q, r) PROVE Writes(q, r)'
    BY <1>1, <1>2, <2>3, Zenon DEF Writes, At
  <2> QED
    BY <2>1, <2>2, <2>3, Zenon DEF Provisions, Accounted
<1> QED
  BY <1>4, <1>5, <1>6, Zenon DEF Provisions

\* The least of an interval is where it begins.
LEMMA LeastOf ==
    ASSUME NEW k \in 1..6, NEW i \in k..5, \A j \in k..5 : i <= j
    PROVE  i = k /\ k \in 1..5
<1>1. k \in k..5
  OBVIOUS
<1> QED
  BY <1>1

\* A bootstrap writes the next part of the master realm.
LEMMA ProvisionsWrite ==
    ASSUME Shape, Provisions, NEW p \in Pod, At(p, "provision"), NEW i \in proc[p].todo,
           \A j \in proc[p].todo : i <= j,
           ~(Parts[i] = "realm" /\ "realm" \in rows[Master]),
           rows' = [rows EXCEPT ![Master] = @ \cup {Parts[i]}],
           Goto(p, "provision", proc[p].todo \ {i}), UNCHANGED <<creating, torn>>
    PROVE  Provisions'
<1>1. PICK k \in 1..6 : proc[p].todo = k..5 /\ (k # 1 => rows[Master] = Before(k))
  BY Zenon DEF Provisions, MasterWritten
<1>2. i = k /\ k \in 1..5
  BY <1>1, LeastOf, Zenon
<1>3. PICK n \in 2..6 : n = k + 1
  BY <1>2
<1>4. proc[p].todo \ {i} = n..5
  BY <1>1, <1>2, <1>3
<1>5. proc[p].todo \ {i} \subseteq Todo("provision")
  BY <1>4 DEF Todo
<1>6. proc'[p].pc = "provision" /\ proc'[p].todo = n..5 /\ \A q \in Pod \ {p} : proc'[q] = proc[q]
  BY <1>4, <1>5, GotoMoves, TodoFits, Zenon DEF PC
<1>7. rows'[Master] = rows[Master] \cup {Parts[k]} /\ \A r \in Realm \ {Master} : rows'[r] = rows[r]
  BY <1>2, FleetAssumption, Zenon DEF Shape
<1>8. CASE k = 1
  <2>1. "realm" \notin rows[Master]
    BY <1>2, <1>8, PartNames, Zenon
  <2>2. rows[Master] = {}
    BY <2>1, FleetAssumption DEF Provisions, RealmWritten
  <2>3. rows'[Master] = {"realm"}
    BY <1>7, <1>8, <2>2, PartNames, Zenon
  <2>a. rows'[Master] = Before(n)
    BY <1>3, <1>8, <2>3, BeforeParts
  <2>4. \A q \in Pod : ~Writing(q)
    BY <2>2, WritingRow, BeforeParts DEF Provisions
  <2>5. \A q \in Pod : creating[q] # None => creating[q].realm # Master
    BY <2>2 DEF Provisions, RealmWritten
  <2>6. MasterWritten'
    <3>1. ASSUME NEW q \in Pod, At(q, "provision")'
          PROVE  \E m \in 1..6 : proc'[q].todo = m..5 /\ (m # 1 => rows'[Master] = Before(m))
      <4>1. CASE q = p
        BY <1>6, <2>a, <4>1
      <4>2. CASE q # p
        <5>1. proc[q].todo = 1..5
          BY <1>6, <2>4, <3>1, <4>2, Zenon DEF Writing, At
        <5> QED
          BY <1>6, <4>2, <5>1
      <4> QED
        BY <4>1, <4>2, Zenon
    <3>2. \A q \in Pod \ {p} : ~Writing(q)'
      BY <1>6, <2>4, Zenon DEF Writing, At
    <3> QED
      BY <2>5, <3>1, <3>2, Zenon DEF MasterWritten
  <2>7. RealmWritten'
    <3>1. \A r \in Realm : "realm" \in rows'[r] \/ rows'[r] = {} \/ rows'[r] = {"deleted"}
      BY <1>7, <2>3, Zenon DEF Provisions, RealmWritten
    <3>2. \A r \in Realm : "deleted" \in rows'[r] => rows'[r] = {"deleted"} /\ r # Master
      BY <1>7, <2>3, Zenon DEF Provisions, RealmWritten
    <3>3. \A q \in Pod : creating[q] # None => rows'[creating[q].realm] = rows[creating[q].realm]
      BY <1>7, <2>5, Zenon DEF Shape, Creation
    <3> QED
      BY <3>1, <3>2, <3>3, Zenon DEF Provisions, RealmWritten
  <2>8. Writes(p, Master)'
    <3>1. 5 \in n..5 /\ 1 \notin n..5 /\ 1 \in 1..5
      BY <1>3, <1>8
    <3> QED
      BY <1>6, <3>1, Zenon DEF Writes, At
  <2>9. Accounted'
    <3>1. ASSUME NEW r \in Realm \ {Master}, NEW q \in Pod, Writes(q, r) PROVE Writes(q, r)'
      BY <1>6, <3>1, Zenon DEF Writes, At
    <3> QED
      BY <1>7, <2>8, <3>1, FleetAssumption, Zenon DEF Provisions, Accounted, Whole
  <2> QED
    BY <2>6, <2>7, <2>9, Zenon DEF Provisions
<1>9. CASE k # 1
  <2>1. Writing(p)
    <3>1. 1 \notin k..5 /\ 1 \in 1..5
      BY <1>2, <1>9
    <3> QED
      BY <1>1, <3>1, Zenon DEF Writing
  <2>2. rows[Master] = Before(k) /\ rows'[Master] = Before(n) /\ "realm" \in Before(n) /\ "deleted" \notin Before(n)
    BY <1>1, <1>2, <1>3, <1>7, <1>9, BeforeParts, Zenon
  <2>3. Writing(p)'
    <3>1. 1 \notin n..5 /\ 1 \in 1..5
      BY <1>3
    <3> QED
      BY <1>6, <3>1, Zenon DEF Writing, At
  <2>4. \A q \in Pod \ {p} : ~Writing(q) /\ ~Writing(q)'
    BY <1>6, <2>1, Zenon DEF Provisions, MasterWritten, Writing, At
  <2>5. \A q \in Pod : creating[q] # None => creating[q].realm # Master
    BY <2>1, Zenon DEF Provisions, MasterWritten
  <2>6. MasterWritten'
    <3>1. ASSUME NEW q \in Pod, At(q, "provision")'
          PROVE  \E m \in 1..6 : proc'[q].todo = m..5 /\ (m # 1 => rows'[Master] = Before(m))
      <4>1. CASE q = p
        BY <1>6, <2>2, <4>1
      <4>2. CASE q # p
        <5>1. proc[q].todo = 1..5
          BY <1>6, <2>4, <3>1, <4>2, Zenon DEF Writing, At
        <5> QED
          BY <1>6, <4>2, <5>1
      <4> QED
        BY <4>1, <4>2, Zenon
    <3> QED
      BY <2>4, <2>5, <3>1, Zenon DEF MasterWritten
  <2>7. RealmWritten'
    BY <1>7, <2>2, <2>5, FleetAssumption DEF Provisions, RealmWritten, Shape, Creation
  <2>8. Whole(Master)' \/ Writes(p, Master)'
    <3>1. CASE n = 6
      BY <2>2, <3>1, BeforeParts, Zenon DEF Whole
    <3>2. CASE n # 6
      <4>1. 5 \in n..5 /\ 1 \notin n..5 /\ 1 \in 1..5
        BY <1>3, <3>2
      <4> QED
        BY <1>6, <4>1, Zenon DEF Writes, At
    <3> QED
      BY <3>1, <3>2, Zenon
  <2>9. Accounted'
    <3>1. ASSUME NEW r \in Realm \ {Master}, NEW q \in Pod, Writes(q, r) PROVE Writes(q, r)'
      BY <1>6, <3>1, Zenon DEF Writes, At
    <3> QED
      BY <1>7, <2>8, <3>1, FleetAssumption, Zenon DEF Provisions, Accounted, Whole
  <2> QED
    BY <2>6, <2>7, <2>9, Zenon DEF Provisions
<1> QED
  BY <1>8, <1>9, Zenon

\* A bootstrap that begins has written nothing; one that ends has written everything.
LEMMA ProvisionsTurn ==
    ASSUME Shape, Provisions, NEW p \in Pod, UNCHANGED <<rows, creating, torn>>,
           \/ ~At(p, "provision") /\ Goto(p, "provision", 1..5)
           \/ At(p, "provision") /\ proc[p].todo = {} /\ Goto(p, "list", {})
    PROVE  Provisions'
<1>0. 1..5 # {}
  BY 1 \in 1..5, Zenon
<1>1. /\ \A q \in Pod \ {p} : proc'[q] = proc[q]
      /\ \/ ~At(p, "provision") /\ proc'[p].pc = "provision" /\ proc'[p].todo = 1..5
         \/ At(p, "provision") /\ proc[p].todo = {} /\ proc'[p].pc = "list"
  BY GotoMoves, TodoFits DEF PC, Todo
<1>2. ~Writing(p)' /\ \A q \in Pod : Writing(q)' => Writing(q)
  BY <1>1, Zenon DEF Writing, At
<1>3. \A q \in Pod, r \in Realm : Writes(q, r)' <=> Writes(q, r)
  BY <1>1, Zenon DEF Writes, At
<1>4. MasterWritten'
  <2>1. ASSUME NEW q \in Pod, At(q, "provision")'
        PROVE  \E m \in 1..6 : proc'[q].todo = m..5 /\ (m # 1 => rows'[Master] = Before(m))
    <3>1. CASE q = p
      BY <1>1, <2>1, <3>1 DEF At
    <3>2. CASE q # p
      BY <1>1, <2>1, <3>2, Zenon DEF Provisions, MasterWritten, At
    <3> QED
      BY <3>1, <3>2, Zenon
  <2> QED
    BY <1>2, <2>1, Zenon DEF Provisions, MasterWritten
<1>5. RealmWritten'
  BY Zenon DEF Provisions, RealmWritten
<1>6. Accounted'
  BY <1>3, Zenon DEF Provisions, Accounted, Whole
<1> QED
  BY <1>4, <1>5, <1>6, Zenon DEF Provisions

\* A request that creates a realm finds no row of it, so that nobody else writes it.
LEMMA ProvisionsCreate ==
    ASSUME Shape, Provisions, NEW p \in Pod, NEW z \in Realm, CreateRealm(p, z)
    PROVE  Provisions'
<1>1. /\ UNCHANGED <<proc, torn>> /\ rows[z] = {} /\ rows'[z] = {"realm"} /\ creating[p] = None
      /\ creating'[p] = [realm |-> z, next |-> "flows"] /\ creating'[p] \in Creation
      /\ \A r \in Realm \ {z} : rows'[r] = rows[r]
      /\ \A q \in Pod \ {p} : creating'[q] = creating[q]
  BY Zenon DEF CreateRealm, Shape, Creation
<1>2. creating'[p] # None
  BY <1>1, FleetAssumption, Zenon DEF Creation
<1>3. \A q \in Pod : Writing(q) => z # Master
  BY <1>1, WritingRow, BeforeParts DEF Provisions
<1>4. \A q \in Pod : creating[q] # None => creating[q].realm # z
  BY <1>1 DEF Provisions, RealmWritten
<1>5. MasterWritten'
  <2>1. \A q \in Pod : Writing(q)' <=> Writing(q)
    BY <1>1, Zenon DEF Writing, At
  <2>2. ASSUME NEW q \in Pod, At(q, "provision")
        PROVE  \E m \in 1..6 : proc[q].todo = m..5 /\ (m # 1 => rows'[Master] = Before(m))
    <3>1. CASE Writing(q)
      BY <1>1, <1>3, <2>2, <3>1, FleetAssumption DEF Provisions, MasterWritten
    <3>2. CASE ~Writing(q)
      BY <2>2, <3>2 DEF Writing
    <3> QED
      BY <3>1, <3>2, Zenon
  <2>3. \A a, b \in Pod : Writing(a) /\ creating'[b] # None => creating'[b].realm # Master
    BY <1>1, <1>3 DEF Provisions, MasterWritten
  <2> QED
    BY <1>1, <2>1, <2>2, <2>3, Zenon DEF Provisions, MasterWritten, At
<1>6. RealmWritten'
  <2>1. \A r \in Realm : "realm" \in rows'[r] \/ rows'[r] = {} \/ rows'[r] = {"deleted"}
    BY <1>1, Zenon DEF Provisions, RealmWritten
  <2>2. \A r \in Realm : "deleted" \in rows'[r] => rows'[r] = {"deleted"} /\ r # Master
    BY <1>1, Zenon DEF Provisions, RealmWritten
  <2>3. \A q \in Pod \ {p} : creating[q] # None => rows'[creating[q].realm] = rows[creating[q].realm]
    BY <1>1, <1>4 DEF Shape, Creation
  <2>4. \A q \in Pod : creating'[q] # None =>
          \/ rows'[creating'[q].realm] = {"deleted"}
          \/ creating'[q].next = "flows" /\ rows'[creating'[q].realm] = {"realm"}
          \/ creating'[q].next = "keys" /\ rows'[creating'[q].realm] = {"realm", "flows"}
    BY <1>1, <2>3 DEF Provisions, RealmWritten
  <2>5. \A a, b \in Pod : creating'[a] # None /\ creating'[b] # None /\ creating'[a].realm = creating'[b].realm
                           => a = b
    BY <1>1, <1>4 DEF Provisions, RealmWritten
  <2> QED
    BY <2>1, <2>2, <2>4, <2>5, Zenon DEF RealmWritten
<1>7. Accounted'
  <2>1. Writes(p, z)'
    BY <1>1, <1>2 DEF Writes
  <2>2. ASSUME NEW r \in Realm \ {z}, NEW q \in Pod, Writes(q, r) PROVE Writes(q, r)'
    BY <1>1, <2>2, Zenon DEF Writes, At
  <2> QED
    BY <1>1, <2>1, <2>2, Zenon DEF Provisions, Accounted, Whole
<1> QED
  BY <1>5, <1>6, <1>7, Zenon DEF Provisions

\* A creation request that goes on writes the flows of its own realm.
LEMMA ProvisionsFlows ==
    ASSUME Shape, Provisions, NEW p \in Pod, CreateRealmFlows(p)
    PROVE  Provisions'
<1>0. PICK z \in Realm : z = creating[p].realm
  BY Zenon DEF CreateRealmFlows, Shape, Creation
<1>1. /\ UNCHANGED <<proc, torn>> /\ creating[p] # None /\ creating[p].next = "flows" /\ "realm" \in rows[z]
      /\ creating[p] \in Creation /\ creating[p].realm = z
  BY <1>0, Zenon DEF CreateRealmFlows, Shape
<1>2. rows[z] = {"realm"}
  BY <1>1, Zenon DEF Provisions, RealmWritten
<1>3. /\ rows'[z] = {"realm", "flows"}
      /\ \A r \in Realm \ {z} : rows'[r] = rows[r]
  BY <1>1, <1>2, Zenon DEF CreateRealmFlows, Shape
<1>4. /\ creating'[p].realm = z /\ creating'[p].next = "keys"
      /\ \A q \in Pod \ {p} : creating'[q] = creating[q]
  BY <1>1, Zenon DEF CreateRealmFlows, Shape, Creation
<1>5. \A q \in Pod : Writing(q) => z # Master
  BY <1>1, Zenon DEF Provisions, MasterWritten
<1>6. \A q \in Pod \ {p} : creating[q] # None => creating[q].realm # z
  BY <1>1, Zenon DEF Provisions, RealmWritten
<1>7. MasterWritten'
  <2>1. \A q \in Pod : Writing(q)' <=> Writing(q)
    BY <1>1, Zenon DEF Writing, At
  <2>2. ASSUME NEW q \in Pod, At(q, "provision")
        PROVE  \E m \in 1..6 : proc[q].todo = m..5 /\ (m # 1 => rows'[Master] = Before(m))
    <3>1. CASE Writing(q)
      BY <1>3, <1>5, <2>2, <3>1, FleetAssumption DEF Provisions, MasterWritten
    <3>2. CASE ~Writing(q)
      BY <2>2, <3>2 DEF Writing
    <3> QED
      BY <3>1, <3>2, Zenon
  <2>3. \A a, b \in Pod : Writing(a) /\ creating'[b] # None => creating'[b].realm # Master
    BY <1>4, <1>5, Zenon DEF Provisions, MasterWritten
  <2> QED
    BY <1>1, <2>1, <2>2, <2>3, Zenon DEF Provisions, MasterWritten, At
<1>8. RealmWritten'
  <2>1. \A r \in Realm : "realm" \in rows'[r] \/ rows'[r] = {} \/ rows'[r] = {"deleted"}
    BY <1>3, Zenon DEF Provisions, RealmWritten
  <2>2. \A r \in Realm : "deleted" \in rows'[r] => rows'[r] = {"deleted"} /\ r # Master
    BY <1>3, Zenon DEF Provisions, RealmWritten
  <2>3. \A q \in Pod \ {p} : creating[q] # None => rows'[creating[q].realm] = rows[creating[q].realm]
    BY <1>3, <1>6, Zenon DEF Shape, Creation
  <2>4. \A q \in Pod : creating'[q] # None =>
          \/ rows'[creating'[q].realm] = {"deleted"}
          \/ creating'[q].next = "flows" /\ rows'[creating'[q].realm] = {"realm"}
          \/ creating'[q].next = "keys" /\ rows'[creating'[q].realm] = {"realm", "flows"}
    BY <1>3, <1>4, <2>3 DEF Provisions, RealmWritten
  <2>5. \A a, b \in Pod : creating'[a] # None /\ creating'[b] # None /\ creating'[a].realm = creating'[b].realm
                           => a = b
    BY <1>4, <1>6 DEF Provisions, RealmWritten
  <2> QED
    BY <2>1, <2>2, <2>4, <2>5, Zenon DEF RealmWritten
<1>9. Accounted'
  <2>1. Whole(z)'
    BY <1>3, Zenon DEF Whole
  <2>2. ASSUME NEW r \in Realm \ {z}, NEW q \in Pod, Writes(q, r) PROVE Writes(q, r)'
    <3>1. CASE q = p
      BY <1>1, <2>2, <3>1, Zenon DEF Writes, At
    <3>2. CASE q # p
      BY <1>1, <1>4, <2>2, <3>2, Zenon DEF Writes, At
    <3> QED
      BY <3>1, <3>2, Zenon
  <2>3. ASSUME NEW r \in Realm \ {z}, "realm" \in rows'[r]
        PROVE  Whole(r)' \/ (\E q \in Pod : Writes(q, r)') \/ r \in torn'
    BY <1>1, <1>3, <2>2, <2>3, Zenon DEF Provisions, Accounted, Whole
  <2> QED
    BY <2>1, <2>3, Zenon DEF Accounted
<1> QED
  BY <1>7, <1>8, <1>9, Zenon DEF Provisions

\* A creation request that ends, and one that is dropped: its realm is torn then.
LEMMA ProvisionsEnd ==
    ASSUME Shape, Provisions, NEW p \in Pod, UNCHANGED <<rows, proc>>, creating[p] # None,
           creating' = [creating EXCEPT ![p] = None], torn \subseteq torn',
           creating[p].next = "flows" => creating[p].realm \in torn'
    PROVE  Provisions'
<1>1. creating'[p] = None /\ \A q \in Pod \ {p} : creating'[q] = creating[q]
  BY Zenon DEF Shape
<1>2. MasterWritten'
  BY <1>1 DEF Provisions, MasterWritten, Writing, At
<1>3. RealmWritten'
  BY <1>1 DEF Provisions, RealmWritten
<1>4. Accounted'
  <2> SUFFICES ASSUME NEW r \in Realm, "realm" \in rows[r]
               PROVE  Whole(r) \/ (\E q \in Pod : Writes(q, r)') \/ r \in torn'
    BY Zenon DEF Accounted, Whole
  <2>1. CASE Whole(r) \/ r \in torn
    BY <2>1, Zenon
  <2>2. ASSUME NEW q \in Pod, Writes(q, r) PROVE Writes(q, r)' \/ r \in torn'
    <3>1. CASE q = p
      BY <2>2, <3>1, Zenon DEF Writes, At
    <3>2. CASE q # p
      BY <1>1, <2>2, <3>2, Zenon DEF Writes, At
    <3> QED
      BY <3>1, <3>2, Zenon
  <2> QED
    BY <2>1, <2>2, Zenon DEF Provisions, Accounted
<1> QED
  BY <1>2, <1>3, <1>4, Zenon DEF Provisions

\* A realm other than the master realm is deleted with everything in it.
LEMMA ProvisionsDelete ==
    ASSUME Shape, Provisions, NEW p \in Pod, NEW z \in Realm, DeleteRealm(p, z)
    PROVE  Provisions'
<1>1. /\ UNCHANGED <<proc, creating, torn>> /\ z # Master /\ rows'[z] = {"deleted"}
      /\ \A r \in Realm \ {z} : rows'[r] = rows[r]
  BY Zenon DEF DeleteRealm, Shape
<1>2. MasterWritten'
  BY <1>1, FleetAssumption DEF Provisions, MasterWritten, Writing, At
<1>3. RealmWritten'
  <2>1. \A r \in Realm : "realm" \in rows'[r] \/ rows'[r] = {} \/ rows'[r] = {"deleted"}
    BY <1>1, Zenon DEF Provisions, RealmWritten
  <2>2. \A r \in Realm : "deleted" \in rows'[r] => rows'[r] = {"deleted"} /\ r # Master
    BY <1>1, Zenon DEF Provisions, RealmWritten
  <2>3. \A q \in Pod : creating[q] # None => creating[q].realm \in Realm
    BY Zenon DEF Shape, Creation
  <2>4. \A q \in Pod : creating[q] # None =>
          \/ rows'[creating[q].realm] = {"deleted"}
          \/ creating[q].next = "flows" /\ rows'[creating[q].realm] = {"realm"}
          \/ creating[q].next = "keys" /\ rows'[creating[q].realm] = {"realm", "flows"}
    BY <1>1, <2>3, Zenon DEF Provisions, RealmWritten
  <2> QED
    BY <1>1, <2>1, <2>2, <2>4, Zenon DEF Provisions, RealmWritten
<1>4. Accounted'
  <2>1. \A q \in Pod, r \in Realm : Writes(q, r)' <=> Writes(q, r)
    BY <1>1, Zenon DEF Writes, At
  <2> QED
    BY <1>1, <2>1 DEF Provisions, Accounted, Whole
<1> QED
  BY <1>2, <1>3, <1>4, Zenon DEF Provisions

\* Every step keeps the account of what is provisioned.
LEMMA NextProvisions == Shape /\ Provisions /\ [Next]_vars => Provisions'
<1> SUFFICES ASSUME Shape, Provisions, [Next]_vars PROVE Provisions'
  BY Zenon
<1>0. CASE UNCHANGED vars
  BY <1>0, ProvisionsFrame, Zenon DEF vars
<1>1. ASSUME NEW p \in Pod, Boot(p) PROVE Provisions'
  <2>1. UNCHANGED <<rows, creating, torn>> /\ proc[p].pc = "down"
    BY <1>1, Zenon DEF Boot, db, At
  <2>2. proc'[p].pc # "provision" /\ \A q \in Pod \ {p} : proc'[q] = proc[q]
    BY <1>1, TodoFits, Zenon DEF Boot, Procs
  <2>3. \A q \in Pod : proc'[q] = proc[q] \/ (proc'[q].pc # "provision" /\ proc[q].pc # "provision")
    BY <2>1, <2>2, Zenon
  <2> QED
    BY <2>1, <2>3, ProvisionsFrame, Zenon
<1>2. ASSUME NEW p \in Pod, StartUp(p) PROVE Provisions'
  <2>0. ASSUME NEW pc \in PC, NEW todo \in SUBSET Todo(pc), Goto(p, pc, todo),
               ~At(p, "provision"), pc # "provision", UNCHANGED <<rows, creating, torn>>
        PROVE  Provisions'
    BY <2>0, ProvisionsGoto, Zenon
  <2>1. CASE TryLock(p)
    <3>1. Known[p] \ Range(applied) \subseteq Todo("migrate")
      BY FleetAssumption, Zenon DEF Todo
    <3> QED
      BY <2>0, <2>1, <3>1, Zenon DEF TryLock, At, PC
  <2>2. CASE LockTimeout(p)
    BY <2>2, ProvisionsExit, Zenon DEF LockTimeout
  <2>3. CASE Migrate(p)
    <3>1. PICK v \in proc[p].todo : Goto(p, "migrate", proc[p].todo \ {v})
      BY <2>3, Zenon DEF Migrate
    <3>2. proc[p].todo \ {v} \subseteq Todo("migrate")
      BY <2>3, TodoFits, Zenon DEF Migrate, At
    <3> QED
      BY <2>0, <2>3, <3>1, <3>2, Zenon DEF Migrate, At, PC
  <2>4. CASE MigrateFails(p)
    BY <2>4, ProvisionsExit, Zenon DEF MigrateFails
  <2>5. CASE Unlock(p)
    BY <2>0, <2>5, Zenon DEF Unlock, At, PC
  <2>6. CASE enforce_schema_compat(p)
    <3>1. CASE ~SchemaCompatible
      BY <2>6, <3>1, ProvisionsExit, Zenon DEF enforce_schema_compat
    <3>2. CASE SchemaCompatible
      BY <2>0, <2>6, <3>2, Zenon DEF enforce_schema_compat, At, PC, db
    <3> QED
      BY <3>1, <3>2, Zenon
  <2>7. CASE bootstrap_run(p)
    <3>1. CASE "realm" \in rows[Master]
      BY <2>0, <2>7, <3>1, Zenon DEF bootstrap_run, At, PC, db
    <3>2. CASE "realm" \notin rows[Master]
      <4>1. Goto(p, "provision", 1..Len(Parts))
        BY <2>7, <3>2, Zenon DEF bootstrap_run
      <4>2. Goto(p, "provision", 1..5)
        BY <4>1, PartNames, Zenon
      <4>3. ~At(p, "provision") /\ UNCHANGED <<rows, creating, torn>>
        BY <2>7, Zenon DEF bootstrap_run, At, db
      <4> QED
        BY <4>2, <4>3, ProvisionsTurn, Zenon
    <3> QED
      BY <3>1, <3>2, Zenon
  <2>8. CASE Provision(p)
    <3>1. PICK i \in proc[p].todo :
            /\ \A j \in proc[p].todo : i <= j
            /\ IF Parts[i] = "realm" /\ "realm" \in rows[Master]
               THEN Exit(p)
               ELSE /\ rows' = [rows EXCEPT ![Master] = @ \cup {Parts[i]}]
                    /\ Goto(p, "provision", proc[p].todo \ {i})
                    /\ UNCHANGED <<creating, torn>>
      BY <2>8, Zenon DEF Provision
    <3>2. CASE Parts[i] = "realm" /\ "realm" \in rows[Master]
      BY <3>1, <3>2, ProvisionsExit, Zenon
    <3>3. CASE ~(Parts[i] = "realm" /\ "realm" \in rows[Master])
      BY <2>8, <3>1, <3>3, ProvisionsWrite, Zenon DEF Provision
    <3> QED
      BY <3>2, <3>3, Zenon
  <2>9. CASE Provisioned(p)
    BY <2>9, ProvisionsTurn, Zenon DEF Provisioned, db
  <2>10. CASE ListRealms(p)
    <3>1. PICK found \in SUBSET Realm : Goto(p, "seed", found)
      BY <2>10, Zenon DEF ListRealms
    <3> QED
      BY <2>0, <2>10, <3>1, Zenon DEF ListRealms, At, PC, Todo, db
  <2>11. CASE Seed(p)
    <3>1. PICK r \in proc[p].todo : Goto(p, "seed", proc[p].todo \ {r})
      BY <2>11, Zenon DEF Seed
    <3>2. proc[p].todo \ {r} \subseteq Todo("seed")
      BY <2>11, TodoFits, Zenon DEF Seed, At
    <3> QED
      BY <2>0, <2>11, <3>1, <3>2, Zenon DEF Seed, At, PC, db
  <2>13. CASE SeedFails(p)
    <3>1. PICK r \in proc[p].todo : Goto(p, "seed", proc[p].todo \ {r})
      BY <2>13, Zenon DEF SeedFails
    <3>2. proc[p].todo \ {r} \subseteq Todo("seed")
      BY <2>13, TodoFits, Zenon DEF SeedFails, At
    <3> QED
      BY <2>0, <2>13, <3>1, <3>2, Zenon DEF SeedFails, At, PC, db
  <2>12. CASE Serve(p)
    BY <2>0, <2>12, Zenon DEF Serve, At, PC, db
  <2> QED
    BY <1>2, <2>1, <2>2, <2>3, <2>4, <2>5, <2>6, <2>7, <2>8, <2>9, <2>10, <2>11, <2>12, <2>13, Zenon DEF StartUp
<1>3. ASSUME NEW p \in Pod, Request(p) PROVE Provisions'
  <2>0. ASSUME UNCHANGED <<rows, creating, torn, proc>> PROVE Provisions'
    BY <2>0, ProvisionsFrame, Zenon
  <2>1. CASE CreateRealmFlows(p)
    BY <2>1, ProvisionsFlows, Zenon
  <2>2. CASE CreateRealmKeys(p)
    BY <2>2, ProvisionsEnd, Zenon DEF CreateRealmKeys, db
  <2>9. CASE CreateRealmKeysFails(p)
    BY <2>9, ProvisionsEnd, Zenon DEF CreateRealmKeysFails, db
  <2>3. CASE CreateRealmDropped(p)
    BY <2>3, ProvisionsEnd, Zenon DEF CreateRealmDropped, db
  <2>4. ASSUME NEW r \in Realm, CreateRealm(p, r) PROVE Provisions'
    BY <2>4, ProvisionsCreate, Zenon
  <2>5. ASSUME NEW r \in Realm, DeleteRealm(p, r) PROVE Provisions'
    BY <2>5, ProvisionsDelete, Zenon
  <2>6. ASSUME NEW r \in Realm, Mint(p, r) PROVE Provisions'
    BY <2>0, <2>6, Zenon DEF Mint
  <2>7. ASSUME NEW r \in Realm, CreateClient(p, r) PROVE Provisions'
    BY <2>0, <2>7, Zenon DEF CreateClient
  <2>8. ASSUME NEW q \in refresh, Revoke(p, q) PROVE Provisions'
    BY <2>0, <2>8, Zenon DEF Revoke
  <2> QED
    BY <1>3, <2>1, <2>2, <2>3, <2>4, <2>5, <2>6, <2>7, <2>8, <2>9, Zenon DEF Request
<1>4. ASSUME NEW p \in Pod, Crash(p) PROVE Provisions'
  BY <1>4, ProvisionsExit, Zenon DEF Crash
<1> QED
  BY <1>0, <1>1, <1>2, <1>3, <1>4, Zenon DEF Next

\* Whatever pods start together, fail, crash or restart, every migration is applied
\* once and in order, and every realm is whole, or written by one process, or was cut
\* short (run_with_leader_lock, bootstrap::run, handlers_v1::realms::create).
THEOREM StartsCorrect == Spec => []StartsOnce
<1>1. Init => Provisions
  <2>1. ASSUME Init PROVE Provisions
    BY <2>1, Zenon DEF Init, Provisions, MasterWritten, RealmWritten, Accounted, Writing, At
  <2> QED
    BY <2>1, Zenon
<1> QED
  BY <1>1, InitShape, NextShape, NextProvisions, ProvisionsOnce, MigrationsCorrect, PTL DEF Spec, StartsOnce

=============================================================================
