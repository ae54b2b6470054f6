------------------------- MODULE OrganizationsProofs -------------------------
(***************************************************************************)
(* An alias leads to at most one organization, which carries it; nothing    *)
(* is left below a deleted one but what the memory store leaves; a domain   *)
(* has one holder on Postgres; a join writes over no member it could see.   *)
(***************************************************************************)
EXTENDS MCOrganizations, TLAPS

\* What a request holds is of the right sort; only an update is given an alias.
ReqOK == \A t \in Task : req[t] # None /\ req[t].do = "update" => req[t].row.key \in Alias

\* The memory store's index is exact where it has an entry; Postgres has no two
\* organizations of one alias; an id not given out yet has no organization.
AliasOK ==
    /\ \A o \in Org : organizations[o] # None => o \in used
    /\ backend = "memory" =>
          \A a \in Alias : org_by_alias[a] # None => organizations[org_by_alias[a]] = a
    /\ backend = "postgres" =>
          \A o, p \in Org : organizations[o] = organizations[p] /\ organizations[o] # None => o = p

IInv == TypeOK /\ ReqOK /\ AliasOK

USE NoneAssumption

\* The initial state.
LEMMA InitInv == Init => IInv
  BY SMT DEF Init, IInv, TypeOK, ReqOK, AliasOK

\* Replacing, adding and removing rows of the right sort.
LEMMA ReplaceType ==
    ASSUME rows \subseteq Row, NEW r \in Row
    PROVE  Replace(r) \subseteq Row
  BY Zenon DEF Replace

\* A storage write of a row keeps the tables well formed.
LEMMA UpsertType ==
    ASSUME rows \subseteq Row, NEW r \in Row, upsert(r)
    PROVE  rows' \subseteq Row
<1>1. CASE memory_upsert(r)
  BY <1>1, ReplaceType, Zenon DEF memory_upsert
<1>2. CASE postgres_upsert_org_domain(r)
  <2>1. CASE rows' = rows \cup {r}
    BY <2>1, Zenon
  <2>2. ASSUME NEW q \in rows, rows' = (rows \ {q}) \cup {[q EXCEPT !.data = r.data]}
        PROVE  rows' \subseteq Row
    <3>1. [q EXCEPT !.data = r.data] \in Row
      BY <2>2, Zenon DEF Row
    <3> QED  BY <2>2, <3>1, Zenon
  <2> QED  BY <1>2, <2>1, <2>2, Zenon DEF postgres_upsert_org_domain
<1>3. CASE rows' = Replace(r) \/ rows' = rows \cup {r}
  BY <1>3, ReplaceType, Zenon
<1> QED
  BY <1>1, <1>2, <1>3, Zenon DEF upsert, postgres_upsert, postgres_upsert_org_membership,
     postgres_create_org_role, postgres_create_org_invitation,
     postgres_upsert_org_consent_policy, postgres_upsert_org_idp_binding

\* A handler that only records what it will do changes neither table.
LEMMA PendingInv ==
    ASSUME IInv, NEW t \in Task, NEW do, NEW o \in Org, NEW tb \in Table, NEW key \in Key,
           NEW data \in SUBSET Data,
           do \in {"update", "delete", "list", "check", "upsert", "set", "accept", "remove"},
           do = "update" => key \in Alias,
           Pending(t, do, o, tb, key, data),
           used \subseteq used', used' \subseteq Org \cup Role \cup Invitation
    PROVE  IInv'
<1> DEFINE R == [do |-> do, row |-> [table |-> tb, org |-> o, key |-> key, data |-> data]]
<1>1. R \in Request
  BY Zenon DEF Request, Row
<1>2. req' = [req EXCEPT ![t] = R]
  BY Zenon DEF Pending
<1>3. TypeOK'
  BY <1>1, <1>2 DEF IInv, TypeOK, Pending
<1>4. ReqOK'
  <2> SUFFICES ASSUME NEW s \in Task, req'[s] # None, req'[s].do = "update"
               PROVE  req'[s].row.key \in Alias
    BY Zenon DEF ReqOK
  <2>1. CASE s = t
    <3>1. req'[s] = R
      BY <1>2, <2>1, Zenon DEF IInv, TypeOK
    <3> QED  BY <3>1
  <2>2. CASE s # t
    <3>1. req'[s] = req[s]
      BY <1>2, <2>2, Zenon DEF IInv, TypeOK
    <3> QED  BY <3>1, Zenon DEF IInv, ReqOK
  <2> QED  BY <2>1, <2>2, Zenon
<1>5. AliasOK'
  BY Zenon DEF IInv, AliasOK, Pending
<1> QED  BY <1>3, <1>4, <1>5, Zenon DEF IInv

\* Every handler, up to its last read.
LEMMA HandlerInv ==
    ASSUME IInv, NEW t \in Task, Handler(t)
    PROVE  IInv'
<1>0. /\ used \subseteq Org \cup Role \cup Invitation
      /\ rows \subseteq Row
      /\ {} \in SUBSET Data
      /\ Alias \cup Domain \cup User \cup Role \cup Invitation \cup Client \cup Idp \cup {None}
            \subseteq Key
      /\ \A a \in Alias : by_alias(a) \subseteq Org
      /\ {"organization", "domain", "membership", "role", "invitation", "policy", "binding"}
            \subseteq Table
  BY Zenon DEF IInv, TypeOK, by_alias, memory_by_alias, postgres_by_alias, Live, Key, Table
<1>1. ASSUME NEW a \in Alias, NEW o \in by_alias(a), NEW b \in Alias,
             update(t, o, b)
      PROVE  IInv'
  <2>1. Pending(t, "update", o, "organization", b, {}) /\ used' = used
    BY <1>1, Zenon DEF update, Asks
  <2> QED  BY <1>0, <2>1, PendingInv, Zenon
<1>2. ASSUME NEW a \in Alias, NEW o \in by_alias(a),
             delete_(t, o)
      PROVE  IInv'
  <2>1. Pending(t, "delete", o, "organization", None, {}) /\ used' = used
    BY <1>2, Zenon DEF delete_, Asks
  <2> QED  BY <1>0, <2>1, PendingInv, Zenon
<1>3. ASSUME NEW a \in Alias, NEW o \in by_alias(a), NEW d \in Domain,
             add_domain(t, o, d)
      PROVE  IInv'
  <2>1. Pending(t, "upsert", o, "domain", d, {}) /\ used' = used
    BY <1>3, Zenon DEF add_domain, Asks
  <2> QED  BY <1>0, <2>1, PendingInv, Zenon
<1>4. ASSUME NEW a \in Alias, NEW o \in by_alias(a), NEW d \in Domain,
             remove_domain(t, o, d)
      PROVE  IInv'
  <2>1. Pending(t, "remove", o, "domain", d, {}) /\ used' = used
    BY <1>4, Zenon DEF remove_domain, Asks
  <2> QED  BY <1>0, <2>1, PendingInv, Zenon
<1>5. ASSUME NEW a \in Alias, NEW o \in by_alias(a), NEW d \in Domain,
             mark_domain_verified(t, o, d)
      PROVE  IInv'
  <2>1. Pending(t, "list", o, "domain", d, {"verified"}) /\ used' = used
    BY <1>5, Zenon DEF mark_domain_verified, Asks
  <2>2. {"verified"} \in SUBSET Data  BY Zenon DEF Data
  <2> QED  BY <1>0, <2>1, <2>2, PendingInv
<1>6. ASSUME NEW a \in Alias, NEW o \in by_alias(a), NEW u \in User, NEW rs \in SUBSET Role,
             add_member(t, o, u, rs)
      PROVE  IInv'
  <2>1. Pending(t, "upsert", o, "membership", u, rs) /\ used' = used
    BY <1>6, Zenon DEF add_member, Asks
  <2>2. rs \in SUBSET Data  BY Zenon DEF Data
  <2> QED  BY <1>0, <2>1, <2>2, PendingInv, Zenon
<1>7. ASSUME NEW a \in Alias, NEW o \in by_alias(a), NEW u \in User,
             remove_member(t, o, u)
      PROVE  IInv'
  <2>1. Pending(t, "remove", o, "membership", u, {}) /\ used' = used
    BY <1>7, Zenon DEF remove_member, Asks
  <2> QED  BY <1>0, <2>1, PendingInv, Zenon
<1>8. ASSUME NEW a \in Alias, NEW o \in by_alias(a), NEW i \in Invitation,
             create_invitation(t, o, i)
      PROVE  IInv'
  <2>1. Pending(t, "upsert", o, "invitation", i, {}) /\ used' = used \cup {i}
    BY <1>8, Zenon DEF create_invitation, Issues
  <2> QED  BY <1>0, <2>1, PendingInv, Zenon
<1>9. ASSUME NEW a \in Alias, NEW o \in by_alias(a), NEW r \in Role, NEW n \in RoleName,
             create_role(t, o, r, n)
      PROVE  IInv'
  <2>1. Pending(t, "upsert", o, "role", r, {n}) /\ used' = used \cup {r}
    BY <1>9, Zenon DEF create_role, Issues
  <2>2. {n} \in SUBSET Data  BY Zenon DEF Data
  <2> QED  BY <1>0, <2>1, <2>2, PendingInv, Zenon
<1>10. ASSUME NEW a \in Alias, NEW o \in by_alias(a), NEW c \in Client,
             upsert_consent_policy(t, o, c)
      PROVE  IInv'
  <2>1. Pending(t, "upsert", o, "policy", c, {}) /\ used' = used
    BY <1>10, Zenon DEF upsert_consent_policy, Asks
  <2> QED  BY <1>0, <2>1, PendingInv, Zenon
<1>11. ASSUME NEW a \in Alias, NEW o \in by_alias(a), NEW c \in Client,
             delete_consent_policy(t, o, c)
      PROVE  IInv'
  <2>1. Pending(t, "remove", o, "policy", c, {}) /\ used' = used
    BY <1>11, Zenon DEF delete_consent_policy, Asks
  <2> QED  BY <1>0, <2>1, PendingInv, Zenon
<1>12. ASSUME NEW a \in Alias, NEW o \in by_alias(a), NEW i \in Idp,
             upsert_idp_binding(t, o, i)
      PROVE  IInv'
  <2>1. Pending(t, "upsert", o, "binding", i, {}) /\ used' = used
    BY <1>12, Zenon DEF upsert_idp_binding, Asks
  <2> QED  BY <1>0, <2>1, PendingInv, Zenon
<1>13. ASSUME NEW a \in Alias, NEW o \in by_alias(a), NEW i \in Idp,
             remove_idp_binding(t, o, i)
      PROVE  IInv'
  <2>1. Pending(t, "remove", o, "binding", i, {}) /\ used' = used
    BY <1>13, Zenon DEF remove_idp_binding, Asks
  <2> QED  BY <1>0, <2>1, PendingInv, Zenon
<1>14. ASSUME NEW i \in Invitation, accept_invitation(t, i)
      PROVE  IInv'
  <2>1. PICK q \in rows : Pending(t, "accept", q.org, q.table, i, {}) /\ used' = used
    BY <1>14, Zenon DEF accept_invitation, Asks
  <2>2. q.org \in Org /\ q.table \in Table /\ {} \in SUBSET Data  BY <1>0, Zenon DEF Row, Data
  <2> QED  BY <1>0, <2>1, <2>2, PendingInv, Zenon
<1>15. ASSUME NEW r \in Role, delete_role(t, r)
      PROVE  IInv'
  <2>1. PICK q \in rows : Pending(t, "remove", q.org, q.table, r, q.data) /\ used' = used
    BY <1>15, Zenon DEF delete_role, Asks
  <2>2. q.org \in Org /\ q.table \in Table /\ q.data \in SUBSET Data  BY <1>0, Zenon DEF Row, Data
  <2> QED  BY <1>0, <2>1, <2>2, PendingInv
<1>16. ASSUME NEW r \in Role, NEW n \in RoleName, update_role(t, r, n)
      PROVE  IInv'
  <2>1. PICK q \in rows : Pending(t, "set", q.org, q.table, r, {n}) /\ used' = used
    BY <1>16, Zenon DEF update_role, Asks
  <2>2. q.org \in Org /\ q.table \in Table /\ {n} \in SUBSET Data  BY <1>0, Zenon DEF Row, Data
  <2> QED  BY <1>0, <2>1, <2>2, PendingInv, Zenon
<1>17. ASSUME NEW u \in User, NEW d \in Domain, auto_join_org_by_domain(t, u, d)
      PROVE  IInv'
  <2>1. PICK o \in find_org_by_verified_domain(d) :
              Pending(t, "check", o, "membership", u, {}) /\ used' = used
    BY <1>17, Zenon DEF auto_join_org_by_domain, Asks
  <2>2. o \in Org  BY Zenon DEF find_org_by_verified_domain, memory_find_by_domain, Live
  <2> QED  BY <1>0, <2>1, <2>2, PendingInv, Zenon
<1> QED
  BY <1>1, <1>2, <1>3, <1>4, <1>5, <1>6, <1>7, <1>8, <1>9, <1>10, <1>11, <1>12, <1>13, <1>14, <1>15, <1>16, <1>17, Zenon DEF Handler

\* A request for an update of the organization carries an alias when it is made.
LEMMA ChangeOrganizationInv ==
    ASSUME IInv, NEW t \in Task, ChangeOrganization(t)
    PROVE  IInv'
<1> DEFINE o == req[t].row.org
           a == req[t].row.key
<1>1. req[t] \in Request /\ o \in Org
  BY Zenon DEF IInv, TypeOK, ChangeOrganization, Does, Request, Row
<1>2. ReqOK'
  BY Zenon DEF IInv, TypeOK, ReqOK, ChangeOrganization, Done
<1>3. CASE Does(t, "update") /\ update_organization(o, a) /\ UNCHANGED rows
  <2>1. a \in Alias
    BY <1>3, Zenon DEF IInv, ReqOK, Does
  <2>2. TypeOK'
    BY <1>1, <1>3, <2>1, Zenon DEF IInv, TypeOK, ChangeOrganization, Done, update_organization,
       memory_update_organization, postgres_update_organization
  <2>3. AliasOK'
    <3>1. CASE backend = "memory" /\ memory_update_organization(o, a)
      <4>1. /\ o \in used' /\ backend' = "memory"
            /\ organizations' = [organizations EXCEPT ![o] = a]
        BY <1>1, <3>1, Zenon DEF IInv, AliasOK, ChangeOrganization, memory_update_organization
      <4>2. \A p \in Org : organizations'[p] # None => p \in used'
        BY <4>1, Zenon DEF IInv, TypeOK, AliasOK, ChangeOrganization
      <4>3. ASSUME NEW b \in Alias, org_by_alias'[b] # None
            PROVE  organizations'[org_by_alias'[b]] = b
        <5>1. CASE organizations[o] = a
          BY <1>1, <2>1, <3>1, <4>1, <4>3, <5>1 DEF IInv, TypeOK, AliasOK, memory_update_organization
        <5>2. CASE organizations[o] # a /\ b = a
          BY <1>1, <2>1, <3>1, <4>1, <4>3, <5>2 DEF IInv, TypeOK, AliasOK, memory_update_organization
        <5>3. CASE organizations[o] # a /\ b # a
          <6>1. org_by_alias'[b] = org_by_alias[b] /\ b # organizations[o]
            BY <1>1, <2>1, <3>1, <4>3, <5>3 DEF IInv, TypeOK, memory_update_organization
          <6>2. organizations[org_by_alias[b]] = b /\ org_by_alias[b] # o
            BY <3>1, <4>3, <6>1, Zenon DEF IInv, AliasOK
          <6> QED
            BY <1>1, <4>1, <4>3, <6>1, <6>2 DEF IInv, TypeOK
        <5> QED
          BY <5>1, <5>2, <5>3, Zenon
      <4> QED
        BY <4>1, <4>2, <4>3 DEF AliasOK
    <3>2. CASE backend = "postgres" /\ postgres_update_organization(o, a)
      BY <1>1, <2>1, <3>2 DEF IInv, TypeOK, AliasOK, ChangeOrganization,
         postgres_update_organization, postgres_by_alias, Live
    <3> QED  BY <1>3, <3>1, <3>2, Zenon DEF update_organization
  <2> QED  BY <1>2, <2>2, <2>3, Zenon DEF IInv
<1>4. CASE Does(t, "delete") /\ delete_organization(o)
  <2>1. TypeOK'
    BY <1>1, <1>4, Zenon DEF IInv, TypeOK, ChangeOrganization, Done, delete_organization,
       memory_delete_organization, postgres_delete_organization
  <2>2. AliasOK'
    <3>1. CASE backend = "memory" /\ memory_delete_organization(o)
      BY <1>1, <3>1 DEF IInv, TypeOK, AliasOK, ChangeOrganization, memory_delete_organization
    <3>2. CASE backend = "postgres" /\ postgres_delete_organization(o)
      BY <1>1, <3>2 DEF IInv, TypeOK, AliasOK, ChangeOrganization, postgres_delete_organization
    <3> QED  BY <1>4, <3>1, <3>2, Zenon DEF delete_organization
  <2> QED  BY <1>2, <2>1, <2>2, Zenon DEF IInv
<1> QED  BY <1>3, <1>4, Zenon DEF ChangeOrganization

\* Every row after a change of one row has the key of a row before.
LEMMA ChangeRowKeys ==
    ASSUME TypeOK, NEW t \in Task, ChangeRow(t)
    PROVE  /\ rows' \subseteq Row
           /\ \A q \in rows' : \E p \in rows : SameKey(p, q)
<1>0. rows \subseteq Row /\ req[t] \in Request
  BY Zenon DEF TypeOK, ChangeRow, Does
<1>1. ASSUME NEW q \in rows, NEW d \in SUBSET Data,
             rows' = (rows \ {q}) \cup {[q EXCEPT !.data = d]}
      PROVE  /\ rows' \subseteq Row
             /\ \A p \in rows' : \E r \in rows : SameKey(r, p)
  <2>1. [q EXCEPT !.data = d] \in Row /\ SameKey(q, [q EXCEPT !.data = d])
    BY <1>0, Zenon DEF Row, SameKey
  <2> QED  BY <1>0, <1>1, <2>1, Zenon DEF SameKey
<1>2. CASE update_org_role(req[t].row)
  BY <1>0, <1>1, <1>2, Zenon DEF update_org_role, Request, Row
<1>3. CASE mark_org_invitation_accepted(req[t].row)
  <2>1. {"accepted"} \in SUBSET Data  BY Zenon DEF Data
  <2> QED  BY <1>1, <1>3, <2>1, Zenon DEF mark_org_invitation_accepted
<1>4. CASE remove(req[t].row)
  BY <1>0, <1>4, Zenon DEF remove, SameKey
<1> QED  BY <1>2, <1>3, <1>4, Zenon DEF ChangeRow

\* Every step keeps the types and the aliases.
LEMMA NextInv == IInv /\ [Next]_vars => IInv'
<1> SUFFICES ASSUME IInv, [Next]_vars  PROVE IInv'
  BY Zenon
<1>1. ASSUME NEW o \in Org, NEW a \in Alias, create(o, a)
      PROVE  IInv'
  <2>1. TypeOK' /\ ReqOK'
    BY <1>1 DEF IInv, TypeOK, ReqOK, create, create_organization, memory_create_organization,
       postgres_create_organization
  <2>2. AliasOK'
    BY <1>1 DEF IInv, TypeOK, AliasOK, create, create_organization, memory_create_organization,
       postgres_create_organization, postgres_by_alias, Live
  <2> QED  BY <2>1, <2>2, Zenon DEF IInv
<1>2. ASSUME NEW t \in Task, list_org_domains(t)
      PROVE  IInv'
  <2>1. req[t] \in Request  BY <1>2, Zenon DEF IInv, TypeOK, list_org_domains, Does
  <2>2. [req[t] EXCEPT !.do = "upsert"] \in Request  BY <2>1, Zenon DEF Request
  <2>3. [req[t] EXCEPT !.do = "upsert"].do = "upsert"  BY <2>1, Zenon DEF Request
  <2> QED  BY <1>2, <2>2, <2>3, Zenon DEF IInv, TypeOK, ReqOK, AliasOK, list_org_domains
<1>3. ASSUME NEW t \in Task, get_org_membership(t)
      PROVE  IInv'
  <2>1. req[t] \in Request  BY <1>3, Zenon DEF IInv, TypeOK, get_org_membership, Does
  <2>2. [req[t] EXCEPT !.do = "join"] \in Request  BY <2>1, Zenon DEF Request
  <2>3. [req[t] EXCEPT !.do = "join"].do = "join"  BY <2>1, Zenon DEF Request
  <2>4. PICK q \in {None, [req[t] EXCEPT !.do = "join"]} : req' = [req EXCEPT ![t] = q]
    BY <1>3, Zenon DEF get_org_membership
  <2>5. /\ q \in Request \cup {None} /\ (q # None => q.do # "update")
        /\ unseen' \subseteq Task
    BY <1>3, <2>2, <2>3, Zenon DEF IInv, TypeOK, get_org_membership
  <2>6. UNCHANGED <<backend, organizations, org_by_alias, rows, used, late, overtaken>>
    BY <1>3, Zenon DEF get_org_membership
  <2> QED  BY <2>4, <2>5, <2>6, Zenon DEF IInv, TypeOK, ReqOK, AliasOK
<1>4. ASSUME NEW t \in Task, Upsert(t)
      PROVE  IInv'
  <2>1. req[t] \in Request /\ req[t].row \in Row /\ req[t].row.org \in Org
    BY <1>4, Zenon DEF IInv, TypeOK, Upsert, Does, Request, Row
  <2>2. rows' \subseteq Row
    BY <1>4, <2>1, UpsertType, Zenon DEF IInv, TypeOK, Upsert
  <2> QED  BY <1>4, <2>1, <2>2, Zenon DEF IInv, TypeOK, ReqOK, AliasOK, Upsert
<1>5. ASSUME NEW t \in Task, ChangeRow(t)
      PROVE  IInv'
  BY <1>5, ChangeRowKeys, Zenon DEF IInv, TypeOK, ReqOK, AliasOK, ChangeRow, Done
<1>6. ASSUME NEW t \in Task, Drop(t)
      PROVE  IInv'
  BY <1>6, Zenon DEF IInv, TypeOK, ReqOK, AliasOK, Drop, Done
<1>7. CASE UNCHANGED vars
  BY <1>7, Zenon DEF IInv, TypeOK, ReqOK, AliasOK, vars
<1> QED
  BY <1>1, <1>2, <1>3, <1>4, <1>5, <1>6, <1>7, HandlerInv, ChangeOrganizationInv, Zenon DEF Next

\* The tables and the requests of Organizations keep their types.
THEOREM TypeCorrect == Spec => []TypeOK
<1>1. IInv => TypeOK  BY Zenon DEF IInv
<1> QED  BY <1>1, InitInv, NextInv, PTL DEF Spec

\* The alias invariant gives what the handlers rely on.
LEMMA AliasImplies == IInv => LookupSound
  BY SMT DEF IInv, TypeOK, AliasOK, LookupSound, by_alias, memory_by_alias, postgres_by_alias, Live

\* get_organization_by_alias: in either backend, for any number of requests,
\* organizations and aliases, an alias leads to at most one organization and that
\* one carries it.
THEOREM LookupCorrect == Spec => []LookupSound
  BY InitInv, NextInv, AliasImplies, PTL DEF Spec

-----------------------------------------------------------------------------
\* A join that is about to write sees no member, or was overtaken or could not look.
JoinOK == \A t \in Task : Does(t, "join") /\ Found(req[t].row) => t \in overtaken \cup unseen

RowInv == NoOrphans /\ DomainHeldOnce /\ JoinOK

\* After a storage write of r every row has the key of r or of a row before; on
\* Postgres a row under a new key belongs to a live organization.
LEMMA UpsertKeys ==
    ASSUME rows \subseteq Row, NEW r \in Row, upsert(r), backend \in {"memory", "postgres"}
    PROVE  \A q \in rows' :
              \/ \E p \in rows : SameKey(p, q)
              \/ SameKey(q, r) /\ (backend = "postgres" => r.org \in Live)
<1>1. CASE backend = "memory" /\ memory_upsert(r)
  BY <1>1, Zenon DEF memory_upsert, Replace, SameKey
<1>2. CASE postgres_upsert_org_domain(r)
  <2>1. CASE r.org \in Live /\ rows' = rows \cup {r}
    BY <2>1, Zenon DEF SameKey
  <2>2. ASSUME NEW q \in rows, rows' = (rows \ {q}) \cup {[q EXCEPT !.data = r.data]}
        PROVE  \A x \in rows' : \E p \in rows : SameKey(p, x)
    <3>1. SameKey(q, [q EXCEPT !.data = r.data])
      BY <2>2, Zenon DEF SameKey, Row
    <3> QED  BY <2>2, <3>1, Zenon DEF SameKey
  <2> QED  BY <1>2, <2>1, <2>2, Zenon DEF postgres_upsert_org_domain
<1>3. CASE r.org \in Live /\ (rows' = Replace(r) \/ rows' = rows \cup {r})
  BY <1>3, Zenon DEF Replace, SameKey
<1> QED
  BY <1>1, <1>2, <1>3, Zenon DEF upsert, postgres_upsert, postgres_upsert_org_membership,
     postgres_create_org_role, postgres_create_org_invitation,
     postgres_upsert_org_consent_policy, postgres_upsert_org_idp_binding

\* Exchanging a row for one with the same id leaves every domain with one row.
LEMMA SwapHeld ==
    ASSUME NEW S, \A q, x \in S : q.table = "domain" /\ SameId(q, x) => q = x,
           NEW q \in S, NEW z, SameId(q, z)
    PROVE  \A x, y \in (S \ {q}) \cup {z} : x.table = "domain" /\ SameId(x, y) => x = y
  BY Zenon DEF SameId

\* On Postgres a write leaves every domain with one row.
LEMMA UpsertHeld ==
    ASSUME rows \subseteq Row, NEW r \in Row, upsert(r), DomainHeldOnce, backend = "postgres"
    PROVE  \A q, x \in rows' : q.table = "domain" /\ SameId(q, x) => q = x
<1>0. postgres_upsert(r)
  BY Zenon DEF upsert
<1>1. \A q, x \in rows : q.table = "domain" /\ SameId(q, x) => q = x
  BY Zenon DEF DomainHeldOnce
<1>2. CASE r.table = "domain" /\ postgres_upsert_org_domain(r)
  <2>1. CASE (~ \E q \in rows : SameId(q, r)) /\ rows' = rows \cup {r}
    BY <1>1, <2>1 DEF SameId
  <2>2. ASSUME NEW q \in rows, SameId(q, r),
               rows' = (rows \ {q}) \cup {[q EXCEPT !.data = r.data]}
        PROVE  \A x, y \in rows' : x.table = "domain" /\ SameId(x, y) => x = y
    <3>1. SameId(q, [q EXCEPT !.data = r.data])
      BY <2>2, Zenon DEF SameId, Row
    <3> QED  BY <1>1, <2>2, <3>1, SwapHeld
  <2> QED  BY <1>2, <2>1, <2>2, Zenon DEF postgres_upsert_org_domain
<1>3. CASE r.table # "domain" /\ (rows' = Replace(r) \/ rows' = rows \cup {r})
  BY <1>1, <1>3, Zenon DEF Replace, SameId
<1> QED
  BY <1>0, <1>2, <1>3, Zenon DEF postgres_upsert, postgres_upsert_org_membership,
     postgres_create_org_role, postgres_create_org_invitation,
     postgres_upsert_org_consent_policy, postgres_upsert_org_idp_binding

\* A write by any request, a join's included.
LEMMA UpsertRow ==
    ASSUME IInv, RowInv, NEW t \in Task, Upsert(t)
    PROVE  RowInv'
<1> DEFINE r == req[t].row
<1>0. /\ rows \subseteq Row /\ r \in Row /\ upsert(r)
      /\ backend \in {"memory", "postgres"} /\ backend' = backend
      /\ Live' = Live /\ late' = late \cup ({r.org} \ Live)
      /\ req' = [req EXCEPT ![t] = None] /\ req \in [Task -> Request \cup {None}]
      /\ overtaken' = (overtaken \cup {s \in Task : Does(s, "join") /\ SameKey(req[s].row, r)}) \ {t}
      /\ unseen' = unseen \ {t}
  BY Zenon DEF IInv, TypeOK, Upsert, Does, Request, Live
<1>1. \A q \in rows' :
         \/ \E p \in rows : SameKey(p, q)
         \/ SameKey(q, r) /\ (backend = "postgres" => r.org \in Live)
  BY <1>0, UpsertKeys, Zenon
<1>2. NoOrphans'
  BY <1>0, <1>1, Zenon DEF RowInv, NoOrphans, SameKey
<1>3. DomainHeldOnce'
  BY <1>0, UpsertHeld, Zenon DEF RowInv, DomainHeldOnce, SameId
<1>4. JoinOK'
  <2> SUFFICES ASSUME NEW s \in Task, Does(s, "join")', Found(req[s].row)'
               PROVE  s \in overtaken' \cup unseen'
    BY Zenon DEF JoinOK
  <2>1. s # t /\ req'[s] = req[s] /\ Does(s, "join")
    BY <1>0, Zenon DEF Does
  <2>2. PICK q \in rows' : SameKey(q, req[s].row)
    BY <2>1, Zenon DEF Found, SameKey
  <2>3. CASE \E p \in rows : SameKey(p, q)
    BY <1>0, <2>1, <2>2, <2>3 DEF RowInv, JoinOK, Found, SameKey
  <2>4. CASE SameKey(q, r)
    BY <1>0, <2>1, <2>2, <2>4, Zenon DEF SameKey
  <2> QED  BY <1>1, <2>3, <2>4, Zenon
<1> QED  BY <1>2, <1>3, <1>4, Zenon DEF RowInv

\* A step that only removes rows or rewrites their data, and starts no join.
LEMMA ShrinkRow ==
    ASSUME IInv, RowInv, NEW t \in Task,
           \A q \in rows' : \E p \in rows : SameKey(p, q),
           backend' = backend, Live' = Live, late' = late, Done(t)
    PROVE  NoOrphans' /\ JoinOK'
<1>1. NoOrphans'
  BY Zenon DEF RowInv, NoOrphans, SameKey
<1>2. JoinOK'
  <2> SUFFICES ASSUME NEW s \in Task, Does(s, "join")', Found(req[s].row)'
               PROVE  s \in overtaken' \cup unseen'
    BY Zenon DEF JoinOK
  <2>1. s # t /\ req'[s] = req[s] /\ Does(s, "join")
    BY Zenon DEF Does, Done, IInv, TypeOK
  <2>2. PICK q \in rows' : SameKey(q, req[s].row)
    BY <2>1, Zenon DEF Found, SameKey
  <2> QED  BY <2>1, <2>2 DEF RowInv, JoinOK, Found, SameKey, Done
<1> QED  BY <1>1, <1>2, Zenon

\* Domains stay with one holder when one row changes its data or goes.
LEMMA ChangeRowHeld ==
    ASSUME IInv, DomainHeldOnce, NEW t \in Task, ChangeRow(t)
    PROVE  DomainHeldOnce'
<1>0. rows \subseteq Row /\ backend' = backend
  BY Zenon DEF IInv, TypeOK, ChangeRow
<1> SUFFICES ASSUME backend = "postgres"
             PROVE  \A q, x \in rows' : q.table = "domain" /\ SameId(q, x) => q = x
  BY <1>0, Zenon DEF DomainHeldOnce, SameId
<1>1. \A q, x \in rows : q.table = "domain" /\ SameId(q, x) => q = x
  BY Zenon DEF DomainHeldOnce
<1>2. ASSUME NEW q \in rows, NEW d, rows' = (rows \ {q}) \cup {[q EXCEPT !.data = d]}
      PROVE  \A x, y \in rows' : x.table = "domain" /\ SameId(x, y) => x = y
  <2>1. SameId(q, [q EXCEPT !.data = d])
    BY <1>0, Zenon DEF SameId, Row
  <2> QED  BY <1>1, <1>2, <2>1, SwapHeld
<1>3. CASE remove(req[t].row)
  BY <1>1, <1>3, Zenon DEF remove
<1> QED
  BY <1>2, <1>3, Zenon DEF ChangeRow, update_org_role, mark_org_invitation_accepted

\* A deleted organization takes its rows with it, all of them or, in the memory
\* store, all but roles and invitations.
LEMMA ChangeOrganizationRow ==
    ASSUME IInv, RowInv, NEW t \in Task, ChangeOrganization(t)
    PROVE  RowInv'
<1> DEFINE o == req[t].row.org
           a == req[t].row.key
<1>0. /\ rows' \subseteq rows /\ backend' = backend /\ late' = late /\ Done(t)
      /\ organizations \in [Org -> Alias \cup {None}]
      /\ req \in [Task -> Request \cup {None}]
  BY Zenon DEF IInv, TypeOK, ChangeOrganization, delete_organization,
     memory_delete_organization, postgres_delete_organization
<1>1. NoOrphans'
  <2>1. CASE Does(t, "update") /\ update_organization(o, a) /\ UNCHANGED rows
    <3>1. a \in Alias
      BY <2>1, Zenon DEF IInv, ReqOK, Does
    <3>2. Live' = Live
      BY <1>0, <2>1, <3>1, Zenon DEF Live, update_organization, memory_update_organization,
         postgres_update_organization
    <3> QED  BY <1>0, <2>1, <3>2, Zenon DEF RowInv, NoOrphans
  <2>2. CASE Does(t, "delete") /\ delete_organization(o)
    <3>1. Live' = Live \ {o}
      BY <1>0, <2>2, Zenon DEF Live, delete_organization, memory_delete_organization,
         postgres_delete_organization
    <3> QED  BY <1>0, <2>2, <3>1, Zenon DEF RowInv, NoOrphans, delete_organization,
             memory_delete_organization, postgres_delete_organization
  <2> QED  BY <2>1, <2>2, Zenon DEF ChangeOrganization
<1>2. DomainHeldOnce'
  BY <1>0, Zenon DEF RowInv, DomainHeldOnce, SameId
<1>3. JoinOK'
  BY <1>0, Zenon DEF RowInv, JoinOK, Does, Done, Found, SameKey
<1> QED  BY <1>1, <1>2, <1>3, Zenon DEF RowInv

\* The reads that a request makes, and handlers up to there.
LEMMA ReadRow ==
    ASSUME IInv, RowInv, NEW t \in Task,
           Handler(t) \/ list_org_domains(t) \/ get_org_membership(t)
    PROVE  RowInv'
<1>0. req \in [Task -> Request \cup {None}]
  BY Zenon DEF IInv, TypeOK
<1>1. CASE list_org_domains(t)
  <2>1. req[t] \in Request /\ [req[t] EXCEPT !.do = "upsert"].do # "join"
    BY <1>0, <1>1, Zenon DEF list_org_domains, Does, Request
  <2> QED  BY <1>0, <1>1, <2>1, Zenon DEF RowInv, NoOrphans, DomainHeldOnce, JoinOK, list_org_domains,
           Live, Found, SameKey, SameId, Does
<1>2. CASE get_org_membership(t)
  <2>1. /\ req[t] \in Request
        /\ [req[t] EXCEPT !.do = "join"].row = req[t].row
    BY <1>0, <1>2, Zenon DEF get_org_membership, Does, Request
  <2>2. NoOrphans' /\ DomainHeldOnce'
    BY <1>2, Zenon DEF RowInv, NoOrphans, DomainHeldOnce, get_org_membership, Live, SameId
  <2>3. JoinOK'
    <3>1. /\ rows' = rows /\ overtaken' = overtaken /\ unseen \subseteq unseen'
          /\ \A s \in Task \ {t} : req'[s] = req[s]
          /\ \/ req'[t] = None
             \/ req'[t].row = req[t].row /\ ~ Found(req[t].row)
             \/ t \in unseen'
      BY <1>0, <1>2, <2>1 DEF get_org_membership
    <3> QED  BY <3>1, Zenon DEF RowInv, JoinOK, Found, SameKey, Does
  <2> QED  BY <2>2, <2>3, Zenon DEF RowInv
<1>3. ASSUME NEW do, NEW o, NEW tb, NEW key, NEW data, do # "join",
             Pending(t, do, o, tb, key, data)
      PROVE  RowInv'
  BY <1>0, <1>3, Zenon DEF RowInv, NoOrphans, DomainHeldOnce, JoinOK, Pending, Live, Found, SameKey,
     SameId, Does
<1>4. CASE Handler(t)
  BY <1>3, <1>4, Zenon DEF Handler, Asks, Issues, update, delete_, add_domain, remove_domain,
     mark_domain_verified, add_member, remove_member, create_invitation, accept_invitation,
     create_role, update_role, delete_role, upsert_consent_policy, delete_consent_policy,
     upsert_idp_binding, remove_idp_binding, auto_join_org_by_domain
<1> QED  BY <1>1, <1>2, <1>4, Zenon

\* Every step keeps the rows as they should be.
LEMMA NextRow == IInv /\ RowInv /\ [Next]_vars => RowInv'
<1> SUFFICES ASSUME IInv, RowInv, [Next]_vars  PROVE RowInv'
  BY Zenon
<1>1. ASSUME NEW o \in Org, NEW a \in Alias, create(o, a)
      PROVE  RowInv'
  <2>1. Live \subseteq Live'
    BY <1>1, Zenon DEF IInv, TypeOK, Live, create, create_organization, memory_create_organization,
       postgres_create_organization
  <2> QED  BY <1>1, <2>1, Zenon DEF RowInv, NoOrphans, DomainHeldOnce, JoinOK, create, Found, SameKey,
           SameId, Does
<1>2. ASSUME NEW t \in Task, ChangeRow(t)
      PROVE  RowInv'
  <2>1. \A q \in rows' : \E p \in rows : SameKey(p, q)
    BY <1>2, ChangeRowKeys, Zenon DEF IInv
  <2>2. backend' = backend /\ Live' = Live /\ late' = late /\ Done(t)
    BY <1>2, Zenon DEF ChangeRow, Live
  <2>3. DomainHeldOnce'
    BY <1>2, ChangeRowHeld, Zenon DEF RowInv
  <2> QED  BY <2>1, <2>2, <2>3, ShrinkRow, Zenon DEF RowInv
<1>3. ASSUME NEW t \in Task, Drop(t)
      PROVE  RowInv'
  BY <1>3 DEF IInv, TypeOK, RowInv, NoOrphans, DomainHeldOnce, JoinOK, Drop, Done, Live, Found,
     SameKey, SameId, Does
<1>4. CASE UNCHANGED vars
  BY <1>4, Zenon DEF RowInv, NoOrphans, DomainHeldOnce, JoinOK, vars, Live, Found, SameKey, SameId, Does
<1> QED
  BY <1>1, <1>2, <1>3, <1>4, ReadRow, UpsertRow, ChangeOrganizationRow, Zenon DEF Next

\* The initial tables are empty.
LEMMA InitRow == Init => RowInv
  BY Zenon DEF Init, RowInv, NoOrphans, DomainHeldOnce, JoinOK, Does

\* Both invariants together.
LEMMA AllInv == Spec => [](IInv /\ RowInv)
  BY InitInv, NextInv, InitRow, NextRow, PTL DEF Spec

\* delete_organization: on Postgres nothing is left below a deleted organization;
\* in the memory store only its roles and invitations, and what a request that was
\* already under way wrote after the delete.
THEOREM OrphansCorrect == Spec => []NoOrphans
<1>1. RowInv => NoOrphans  BY Zenon DEF RowInv
<1> QED  BY <1>1, AllInv, PTL

\* upsert_org_domain on Postgres: a domain has one holder at any time.
THEOREM HolderCorrect == Spec => []DomainHeldOnce
<1>1. RowInv => DomainHeldOnce  BY Zenon DEF RowInv
<1> QED  BY <1>1, AllInv, PTL

\* auto_join_org_by_domain: a join writes over a membership only if that was added
\* between the join's look and its write, or if the look itself failed.
THEOREM JoinCorrect == Spec => JoinKeepsMember
<1>1. IInv /\ RowInv /\ [Next]_vars =>
         [\A t \in Task :
             Does(t, "join") /\ Found(req[t].row) /\ rows' # rows /\ req'[t] = None
                 => t \in overtaken \cup unseen]_vars
  BY Zenon DEF RowInv, JoinOK
<1> QED  BY <1>1, AllInv, PTL DEF Spec, JoinKeepsMember

\* Whatever requests overlap, an alias leads to its organization, no row is left
\* below a deleted one and a domain has one holder, as far as each backend goes.
THEOREM RowsCorrect == Spec => []RowsSound
BY LookupCorrect, OrphansCorrect, HolderCorrect, PTL DEF RowsSound

-----------------------------------------------------------------------------
\* The versions of the browser flow

\* What a login has pinned: until a save replaces a row, which Postgres never does,
\* its version has the row it started on, and that row alone.
PinInv ==
    /\ backend = "postgres" => rewritten = {}
    /\ \A q, r \in auth_flows : q.version = r.version => q = r \/ q.version \in rewritten
    /\ \A l \in Login : from[l] # None /\ version[l] \notin rewritten =>
          /\ \E r \in auth_flows : r.version = version[l] /\ r.graph = from[l]
          /\ pc[l] = "fallback" /\ l \notin erred => version[l] = 0
          /\ loaded[l] # None /\ version[l] > 0 => loaded[l] = from[l] \/ l \in erred

\* What the table and the logins keep on either backend.
WalkInv ==
    /\ pc = [p \in Login \cup Seeder |-> pc[p]]
    /\ version = [l \in Login |-> version[l]] /\ node = [l \in Login |-> node[l]]
    /\ loaded = [l \in Login |-> loaded[l]] /\ from = [l \in Login |-> from[l]]
    /\ \A r \in auth_flows : r.graph \in Graph
    /\ \A l \in Login : pc[l] \in {"new", "idle", "fallback"} => loaded[l] = None
    /\ \A l \in Login : pc[l] = "walk" => node[l] \in NodesOf[loaded[l]]

FlowInv == WalkInv /\ PinInv

\* The first state.
LEMMA FlowInit == flows!Init => FlowInv
  BY Zenon DEF flows!Init, FlowInv, WalkInv, PinInv

\* The entry node is a node of the graph.
LEMMA StartNode ==
    ASSUME NEW g \in Graph
    PROVE  flows!start(g) \in NodesOf[g]
  BY GraphAssumption, Zenon DEF flows!start

\* A saved row: a version that is not rewritten by it keeps its row, alone.
LEMMA SaveStep ==
    ASSUME FlowInv, NEW r, r.graph \in Graph, ~flows!Conflict(r), flows!save_auth_flow(r),
           UNCHANGED <<backend, version, node, loaded, from, erred>>,
           pc' = [p \in Login \cup Seeder |-> pc'[p]],
           \A l \in Login : pc'[l] = pc[l] \/ pc'[l] = "seeded"
    PROVE  FlowInv'
<1>1. WalkInv'
  <2>1. \A q \in auth_flows' : q.graph \in Graph
    BY Zenon DEF FlowInv, WalkInv, flows!save_auth_flow
  <2> QED
    BY <2>1, Zenon DEF FlowInv, WalkInv
<1>2. /\ backend' = backend /\ version' = version /\ loaded' = loaded /\ from' = from /\ erred' = erred
      /\ \A l \in Login : pc'[l] = "fallback" => pc[l] = "fallback"
  BY Zenon
<1>3. /\ auth_flows' = {q \in auth_flows : q.id # r.id} \cup {r}
      /\ rewritten \subseteq rewritten'
      /\ \A q \in auth_flows : q.id = r.id => q = r \/ (q.version \in rewritten' /\ r.version \in rewritten')
  <2> DEFINE gone == {q \in auth_flows : q.id = r.id /\ q # r}
  <2>1. /\ auth_flows' = {q \in auth_flows : q.id # r.id} \cup {r}
        /\ rewritten' = rewritten \cup UNION {{q.version, r.version} : q \in gone}
    BY Zenon DEF flows!save_auth_flow
  <2>2. \A q \in gone : {q.version, r.version} \in {{p.version, r.version} : p \in gone}
    OBVIOUS
  <2> HIDE DEF gone
  <2>3. \A q \in gone : q.version \in rewritten' /\ r.version \in rewritten'
    BY <2>1, <2>2
  <2> QED
    BY <2>1, <2>3, Zenon DEF gone
<1>4. backend' = "postgres" => rewritten' = {}
  <2> SUFFICES ASSUME backend = "postgres" PROVE rewritten' = {}
    BY <1>2, Zenon
  <2>1. {q \in auth_flows : q.id = r.id /\ q # r} = {}
    BY Zenon DEF flows!Conflict
  <2>2. UNION {{q.version, r.version} : q \in {q \in auth_flows : q.id = r.id /\ q # r}} = {}
    BY <2>1, Zenon
  <2> QED
    BY <2>2, Zenon DEF FlowInv, PinInv, flows!save_auth_flow
<1>5. \A q \in auth_flows : q.version = r.version => q = r \/ r.version \in rewritten'
  <2>1. CASE \E p \in auth_flows : p.id = r.id
    BY <1>3, <2>1, Zenon DEF FlowInv, PinInv
  <2>2. CASE ~ \E p \in auth_flows : p.id = r.id
    BY <2>2, Zenon DEF flows!Conflict, flows!of_version
  <2> QED
    BY <2>1, <2>2, Zenon
<1>6. \A q, p \in auth_flows' : q.version = p.version => q = p \/ q.version \in rewritten'
  BY <1>3, <1>5 DEF FlowInv, PinInv
<1>7. ASSUME NEW q \in auth_flows, q.version \notin rewritten' PROVE q \in auth_flows'
  BY <1>3, <1>7, Zenon
<1>8. ASSUME NEW l \in Login, from'[l] # None, version'[l] \notin rewritten'
      PROVE  /\ \E q \in auth_flows' : q.version = version'[l] /\ q.graph = from'[l]
             /\ pc'[l] = "fallback" /\ l \notin erred' => version'[l] = 0
             /\ loaded'[l] # None /\ version'[l] > 0 => loaded'[l] = from'[l] \/ l \in erred'
  <2>1. from[l] # None /\ version[l] \notin rewritten
    BY <1>2, <1>3, <1>8, Zenon
  <2>2. PICK q \in auth_flows : q.version = version[l] /\ q.graph = from[l]
    BY <2>1, Zenon DEF FlowInv, PinInv
  <2>3. q \in auth_flows'
    BY <1>2, <1>7, <1>8, <2>2, Zenon
  <2> QED
    BY <1>2, <2>1, <2>2, <2>3, Zenon DEF FlowInv, PinInv
<1>9. PinInv'
  BY <1>4, <1>6, <1>8, Zenon DEF PinInv
<1> QED
  BY <1>1, <1>9, Zenon DEF FlowInv

\* The seeder.
LEMMA SeedInv ==
    ASSUME FlowInv, NEW s \in Seeder, flows!seed_look(s) \/ flows!seed_save(s)
    PROVE  FlowInv'
<1>1. ASSUME NEW v \in {"save", "seeded", "error"}, pc' = [pc EXCEPT ![s] = v]
      PROVE  /\ pc' = [p \in Login \cup Seeder |-> pc'[p]]
             /\ \A l \in Login : pc'[l] = pc[l] \/ (pc'[l] = v /\ v \in {"save", "seeded", "error"})
  BY <1>1, Zenon DEF FlowInv, WalkInv
<1>2. CASE UNCHANGED <<backend, auth_flows, version, node, loaded, from, erred, rewritten>> /\
           \E v \in {"save", "seeded", "error"} : pc' = [pc EXCEPT ![s] = v]
  <2>1. /\ pc' = [p \in Login \cup Seeder |-> pc'[p]]
        /\ \A l \in Login : pc'[l] = pc[l] \/ pc'[l] \in {"save", "seeded", "error"}
    BY <1>1, <1>2, Zenon
  <2>2. backend' = backend /\ auth_flows' = auth_flows /\ version' = version /\ node' = node
        /\ loaded' = loaded /\ from' = from /\ erred' = erred /\ rewritten' = rewritten
    BY <1>2, Zenon
  <2>3. WalkInv'
    BY <2>1, <2>2, Zenon DEF FlowInv, WalkInv
  <2>4. PinInv'
    BY <2>1, <2>2, Zenon DEF FlowInv, PinInv
  <2> QED
    BY <2>3, <2>4, Zenon DEF FlowInv
<1>3. CASE flows!seed_look(s)
  BY <1>2, <1>3, Zenon DEF flows!seed_look
<1>4. CASE flows!seed_save(s)
  <2>1. PICK i, r :
          /\ r = [id |-> i, version |-> 1, graph |-> Builtin]
          /\ \/ pc' = [pc EXCEPT ![s] = "error"] /\ auth_flows' = auth_flows /\ rewritten' = rewritten
             \/ ~flows!Conflict(r) /\ flows!save_auth_flow(r) /\ pc' = [pc EXCEPT ![s] = "seeded"]
    BY <1>4, Zenon DEF flows!seed_save
  <2>2. UNCHANGED <<backend, version, node, loaded, from, erred>>
    BY <1>4, Zenon DEF flows!seed_save
  <2>3. r.graph \in Graph
    BY <2>1, GraphAssumption, Zenon
  <2> QED
    BY <1>1, <1>2, <2>1, <2>2, <2>3, SaveStep, Zenon
<1> QED
  BY <1>3, <1>4, Zenon

\* The editor.
LEMMA EditInv ==
    ASSUME FlowInv, NEW r \in flows!Row, flows!post_flow_save(r)
    PROVE  FlowInv'
<1>1. r.graph \in Graph
  BY Zenon DEF flows!Row
<1>2. pc' = pc /\ UNCHANGED <<backend, version, node, loaded, from, erred>> /\ ~flows!Conflict(r) /\ flows!save_auth_flow(r)
  BY Zenon DEF flows!post_flow_save
<1>3. pc' = [p \in Login \cup Seeder |-> pc'[p]]
  BY <1>2, Zenon DEF FlowInv, WalkInv
<1> QED
  BY <1>1, <1>2, <1>3, SaveStep, Zenon

\* A login begins: what it pins is a row of the table.
LEMMA StartInv ==
    ASSUME FlowInv, NEW l \in Login, flows!start_flow(l)
    PROVE  FlowInv'
<1>1. pc' = [pc EXCEPT ![l] = "idle"] /\ pc[l] = "new" /\ loaded[l] = None
      /\ backend' = backend /\ auth_flows' = auth_flows /\ loaded' = loaded
      /\ erred' = erred /\ rewritten' = rewritten
  BY Zenon DEF flows!start_flow, FlowInv, WalkInv
<1>2. /\ pc' = [p \in Login \cup Seeder |-> pc'[p]] /\ pc'[l] = "idle"
      /\ \A k \in Login \ {l} : pc'[k] = pc[k]
  BY <1>1, Zenon DEF FlowInv, WalkInv
<1>3. CASE UNCHANGED <<version, node, from>>
  <2>1. version' = version /\ node' = node /\ from' = from
    BY <1>3, Zenon
  <2>2. WalkInv'
    BY <1>1, <1>2, <2>1, Zenon DEF FlowInv, WalkInv
  <2>3. PinInv'
    BY <1>1, <1>2, <2>1, Zenon DEF FlowInv, PinInv
  <2> QED
    BY <2>2, <2>3, Zenon DEF FlowInv
<1>4. ASSUME NEW r \in auth_flows,
             version' = [version EXCEPT ![l] = r.version],
             node' = [node EXCEPT ![l] = flows!start(r.graph)],
             from' = [from EXCEPT ![l] = r.graph]
      PROVE  FlowInv'
  <2>1. /\ version' = [k \in Login |-> version'[k]] /\ node' = [k \in Login |-> node'[k]]
        /\ from' = [k \in Login |-> from'[k]]
        /\ version'[l] = r.version /\ from'[l] = r.graph
        /\ \A k \in Login \ {l} : version'[k] = version[k] /\ node'[k] = node[k] /\ from'[k] = from[k]
    BY <1>4, Zenon DEF FlowInv, WalkInv
  <2>2. WalkInv'
    BY <1>1, <1>2, <2>1, Zenon DEF FlowInv, WalkInv
  <2>3. PinInv'
    BY <1>1, <1>2, <2>1 DEF FlowInv, PinInv
  <2> QED
    BY <2>2, <2>3, Zenon DEF FlowInv
<1> QED
  BY <1>3, <1>4, Zenon DEF flows!start_flow, flows!latest

\* A login is resumed on a graph of the table: the one it pinned, if the version
\* it pinned is positive.
LEMMA LoadInv ==
    ASSUME FlowInv, NEW l \in Login, NEW r \in auth_flows, flows!load(l, r.graph),
           version[l] > 0 => r.version = version[l] \/ version[l] \in rewritten \/ l \in erred \/ from[l] = None
    PROVE  FlowInv'
<1>1. PICK g : g = r.graph
  BY Zenon
<1>2. g \in Graph
  BY <1>1, Zenon DEF FlowInv, WalkInv
<1>3. PICK n : /\ n \in NodesOf[g]
               /\ n = IF node[l] \in NodesOf[g] THEN node[l] ELSE flows!start(g)
  BY <1>2, StartNode, Zenon
<1>4. /\ loaded' = [loaded EXCEPT ![l] = g] /\ node' = [node EXCEPT ![l] = n] /\ pc' = [pc EXCEPT ![l] = "walk"]
      /\ backend' = backend /\ auth_flows' = auth_flows /\ version' = version /\ from' = from
      /\ erred' = erred /\ rewritten' = rewritten
  BY <1>1, <1>3, Zenon DEF flows!load
<1>5. /\ pc' = [p \in Login \cup Seeder |-> pc'[p]] /\ pc'[l] = "walk"
      /\ loaded' = [k \in Login |-> loaded'[k]] /\ loaded'[l] = g
      /\ node' = [k \in Login |-> node'[k]] /\ node'[l] = n
      /\ \A k \in Login \ {l} : pc'[k] = pc[k] /\ loaded'[k] = loaded[k] /\ node'[k] = node[k]
  BY <1>4, Zenon DEF FlowInv, WalkInv
<1>6. WalkInv'
  BY <1>3, <1>4, <1>5, Zenon DEF FlowInv, WalkInv
<1>7. PinInv'
  <2>1. from[l] # None /\ version[l] \notin rewritten /\ l \notin erred /\ version[l] > 0 => g = from[l]
    BY <1>1 DEF FlowInv, PinInv
  <2> QED
    BY <1>4, <1>5, <2>1 DEF FlowInv, PinInv
<1> QED
  BY <1>6, <1>7, Zenon DEF FlowInv

\* A login moves on to another place and loads nothing.
LEMMA PlaceInv ==
    ASSUME FlowInv, NEW l \in Login, NEW v \in {"idle", "fallback"}, pc' = [pc EXCEPT ![l] = v],
           UNCHANGED <<backend, auth_flows, version, node, loaded, from, rewritten>>,
           \A k \in Login \ {l} : k \in erred' <=> k \in erred,
           loaded[l] = None,
           v = "fallback" /\ l \notin erred' /\ from[l] # None
               => version[l] = 0 \/ version[l] \in rewritten
    PROVE  FlowInv'
<1>1. /\ pc' = [p \in Login \cup Seeder |-> pc'[p]] /\ pc'[l] = v
      /\ \A k \in Login \ {l} : pc'[k] = pc[k]
  BY Zenon DEF FlowInv, WalkInv
<1>2. backend' = backend /\ auth_flows' = auth_flows /\ version' = version /\ node' = node
      /\ loaded' = loaded /\ from' = from /\ rewritten' = rewritten
  BY Zenon
<1>3. WalkInv'
  BY <1>1, <1>2, Zenon DEF FlowInv, WalkInv
<1>4. PinInv'
  BY <1>1, <1>2 DEF FlowInv, PinInv
<1> QED
  BY <1>3, <1>4, Zenon DEF FlowInv

\* A post resolves the version it pinned, or goes on without.
LEMMA ResumeInv ==
    ASSUME FlowInv, NEW l \in Login, flows!resume_versioned(l)
    PROVE  FlowInv'
<1>0. pc[l] = "idle" /\ loaded[l] = None
  BY Zenon DEF flows!resume_versioned, FlowInv, WalkInv
<1>1. ASSUME NEW r \in flows!of_version(version[l]), flows!load(l, r.graph) PROVE FlowInv'
  BY <1>1, LoadInv, Zenon DEF flows!of_version
<1>2. CASE /\ version[l] = 0 \/ flows!of_version(version[l]) = {}
           /\ flows!FallBack(l) /\ UNCHANGED erred
  <2>1. from[l] # None => version[l] = 0 \/ version[l] \in rewritten
    BY <1>2, Zenon DEF FlowInv, PinInv, flows!of_version
  <2> QED
    BY <1>0, <1>2, <2>1, PlaceInv, Zenon DEF flows!FallBack
<1>3. CASE flows!FallBack(l) /\ erred' = erred \cup {l}
  <2>1. l \in erred' /\ \A k \in Login \ {l} : k \in erred' <=> k \in erred
    BY <1>3, Zenon
  <2> QED
    BY <1>0, <1>3, <2>1, PlaceInv, Zenon DEF flows!FallBack
<1> QED
  BY <1>1, <1>2, <1>3, Zenon DEF flows!resume_versioned

\* Or else the latest.
LEMMA LatestInv ==
    ASSUME FlowInv, NEW l \in Login, flows!resume_latest(l)
    PROVE  FlowInv'
<1>1. /\ pc[l] = "fallback" /\ loaded[l] = None
      /\ version[l] = 0 \/ version[l] \in rewritten \/ l \in erred \/ from[l] = None
  BY Zenon DEF FlowInv, WalkInv, PinInv, flows!resume_latest
<1>2. ASSUME NEW r \in flows!latest, flows!load(l, r.graph) PROVE FlowInv'
  BY <1>1, <1>2, LoadInv DEF flows!latest
<1>3. CASE pc' = [pc EXCEPT ![l] = "idle"] /\ erred' = erred \ {l}
           /\ UNCHANGED <<backend, auth_flows, version, node, loaded, from, rewritten>>
  <2>1. \A k \in Login \ {l} : k \in erred' <=> k \in erred
    BY <1>3, Zenon
  <2> QED
    BY <1>1, <1>3, <2>1, PlaceInv, Zenon
<1> QED
  BY <1>2, <1>3, Zenon DEF flows!resume_latest

\* The walk drops what it loaded.
LEMMA WalkStep ==
    ASSUME FlowInv, NEW l \in Login, flows!walk(l)
    PROVE  FlowInv'
<1>1. PICK n : node' = [node EXCEPT ![l] = n]
  BY Zenon DEF flows!walk
<1>2. /\ loaded' = [loaded EXCEPT ![l] = None] /\ pc' = [pc EXCEPT ![l] = "idle"]
      /\ backend' = backend /\ auth_flows' = auth_flows /\ version' = version /\ from' = from
      /\ rewritten' = rewritten /\ erred' = erred \ {l}
  BY Zenon DEF flows!walk
<1>3. /\ pc' = [p \in Login \cup Seeder |-> pc'[p]] /\ pc'[l] = "idle"
      /\ loaded' = [k \in Login |-> loaded'[k]] /\ loaded'[l] = None
      /\ node' = [k \in Login |-> node'[k]]
      /\ \A k \in Login \ {l} : pc'[k] = pc[k] /\ loaded'[k] = loaded[k] /\ node'[k] = node[k]
  BY <1>1, <1>2, Zenon DEF FlowInv, WalkInv
<1>4. WalkInv'
  BY <1>2, <1>3, Zenon DEF FlowInv, WalkInv
<1>5. PinInv'
  BY <1>2, <1>3 DEF FlowInv, PinInv
<1> QED
  BY <1>4, <1>5, Zenon DEF FlowInv

\* Every step keeps it.
LEMMA FlowNext == FlowInv /\ [flows!Next]_(flows!vars) => FlowInv'
<1> SUFFICES ASSUME FlowInv, [flows!Next]_(flows!vars) PROVE FlowInv'
  BY Zenon
<1>1. CASE flows!Next
  BY <1>1, SeedInv, EditInv, StartInv, ResumeInv, LatestInv, WalkStep, Zenon DEF flows!Next
<1>2. CASE UNCHANGED flows!vars
  BY <1>2, Zenon DEF flows!vars, FlowInv, WalkInv, PinInv
<1> QED
  BY <1>1, <1>2, Zenon

\* VersionHeld: the version a login was started on stays in the table with its graph,
\* and a post is walked on that graph unless its lookup of the version fails: on
\* Postgres whatever the seeders and the editor save meanwhile, in the memory store
\* until a save replaces a row.  On either backend a walk starts on a node of the graph
\* it was given (authenticate_post, save_auth_flow).  For any graphs, versions and pods.
THEOREM VersionCorrect == flows!Spec => []VersionHeld
<1>1. FlowInv => VersionHeld
  <2> SUFFICES ASSUME FlowInv PROVE VersionHeld
    BY Zenon
  <2>1. flows!VersionsStay
    <3>1. ASSUME NEW l \in Login, from[l] # None, version[l] \notin rewritten
          PROVE  {r.graph : r \in flows!of_version(version[l])} = {from[l]}
      <4>1. PICK r \in auth_flows : r.version = version[l] /\ r.graph = from[l]
        BY <3>1, Zenon DEF FlowInv, PinInv
      <4>2. \A q \in auth_flows : q.version = version[l] => q = r
        BY <3>1, <4>1 DEF FlowInv, PinInv
      <4>3. flows!of_version(version[l]) = {r}
        BY <4>1, <4>2 DEF flows!of_version
      <4> QED
        BY <4>1, <4>3
    <3> QED
      BY <3>1, Zenon DEF FlowInv, PinInv, flows!VersionsStay
  <2>2. flows!Pinned /\ flows!NodeInGraph
    BY Zenon DEF FlowInv, PinInv, WalkInv, flows!Pinned, flows!NodeInGraph
  <2> QED
    BY <2>1, <2>2, Zenon DEF VersionHeld, flows!VersionHeld
<1> QED
  BY <1>1, FlowInit, FlowNext, PTL DEF flows!Spec
=============================================================================
