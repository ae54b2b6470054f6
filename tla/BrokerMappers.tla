--------------------------- MODULE BrokerMappers ---------------------------
(***************************************************************************)
(* The built-in mappers of the identity broker: the bindings of a provider, *)
(* sorted by priority, turn the claims of an assertion into a draft user.   *)
(* A claim value is a sequence of strings; a template is a sequence of      *)
(* literals and claim references.                                           *)
(***************************************************************************)
EXTENDS Naturals, FiniteSets, SequencesExt

CONSTANTS Bindings, \* the sets of mapper bindings that providers have
          Claims,   \* the claim sets that assertions carry
          Drafts    \* the DraftUsers that apply_all is handed

VARIABLES stored,   \* the bindings in the order in which the rows come back
          claims,   \* the claims of the assertion
          seed,     \* history: the draft as the caller seeded it
          rest,     \* the bindings still to run
          draft     \* the DraftUser, by now

vars == <<stored, claims, seed, rest, draft>>

claim_matches(c, m) ==
    /\ m.claim \in DOMAIN c
    /\ IF Len(c[m.claim]) = 1 \/ m.match_any
       THEN ToSet(c[m.claim]) \cap m.values # {}
       ELSE ToSet(c[m.claim]) \subseteq m.values

expand_template(template, c) ==
    LET piece(x) == IF x.kind = "text" THEN <<x.text>>
                    ELSE IF x.name \in DOMAIN c /\ c[x.name] # <<>>
                    THEN <<Head(c[x.name])>> ELSE <<>>
    IN  FoldLeft(LAMBDA acc, x : acc \o piece(x), <<>>, template)

Put(f, k, v) == [x \in DOMAIN f \cup {k} |-> IF x = k THEN v ELSE f[x]]

apply_one(m, c, d) ==
    CASE m.kind = "claim-to-attribute" /\ m.claim \in DOMAIN c
            /\ (m.overwrite \/ m.attribute \notin DOMAIN d.attributes) ->
           [d EXCEPT !.attributes = Put(@, m.attribute, c[m.claim])]
      [] m.kind = "claim-to-role" /\ claim_matches(c, m) -> [d EXCEPT !.roles = @ \cup {m.role}]
      [] m.kind = "claim-to-org" /\ claim_matches(c, m) /\ m.org \notin DOMAIN d.orgs ->
           [d EXCEPT !.orgs = Put(@, m.org, m.role)]
      [] m.kind = "username-template" /\ expand_template(m.template, c) # <<>> ->
           [d EXCEPT !.username = expand_template(m.template, c)]
      [] m.kind = "email-verified-passthrough" /\ "email_verified" \in DOMAIN c ->
           [d EXCEPT !.email_verified = (c["email_verified"] = <<"true">>)]
      [] OTHER -> d

\* Mutant: the bindings run in the order in which they are stored.
sorted_AsStored(bindings) == bindings

\* sort_by_key is stable: among equal priorities the stored order remains.
sorted(bindings) ==
    LET runsBefore(i, j) == \/ bindings[i].priority < bindings[j].priority
                            \/ bindings[i].priority = bindings[j].priority /\ i < j
        order == SortSeq([i \in DOMAIN bindings |-> i], runsBefore)
    IN  [i \in DOMAIN bindings |-> bindings[order[i]]]

Init ==
    /\ \E bs \in Bindings : stored \in SetToSeqs(bs)
    /\ claims \in Claims
    /\ seed \in Drafts
    /\ rest = sorted(stored) /\ draft = seed

\* One round of the loop of apply_all.
apply_all ==
    /\ rest # <<>>
    /\ draft' = apply_one(Head(rest), claims, draft)
    /\ rest' = Tail(rest)
    /\ UNCHANGED <<stored, claims, seed>>

Next == apply_all
Spec == Init /\ [][Next]_vars

TypeOK == rest \in Seq(ToSet(stored)) /\ draft.email_verified \in BOOLEAN

\* "we run them in priority order" (MapperBinding): whatever the order of the
\* rows, an attribute ends with the value of the last mapper by priority that
\* may write it, over one the draft was seeded with only if that mapper
\* overwrites, and an organization with the role it was seeded with or else
\* that of the first mapper that matches.  Rows of one priority run in the
\* order in which they are stored.
PriorityDecides ==
    LET able(kind) == {m \in ToSet(stored) : m.kind = kind /\ m.claim \in DOMAIN claims}
        writers(a) == {m \in able("claim-to-attribute") : m.attribute = a}
        joiners(o) == {m \in able("claim-to-org") : m.org = o /\ claim_matches(claims, m)}
        place(m) == CHOOSE i \in DOMAIN stored : stored[i] = m
        before(m, n) == \/ m.priority < n.priority
                        \/ m.priority = n.priority /\ place(m) < place(n)
        first(m, ms) == \A n \in ms \ {m} : before(m, n)
        attributes == DOMAIN seed.attributes \cup {m.attribute : m \in able("claim-to-attribute")}
        orgs == DOMAIN seed.orgs \cup {m.org : m \in {n \in able("claim-to-org") : claim_matches(claims, n)}}
    IN  rest = <<>> =>
          /\ DOMAIN draft.attributes = attributes /\ DOMAIN draft.orgs = orgs
          /\ \A a \in attributes :
               IF a \in DOMAIN seed.attributes /\ ~\E m \in writers(a) : m.overwrite
               THEN draft.attributes[a] = seed.attributes[a]
               ELSE \E m \in writers(a) :
                      /\ m.overwrite \/ first(m, writers(a))
                      /\ \A n \in writers(a) : before(m, n) => ~n.overwrite
                      /\ draft.attributes[a] = claims[m.claim]
          /\ \A o \in orgs :
               IF o \in DOMAIN seed.orgs THEN draft.orgs[o] = seed.orgs[o]
               ELSE \E m \in joiners(o) : first(m, joiners(o)) /\ draft.orgs[o] = m.role
=============================================================================
