----------------------------- MODULE SamlProofs -----------------------------
(***************************************************************************)
(* Theorems about the SAML identity provider and the logout surfaces       *)
(* (SamlIdp), as the login run instantiates it.  They hold for every number *)
(* of service providers, users, sessions and handlers in flight.           *)
(***************************************************************************)
EXTENDS MCLogin, TLAPS

SessionRow == [user : User, clients : SUBSET SamlClient]
SignOn == {"read_name", "save_name", "sign", "get_session", "update_session", "drop_flow"}

\* In sessions ses: s was created; s was created and is gone.
Known(ses, s) == s \in saml!Sid => ses[s] # None
Over(ses, s) == s \in saml!Sid => ses[s] = Gone

\* In name rows nam: user u has a name at c, which is n unless the handler raced.
Named(nam, u, c, n, raced) == nam[<<u, c>>] # None /\ (raced \/ n = nam[<<u, c>>])

\* c may be answered at acs, and asked for q if q is a request.
Asks(c, acs, q) ==
    /\ acs \in saml!Range(Config[c].acs)
    /\ q # None => \E d \in Documents : d.id = q /\ d.issuer = c

GoodReply(m, ses, nam) ==
    /\ m.assertion.user \in User /\ m.assertion.audience \in SamlClient
    /\ Known(ses, m.assertion.index)
    /\ Asks(m.assertion.audience, m.destination, m.request)
    /\ \A a \in m.assertion.attributes : a.values # <<>>
    /\ saml!Persistent(m.assertion.audience) =>
          Named(nam, m.assertion.user, m.assertion.audience, m.assertion.name[2], m.raced)

\* A handler in flight.
GoodTask(r, ses, nam) ==
    /\ r = [op |-> r.op, user |-> r.user, sid |-> r.sid, sp |-> r.sp, acs |-> r.acs, request |-> r.request,
            flow |-> r.flow, name |-> r.name, raced |-> r.raced, out |-> r.out, clients |-> r.clients]
    /\ r.user \in User /\ r.sp \in SamlClient /\ r.clients \subseteq SamlClient
    /\ Known(ses, r.sid)
    /\ r.op = "fan_out" => Over(ses, r.sid)
    /\ r.op \in SignOn => r.sid \in saml!Sid /\ Asks(r.sp, r.acs, r.request)
    /\ r.op = "save_name" => r.name \in 1..MaxName /\ r.raced
    /\ r.op = "sign" /\ saml!Persistent(r.sp) => Named(nam, r.user, r.sp, r.name, r.raced)
    /\ \A m \in r.out : GoodReply(m, ses, nam)

GoodFlow(f) == f.sp \in SamlClient /\ Asks(f.sp, f.acs, f.request)

\* What the sign-ons and logouts keep: what they hold and have sent refers to
\* sessions that were created, and what a logout has answered for is gone.
SamlInv ==
    /\ session \in [saml!Sid -> SessionRow \cup {None, Gone}]
    /\ names \in [User \X SamlClient -> 1..MaxName \cup {None}]
    /\ cookie \subseteq saml!Sid /\ \A s \in cookie : session[s] # None
    /\ over \subseteq saml!Sid /\ \A s \in over : session[s] = Gone
    /\ \A n \in notices : Over(session, n.sid)
    /\ \A f \in flow : GoodFlow(f)
    /\ \A m \in sent : GoodReply(m, session, names)
    /\ s_task = [t \in Task |-> s_task[t]]
    /\ \A t \in Task : s_task[t] # Idle => GoodTask(s_task[t], session, names)

\* A session that was created stays so, one that is gone stays gone, and a name
\* that was saved stays.
Grows(ses, ses2, nam, nam2) ==
    /\ \A s \in saml!Sid : (ses[s] # None => ses2[s] # None) /\ (ses[s] = Gone => ses2[s] = Gone)
    /\ \A x \in User \X SamlClient : nam[x] # None => nam2[x] = nam[x]

\* What is good stays good.
LEMMA StaysGood ==
    ASSUME NEW ses, NEW ses2, NEW nam, NEW nam2, Grows(ses, ses2, nam, nam2)
    PROVE  /\ \A s : (Known(ses, s) => Known(ses2, s)) /\ (Over(ses, s) => Over(ses2, s))
           /\ \A m : GoodReply(m, ses, nam) => GoodReply(m, ses2, nam2)
           /\ \A r : GoodTask(r, ses, nam) => GoodTask(r, ses2, nam2)
<1>1. \A s : (Known(ses, s) => Known(ses2, s)) /\ (Over(ses, s) => Over(ses2, s))
  BY Zenon DEF Grows, Known, Over
<1>2. \A u \in User, c \in SamlClient : \A n, raced : Named(nam, u, c, n, raced) => Named(nam2, u, c, n, raced)
  BY Zenon DEF Grows, Named
<1>3. \A m : GoodReply(m, ses, nam) => GoodReply(m, ses2, nam2)
  BY <1>1, <1>2, Zenon DEF GoodReply
<1>4. \A r : GoodTask(r, ses, nam) => GoodTask(r, ses2, nam2)
  BY <1>1, <1>2, <1>3, Zenon DEF GoodTask
<1> QED
  BY <1>1, <1>3, <1>4, Zenon

\* A step that keeps the rows keeps everything that refers to them, if what it adds
\* is good.
LEMMA SamlStep ==
    ASSUME SamlInv, Grows(session, session', names, names'),
           session' \in [saml!Sid -> SessionRow \cup {None, Gone}],
           names' \in [User \X SamlClient -> 1..MaxName \cup {None}],
           \A s \in cookie' : s \in cookie \/ (s \in saml!Sid /\ session'[s] # None),
           \A s \in over' : s \in over \/ (s \in saml!Sid /\ session'[s] = Gone),
           \A n \in notices' : n \in notices \/ Over(session', n.sid),
           \A f \in flow' : f \in flow \/ GoodFlow(f),
           \A m \in sent' : m \in sent \/ GoodReply(m, session', names'),
           s_task' = [t \in Task |-> s_task'[t]],
           \A t \in Task : s_task'[t] # Idle => s_task'[t] = s_task[t] \/ GoodTask(s_task'[t], session', names')
    PROVE  SamlInv'
<1>1. /\ \A s : Over(session, s) => Over(session', s)
      /\ \A m : GoodReply(m, session, names) => GoodReply(m, session', names')
      /\ \A r : GoodTask(r, session, names) => GoodTask(r, session', names')
  BY StaysGood, Zenon
<1>2. cookie' \subseteq saml!Sid /\ \A s \in cookie' : session'[s] # None
  BY Zenon DEF SamlInv, Grows
<1>3. over' \subseteq saml!Sid /\ \A s \in over' : session'[s] = Gone
  BY Zenon DEF SamlInv, Grows
<1>4. \A n \in notices' : Over(session', n.sid)
  BY <1>1, Zenon DEF SamlInv
<1>5. \A f \in flow' : GoodFlow(f)
  BY Zenon DEF SamlInv
<1>6. \A m \in sent' : GoodReply(m, session', names')
  BY <1>1, Zenon DEF SamlInv
<1>7. \A t \in Task : s_task'[t] # Idle => GoodTask(s_task'[t], session', names')
  BY <1>1, Zenon DEF SamlInv
<1> QED
  BY <1>2, <1>3, <1>4, <1>5, <1>6, <1>7, Zenon DEF SamlInv

\* Nothing grows when nothing changes.
LEMMA GrowsSame == Grows(session, session, names, names)
  BY Zenon DEF Grows

\* A step of one handler that changes no rows.
LEMMA HandlerStep ==
    ASSUME SamlInv, NEW t \in Task, NEW new, saml!Set(t, new),
           new = Idle \/ GoodTask(new, session, names),
           UNCHANGED <<session, names, cookie>>,
           \A s \in over' : s \in over \/ (s \in saml!Sid /\ session[s] = Gone),
           \A n \in notices' : n \in notices \/ Over(session, n.sid),
           \A f \in flow' : f \in flow,
           \A m \in sent' : m \in sent \/ GoodReply(m, session, names)
    PROVE  SamlInv'
<1>1. s_task' = [s_task EXCEPT ![t] = new]
  BY Zenon DEF saml!Set
<1>2. /\ s_task' = [u \in Task |-> s_task'[u]]
      /\ \A u \in Task : s_task'[u] = s_task[u] \/ (u = t /\ s_task'[u] = new)
  <2>1. s_task = [u \in Task |-> s_task[u]]
    BY Zenon DEF SamlInv
  <2> QED
    BY <1>1, <2>1, Zenon
<1>3. /\ session' \in [saml!Sid -> SessionRow \cup {None, Gone}]
      /\ names' \in [User \X SamlClient -> 1..MaxName \cup {None}]
  BY Zenon DEF SamlInv
<1>4. session' = session /\ names' = names /\ cookie' = cookie
  BY Zenon
<1>5. Grows(session, session', names, names')
  BY <1>4, GrowsSame, Zenon
<1>6. \A u \in Task : s_task'[u] # Idle => s_task'[u] = s_task[u] \/ GoodTask(s_task'[u], session', names')
  BY <1>2, <1>4, Zenon
<1> QED
  BY <1>2, <1>3, <1>4, <1>5, <1>6, SamlStep, Zenon

\* The fields of a handler.
Handler(r) ==
    r = [op |-> r.op, user |-> r.user, sid |-> r.sid, sp |-> r.sp, acs |-> r.acs, request |-> r.request,
         flow |-> r.flow, name |-> r.name, raced |-> r.raced, out |-> r.out, clients |-> r.clients]

\* A handler moves on.
LEMMA Moves ==
    ASSUME NEW r, Handler(r), NEW op
    PROVE  [r EXCEPT !.op = op] =
             [op |-> op, user |-> r.user, sid |-> r.sid, sp |-> r.sp, acs |-> r.acs, request |-> r.request,
              flow |-> r.flow, name |-> r.name, raced |-> r.raced, out |-> r.out, clients |-> r.clients]
  BY DEF Handler

\* A handler has read its name.
LEMMA Names ==
    ASSUME NEW r, Handler(r), NEW nm, NEW op
    PROVE  [r EXCEPT !.name = nm, !.op = op] =
             [op |-> op, user |-> r.user, sid |-> r.sid, sp |-> r.sp, acs |-> r.acs, request |-> r.request,
              flow |-> r.flow, name |-> nm, raced |-> r.raced, out |-> r.out, clients |-> r.clients]
<1>1. PICK q1 : q1 = [r EXCEPT !.name = nm]
  BY Zenon
<1>2. q1 = [op |-> r.op, user |-> r.user, sid |-> r.sid, sp |-> r.sp, acs |-> r.acs, request |-> r.request,
            flow |-> r.flow, name |-> nm, raced |-> r.raced, out |-> r.out, clients |-> r.clients]
  BY <1>1, Zenon DEF Handler
<1>3. [q1 EXCEPT !.op = op] =
        [op |-> op, user |-> r.user, sid |-> r.sid, sp |-> r.sp, acs |-> r.acs, request |-> r.request,
         flow |-> r.flow, name |-> nm, raced |-> r.raced, out |-> r.out, clients |-> r.clients]
  BY <1>2
<1>4. [r EXCEPT !.name = nm, !.op = op] = [q1 EXCEPT !.op = op]
  BY <1>1, Zenon
<1> QED
  BY <1>3, <1>4, Zenon

\* A handler has minted a name.
LEMMA Mints ==
    ASSUME NEW r, Handler(r), NEW nm, NEW rc, NEW op
    PROVE  [r EXCEPT !.name = nm, !.raced = rc, !.op = op] =
             [op |-> op, user |-> r.user, sid |-> r.sid, sp |-> r.sp, acs |-> r.acs, request |-> r.request,
              flow |-> r.flow, name |-> nm, raced |-> rc, out |-> r.out, clients |-> r.clients]
<1>1. PICK q1 : q1 = [r EXCEPT !.name = nm]
  BY Zenon
<1>2. q1 = [op |-> r.op, user |-> r.user, sid |-> r.sid, sp |-> r.sp, acs |-> r.acs, request |-> r.request,
            flow |-> r.flow, name |-> nm, raced |-> r.raced, out |-> r.out, clients |-> r.clients]
  BY <1>1, Zenon DEF Handler
<1>3. PICK q3 : q3 = [q1 EXCEPT !.raced = rc]
  BY Zenon
<1>4. q3 = [op |-> r.op, user |-> r.user, sid |-> r.sid, sp |-> r.sp, acs |-> r.acs, request |-> r.request,
            flow |-> r.flow, name |-> nm, raced |-> rc, out |-> r.out, clients |-> r.clients]
  BY <1>3, <1>2, Zenon
<1>5. [q3 EXCEPT !.op = op] =
        [op |-> op, user |-> r.user, sid |-> r.sid, sp |-> r.sp, acs |-> r.acs, request |-> r.request,
         flow |-> r.flow, name |-> nm, raced |-> rc, out |-> r.out, clients |-> r.clients]
  BY <1>4
<1>6. [r EXCEPT !.name = nm, !.raced = rc, !.op = op] = [q3 EXCEPT !.op = op]
  BY <1>1, <1>3, Zenon
<1> QED
  BY <1>5, <1>6, Zenon

\* A handler has its answer.
LEMMA Answers ==
    ASSUME NEW r, Handler(r), NEW op, NEW out
    PROVE  [r EXCEPT !.op = op, !.out = out] =
             [op |-> op, user |-> r.user, sid |-> r.sid, sp |-> r.sp, acs |-> r.acs, request |-> r.request,
              flow |-> r.flow, name |-> r.name, raced |-> r.raced, out |-> out, clients |-> r.clients]
<1>1. PICK q1 : q1 = [r EXCEPT !.op = op]
  BY Zenon
<1>2. q1 = [op |-> op, user |-> r.user, sid |-> r.sid, sp |-> r.sp, acs |-> r.acs, request |-> r.request,
            flow |-> r.flow, name |-> r.name, raced |-> r.raced, out |-> r.out, clients |-> r.clients]
  BY <1>1, Zenon DEF Handler
<1>3. [q1 EXCEPT !.out = out] =
        [op |-> op, user |-> r.user, sid |-> r.sid, sp |-> r.sp, acs |-> r.acs, request |-> r.request,
         flow |-> r.flow, name |-> r.name, raced |-> r.raced, out |-> out, clients |-> r.clients]
  BY <1>2
<1>4. [r EXCEPT !.op = op, !.out = out] = [q1 EXCEPT !.out = out]
  BY <1>1, Zenon
<1> QED
  BY <1>3, <1>4, Zenon

\* A handler has read the participants.
LEMMA Reads ==
    ASSUME NEW r, Handler(r), NEW op, NEW cs
    PROVE  [r EXCEPT !.op = op, !.clients = cs] =
             [op |-> op, user |-> r.user, sid |-> r.sid, sp |-> r.sp, acs |-> r.acs, request |-> r.request,
              flow |-> r.flow, name |-> r.name, raced |-> r.raced, out |-> r.out, clients |-> cs]
<1>1. PICK q1 : q1 = [r EXCEPT !.op = op]
  BY Zenon
<1>2. q1 = [op |-> op, user |-> r.user, sid |-> r.sid, sp |-> r.sp, acs |-> r.acs, request |-> r.request,
            flow |-> r.flow, name |-> r.name, raced |-> r.raced, out |-> r.out, clients |-> r.clients]
  BY <1>1, Zenon DEF Handler
<1>3. [q1 EXCEPT !.clients = cs] =
        [op |-> op, user |-> r.user, sid |-> r.sid, sp |-> r.sp, acs |-> r.acs, request |-> r.request,
         flow |-> r.flow, name |-> r.name, raced |-> r.raced, out |-> r.out, clients |-> cs]
  BY <1>2
<1>4. [r EXCEPT !.op = op, !.clients = cs] = [q1 EXCEPT !.clients = cs]
  BY <1>1, Zenon
<1> QED
  BY <1>3, <1>4, Zenon

\* A handler is given participants.
LEMMA Peers ==
    ASSUME NEW r, Handler(r), NEW cs
    PROVE  [r EXCEPT !.clients = cs] =
             [op |-> r.op, user |-> r.user, sid |-> r.sid, sp |-> r.sp, acs |-> r.acs, request |-> r.request,
              flow |-> r.flow, name |-> r.name, raced |-> r.raced, out |-> r.out, clients |-> cs]
  BY DEF Handler

\* A good handler has its fields.
LEMMA GoodFields ==
    ASSUME NEW r, NEW ses, NEW nam, GoodTask(r, ses, nam)
    PROVE  Handler(r)
  BY Zenon DEF GoodTask, Handler

\* A sign-on that begins is good.
LEMMA NewSignOn ==
    ASSUME NEW ses, NEW nam, NEW u \in User, NEW s \in saml!Sid, ses[s] # None, NEW c \in SamlClient,
           NEW acs, NEW q, Asks(c, acs, q), NEW f
    PROVE  GoodTask(saml!NewTask(saml!NameStep(c), u, s, c, acs, q, f), ses, nam)
  BY Zenon DEF GoodTask, saml!NewTask, saml!NameStep, SignOn, Known

\* The first ACS URL is on the list.
LEMMA FirstAcs ==
    ASSUME NEW c \in SamlClient, Config[c] # None, Config[c].acs # <<>>
    PROVE  Head(Config[c].acs) \in saml!Range(Config[c].acs)
<1>1. Config[c].acs \in Seq(STRING)
  BY SamlAssumption, Zenon
<1>2. Len(Config[c].acs) \in Nat /\ Len(Config[c].acs) # 0 /\ DOMAIN Config[c].acs = 1..Len(Config[c].acs)
  BY <1>1
<1>3. 1 \in DOMAIN Config[c].acs /\ Head(Config[c].acs) = Config[c].acs[1]
  BY <1>1, <1>2
<1> QED
  BY <1>3, Zenon DEF saml!Range

\* handle_sso saves a good continuation.
LEMMA SsoStep ==
    ASSUME SamlInv, NEW d \in Documents, saml!handle_sso(d)
    PROVE  SamlInv'
<1>1. d.issuer \in SamlClient /\ Config[d.issuer] # None
  BY Zenon DEF saml!handle_sso, saml!sso_post_accepts, saml!sso_get_accepts, saml!handle_sso_accepts, saml!Saml
<1>2. saml!AcsUrl(d) \in saml!Range(Config[d.issuer].acs)
  BY <1>1, FirstAcs, Zenon DEF saml!handle_sso, saml!sso_post_accepts, saml!sso_get_accepts, saml!handle_sso_accepts, saml!AcsUrl
<1>3. \A f \in flow' : f \in flow \/ GoodFlow(f)
  BY <1>1, <1>2 DEF saml!handle_sso, GoodFlow, Asks
<1>4. session' = session /\ names' = names /\ cookie' = cookie /\ s_task' = s_task /\ sent' = sent
      /\ notices' = notices /\ over' = over
  BY Zenon DEF saml!handle_sso
<1>5. Grows(session, session', names, names')
  BY <1>4, GrowsSame, Zenon
<1> QED
  BY <1>3, <1>4, <1>5, SamlStep, Zenon DEF SamlInv

\* A session row that is created.
LEMMA NewRow ==
    ASSUME SamlInv, NEW u \in User, NEW s \in saml!Free,
           session' = [session EXCEPT ![s] = [user |-> u, clients |-> {}]], names' = names
    PROVE  /\ s \in saml!Sid /\ session'[s] # None
           /\ session' \in [saml!Sid -> SessionRow \cup {None, Gone}]
           /\ Grows(session, session', names, names')
<1>1. s \in saml!Sid /\ session[s] = None
  BY Zenon DEF saml!Free
<1>2. [user |-> u, clients |-> {}] # None /\ [user |-> u, clients |-> {}] \in SessionRow
  BY SamlAssumption, Zenon DEF SessionRow
<1>3. session \in [saml!Sid -> SessionRow \cup {None, Gone}]
  BY Zenon DEF SamlInv
<1>4. session' \in [saml!Sid -> SessionRow \cup {None, Gone}]
  BY <1>1, <1>2, <1>3, Zenon
<1>5. session'[s] # None /\ \A x \in saml!Sid \ {s} : session'[x] = session[x]
  BY <1>1, <1>2, <1>3, Zenon
<1>6. Grows(session, session', names, names')
  BY <1>1, <1>5, SamlAssumption, Zenon DEF Grows
<1> QED
  BY <1>1, <1>4, <1>5, <1>6, Zenon

\* One handler's place is written.
LEMMA PlaceSet ==
    ASSUME SamlInv, NEW t \in Task, NEW new, saml!Set(t, new)
    PROVE  /\ s_task' = [u \in Task |-> s_task'[u]]
           /\ \A u \in Task : s_task'[u] = s_task[u] \/ (u = t /\ s_task'[u] = new)
<1>1. s_task' = [s_task EXCEPT ![t] = new]
  BY Zenon DEF saml!Set
<1>2. s_task = [u \in Task |-> s_task[u]]
  BY Zenon DEF SamlInv
<1> QED
  BY <1>1, <1>2, Zenon

\* The session of a finished login.
LEMMA CreateStep ==
    ASSUME SamlInv, NEW t \in Task, NEW u \in User, NEW f \in flow, saml!create_session(t, u, f)
    PROVE  SamlInv'
<1>1. PICK s \in saml!Free :
        /\ session' = [session EXCEPT ![s] = [user |-> u, clients |-> {}]]
        /\ saml!Set(t, saml!NewTask(saml!NameStep(f.sp), u, s, f.sp, f.acs, f.request, f))
  BY Zenon DEF saml!create_session
<1>2. flow' = flow /\ cookie' = cookie /\ names' = names /\ sent' = sent /\ notices' = notices /\ over' = over
  BY Zenon DEF saml!create_session
<1>3. /\ s \in saml!Sid /\ session'[s] # None
      /\ session' \in [saml!Sid -> SessionRow \cup {None, Gone}]
      /\ Grows(session, session', names, names')
  BY <1>1, <1>2, NewRow, Zenon
<1>4. f.sp \in SamlClient /\ Asks(f.sp, f.acs, f.request)
  BY Zenon DEF SamlInv, GoodFlow
<1>5. GoodTask(saml!NewTask(saml!NameStep(f.sp), u, s, f.sp, f.acs, f.request, f), session', names')
  BY <1>3, <1>4, NewSignOn, Zenon
<1>6. /\ s_task' = [x \in Task |-> s_task'[x]]
      /\ \A x \in Task : s_task'[x] # Idle => s_task'[x] = s_task[x] \/ GoodTask(s_task'[x], session', names')
  BY <1>1, <1>5, PlaceSet, Zenon
<1>7. names' \in [User \X SamlClient -> 1..MaxName \cup {None}]
  BY <1>2, Zenon DEF SamlInv
<1> QED
  BY <1>2, <1>3, <1>6, <1>7, SamlStep, Zenon

\* The session of an OIDC login.
LEMMA OidcStep ==
    ASSUME SamlInv, NEW u \in User, saml!OidcLogin(u)
    PROVE  SamlInv'
<1>1. PICK s \in saml!Free :
        /\ session' = [session EXCEPT ![s] = [user |-> u, clients |-> {}]]
        /\ cookie' = cookie \cup {s}
  BY Zenon DEF saml!OidcLogin
<1>2. flow' = flow /\ s_task' = s_task /\ names' = names /\ sent' = sent /\ notices' = notices /\ over' = over
  BY Zenon DEF saml!OidcLogin
<1>3. /\ s \in saml!Sid /\ session'[s] # None
      /\ session' \in [saml!Sid -> SessionRow \cup {None, Gone}]
      /\ Grows(session, session', names, names')
  BY <1>1, <1>2, NewRow, Zenon
<1>4. names' \in [User \X SamlClient -> 1..MaxName \cup {None}] /\ s_task' = [x \in Task |-> s_task'[x]]
  BY <1>2, Zenon DEF SamlInv
<1> QED
  BY <1>1, <1>2, <1>3, <1>4, SamlStep, Zenon

\* A session that a sign-on uses.
LEMMA LiveRow ==
    ASSUME SamlInv, NEW s \in saml!Sid, saml!Live(s)
    PROVE  session[s] \in SessionRow /\ session[s] # None
  BY Zenon DEF SamlInv, saml!Live

\* IdP-initiated sign-on.
LEMMA UnsolicitedStep ==
    ASSUME SamlInv, NEW t \in Task, NEW s \in saml!Sid, NEW c \in SamlClient, saml!unsolicited(t, s, c)
    PROVE  SamlInv'
<1>1. session[s] \in SessionRow /\ session[s] # None
  BY LiveRow, Zenon DEF saml!unsolicited
<1>2. session[s].user \in User
  BY <1>1, Zenon DEF SessionRow
<1>3. Asks(c, Head(Config[c].acs), None)
  BY FirstAcs, Zenon DEF Asks, saml!unsolicited, saml!Saml
<1>4. GoodTask(saml!NewTask(saml!NameStep(c), session[s].user, s, c, Head(Config[c].acs), None, None), session, names)
  BY <1>1, <1>2, <1>3, NewSignOn, Zenon
<1>5. UNCHANGED <<session, names, cookie>> /\ over' = over /\ notices' = notices /\ flow' = flow /\ sent' = sent
  BY Zenon DEF saml!unsolicited
<1>6. saml!Set(t, saml!NewTask(saml!NameStep(c), session[s].user, s, c, Head(Config[c].acs), None, None))
  BY Zenon DEF saml!unsolicited
<1> QED
  BY <1>4, <1>5, <1>6, HandlerStep, Zenon

\* The name is read, or one is minted.
LEMMA ReadNameStep ==
    ASSUME SamlInv, NEW t \in Task, saml!get_saml_persistent_id(t)
    PROVE  SamlInv'
<1>1. PICK r : r = s_task[t]
  BY Zenon
<1>2. r # Idle /\ r.op = "read_name" /\ GoodTask(r, session, names)
  BY <1>1, Zenon DEF SamlInv, saml!get_saml_persistent_id, saml!At
<1>3. UNCHANGED <<session, names, cookie>> /\ over' = over /\ notices' = notices /\ flow' = flow /\ sent' = sent
  BY Zenon DEF saml!get_saml_persistent_id
<1>4. CASE names[<<r.user, r.sp>>] # None /\ saml!Set(t, [r EXCEPT !.name = names[<<r.user, r.sp>>], !.op = "sign"])
  <2>1. GoodTask([r EXCEPT !.name = names[<<r.user, r.sp>>], !.op = "sign"], session, names)
    <3>1. PICK q : q = [r EXCEPT !.name = names[<<r.user, r.sp>>], !.op = "sign"]
      BY Zenon
    <3>2. q = [op |-> "sign", user |-> r.user, sid |-> r.sid, sp |-> r.sp, acs |-> r.acs, request |-> r.request,
               flow |-> r.flow, name |-> names[<<r.user, r.sp>>], raced |-> r.raced, out |-> r.out, clients |-> r.clients]
      BY <1>2, <3>1, GoodFields, Names, Zenon
    <3>3. GoodTask(q, session, names)
      BY <1>2, <1>4, <3>2, Zenon DEF GoodTask, SignOn, Named
    <3> QED
      BY <3>1, <3>3, Zenon
  <2> QED
    BY <1>3, <1>4, <2>1, HandlerStep, Zenon
<1>5. CASE \E n \in saml!Unused : saml!Set(t, [r EXCEPT !.name = n, !.raced = TRUE, !.op = "save_name"])
  <2>1. PICK n \in saml!Unused : saml!Set(t, [r EXCEPT !.name = n, !.raced = TRUE, !.op = "save_name"])
    BY <1>5, Zenon
  <2>2. n \in 1..MaxName
    BY Zenon DEF saml!Unused
  <2>3. GoodTask([r EXCEPT !.name = n, !.raced = TRUE, !.op = "save_name"], session, names)
    <3>1. PICK q : q = [r EXCEPT !.name = n, !.raced = TRUE, !.op = "save_name"]
      BY Zenon
    <3>2. q = [op |-> "save_name", user |-> r.user, sid |-> r.sid, sp |-> r.sp, acs |-> r.acs, request |-> r.request,
               flow |-> r.flow, name |-> n, raced |-> TRUE, out |-> r.out, clients |-> r.clients]
      BY <1>2, <3>1, GoodFields, Mints, Zenon
    <3>3. GoodTask(q, session, names)
      BY <1>2, <2>2, <3>2, Zenon DEF GoodTask, SignOn
    <3> QED
      BY <3>1, <3>3, Zenon
  <2> QED
    BY <1>3, <2>1, <2>3, HandlerStep, Zenon
<1> QED
  BY <1>1, <1>4, <1>5, Zenon DEF saml!get_saml_persistent_id

\* The name is saved, if it is the first.
LEMMA SaveNameStep ==
    ASSUME SamlInv, NEW t \in Task, saml!save_saml_persistent_id(t)
    PROVE  SamlInv'
<1>1. PICK r : r = s_task[t]
  BY Zenon
<1>2. r # Idle /\ r.op = "save_name" /\ GoodTask(r, session, names)
  BY <1>1, Zenon DEF SamlInv, saml!save_saml_persistent_id, saml!At
<1>3. session' = session /\ cookie' = cookie /\ over' = over /\ notices' = notices /\ flow' = flow /\ sent' = sent
  BY <1>1, Zenon DEF saml!save_saml_persistent_id
<1>4. PICK q : q = [r EXCEPT !.op = "sign"]
  BY Zenon
<1>5. q = [op |-> "sign", user |-> r.user, sid |-> r.sid, sp |-> r.sp, acs |-> r.acs, request |-> r.request,
            flow |-> r.flow, name |-> r.name, raced |-> r.raced, out |-> r.out, clients |-> r.clients]
  BY <1>2, <1>4, GoodFields, Moves, Zenon
<1>6. <<r.user, r.sp>> \in User \X SamlClient /\ r.name \in 1..MaxName /\ r.raced
  BY <1>2, Zenon DEF GoodTask
<1>7. names \in [User \X SamlClient -> 1..MaxName \cup {None}]
  BY Zenon DEF SamlInv
<1>8. PICK v : /\ v \in 1..MaxName \cup {None} /\ v # None
               /\ v = IF names[<<r.user, r.sp>>] = None THEN r.name ELSE names[<<r.user, r.sp>>]
  BY <1>6, <1>7, SamlAssumption, Zenon
<1>9. names' = [names EXCEPT ![<<r.user, r.sp>>] = v]
  BY <1>1, <1>8, Zenon DEF saml!save_saml_persistent_id
<1>10. /\ names' \in [User \X SamlClient -> 1..MaxName \cup {None}]
       /\ names'[<<r.user, r.sp>>] # None
       /\ \A x \in User \X SamlClient : names[x] # None => names'[x] = names[x]
  BY <1>6, <1>7, <1>8, <1>9, Zenon
<1>11. Grows(session, session', names, names')
  BY <1>3, <1>10, Zenon DEF Grows
<1>12. GoodTask(r, session', names')
  BY <1>2, <1>11, StaysGood, Zenon
<1>13. GoodTask(q, session', names')
  BY <1>2, <1>5, <1>6, <1>10, <1>12, Zenon DEF GoodTask, SignOn, Named
<1>14. saml!Set(t, q)
  BY <1>1, <1>4, Zenon DEF saml!save_saml_persistent_id
<1>15. /\ s_task' = [x \in Task |-> s_task'[x]]
       /\ \A x \in Task : s_task'[x] # Idle => s_task'[x] = s_task[x] \/ GoodTask(s_task'[x], session', names')
  BY <1>13, <1>14, PlaceSet, Zenon
<1>16. session' \in [saml!Sid -> SessionRow \cup {None, Gone}]
  BY <1>3, Zenon DEF SamlInv
<1> QED
  BY <1>3, <1>10, <1>11, <1>15, <1>16, SamlStep, Zenon

\* What a sign-on sends is good.
LEMMA ResponseGood ==
    ASSUME SamlInv, NEW t \in Task, s_task[t] # Idle, s_task[t].op = "sign", GoodTask(s_task[t], session, names)
    PROVE  GoodReply(saml!Response(t), session, names)
<1>1. PICK r : r = s_task[t]
  BY Zenon
<1>2. PICK m : m = saml!Response(t)
  BY Zenon
<1>3. r.op = "sign" /\ GoodTask(r, session, names)
  BY <1>1, Zenon
<1>4. PICK a : a = saml!build_assertion(r.user, r.sp, r.sid, saml!NameOf(t))
  BY Zenon
<1>5. m.assertion = a /\ m.destination = r.acs /\ m.request = r.request /\ m.raced = r.raced
  BY <1>1, <1>2, <1>4, Zenon DEF saml!Response, saml!serialize_response
<1>6. /\ a.user = r.user /\ a.audience = r.sp /\ a.name = saml!NameOf(t)
      /\ a.attributes = saml!Attributes(r.user, r.sp) /\ a.index \in {r.sid, None}
  BY <1>4, Zenon DEF saml!build_assertion
<1>7. \A x \in saml!Attributes(r.user, r.sp) : x.values # <<>>
  BY Zenon DEF saml!Attributes, saml!default_user_attributes, saml!apply_attribute_mappers
<1>8. saml!Persistent(r.sp) => a.name[2] = r.name
  BY <1>1, <1>6 DEF saml!NameOf
<1>9. Known(session, a.index)
  BY <1>3, <1>6, SamlAssumption, Zenon DEF Known, GoodTask, saml!Sid
<1>10. Asks(r.sp, r.acs, r.request) /\ r.user \in User /\ r.sp \in SamlClient
       /\ (saml!Persistent(r.sp) => Named(names, r.user, r.sp, r.name, r.raced))
  BY <1>3, Zenon DEF GoodTask, SignOn
<1> QED
  BY <1>2, <1>5, <1>6, <1>7, <1>8, <1>9, <1>10, Zenon DEF GoodReply

\* The assertion is signed, or fails to be.
LEMMA SignStep ==
    ASSUME SamlInv, NEW t \in Task, saml!sign_assertion(t)
    PROVE  SamlInv'
<1>1. PICK r : r = s_task[t]
  BY Zenon
<1>2. r # Idle /\ r.op = "sign" /\ GoodTask(r, session, names)
  BY <1>1, Zenon DEF SamlInv, saml!sign_assertion, saml!At
<1>3. UNCHANGED <<session, names, cookie>> /\ over' = over /\ notices' = notices /\ flow' = flow
  BY <1>1, Zenon DEF saml!sign_assertion
<1>4. PICK out \in {{saml!Response(t)}, {}} :
        IF r.flow = None THEN sent' = sent \cup out /\ saml!Set(t, Idle)
        ELSE sent' = sent /\ saml!Set(t, [r EXCEPT !.op = "get_session", !.out = out])
  BY <1>1, Zenon DEF saml!sign_assertion
<1>5. \A m \in out : GoodReply(m, session, names)
  BY <1>1, <1>2, ResponseGood, Zenon
<1>6. CASE r.flow = None
  BY <1>3, <1>4, <1>5, <1>6, HandlerStep, Zenon
<1>7. CASE r.flow # None
  <2>1. PICK q : q = [r EXCEPT !.op = "get_session", !.out = out]
    BY Zenon
  <2>2. q = [op |-> "get_session", user |-> r.user, sid |-> r.sid, sp |-> r.sp, acs |-> r.acs, request |-> r.request,
            flow |-> r.flow, name |-> r.name, raced |-> r.raced, out |-> out, clients |-> r.clients]
    BY <1>2, <2>1, GoodFields, Answers, Zenon
  <2>3. GoodTask(q, session, names)
    BY <1>2, <1>5, <2>2, Zenon DEF GoodTask, SignOn
  <2> QED
    BY <1>3, <1>4, <1>7, <2>1, <2>3, HandlerStep, Zenon
<1> QED
  BY <1>6, <1>7, Zenon

\* The session is read for its participants.
LEMMA GetSessionStep ==
    ASSUME SamlInv, NEW t \in Task, saml!get_session(t)
    PROVE  SamlInv'
<1>1. PICK r : r = s_task[t]
  BY Zenon
<1>2. r # Idle /\ r.op = "get_session" /\ GoodTask(r, session, names)
  BY <1>1, Zenon DEF SamlInv, saml!get_session, saml!At
<1>3. UNCHANGED <<session, names, cookie>> /\ over' = over /\ notices' = notices /\ flow' = flow /\ sent' = sent
  BY <1>1, Zenon DEF saml!get_session
<1>4. CASE saml!Live(r.sid)
  <2>1. PICK cs : cs = session[r.sid].clients
    BY Zenon
  <2>2. session[r.sid].clients \subseteq SamlClient
    <3>1. r.sid \in saml!Sid
      BY <1>2, Zenon DEF GoodTask, SignOn
    <3> QED
      BY <1>4, <3>1, LiveRow, Zenon DEF SessionRow
  <2>3. PICK q : q = [r EXCEPT !.op = "update_session", !.clients = cs]
    BY Zenon
  <2>4. q = [op |-> "update_session", user |-> r.user, sid |-> r.sid, sp |-> r.sp, acs |-> r.acs, request |-> r.request,
            flow |-> r.flow, name |-> r.name, raced |-> r.raced, out |-> r.out, clients |-> cs]
    BY <1>2, <2>3, GoodFields, Reads, Zenon
  <2>5. GoodTask(q, session, names)
    BY <1>2, <2>1, <2>2, <2>4, Zenon DEF GoodTask, SignOn
  <2>6. saml!Set(t, q)
    BY <1>1, <1>4, <2>1, <2>3, Zenon DEF saml!get_session
  <2> QED
    BY <1>3, <2>5, <2>6, HandlerStep, Zenon
<1>5. CASE ~saml!Live(r.sid)
  <2>1. PICK q : q = [r EXCEPT !.op = "drop_flow"]
    BY Zenon
  <2>2. q = [op |-> "drop_flow", user |-> r.user, sid |-> r.sid, sp |-> r.sp, acs |-> r.acs, request |-> r.request,
            flow |-> r.flow, name |-> r.name, raced |-> r.raced, out |-> r.out, clients |-> r.clients]
    BY <1>2, <2>1, GoodFields, Moves, Zenon
  <2>3. GoodTask(q, session, names)
    BY <1>2, <2>2, Zenon DEF GoodTask, SignOn
  <2>4. saml!Set(t, q)
    BY <1>1, <1>5, <2>1, Zenon DEF saml!get_session
  <2> QED
    BY <1>3, <2>3, <2>4, HandlerStep, Zenon
<1> QED
  BY <1>4, <1>5, Zenon

\* The participation is recorded, if the session still is.
LEMMA UpdateSessionStep ==
    ASSUME SamlInv, NEW t \in Task, saml!update_session(t)
    PROVE  SamlInv'
<1>1. PICK r : r = s_task[t]
  BY Zenon
<1>2. r # Idle /\ r.op = "update_session" /\ GoodTask(r, session, names)
  BY <1>1, Zenon DEF SamlInv, saml!update_session, saml!At
<1>3. names' = names /\ cookie' = cookie /\ over' = over /\ notices' = notices /\ flow' = flow /\ sent' = sent
  BY <1>1, Zenon DEF saml!update_session
<1>4. /\ session' \in [saml!Sid -> SessionRow \cup {None, Gone}]
      /\ Grows(session, session', names, names')
  <2>1. session \in [saml!Sid -> SessionRow \cup {None, Gone}]
    BY Zenon DEF SamlInv
  <2>2. CASE saml!Live(r.sid)
    <3>1. r.sid \in saml!Sid /\ r.clients \cup {r.sp} \subseteq SamlClient
      BY <1>2, Zenon DEF GoodTask, SignOn
    <3>2. PICK row : row = [session[r.sid] EXCEPT !.clients = r.clients \cup {r.sp}]
      BY Zenon
    <3>3. session[r.sid] \in SessionRow
      BY <2>2, <3>1, LiveRow, Zenon
    <3>4. session[r.sid].user \in User /\ row = [user |-> session[r.sid].user, clients |-> r.clients \cup {r.sp}]
      BY <3>2, <3>3, Zenon DEF SessionRow
    <3>5. row \in SessionRow /\ row # None
      BY <3>1, <3>4, SamlAssumption, Zenon DEF SessionRow
    <3>6. session' = [session EXCEPT ![r.sid] = row]
      BY <1>1, <2>2, <3>2, Zenon DEF saml!update_session
    <3>7. session' \in [saml!Sid -> SessionRow \cup {None, Gone}]
      BY <2>1, <3>1, <3>5, <3>6, Zenon
    <3>8. session'[r.sid] # None /\ session[r.sid] # Gone /\ \A s \in saml!Sid \ {r.sid} : session'[s] = session[s]
      BY <2>1, <2>2, <3>1, <3>5, <3>6, Zenon DEF saml!Live
    <3> QED
      BY <1>3, <3>7, <3>8, Zenon DEF Grows
  <2>3. CASE ~saml!Live(r.sid)
    <3>1. session' = session
      BY <1>1, <2>3, Zenon DEF saml!update_session
    <3> QED
      BY <1>3, <2>1, <3>1, GrowsSame, Zenon
  <2> QED
    BY <2>2, <2>3, Zenon
<1>5. PICK q : q = [r EXCEPT !.op = "drop_flow"]
  BY Zenon
<1>6. q = [op |-> "drop_flow", user |-> r.user, sid |-> r.sid, sp |-> r.sp, acs |-> r.acs, request |-> r.request,
            flow |-> r.flow, name |-> r.name, raced |-> r.raced, out |-> r.out, clients |-> r.clients]
  BY <1>2, <1>5, GoodFields, Moves, Zenon
<1>7. GoodTask(r, session', names')
  BY <1>2, <1>4, StaysGood, Zenon
<1>8. GoodTask(q, session', names')
  BY <1>2, <1>6, <1>7, Zenon DEF GoodTask, SignOn
<1>9. saml!Set(t, q)
  BY <1>1, <1>5, Zenon DEF saml!update_session
<1>10. /\ s_task' = [x \in Task |-> s_task'[x]]
       /\ \A x \in Task : s_task'[x] # Idle => s_task'[x] = s_task[x] \/ GoodTask(s_task'[x], session', names')
  BY <1>8, <1>9, PlaceSet, Zenon
<1>11. names' \in [User \X SamlClient -> 1..MaxName \cup {None}]
  BY <1>3, Zenon DEF SamlInv
<1> QED
  BY <1>3, <1>4, <1>10, <1>11, SamlStep, Zenon

\* The flow state goes and the answer leaves.
LEMMA DropFlowStep ==
    ASSUME SamlInv, NEW t \in Task, saml!delete_flow_state(t)
    PROVE  SamlInv'
<1>1. PICK r : r = s_task[t]
  BY Zenon
<1>2. r # Idle /\ r.op = "drop_flow" /\ GoodTask(r, session, names)
  BY <1>1, Zenon DEF SamlInv, saml!delete_flow_state, saml!At
<1>3. UNCHANGED <<session, names, cookie>> /\ over' = over /\ notices' = notices /\ flow' = flow \ {r.flow} /\ sent' = sent \cup r.out
  BY <1>1, Zenon DEF saml!delete_flow_state
<1>4. \A m \in r.out : GoodReply(m, session, names)
  BY <1>2, Zenon DEF GoodTask
<1>5. saml!Set(t, Idle)
  BY Zenon DEF saml!delete_flow_state
<1> QED
  BY <1>3, <1>4, <1>5, HandlerStep, Zenon

\* A handler is dropped.
LEMMA DroppedStep ==
    ASSUME SamlInv, NEW t \in Task, saml!Dropped(t)
    PROVE  SamlInv'
<1>1. UNCHANGED <<session, names, cookie>> /\ over' = over /\ notices' = notices /\ flow' = flow /\ sent' = sent
  BY Zenon DEF saml!Dropped
<1>2. saml!Set(t, Idle)
  BY Zenon DEF saml!Dropped
<1> QED
  BY <1>1, <1>2, HandlerStep, Zenon

\* A LogoutRequest arrives.
LEMMA SloStep ==
    ASSUME SamlInv, NEW t \in Task, NEW m \in sent, saml!slo_post(t, m)
    PROVE  SamlInv'
<1>1. PICK cs : cs = saml!Peers(m.assertion.index, m.assertion.audience)
  BY Zenon
<1>2. cs \subseteq SamlClient
  BY <1>1, LiveRow, Zenon DEF SessionRow, saml!Peers
<1>3. PICK q : q = [op |-> "delete_session", user |-> m.assertion.user, sid |-> m.assertion.index, sp |-> m.assertion.audience,
                    acs |-> None, request |-> None, flow |-> None, name |-> None, raced |-> FALSE,
                    out |-> {}, clients |-> cs]
  BY Zenon
<1>4. saml!Set(t, q)
  <2>1. PICK q0 : q0 = saml!NewTask("delete_session", m.assertion.user, m.assertion.index, m.assertion.audience, None, None, None)
    BY Zenon
  <2>2. [q0 EXCEPT !.clients = cs] = q
    <3>1. [q0 EXCEPT !.clients = cs] =
            [op |-> "delete_session", user |-> m.assertion.user, sid |-> m.assertion.index, sp |-> m.assertion.audience,
             acs |-> None, request |-> None, flow |-> None, name |-> None, raced |-> FALSE,
             out |-> {}, clients |-> cs]
      <4>1. Handler(q0)
        BY <2>1, Zenon DEF saml!NewTask, Handler
      <4>2. /\ q0.op = "delete_session" /\ q0.user = m.assertion.user /\ q0.sid = m.assertion.index
            /\ q0.sp = m.assertion.audience /\ q0.acs = None /\ q0.request = None /\ q0.flow = None
            /\ q0.name = None /\ q0.raced = FALSE /\ q0.out = {}
        BY <2>1, Zenon DEF saml!NewTask
      <4>3. [q0 EXCEPT !.clients = cs] =
              [op |-> q0.op, user |-> q0.user, sid |-> q0.sid, sp |-> q0.sp, acs |-> q0.acs, request |-> q0.request,
               flow |-> q0.flow, name |-> q0.name, raced |-> q0.raced, out |-> q0.out, clients |-> cs]
        BY <4>1, Peers, Zenon
      <4> QED
        BY <4>2, <4>3, Zenon
    <3> QED
      BY <1>3, <3>1, Zenon
  <2>3. saml!Set(t, [q0 EXCEPT !.clients = cs])
    <3>1. saml!Set(t, [saml!NewTask("delete_session", m.assertion.user, m.assertion.index, m.assertion.audience, None, None, None)
                         EXCEPT !.clients = saml!Peers(m.assertion.index, m.assertion.audience)])
      BY Zenon DEF saml!slo_post
    <3> QED
      BY <1>1, <2>1, <3>1, Zenon
  <2> QED
    BY <2>2, <2>3, Zenon
<1>5. GoodReply(m, session, names)
  BY Zenon DEF SamlInv
<1>6. GoodTask(q, session, names)
  BY <1>2, <1>3, <1>5, Zenon DEF GoodTask, GoodReply, SignOn
<1>7. UNCHANGED <<session, names, cookie>> /\ over' = over /\ notices' = notices /\ flow' = flow /\ sent' = sent
  BY Zenon DEF saml!slo_post
<1> QED
  BY <1>4, <1>6, <1>7, HandlerStep, Zenon

\* The end of a session that was created.
LEMMA EndRow ==
    ASSUME SamlInv, NEW s, Known(session, s), saml!End(s), names' = names
    PROVE  /\ session' \in [saml!Sid -> SessionRow \cup {None, Gone}]
           /\ Grows(session, session', names, names')
           /\ Over(session', s)
<1>1. session \in [saml!Sid -> SessionRow \cup {None, Gone}]
  BY Zenon DEF SamlInv
<1>2. CASE s \in saml!Sid /\ saml!Live(s)
  <2>1. session' = [session EXCEPT ![s] = Gone]
    BY <1>2, Zenon DEF saml!End
  <2>2. session' \in [saml!Sid -> SessionRow \cup {None, Gone}] /\ session'[s] = Gone
        /\ \A x \in saml!Sid \ {s} : session'[x] = session[x]
    BY <1>1, <1>2, <2>1, Zenon
  <2> QED
    BY <2>2, SamlAssumption, Zenon DEF Grows, Over
<1>3. CASE ~(s \in saml!Sid /\ saml!Live(s))
  <2>1. session' = session
    BY <1>3, Zenon DEF saml!End
  <2> QED
    BY <1>1, <1>3, <2>1, GrowsSame, Zenon DEF Over, Known, saml!Live
<1> QED
  BY <1>2, <1>3, Zenon

\* A single logout ends the session.
LEMMA DeleteSessionStep ==
    ASSUME SamlInv, NEW t \in Task, saml!delete_session(t)
    PROVE  SamlInv'
<1>1. PICK r : r = s_task[t]
  BY Zenon
<1>2. r # Idle /\ r.op = "delete_session" /\ GoodTask(r, session, names)
  BY <1>1, Zenon DEF SamlInv, saml!delete_session, saml!At
<1>3. names' = names /\ cookie' = cookie /\ over' = over /\ notices' = notices /\ flow' = flow /\ sent' = sent
  BY <1>1, Zenon DEF saml!delete_session
<1>4. saml!End(r.sid) /\ Known(session, r.sid)
  BY <1>1, <1>2, Zenon DEF GoodTask, saml!delete_session
<1>5. /\ session' \in [saml!Sid -> SessionRow \cup {None, Gone}]
      /\ Grows(session, session', names, names')
      /\ Over(session', r.sid)
  BY <1>3, <1>4, EndRow, Zenon
<1>6. PICK q : q = [r EXCEPT !.op = "fan_out"]
  BY Zenon
<1>7. q = [op |-> "fan_out", user |-> r.user, sid |-> r.sid, sp |-> r.sp, acs |-> r.acs, request |-> r.request,
            flow |-> r.flow, name |-> r.name, raced |-> r.raced, out |-> r.out, clients |-> r.clients]
  BY <1>2, <1>6, GoodFields, Moves, Zenon
<1>8. GoodTask(r, session', names')
  BY <1>2, <1>5, StaysGood, Zenon
<1>9. GoodTask(q, session', names')
  BY <1>5, <1>7, <1>8, Zenon DEF GoodTask, SignOn
<1>10. saml!Set(t, q)
  BY <1>1, <1>6, Zenon DEF saml!delete_session
<1>11. /\ s_task' = [x \in Task |-> s_task'[x]]
       /\ \A x \in Task : s_task'[x] # Idle => s_task'[x] = s_task[x] \/ GoodTask(s_task'[x], session', names')
  BY <1>9, <1>10, PlaceSet, Zenon
<1>12. names' \in [User \X SamlClient -> 1..MaxName \cup {None}]
  BY <1>3, Zenon DEF SamlInv
<1> QED
  BY <1>3, <1>5, <1>11, <1>12, SamlStep, Zenon

\* The other participants are told.
LEMMA FanOutStep ==
    ASSUME SamlInv, NEW t \in Task, saml!propagate_saml_logout(t)
    PROVE  SamlInv'
<1>1. PICK r : r = s_task[t]
  BY Zenon
<1>2. r # Idle /\ r.op = "fan_out" /\ GoodTask(r, session, names)
  BY <1>1, Zenon DEF SamlInv, saml!propagate_saml_logout, saml!At
<1>3. UNCHANGED <<session, names, cookie>> /\ flow' = flow /\ sent' = sent
  BY <1>1, Zenon DEF saml!propagate_saml_logout
<1>4. Over(session, r.sid)
  BY <1>2, Zenon DEF GoodTask
<1>5. \A n \in notices' : n \in notices \/ n.sid = r.sid
  <2> DEFINE told == {p \in r.clients : saml!Saml(p) /\ Config[p].slo}
  <2>1. notices' = notices \cup {[to |-> c, sid |-> r.sid] : c \in told}
    BY <1>1 DEF saml!propagate_saml_logout
  <2> SUFFICES ASSUME NEW n \in notices', n \notin notices
               PROVE  n.sid = r.sid
    BY Zenon
  <2>2. PICK c \in told : n = [to |-> c, sid |-> r.sid]
    BY <2>1, Zenon
  <2> QED
    BY <2>2, Zenon
<1>6. \A s \in over' : s \in over \/ (s \in saml!Sid /\ s = r.sid)
  BY <1>1, Zenon DEF saml!propagate_saml_logout
<1>7. saml!Set(t, Idle)
  BY Zenon DEF saml!propagate_saml_logout
<1>8. \A s \in over' : s \in over \/ (s \in saml!Sid /\ session[s] = Gone)
  BY <1>4, <1>6, Zenon DEF Over
<1>9. \A n \in notices' : n \in notices \/ Over(session, n.sid)
  BY <1>4, <1>5, Zenon
<1> QED
  BY <1>3, <1>7, <1>8, <1>9, HandlerStep, Zenon

\* A logout with the id_token_hint of a session, or a revocation, ends it at once.
LEMMA EndStep ==
    ASSUME SamlInv, NEW s \in saml!Sid, session[s] # None, saml!End(s), over' = over \cup {s},
           UNCHANGED <<flow, cookie, names, s_task, sent>>,
           \A n \in notices' : n \in notices \/ n.sid = s
    PROVE  SamlInv'
<1>1. names' = names /\ Known(session, s)
  BY Zenon DEF Known
<1>2. /\ session' \in [saml!Sid -> SessionRow \cup {None, Gone}]
      /\ Grows(session, session', names, names')
      /\ Over(session', s)
  BY <1>1, EndRow, Zenon
<1>3. \A n \in notices' : n \in notices \/ Over(session', n.sid)
  BY <1>2, Zenon
<1>4. \A x \in over' : x \in over \/ (x \in saml!Sid /\ session'[x] = Gone)
  BY <1>2, Zenon DEF Over
<1>5. names' \in [User \X SamlClient -> 1..MaxName \cup {None}] /\ s_task' = [x \in Task |-> s_task'[x]]
  BY Zenon DEF SamlInv
<1>6. flow' = flow /\ cookie' = cookie /\ s_task' = s_task /\ sent' = sent
  BY Zenon
<1> QED
  BY <1>2, <1>3, <1>4, <1>5, <1>6, SamlStep, Zenon

\* logout_get.
LEMMA LogoutGetStep ==
    ASSUME SamlInv, NEW s \in saml!Sid, saml!logout_get(s)
    PROVE  SamlInv'
<1>1. session[s] # None
  BY Zenon DEF SamlInv, saml!logout_get
<1>2. saml!End(s) /\ over' = over \cup {s} /\ notices' = notices /\ UNCHANGED <<flow, cookie, names, s_task, sent>>
  BY Zenon DEF saml!logout_get
<1> QED
  BY <1>1, <1>2, EndStep, Zenon

\* revoke_session.
LEMMA RevokeStep ==
    ASSUME SamlInv, NEW s \in saml!Sid, saml!revoke_session(s)
    PROVE  SamlInv'
<1>1. session[s] # None
  BY Zenon DEF saml!revoke_session, saml!Live
<1>2. saml!End(s) /\ over' = over \cup {s} /\ notices' = notices /\ UNCHANGED <<flow, cookie, names, s_task, sent>>
  BY Zenon DEF saml!revoke_session
<1> QED
  BY <1>1, <1>2, EndStep, Zenon

\* logout_post: without the hint nobody is told, as the row id of a refresh token
\* names no client.
LEMMA LogoutPostStep ==
    ASSUME SamlInv, NEW s \in saml!Sid, NEW refresh \in Backchannel \cup {None}, NEW hint, NEW form,
           saml!logout_post(s, refresh, hint, form)
    PROVE  SamlInv'
<1>1. session[s] # None
  BY Zenon DEF SamlInv, saml!logout_post
<1>2. UNCHANGED <<flow, cookie, names, s_task, sent>>
  BY Zenon DEF saml!logout_post
<1>3. CASE hint # None
  <2>1. saml!End(s) /\ over' = over \cup {s}
    BY <1>3, Zenon DEF saml!logout_post
  <2>2. \A n \in notices' : n \in notices \/ n.sid = s
    BY <1>3 DEF saml!logout_post, saml!dispatch_backchannel_logout
  <2> QED
    BY <1>1, <1>2, <2>1, <2>2, EndStep, Zenon
<1>4. CASE hint = None
  <2>1. session' = session /\ over' = over
    BY <1>4, Zenon DEF saml!logout_post
  <2>2. notices' = notices
    <3>1. CASE refresh = None
      BY <1>4, <3>1, Zenon DEF saml!logout_post
    <3>2. CASE refresh # None
      <4>1. refresh \in Backchannel /\ <<"row", refresh>> \notin Backchannel
        BY <3>2, SamlAssumption, Zenon
      <4>2. saml!dispatch_backchannel_logout(<<"row", refresh>>, s) = {}
        BY <4>1, Zenon DEF saml!dispatch_backchannel_logout
      <4>3. saml!client_id_hint(refresh, hint, form) = <<"row", refresh>>
        BY <3>2, Zenon DEF saml!client_id_hint
      <4>4. notices' = notices \cup saml!dispatch_backchannel_logout(saml!client_id_hint(refresh, hint, form), s)
        BY <3>2, Zenon DEF saml!logout_post
      <4> QED
        BY <4>2, <4>3, <4>4, Zenon
    <3> QED
      BY <3>1, <3>2, Zenon
  <2>3. names' = names /\ flow' = flow /\ cookie' = cookie /\ s_task' = s_task /\ sent' = sent
    BY <1>2, Zenon
  <2> QED
    BY <2>1, <2>2, <2>3, Zenon DEF SamlInv
<1> QED
  BY <1>3, <1>4, Zenon

\* The invariant holds at the start.
LEMMA SamlInit == saml!Init => SamlInv
<1> SUFFICES ASSUME saml!Init PROVE SamlInv
  BY Zenon
<1>1. /\ session = [s \in saml!Sid |-> None] /\ names = [x \in User \X SamlClient |-> None]
      /\ s_task = [t \in Task |-> Idle] /\ cookie = {} /\ over = {} /\ notices = {} /\ flow = {} /\ sent = {}
  BY Zenon DEF saml!Init
<1>2. /\ session \in [saml!Sid -> SessionRow \cup {None, Gone}]
      /\ names \in [User \X SamlClient -> 1..MaxName \cup {None}]
      /\ s_task = [t \in Task |-> s_task[t]] /\ \A t \in Task : s_task[t] = Idle
  BY <1>1, Zenon
<1> QED
  BY <1>1, <1>2, Zenon DEF SamlInv

\* Every step keeps it.
LEMMA SamlNext == SamlInv /\ [saml!Next]_(saml!vars) => SamlInv'
<1> SUFFICES ASSUME SamlInv, [saml!Next]_(saml!vars) PROVE SamlInv'
  BY Zenon
<1>1. CASE saml!Next
  <2>1. ASSUME NEW d \in Documents, saml!handle_sso(d) PROVE SamlInv'
    BY <2>1, SsoStep, Zenon
  <2>2. ASSUME NEW u \in User, saml!OidcLogin(u) PROVE SamlInv'
    BY <2>2, OidcStep, Zenon
  <2>3. ASSUME NEW s \in saml!Sid, saml!logout_get(s) \/ saml!revoke_session(s) PROVE SamlInv'
    BY <2>3, LogoutGetStep, RevokeStep, Zenon
  <2>4. ASSUME NEW s \in saml!Sid, NEW refresh \in Backchannel \cup {None}, NEW hint, NEW form,
               saml!logout_post(s, refresh, hint, form)
        PROVE  SamlInv'
    BY <2>4, LogoutPostStep, Zenon
  <2>5. ASSUME NEW t \in Task, saml!Step(t) PROVE SamlInv'
    BY <2>5, ReadNameStep, SaveNameStep, SignStep, GetSessionStep, UpdateSessionStep, DropFlowStep,
       DeleteSessionStep, FanOutStep, DroppedStep, Zenon DEF saml!Step
  <2>6. ASSUME NEW t \in Task, NEW u \in User, NEW f \in flow, saml!create_session(t, u, f) PROVE SamlInv'
    BY <2>6, CreateStep, Zenon
  <2>7. ASSUME NEW t \in Task, NEW s \in saml!Sid, NEW c \in SamlClient, saml!unsolicited(t, s, c) PROVE SamlInv'
    BY <2>7, UnsolicitedStep, Zenon
  <2>8. ASSUME NEW t \in Task, NEW m \in sent, saml!slo_post(t, m) PROVE SamlInv'
    BY <2>8, SloStep, Zenon
  <2> QED
    BY <1>1, <2>1, <2>2, <2>3, <2>4, <2>5, <2>6, <2>7, <2>8, Zenon DEF saml!Next
<1>2. CASE UNCHANGED saml!vars
  BY <1>2, Zenon DEF SamlInv, saml!vars
<1> QED
  BY <1>1, <1>2, Zenon

\* LoggedOutIsOver: a session that a single logout, an OIDC logout or a revocation
\* has answered for is gone for good, also while the sign-on that created it
\* records its participation (update_session writes only a row that is there), and
\* nobody is told of the end of a session that lives (propagate_saml_logout,
\* dispatch_backchannel_logout).  For every number of clients, sessions and handlers.
THEOREM LoggedOutCorrect == saml!Spec => []LoggedOutIsOver
<1>1. SamlInv => LoggedOutIsOver
  BY Zenon DEF SamlInv, Over, LoggedOutIsOver, saml!LoggedOutIsOver, saml!Live
<1> QED
  BY <1>1, SamlInit, SamlNext, PTL DEF saml!Spec

\* ResponseFits: every Response that was sent goes to a registered ACS URL of its
\* audience, answers a request of that service provider or none, has no empty
\* attribute, and carries the stored persistent name unless its handler found
\* the row missing (handle_sso, try_complete_saml, resolve_persistent_name_id).
THEOREM ResponseCorrect == saml!Spec => []ResponseFits
<1>1. SamlInv => ResponseFits
  BY Zenon DEF SamlInv, GoodReply, Asks, Named, ResponseFits, saml!ResponseFits
<1> QED
  BY <1>1, SamlInit, SamlNext, PTL DEF saml!Spec
=============================================================================
