---------------------------- MODULE LoginProofs ----------------------------
(***************************************************************************)
(* Proofs of the safety properties of the ways into a session: of          *)
(* LoginSession for any number of tasks, flows, sessions, clients and      *)
(* codes; of Broker for any realms, providers, callbacks and states.  Each *)
(* result rests on its own inductive invariant.                            *)
(***************************************************************************)
EXTENDS MCLogin, TLAPS

-----------------------------------------------------------------------------
\* Login, single sign-on and authorization codes

\* What a task holds at each of its steps.
HeldTypes ==
    \A t \in Task :
        /\ pc[t] \in FlowPC => heldFlow[t] \in started
        /\ pc[t] \in {"coding", "participating", "sso_coding"}
              => heldSession[t] \in created
        /\ pc[t] \in {"participating", "sso_coding"} => heldClient[t] \in Client
        /\ pc[t] = "exchanging" => heldCode[t] \in Code

TypeInv == TypeOK /\ HeldTypes

\* The first state is typed.
LEMMA InitType == Init => TypeInv
BY NoneAssumption DEF Init, TypeInv, TypeOK, HeldTypes, PC, FlowPC

\* Every step keeps the types.
LEMMA NextType == TypeInv /\ [Next]_vars => TypeInv'
<1> SUFFICES ASSUME TypeInv, [Next]_vars PROVE TypeInv'
  BY Zenon
<1> USE NoneAssumption DEF TypeInv, TypeOK, HeldTypes, PC, FlowPC, GoTo
<1>1. ASSUME NEW f \in Flow, start_flow(f) PROVE TypeInv'
  BY <1>1, Zenon DEF start_flow, held
<1>2. ASSUME NEW s \in Session, logout(s) PROVE TypeInv'
  BY <1>2, Zenon DEF logout, held, history
<1>3. ASSUME NEW t \in Task, NEW f \in Flow, authenticate_post(t, f) PROVE TypeInv'
  BY <1>3 DEF authenticate_post, storage, history
<1>4. ASSUME NEW t \in Task, NEW s \in Session, CreateSession(t, s) PROVE TypeInv'
  BY <1>4 DEF CreateSession
<1>5. ASSUME NEW t \in Task, NEW c \in Code, mint_code(t, c) PROVE TypeInv'
  BY <1>5 DEF mint_code, save_code_grant, held
<1>6. ASSUME NEW t \in Task, NEW s \in Session, NEW cl \in Client,
             resolve_session(t, s, cl) PROVE TypeInv'
  BY <1>6 DEF resolve_session, storage, history
<1>7. ASSUME NEW t \in Task, NEW c \in Code, shortcircuit(t, c) PROVE TypeInv'
  BY <1>7, SMTT(20) DEF shortcircuit, save_code_grant, Respond
<1>8. ASSUME NEW t \in Task, NEW c \in Code, consume_code(t, c) PROVE TypeInv'
  BY <1>8, SMTT(20) DEF consume_code, history
<1>9. ASSUME NEW t \in Task, Step(t) PROVE TypeInv'
  BY <1>9, SMTT(20) DEF Step, Respond, held, storage, history
<1>10. ASSUME NEW t \in Task, SaveFlowState(t) PROVE TypeInv'
  BY <1>10, SMTT(20) DEF SaveFlowState, Respond, history
<1>11. ASSUME NEW t \in Task, DropFlowState(t) PROVE TypeInv'
  BY <1>11, SMTT(20) DEF DropFlowState, Respond
<1>12. ASSUME NEW t \in Task, update_session_participation(t) PROVE TypeInv'
  BY <1>12 DEF update_session_participation, held
<1>13. ASSUME NEW t \in Task, exchange(t) PROVE TypeInv'
  BY <1>13 DEF exchange, Respond, storage
<1>14. ASSUME NEW t \in Task, Drop(t) PROVE TypeInv'
  BY <1>14 DEF Drop, Respond, storage, history
<1>15. CASE UNCHANGED vars
  BY <1>15, Zenon DEF vars, storage, held, history
<1> QED
  BY <1>1, <1>2, <1>3, <1>4, <1>5, <1>6, <1>7, <1>8, <1>9, <1>10, <1>11,
     <1>12, <1>13, <1>14, <1>15, Zenon DEF Next

\* The types of LoginSession are right, and a stored code names a session
\* that was created: mint_code_and_redirect creates it first.
THEOREM TypeCorrect == Spec => []TypeOK
<1>1. TypeInv => TypeOK
  BY Zenon DEF TypeInv
<1> QED
  BY <1>1, InitType, NextType, PTL DEF Spec

-----------------------------------------------------------------------------
\* A code is stored, held by exactly one exchange, or gone: an exchange holds
\* a code that no storage row and no other exchange has, not yet granted.
CodeInv ==
    /\ \A t \in Task : pc[t] = "exchanging" =>
          /\ heldCode[t] \notin codes
          /\ granted[heldCode[t]] = 0
          /\ codeSession[heldCode[t]] # None
    /\ \A t, u \in Task :
          pc[t] = "exchanging" /\ pc[u] = "exchanging" /\ heldCode[t] = heldCode[u]
              => t = u
    /\ \A c \in codes : granted[c] = 0 /\ codeSession[c] # None
    /\ \A c \in Code : codeSession[c] = None => granted[c] = 0
    /\ \A c \in Code : granted[c] \in {0, 1}

\* Every step keeps the invariant of the codes.
LEMMA NextCode == TypeInv /\ CodeInv /\ [Next]_vars => CodeInv'
<1> SUFFICES ASSUME TypeInv, CodeInv, [Next]_vars PROVE CodeInv'
  BY Zenon
<1> USE NoneAssumption DEF CodeInv, TypeInv, TypeOK, HeldTypes, PC, FlowPC, GoTo
<1>1. ASSUME NEW f \in Flow, start_flow(f) PROVE CodeInv'
  BY <1>1, Zenon DEF start_flow, held
<1>2. ASSUME NEW s \in Session, logout(s) PROVE CodeInv'
  BY <1>2, Zenon DEF logout, held, history
<1>3. ASSUME NEW t \in Task, NEW f \in Flow, authenticate_post(t, f) PROVE CodeInv'
  BY <1>3 DEF authenticate_post, storage, history
<1>4. ASSUME NEW t \in Task, NEW s \in Session, CreateSession(t, s) PROVE CodeInv'
  BY <1>4 DEF CreateSession
<1>5. ASSUME NEW t \in Task, NEW c \in Code, mint_code(t, c) PROVE CodeInv'
  BY <1>5 DEF mint_code, save_code_grant, held
<1>6. ASSUME NEW t \in Task, NEW s \in Session, NEW cl \in Client,
             resolve_session(t, s, cl) PROVE CodeInv'
  BY <1>6 DEF resolve_session, storage, history
<1>7. ASSUME NEW t \in Task, NEW c \in Code, shortcircuit(t, c) PROVE CodeInv'
  BY <1>7, SMTT(20) DEF shortcircuit, save_code_grant, Respond
<1>8. ASSUME NEW t \in Task, NEW c \in Code, consume_code(t, c) PROVE CodeInv'
  BY <1>8, SMTT(20) DEF consume_code, history
<1>9. ASSUME NEW t \in Task, Step(t) PROVE CodeInv'
  BY <1>9, SMTT(20) DEF Step, Respond, held, storage, history
<1>10. ASSUME NEW t \in Task, SaveFlowState(t) PROVE CodeInv'
  BY <1>10, SMTT(20) DEF SaveFlowState, Respond, history
<1>11. ASSUME NEW t \in Task, DropFlowState(t) PROVE CodeInv'
  BY <1>11, SMTT(20) DEF DropFlowState, Respond
<1>12. ASSUME NEW t \in Task, update_session_participation(t) PROVE CodeInv'
  BY <1>12 DEF update_session_participation, held
<1>13. ASSUME NEW t \in Task, exchange(t) PROVE CodeInv'
  BY <1>13 DEF exchange, Respond, storage
<1>14. ASSUME NEW t \in Task, Drop(t) PROVE CodeInv'
  BY <1>14 DEF Drop, Respond, storage, history
<1>15. CASE UNCHANGED vars
  BY <1>15, Zenon DEF vars, storage, held, history
<1> QED
  BY <1>1, <1>2, <1>3, <1>4, <1>5, <1>6, <1>7, <1>8, <1>9, <1>10, <1>11,
     <1>12, <1>13, <1>14, <1>15, Zenon DEF Next

\* An authorization code yields tokens at most once, for every number of
\* tasks and pods that present it: what consume_code's atomic removal is for.
THEOREM CodeOnce == Spec => []CodeGrantedOnce
<1>1. Init => CodeInv
  BY NoneAssumption, Zenon DEF Init, CodeInv, FlowPC
<1>2. CodeInv => CodeGrantedOnce
  BY DEF CodeInv, CodeGrantedOnce
<1> QED
  BY <1>1, <1>2, InitType, NextType, NextCode, PTL DEF Spec

\* What the phase of a code depends on.
LEMMA LocalPhase ==
    ASSUME NEW c \in Code,
           (c \in codes)' <=> c \in codes, codeSession'[c] = codeSession[c],
           granted'[c] = granted[c], Exchanged(c)' <=> Exchanged(c)
    PROVE  CodePhase(c)' = CodePhase(c)
BY Zenon DEF CodePhase

\* A step that leaves the codes, the grants and the exchanges alone is a stutter
\* of SingleUse.
LEMMA SamePhase ==
    ASSUME UNCHANGED <<codes, codeSession, granted>>,
           \A t \in Task : pc'[t] = "exchanging" <=> pc[t] = "exchanging",
           \A t \in Task : pc[t] = "exchanging" => heldCode'[t] = heldCode[t]
    PROVE  \A c \in Code : CodePhase(c)' = CodePhase(c)
BY LocalPhase, Zenon DEF Exchanged

\* A step that changes the phase of one code only, to a phase SingleUse allows.
LEMMA OnePhase ==
    ASSUME NEW c \in Code, \A d \in Code \ {c} : CodePhase(d)' = CodePhase(d),
           \/ CodePhase(c)' = CodePhase(c)
           \/ CodePhase(c) = "unissued" /\ CodePhase(c)' = "live"
           \/ CodePhase(c) = "live" /\ CodePhase(c)' \in {"taken", "honoured", "void"}
           \/ CodePhase(c) = "taken" /\ CodePhase(c)' \in {"honoured", "void"}
    PROVE  [Codes!Next]_codePhases
BY Zenon DEF Codes!Next, Codes!Issue, Codes!Present, Codes!Settle, Codes!Move, codePhases

\* Every step of LoginSession is a step of SingleUse or leaves the phases alone.
LEMMA CodeStep ==
    TypeInv /\ TypeInv' /\ CodeInv /\ CodeInv' /\ [Next]_vars
        => [Codes!Next]_codePhases
<1> SUFFICES ASSUME TypeInv, TypeInv', CodeInv, CodeInv', [Next]_vars
             PROVE  [Codes!Next]_codePhases
  BY Zenon
<1> DEFINE Same == \A c \in Code : CodePhase(c)' = CodePhase(c)
<1> DEFINE Goal == [Codes!Next]_codePhases
<1>0. Same => Goal
  BY Zenon DEF codePhases
<1>1. ASSUME NEW f \in Flow, start_flow(f) PROVE Same
  BY <1>1, SamePhase, Zenon DEF start_flow, held, GoTo, TypeInv, TypeOK
<1>2. ASSUME NEW s \in Session, logout(s) PROVE Same
  BY <1>2, SamePhase, Zenon DEF logout, held, history, GoTo, TypeInv, TypeOK
<1>3. ASSUME NEW t \in Task, NEW f \in Flow, authenticate_post(t, f) PROVE Same
  BY <1>3, SamePhase, Zenon DEF authenticate_post, storage, history, GoTo, TypeInv, TypeOK
<1>4. ASSUME NEW t \in Task, NEW s \in Session, CreateSession(t, s) PROVE Same
  BY <1>4, SamePhase, Zenon DEF CreateSession, GoTo, TypeInv, TypeOK
<1>5. ASSUME NEW t \in Task, NEW s \in Session, NEW cl \in Client,
             resolve_session(t, s, cl) PROVE Same
  BY <1>5, SamePhase, Zenon DEF resolve_session, storage, history, GoTo, TypeInv, TypeOK
<1>6. ASSUME NEW t \in Task, Step(t) PROVE Same
  BY <1>6, SamePhase, SMTT(20) DEF Step, Respond, held, storage, history, GoTo, TypeInv, TypeOK
<1>7. ASSUME NEW t \in Task, SaveFlowState(t) PROVE Same
  BY <1>7, SamePhase, SMTT(20) DEF SaveFlowState, Respond, history, GoTo, TypeInv, TypeOK
<1>8. ASSUME NEW t \in Task, DropFlowState(t) PROVE Same
  BY <1>8, SamePhase, SMTT(20) DEF DropFlowState, Respond, GoTo, TypeInv, TypeOK
<1>9. ASSUME NEW t \in Task, update_session_participation(t) PROVE Same
  BY <1>9, SamePhase, Zenon DEF update_session_participation, held, GoTo, TypeInv, TypeOK
<1>10. ASSUME NEW t \in Task, NEW c \in Code, mint_code(t, c) \/ shortcircuit(t, c)
       PROVE  Goal
  <2> USE <1>10 DEF mint_code, shortcircuit, save_code_grant, TypeInv, TypeOK
  <2>1. CodePhase(c) = "unissued" /\ CodePhase(c)' = "live"
    <3>1. codeSession'[c] # None /\ granted'[c] = 0 /\ c \in codes'
      BY Zenon DEF CodeInv
    <3> QED
      BY <3>1 DEF CodePhase
  <2>2. ASSUME NEW d \in Code \ {c} PROVE CodePhase(d)' = CodePhase(d)
    <3>1. Exchanged(d)' <=> Exchanged(d)
      BY DEF Exchanged, Respond, GoTo, held
    <3> QED
      BY <3>1, LocalPhase, Zenon
  <2> QED
    BY <2>1, <2>2, OnePhase, Zenon
<1>11. ASSUME NEW t \in Task, NEW c \in Code, consume_code(t, c) PROVE Goal
  <2> USE <1>11 DEF consume_code, GoTo, history, TypeInv, TypeOK
  <2>1. CASE c \in codes
    <3>1. CodePhase(c) = "live"
      BY <2>1 DEF CodePhase, CodeInv
    <3>2. codeSession'[c] # None /\ granted'[c] = 0 /\ c \notin codes' /\ Exchanged(c)'
      BY <2>1 DEF CodeInv, Exchanged
    <3>3. CodePhase(c)' = "taken"
      BY <3>2 DEF CodePhase
    <3>4. ASSUME NEW d \in Code \ {c} PROVE CodePhase(d)' = CodePhase(d)
      <4>1. Exchanged(d)' <=> Exchanged(d)
        BY <2>1 DEF Exchanged
      <4> QED
        BY <2>1, <4>1, LocalPhase, Zenon
    <3> QED
      BY <3>1, <3>3, <3>4, OnePhase, Zenon
  <2>2. CASE c \notin codes
    BY <1>0, <2>2, SamePhase, Zenon
  <2> QED
    BY <2>1, <2>2, Zenon
<1>12. ASSUME NEW t \in Task, exchange(t) \/ Drop(t) PROVE Goal
  <2> USE <1>12 DEF exchange, Drop, Respond, storage, history, TypeInv, TypeOK
  <2>1. CASE pc[t] = "exchanging"
    <3>0. PICK c \in Code : c = heldCode[t]
      BY <2>1, Zenon DEF HeldTypes
    <3>1. codeSession[c] # None /\ granted[c] = 0 /\ c \notin codes
      BY <2>1, <3>0 DEF CodeInv
    <3>2. Exchanged(c) /\ ~Exchanged(c)'
      BY <2>1, <3>0 DEF CodeInv, Exchanged
    <3>3. CodePhase(c) = "taken"
      BY <3>1, <3>2 DEF CodePhase
    <3>4. codeSession'[c] # None /\ c \notin codes' /\ granted'[c] \in {0, 1}
      BY <3>0, <3>1
    <3>5. CodePhase(c)' \in {"honoured", "void"}
      BY <3>2, <3>4 DEF CodePhase
    <3>6. ASSUME NEW d \in Code \ {c} PROVE CodePhase(d)' = CodePhase(d)
      <4>1. Exchanged(d)' <=> Exchanged(d)
        BY <2>1, <3>0 DEF Exchanged
      <4>2. granted'[d] = granted[d]
        BY <3>0
      <4> QED
        BY <4>1, <4>2, LocalPhase, Zenon
    <3> QED
      BY <3>3, <3>5, <3>6, OnePhase, Zenon
  <2>2. CASE pc[t] # "exchanging"
    BY <1>0, <2>2, SamePhase
  <2> QED
    BY <2>1, <2>2, Zenon
<1>13. CASE UNCHANGED vars
  BY <1>0, <1>13, SamePhase, Zenon DEF vars, storage, held, history
<1> QED
  BY <1>0, <1>1, <1>2, <1>3, <1>4, <1>5, <1>6, <1>7, <1>8, <1>9, <1>10, <1>11, <1>12, <1>13, Zenon DEF Next

\* The exchange implements SingleUse, for every number of codes and tasks.
THEOREM CodesImplement == Spec => CodesSingleUse
<1>1. Init => CodeInv /\ Codes!Init
  BY NoneAssumption, Zenon DEF Init, CodeInv, FlowPC, Codes!Init, CodePhase, codePhases
<1> QED
  BY <1>1, InitType, NextType, NextCode, CodeStep, PTL DEF Spec, CodesSingleUse, Codes!Spec

-----------------------------------------------------------------------------
\* A finished flow is neither stored nor held by a task on its way to save it.
FlowInv ==
    /\ finished \cap flow_states = {}
    /\ finished \subseteq started
    /\ \A t \in Task : pc[t] \in FlowPC => heldFlow[t] \notin finished

\* Every step keeps the invariant of the flows.
LEMMA NextFlow == TypeInv /\ FlowInv /\ [Next]_vars => FlowInv'
<1> SUFFICES ASSUME TypeInv, FlowInv, [Next]_vars PROVE FlowInv'
  BY Zenon
<1> USE NoneAssumption DEF FlowInv, TypeInv, TypeOK, HeldTypes, PC, FlowPC, GoTo
<1>1. ASSUME NEW f \in Flow, start_flow(f) PROVE FlowInv'
  BY <1>1 DEF start_flow, held
<1>2. ASSUME NEW s \in Session, logout(s) PROVE FlowInv'
  BY <1>2, Zenon DEF logout, held, history
<1>3. ASSUME NEW t \in Task, NEW f \in Flow, authenticate_post(t, f) PROVE FlowInv'
  BY <1>3 DEF authenticate_post, storage, history
<1>4. ASSUME NEW t \in Task, NEW s \in Session, CreateSession(t, s) PROVE FlowInv'
  BY <1>4, Zenon DEF CreateSession
<1>5. ASSUME NEW t \in Task, NEW c \in Code, mint_code(t, c) PROVE FlowInv'
  BY <1>5, Zenon DEF mint_code, save_code_grant, held
<1>6. ASSUME NEW t \in Task, NEW s \in Session, NEW cl \in Client,
             resolve_session(t, s, cl) PROVE FlowInv'
  BY <1>6, Zenon DEF resolve_session, storage, history
<1>7. ASSUME NEW t \in Task, NEW c \in Code, shortcircuit(t, c) PROVE FlowInv'
  BY <1>7, SMTT(20) DEF shortcircuit, save_code_grant, Respond
<1>8. ASSUME NEW t \in Task, NEW c \in Code, consume_code(t, c) PROVE FlowInv'
  BY <1>8, SMTT(20) DEF consume_code, history
<1>9. ASSUME NEW t \in Task, Step(t) PROVE FlowInv'
  BY <1>9, SMTT(20) DEF Step, Respond, held, storage, history
<1>10. ASSUME NEW t \in Task, SaveFlowState(t) PROVE FlowInv'
  BY <1>10, SMTT(20) DEF SaveFlowState, Respond, history
<1>11. ASSUME NEW t \in Task, DropFlowState(t) PROVE FlowInv'
  BY <1>11 DEF DropFlowState, Respond, HeldByOther
<1>12. ASSUME NEW t \in Task, update_session_participation(t) PROVE FlowInv'
  BY <1>12, Zenon DEF update_session_participation, held
<1>13. ASSUME NEW t \in Task, exchange(t) PROVE FlowInv'
  BY <1>13, ZenonT(60) DEF exchange, Respond, storage
<1>14. ASSUME NEW t \in Task, Drop(t) PROVE FlowInv'
  BY <1>14, Zenon DEF Drop, Respond, storage, history
<1>15. CASE UNCHANGED vars
  BY <1>15, Zenon DEF vars, storage, held, history
<1> QED
  BY <1>1, <1>2, <1>3, <1>4, <1>5, <1>6, <1>7, <1>8, <1>9, <1>10, <1>11,
     <1>12, <1>13, <1>14, <1>15, Zenon DEF Next

\* A flow state dropped while nobody else worked on it stays gone, although
\* save_flow_state would recreate it: no task is left that could save it.
THEOREM FinishedGone == Spec => []FinishedFlowStaysGone
<1>1. Init => FlowInv
  BY NoneAssumption, Zenon DEF Init, FlowInv, FlowPC
<1>2. FlowInv => FinishedFlowStaysGone
  BY Zenon DEF FlowInv, FinishedFlowStaysGone
<1> QED
  BY <1>1, <1>2, InitType, NextType, NextFlow, PTL DEF Spec

-----------------------------------------------------------------------------
\* Every copy about to be written back contains the settled clients.
SettledInv ==
    /\ \A s \in sessions : settled[s] \subseteq clients[s]
    /\ \A s \in Session : s \notin created => settled[s] = {}
    /\ \A t \in Task : pc[t] = "participating" /\ heldSession[t] \in sessions
          => settled[heldSession[t]] \subseteq heldClients[t]

\* Every step keeps the invariant of the settled logins.
LEMMA NextSettled == TypeInv /\ SettledInv /\ [Next]_vars => SettledInv'
<1> SUFFICES ASSUME TypeInv, SettledInv, [Next]_vars PROVE SettledInv'
  BY Zenon
<1> USE NoneAssumption DEF SettledInv, TypeInv, TypeOK, HeldTypes, PC, FlowPC, GoTo
<1>1. ASSUME NEW f \in Flow, start_flow(f) PROVE SettledInv'
  BY <1>1, Zenon DEF start_flow, held
<1>2. ASSUME NEW s \in Session, logout(s) PROVE SettledInv'
  BY <1>2, Zenon DEF logout, held, history
<1>3. ASSUME NEW t \in Task, NEW f \in Flow, authenticate_post(t, f) PROVE SettledInv'
  BY <1>3 DEF authenticate_post, storage, history
<1>4. ASSUME NEW t \in Task, NEW s \in Session, CreateSession(t, s) PROVE SettledInv'
  BY <1>4 DEF CreateSession
<1>5. ASSUME NEW t \in Task, NEW c \in Code, mint_code(t, c) PROVE SettledInv'
  BY <1>5 DEF mint_code, save_code_grant, held
<1>6. ASSUME NEW t \in Task, NEW s \in Session, NEW cl \in Client,
             resolve_session(t, s, cl) PROVE SettledInv'
  BY <1>6 DEF resolve_session, storage, history
<1>7. ASSUME NEW t \in Task, NEW c \in Code, shortcircuit(t, c) PROVE SettledInv'
  BY <1>7, SMTT(20) DEF shortcircuit, save_code_grant, Respond
<1>8. ASSUME NEW t \in Task, NEW c \in Code, consume_code(t, c) PROVE SettledInv'
  BY <1>8, SMTT(20) DEF consume_code, history
<1>9. ASSUME NEW t \in Task, Step(t) PROVE SettledInv'
  BY <1>9, SMTT(20) DEF Step, Respond, held, storage, history
<1>10. ASSUME NEW t \in Task, SaveFlowState(t) PROVE SettledInv'
  BY <1>10, SMTT(20) DEF SaveFlowState, Respond, history
<1>11. ASSUME NEW t \in Task, DropFlowState(t) PROVE SettledInv'
  BY <1>11, SMTT(20) DEF DropFlowState, Respond
<1>12. ASSUME NEW t \in Task, update_session_participation(t) PROVE SettledInv'
  BY <1>12 DEF update_session_participation, held, RecordedByOther
<1>13. ASSUME NEW t \in Task, exchange(t) PROVE SettledInv'
  BY <1>13, ZenonT(60) DEF exchange, Respond, storage
<1>14. ASSUME NEW t \in Task, Drop(t) PROVE SettledInv'
  BY <1>14 DEF Drop, Respond, storage, history
<1>15. CASE UNCHANGED vars
  BY <1>15, Zenon DEF vars, storage, held, history
<1> QED
  BY <1>1, <1>2, <1>3, <1>4, <1>5, <1>6, <1>7, <1>8, <1>9, <1>10, <1>11,
     <1>12, <1>13, <1>14, <1>15, Zenon DEF Next

\* A client recorded without a concurrent recording is never lost, although
\* update_session_participation writes the whole row back from a copy.
THEOREM SettledStays == Spec => []SettledClientStays
<1>1. Init => SettledInv
  BY NoneAssumption, Zenon DEF Init, SettledInv, FlowPC
<1>2. SettledInv => SettledClientStays
  BY Zenon DEF SettledInv, SettledClientStays
<1> QED
  BY <1>1, <1>2, InitType, NextType, NextSettled, PTL DEF Spec

-----------------------------------------------------------------------------
\* The brokered login

\* What StatesSingleUse rests on: a stored row has a state value of its own that
\* was given out and not spent, and what was not given out was not spent either.
StateInv ==
    /\ b_created \in Nat
    /\ spent \in [broker!StateValue -> Nat]
    /\ \A s \in b_row : s.state \in broker!StateValue /\ s.state <= b_created /\ spent[s.state] = 0
    /\ \A s, r \in b_row : s.state = r.state => s = r
    /\ \A n \in broker!StateValue : n > b_created => spent[n] = 0

\* No state was created in the first state.
LEMMA InitState == broker!Init => StateInv
BY DEF broker!Init, StateInv

\* A login that begins creates a fresh state.
LEMMA LoginState ==
    ASSUME StateInv, NEW p \in broker!Provider, broker!broker_login(p) PROVE StateInv'
<1> DEFINE n == b_created + 1
<1>1. b_created' = n /\ n \in broker!StateValue /\ spent' = spent
  BY Zenon DEF broker!broker_login
<1>2. b_row' = b_row \cup {broker!NewState(p, n)} /\ broker!NewState(p, n).state = n
  BY <1>1, Zenon DEF broker!broker_login, broker!NewState
<1>3. \A s \in b_row : s.state # n
  BY DEF StateInv
<1> QED
  BY <1>1, <1>2, <1>3 DEF StateInv, broker!StateValue

\* A callback consumes one state.
LEMMA ConsumeState ==
    ASSUME StateInv, NEW s \in b_row, broker!consume_broker_state(s), b_created' = b_created
    PROVE  StateInv'
<1>1. PICK k \in broker!StateValue : k = s.state /\ k <= b_created /\ spent[k] = 0
  BY Zenon DEF StateInv
<1>2. spent' = [spent EXCEPT ![k] = spent[k] + 1] /\ b_row' = b_row \ {s}
  BY <1>1, Zenon DEF broker!consume_broker_state
<1>3. spent' \in [broker!StateValue -> Nat]
  BY <1>2 DEF StateInv
<1>4. \A m \in broker!StateValue \ {k} : spent'[m] = spent[m]
  BY <1>2, Zenon DEF StateInv
<1>5. \A r \in b_row' : r \in b_row /\ r.state \in broker!StateValue \ {k}
  BY <1>1, <1>2, Zenon DEF StateInv
<1>6. \A n \in broker!StateValue : n > b_created => n # k
  BY <1>1 DEF StateInv, broker!StateValue
<1> QED
  BY <1>3, <1>4, <1>5, <1>6, Zenon DEF StateInv

\* Every step keeps the invariant of the states.
LEMMA NextState == StateInv /\ [broker!Next]_broker_vars => StateInv'
<1> SUFFICES ASSUME StateInv, [broker!Next]_broker_vars PROVE StateInv'
  BY Zenon
<1>1. ASSUME NEW p \in broker!Provider, broker!broker_login(p) PROVE StateInv'
  BY <1>1, LoginState, Zenon
<1>2. ASSUME NEW t \in Task, NEW p \in broker!Provider, NEW s \in b_row, NEW reply \in Reply,
             broker!broker_endpoint_get(t, p, s, reply) PROVE StateInv'
  BY <1>2, ConsumeState, Zenon DEF broker!broker_endpoint_get
<1>3. ASSUME NEW t \in Task, NEW p \in broker!Provider, NEW s \in b_row, NEW d \in Document,
             broker!broker_endpoint_post(t, p, s, d) PROVE StateInv'
  BY <1>3, ConsumeState, Zenon DEF broker!broker_endpoint_post
<1>4. CASE UNCHANGED <<b_row, b_created, spent>>
  BY <1>4, Zenon DEF StateInv
<1>5. ASSUME \/ broker!Tick \/ \E p \in broker!Provider : broker!Disable(p)
             \/ \E t \in Task : broker!find_broker_link(t) \/ broker!upsert_broker_link(t) \/ broker!Dropped(t)
             \/ UNCHANGED broker_vars
      PROVE  UNCHANGED <<b_row, b_created, spent>>
  BY <1>5, Zenon DEF broker!Tick, broker!Disable, broker!find_broker_link, broker!upsert_broker_link, broker!Dropped, broker_vars
<1> QED
  BY <1>1, <1>2, <1>3, <1>4, <1>5, Zenon DEF broker!Next

-----------------------------------------------------------------------------
\* A step that moves one state only is a step of SingleUse.
LEMMA OneState ==
    ASSUME NEW n \in broker!StateValue, \A m \in broker!StateValue \ {n} : broker!StatePhase(m)' = broker!StatePhase(m),
           \/ broker!StatePhase(n) = "unissued" /\ broker!StatePhase(n)' = "live"
           \/ broker!StatePhase(n) = "live" /\ broker!StatePhase(n)' = "honoured"
    PROVE  broker!States!Next
BY Zenon DEF broker!States!Next, broker!States!Issue, broker!States!Present, broker!States!Settle, broker!States!Move, broker!statePhases

\* A redirect issues the next state value.
LEMMA LoginPhase ==
    ASSUME StateInv, NEW p \in broker!Provider, broker!broker_login(p) PROVE broker!States!Next
<1>1. PICK k \in broker!StateValue : k = b_created + 1
  BY Zenon DEF broker!broker_login
<1>2. b_created' = k /\ spent' = spent /\ b_row' = b_row \cup {broker!NewState(p, k)}
      /\ broker!NewState(p, k).state = k
  BY <1>1, Zenon DEF broker!broker_login, broker!NewState
<1>3. broker!StatePhase(k) = "unissued"
  BY <1>1 DEF broker!StatePhase, StateInv
<1>4. broker!StatePhase(k)' = "live"
  BY <1>1, <1>2 DEF broker!StatePhase, StateInv
<1>5. ASSUME NEW m \in broker!StateValue \ {k} PROVE broker!StatePhase(m)' = broker!StatePhase(m)
  <2>1. m > b_created' <=> m > b_created
    BY <1>1, <1>2 DEF StateInv, broker!StateValue
  <2>2. (\E s \in b_row' : s.state = m) <=> \E s \in b_row : s.state = m
    BY <1>2, Zenon
  <2> QED
    BY <1>2, <2>1, <2>2, Zenon DEF broker!StatePhase
<1> QED
  BY <1>3, <1>4, <1>5, OneState, Zenon

\* A callback that finds a row honours its state value.
LEMMA ConsumePhase ==
    ASSUME StateInv, NEW s \in b_row, broker!consume_broker_state(s), b_created' = b_created
    PROVE  broker!States!Next
<1>1. PICK k \in broker!StateValue : k = s.state
  BY Zenon DEF StateInv
<1>0. k <= b_created /\ spent[k] = 0 /\ spent \in [broker!StateValue -> Nat]
  BY <1>1, Zenon DEF StateInv
<1>2. /\ k <= b_created /\ spent[k] = 0 /\ b_row' = b_row \ {s}
      /\ spent' = [spent EXCEPT ![k] = spent[k] + 1]
  BY <1>0, <1>1, Zenon DEF broker!consume_broker_state
<1>3. broker!StatePhase(k) = "live"
  BY <1>1, <1>2 DEF broker!StatePhase, StateInv, broker!StateValue
<1>4. broker!StatePhase(k)' = "honoured"
  BY <1>0, <1>2 DEF broker!StatePhase, StateInv, broker!StateValue
<1>5. ASSUME NEW m \in broker!StateValue \ {k} PROVE broker!StatePhase(m)' = broker!StatePhase(m)
  BY <1>1, <1>2, Zenon DEF broker!StatePhase, StateInv
<1> QED
  BY <1>3, <1>4, <1>5, OneState

\* Every step of the broker is a step of SingleUse on its states, or none.
LEMMA StateStep == StateInv /\ [broker!Next]_broker_vars => [broker!States!Next]_(broker!statePhases)
<1> SUFFICES ASSUME StateInv, [broker!Next]_broker_vars PROVE [broker!States!Next]_(broker!statePhases)
  BY Zenon
<1>1. ASSUME NEW p \in broker!Provider, broker!broker_login(p) PROVE broker!States!Next
  BY <1>1, LoginPhase, Zenon
<1>2. ASSUME NEW t \in Task, NEW p \in broker!Provider, NEW s \in b_row, NEW reply \in Reply,
             broker!broker_endpoint_get(t, p, s, reply) PROVE broker!States!Next
  BY <1>2, ConsumePhase, Zenon DEF broker!broker_endpoint_get
<1>3. ASSUME NEW t \in Task, NEW p \in broker!Provider, NEW s \in b_row, NEW d \in Document,
             broker!broker_endpoint_post(t, p, s, d) PROVE broker!States!Next
  BY <1>3, ConsumePhase, Zenon DEF broker!broker_endpoint_post
<1>4. ASSUME UNCHANGED <<b_row, b_created, spent>> PROVE UNCHANGED broker!statePhases
  BY <1>4, Zenon DEF broker!statePhases, broker!StatePhase
<1>5. ASSUME \/ broker!Tick \/ \E p \in broker!Provider : broker!Disable(p)
             \/ \E t \in Task : broker!find_broker_link(t) \/ broker!upsert_broker_link(t) \/ broker!Dropped(t)
             \/ UNCHANGED broker_vars
      PROVE  UNCHANGED <<b_row, b_created, spent>>
  BY <1>5, Zenon DEF broker!Tick, broker!Disable, broker!find_broker_link, broker!upsert_broker_link, broker!Dropped, broker_vars
<1> QED
  BY <1>1, <1>2, <1>3, <1>4, <1>5, Zenon DEF broker!Next

\* broker_login, the OIDC callback and the SAML ACS implement SingleUse: a state
\* value is given out once and honoured once, whoever presents it how often.
THEOREM StatesImplement == broker!Spec => StatesSingleUse
<1>1. broker!Init => broker!States!Init
  BY DEF broker!Init, broker!States!Init, broker!statePhases, broker!StatePhase, broker!StateValue
<1> QED
  BY <1>1, InitState, NextState, StateStep, PTL
  DEF broker!Spec, broker!vars, broker_vars, StatesSingleUse, broker!StatesSingleUse, broker!States!Spec

-----------------------------------------------------------------------------
\* What LinkKept rests on, for accounts whose first logins did not overlap: one
\* login at a time is about to write a first link, while there is none, and who
\* found a link is about to write back what is stored.
CopyOK(t) ==
    broker!At(t, "upsert_link") /\ b_task[t].key \notin overlapped =>
        \/ broker!FirstLogin(t, b_task[t].key) /\ b_task[t].key \notin DOMAIN link
        \/ b_task[t].key \in DOMAIN link /\ b_task[t].found = link[b_task[t].key]
Alone(t, u) ==
    \A k : broker!FirstLogin(t, k) /\ broker!FirstLogin(u, k) => t = u \/ k \in overlapped

LinkInv ==
    /\ b_task = [t \in Task |-> b_task[t]]
    /\ \A t \in Task : CopyOK(t)
    /\ \A t, u \in Task : Alone(t, u)

\* No link was saved in the first state.
LEMMA InitLink == broker!Init => LinkInv
BY Zenon DEF broker!Init, LinkInv, CopyOK, Alone, broker!At, broker!FirstLogin

\* A task that becomes idle, or is about to look for its link, holds no copy.
LEMMA NoCopy ==
    ASSUME LinkInv, NEW t \in Task, NEW new, broker!Set(t, new), UNCHANGED <<link, overlapped>>,
           new = Idle \/ new.op = "find_link"
    PROVE  LinkInv'
<1>1. b_task' = [b_task EXCEPT ![t] = new]
  BY Zenon DEF broker!Set
<1>2. \A u \in Task : broker!At(u, "upsert_link")' => u # t /\ b_task'[u] = b_task[u]
  BY <1>1, Zenon DEF broker!At, LinkInv
<1>3. b_task' = [u \in Task |-> b_task'[u]]
  BY <1>1, Zenon DEF LinkInv
<1> QED
  BY <1>1, <1>2, <1>3 DEF LinkInv, CopyOK, Alone, broker!At, broker!FirstLogin

\* The look-up of a link keeps the invariant.
LEMMA FindLinkInv ==
    ASSUME LinkInv, NEW t \in Task, broker!find_broker_link(t) PROVE LinkInv'
<1>1. PICK k, new :
         /\ k = b_task[t].key /\ b_task' = [b_task EXCEPT ![t] = new] /\ link' = link
         /\ new = [op |-> "upsert_link", key |-> k,
                   login |-> IF k \in DOMAIN link THEN "again" ELSE "first",
                   found |-> IF k \in DOMAIN link THEN link[k] ELSE broker!Fresh]
         /\ overlapped' = IF k \notin DOMAIN link /\ \E u \in Task : broker!FirstLogin(u, k)
                          THEN overlapped \cup {k} ELSE overlapped
  BY Zenon DEF broker!find_broker_link, broker!Set
<1>2. /\ b_task' = [u \in Task |-> b_task'[u]] /\ b_task'[t] = new
      /\ \A u \in Task \ {t} : b_task'[u] = b_task[u]
  BY <1>1, Zenon DEF LinkInv
<1>3. new.key = k /\ new.op = "upsert_link"
  BY <1>1, Zenon
<1>4. \A u \in Task \ {t} : \A x : broker!FirstLogin(u, x)' <=> broker!FirstLogin(u, x)
  BY <1>2, Zenon DEF broker!FirstLogin, broker!At
<1>5. overlapped \subseteq overlapped'
  BY <1>1, Zenon
<1>6. \A u \in Task \ {t} : CopyOK(u)'
  BY <1>1, <1>2, <1>5, Zenon DEF LinkInv, CopyOK, broker!At, broker!FirstLogin
<1>7. \A u, v \in Task \ {t} : Alone(u, v)'
  BY <1>4, <1>5, Zenon DEF LinkInv, Alone
<1>8. CASE k \in DOMAIN link
  <2>1. new.login = "again" /\ new.found = link[k]
    BY <1>1, <1>8, Zenon
  <2>2. \A x : ~broker!FirstLogin(t, x)'
    BY <1>2, <2>1, Zenon DEF broker!FirstLogin
  <2>3. CopyOK(t)'
    BY <1>1, <1>2, <1>3, <1>8, <2>1, Zenon DEF CopyOK
  <2> QED
    BY <1>2, <1>6, <1>7, <2>2, <2>3, Zenon DEF LinkInv, Alone
<1>9. CASE k \notin DOMAIN link
  <2>1. (\E u \in Task : broker!FirstLogin(u, k)) => k \in overlapped'
    BY <1>1, <1>9, Zenon
  <2>2. new.login = "first"
    BY <1>1, <1>9, Zenon
  <2>3. CopyOK(t)'
    BY <1>1, <1>2, <1>3, <1>9, <2>2, Zenon DEF CopyOK, broker!FirstLogin, broker!At
  <2>4. \A x : broker!FirstLogin(t, x)' => x = k
    BY <1>2, <1>3, Zenon DEF broker!FirstLogin
  <2>5. \A u \in Task : Alone(t, u)' /\ Alone(u, t)'
    BY <1>4, <2>1, <2>4, Zenon DEF Alone
  <2> QED
    BY <1>2, <1>6, <1>7, <2>3, <2>5, Zenon DEF LinkInv
<1> QED
  BY <1>8, <1>9, Zenon

\* So does the write of one.
LEMMA UpsertLinkInv ==
    ASSUME LinkInv, NEW t \in Task, broker!upsert_broker_link(t) PROVE LinkInv' /\ broker!LinkWrite
<1>1. PICK k, f :
         /\ k = b_task[t].key /\ f = b_task[t].found /\ overlapped' = overlapped
         /\ broker!At(t, "upsert_link") /\ b_task' = [b_task EXCEPT ![t] = Idle]
         /\ link' = [x \in DOMAIN link \cup {k} |-> IF x = k THEN f ELSE link[x]]
  BY Zenon DEF broker!upsert_broker_link, broker!Set
<1>2. /\ b_task' = [u \in Task |-> b_task'[u]] /\ b_task'[t] = Idle
      /\ \A u \in Task \ {t} : b_task'[u] = b_task[u]
  BY <1>1, Zenon DEF LinkInv
<1>3. \A u \in Task : broker!At(u, "upsert_link")' => u # t /\ b_task'[u] = b_task[u] /\ broker!At(u, "upsert_link")
  BY <1>2, Zenon DEF broker!At
<1>4. k \notin overlapped /\ k \in DOMAIN link => f = link[k]
  BY <1>1, Zenon DEF LinkInv, CopyOK
<1>5. ASSUME NEW u \in Task PROVE CopyOK(u)'
  <2> SUFFICES ASSUME broker!At(u, "upsert_link")', b_task'[u].key \notin overlapped'
               PROVE  \/ broker!FirstLogin(u, b_task[u].key)' /\ b_task'[u].key \notin DOMAIN link'
                      \/ b_task'[u].key \in DOMAIN link' /\ b_task'[u].found = link'[b_task'[u].key]
    BY Zenon DEF CopyOK
  <2>1. u # t /\ b_task'[u] = b_task[u] /\ broker!At(u, "upsert_link")
    BY <1>3, Zenon
  <2>2. overlapped' = overlapped
    BY <1>1, Zenon
  <2>3. u # t /\ b_task'[u] = b_task[u] /\ broker!At(u, "upsert_link") /\ b_task[u].key \notin overlapped
    BY <2>1, <2>2, Zenon
  <2>4. CASE b_task[u].key # k
    BY <1>1, <2>3, <2>4, Zenon DEF LinkInv, CopyOK, broker!FirstLogin, broker!At
  <2>5. CASE b_task[u].key = k
    <3>1. ~(broker!FirstLogin(t, k) /\ broker!FirstLogin(u, k))
      BY <1>1, <2>3, <2>5, Zenon DEF LinkInv, Alone
    <3>2. b_task[u].key \in DOMAIN link /\ b_task[u].found = link[k] /\ f = link[k]
      BY <1>1, <2>3, <2>5, <3>1, Zenon DEF LinkInv, CopyOK
    <3> QED
      BY <1>1, <2>3, <2>5, <3>2, Zenon
  <2> QED
    BY <2>4, <2>5, Zenon
<1>6. \A u, v \in Task : Alone(u, v)'
  BY <1>1, <1>3, Zenon DEF LinkInv, Alone, broker!FirstLogin
<1>7. broker!LinkWrite
  BY <1>1, <1>4, Zenon DEF broker!LinkWrite
<1> QED
  BY <1>2, <1>5, <1>6, <1>7, Zenon DEF LinkInv

\* Every step keeps the invariant of the links, and writes them only as LinkWrite says.
LEMMA NextLink == LinkInv /\ [broker!Next]_broker_vars => LinkInv' /\ [broker!LinkWrite]_broker_vars
<1> SUFFICES ASSUME LinkInv, [broker!Next]_broker_vars PROVE LinkInv' /\ [broker!LinkWrite]_broker_vars
  BY Zenon
<1>0. link' = link => broker!LinkWrite
  BY Zenon DEF broker!LinkWrite
<1>1. ASSUME NEW t \in Task, broker!find_broker_link(t) PROVE LinkInv' /\ broker!LinkWrite
  BY <1>0, <1>1, FindLinkInv, Zenon DEF broker!find_broker_link
<1>2. ASSUME NEW t \in Task, broker!upsert_broker_link(t) PROVE LinkInv' /\ broker!LinkWrite
  BY <1>2, UpsertLinkInv, Zenon
<1>3. ASSUME UNCHANGED <<link, overlapped, b_task>> PROVE LinkInv' /\ broker!LinkWrite
  BY <1>0, <1>3, Zenon DEF LinkInv, CopyOK, Alone, broker!FirstLogin, broker!At
<1>4. ASSUME NEW t \in Task, broker!Dropped(t) PROVE LinkInv' /\ broker!LinkWrite
  BY <1>0, <1>4, NoCopy, Zenon DEF broker!Dropped
<1>5. ASSUME NEW t \in Task, NEW p \in broker!Provider, NEW s \in b_row, NEW reply \in Reply,
             broker!broker_endpoint_get(t, p, s, reply) PROVE LinkInv' /\ broker!LinkWrite
  <2>1. UNCHANGED b_task \/ \E a : broker!Set(t, broker!FindLink(p, a))
    BY <1>5, Zenon DEF broker!broker_endpoint_get
  <2>2. \A a : broker!FindLink(p, a).op = "find_link"
    BY Zenon DEF broker!FindLink
  <2> QED
    BY <1>0, <1>3, <1>5, <2>1, <2>2, NoCopy, Zenon DEF broker!broker_endpoint_get
<1>6. ASSUME NEW t \in Task, NEW p \in broker!Provider, NEW s \in b_row, NEW d \in Document,
             broker!broker_endpoint_post(t, p, s, d) PROVE LinkInv' /\ broker!LinkWrite
  <2>1. UNCHANGED b_task \/ \E a : broker!Set(t, broker!FindLink(p, a))
    BY <1>6, Zenon DEF broker!broker_endpoint_post
  <2>2. \A a : broker!FindLink(p, a).op = "find_link"
    BY Zenon DEF broker!FindLink
  <2> QED
    BY <1>0, <1>3, <1>6, <2>1, <2>2, NoCopy, Zenon DEF broker!broker_endpoint_post
<1>7. ASSUME \/ broker!Tick \/ UNCHANGED broker_vars \/ \E p \in broker!Provider : broker!broker_login(p) \/ broker!Disable(p)
      PROVE  UNCHANGED <<link, overlapped, b_task>>
  BY <1>7, Zenon DEF broker!Tick, broker_vars, broker!broker_login, broker!Disable
<1> QED
  BY <1>1, <1>2, <1>3, <1>4, <1>5, <1>6, <1>7, Zenon DEF broker!Next

\* persist_or_link never loses a link, and only overlapping first logins of an
\* account can change the user it leads to: logins of an account that is linked
\* may overlap as they like.
THEOREM LinkCorrect == broker!Spec => LinkKept
<1> QED
  BY InitLink, NextLink, PTL
  DEF broker!Spec, broker!vars, broker_vars, LinkKept, broker!LinkKept
=============================================================================
