----------------------------- MODULE FlowEngine -----------------------------
(***************************************************************************)
(* The flow executor: `DefaultExecutor::step` walking a compiled flow,     *)
(* the server's dispatcher with the built-in authenticators behind the     *)
(* Authenticator nodes, the seven built-in flows, and the admin's dry run. *)
(* One request loads the saved FlowState, walks nodes until one of them    *)
(* needs the user or a terminal is reached, and saves the state only when  *)
(* it answers with a page (login_actions.rs authenticate_post).            *)
(***************************************************************************)
EXTENDS Naturals, Sequences, FiniteSets, FiniteSetsExt, SequencesExt

CONSTANTS
    User,
    None,
    Definition,   \* the flow definitions that may run, by alias
    Form,         \* the forms a browser may post: sets of filled-in fields
    Plugins,      \* the sets of provider urns a deployment may bind to WASM plugins
    MaxSteps      \* bound on the number of requests

VARIABLES
    alias,      \* the flow being run
    plugin,     \* provider urns bound to a WASM plugin in this deployment
    saved,      \* the stored FlowState
    state,      \* the copy the request works on
    input,      \* StepInput of the request, with its form
    pc,         \* "idle", "walk", or what step returned last
    pending,    \* users with a required action
    sso,        \* the user of the session named by context.session_id
    steps       \* requests so far

vars == <<alias, plugin, saved, state, input, pc, pending, sso, steps>>

-----------------------------------------------------------------------------
(* Flow definitions (dsl.rs).  A guard is the authn_level it asks for.     *)
NoGuard == 99
edge(f, t, c) == [from |-> f, to |-> t, on |-> c, guard |-> NoGuard]

\* A linear flow: Start, one authenticator, then Success or Failure by its edge.
OneFactor(urn) ==
    [kind |-> [start |-> "Start", authn |-> "Authenticator", success |-> "Success",
               failure |-> "Failure"],
     arg |-> [authn |-> urn],
     edges |-> <<edge("start", "authn", "Otherwise"), edge("authn", "success", "Success"),
                 edge("authn", "failure", "Failure")>>]

browser ==
    [kind |-> [start |-> "Start", cookie |-> "Authenticator", form |-> "Render",
               password |-> "Authenticator", action |-> "Authenticator",
               success |-> "Success", failure |-> "Failure"],
     arg |-> [cookie |-> "cookie", password |-> "password", action |-> "require-action"],
     edges |-> <<edge("start", "cookie", "Otherwise"), edge("cookie", "success", "Success"),
                 edge("cookie", "form", "Otherwise"), edge("form", "password", "Success"),
                 edge("password", "action", "Success"), edge("password", "failure", "Failure"),
                 edge("action", "success", "Otherwise")>>]

direct_grant == OneFactor("password")
first_broker_login == OneFactor("idp-redirect")
client_authentication == OneFactor("client-authentication")
step_up == OneFactor("otp")

registration ==
    [kind |-> [start |-> "Start", form |-> "Render", password |-> "Authenticator",
               success |-> "Success", failure |-> "Failure"],
     arg |-> [password |-> "password"],
     edges |-> <<edge("start", "form", "Otherwise"), edge("form", "password", "Success"),
                 edge("password", "success", "Success"), edge("password", "failure", "Failure")>>]

reset_credentials ==
    [kind |-> [start |-> "Start", form |-> "Render", magic |-> "Authenticator",
               form2 |-> "Render", password |-> "Authenticator",
               success |-> "Success", failure |-> "Failure"],
     arg |-> [magic |-> "magic-link", password |-> "password"],
     edges |-> <<edge("start", "form", "Otherwise"), edge("form", "magic", "Success"),
                 edge("magic", "form2", "Success"), edge("magic", "failure", "Failure"),
                 edge("form2", "password", "Success"), edge("password", "success", "Success"),
                 edge("password", "failure", "Failure")>>]

v0_1_flows ==
    [browser |-> browser, direct_grant |-> direct_grant, registration |-> registration,
     reset_credentials |-> reset_credentials, first_broker_login |-> first_broker_login,
     client_authentication |-> client_authentication, step_up |-> step_up]

-----------------------------------------------------------------------------
flow == Definition[alias]
node == state.node
kind == flow.kind[node]

eval_guard(guard, level) == guard \in {NoGuard, level}

\* The edge of node n of flow d for condition c, else an Otherwise edge; the
\* first in declaration order whose guard passes.
next_with_guard(d, n, c, level) ==
    LET E(on) == {i \in DOMAIN d.edges : /\ d.edges[i].from = n /\ d.edges[i].on = on
                                         /\ eval_guard(d.edges[i].guard, level)}
    IN  IF E(c) # {} THEN d.edges[Min(E(c))].to
        ELSE IF E("Otherwise") # {} THEN d.edges[Min(E("Otherwise"))].to
        ELSE None

fresh == [node |-> "start", user |-> None, level |-> 0, history |-> <<>>]

TypeOK ==
    /\ alias \in DOMAIN Definition /\ plugin \in Plugins
    /\ \A s \in {saved, state} :
          /\ s.node \in DOMAIN flow.kind
          /\ s.user \in User \cup {None}
          /\ s.level \in Nat
          /\ s.history \in Seq((DOMAIN flow.kind) \X
                               {"advance", "submit", "success", "skip", "failure"})
    /\ input.kind \in {"Start", "Resume", "Submit", "IdpCallback"} /\ input.form \in Form
    /\ pc \in {"idle", "walk", "Render", "Done", "Failed", "DeadEnd", "Internal", "Expired"}
    /\ pending \subseteq User /\ sso \in User \cup {None}
    /\ steps \in 0 .. MaxSteps

Init ==
    /\ alias \in DOMAIN Definition /\ plugin \in Plugins
    /\ saved = fresh /\ state = fresh
    /\ input \in [kind : {"Start"}, form : Form]
    /\ pc = "idle"
    /\ pending \in SUBSET User /\ sso \in User \cup {None}
    /\ steps = 0

-----------------------------------------------------------------------------
(* A request.  Done and Expired end the flow; after any other answer the   *)
(* client may post again, and the state of a failed request is not saved.  *)
request(i, f) ==
    /\ pc \notin {"walk", "Done", "Expired"} /\ steps < MaxSteps
    /\ input' = [kind |-> i, form |-> f]
    /\ state' = saved
    /\ pc' = "walk" /\ steps' = steps + 1
    /\ UNCHANGED <<alias, plugin, saved, pending, sso>>

expire ==
    /\ pc \notin {"walk", "Done", "Expired"}
    /\ pc' = "Expired"
    /\ UNCHANGED <<alias, plugin, saved, state, input, pending, sso, steps>>

Submitted == input.kind \in {"Submit", "IdpCallback"}

\* Leave the node with s, the state updated by it, by the edge for condition c.
advance(s, c) ==
    LET n == next_with_guard(flow, node, c, s.level)
    IN  /\ state' = [s EXCEPT !.node = IF n = None THEN node ELSE n]
        /\ pc' = IF n = None THEN "DeadEnd" ELSE "walk"
        /\ UNCHANGED <<alias, plugin, saved, input, sso, steps>>

log(s, outcome) == [s EXCEPT !.history = Append(@, <<node, outcome>>)]

\* step returns a page; the handler saves the state.
return_render ==
    /\ pc' = "Render"
    /\ saved' = state
    /\ UNCHANGED <<alias, plugin, state, input, pending, sso, steps>>

return(r, s) ==
    /\ pc' = r /\ state' = s
    /\ UNCHANGED <<alias, plugin, saved, input, pending, sso, steps>>

start_node ==
    /\ pc = "walk" /\ kind = "Start"
    /\ advance(log(state, "advance"), "Otherwise")
    /\ UNCHANGED pending

render_pause ==
    /\ pc = "walk" /\ kind = "Render" /\ ~ Submitted
    /\ return_render

\* The walk stays on the page that was posted.
render_submit_Stay ==
    /\ pc = "walk" /\ kind = "Render" /\ Submitted
    /\ UNCHANGED vars

render_submit ==
    /\ pc = "walk" /\ kind = "Render" /\ Submitted
    /\ advance(log(state, "submit"), "Success")
    /\ UNCHANGED pending

broker_node == pc = "walk" /\ kind = "Broker" /\ return_render

switch_node ==
    /\ pc = "walk" /\ kind = "Switch"
    /\ advance(state, flow.arg[node])
    /\ UNCHANGED pending

action_node ==
    /\ pc = "walk" /\ kind \in {"Action", "SubFlow"}
    /\ advance(state, "Otherwise")
    /\ UNCHANGED pending

success_node == pc = "walk" /\ kind = "Success" /\ return("Done", log(state, "success"))

failure_node == pc = "walk" /\ kind = "Failure" /\ return("Failed", log(state, "failure"))

-----------------------------------------------------------------------------
(* Authenticators: what a provider may answer, as <<outcome, user>>, an    *)
(* error apart.                                                            *)
cookie == {<<"Skip", None>>} \cup {<<"Success", u>> : u \in {sso} \ {None}}

password ==
    IF ~ Submitted THEN {<<"Render", None>>}
    ELSE IF "credentials" \notin input.form THEN {}
    ELSE {<<"Failure", None>>} \cup {<<"Success", u>> : u \in User}

otp ==
    IF ~ Submitted THEN {<<"Render", None>>}
    ELSE IF state.user = None \/ "code" \notin input.form THEN {}
    ELSE {<<"Failure", None>>, <<"Success", state.user>>}

require_action ==
    IF state.user \notin pending THEN {<<"Skip", None>>}
    ELSE IF ~ Submitted THEN {<<"Render", None>>}
    ELSE IF "ack" \in input.form THEN {<<"Success", state.user>>}
    ELSE {<<"Failure", None>>}

\* A plugin answers what it likes, but never names a user of its own.
dispatch_wasm == {<<"Success", state.user>>} \cup
                 ({"Skip", "Failure", "Render"} \X {None})

\* Any of them may fail with an error: a lookup in storage, a missing field, a
\* trap of the plugin.  That is all a urn without a registered runtime does.
dispatch(urn) ==
    {<<"Err", None>>} \cup
    (IF urn \in plugin THEN dispatch_wasm
     ELSE IF urn = "cookie" THEN cookie
     ELSE IF urn = "password" THEN password
     ELSE IF urn = "otp" THEN otp
     ELSE IF urn = "require-action" THEN require_action
     ELSE {})

Answers(o, u) == pc = "walk" /\ kind = "Authenticator" /\ <<o, u>> \in dispatch(flow.arg[node])

authn_render == Answers("Render", None) /\ return_render

\* The user the provider resolved is forgotten.
authn_success_NoUser(u) ==
    /\ Answers("Success", u)
    /\ advance([log(state, "success") EXCEPT !.level = @ + 1], "Success")
    /\ pending' = IF flow.arg[node] = "require-action" /\ "require-action" \notin plugin
                  THEN pending \ {u} ELSE pending

\* An acknowledged required action is removed from the user's row.
authn_success(u) ==
    /\ Answers("Success", u)
    /\ advance([log(state, "success") EXCEPT !.level = @ + 1,
                                             !.user = IF u = None THEN @ ELSE u], "Success")
    /\ pending' = IF flow.arg[node] = "require-action" /\ "require-action" \notin plugin
                  THEN pending \ {u} ELSE pending

authn_skip ==
    /\ Answers("Skip", None)
    /\ advance(log(state, "skip"), "Otherwise")
    /\ UNCHANGED pending

authn_failure ==
    /\ Answers("Failure", None)
    /\ IF next_with_guard(flow, node, "Failure", state.level) = None
       THEN return("Failed", log(state, "failure"))
       ELSE advance(log(state, "failure"), "Failure") /\ UNCHANGED pending

authn_err == Answers("Err", None) /\ return("Internal", state)

Walk ==
    \/ start_node \/ render_pause \/ render_submit \/ broker_node \/ switch_node
    \/ action_node \/ success_node \/ failure_node
    \/ authn_render \/ authn_skip \/ authn_failure \/ authn_err
    \/ \E u \in User \cup {None} : authn_success(u)

Next ==
    \/ \E i \in {"Start", "Resume", "Submit", "IdpCallback"}, f \in Form : request(i, f)
    \/ expire
    \/ Walk

\* A request that is walking goes on; nobody has to post.
Spec == Init /\ [][Next]_vars /\ WF_vars(Walk)

-----------------------------------------------------------------------------
(* The dry run (dry_run.rs): the nodes it reports, given the outcome it is *)
(* told to expect of each authenticator and the level of the context it is *)
(* given, which it keeps.  MAX_STEPS is the number of nodes here: these    *)
(* flows have no cycles.                                                   *)
\* A skipped authenticator leaves by the Success edge.
as_edge_condition_SkipSucceeds(o) == IF o = "failure" THEN "Failure" ELSE "Success"

as_edge_condition(o) ==
    IF o = "success" THEN "Success" ELSE IF o = "failure" THEN "Failure" ELSE "Otherwise"

dry_run_condition(d, n, expected) ==
    IF d.kind[n] = "Switch" THEN d.arg[n]
    ELSE IF d.kind[n] \in {"Authenticator", "Broker"} THEN as_edge_condition(expected[n])
    ELSE IF d.kind[n] = "Render" THEN "Success"
    ELSE "Otherwise"

dry_run(d, expected, level) ==
    LET trace[k \in 0 .. Cardinality(DOMAIN d.kind)] ==
            IF k = 0 THEN <<"start">>
            ELSE LET t == trace[k - 1]
                     n == next_with_guard(d, Last(t), dry_run_condition(d, Last(t), expected), level)
                 IN  IF d.kind[Last(t)] \in {"Success", "Failure"} \/ n = None THEN t ELSE Append(t, n)
    IN  trace[Cardinality(DOMAIN d.kind)]

-----------------------------------------------------------------------------
\* What a node of the walk so far reported; success where the walk has not been.
Reported(n) ==
    LET E == {i \in DOMAIN state.history : state.history[i][1] = n}
    IN  IF E = {} THEN "success" ELSE state.history[Max(E)][2]

\* A built-in flow with the built-in authenticators only.
Stock == alias \in DOMAIN v0_1_flows /\ plugin = {}

\* executor.rs 189: the level of a flow is the number of authenticators that
\* succeeded in it, in the stored state as in the one being worked on.  No
\* request that failed half-way leaves a level behind.
LevelCounts ==
    \A s \in {saved, state} :
        s.level = Cardinality({i \in DOMAIN s.history :
                                 /\ s.history[i][2] = "success"
                                 /\ flow.kind[s.history[i][1]] = "Authenticator"})

\* With the built-in authenticators a built-in flow ends in Done only after one
\* of them named the user: the placeholder subject of executor.rs 279-288 is
\* never given out.
DoneResolved == Stock /\ pc = "Done" => state.user # None

\* The built-in flows have an edge for every answer the built-in authenticators
\* give at that node: no login ends in FlowError::DeadEnd (executor.rs 141).
NoDeadEnd == Stock => pc # "DeadEnd"

\* guard.rs 34-45: the edge by which a flow reached Success was open at the level
\* it ends with, the success of the last authenticator counted.
GuardRespected ==
    pc = "Done" => \E i \in DOMAIN flow.edges : /\ flow.edges[i].to = node
                                                /\ flow.edges[i].guard \in {NoGuard, state.level}

\* A walk comes to an end the flow has, with the user and the level it earned.
WalkSound == LevelCounts /\ DoneResolved /\ NoDeadEnd /\ GuardRespected

\* Whether a guard decides at a node, and the level at which the walk left the i-th
\* node of its history.
Guarded(n) == \E i \in DOMAIN flow.edges : flow.edges[i].from = n /\ flow.edges[i].guard # NoGuard
LevelAt(i) == Cardinality({j \in 1 .. i : /\ state.history[j][2] = "success"
                                          /\ flow.kind[state.history[j][1]] = "Authenticator"})

\* A dry run at a level, told to expect of each node what it reported, and the nodes of
\* it that leave an entry in the history of a login.
Foretold(level) ==
    SelectSeq(dry_run(flow, [n \in DOMAIN flow.kind |-> Reported(n)], level),
              LAMBDA n : flow.kind[n] \in {"Start", "Render", "Authenticator", "Success", "Failure"})
Walked == [i \in DOMAIN state.history |-> state.history[i][1]]
Over == pc \in {"Done", "Failed", "DeadEnd"}

\* dry_run.rs 14-16, "dry-run + production make the same edge decisions for a given
\* `FlowContext`": a dry run that expects of each authenticator what it answered reports
\* the nodes that the requests went through, to the terminal or the dead end.  Where the
\* flow has guards the context has to be the one in which the login left the guarded
\* nodes (for all of them at once): the executor raises authn_level as it goes
\* (executor.rs 189) and the dry run does not.
DryRunAgrees ==
    Over => \A level \in 0 .. Len(state.history) :
        (\A i \in DOMAIN Walked : Guarded(Walked[i]) => LevelAt(i) = level)
            => Foretold(level) = Walked

\* The same of a dry run given the context the login starts with, as an operator would
\* give it.  It fails on a flow with a guard on the level: the dry run does not foresee
\* that the login earns it.
DryRunForesees == Over => Foretold(0) = Walked

\* A request is answered on the built-in flows, plugins or not, and on any other
\* flow without a cycle of nodes that need no user: the loop of step ends.
Answered == pc = "walk" ~> pc # "walk"
=============================================================================
