------------------------------ MODULE MCFlows ------------------------------
\* Model-checking instances of the two users of a flow definition and of the cache
\* a realm's configuration is read through, one of them in each behaviour: the
\* compiler (FlowCompile, extended), the engine (FlowEngine) and the cache (Cache).
\* Without symmetry: engine and cache have liveness properties.
EXTENDS FlowCompile, TLC

CONSTANTS
    User, None, Definition, MaxSteps,
    Pod, Task, Idle, Absent, MaxVersion

VARIABLES
    part,
    alias, plugin, saved, state, input, e_pc, pending, sso, steps,
    backend, row, inner, index, mail, linked, sweep, task, missed, late

engine_vars == <<alias, plugin, saved, state, input, e_pc, pending, sso, steps>>
cache_vars == <<backend, row, inner, index, mail, linked, sweep, task, missed, late>>

engine == INSTANCE FlowEngine
    WITH pc <- e_pc,
         Form <- {{}, {"credentials"}, {"credentials", "code"}, {"credentials", "ack"}},
         Plugins <- {{}, {"magic-link", "require-action"}}

\* The built-in flows, which are themselves among the definitions.
builtin == INSTANCE FlowEngine WITH pc <- e_pc, Definition <- << >>, Form <- {}, Plugins <- {}

\* A flow of the kind an operator writes: every node kind, and a step-up guard
\* that wants both the session and the password (level 2).
Custom ==
    [kind |-> [start |-> "Start", cookie |-> "Authenticator", idp |-> "Broker",
               route |-> "Switch", act |-> "Action", sub |-> "SubFlow", form |-> "Render",
               password |-> "Authenticator", action |-> "Authenticator",
               success |-> "Success", failure |-> "Failure"],
     arg |-> [cookie |-> "cookie", route |-> "mfa", password |-> "password",
              action |-> "require-action"],
     edges |-> <<builtin!edge("start", "cookie", "Otherwise"), builtin!edge("cookie", "route", "Success"),
                 builtin!edge("cookie", "form", "Otherwise"), builtin!edge("form", "password", "Success"),
                 builtin!edge("route", "act", "mfa"), builtin!edge("route", "failure", "Otherwise"),
                 builtin!edge("act", "sub", "Otherwise"), builtin!edge("sub", "password", "Otherwise"),
                 [builtin!edge("password", "success", "Success") EXCEPT !.guard = 2],
                 builtin!edge("password", "action", "Success"),
                 builtin!edge("action", "idp", "Success"), builtin!edge("action", "failure", "Failure")>>]

MCDefinition == builtin!v0_1_flows @@ [custom |-> Custom]

OneKey == {[realm |-> "r", class |-> "client", id |-> 1]}
cache == INSTANCE Cache WITH Key <- OneKey

\* Node ids are interchangeable, so one of them may as well be the start, and
\* another the first other one on the list.
Start == CHOOSE n \in Node : TRUE
First == CHOOSE n \in Node \ {Start} : TRUE
Lists ==
    {s \in UNION {[1 .. n -> [id : Node, kind : Kind]] : n \in 0 .. MaxNodes} :
        \A i \in DOMAIN s : s[i].id \in {Start, First} \/ \E j \in 1 .. i : s[j].id = First}

\* So are users: the session, if there is one, may as well be of this one, who then
\* is also the first with an action pending where there is no session.
Someone == CHOOSE u \in User : TRUE

MCInit ==
    /\ part \in {"compile", "engine", "cache"}
    /\ start = Start
    /\ IF part = "compile" THEN nodes \in Lists ELSE nodes = << >> /\ edges = {}
    /\ input = [kind |-> "Start", form |-> {}]
    /\ IF part = "engine"
       THEN /\ sso \in {None, Someone} /\ pending \in SUBSET User
            /\ sso = None => pending = {} \/ Someone \in pending
       ELSE alias = "custom" /\ plugin = {} /\ pending = {} /\ sso = None
    /\ IF part = "cache" THEN TRUE ELSE backend = "local"
    /\ Init /\ engine!Init /\ cache!Init

InCompile(A) == part = "compile" /\ A /\ UNCHANGED <<part, engine_vars, cache_vars>>
InEngine(A) == part = "engine" /\ A /\ UNCHANGED <<part, vars, cache_vars>>
InCache(A) == part = "cache" /\ A /\ UNCHANGED <<part, vars, engine_vars>>

MCNext == InCompile(Next) \/ InEngine(engine!Next) \/ InCache(cache!Next)

MCVars == <<part, vars, engine_vars, cache_vars>>

\* Fairness of FlowEngine (a request that is being walked is walked on) and of
\* Cache, each in its own part.
MCFairness ==
    /\ WF_engine_vars(InEngine(engine!Walk))
    /\ \A s \in cache!Store, k \in OneKey : WF_cache_vars(InCache(cache!Expire(s, k)))

MCSpec == MCInit /\ [][MCNext]_MCVars /\ MCFairness

\* See FlowEngine: a walk comes to an end the flow has.
WalkSound == part = "engine" => engine!WalkSound

\* See FlowEngine: the dry run reports the nodes the requests went through.
DryRunAgrees == part = "engine" => engine!DryRunAgrees

\* See FlowEngine: every request is answered.
Answered == engine!Answered

\* See Cache: a stale entry has one of the reasons the code leaves.
StaleExplained == part = "cache" => cache!StaleExplained

\* See Cache: once writes stop every pod serves the row.
Converges == cache!Converges
=============================================================================
