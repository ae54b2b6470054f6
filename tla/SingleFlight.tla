---------------------------- MODULE SingleFlight ----------------------------
(***************************************************************************)
(* `RequestCoalescer::get_or_load` of geonosis-cache for one key: callers  *)
(* that miss the cache enter the in-flight registry; the first becomes the *)
(* leader and runs the loader, the others wait on its broadcast channel.   *)
(*                                                                         *)
(* A step is a piece of the call with no await and no lock boundary inside *)
(* it; the runtime is multi-threaded, so steps of callers interleave.      *)
(*                                                                         *)
(* The channel-closed branch of a waiter is not an action: `enter` gives   *)
(* every waiter a clone of the sender, which it keeps while it waits, so   *)
(* `recv` never reports a closed channel (nor a lagging one: a channel     *)
(* carries one message).                                                   *)
(***************************************************************************)
EXTENDS Naturals

CONSTANTS
    Caller,      \* tasks calling get_or_load for the key
    MaxLoads,    \* bound on the channels created
    MayDrop      \* whether a call's future may be dropped at an await

VARIABLES
    cached,      \* what the cache holds for the key: a value or nothing
    registry,    \* channel registered for the key, 0 when there is none
    loads,       \* channels created so far; channel ids are 1 .. loads
    pc,          \* where each call is
    chan,        \* the channel a call leads or waits on
    result,      \* a leader's loader result
    mail,        \* the message received by a waiter
    \* history variables
    lost         \* channels whose leader was dropped

vars == <<cached, registry, loads, pc, chan, result, mail, lost>>

Outcome == {"ok", "err"}
LeaderPC == {"loading", "sending", "exiting"}
PC == LeaderPC \cup {"idle", "entering", "putting", "waiting"}

TypeOK ==
    /\ cached \in {"value", "none"}
    /\ loads \in Nat
    /\ registry \in 0 .. loads
    /\ pc \in [Caller -> PC]
    /\ chan \in [Caller -> 0 .. loads]
    /\ result \in [Caller -> Outcome]
    /\ mail \in [Caller -> Outcome \cup {"none"}]
    /\ \A c \in Caller : pc[c] \in LeaderPC \cup {"waiting"} => chan[c] # 0
    /\ lost \subseteq 1 .. loads

Init ==
    /\ cached = "none"
    /\ registry = 0
    /\ loads = 0
    /\ pc = [c \in Caller |-> "idle"]
    /\ chan = [c \in Caller |-> 0]
    /\ result = [c \in Caller |-> "err"]
    /\ mail = [c \in Caller |-> "none"]
    /\ lost = {}

GoTo(c, p) == pc' = [pc EXCEPT ![c] = p]

\* The call returns; what it held is dropped.
Return(c) ==
    /\ GoTo(c, "idle")
    /\ chan' = [chan EXCEPT ![c] = 0]
    /\ mail' = [mail EXCEPT ![c] = "none"]
    /\ result' = [result EXCEPT ![c] = "err"]

-----------------------------------------------------------------------------

\* Fast path: a hit returns at once, a miss goes to the registry.
get(c) ==
    /\ pc[c] = "idle"
    /\ \/ cached = "value" /\ UNCHANGED pc
       \/ cached = "none" /\ GoTo(c, "entering")
    /\ UNCHANGED <<cached, registry, loads, chan, result, mail, lost>>

\* Mutant: the registry is looked up and filled under two separate locks, so
\* a caller may take the lead although another one has.
enter_TwoLocks(c) ==
    /\ pc[c] = "entering"
    /\ \/ /\ registry # 0
          /\ chan' = [chan EXCEPT ![c] = registry]
          /\ GoTo(c, "waiting")
          /\ UNCHANGED <<registry, loads>>
       \/ /\ loads < MaxLoads
          /\ loads' = loads + 1
          /\ registry' = loads'
          /\ chan' = [chan EXCEPT ![c] = loads']
          /\ GoTo(c, "loading")
    /\ UNCHANGED <<cached, result, mail, lost>>

enter(c) ==
    /\ pc[c] = "entering"
    /\ \/ /\ registry # 0
          /\ chan' = [chan EXCEPT ![c] = registry]
          /\ GoTo(c, "waiting")
          /\ UNCHANGED <<registry, loads>>
       \/ /\ registry = 0
          /\ loads < MaxLoads
          /\ loads' = loads + 1
          /\ registry' = loads'
          /\ chan' = [chan EXCEPT ![c] = loads']
          /\ GoTo(c, "loading")
    /\ UNCHANGED <<cached, result, mail, lost>>

\* The loader returns a value or an error.
loader(c) ==
    /\ pc[c] = "loading"
    /\ \E o \in Outcome : result' = [result EXCEPT ![c] = o]
    /\ GoTo(c, "sending")
    /\ UNCHANGED <<cached, registry, loads, chan, mail, lost>>

\* Those subscribed to channel n.
Subscribed(n) == {c \in Caller : pc[c] = "waiting" /\ chan[c] = n}

\* Mutant: only a value is broadcast, an error returns early.
send_ValueOnly(c) ==
    /\ pc[c] = "sending"
    /\ mail' = [d \in Caller |-> IF d \in Subscribed(chan[c]) /\ result[c] = "ok"
                                    THEN "ok" ELSE mail[d]]
    /\ GoTo(c, "exiting")
    /\ UNCHANGED <<cached, registry, loads, chan, result, lost>>

\* The payload is the loader's result, or an error when the value does not
\* serialize.  Those subscribed now receive it, later subscribers never do.
send(c) ==
    /\ pc[c] = "sending"
    /\ \E payload \in {result[c], "err"} :
          mail' = [d \in Caller |-> IF d \in Subscribed(chan[c]) THEN payload
                                                                 ELSE mail[d]]
    /\ GoTo(c, "exiting")
    /\ UNCHANGED <<cached, registry, loads, chan, result, lost>>

\* Removes whatever is registered for the key.
exit(c) ==
    /\ pc[c] = "exiting"
    /\ registry' = 0
    /\ \/ result[c] = "ok" /\ GoTo(c, "putting") /\ UNCHANGED <<chan, mail, result>>
       \/ result[c] = "err" /\ Return(c)
    /\ UNCHANGED <<cached, loads, lost>>

put(c) ==
    /\ pc[c] = "putting"
    /\ cached' = "value"
    /\ Return(c)
    /\ UNCHANGED <<registry, loads, lost>>

recv(c) ==
    /\ pc[c] = "waiting"
    /\ mail[c] # "none"
    /\ Return(c)
    /\ UNCHANGED <<cached, registry, loads, lost>>

-----------------------------------------------------------------------------

\* The entry expires, is evicted or is invalidated.
Evict ==
    /\ cached = "value"
    /\ cached' = "none"
    /\ UNCHANGED <<registry, loads, pc, chan, result, mail, lost>>

\* The future of a call is dropped at one of its awaits: the caller went
\* away, or the loader panicked.  Nothing removes a leader's registration.
Drop(c) ==
    /\ MayDrop
    /\ pc[c] \in {"loading", "waiting", "putting"}
    /\ lost' = IF pc[c] = "loading" THEN lost \cup {chan[c]} ELSE lost
    /\ Return(c)
    /\ UNCHANGED <<cached, registry, loads>>

Call(c) == enter(c) \/ loader(c) \/ send(c) \/ exit(c) \/ put(c) \/ recv(c)

Next == Evict \/ \E c \in Caller : get(c) \/ Call(c) \/ Drop(c)

Spec == Init /\ [][Next]_vars

\* The runtime polls every ready task and a loader (a storage query with a
\* timeout) returns; nobody is obliged to call, evict or drop.
FairSpec == Spec /\ \A c \in Caller : WF_vars(Call(c))

-----------------------------------------------------------------------------

\* Only one caller at a time is between registering for the key and removing
\* the registration: the loader never runs twice at once, and the entry
\* `exit` removes by key is the caller's own.
LoaderExclusive ==
    \A c, d \in Caller : pc[c] \in LeaderPC /\ pc[d] \in LeaderPC => c = d

\* A registration outlives its leader's call only when the call was dropped:
\* after an error or a value the next miss elects a new leader.
RegistrationHasLeader ==
    registry # 0 =>
        \/ registry \in lost
        \/ \E c \in Caller : pc[c] \in LeaderPC /\ chan[c] = registry

\* One loader at a time, and one that can be replaced.
LoaderSound == LoaderExclusive /\ RegistrationHasLeader

\* A leader working for channel n, its message not yet sent.
Loading(n) == \E c \in Caller : pc[c] \in {"loading", "sending"} /\ chan[c] = n

\* A caller that subscribed while its leader was still loading is answered,
\* with the value or with the error, unless the leader's call is dropped.
EarlyWaiterServed ==
    \A c \in Caller, n \in 1 .. MaxLoads :
        (pc[c] = "waiting" /\ chan[c] = n /\ Loading(n))
            ~> (chan[c] # n \/ n \in lost)

\* single_flight.rs:134, "Fall back to a fresh get attempt": every waiter is
\* answered.  False of the code: a caller that subscribes between `send` and
\* `exit` has missed the only message and keeps the channel open itself.
WaiterServed ==
    \A c \in Caller : pc[c] = "waiting" ~> pc[c] # "waiting"
=============================================================================
