-------------------------- MODULE UserCredentials --------------------------
(***************************************************************************)
(* The one-time credentials and the pending work kept on one user row:     *)
(* recovery codes, the magic link, the SMS code, the WebAuthn signature    *)
(* counter and the required actions (geonosis-authenticators).             *)
(*                                                                         *)
(* Every authenticator reads the row (get_user), decides, and writes the   *)
(* whole row back (update_user); the storage has no partial update and no  *)
(* version check, so other requests run between the read and the write.    *)
(* The same holds for the administrator's verify_email and for the         *)
(* counters of brute_force.rs, which carry the other columns along.        *)
(*                                                                         *)
(* Time is abstracted: a stored link or SMS code may have expired at any   *)
(* request, which then answers InvalidCredential.                          *)
(***************************************************************************)
EXTENDS Naturals, Sequences

CONSTANTS
    Task,             \* requests in flight
    RecoveryCode,     \* codes generated at enrolment
    Link, Sms,        \* magic-link tokens and SMS codes the server may draw
    RequiredActions,  \* the user's required_actions at enrolment, in order
    MaxCount,         \* bound on the authenticator's signature counter
    None

Action == {RequiredActions[i] : i \in DOMAIN RequiredActions}
Credential == RecoveryCode \cup Link \cup Sms

VARIABLES
    row,      \* the user row
    pc,
    copy,     \* the row as the request read it, None when it holds none
    arg,      \* credential presented or drawn, count asserted, action pending
    drawn,    \* credentials that exist: enrolled or drawn so far
    sent,     \* links and SMS codes handed to the sender
    counter   \* signature counter of the user's authenticator

vars == <<row, pc, copy, arg, drawn, sent, counter>>

\* The pending actions are the places of RequiredActions that are left: they are
\* only ever removed, and keep their order.
Row == [recovery : SUBSET RecoveryCode, magic : Link \cup {None},
        phone : Sms \cup {None}, sign_count : Nat, actions : SUBSET DOMAIN RequiredActions]

TypeOK ==
    /\ row \in Row
    /\ pc \in [Task -> {"idle", "recovery", "link_issue", "link_send", "link_verify",
                        "sms_issue", "sms_send", "sms_verify", "asserted", "webauthn",
                        "ack", "touch"}]
    /\ copy \in [Task -> Row \cup {None}]
    /\ arg \in [Task -> Credential \cup Nat \cup Action \cup {None}]
    /\ drawn \subseteq Credential
    /\ sent \subseteq Link \cup Sms
    /\ counter \in 0 .. MaxCount

Init ==
    /\ row = [recovery |-> RecoveryCode, magic |-> None, phone |-> None,
              sign_count |-> 0, actions |-> DOMAIN RequiredActions]
    /\ pc = [t \in Task |-> "idle"]
    /\ copy = [t \in Task |-> None]
    /\ arg = [t \in Task |-> None]
    /\ drawn = RecoveryCode
    /\ sent = {}
    /\ counter = 0

-----------------------------------------------------------------------------
\* Steps shared by the authenticators.

get_user(t, a, next) ==
    /\ copy' = [copy EXCEPT ![t] = row]
    /\ arg' = [arg EXCEPT ![t] = a]
    /\ pc' = [pc EXCEPT ![t] = next]
    /\ UNCHANGED <<row, sent, counter>>

Finish(t) ==
    /\ pc' = [pc EXCEPT ![t] = "idle"]
    /\ copy' = [copy EXCEPT ![t] = None]
    /\ arg' = [arg EXCEPT ![t] = None]

\* update_user as the last storage call of a request.
update_user(t, r) ==
    /\ row' = r
    /\ Finish(t)
    /\ UNCHANGED <<drawn, sent, counter>>

\* The request is answered without a write: unknown, expired or wrong
\* credential, or nothing to do.
Refuse(t) == Finish(t) /\ UNCHANGED <<row, drawn, sent, counter>>

-----------------------------------------------------------------------------
\* RecoveryCodeAuthenticator::process

recovery_read(t, k) ==
    /\ pc[t] = "idle"
    /\ \/ k \in row.recovery /\ get_user(t, k, "recovery") /\ UNCHANGED drawn
       \/ k \notin row.recovery /\ Refuse(t)

recovery_write(t) ==
    /\ pc[t] = "recovery"
    /\ update_user(t, [copy[t] EXCEPT !.recovery = @ \ {arg[t]}])

\* MagicLinkAuthenticator::issue: the token is drawn after the read, the row
\* is written, then the link is handed to the sender.
link_issue_read(t, k) ==
    /\ pc[t] = "idle" /\ k \notin drawn
    /\ drawn' = drawn \cup {k}
    /\ get_user(t, k, "link_issue")

link_issue_write(t) ==
    /\ pc[t] = "link_issue"
    /\ row' = [copy[t] EXCEPT !.magic = arg[t]]
    /\ pc' = [pc EXCEPT ![t] = "link_send"]
    /\ UNCHANGED <<copy, arg, drawn, sent, counter>>

send_Rollback(t) ==
    /\ pc[t] \in {"link_send", "sms_send"}
    /\ Finish(t)
    /\ \/ sent' = sent \cup {arg[t]} /\ UNCHANGED row
       \/ row' = copy[t] /\ UNCHANGED sent
    /\ UNCHANGED <<drawn, counter>>

\* sender.send: the link reaches the user, or the sender reports an error.
send(t) ==
    /\ pc[t] \in {"link_send", "sms_send"}
    /\ Finish(t)
    /\ \/ sent' = sent \cup {arg[t]}
       \/ UNCHANGED sent
    /\ UNCHANGED <<row, drawn, counter>>

\* MagicLinkAuthenticator::verify
link_verify_read(t, k) ==
    /\ pc[t] = "idle" /\ k \in sent
    /\ \/ k = row.magic /\ get_user(t, k, "link_verify") /\ UNCHANGED drawn
       \/ Refuse(t)

link_verify_write(t) ==
    /\ pc[t] = "link_verify"
    /\ update_user(t, [copy[t] EXCEPT !.magic = None])

\* PhoneOtpAuthenticator::issue and verify
sms_issue_read(t, k) ==
    /\ pc[t] = "idle" /\ k \notin drawn
    /\ drawn' = drawn \cup {k}
    /\ get_user(t, k, "sms_issue")

sms_issue_write(t) ==
    /\ pc[t] = "sms_issue"
    /\ row' = [copy[t] EXCEPT !.phone = arg[t]]
    /\ pc' = [pc EXCEPT ![t] = "sms_send"]
    /\ UNCHANGED <<copy, arg, drawn, sent, counter>>

sms_verify_read(t, k) ==
    /\ pc[t] = "idle" /\ k \in sent
    /\ \/ k = row.phone /\ get_user(t, k, "sms_verify") /\ UNCHANGED drawn
       \/ Refuse(t)

sms_verify_write(t) ==
    /\ pc[t] = "sms_verify"
    /\ update_user(t, [copy[t] EXCEPT !.phone = None])

-----------------------------------------------------------------------------
\* WebauthnAuthenticator::process: the authenticator signs with its next
\* count, the row is read, the count is checked against the stored one
\* (verify_assertion) and the row is written with the new count. A failed
\* write is logged and the login goes on.

sign(t) ==
    /\ pc[t] = "idle" /\ counter < MaxCount
    /\ counter' = counter + 1
    /\ arg' = [arg EXCEPT ![t] = counter']
    /\ pc' = [pc EXCEPT ![t] = "asserted"]
    /\ UNCHANGED <<row, copy, drawn, sent>>

verify_assertion(stored, count) == ~ (stored > 0 /\ count <= stored)

webauthn_read(t) ==
    /\ pc[t] = "asserted"
    /\ \/ verify_assertion(row.sign_count, arg[t])
          /\ get_user(t, arg[t], "webauthn") /\ UNCHANGED drawn
       \/ Refuse(t)   \* count regression, bad signature, not enrolled

webauthn_write(t) ==
    /\ pc[t] = "webauthn"
    /\ update_user(t, [copy[t] EXCEPT !.sign_count = arg[t]])

-----------------------------------------------------------------------------
\* RequireActionAuthenticator::process. Init renders the page of the first
\* pending action and writes nothing; Submit reads the row again and removes
\* the action that is first then.

action_read(t) ==
    /\ pc[t] = "idle"
    /\ \/ \E i \in row.actions :
             /\ \A j \in row.actions : i <= j
             /\ get_user(t, RequiredActions[i], "ack") /\ UNCHANGED drawn
       \/ Refuse(t)   \* nothing pending (Skip), or not acknowledged

action_write(t) ==
    /\ pc[t] = "ack"
    /\ update_user(t, [copy[t] EXCEPT !.actions = {i \in @ : RequiredActions[i] # arg[t]}])

\* verify_email: a writer of other columns.
verify_email_read(t) ==
    pc[t] = "idle" /\ get_user(t, None, "touch") /\ UNCHANGED drawn

verify_email_write(t) ==
    pc[t] = "touch" /\ update_user(t, copy[t])

\* The request is dropped at an await: client gone, pod stopped.
Drop(t) == pc[t] # "idle" /\ Refuse(t)

Next ==
    \E t \in Task :
        \/ \E k \in RecoveryCode : recovery_read(t, k)
        \/ recovery_write(t)
        \/ \E k \in Link : link_issue_read(t, k) \/ link_verify_read(t, k)
        \/ link_issue_write(t) \/ link_verify_write(t)
        \/ send(t)
        \/ \E k \in Sms : sms_issue_read(t, k) \/ sms_verify_read(t, k)
        \/ sms_issue_write(t) \/ sms_verify_write(t)
        \/ sign(t) \/ webauthn_read(t) \/ webauthn_write(t)
        \/ action_read(t) \/ action_write(t)
        \/ verify_email_read(t) \/ verify_email_write(t)
        \/ Drop(t)

Spec == Init /\ [][Next]_vars

-----------------------------------------------------------------------------
\* Requests that hold a copy of the row they may still write.
Holding == {t \in Task : pc[t] \in {"recovery", "link_issue", "link_verify", "sms_issue",
                                    "sms_verify", "webauthn", "ack", "touch"}}

Live(r) == (r.recovery \cup {r.magic, r.phone}) \ {None}

\* Credentials some present or future row may hold without a new draw.
Held == Live(row) \cup (UNION {Live(copy[t]) : t \in Holding})
             \cup {arg[t] : t \in {u \in Holding : pc[u] \in {"link_issue", "sms_issue"}}}

\* Required actions some row may still list as pending.
Pending(r) == {RequiredActions[i] : i \in r.actions}
AllPending == Pending(row) \cup UNION {Pending(copy[t]) : t \in Holding}

\* The lowest count the row can fall back to (the sign-count check of
\* verify_assertion compares with the stored count).
Floor == {row.sign_count} \cup {copy[t].sign_count : t \in Holding}

\* What is neither in the row nor held by a request between its read and its
\* write never comes back: once every request that read the row before it was
\* burned has ended, a recovery code, a link or an SMS code is burned for good
\* ("Burn the code.", recovery_code.rs; "Burn.", magic_link.rs), and so is the
\* acknowledgement of a required action (require_action.rs).  And the stored
\* signature count never falls below the counts that the row and the requests
\* holding a copy have: an overlap can undo no more than itself.
BurnedForGood ==
    [][/\ Held' \cap drawn \subseteq Held
       /\ AllPending' \subseteq AllPending
       /\ \A n \in Floor' : \E m \in Floor : m <= n]_vars
=============================================================================
