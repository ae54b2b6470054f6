----------------------------- MODULE SingleUse -----------------------------
(***************************************************************************)
(* What the server promises of a value it hands out to be presented once:  *)
(* an authorization code, the state of a brokered login.  It is issued,    *)
(* one of those who present it gets hold of it, and that one is answered   *)
(* or refused; nobody after it is.  LoginSession and Broker implement it.  *)
(***************************************************************************)
CONSTANT Ticket

VARIABLE phase

Init == phase = [k \in Ticket |-> "unissued"]

Move(k, from, to) ==
    /\ phase[k] \in from /\ phase'[k] \in to
    /\ phase' = [phase EXCEPT ![k] = phase'[k]]

Issue(k) == Move(k, {"unissued"}, {"live"})

\* The presenter's checks come after it took the ticket, and may take a while.
Present(k) == Move(k, {"live"}, {"taken", "honoured", "void"})
Settle(k) == Move(k, {"taken"}, {"honoured", "void"})

Next == \E k \in Ticket : Issue(k) \/ Present(k) \/ Settle(k)

Spec == Init /\ [][Next]_phase
=============================================================================
