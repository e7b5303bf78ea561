------------------------------ MODULE SingleUse ------------------------------
(***************************************************************************)
(* What a one-time login ticket promises: it is issued once, at most one   *)
(* attempt may claim it, and a claimed ticket gives at most one session.   *)
(* An attempt that fails after its claim spends the ticket all the same.   *)
(*                                                                         *)
(* FederatedLogin implements this twice: with the rows of login_state for  *)
(* OIDC and OAuth2 callbacks, and with the assertion ids of the SAML replay*)
(* table for the assertion consumer service.                               *)
(***************************************************************************)
EXTENDS Naturals

CONSTANT Tickets

VARIABLES
    status,     \* the life of each ticket
    sessions    \* how many sessions each ticket has given

ticketVars == <<status, sessions>>

TicketTypeOK ==
    /\ status \in [Tickets -> {"unissued", "open", "claimed", "spent"}]
    /\ sessions \in [Tickets -> Nat]

TicketInit ==
    /\ status = [k \in Tickets |-> "unissued"]
    /\ sessions = [k \in Tickets |-> 0]

Move(k, from, to) == status[k] = from /\ status' = [status EXCEPT ![k] = to]

Issue(k) == Move(k, "unissued", "open") /\ UNCHANGED sessions

Claim(k) == Move(k, "open", "claimed") /\ UNCHANGED sessions

\* The claiming attempt ends in a session.
Grant(k) == Move(k, "claimed", "spent") /\ sessions' = [sessions EXCEPT ![k] = 1]

\* The claiming attempt ends without one.
Void(k) == Move(k, "claimed", "spent") /\ UNCHANGED sessions

\* The ticket is given up unclaimed.
Lapse(k) == Move(k, "open", "spent") /\ UNCHANGED sessions

TicketNext ==
    \E k \in Tickets : Issue(k) \/ Claim(k) \/ Grant(k) \/ Void(k) \/ Lapse(k)

TicketSpec == TicketInit /\ [][TicketNext]_ticketVars

\* At most one session per ticket, and none before it was claimed.
AtMostOneSession ==
    \A k \in Tickets : /\ sessions[k] \in {0, 1}
                       /\ sessions[k] = 1 => status[k] = "spent"
=============================================================================
