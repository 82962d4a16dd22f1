------------------------------ MODULE Mailbox ------------------------------
(***************************************************************************)
(* What the daemon API promises of messages addressed to the hub's own     *)
(* node: each one is given to at most one client, and a client is given    *)
(* messages in the order in which they arrived.  It may also never be      *)
(* given to anyone: Receive takes it off the inbox before it answers.      *)
(***************************************************************************)
EXTENDS Integers, Sequences

CONSTANTS Clients, Mail

VARIABLES
    arrived,   \* the messages, in the order of their arrival
    given      \* given[c]: the positions in arrived of what client c got

vars == <<arrived, given>>

Init ==
    /\ arrived = <<>>
    /\ given = [c \in Clients |-> <<>>]

Arrive(m) ==
    /\ arrived' = Append(arrived, m)
    /\ UNCHANGED given

\* Message i is given to c: to nobody before, and later than what c has.
Give(c, i) ==
    /\ i \in 1 .. Len(arrived)
    /\ \A d \in Clients : \A j \in 1 .. Len(given[d]) : given[d][j] # i
    /\ \A j \in 1 .. Len(given[c]) : given[c][j] < i
    /\ given' = [given EXCEPT ![c] = Append(@, i)]
    /\ UNCHANGED arrived

Next ==
    \/ \E m \in Mail : Arrive(m)
    \/ \E c \in Clients, i \in 1 .. Len(arrived) : Give(c, i)

Spec == Init /\ [][Next]_vars
=============================================================================
