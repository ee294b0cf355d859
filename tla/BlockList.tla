------------------------------ MODULE BlockList ------------------------------
(***************************************************************************)
(* What the Pi-hole step promises the quarantine service: an address is    *)
(* blocked or not, and a request that succeeds has set it to what it asked *)
(* for, at one moment while it ran.  Of the group, the regex and the       *)
(* client entry behind a block (pihole_block.py) nothing is visible; a     *)
(* request that failed may or may not have had its effect.                 *)
(***************************************************************************)
CONSTANTS Requests, Ips, Nothing

VARIABLES
    blocked,    \* addresses every query of which is denied
    wanted,     \* the address of a request, and whether to block it
    status      \* what the caller of a request has been told

vars == <<blocked, wanted, status>>

Init ==
    /\ blocked = {}
    /\ wanted = [q \in Requests |-> [ip |-> Nothing, block |-> FALSE]]
    /\ status = [q \in Requests |-> "none"]

Ask(q, ip, block) ==
    /\ status[q] = "none"
    /\ wanted' = [wanted EXCEPT ![q] = [ip |-> ip, block |-> block]]
    /\ status' = [status EXCEPT ![q] = "waiting"]
    /\ UNCHANGED blocked

\* The effect, all of it at once; the caller learns of it, or the answer was
\* lost and it will be done again.
Perform(q) ==
    /\ status[q] = "waiting"
    /\ blocked' = IF wanted[q].block THEN blocked \cup {wanted[q].ip}
                                     ELSE blocked \ {wanted[q].ip}
    /\ status' \in {status, [status EXCEPT ![q] = "done"]}
    /\ UNCHANGED wanted

Fail(q) ==
    /\ status[q] = "waiting"
    /\ status' = [status EXCEPT ![q] = "failed"]
    /\ UNCHANGED <<blocked, wanted>>

Next == \E q \in Requests :
    \/ \E ip \in Ips, block \in BOOLEAN : Ask(q, ip, block)
    \/ Perform(q) \/ Fail(q)

Spec == Init /\ [][Next]_vars
=============================================================================
