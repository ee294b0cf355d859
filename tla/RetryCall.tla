------------------------------ MODULE RetryCall ------------------------------
(***************************************************************************)
(* What run_with_retries of retry.py promises its caller, whatever the     *)
(* attempt function does: attempts are made from their beginning and one   *)
(* at a time, at most MAX_ATTEMPTS of them; the call succeeds only after   *)
(* an attempt that returned, and gives up only after the last one.  The    *)
(* detailed modules say what an attempt is; a step of theirs may raise and *)
(* begin the next attempt, or raise and give up, at once.                  *)
(***************************************************************************)
EXTENDS Naturals

CONSTANT MAX_ATTEMPTS

VARIABLES
    phase,      \* where the call stands
    attempt,    \* attempt_number
    outcome     \* how the last call ended

vars == <<phase, attempt, outcome>>

Phases == {"idle", "begin", "inside", "returned", "raised"}

\* attempt_fn is running.
Attempting == phase \in {"begin", "inside"}

Init == phase = "idle" /\ attempt = 1 /\ outcome = "none"

Call ==
    /\ phase = "idle"
    /\ phase' = "begin" /\ attempt' = 1 /\ outcome' = "none"

\* Some statement of attempt_fn.
Work ==
    /\ Attempting
    /\ phase' = "inside"
    /\ UNCHANGED <<attempt, outcome>>

\* attempt_fn returned; its success row is to be inserted.
Return ==
    /\ Attempting
    /\ phase' = "returned"
    /\ UNCHANGED <<attempt, outcome>>

\* attempt_fn raised, or the insert of its success row did.
Raise ==
    /\ Attempting \/ phase = "returned"
    /\ phase' = "raised"
    /\ UNCHANGED <<attempt, outcome>>

\* The next attempt, after the backoff.
Again ==
    /\ phase # "idle"
    /\ attempt < MAX_ATTEMPTS
    /\ phase' = "begin" /\ attempt' = attempt + 1
    /\ UNCHANGED outcome

Succeed ==
    /\ phase = "returned"
    /\ phase' = "idle" /\ outcome' = "ok"
    /\ UNCHANGED attempt

\* The failure row; when it cannot be inserted, that error leaves the wrapper.
GiveUp ==
    /\ phase # "idle"
    /\ attempt = MAX_ATTEMPTS
    /\ phase' = "idle" /\ outcome' \in {"failed", "raised"}
    /\ UNCHANGED attempt

\* The process ends, and the call with it.
Vanish == phase' = "idle" /\ attempt' = 1 /\ outcome' = "none"

Next ==
    \/ Call \/ Work \/ Return \/ Raise \/ Again \/ Succeed \/ GiveUp \/ Vanish

Spec == Init /\ [][Next]_vars
=============================================================================
