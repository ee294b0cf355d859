----------------------------- MODULE ArpDisrupt -----------------------------
(***************************************************************************)
(* quarantine_service/arp_disrupt.py under quarantine_service/retry.py:    *)
(* the ARP disruption loops, the in-memory registry that names them, and   *)
(* the worker threads of the service that start and stop them.  A request  *)
(* thread runs run_with_retries around start_arp_disruption (quarantine)   *)
(* or stop_arp_disruption (release); FastAPI runs sync endpoints in a      *)
(* thread pool, so two requests for one device overlap freely.  The lock   *)
(* of the registry covers one dict operation at a time, never a call.      *)
(***************************************************************************)
EXTENDS Naturals, FiniteSets

CONSTANTS
    Workers,        \* request threads of the service
    Names,          \* friendly names of the registered devices
    Loops,          \* identities for _DisruptionHandle (thread + stop_event)
    NoLoop,         \* absence of a handle (None)
    NoCall,         \* a worker that has not served a request yet
    MAX_ATTEMPTS    \* attempts of run_with_retries

ASSUME LoopsAssumption == NoLoop \notin Loops
ASSUME AttemptsAssumption == MAX_ATTEMPTS \in Nat /\ MAX_ATTEMPTS >= 1

VARIABLES
    active,       \* _active_disruptions: the handle registered for a name
    thread,       \* life cycle of a loop's thread
    stopEvent,    \* the stop_event of a loop is set
    target,       \* the name a loop was built for
    pc,           \* where each worker stands
    call,         \* the operation and name each worker serves
    attempt,      \* attempt_number of its run_with_retries
    handle,       \* the handle in its local variables
    outcome,      \* how its last run_with_retries ended
    overwritten   \* history: handles replaced in the registry while registered

loopVars == <<active, thread, stopEvent, target, overwritten>>
workerVars == <<pc, call, attempt, handle, outcome>>
vars == <<active, thread, stopEvent, target, pc, call, attempt, handle,
          outcome, overwritten>>

Calls == [op : {"start", "stop"}, name : Names]
ASSUME CallsAssumption == NoCall \notin Calls

PCs == {"idle", "pop", "signal", "join", "register", "launch", "log", "giveup"}
Lives == {"unused", "built", "waiting", "sending", "exited"}
Outcomes == {"none", "ok", "failed", "raised"}

TypeOK ==
    /\ active \in [Names -> Loops \cup {NoLoop}]
    /\ thread \in [Loops -> Lives]
    /\ stopEvent \in [Loops -> BOOLEAN]
    /\ target \in [Loops -> Names \cup {NoCall}]
    /\ pc \in [Workers -> PCs]
    /\ call \in [Workers -> Calls \cup {NoCall}]
    /\ attempt \in [Workers -> 1..MAX_ATTEMPTS]
    /\ handle \in [Workers -> Loops \cup {NoLoop}]
    /\ outcome \in [Workers -> Outcomes]
    /\ overwritten \subseteq Loops

Init ==
    /\ active = [n \in Names |-> NoLoop]
    /\ thread = [l \in Loops |-> "unused"]
    /\ stopEvent = [l \in Loops |-> FALSE]
    /\ target = [l \in Loops |-> NoCall]
    /\ pc = [w \in Workers |-> "idle"]
    /\ call = [w \in Workers |-> NoCall]
    /\ attempt = [w \in Workers |-> 1]
    /\ handle = [w \in Workers |-> NoLoop]
    /\ outcome = [w \in Workers |-> "none"]
    /\ overwritten = {}

-----------------------------------------------------------------------------
(* State helpers *)

Running(l) == thread[l] \in {"waiting", "sending"}      \* Thread.is_alive()
Registered(l) == \E n \in Names : active[n] = l
Popped(w) == pc[w] \in {"signal", "join"}               \* w owns a popped handle

\* No registry entry and no local variable refers to l, and its thread is
\* not alive: the identity may stand for a new handle.
Fresh(l) ==
    /\ ~Running(l)
    /\ ~Registered(l)
    /\ \A w \in Workers : handle[w] # l

-----------------------------------------------------------------------------
(* run_with_retries around one call *)

\* Mutant of Call: start_arp_disruption without its call of stop.
CallSkipsStop(w, c) ==
    /\ pc[w] = "idle"
    /\ call' = [call EXCEPT ![w] = c]
    /\ attempt' = [attempt EXCEPT ![w] = 1]
    /\ outcome' = [outcome EXCEPT ![w] = "none"]
    /\ pc' = [pc EXCEPT ![w] = IF c.op = "start" THEN "register" ELSE "pop"]
    /\ UNCHANGED <<handle, loopVars>>

\* A request reaches its ARP step: attempt_number = 1 of a start or a stop.
Call(w, c) ==
    /\ pc[w] = "idle"
    /\ call' = [call EXCEPT ![w] = c]
    /\ attempt' = [attempt EXCEPT ![w] = 1]
    /\ outcome' = [outcome EXCEPT ![w] = "none"]
    /\ pc' = [pc EXCEPT ![w] = "pop"]
    /\ UNCHANGED <<handle, loopVars>>

\* Mutant of Raised: one attempt too many.
RaisedOnceMore(w) ==
    /\ attempt' = [attempt EXCEPT ![w] = IF @ <= MAX_ATTEMPTS THEN @ + 1 ELSE @]
    /\ pc' = [pc EXCEPT ![w] = IF attempt[w] <= MAX_ATTEMPTS THEN "pop" ELSE "giveup"]
    /\ handle' = [handle EXCEPT ![w] = NoLoop]
    /\ UNCHANGED <<call, outcome>>

\* Mutant of Raised: attempts are not counted.
RaisedUncounted(w) ==
    /\ pc' = [pc EXCEPT ![w] = "pop"]
    /\ handle' = [handle EXCEPT ![w] = NoLoop]
    /\ UNCHANGED <<call, attempt, outcome>>

\* attempt_fn raised: back to the top of the loop after the backoff, or out
\* of it when this was the last attempt.
Raised(w) ==
    /\ IF attempt[w] < MAX_ATTEMPTS
       THEN /\ attempt' = [attempt EXCEPT ![w] = @ + 1]
            /\ pc' = [pc EXCEPT ![w] = "pop"]
       ELSE /\ pc' = [pc EXCEPT ![w] = "giveup"]
            /\ UNCHANGED attempt
    /\ handle' = [handle EXCEPT ![w] = NoLoop]
    /\ UNCHANGED <<call, outcome>>

\* The attempt returned: its success row goes into quarantine_log.  The
\* insert sits inside the try, so a database error there is one more failed
\* attempt.
LogSuccess(w) ==
    /\ pc[w] = "log"
    /\ \/ /\ outcome' = [outcome EXCEPT ![w] = "ok"]
          /\ pc' = [pc EXCEPT ![w] = "idle"]
          /\ UNCHANGED <<call, attempt, handle>>
       \/ Raised(w)
    /\ UNCHANGED loopVars

\* The failure row, outside the try: a database error leaves the wrapper.
LogFailure(w) ==
    /\ pc[w] = "giveup"
    /\ \E result \in {"failed", "raised"} :
          outcome' = [outcome EXCEPT ![w] = result]
    /\ pc' = [pc EXCEPT ![w] = "idle"]
    /\ UNCHANGED <<call, attempt, handle, loopVars>>

-----------------------------------------------------------------------------
(* stop_arp_disruption, also the first statement of start_arp_disruption *)

\* Where the caller of stop_arp_disruption goes when it returns.
AfterStop(w) == IF call[w].op = "start" THEN "register" ELSE "log"

\* Mutant of Pop: get instead of pop.
PopKeepsEntry(w) ==
    /\ pc[w] = "pop"
    /\ LET n == call[w].name IN
          /\ handle' = [handle EXCEPT ![w] = active[n]]
          /\ pc' = [pc EXCEPT ![w] =
                       IF active[n] = NoLoop THEN AfterStop(w) ELSE "signal"]
    /\ UNCHANGED <<active, thread, stopEvent, target, call, attempt, outcome, overwritten>>

\* Under the lock: pop the handle, or return at once when there is none.
Pop(w) ==
    /\ pc[w] = "pop"
    /\ LET n == call[w].name IN
          /\ handle' = [handle EXCEPT ![w] = active[n]]
          /\ active' = [active EXCEPT ![n] = NoLoop]
          /\ pc' = [pc EXCEPT ![w] =
                       IF active[n] = NoLoop THEN AfterStop(w) ELSE "signal"]
    /\ UNCHANGED <<thread, stopEvent, target, call, attempt, outcome, overwritten>>

\* Mutant of Signal: join without setting the event.
SignalForgotten(w) ==
    /\ pc[w] = "signal"
    /\ pc' = [pc EXCEPT ![w] = "join"]
    /\ UNCHANGED <<loopVars, call, attempt, handle, outcome>>

\* handle.stop_event.set(), after the lock was released.
Signal(w) ==
    /\ pc[w] = "signal"
    /\ stopEvent' = [stopEvent EXCEPT ![handle[w]] = TRUE]
    /\ pc' = [pc EXCEPT ![w] = "join"]
    /\ UNCHANGED <<active, thread, target, call, attempt, handle, outcome, overwritten>>

\* join() came back and the thread is dead.
Joined(w) ==
    /\ pc[w] = "join"
    /\ thread[handle[w]] = "exited"
    /\ pc' = [pc EXCEPT ![w] = AfterStop(w)]
    /\ handle' = [handle EXCEPT ![w] = NoLoop]
    /\ UNCHANGED <<call, attempt, outcome, loopVars>>

\* _STOP_JOIN_TIMEOUT_SECONDS passed with the thread alive: TimeoutError.  A
\* thread not started yet raises RuntimeError from join() itself.
JoinFailed(w) ==
    /\ pc[w] = "join"
    /\ thread[handle[w]] \in {"built", "waiting", "sending"}
    /\ Raised(w)
    /\ UNCHANGED loopVars

-----------------------------------------------------------------------------
(* The rest of start_arp_disruption *)

\* Build the thread and, under the lock, store its handle for the name.  What
\* the slot held before is forgotten.
Register(w) ==
    /\ pc[w] = "register"
    /\ \E l \in Loops :
          /\ Fresh(l)
          /\ thread' = [thread EXCEPT ![l] = "built"]
          /\ stopEvent' = [stopEvent EXCEPT ![l] = FALSE]
          /\ target' = [target EXCEPT ![l] = call[w].name]
          /\ active' = [active EXCEPT ![call[w].name] = l]
          /\ overwritten' =
                (overwritten \ {l}) \cup ({active[call[w].name]} \ {NoLoop})
          /\ handle' = [handle EXCEPT ![w] = l]
    /\ pc' = [pc EXCEPT ![w] = "launch"]
    /\ UNCHANGED <<call, attempt, outcome>>

\* thread.start(), outside the lock.
Launch(w) ==
    /\ pc[w] = "launch"
    /\ thread' = [thread EXCEPT ![handle[w]] = "waiting"]
    /\ handle' = [handle EXCEPT ![w] = NoLoop]
    /\ pc' = [pc EXCEPT ![w] = "log"]
    /\ UNCHANGED <<active, stopEvent, target, call, attempt, outcome, overwritten>>

\* The interpreter cannot start another thread: RuntimeError.  The handle
\* stays in the registry.
LaunchFailed(w) ==
    /\ pc[w] = "launch"
    /\ Raised(w)
    /\ UNCHANGED loopVars

-----------------------------------------------------------------------------
(* _disruption_loop *)

\* Mutant of Wake: while True.
WakeIgnoresStop(l) ==
    /\ thread[l] = "waiting"
    /\ thread' = [thread EXCEPT ![l] = "sending"]
    /\ UNCHANGED <<active, stopEvent, target, overwritten, workerVars>>

\* stop_event.wait() came back (or the thread just started): the loop tests
\* its stop event, then exits or begins a send.
Wake(l) ==
    /\ thread[l] = "waiting"
    /\ thread' = [thread EXCEPT ![l] = IF stopEvent[l] THEN "exited" ELSE "sending"]
    /\ UNCHANGED <<active, stopEvent, target, overwritten, workerVars>>

\* The send finished, or raised and was logged: on to stop_event.wait().
Sent(l) ==
    /\ thread[l] = "sending"
    /\ thread' = [thread EXCEPT ![l] = "waiting"]
    /\ UNCHANGED <<active, stopEvent, target, overwritten, workerVars>>

\* The container restarts: registry, daemon threads and requests are gone.
Restart ==
    /\ active' = [n \in Names |-> NoLoop]
    /\ thread' = [l \in Loops |-> "unused"]
    /\ stopEvent' = [l \in Loops |-> FALSE]
    /\ target' = [l \in Loops |-> NoCall]
    /\ pc' = [w \in Workers |-> "idle"]
    /\ call' = [w \in Workers |-> NoCall]
    /\ attempt' = [w \in Workers |-> 1]
    /\ handle' = [w \in Workers |-> NoLoop]
    /\ outcome' = [w \in Workers |-> "none"]
    /\ overwritten' = {}

-----------------------------------------------------------------------------

WorkerStep(w) ==
    \/ Pop(w) \/ Signal(w) \/ Joined(w) \/ JoinFailed(w)
    \/ Register(w) \/ Launch(w) \/ LaunchFailed(w)
    \/ LogSuccess(w) \/ LogFailure(w)

LoopStep(l) == Wake(l) \/ Sent(l)

Next ==
    \/ \E w \in Workers, c \in Calls : Call(w, c)
    \/ \E w \in Workers : WorkerStep(w)
    \/ \E l \in Loops : LoopStep(l)
    \/ Restart

Spec == Init /\ [][Next]_vars

\* Threads are scheduled by the operating system, a send returns or raises,
\* and join() has a timeout: whatever a thread can do next it does in time.
Fairness ==
    /\ \A w \in Workers : WF_vars(WorkerStep(w))
    /\ \A l \in Loops : WF_vars(LoopStep(l))

FairSpec == Spec /\ Fairness

-----------------------------------------------------------------------------
(* The call of run_with_retries, as its caller sees it *)

\* Attempts of start and stop both begin with the pop.
Phase(w) ==
    CASE pc[w] = "idle" -> "idle"
      [] pc[w] = "pop" -> "begin"
      [] pc[w] = "log" -> "returned"
      [] pc[w] = "giveup" -> "raised"
      [] OTHER -> "inside"

Retry(w) == INSTANCE RetryCall WITH
    phase <- Phase(w), attempt <- attempt[w], outcome <- outcome[w]

-----------------------------------------------------------------------------
(* Properties *)

\* run_with_retries (retry.py:28-32) around starts and stops: whatever the
\* loops, the joins, overlapping requests and the database do to it, each call
\* makes its attempts from the beginning, no more than allowed, succeeds only
\* by one that returned and gives up only after the last.
CallsAreRetried ==
    /\ \A w \in Workers : Retry(w)!Init
    /\ [][\A w \in Workers : [Retry(w)!Next]_(Retry(w)!vars)]_vars

\* A handle that is registered is a loop nobody has told to stop, built for
\* the name it is registered under (pop comes before stop_event.set()).
RegisteredNotStopped ==
    \A n \in Names : active[n] # NoLoop =>
        /\ ~stopEvent[active[n]]
        /\ target[active[n]] = n
        /\ thread[active[n]] \in {"built", "waiting", "sending"}

\* Popping under the lock hands a loop to exactly one stopper, and takes it
\* out of the registry: no two threads join, and no third one finds, the same
\* handle.
PoppedHandleHasOneOwner ==
    \A w \in Workers : Popped(w) =>
        /\ handle[w] # NoLoop
        /\ ~Registered(handle[w])
        /\ \A v \in Workers \ {w} : Popped(v) => handle[v] # handle[w]

\* A worker is between popping l and setting its stop event.
BeingStopped(l) == \E w \in Workers : pc[w] = "signal" /\ handle[w] = l

\* The only way to lose a loop that nobody told to stop is a start that
\* replaced its handle in the registry while another start was in progress.
LostLoopsWereOverwritten ==
    \A l \in Loops :
        Running(l) /\ ~stopEvent[l] /\ ~Registered(l) /\ ~BeingStopped(l)
            => l \in overwritten

\* No other request has reached its ARP step since the service started.
Alone(w) == \A v \in Workers \ {w} : call[v] = NoCall

\* The start docstring (arp_disrupt.py:62-64): a second start "stops the old
\* one first, so a re-quarantine ... doesn't leave two loops fighting each
\* other".  Two loops fight when both run for one name and neither was told
\* to stop.  With overlapping starts the promise does not hold (see
\* LostLoopsWereOverwritten); a thread alone keeps it over any number of calls.
LoneCallerLoopsNeverFight ==
    \A w \in Workers : Alone(w) =>
        \A k, l \in Loops :
            /\ Running(k) /\ ~stopEvent[k]
            /\ Running(l) /\ ~stopEvent[l]
            /\ target[k] = target[l]
            => k = l

\* What a worker served last ended well: a start left a live loop in the
\* registry, a stop left no loop of the name that would keep on sending.
OutcomeHolds(w) ==
    pc[w] = "idle" /\ outcome[w] = "ok" =>
        LET n == call[w].name
            unstopped == {l \in Loops : Running(l) /\ target[l] = n /\ ~stopEvent[l]}
        IN  IF call[w].op = "start"
            THEN active[n] # NoLoop /\ unstopped = {active[n]}
            ELSE unstopped = {}

\* When nothing else acts on the loops, the outcome a request reports is the
\* truth: "arp step succeeded" means exactly one loop, or none left, whatever
\* failed, timed out and was retried before.
LoneCallerReportsTruth == \A w \in Workers : Alone(w) => OutcomeHolds(w)

\* The stop docstring (arp_disrupt.py:83-87) has a loop that outlives the
\* join raise TimeoutError, "so the retry wrapper in main.py has something
\* meaningful to retry against": a release that ends well left no loop alive.
ReleaseLeavesNoLoop ==
    \A w \in Workers :
        pc[w] = "idle" /\ outcome[w] = "ok" /\ call[w].op = "stop" =>
            \A l \in Loops : target[l] = call[w].name => ~Running(l)

\* A loop that was told to stop is gone in the end, even one whose stopper
\* gave up on it.
StoppedLoopsExit == \A l \in Loops : stopEvent[l] /\ Running(l) ~> ~Running(l)

\* Every call of run_with_retries comes back: timeouts are bounded and so
\* are the attempts.
CallsReturn == \A w \in Workers : pc[w] # "idle" ~> pc[w] = "idle"
=============================================================================
