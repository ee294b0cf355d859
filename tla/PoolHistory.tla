----------------------------- MODULE PoolHistory -----------------------------
(***************************************************************************)
(* The pool utilisation history: the sampler thread of pool_history.py,    *)
(* the pool_samples table of db.py, and the "Issued" figure the dashboard  *)
(* draws from it (dashboard_data.leases_issued_since).  Time passes in     *)
(* ticks, and a sample has an age instead of a timestamp.  Kea is not      *)
(* under src/: it counts the leases it assigns, and counts from zero again *)
(* when it restarts.                                                       *)
(***************************************************************************)
EXTENDS Naturals, FiniteSets, SequencesExt

CONSTANTS
    Loops,          \* identities for sampler threads
    NoLoop,         \* no thread (None)
    WINDOW,         \* _ISSUED_WINDOW_HOURS
    TOLERANCE,      \* DEFAULT_BASELINE_TOLERANCE_SECONDS
    HISTORY,        \* _HISTORY_WINDOW_HOURS, what the dashboard fetches
    RETENTION,      \* POOL_SAMPLE_RETENTION_DAYS
    LIMIT,          \* most rows get_pool_samples returns
    Blank,          \* no figure (None)
    MaxCount,       \* bound: the counter, and the leases assigned in one tick
    MaxSamples      \* bound: rows in the table

ASSUME PoolAssumption ==
    /\ IsFiniteSet(Loops)
    /\ {WINDOW, TOLERANCE, HISTORY, RETENTION, LIMIT, MaxCount, MaxSamples} \subseteq Nat
    /\ RETENTION >= 1 /\ HISTORY >= WINDOW + TOLERANCE
    /\ NoLoop \notin Loops
    /\ Blank \notin Nat

VARIABLES
    counter,        \* cumulative-assigned-addresses of Kea
    samples,        \* pool_samples, oldest first
    handle,         \* _sampler_thread
    phase,          \* what each thread does next
    reading,        \* the counter a thread has read and not inserted yet
    told,           \* running threads whose stop event is set
    stopping,       \* the thread stop_pool_sampler took out and has not told yet
    issued          \* history: leases assigned since the last k ticks began

loopVars == <<handle, phase, reading, told, stopping>>
vars == <<counter, samples, loopVars, issued>>

\* Samples of this age are older than anything that asks for their age.
Ancient == IF RETENTION > HISTORY THEN RETENTION + 1 ELSE HISTORY + 1
Samples == [age : 0..Ancient, cumulative : 0..MaxCount]
Phases == {"pass", "insert", "prune", "wait", "ended"}
Recent == 0..(WINDOW + TOLERANCE)

TypeOK ==
    /\ counter \in 0..MaxCount
    /\ samples \in Seq(Samples)
    /\ Len(samples) <= MaxSamples + Cardinality(Loops)
    /\ handle \in Loops \cup {NoLoop}
    /\ phase \in [Loops -> Phases]
    /\ reading \in [Loops -> 0..MaxCount]
    /\ told \subseteq Loops
    /\ stopping \in Loops \cup {NoLoop}
    /\ issued \in [Recent -> Nat]

Init ==
    /\ counter = 0
    /\ samples = <<>>
    /\ handle = NoLoop
    /\ phase = [l \in Loops |-> "ended"]
    /\ reading = [l \in Loops |-> 0]
    /\ told = {}
    /\ stopping = NoLoop
    /\ issued = [k \in Recent |-> 0]

Alive(l) == phase[l] \in {"pass", "insert", "prune", "wait"}

IsSampling == handle # NoLoop /\ Alive(handle)

-----------------------------------------------------------------------------
(* Kea and the clock *)

Issue ==
    /\ counter < MaxCount /\ issued[0] < MaxCount
    /\ counter' = counter + 1
    /\ issued' = [k \in Recent |-> issued[k] + 1]
    /\ UNCHANGED <<samples, loopVars>>

KeaRestart ==
    /\ counter' = 0
    /\ UNCHANGED <<samples, loopVars, issued>>

Aged(s) == [s EXCEPT !.age = IF @ = Ancient THEN @ ELSE @ + 1]

\* A tick is long against a call to Kea: none passes between a reading and
\* its row.
Tick ==
    /\ \A l \in Loops : phase[l] # "insert"
    /\ samples' = [k \in DOMAIN samples |-> Aged(samples[k])]
    /\ issued' = [k \in Recent |-> IF k = 0 THEN 0 ELSE issued[k - 1]]
    /\ UNCHANGED <<counter, loopVars>>

-----------------------------------------------------------------------------
(* _run_sampler_loop *)

Goto(l, place) == phase' = [phase EXCEPT ![l] = place]

\* The test of the stop event, then get_pool_stats.
Read(l) ==
    /\ phase[l] = "pass" /\ l \notin told
    /\ Len(samples) < MaxSamples
    /\ reading' = [reading EXCEPT ![l] = counter]
    /\ Goto(l, "insert")
    /\ UNCHANGED <<counter, samples, handle, told, stopping, issued>>

\* Mutant of ReadSkipped: a row without a reading.
ReadSkippedBlank(l) ==
    /\ phase[l] = "pass" /\ l \notin told
    /\ Len(samples) < MaxSamples
    /\ reading' = [reading EXCEPT ![l] = Blank]
    /\ Goto(l, "insert")
    /\ UNCHANGED <<counter, samples, handle, told, stopping, issued>>

\* KeaError: take_sample_now reports False and the pass goes on to prune.
ReadSkipped(l) ==
    /\ phase[l] = "pass" /\ l \notin told
    /\ Goto(l, "prune")
    /\ UNCHANGED <<counter, samples, handle, reading, told, stopping, issued>>

\* insert_pool_sample stamps the row with the time now.
Insert(l) ==
    /\ phase[l] = "insert"
    /\ samples' = Append(samples, [age |-> 0, cumulative |-> reading[l]])
    /\ reading' = [reading EXCEPT ![l] = 0]
    /\ Goto(l, "prune")
    /\ UNCHANGED <<counter, handle, told, stopping, issued>>

\* The rows with sampled_at >= cutoff: the table is in the order of time, so
\* they are those from the first on that is young enough.
Within(rows, limit) ==
    LET first == Min({k \in DOMAIN rows : rows[k].age <= limit} \cup {Len(rows) + 1})
    IN  SubSeq(rows, first, Len(rows))

Prune(l) ==
    /\ phase[l] = "prune"
    /\ samples' = Within(samples, RETENTION)
    /\ Goto(l, "wait")
    /\ UNCHANGED <<counter, handle, reading, told, stopping, issued>>

\* Mutant of PassFailed: the exception ends the thread.
PassFailedDies(l) ==
    /\ phase[l] \in {"pass", "insert", "prune"}
    /\ l \in told => phase[l] # "pass"
    /\ reading' = [reading EXCEPT ![l] = 0]
    /\ Goto(l, "ended")
    /\ UNCHANGED <<counter, samples, handle, told, stopping, issued>>

\* Any other exception is logged and the loop waits for its next pass.
PassFailed(l) ==
    /\ phase[l] \in {"pass", "insert", "prune"}
    /\ l \in told => phase[l] # "pass"
    /\ reading' = [reading EXCEPT ![l] = 0]
    /\ Goto(l, "wait")
    /\ UNCHANGED <<counter, samples, handle, told, stopping, issued>>

\* stop_event.wait comes back.
Wake(l) ==
    /\ phase[l] = "wait"
    /\ Goto(l, "pass")
    /\ UNCHANGED <<counter, samples, handle, reading, told, stopping, issued>>

\* The stop event goes with its thread.
Exit(l) ==
    /\ phase[l] = "pass" /\ l \in told
    /\ told' = told \ {l}
    /\ Goto(l, "ended")
    /\ UNCHANGED <<counter, samples, handle, reading, stopping, issued>>

-----------------------------------------------------------------------------
(* start_pool_sampler and stop_pool_sampler *)

\* Mutant of Start: without the test of the running thread.
StartAgain(l) ==
    /\ ~Alive(l) /\ l \notin {handle, stopping}
    /\ handle' = l
    /\ Goto(l, "pass")
    /\ UNCHANGED <<counter, samples, reading, told, stopping, issued>>

\* All of it under the lock; it returns when the thread is alive.
Start(l) ==
    /\ ~IsSampling
    /\ ~Alive(l) /\ l \notin {handle, stopping}
    /\ handle' = l
    /\ Goto(l, "pass")
    /\ UNCHANGED <<counter, samples, reading, told, stopping, issued>>

\* Under the lock: take the handle out.
StopPop ==
    /\ stopping = NoLoop
    /\ handle # NoLoop
    /\ stopping' = handle
    /\ handle' = NoLoop
    /\ UNCHANGED <<counter, samples, phase, reading, told, issued>>

\* Outside it: set the event.  The join that follows changes nothing; whether
\* it sees the thread end or raises TimeoutError, a start need not wait for it.
StopSignal ==
    /\ stopping # NoLoop
    /\ told' = told \cup {stopping}
    /\ stopping' = NoLoop
    /\ UNCHANGED <<counter, samples, handle, phase, reading, issued>>

\* The process ends with its daemon thread; the table stays.
ProcessRestart ==
    /\ handle' = NoLoop /\ stopping' = NoLoop
    /\ phase' = [l \in Loops |-> "ended"]
    /\ reading' = [l \in Loops |-> 0]
    /\ told' = {}
    /\ UNCHANGED <<counter, samples, issued>>

-----------------------------------------------------------------------------

LoopStep(l) ==
    \/ Read(l) \/ ReadSkipped(l) \/ Insert(l) \/ Prune(l) \/ PassFailed(l)
    \/ Wake(l) \/ Exit(l)

Next ==
    \/ Issue \/ KeaRestart \/ Tick
    \/ \E l \in Loops : LoopStep(l) \/ Start(l)
    \/ StopPop \/ StopSignal \/ ProcessRestart

Spec == Init /\ [][Next]_vars

\* The thread is scheduled, its calls have timeouts and its wait an end.
FairSpec == Spec /\ \A l \in Loops : WF_vars(LoopStep(l))

-----------------------------------------------------------------------------
(* The dashboard *)

\* get_pool_samples(since=_history_cutoff()): of too many rows the newest are cut off.
Shown ==
    LET young == Within(samples, HISTORY)
    IN  SubSeq(young, 1, IF Len(young) <= LIMIT THEN Len(young) ELSE LIMIT)

\* Mutant of leases_issued_since: any sample before the window will do.
issued_since_anything(shown) ==
    LET old == {k \in DOMAIN shown : shown[k].age >= WINDOW}
        baseline == shown[Max(old)]
        delta == Last(shown).cumulative - baseline.cumulative
    IN  IF Len(shown) < 2 \/ old = {} THEN Blank
        ELSE IF Last(shown).cumulative >= baseline.cumulative THEN delta ELSE Blank

\* The counter now less the counter at the last sample before the window; no
\* figure when that is too old, or when the counter went down.
leases_issued_since(shown) ==
    LET old == {k \in DOMAIN shown : shown[k].age >= WINDOW}
        baseline == shown[Max(old)]
        delta == Last(shown).cumulative - baseline.cumulative
    IN  IF Len(shown) < 2 \/ old = {} THEN Blank
        ELSE IF baseline.age - WINDOW > TOLERANCE THEN Blank
        ELSE IF Last(shown).cumulative >= baseline.cumulative THEN delta ELSE Blank

-----------------------------------------------------------------------------
(* Properties *)

\* "Blank rather than a wrong number" (ui_dashboard.py:439): whatever gaps the
\* history has, however often Kea restarted and two samplers overlapped, the
\* figure never exceeds the leases assigned in the window and the tolerance
\* before it.  (It may fall short: a restart the counter has made up for does
\* not show, and a sampler that stopped, or a fetch cut off at its limit, leaves
\* the end of the window out.)
FigureNeverOverstates ==
    LET figure == leases_issued_since(Shown)
    IN  figure # Blank => figure <= issued[WINDOW + TOLERANCE]

\* start_pool_sampler: "a second loop would double every sample".  At any time
\* at most one loop goes on sampling; every other one that is alive was told
\* to stop or is about to be.
OneLoopGoesOn ==
    \A l \in Loops : Alive(l) => l \in told \cup {handle, stopping}

\* _run_sampler_loop: a bad pass never silently ends the history.  A loop that
\* stays registered begins pass after pass, whatever fails in them.
SamplerKeepsPassing ==
    \A l \in Loops : <>[](handle = l) => []<>(phase[l] = "pass")
=============================================================================
