-------------------------- MODULE ArpDisruptProofs --------------------------
(***************************************************************************)
(* Safety of ArpDisrupt for any number of request threads, devices, loop   *)
(* identities and attempts.                                                *)
(***************************************************************************)
EXTENDS ArpDisrupt, TLAPS

(* A worker past "idle" knows what it serves. *)
BusyHasCall == \A w \in Workers : pc[w] # "idle" => call[w] \in Calls

(* The stop event of a loop being joined is already set. *)
JoinedWasSignalled ==
    \A w \in Workers : pc[w] = "join" => stopEvent[handle[w]]

(* A worker about to start a thread is the only one to have that thread. *)
LaunchIsExclusive ==
    \A w \in Workers : pc[w] = "launch" =>
        /\ handle[w] # NoLoop
        /\ thread[handle[w]] = "built"
        /\ \A v \in Workers \ {w} : pc[v] = "launch" => handle[v] # handle[w]

BeingLaunched(l) == \E w \in Workers : pc[w] = "launch" /\ handle[w] = l

(* LostLoopsWereOverwritten, extended to the loops about to run. *)
Accounted ==
    \A l \in Loops :
        /\ Running(l) \/ BeingLaunched(l)
        /\ ~stopEvent[l]
        /\ ~Registered(l)
        /\ ~BeingStopped(l)
        => l \in overwritten

IInv ==
    /\ TypeOK
    /\ BusyHasCall
    /\ RegisteredNotStopped
    /\ PoppedHandleHasOneOwner
    /\ JoinedWasSignalled
    /\ LaunchIsExclusive
    /\ Accounted

-----------------------------------------------------------------------------
(* Types and the call of a busy worker come first: they need nothing else. *)

TypeInv == TypeOK /\ BusyHasCall

LEMMA TypeInit == Init => TypeInv
  BY AttemptsAssumption
  DEF Init, TypeInv, TypeOK, BusyHasCall, PCs, Lives, Outcomes

LEMMA TypeNext == TypeInv /\ [Next]_vars => TypeInv'
<1> SUFFICES ASSUME TypeInv, [Next]_vars PROVE TypeInv'
  OBVIOUS
<1> USE AttemptsAssumption, LoopsAssumption
    DEF TypeInv, TypeOK, BusyHasCall, PCs, Lives, Outcomes, workerVars, loopVars
<1>1. ASSUME NEW w \in Workers, NEW c \in Calls, Call(w, c) PROVE TypeInv'
  BY <1>1 DEF Call
<1>2. ASSUME NEW w \in Workers, Pop(w) PROVE TypeInv'
  BY <1>2 DEF Pop, AfterStop, Calls
<1>3. ASSUME NEW w \in Workers, Signal(w) PROVE TypeInv'
  BY <1>3 DEF Signal
<1>4. ASSUME NEW w \in Workers, Joined(w) PROVE TypeInv'
  BY <1>4 DEF Joined, AfterStop
<1>5. ASSUME NEW w \in Workers, JoinFailed(w) PROVE TypeInv'
  BY <1>5 DEF JoinFailed, Raised
<1>6. ASSUME NEW w \in Workers, Register(w) PROVE TypeInv'
  BY <1>6 DEF Register, Calls
<1>7. ASSUME NEW w \in Workers, Launch(w) PROVE TypeInv'
  BY <1>7 DEF Launch
<1>8. ASSUME NEW w \in Workers, LaunchFailed(w) PROVE TypeInv'
  BY <1>8 DEF LaunchFailed, Raised
<1>9. ASSUME NEW w \in Workers, LogSuccess(w) PROVE TypeInv'
  BY <1>9 DEF LogSuccess, Raised
<1>10. ASSUME NEW w \in Workers, LogFailure(w) PROVE TypeInv'
  BY <1>10 DEF LogFailure
<1>11. ASSUME NEW l \in Loops, LoopStep(l) PROVE TypeInv'
  BY <1>11 DEF LoopStep, Wake, Sent
<1>12. ASSUME Restart PROVE TypeInv'
  BY <1>12 DEF Restart
<1>13. ASSUME UNCHANGED vars PROVE TypeInv'
  BY <1>13 DEF vars
<1> QED
  BY <1>1, <1>2, <1>3, <1>4, <1>5, <1>6, <1>7, <1>8, <1>9, <1>10, <1>11,
     <1>12, <1>13 DEF Next, WorkerStep

(***************************************************************************)
(* Every loop identity has types at hand below, so that each step cites    *)
(* only the conjuncts its action disturbs.                                 *)
(***************************************************************************)
OwnersInv == RegisteredNotStopped /\ PoppedHandleHasOneOwner /\ JoinedWasSignalled

LEMMA OwnersInit == Init => OwnersInv
  BY DEF Init, OwnersInv, RegisteredNotStopped, PoppedHandleHasOneOwner,
         JoinedWasSignalled, Popped

LEMMA OwnersNext == TypeInv /\ TypeInv' /\ OwnersInv /\ [Next]_vars => OwnersInv'
<1> SUFFICES ASSUME TypeInv, TypeInv', OwnersInv, [Next]_vars PROVE OwnersInv'
  OBVIOUS
<1> USE LoopsAssumption
    DEF TypeInv, TypeOK, BusyHasCall, OwnersInv, RegisteredNotStopped,
        PoppedHandleHasOneOwner, JoinedWasSignalled, Popped, Registered,
        workerVars, loopVars
<1>1. ASSUME NEW w \in Workers, NEW c \in Calls, Call(w, c) PROVE OwnersInv'
  BY <1>1 DEF Call
<1>2. ASSUME NEW w \in Workers, Pop(w) PROVE OwnersInv'
  BY <1>2 DEF Pop, AfterStop, Calls
<1>3. ASSUME NEW w \in Workers, Signal(w) PROVE OwnersInv'
  BY <1>3 DEF Signal
<1>4. ASSUME NEW w \in Workers, Joined(w) PROVE OwnersInv'
  BY <1>4 DEF Joined, AfterStop
<1>5. ASSUME NEW w \in Workers, JoinFailed(w) PROVE OwnersInv'
  BY <1>5 DEF JoinFailed, Raised
<1>6. ASSUME NEW w \in Workers, Register(w) PROVE OwnersInv'
  BY <1>6 DEF Register, Calls, Fresh, Running
<1>7. ASSUME NEW w \in Workers, Launch(w) PROVE OwnersInv'
  BY <1>7 DEF Launch
<1>8. ASSUME NEW w \in Workers, LaunchFailed(w) PROVE OwnersInv'
  BY <1>8 DEF LaunchFailed, Raised
<1>9. ASSUME NEW w \in Workers, LogSuccess(w) PROVE OwnersInv'
  BY <1>9 DEF LogSuccess, Raised
<1>10. ASSUME NEW w \in Workers, LogFailure(w) PROVE OwnersInv'
  BY <1>10 DEF LogFailure
<1>11. ASSUME NEW l \in Loops, LoopStep(l) PROVE OwnersInv'
  BY <1>11 DEF LoopStep, Wake, Sent
<1>12. ASSUME Restart PROVE OwnersInv'
  BY <1>12 DEF Restart
<1>13. ASSUME UNCHANGED vars PROVE OwnersInv'
  BY <1>13 DEF vars
<1> QED
  BY <1>1, <1>2, <1>3, <1>4, <1>5, <1>6, <1>7, <1>8, <1>9, <1>10, <1>11,
     <1>12, <1>13 DEF Next, WorkerStep

(***************************************************************************)
(* Register takes an identity nobody refers to, so no two threads are ever *)
(* about to start the same one.                                            *)
(***************************************************************************)
LEMMA LaunchInit == Init => LaunchIsExclusive
  BY DEF Init, LaunchIsExclusive

LEMMA LaunchNext ==
  TypeInv /\ TypeInv' /\ LaunchIsExclusive /\ [Next]_vars => LaunchIsExclusive'
<1> SUFFICES ASSUME TypeInv, TypeInv', LaunchIsExclusive, [Next]_vars
             PROVE  LaunchIsExclusive'
  OBVIOUS
<1> USE LoopsAssumption
    DEF TypeInv, TypeOK, BusyHasCall, LaunchIsExclusive, workerVars, loopVars
<1>1. ASSUME NEW w \in Workers, NEW c \in Calls, Call(w, c) PROVE LaunchIsExclusive'
  BY <1>1 DEF Call
<1>2. ASSUME NEW w \in Workers, Pop(w) PROVE LaunchIsExclusive'
  BY <1>2 DEF Pop, AfterStop, Calls
<1>3. ASSUME NEW w \in Workers, Signal(w) PROVE LaunchIsExclusive'
  BY <1>3 DEF Signal
<1>4. ASSUME NEW w \in Workers, Joined(w) PROVE LaunchIsExclusive'
  BY <1>4 DEF Joined, AfterStop
<1>5. ASSUME NEW w \in Workers, JoinFailed(w) PROVE LaunchIsExclusive'
  BY <1>5 DEF JoinFailed, Raised
<1>6. ASSUME NEW w \in Workers, Register(w) PROVE LaunchIsExclusive'
  BY <1>6 DEF Register, Calls, Fresh, Running
<1>7. ASSUME NEW w \in Workers, Launch(w) PROVE LaunchIsExclusive'
  BY <1>7 DEF Launch
<1>8. ASSUME NEW w \in Workers, LaunchFailed(w) PROVE LaunchIsExclusive'
  BY <1>8 DEF LaunchFailed, Raised
<1>9. ASSUME NEW w \in Workers, LogSuccess(w) PROVE LaunchIsExclusive'
  BY <1>9 DEF LogSuccess, Raised
<1>10. ASSUME NEW w \in Workers, LogFailure(w) PROVE LaunchIsExclusive'
  BY <1>10 DEF LogFailure
<1>11. ASSUME NEW l \in Loops, LoopStep(l) PROVE LaunchIsExclusive'
  BY <1>11 DEF LoopStep, Wake, Sent
<1>12. ASSUME Restart PROVE LaunchIsExclusive'
  BY <1>12 DEF Restart
<1>13. ASSUME UNCHANGED vars PROVE LaunchIsExclusive'
  BY <1>13 DEF vars
<1> QED
  BY <1>1, <1>2, <1>3, <1>4, <1>5, <1>6, <1>7, <1>8, <1>9, <1>10, <1>11,
     <1>12, <1>13 DEF Next, WorkerStep

(***************************************************************************)
(* The accounting of loops: what is not registered, not stopped and not in *)
(* the hands of a stopper was overwritten.                                 *)
(***************************************************************************)
LEMMA AccountedInit == Init => Accounted
  BY DEF Init, Accounted, Running, BeingLaunched

LEMMA AccountedNext ==
  /\ TypeInv /\ TypeInv' /\ OwnersInv /\ LaunchIsExclusive /\ Accounted
  /\ [Next]_vars
  => Accounted'
<1> SUFFICES ASSUME TypeInv, TypeInv', OwnersInv, LaunchIsExclusive, Accounted,
                    [Next]_vars
             PROVE  Accounted'
  OBVIOUS
<1> USE LoopsAssumption
    DEF TypeInv, TypeOK, BusyHasCall, OwnersInv, RegisteredNotStopped,
        LaunchIsExclusive, Accounted, Running, Registered, BeingStopped,
        BeingLaunched, workerVars, loopVars
<1>1. ASSUME NEW w \in Workers, NEW c \in Calls, Call(w, c) PROVE Accounted'
  BY <1>1 DEF Call
<1>2. ASSUME NEW w \in Workers, Pop(w) PROVE Accounted'
  BY <1>2 DEF Pop, AfterStop, Calls
<1>3. ASSUME NEW w \in Workers, Signal(w) PROVE Accounted'
  BY <1>3 DEF Signal
<1>4. ASSUME NEW w \in Workers, Joined(w) PROVE Accounted'
  BY <1>4 DEF Joined, AfterStop
<1>5. ASSUME NEW w \in Workers, JoinFailed(w) PROVE Accounted'
  BY <1>5 DEF JoinFailed, Raised
<1>6. ASSUME NEW w \in Workers, Register(w) PROVE Accounted'
  BY <1>6 DEF Register, Calls, Fresh, Running
<1>7. ASSUME NEW w \in Workers, Launch(w) PROVE Accounted'
  BY <1>7 DEF Launch
<1>8. ASSUME NEW w \in Workers, LaunchFailed(w) PROVE Accounted'
  BY <1>8 DEF LaunchFailed, Raised
<1>9. ASSUME NEW w \in Workers, LogSuccess(w) PROVE Accounted'
  BY <1>9 DEF LogSuccess, Raised
<1>10. ASSUME NEW w \in Workers, LogFailure(w) PROVE Accounted'
  BY <1>10 DEF LogFailure
<1>11. ASSUME NEW l \in Loops, LoopStep(l) PROVE Accounted'
  BY <1>11 DEF LoopStep, Wake, Sent
<1>12. ASSUME Restart PROVE Accounted'
  BY <1>12 DEF Restart
<1>13. ASSUME UNCHANGED vars PROVE Accounted'
  BY <1>13 DEF vars
<1> QED
  BY <1>1, <1>2, <1>3, <1>4, <1>5, <1>6, <1>7, <1>8, <1>9, <1>10, <1>11,
     <1>12, <1>13 DEF Next, WorkerStep

LEMMA SafeInit == Init => IInv
  BY TypeInit, OwnersInit, LaunchInit, AccountedInit
  DEF IInv, TypeInv, OwnersInv

LEMMA SafeNext == IInv /\ [Next]_vars => IInv'
<1> SUFFICES ASSUME IInv, [Next]_vars PROVE IInv'
  OBVIOUS
<1>1. TypeInv /\ OwnersInv
  BY DEF IInv, TypeInv, OwnersInv
<1>2. TypeInv'
  BY <1>1, TypeNext
<1>3. OwnersInv'
  BY <1>1, <1>2, OwnersNext
<1>4. LaunchIsExclusive'
  BY <1>1, <1>2, LaunchNext DEF IInv
<1>5. Accounted'
  BY <1>1, <1>2, AccountedNext DEF IInv
<1> QED
  BY <1>2, <1>3, <1>4, <1>5 DEF IInv, TypeInv, OwnersInv

LEMMA Safe == Spec => []IInv
  BY SafeInit, SafeNext, PTL DEF Spec

-----------------------------------------------------------------------------

(* The state of the registry, the threads and the workers is well typed in *)
(* every reachable state.                                                  *)
THEOREM TypeCorrect == Spec => []TypeOK
<1>1. IInv => TypeOK
  BY DEF IInv
<1> QED
  BY <1>1, Safe, PTL

(* However many start and stop calls overlap, a registered handle is never *)
(* one that was told to stop (arp_disrupt.py:89-94).                       *)
THEOREM RegistryHoldsLiveLoops == Spec => []RegisteredNotStopped
<1>1. IInv => RegisteredNotStopped
  BY DEF IInv
<1> QED
  BY <1>1, Safe, PTL

(* The pop under the lock gives every handle a single stopper.             *)
THEOREM OneStopperPerLoop == Spec => []PoppedHandleHasOneOwner
<1>1. IInv => PoppedHandleHasOneOwner
  BY DEF IInv
<1> QED
  BY <1>1, Safe, PTL

(* A loop that runs on with nobody able to stop it lost its registry entry *)
(* to an overlapping start, and to nothing else.                           *)
THEOREM OnlyOverwritesLoseLoops == Spec => []LostLoopsWereOverwritten
<1>1. IInv => LostLoopsWereOverwritten
  BY DEF IInv, Accounted, LostLoopsWereOverwritten
<1> QED
  BY <1>1, Safe, PTL

-----------------------------------------------------------------------------
(***************************************************************************)
(* A thread alone.  It never overwrites: the slot of its name stays empty  *)
(* from its own pop to its own store.                                      *)
(***************************************************************************)
LoneInv(w) ==
    /\ overwritten = {}
    /\ pc[w] \in {"signal", "join", "register"} => active[call[w].name] = NoLoop
    /\ pc[w] = "signal" => target[handle[w]] = call[w].name
    /\ pc[w] = "launch" => /\ call[w].op = "start"
                           /\ active[call[w].name] = handle[w]
    /\ pc[w] = "register" => call[w].op = "start"
    /\ pc[w] = "idle" /\ outcome[w] = "ok" => call[w] \in Calls
    /\ pc[w] = "log" \/ (pc[w] = "idle" /\ outcome[w] = "ok") =>
           IF call[w].op = "start"
           THEN active[call[w].name] # NoLoop /\ Running(active[call[w].name])
           ELSE active[call[w].name] = NoLoop

LonersInv == \A w \in Workers : Alone(w) => LoneInv(w)

(* While w is alone the other threads are idle.                            *)
LEMMA OthersIdle ==
  ASSUME IInv, NEW w \in Workers, Alone(w), NEW v \in Workers, pc[v] # "idle"
  PROVE  v = w
  BY CallsAssumption DEF IInv, BusyHasCall, Alone

(* A restart forgets whatever the thread was doing.                        *)
LEMMA LoneRestart ==
  ASSUME Restart, NEW w \in Workers
  PROVE  LoneInv(w)'
<1>1. /\ pc'[w] = "idle"
      /\ outcome'[w] = "none"
      /\ overwritten' = {}
  BY DEF Restart
<1> QED
  BY <1>1 DEF LoneInv

(* A step of any loop leaves what the lone thread relies on as it is.      *)
LEMMA LoneLoopStep ==
  ASSUME IInv, IInv', NEW w \in Workers, LoneInv(w), NEW l \in Loops, LoopStep(l)
  PROVE  LoneInv(w)'
<1>1. /\ UNCHANGED <<active, stopEvent, target, overwritten, workerVars>>
      /\ \A k \in Loops : Running(k) /\ ~stopEvent[k] => Running(k)'
  BY DEF LoopStep, Wake, Sent, Running, IInv, TypeOK
<1>2. \A n \in Names :
         active[n] # NoLoop /\ Running(active[n]) => Running(active[n])'
  BY <1>1 DEF IInv, TypeOK, RegisteredNotStopped
<1>3. pc[w] = "log" \/ (pc[w] = "idle" /\ outcome[w] = "ok") => call[w].name \in Names
  BY DEF IInv, BusyHasCall, LoneInv, Calls
<1> QED
  BY <1>1, <1>2, <1>3 DEF LoneInv, workerVars

(* A step of the lone thread itself.                                       *)
LEMMA LoneWorkerStep ==
  ASSUME IInv, IInv', NEW w \in Workers, LoneInv(w),
         WorkerStep(w) \/ \E c \in Calls : Call(w, c)
  PROVE  LoneInv(w)'
<1> USE LoopsAssumption
    DEF IInv, TypeOK, BusyHasCall, RegisteredNotStopped, PoppedHandleHasOneOwner,
        Popped, Registered, LaunchIsExclusive, LoneInv, Running, workerVars,
        loopVars
<1>1. ASSUME NEW c \in Calls, Call(w, c) PROVE LoneInv(w)'
  BY <1>1 DEF Call
<1>2. CASE Pop(w)
  BY <1>2 DEF Pop, AfterStop, Calls
<1>3. CASE Signal(w)
  BY <1>3 DEF Signal
<1>4. CASE Joined(w)
  BY <1>4 DEF Joined, AfterStop, Calls
<1>5. CASE JoinFailed(w)
  BY <1>5 DEF JoinFailed, Raised
<1>6. CASE Register(w)
  BY <1>6 DEF Register, Calls, Fresh
<1>7. CASE Launch(w)
  BY <1>7 DEF Launch, Calls
<1>8. CASE LaunchFailed(w)
  BY <1>8 DEF LaunchFailed, Raised
<1>9. CASE LogSuccess(w)
  BY <1>9 DEF LogSuccess, Raised
<1>10. CASE LogFailure(w)
  BY <1>10 DEF LogFailure
<1> QED
  BY <1>1, <1>2, <1>3, <1>4, <1>5, <1>6, <1>7, <1>8, <1>9, <1>10 DEF WorkerStep

(* A thread that is alone after a step of a thread was alone before it, and *)
(* the step was its own.                                                   *)
LEMMA LoneActor ==
  ASSUME IInv, NEW w \in Workers, Alone(w)', NEW v \in Workers,
         WorkerStep(v) \/ \E c \in Calls : Call(v, c)
  PROVE  v = w /\ Alone(w)
<1>1. call'[v] \in Calls /\ \A u \in Workers \ {v} : call'[u] = call[u]
  <2>1. ASSUME NEW c \in Calls, Call(v, c)
        PROVE  call'[v] \in Calls /\ \A u \in Workers \ {v} : call'[u] = call[u]
    BY <2>1 DEF Call, IInv, TypeOK
  <2>2. ASSUME WorkerStep(v) PROVE call' = call /\ pc[v] # "idle"
    BY <2>2 DEF WorkerStep, Pop, Signal, Joined, JoinFailed, Register, Launch,
                LaunchFailed, LogSuccess, LogFailure, Raised, loopVars, workerVars
  <2> QED
    BY <2>1, <2>2 DEF IInv, BusyHasCall
<1>2. v = w
  BY <1>1, CallsAssumption DEF Alone
<1> QED
  BY <1>1, <1>2 DEF Alone

LEMMA LonersNext == IInv /\ IInv' /\ LonersInv /\ [Next]_vars => LonersInv'
<1> SUFFICES ASSUME IInv, IInv', LonersInv, [Next]_vars,
                    NEW w \in Workers, Alone(w)'
             PROVE  LoneInv(w)'
  BY DEF LonersInv
<1>1. CASE Restart
  BY <1>1, LoneRestart
<1>2. ASSUME NEW l \in Loops, LoopStep(l) PROVE LoneInv(w)'
  <2>1. Alone(w)
    BY <1>2 DEF LoopStep, Wake, Sent, workerVars, Alone
  <2> QED
    BY <1>2, <2>1, LoneLoopStep DEF LonersInv
<1>3. ASSUME NEW v \in Workers, WorkerStep(v) \/ \E c \in Calls : Call(v, c)
      PROVE  LoneInv(w)'
  <2>1. v = w /\ Alone(w)
    BY <1>3, LoneActor
  <2> QED
    BY <1>3, <2>1, LoneWorkerStep DEF LonersInv
<1>4. CASE UNCHANGED vars
  <2>1. Alone(w)
    BY <1>4 DEF vars, Alone
  <2> QED
    BY <1>4, <2>1 DEF vars, LonersInv, LoneInv, Running
<1> QED
  BY <1>1, <1>2, <1>3, <1>4 DEF Next

LEMMA Loners == Spec => [](IInv /\ LonersInv)
<1>1. Init => LonersInv
  BY DEF Init, LonersInv, LoneInv
<1> QED
  BY <1>1, LonersNext, SafeInit, SafeNext, PTL DEF Spec

(* The start docstring holds for a thread nobody overlaps with: no two     *)
(* loops of one name are ever both running without having been told to     *)
(* stop.                                                                   *)
THEOREM LoneCallerNeverFights == Spec => []LoneCallerLoopsNeverFight
<1>1. IInv /\ LonersInv => LoneCallerLoopsNeverFight
  <2> SUFFICES ASSUME IInv, NEW w \in Workers, Alone(w), LoneInv(w),
                      NEW k \in Loops, NEW l \in Loops,
                      Running(k), ~stopEvent[k], Running(l), ~stopEvent[l],
                      target[k] = target[l]
               PROVE  k = l
    BY DEF LonersInv, LoneCallerLoopsNeverFight
  <2>1. \A m \in {k, l} : Registered(m) \/ BeingStopped(m)
    BY DEF IInv, Accounted, LoneInv
  <2>2. \A m \in {k, l} : BeingStopped(m) => pc[w] = "signal" /\ handle[w] = m
    BY OthersIdle DEF BeingStopped
  <2>3. CASE pc[w] = "signal"
    <3>1. call[w].name \in Names /\ active[call[w].name] = NoLoop
      BY <2>3 DEF IInv, BusyHasCall, Calls, LoneInv
    <3>2. \A m \in {k, l} : Registered(m) => target[m] # call[w].name
      BY <3>1, LoopsAssumption DEF IInv, Registered, RegisteredNotStopped
    <3>3. \A m \in {k, l} : BeingStopped(m) => m = handle[w] /\ target[m] = call[w].name
      BY <2>2, <2>3 DEF LoneInv
    <3>4. \A m \in {k, l} : Registered(m) => active[target[m]] = m
      BY LoopsAssumption DEF IInv, Registered, RegisteredNotStopped
    <3> QED
      BY <2>1, <3>2, <3>3, <3>4
  <2>4. CASE pc[w] # "signal"
    <3>1. Registered(k) /\ Registered(l)
      BY <2>1, <2>2, <2>4
    <3> QED
      BY <3>1, LoopsAssumption DEF IInv, Registered, RegisteredNotStopped
  <2> QED
    BY <2>3, <2>4
<1> QED
  BY <1>1, Loners, PTL

(* What a thread alone reports of its ARP step is what the loops do.       *)
THEOREM LoneCallerTruth == Spec => []LoneCallerReportsTruth
<1>1. IInv /\ LonersInv => LoneCallerReportsTruth
  <2> SUFFICES ASSUME IInv, NEW w \in Workers, Alone(w), LoneInv(w),
                      pc[w] = "idle", outcome[w] = "ok"
               PROVE  OutcomeHolds(w)
    BY DEF LonersInv, LoneCallerReportsTruth, OutcomeHolds
  <2> DEFINE n == call[w].name
             unstopped == {l \in Loops : Running(l) /\ target[l] = n /\ ~stopEvent[l]}
  <2>1. call[w] \in Calls /\ n \in Names
    BY DEF LoneInv, Calls
  <2>2. \A l \in unstopped : ~BeingStopped(l)
    BY OthersIdle DEF BeingStopped
  <2>3. \A l \in unstopped : Registered(l)
    BY <2>2 DEF IInv, Accounted, LoneInv
  <2>4. \A l \in unstopped : active[n] = l
    BY <2>3, LoopsAssumption DEF IInv, Registered, RegisteredNotStopped
  <2>5. CASE call[w].op = "start"
    <3>1. active[n] # NoLoop /\ Running(active[n])
      BY <2>5 DEF LoneInv
    <3>2. active[n] \in unstopped
      BY <2>1, <3>1 DEF IInv, TypeOK, RegisteredNotStopped
    <3> QED
      BY <2>4, <2>5, <3>1, <3>2 DEF OutcomeHolds
  <2>6. CASE call[w].op # "start"
    <3>1. active[n] = NoLoop
      BY <2>6 DEF LoneInv
    <3>2. unstopped = {}
      BY <2>4, <3>1, LoopsAssumption
    <3> QED
      BY <2>6, <3>2 DEF OutcomeHolds
  <2> QED
    BY <2>5, <2>6
<1> QED
  BY <1>1, Loners, PTL

-----------------------------------------------------------------------------
(* Starts and stops are calls of run_with_retries.                         *)

\* Only a last attempt leads to the failure row.
GivesUpLast == \A w \in Workers : pc[w] = "giveup" => attempt[w] = MAX_ATTEMPTS

RetryInv == TypeInv /\ GivesUpLast

LEMMA RetryInit == Init => RetryInv
  BY TypeInit DEF Init, RetryInv, GivesUpLast

LEMMA RetryNext == RetryInv /\ [Next]_vars => RetryInv'
<1> SUFFICES ASSUME RetryInv, [Next]_vars PROVE GivesUpLast'
  BY TypeNext DEF RetryInv
<1> USE AttemptsAssumption
    DEF RetryInv, TypeInv, TypeOK, GivesUpLast, workerVars, loopVars
<1>1. ASSUME NEW w \in Workers, NEW c \in Calls, Call(w, c) PROVE GivesUpLast'
  BY <1>1 DEF Call
<1>2. ASSUME NEW w \in Workers, Pop(w) \/ Signal(w) \/ Joined(w) \/ Register(w) \/ Launch(w)
      PROVE  GivesUpLast'
  BY <1>2 DEF Pop, Signal, Joined, Register, Launch, AfterStop
<1>3. ASSUME NEW w \in Workers, JoinFailed(w) \/ LaunchFailed(w) \/ LogSuccess(w)
      PROVE  GivesUpLast'
  BY <1>3 DEF JoinFailed, LaunchFailed, LogSuccess, Raised
<1>4. ASSUME NEW w \in Workers, LogFailure(w) PROVE GivesUpLast'
  BY <1>4 DEF LogFailure
<1>5. ASSUME NEW l \in Loops, LoopStep(l) PROVE GivesUpLast'
  BY <1>5 DEF LoopStep, Wake, Sent
<1>6. ASSUME Restart PROVE GivesUpLast'
  BY <1>6 DEF Restart
<1>7. ASSUME UNCHANGED vars PROVE GivesUpLast'
  BY <1>7 DEF vars
<1> QED
  BY <1>1, <1>2, <1>3, <1>4, <1>5, <1>6, <1>7 DEF Next, WorkerStep

\* An attempt that raised is followed by the next one, or was the last.
LEMMA RaisedIsRetried ==
  ASSUME RetryInv, NEW w \in Workers, Raised(w), pc[w] \in {"join", "launch", "log"}
  PROVE  Retry(w)!Again \/ Retry(w)!Raise
<1> USE DEF RetryInv, TypeInv, TypeOK, Raised
<1>1. CASE attempt[w] < MAX_ATTEMPTS
  BY <1>1 DEF Phase, Retry!Again
<1>2. CASE ~(attempt[w] < MAX_ATTEMPTS)
  BY <1>2 DEF Phase, Retry!Raise, Retry!Attempting
<1> QED BY <1>1, <1>2

\* A step of a worker is a step of its own call of the wrapper.
LEMMA WorkerRetries ==
  ASSUME RetryInv, NEW w \in Workers, WorkerStep(w)
  PROVE  Retry(w)!Next
<1> USE DEF RetryInv, TypeInv, TypeOK, Phase, PCs
<1>1. CASE Pop(w)
  BY <1>1 DEF Pop, AfterStop, Retry!Next, Retry!Work, Retry!Return, Retry!Attempting
<1>2. CASE Signal(w)
  BY <1>2 DEF Signal, Retry!Next, Retry!Work, Retry!Attempting
<1>3. CASE Joined(w)
  BY <1>3 DEF Joined, AfterStop, Retry!Next, Retry!Work, Retry!Return, Retry!Attempting
<1>4. CASE Register(w)
  BY <1>4 DEF Register, Retry!Next, Retry!Work, Retry!Attempting
<1>5. CASE Launch(w)
  BY <1>5 DEF Launch, Retry!Next, Retry!Return, Retry!Attempting
<1>6. CASE JoinFailed(w) \/ LaunchFailed(w)
  BY <1>6, RaisedIsRetried DEF JoinFailed, LaunchFailed, Retry!Next
<1>7. CASE LogSuccess(w)
  <2>1. CASE Raised(w)
    BY <1>7, <2>1, RaisedIsRetried DEF LogSuccess, Retry!Next
  <2>2. CASE ~Raised(w)
    BY <1>7, <2>2 DEF LogSuccess, Retry!Next, Retry!Succeed
  <2> QED BY <2>1, <2>2
<1>8. CASE LogFailure(w)
  BY <1>8 DEF LogFailure, GivesUpLast, Retry!Next, Retry!GiveUp
<1> QED BY <1>1, <1>2, <1>3, <1>4, <1>5, <1>6, <1>7, <1>8 DEF WorkerStep

\* What does not move a worker is a stutter of its call.
LEMMA OthersStutter ==
  ASSUME NEW w \in Workers,
         pc'[w] = pc[w], attempt'[w] = attempt[w], outcome'[w] = outcome[w]
  PROVE  UNCHANGED Retry(w)!vars
BY DEF Phase, Retry!vars

\* However many requests start and stop loops of however many devices, each
\* call makes its attempts one after the other from the pop, at most
\* MAX_ATTEMPTS, and ends as its last attempt did (retry.py).
THEOREM StepsImplementRetry == Spec => CallsAreRetried
<1> DEFINE Retried == \A w \in Workers : [Retry(w)!Next]_(Retry(w)!vars)
<1>1. Init => \A w \in Workers : Retry(w)!Init
  BY DEF Init, Phase, Retry!Init
<1>2. RetryInv /\ [Next]_vars => [Retried]_vars
  <2> SUFFICES ASSUME RetryInv, Next, NEW w \in Workers
               PROVE  [Retry(w)!Next]_(Retry(w)!vars)
    OBVIOUS
  <2> USE DEF RetryInv, TypeInv, TypeOK, workerVars, loopVars
  <2>1. ASSUME NEW v \in Workers, NEW c \in Calls, Call(v, c)
        PROVE  [Retry(w)!Next]_(Retry(w)!vars)
    <3>1. CASE v = w
      BY <2>1, <3>1 DEF Call, Phase, Retry!Next, Retry!Call
    <3>2. CASE v # w
      BY <2>1, <3>2, OthersStutter DEF Call
    <3> QED BY <3>1, <3>2
  <2>2. ASSUME NEW v \in Workers, WorkerStep(v) PROVE [Retry(w)!Next]_(Retry(w)!vars)
    <3>1. CASE v = w
      BY <2>2, <3>1, WorkerRetries
    <3>2. CASE v # w
      BY <2>2, <3>2, OthersStutter
      DEF WorkerStep, Pop, Signal, Joined, JoinFailed, Register, Launch, LaunchFailed,
          LogSuccess, LogFailure, Raised
    <3> QED BY <3>1, <3>2
  <2>3. ASSUME NEW l \in Loops, LoopStep(l) PROVE [Retry(w)!Next]_(Retry(w)!vars)
    BY <2>3, OthersStutter DEF LoopStep, Wake, Sent
  <2>4. ASSUME Restart PROVE [Retry(w)!Next]_(Retry(w)!vars)
    BY <2>4 DEF Restart, Phase, Retry!Next, Retry!Vanish
  <2> QED BY <2>1, <2>2, <2>3, <2>4 DEF Next
<1> QED BY <1>1, <1>2, RetryInit, RetryNext, PTL DEF Spec, CallsAreRetried
=============================================================================
