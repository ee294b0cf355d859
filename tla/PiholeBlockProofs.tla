------------------------- MODULE PiholeBlockProofs -------------------------
(***************************************************************************)
(* Proofs about PiholeBlock, for any number of requests and addresses.     *)
(***************************************************************************)
EXTENDS PiholeBlock, TLAPS

\* What a request has passed tells its address and what is there already.
Progress(q) ==
    /\ pc[q] # "idle" => target[q].ip \in Ips
    /\ pc[q] \in {"findRegex", "addRegex", "assign", "blocked"} => group
    /\ pc[q] \in {"assign", "blocked"} => regex
    /\ pc[q] \in BlockCalls => target[q].block
    /\ pc[q] = "unassign" => ~target[q].block
    /\ pc[q] = "raised" => failures[q] < MAX_ATTEMPTS
    /\ pc[q] \in Calls => failures[q] < MAX_ATTEMPTS
    /\ pc[q] = "idle" => failures[q] = 0

TypeInv == TypeOK /\ \A q \in Requests : Progress(q)

\* The types and the progress hold at the start.
LEMMA TypeInit == Init => TypeInv
<1> SUFFICES ASSUME Init PROVE TypeInv
    OBVIOUS
<1>1. 0 \in 0..MAX_ATTEMPTS /\ 0 \in 0..MaxTrouble
    BY PiholeAssumption
<1>2. [ip |-> Nothing, block |-> FALSE] \in [ip : Ips \cup {Nothing}, block : BOOLEAN]
    OBVIOUS
<1>3. TypeOK
    BY <1>1, <1>2 DEF Init, TypeOK, PCs
<1>4. \A q \in Requests : Progress(q)
    BY DEF Init, Progress, Calls, BlockCalls
<1> QED BY <1>3, <1>4 DEF TypeInv

\* Every step keeps the types and the progress.
LEMMA TypeNext == TypeInv /\ [Next]_vars => TypeInv'
<1> SUFFICES ASSUME TypeInv, [Next]_vars PROVE TypeInv'
    OBVIOUS
<1> USE PiholeAssumption
    DEF TypeInv, TypeOK, Progress, PCs, Calls, BlockCalls, piholeVars, First
<1>1. CASE PiholeRestart
    BY <1>1 DEF PiholeRestart
<1>2. ASSUME NEW q \in Requests, RequestStep(q) PROVE TypeInv'
    <2>1. ASSUME NEW ip \in Ips, NEW block \in BOOLEAN, Begin(q, ip, block) PROVE TypeInv'
        <3>1. [ip |-> ip, block |-> block] \in [ip : Ips \cup {Nothing}, block : BOOLEAN]
            OBVIOUS
        <3> QED BY <2>1, <3>1 DEF Begin
    <2>2. CASE Login(q)
        BY <2>2 DEF Login
    <2>3. CASE FindGroup(q)
        BY <2>3 DEF FindGroup, Served, Unchanged
    <2>4. CASE AddGroup(q)
        BY <2>4 DEF AddGroup, Served, Unchanged, Raise
    <2>5. CASE FindRegex(q)
        BY <2>5 DEF FindRegex, Served, Unchanged
    <2>6. CASE AddRegex(q)
        BY <2>6 DEF AddRegex, Served, Unchanged, Raise
    <2>7. CASE Assign(q)
        BY <2>7 DEF Assign, Served, Unchanged, Overtakes
    <2>8. CASE Unassign(q)
        BY <2>8 DEF Unassign, Served, Unchanged, Overtakes
    <2>9. CASE Refused(q)
        BY <2>9 DEF Refused, Unchanged, Raise
    <2>10. CASE Lost(q)
        BY <2>10 DEF Lost, Raise
    <2>11. CASE AnswerLost(q)
        <3>1. pc' = [pc EXCEPT ![q] = "raised"] /\ q \in Requests /\ pc[q] \in Calls
            BY <2>11 DEF AnswerLost, Raise
        <3>2. UNCHANGED <<sessions, sid, target, failures>>
            BY <2>11 DEF AnswerLost
        <3>3. (group' = group \/ group' = TRUE) /\ (regex' = regex \/ regex' = TRUE)
            BY <2>11 DEF AnswerLost
        <3>4. overridden' \subseteq Ips /\ overtaken' \subseteq Requests
            BY <2>11 DEF AnswerLost, Overtakes
        <3>5. trouble' \in 0..MaxTrouble /\ upset' \subseteq Requests
            BY <2>11 DEF AnswerLost
        <3>6. group' \in BOOLEAN /\ regex' \in BOOLEAN
            BY <3>3
        <3>7. (group => group') /\ (regex => regex')
            BY <3>3
        <3>8. pc' \in [Requests -> PCs]
            BY <3>1
        <3>9. TypeOK'
            BY <3>2, <3>4, <3>5, <3>6, <3>8
        <3>10. ASSUME NEW o \in Requests PROVE Progress(o)'
            <4>1. CASE o = q
                BY <3>1, <3>2, <4>1
            <4>2. CASE o # q
                BY <3>1, <3>2, <3>7, <4>2
            <4> QED BY <4>1, <4>2
        <3> QED BY <3>9, <3>10
    <2>12. CASE Retry(q)
        <3>1. failures[q] + 1 \in 0..MAX_ATTEMPTS
            BY <2>12 DEF Retry
        <3>2. TypeOK'
            BY <2>12, <3>1 DEF Retry
        <3>3. Progress(q)'
            BY <2>12, <3>1 DEF Retry
        <3>4. \A o \in Requests \ {q} : Progress(o)'
            BY <2>12 DEF Retry
        <3> QED BY <3>2, <3>3, <3>4
    <2> QED BY <1>2, <2>1, <2>2, <2>3, <2>4, <2>5, <2>6, <2>7, <2>8, <2>9, <2>10, <2>11, <2>12
            DEF RequestStep
<1>3. CASE UNCHANGED vars
    BY <1>3 DEF vars
<1> QED BY <1>1, <1>2, <1>3 DEF Next

\* Every state has the types declared and the progress.
LEMMA TypeInvariant == Spec => []TypeInv
BY TypeInit, TypeNext, PTL DEF Spec

\* The variables keep their types: among others, no request makes more
\* attempts than there are.
THEOREM TypeCorrect == Spec => []TypeOK
<1>1. TypeInv => TypeOK
    BY DEF TypeInv
<1> QED BY TypeInvariant, <1>1, PTL

-----------------------------------------------------------------------------
(* Three attempts are enough.                                              *)

\* Attempts of a request that are over
Losses(q) == failures[q] + (IF pc[q] = "raised" THEN 1 ELSE 0)

\* An undisturbed request keeps its session, and has lost one race for the
\* group and one for the regex at most: after the first the group is there,
\* after the second the regex is there too.
Undisturbed(q) ==
    /\ q \in sid => q \in sessions
    /\ Losses(q) <= 2
    /\ Losses(q) >= 1 => group /\ target[q].block
    /\ Losses(q) >= 2 => regex
    /\ pc[q] = "addGroup" => Losses(q) = 0
    /\ pc[q] = "addRegex" => Losses(q) <= 1
    /\ pc[q] # "failed"

LossInv == TypeInv /\ \A q \in Requests \ upset : Undisturbed(q)

\* Every step keeps the count of lost races.
LEMMA LossNext == LossInv /\ [Next]_vars => LossInv'
<1> SUFFICES ASSUME LossInv, [Next]_vars,
                    NEW r \in Requests, r \notin upset'
             PROVE  Undisturbed(r)'
    BY TypeNext DEF LossInv
<1>0. TypeInv /\ TypeInv'
    BY TypeNext DEF LossInv
<1> USE PiholeAssumption
    DEF TypeInv, TypeOK, Progress, PCs, Calls, BlockCalls, piholeVars, First,
        Undisturbed, Losses
<1>1. CASE PiholeRestart
    <2>1. r \notin upset /\ r \notin sessions
        BY <1>1 DEF PiholeRestart
    <2>2. Undisturbed(r)
        BY <2>1 DEF LossInv
    <2> QED BY <1>1, <2>1, <2>2 DEF PiholeRestart
<1>2. ASSUME NEW q \in Requests, RequestStep(q) PROVE Undisturbed(r)'
    <2>1. r \notin upset
        BY <1>2 DEF RequestStep, Begin, Login, FindGroup, AddGroup, FindRegex, AddRegex,
                    Assign, Unassign, Refused, Lost, AnswerLost, Retry, Unchanged
    <2>2. Undisturbed(r) /\ Progress(r)
        BY <1>0, <2>1 DEF LossInv
    <2>3. ASSUME NEW ip \in Ips, NEW block \in BOOLEAN, Begin(q, ip, block)
          PROVE  Undisturbed(r)'
        BY <1>0, <2>2, <2>3 DEF Begin
    <2>4. CASE Login(q)
        BY <1>0, <2>2, <2>4 DEF Login
    <2>5. CASE FindGroup(q)
        BY <1>0, <2>2, <2>5 DEF FindGroup, Served, Unchanged
    <2>6. CASE AddGroup(q)
        BY <1>0, <2>2, <2>6 DEF AddGroup, Served, Unchanged, Raise
    <2>7. CASE FindRegex(q)
        BY <1>0, <2>2, <2>7 DEF FindRegex, Served, Unchanged
    <2>8. CASE AddRegex(q)
        BY <1>0, <2>2, <2>8 DEF AddRegex, Served, Unchanged, Raise
    <2>9. CASE Assign(q)
        BY <1>0, <2>2, <2>9 DEF Assign, Served, Unchanged
    <2>10. CASE Unassign(q)
        BY <1>0, <2>2, <2>10 DEF Unassign, Served, Unchanged
    <2>11. CASE Refused(q)
        BY <1>0, <2>2, <2>11 DEF Refused, Unchanged, Raise
    <2>12. CASE Lost(q)
        BY <1>0, <2>2, <2>12 DEF Lost, Raise
    <2>13. CASE AnswerLost(q)
        BY <1>0, <2>2, <2>13 DEF AnswerLost, Raise
    <2>14. CASE Retry(q)
        BY <1>0, <2>2, <2>14 DEF Retry
    <2> QED BY <1>2, <2>3, <2>4, <2>5, <2>6, <2>7, <2>8, <2>9, <2>10, <2>11, <2>12,
               <2>13, <2>14 DEF RequestStep
<1>3. CASE UNCHANGED vars
    BY <1>0, <1>3 DEF vars, LossInv
<1> QED BY <1>1, <1>2, <1>3 DEF Next

\* With three attempts or more, no number of requests that create the group
\* and the regex at the same time makes one of them fail (pihole_block.py,
\* retry.py).
THEOREM RacesAreAbsorbed == Spec => []FailuresNeedTrouble
<1>1. Init => LossInv
    BY TypeInit, PiholeAssumption DEF Init, LossInv, Undisturbed, Losses
<1>2. LossInv => FailuresNeedTrouble
    BY DEF LossInv, Undisturbed, FailuresNeedTrouble
<1> QED BY <1>1, <1>2, LossNext, PTL DEF Spec

-----------------------------------------------------------------------------
(* A success reported is an effect that is there.                          *)

\* Every step keeps the effects reported.
LEMMA SuccessNext == TypeInv /\ SuccessHolds /\ [Next]_vars => SuccessHolds'
<1> SUFFICES ASSUME TypeInv, SuccessHolds, [Next]_vars,
                    NEW r \in Requests, r \notin overtaken'
             PROVE  /\ pc'[r] = "blocked" => group' /\ regex' /\ target'[r].ip \in overridden'
                    /\ pc'[r] = "unblocked" => target'[r].ip \notin overridden'
    BY DEF SuccessHolds
<1> USE PiholeAssumption
    DEF TypeInv, TypeOK, Progress, PCs, Calls, BlockCalls, piholeVars, First, SuccessHolds
<1>1. CASE PiholeRestart
    BY <1>1 DEF PiholeRestart
<1>2. ASSUME NEW q \in Requests, RequestStep(q), ~Assign(q), ~Unassign(q), ~AnswerLost(q)
      PROVE  /\ pc'[r] = "blocked" => group' /\ regex' /\ target'[r].ip \in overridden'
             /\ pc'[r] = "unblocked" => target'[r].ip \notin overridden'
    BY <1>2 DEF RequestStep, Begin, Login, FindGroup, AddGroup, FindRegex, AddRegex,
                Refused, Lost, Retry, Unchanged, Served, Raise
<1>3. ASSUME NEW q \in Requests, Assign(q) \/ Unassign(q) \/ AnswerLost(q)
      PROVE  /\ pc'[r] = "blocked" => group' /\ regex' /\ target'[r].ip \in overridden'
             /\ pc'[r] = "unblocked" => target'[r].ip \notin overridden'
    BY <1>3 DEF Assign, Unassign, AnswerLost, Unchanged, Served, Raise, Overtakes
<1>4. CASE UNCHANGED vars
    BY <1>4 DEF vars
<1> QED BY <1>1, <1>2, <1>3, <1>4 DEF Next

\* The block a step reported is in force in full, and the unblock it reported
\* leaves no entry, until another request writes the address.
THEOREM ReportedEffectsHold == Spec => []SuccessHolds
<1>1. Init => SuccessHolds
    BY DEF Init, SuccessHolds
<1> QED BY <1>1, SuccessNext, TypeInvariant, PTL DEF Spec

-----------------------------------------------------------------------------
(* The steps implement the block list.                                     *)

\* A client entry is put into a group that has its regex already; nothing
\* removes either, so an entry is a block and the two are not visible.
EntryInv == TypeInv /\ (overridden # {} => group /\ regex)

\* The statuses the callers have been told
Statuses == [q \in Requests |-> Status(q)]

\* Every step keeps the group and the regex behind the entries.
LEMMA EntryNext == EntryInv /\ [Next]_vars => EntryInv'
<1> SUFFICES ASSUME EntryInv, [Next]_vars PROVE overridden' # {} => group' /\ regex'
    BY TypeNext DEF EntryInv
<1> USE DEF EntryInv, TypeInv, TypeOK, Progress, Calls, BlockCalls, piholeVars
<1>1. CASE PiholeRestart
    BY <1>1 DEF PiholeRestart
<1>2. ASSUME NEW q \in Requests, RequestStep(q) PROVE overridden' # {} => group' /\ regex'
    BY <1>2 DEF RequestStep, Begin, Login, FindGroup, AddGroup, FindRegex, AddRegex,
                Assign, Unassign, Refused, Lost, AnswerLost, Retry, Served, Unchanged
<1>3. CASE UNCHANGED vars
    BY <1>3 DEF vars
<1> QED BY <1>1, <1>2, <1>3 DEF Next

\* A step that leaves the entries and the addresses asked for alone, and no
\* caller told anything new, is a stutter of the block list.
LEMMA NothingTold ==
    ASSUME Blocked' = Blocked, target' = target,
           \A q \in Requests : Status(q)' = Status(q)
    PROVE  UNCHANGED Told!vars
BY DEF Told!vars

\* A step of one request that moves it to another status moves no other.
LEMMA StatusesMove ==
    ASSUME NEW q \in Requests, NEW s, Status(q)' = s,
           \A o \in Requests \ {q} : Status(o)' = Status(o)
    PROVE  Statuses' = [Statuses EXCEPT ![q] = s]
BY DEF Statuses

\* Every step of a request is one of the block list, or not visible there.
LEMMA StepIsTold ==
    ASSUME EntryInv, EntryInv', NEW q \in Requests, RequestStep(q)
    PROVE  [Told!Next]_(Told!vars)
<1> DEFINE Step == [Told!Next]_(Told!vars)
<1>1. Blocked = overridden /\ Blocked' = overridden'
    BY DEF EntryInv, Blocked
<1>2. EntryInv /\ Progress(q)
    BY DEF EntryInv, TypeInv
<1>3. pc \in [Requests -> PCs] /\ target \in [Requests -> [ip : Ips \cup {Nothing}, block : BOOLEAN]]
    BY DEF EntryInv, TypeInv, TypeOK
<1>4. \A o \in Requests \ {q} : Status(o)' = Status(o)
    BY <1>3 DEF RequestStep, Begin, Login, FindGroup, AddGroup, FindRegex, AddRegex, Assign,
                Unassign, Refused, Lost, AnswerLost, Retry, Served, Unchanged, Raise, Status
<1>5. ASSUME NEW ip \in Ips, NEW block \in BOOLEAN, Begin(q, ip, block) PROVE Step
    <2>1. Status(q) = "none" /\ Status(q)' = "waiting"
        BY <1>3, <1>5 DEF Begin, Status, First
    <2>2. Statuses' = [Statuses EXCEPT ![q] = "waiting"] /\ Statuses[q] = "none"
        BY <1>4, <2>1, StatusesMove DEF Statuses
    <2>3. Told!Ask(q, ip, block)
        BY <1>1, <1>5, <2>2 DEF Told!Ask, Begin, piholeVars, Statuses
    <2> QED BY <2>3 DEF Told!Next
<1>6. ASSUME Assign(q) \/ Unassign(q) PROVE Step
    <2>1. Status(q) = "waiting" /\ Status(q)' = "done"
        BY <1>3, <1>6 DEF Assign, Unassign, Served, Status
    <2>2. Statuses' = [Statuses EXCEPT ![q] = "done"] /\ Statuses[q] = "waiting"
        BY <1>4, <2>1, StatusesMove DEF Statuses
    <2>3. overridden' = IF target[q].block THEN overridden \cup {target[q].ip}
                                           ELSE overridden \ {target[q].ip}
        BY <1>2, <1>6 DEF Assign, Unassign, Served, Progress, BlockCalls
    <2>4. target' = target
        BY <1>6 DEF Assign, Unassign, Unchanged
    <2>5. Told!Perform(q)
        BY <1>1, <2>2, <2>3, <2>4 DEF Told!Perform, Statuses
    <2> QED BY <2>5 DEF Told!Next
<1>7. ASSUME AnswerLost(q) PROVE Step
    <2>1. Status(q) = "waiting" /\ Status(q)' = "waiting" /\ target' = target
        BY <1>3, <1>7 DEF AnswerLost, Raise, Status
    <2>2. Statuses' = Statuses /\ Statuses[q] = "waiting"
        BY <1>4, <2>1 DEF Statuses
    <2>3. CASE pc[q] \in {"assign", "unassign"}
        <3>1. overridden' = IF target[q].block THEN overridden \cup {target[q].ip}
                                               ELSE overridden \ {target[q].ip}
            BY <1>2, <1>7, <2>3 DEF AnswerLost, Progress, BlockCalls
        <3>2. Told!Perform(q)
            BY <1>1, <2>1, <2>2, <3>1 DEF Told!Perform, Statuses
        <3> QED BY <3>2 DEF Told!Next
    <2>4. CASE pc[q] \notin {"assign", "unassign"}
        <3>1. overridden' = overridden
            BY <1>7, <2>4 DEF AnswerLost
        <3> QED BY <1>1, <1>4, <2>1, <3>1, NothingTold
    <2> QED BY <2>3, <2>4
<1>8. ASSUME Retry(q) PROVE Step
    <2>1. overridden' = overridden /\ target' = target /\ Status(q) = "waiting"
        BY <1>8 DEF Retry, piholeVars, Status
    <2>2. CASE pc'[q] = "failed"
        <3>1. Status(q)' = "failed"
            BY <2>2 DEF Status
        <3>2. Statuses' = [Statuses EXCEPT ![q] = "failed"] /\ Statuses[q] = "waiting"
            BY <1>4, <2>1, <3>1, StatusesMove DEF Statuses
        <3>3. Told!Fail(q)
            BY <1>1, <2>1, <3>2 DEF Told!Fail, Statuses
        <3> QED BY <3>3 DEF Told!Next
    <2>3. CASE pc'[q] # "failed"
        <3>1. Status(q)' = "waiting"
            BY <1>3, <1>8, <2>3 DEF Retry, Status, First
        <3> QED BY <1>1, <1>4, <2>1, <3>1, NothingTold
    <2> QED BY <2>2, <2>3
<1>9. ASSUME Login(q) \/ FindGroup(q) \/ AddGroup(q) \/ FindRegex(q) \/ AddRegex(q)
             \/ Refused(q) \/ Lost(q)
      PROVE  Step
    <2>1. overridden' = overridden /\ target' = target
        BY <1>9 DEF Login, FindGroup, AddGroup, FindRegex, AddRegex, Refused, Lost, Unchanged,
                    piholeVars
    <2>2. Status(q)' = Status(q)
        BY <1>3, <1>9 DEF Login, FindGroup, AddGroup, FindRegex, AddRegex, Refused, Lost, Served,
                          Raise, Status, Calls, BlockCalls
    <2> QED BY <1>1, <1>4, <2>1, <2>2, NothingTold
<1> QED BY <1>5, <1>6, <1>7, <1>8, <1>9 DEF RequestStep

\* To everyone else each block or unblock is one write of one address, made
\* while the request ran, however its calls interleave with those of others,
\* are refused, lost or repeated.
THEOREM StepsImplementBlockList == Spec => StepsActAtomically
<1>1. Init => EntryInv
    BY TypeInit DEF Init, EntryInv
<1>2. Init => Told!Init
    BY DEF Init, Told!Init, Blocked, Status
<1>3. EntryInv /\ EntryInv' /\ [Next]_vars => [Told!Next]_(Told!vars)
    <2> SUFFICES ASSUME EntryInv, EntryInv', [Next]_vars PROVE [Told!Next]_(Told!vars)
        OBVIOUS
    <2>1. Blocked = overridden /\ Blocked' = overridden'
        BY DEF EntryInv, Blocked
    <2>2. CASE PiholeRestart
        BY <2>1, <2>2, NothingTold DEF PiholeRestart, Status
    <2>3. CASE \E q \in Requests : RequestStep(q)
        BY <2>3, StepIsTold
    <2>4. CASE UNCHANGED vars
        BY <2>1, <2>4, NothingTold DEF vars, Status
    <2> QED BY <2>2, <2>3, <2>4 DEF Next
<1> QED BY <1>1, <1>2, <1>3, EntryNext, PTL DEF Spec, StepsActAtomically, Told!Spec
=============================================================================
