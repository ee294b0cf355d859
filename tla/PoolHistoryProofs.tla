-------------------------- MODULE PoolHistoryProofs --------------------------
(***************************************************************************)
(* Proofs about PoolHistory, for any number of sampler threads, any window *)
(* and tolerance, and any bounds.                                          *)
(***************************************************************************)
EXTENDS PoolHistory, FiniteSetTheorems, WellFoundedInduction, TLAPS

-----------------------------------------------------------------------------
(* Least and greatest elements, and the rows a SELECT or a DELETE leaves *)

LEMMA MinFacts ==
    ASSUME NEW S, S \subseteq Nat, S # {}
    PROVE  Min(S) \in S /\ \A y \in S : Min(S) <= y
<1>1. PICK x \in S : \A y \in S : <<y, x>> \notin OpToRel(<, Nat)
    BY NatLessThanWellFounded, WFMin
<1>2. \A y \in S : ~(y < x)
    BY <1>1, Zenon DEF OpToRel
<1>3. \A y \in S : x <= y
    BY <1>2
<1> QED BY <1>3 DEF Min

LEMMA MaxFacts ==
    ASSUME NEW n \in Nat, NEW S, S \subseteq 1..n, S # {}
    PROVE  Max(S) \in S /\ \A y \in S : y <= Max(S)
<1> DEFINE bounds == {m \in Nat : \A y \in S : y <= m}
           m == Min(bounds)
<1>1. bounds \subseteq Nat /\ n \in bounds
    OBVIOUS
<1>2. m \in bounds /\ \A b \in bounds : m <= b
    BY <1>1, MinFacts
<1>3. m \in Nat /\ \A y \in S : y <= m
    BY <1>2
<1>4. m \in S
    <2> SUFFICES ASSUME m \notin S PROVE FALSE
        OBVIOUS
    <2> HIDE DEF m
    <2>1. \A y \in S : y \in Nat /\ y >= 1 /\ y < m
        BY <1>3
    <2>2. m - 1 \in Nat
        <3>1. PICK y \in S : TRUE
            OBVIOUS
        <3> QED BY <1>3, <2>1, <3>1
    <2>3. \A y \in S : y <= m - 1
        BY <1>3, <2>1
    <2> QED BY <1>2, <1>3, <2>2, <2>3
<1> HIDE DEF m
<1> QED BY <1>3, <1>4 DEF Max

\* What is left of the rows are the last of them, in their order.
LEMMA WithinFacts ==
    ASSUME NEW rows \in Seq(Samples), NEW limit \in Nat
    PROVE  /\ Within(rows, limit) \in Seq(Samples)
           /\ \E d \in 0..Len(rows) :
                 /\ Len(Within(rows, limit)) = Len(rows) - d
                 /\ \A k \in DOMAIN Within(rows, limit) :
                       k + d \in DOMAIN rows /\ Within(rows, limit)[k] = rows[k + d]
                 /\ \A k \in 1..d : rows[k].age > limit
                 /\ d < Len(rows) => rows[d + 1].age <= limit
<1> DEFINE young == {k \in DOMAIN rows : rows[k].age <= limit}
           first == Min(young \cup {Len(rows) + 1})
<1>1. DOMAIN rows = 1..Len(rows) /\ Len(rows) \in Nat
    OBVIOUS
<1>2. first \in young \cup {Len(rows) + 1} /\ \A k \in young : first <= k
    <2>1. young \cup {Len(rows) + 1} \subseteq Nat
        BY <1>1
    <2> HIDE DEF young
    <2> QED BY <2>1, MinFacts
<1>3. Within(rows, limit) = SubSeq(rows, first, Len(rows))
    BY DEF Within
<1>4. first \in 1..(Len(rows) + 1)
    BY <1>1, <1>2
<1> HIDE DEF first
<1>5. /\ Within(rows, limit) \in Seq(Samples)
      /\ Len(Within(rows, limit)) = Len(rows) - (first - 1)
      /\ \A k \in 1..(Len(rows) - (first - 1)) : Within(rows, limit)[k] = rows[k + (first - 1)]
    BY <1>1, <1>3, <1>4
<1>6. \A k \in 1..(first - 1) : rows[k].age > limit
    <2> SUFFICES ASSUME NEW k \in 1..(first - 1), ~(rows[k].age > limit) PROVE FALSE
        OBVIOUS
    <2>1. k \in DOMAIN rows /\ rows[k] \in Samples
        BY <1>1, <1>4
    <2>2. rows[k].age <= limit
        BY <2>1 DEF Samples, Ancient
    <2> QED BY <1>2, <1>4, <2>1, <2>2
<1>7. first - 1 < Len(rows) => rows[(first - 1) + 1].age <= limit
    BY <1>1, <1>2, <1>4
<1>8. first - 1 \in 0..Len(rows)
    BY <1>1, <1>4
<1> HIDE DEF young
<1>9. \A k \in DOMAIN Within(rows, limit) :
          k + (first - 1) \in DOMAIN rows /\ Within(rows, limit)[k] = rows[k + (first - 1)]
    <2>1. DOMAIN Within(rows, limit) = 1..(Len(rows) - (first - 1))
        BY <1>5
    <2> QED BY <1>1, <1>4, <1>5, <2>1
<1> QED BY <1>5, <1>6, <1>7, <1>8, <1>9

\* Every row that is left was there.
LEMMA WithinKeeps ==
    ASSUME NEW rows \in Seq(Samples), NEW limit \in Nat,
           NEW k \in DOMAIN Within(rows, limit)
    PROVE  \E j \in DOMAIN rows : Within(rows, limit)[k] = rows[j]
BY WithinFacts

\* The dashboard is given rows of the table, all of them readings.
LEMMA ShownKeeps ==
    ASSUME samples \in Seq(Samples)
    PROVE  /\ Shown \in Seq(Samples)
           /\ \A k \in DOMAIN Shown : \E j \in DOMAIN samples : Shown[k] = samples[j]
<1> DEFINE young == Within(samples, HISTORY)
           last == IF Len(young) <= LIMIT THEN Len(young) ELSE LIMIT
<1>1. /\ young \in Seq(Samples)
      /\ \A k \in DOMAIN young : \E j \in DOMAIN samples : young[k] = samples[j]
    BY WithinFacts, WithinKeeps, PoolAssumption
<1>2. Shown = SubSeq(young, 1, last)
    BY DEF Shown
<1> HIDE DEF young
<1>3. last \in 0..Len(young)
    BY <1>1, PoolAssumption
<1> HIDE DEF last
<1>4. /\ Shown \in Seq(Samples)
      /\ \A k \in DOMAIN Shown : k \in DOMAIN young /\ Shown[k] = young[k]
    BY <1>1, <1>2, <1>3
<1> QED BY <1>1, <1>4

\* The rows of a table, oldest first.
OldestFirst(rows) == \A j, k \in DOMAIN rows : j <= k => rows[k].age <= rows[j].age

\* In a table in the order of time exactly the rows older than the limit go.
LEMMA WithinIsExact ==
    ASSUME NEW rows \in Seq(Samples), NEW limit \in Nat, OldestFirst(rows)
    PROVE  /\ OldestFirst(Within(rows, limit))
           /\ \A k \in DOMAIN Within(rows, limit) : Within(rows, limit)[k].age <= limit
           /\ \A j \in DOMAIN rows : rows[j].age <= limit =>
                 \E k \in DOMAIN Within(rows, limit) : Within(rows, limit)[k] = rows[j]
<1> DEFINE left == Within(rows, limit)
<1>1. left \in Seq(Samples)
    BY WithinFacts
<1>2. PICK d \in 0..Len(rows) :
          /\ Len(left) = Len(rows) - d
          /\ \A k \in DOMAIN left : k + d \in DOMAIN rows /\ left[k] = rows[k + d]
          /\ \A k \in 1..d : rows[k].age > limit
          /\ d < Len(rows) => rows[d + 1].age <= limit
    BY WithinFacts
<1> HIDE DEF left
<1>3. /\ DOMAIN left = 1..(Len(rows) - d) /\ DOMAIN rows = 1..Len(rows)
      /\ Len(rows) \in Nat /\ d \in Nat
    BY <1>1, <1>2
<1>4. \A k \in DOMAIN rows : rows[k].age \in Nat
    <2>1. \A k \in DOMAIN rows : rows[k] \in Samples
        OBVIOUS
    <2> QED BY <2>1, PoolAssumption DEF Samples, Ancient
<1>5. OldestFirst(left)
    BY <1>2, <1>3 DEF OldestFirst
<1>6. ASSUME NEW k \in DOMAIN left PROVE left[k].age <= limit
    <2>1. d < Len(rows) /\ d + 1 \in DOMAIN rows /\ k + d \in DOMAIN rows /\ d + 1 <= k + d
        BY <1>3, <1>6
    <2>2. rows[k + d].age <= rows[d + 1].age
        BY <2>1 DEF OldestFirst
    <2>3. rows[d + 1].age <= limit /\ left[k] = rows[k + d]
        BY <1>2, <1>6, <2>1
    <2>4. rows[k + d].age \in Nat /\ rows[d + 1].age \in Nat
        BY <1>4, <2>1
    <2> QED BY <2>2, <2>3, <2>4
<1>7. ASSUME NEW j \in DOMAIN rows, rows[j].age <= limit
      PROVE  \E k \in DOMAIN left : left[k] = rows[j]
    <2>1. ~(j \in 1..d)
        BY <1>2, <1>4, <1>7
    <2>2. j - d \in DOMAIN left /\ (j - d) + d = j
        BY <1>3, <2>1
    <2> QED BY <1>2, <2>2
<1> QED BY <1>5, <1>6, <1>7 DEF left

-----------------------------------------------------------------------------
(* Types *)

Inserting == {l \in Loops : phase[l] = "insert"}

TypeInv ==
    /\ TypeOK
    /\ Len(samples) + Cardinality(Inserting) <= MaxSamples + Cardinality(Loops)

\* A loop begins to insert, or ends to.
LEMMA InsertingFacts ==
    ASSUME phase \in [Loops -> Phases], NEW l \in Loops, NEW place \in Phases, Goto(l, place)
    PROVE  /\ phase' \in [Loops -> Phases]
           /\ Cardinality(Inserting) \in Nat /\ Cardinality(Inserting') \in Nat
           /\ Cardinality(Inserting') <= Cardinality(Loops) /\ Cardinality(Loops) \in Nat
           /\ place # "insert" => Cardinality(Inserting') <= Cardinality(Inserting)
           /\ place # "insert" /\ phase[l] = "insert" =>
                 Cardinality(Inserting') = Cardinality(Inserting) - 1
<1>1. phase' = [phase EXCEPT ![l] = place]
    BY DEF Goto
<1>2. IsFiniteSet(Loops) /\ Cardinality(Loops) \in Nat
    BY PoolAssumption, FS_CardinalityType
<1>3. Inserting \subseteq Loops /\ Inserting' \subseteq Loops
    BY DEF Inserting
<1>4. /\ IsFiniteSet(Inserting) /\ IsFiniteSet(Inserting')
      /\ Cardinality(Inserting') <= Cardinality(Loops)
    BY <1>2, <1>3, FS_Subset
<1>5. Cardinality(Inserting) \in Nat /\ Cardinality(Inserting') \in Nat
    BY <1>4, FS_CardinalityType
<1>6. ASSUME place # "insert"
      PROVE  /\ Cardinality(Inserting') <= Cardinality(Inserting)
             /\ phase[l] = "insert" => Cardinality(Inserting') = Cardinality(Inserting) - 1
    <2>1. Inserting' = Inserting \ {l}
        BY <1>1, <1>6 DEF Inserting
    <2>2. Cardinality(Inserting \ {l})
              = IF l \in Inserting THEN Cardinality(Inserting) - 1 ELSE Cardinality(Inserting)
        BY <1>4, FS_RemoveElement
    <2>3. l \in Inserting <=> phase[l] = "insert"
        BY DEF Inserting
    <2> QED BY <1>5, <2>1, <2>2, <2>3
<1> QED BY <1>1, <1>2, <1>4, <1>5, <1>6

LEMMA ConstantFacts ==
    /\ WINDOW \in Nat /\ TOLERANCE \in Nat /\ HISTORY \in Nat /\ RETENTION \in Nat
    /\ MaxCount \in Nat /\ MaxSamples \in Nat
    /\ Ancient \in Nat /\ HISTORY < Ancient /\ RETENTION < Ancient
    /\ WINDOW + TOLERANCE < Ancient
BY PoolAssumption DEF Ancient

LEMMA TypeInit == Init => TypeInv
<1> SUFFICES ASSUME Init PROVE TypeInv
    OBVIOUS
<1>1. Inserting = {}
    BY DEF Init, Inserting
<1>2. Cardinality(Inserting) = 0
    BY <1>1, FS_EmptySet
<1>3. Cardinality(Loops) \in Nat
    BY PoolAssumption, FS_CardinalityType
<1>4. samples \in Seq(Samples) /\ Len(samples) = 0
    BY DEF Init
<1>5. TypeOK
    BY <1>3, <1>4, ConstantFacts DEF Init, TypeOK, Recent, Phases
<1> QED BY <1>2, <1>3, <1>4, <1>5, ConstantFacts DEF TypeInv

\* Time passes for every row.
LEMMA AgedFacts ==
    ASSUME NEW s \in Samples
    PROVE  /\ Aged(s) \in Samples /\ Aged(s).cumulative = s.cumulative
           /\ Aged(s).age = IF s.age = Ancient THEN Ancient ELSE s.age + 1
<1>1. s.age \in 0..Ancient /\ s = [age |-> s.age, cumulative |-> s.cumulative]
    BY DEF Samples
<1>2. Aged(s) = [age |-> IF s.age = Ancient THEN Ancient ELSE s.age + 1,
                 cumulative |-> s.cumulative]
    BY <1>1 DEF Aged, Samples
<1>3. (IF s.age = Ancient THEN Ancient ELSE s.age + 1) \in 0..Ancient
    BY <1>1, ConstantFacts
<1> QED BY <1>1, <1>2, <1>3 DEF Samples

LEMMA TypeNext == TypeInv /\ [Next]_vars => TypeInv'
<1> SUFFICES ASSUME TypeInv, [Next]_vars PROVE TypeInv'
    OBVIOUS
<1>1. /\ phase \in [Loops -> Phases] /\ samples \in Seq(Samples) /\ Len(samples) \in Nat
      /\ Cardinality(Loops) \in Nat
      /\ Len(samples) + Cardinality(Inserting) <= MaxSamples + Cardinality(Loops)
    BY PoolAssumption, FS_CardinalityType DEF TypeInv, TypeOK
<1>2. IsFiniteSet(Inserting) /\ Cardinality(Inserting) \in Nat
    <2>1. Inserting \in SUBSET Loops
        BY DEF Inserting
    <2> QED BY <2>1, PoolAssumption, FS_Subset, FS_CardinalityType
<1>3. ASSUME UNCHANGED phase PROVE UNCHANGED Inserting
    BY <1>3 DEF Inserting
<1>4. ASSUME UNCHANGED loopVars, samples' \in Seq(Samples), Len(samples') = Len(samples),
             counter' \in 0..MaxCount, issued' \in [Recent -> Nat]
      PROVE  TypeInv'
    BY <1>1, <1>2, <1>3, <1>4 DEF TypeInv, TypeOK, loopVars
<1>5. CASE UNCHANGED vars
    BY <1>4, <1>5 DEF vars, TypeInv, TypeOK
<1>6. CASE Issue
    <2>1. counter' \in 0..MaxCount
        BY <1>6, ConstantFacts DEF Issue, TypeInv, TypeOK
    <2>2. issued' \in [Recent -> Nat]
        BY <1>6 DEF Issue, TypeInv, TypeOK
    <2> QED BY <1>1, <1>4, <1>6, <2>1, <2>2 DEF Issue
<1>7. CASE KeaRestart
    BY <1>1, <1>4, <1>7, ConstantFacts DEF KeaRestart, TypeInv, TypeOK
<1>8. CASE Tick
    <2>1. samples' \in Seq(Samples) /\ Len(samples') = Len(samples)
        <3>1. \A k \in 1..Len(samples) : Aged(samples[k]) \in Samples
            BY <1>1, AgedFacts
        <3>2. samples' = [k \in 1..Len(samples) |-> Aged(samples[k])]
            BY <1>1, <1>8 DEF Tick
        <3> QED BY <1>1, <3>1, <3>2
    <2>2. issued' \in [Recent -> Nat]
        BY <1>8, ConstantFacts DEF Tick, TypeInv, TypeOK, Recent
    <2> QED BY <1>4, <1>8, <2>1, <2>2 DEF Tick, TypeInv, TypeOK
\* A thread moves on: what the table may have grown by it had announced.
<1>9. ASSUME NEW l \in Loops, NEW place \in Phases, Goto(l, place),
             samples' \in Seq(Samples), reading' \in [Loops -> 0..MaxCount],
             handle' \in Loops \cup {NoLoop}, told' \subseteq Loops,
             UNCHANGED <<counter, stopping, issued>>,
             \/ Len(samples') <= Len(samples) /\ place # "insert"
             \/ UNCHANGED samples /\ Len(samples) < MaxSamples
             \/ Len(samples') = Len(samples) + 1 /\ phase[l] = "insert" /\ place # "insert"
      PROVE  TypeInv'
    <2>1. /\ phase' \in [Loops -> Phases]
          /\ Cardinality(Inserting') \in Nat
          /\ Cardinality(Inserting') <= Cardinality(Loops)
          /\ place # "insert" => Cardinality(Inserting') <= Cardinality(Inserting)
          /\ place # "insert" /\ phase[l] = "insert" =>
                Cardinality(Inserting') = Cardinality(Inserting) - 1
        BY <1>1, <1>9, InsertingFacts
    <2>2. Len(samples') \in Nat
        BY <1>9
    <2>3. Len(samples') + Cardinality(Inserting') <= MaxSamples + Cardinality(Loops)
        BY <1>1, <1>2, <1>9, <2>1, <2>2, ConstantFacts
    <2>4. Len(samples') <= MaxSamples + Cardinality(Loops)
        BY <1>1, <2>1, <2>2, <2>3, ConstantFacts
    <2> QED BY <1>9, <2>1, <2>3, <2>4 DEF TypeInv, TypeOK
<1>10. ASSUME NEW l \in Loops, LoopStep(l) PROVE TypeInv'
    <2>a. /\ reading \in [Loops -> 0..MaxCount] /\ counter \in 0..MaxCount /\ 0 \in 0..MaxCount
          /\ handle \in Loops \cup {NoLoop} /\ told \subseteq Loops /\ l \in Loops
        BY <1>10, ConstantFacts DEF TypeInv, TypeOK
    <2>b. {"insert", "prune", "wait", "pass", "ended"} \subseteq Phases
        BY DEF Phases
    <2>1. CASE Read(l)
        <3>1. reading' \in [Loops -> 0..MaxCount]
            BY <2>a, <2>1 DEF Read
        <3> QED BY <1>1, <1>9, <2>a, <2>b, <2>1, <3>1 DEF Read
    <2>2. CASE ReadSkipped(l)
        BY <1>1, <1>9, <2>a, <2>b, <2>2 DEF ReadSkipped
    <2>3. CASE Insert(l)
        <3>1. [age |-> 0, cumulative |-> reading[l]] \in Samples
            BY <2>a, ConstantFacts DEF Samples
        <3>2. samples' \in Seq(Samples) /\ Len(samples') = Len(samples) + 1
            BY <1>1, <2>3, <3>1 DEF Insert
        <3>3. reading' \in [Loops -> 0..MaxCount]
            BY <2>a, <2>3 DEF Insert
        <3>4. /\ phase[l] = "insert" /\ Goto(l, "prune")
              /\ UNCHANGED <<counter, handle, told, stopping, issued>>
            BY <2>3 DEF Insert
        <3>5. "prune" \in Phases
            BY DEF Phases
        <3> QED BY <1>9, <2>a, <3>2, <3>3, <3>4, <3>5
    <2>4. CASE Prune(l)
        <3>1. samples' \in Seq(Samples) /\ Len(samples') <= Len(samples)
            <4>1. samples' = Within(samples, RETENTION)
                BY <2>4 DEF Prune
            <4>2. Within(samples, RETENTION) \in Seq(Samples)
                BY <1>1, WithinFacts, ConstantFacts
            <4>3. PICK d \in 0..Len(samples) : Len(Within(samples, RETENTION)) = Len(samples) - d
                BY <1>1, WithinFacts, ConstantFacts
            <4> QED BY <1>1, <4>1, <4>2, <4>3
        <3> QED BY <1>9, <2>a, <2>b, <2>4, <3>1 DEF Prune
    <2>5. CASE PassFailed(l)
        <3>1. reading' \in [Loops -> 0..MaxCount]
            BY <2>a, <2>5 DEF PassFailed
        <3> QED BY <1>1, <1>9, <2>a, <2>b, <2>5, <3>1 DEF PassFailed
    <2>6. CASE Wake(l)
        BY <1>1, <1>9, <2>a, <2>b, <2>6 DEF Wake
    <2>7. CASE Exit(l)
        BY <1>1, <1>9, <2>a, <2>b, <2>7 DEF Exit
    <2> QED BY <1>10, <2>1, <2>2, <2>3, <2>4, <2>5, <2>6, <2>7 DEF LoopStep
<1>11. ASSUME NEW l \in Loops, Start(l) PROVE TypeInv'
    BY <1>1, <1>9, <1>11 DEF Start, TypeInv, TypeOK, Phases
<1>12. CASE StopPop \/ StopSignal
    <2>1. UNCHANGED <<counter, samples, phase, reading, issued>>
        BY <1>12 DEF StopPop, StopSignal
    <2> QED BY <1>3, <1>12, <2>1 DEF StopPop, StopSignal, TypeInv, TypeOK
<1>13. CASE ProcessRestart
    <2>1. phase' \in [Loops -> Phases] /\ Inserting' = {}
        BY <1>13 DEF ProcessRestart, Phases, Inserting
    <2>2. Cardinality(Inserting') = 0
        BY <2>1, FS_EmptySet
    <2> QED BY <1>1, <1>2, <1>13, <2>1, <2>2, ConstantFacts DEF ProcessRestart, TypeInv, TypeOK
<1> QED BY <1>5, <1>6, <1>7, <1>8, <1>10, <1>11, <1>12, <1>13 DEF Next

LEMMA TypeInvariant == FairSpec => []TypeInv
BY TypeInit, TypeNext, PTL DEF FairSpec, Spec

\* Every variable keeps its kind, and the table never has more rows than its bound
\* and one for each loop that had read when it was reached.
THEOREM TypeCorrect == FairSpec => []TypeOK
<1>1. TypeInv => TypeOK
    BY DEF TypeInv
<1> QED BY <1>1, TypeInvariant, PTL

-----------------------------------------------------------------------------
(* The loops *)

\* Whatever is started, stopped and restarted in whatever order, at most the
\* registered loop goes on sampling: the others were told to stop, or are about
\* to be.
THEOREM OneLoop == FairSpec => []OneLoopGoesOn
<1>1. Init => OneLoopGoesOn
    BY DEF Init, OneLoopGoesOn, Alive
<1>2. ASSUME TypeInv, OneLoopGoesOn, [Next]_vars PROVE OneLoopGoesOn'
    <2>1. phase \in [Loops -> Phases]
        BY <1>2 DEF TypeInv, TypeOK
    <2>2. ASSUME UNCHANGED <<handle, phase, told, stopping>> PROVE OneLoopGoesOn'
        BY <1>2, <2>2 DEF OneLoopGoesOn, Alive
    <2>3. CASE UNCHANGED vars \/ Issue \/ KeaRestart \/ Tick
        BY <2>2, <2>3 DEF vars, loopVars, Issue, KeaRestart, Tick
    <2>4. ASSUME NEW l \in Loops, LoopStep(l) PROVE OneLoopGoesOn'
        <3>1. CASE Exit(l)
            BY <1>2, <2>1, <3>1 DEF Exit, Goto, OneLoopGoesOn, Alive
        <3>2. CASE ~Exit(l)
            <4>1. /\ Alive(l) /\ UNCHANGED <<handle, told, stopping>>
                  /\ \A m \in Loops : m # l => phase'[m] = phase[m]
                BY <2>1, <2>4, <3>2
                   DEF LoopStep, Read, ReadSkipped, Insert, Prune, PassFailed, Wake, Goto, Alive
            <4> QED BY <1>2, <4>1 DEF OneLoopGoesOn, Alive
        <3> QED BY <3>1, <3>2
    <2>5. ASSUME NEW l \in Loops, Start(l) PROVE OneLoopGoesOn'
        <3>1. /\ handle' = l /\ UNCHANGED <<told, stopping>>
              /\ \A m \in Loops : m # l => phase'[m] = phase[m]
            BY <2>1, <2>5 DEF Start, Goto
        <3>2. \A m \in Loops : Alive(m) => m # handle \/ handle = NoLoop
            BY <2>5 DEF Start, IsSampling
        <3> QED BY <1>2, <3>1, <3>2, PoolAssumption DEF OneLoopGoesOn, Alive
    <2>6. CASE StopPop \/ StopSignal
        BY <1>2, <2>6, PoolAssumption DEF StopPop, StopSignal, OneLoopGoesOn, Alive
    <2>7. CASE ProcessRestart
        BY <2>7 DEF ProcessRestart, OneLoopGoesOn, Alive
    <2> QED BY <1>2, <2>3, <2>4, <2>5, <2>6, <2>7 DEF Next
<1> QED BY <1>1, <1>2, TypeInvariant, PTL DEF FairSpec, Spec

-----------------------------------------------------------------------------
(* The figure *)

\* Since the row s was taken Kea has not assigned more than c says.
Bounds(s, c) == s.age \in Recent => c <= s.cumulative + issued[s.age]

\* Kea assigned at least what the counter has gained since each reading, whether its
\* row is in the table or not yet; and a row is bound by those of earlier ticks only,
\* as two loops may insert theirs in another order than they read.
FigureInv ==
    /\ \A a, b \in Recent : a <= b => issued[a] <= issued[b]
    /\ \A l \in Loops : phase[l] = "insert" => counter <= reading[l] + issued[0]
    /\ \A k \in DOMAIN samples : Bounds(samples[k], counter)
    /\ \A l \in Loops, k \in DOMAIN samples :
          phase[l] = "insert" /\ samples[k].age > 0 => Bounds(samples[k], reading[l])
    /\ \A j, k \in DOMAIN samples :
          samples[j].age < samples[k].age => Bounds(samples[k], samples[j].cumulative)

LEMMA FigureInit == Init => FigureInv
<1> SUFFICES ASSUME Init PROVE FigureInv
    OBVIOUS
<1>1. DOMAIN samples = {} /\ \A l \in Loops : phase[l] # "insert"
    BY DEF Init
<1>2. \A a \in Recent : issued[a] = 0
    BY DEF Init
<1> QED BY <1>1, <1>2 DEF FigureInv

LEMMA FigureTypes ==
    ASSUME TypeInv
    PROVE  /\ counter \in Nat /\ samples \in Seq(Samples)
           /\ \A a \in Recent : a \in Nat /\ issued[a] \in Nat
           /\ 0 \in Recent
           /\ \A k \in DOMAIN samples : /\ samples[k] \in Samples
                                        /\ samples[k].age \in Nat /\ samples[k].cumulative \in Nat
           /\ \A l \in Loops : reading[l] \in Nat
           /\ phase \in [Loops -> Phases] /\ reading \in [Loops -> 0..MaxCount]
<1>1. \A s \in Samples : s.age \in Nat /\ s.cumulative \in Nat
    BY ConstantFacts DEF Samples
<1>2. Recent \subseteq Nat /\ 0 \in Recent
    BY ConstantFacts DEF Recent
<1>3. samples \in Seq(Samples)
    BY DEF TypeInv, TypeOK
<1>4. \A k \in DOMAIN samples : samples[k] \in Samples
    BY <1>3
<1> QED BY <1>1, <1>2, <1>3, <1>4, ConstantFacts DEF TypeInv, TypeOK

\* What is read and shown of the table does not grow: nothing new is to be said.
LEMMA FewerRows ==
    ASSUME FigureInv, UNCHANGED <<counter, issued>>,
           \A l \in Loops : phase'[l] = "insert" => phase[l] = "insert" /\ reading'[l] = reading[l],
           \A k \in DOMAIN samples' : \E j \in DOMAIN samples : samples'[k] = samples[j]
    PROVE  FigureInv'
BY DEF FigureInv, Bounds

LEMMA FigureNext == TypeInv /\ FigureInv /\ [Next]_vars => FigureInv'
<1> SUFFICES ASSUME TypeInv, FigureInv, [Next]_vars PROVE FigureInv'
    OBVIOUS
<1>1. /\ counter \in Nat /\ samples \in Seq(Samples)
      /\ \A a \in Recent : a \in Nat /\ issued[a] \in Nat
      /\ 0 \in Recent
      /\ \A k \in DOMAIN samples : /\ samples[k] \in Samples
                                   /\ samples[k].age \in Nat /\ samples[k].cumulative \in Nat
      /\ \A l \in Loops : reading[l] \in Nat
      /\ phase \in [Loops -> Phases] /\ reading \in [Loops -> 0..MaxCount]
    BY FigureTypes
<1>2. CASE UNCHANGED vars
    BY <1>2, FewerRows DEF vars, loopVars
<1>3. CASE Issue
    <2>1. /\ counter' = counter + 1 /\ UNCHANGED <<samples, phase, reading>>
          /\ \A a \in Recent : issued'[a] = issued[a] + 1
        BY <1>3 DEF Issue, loopVars
    <2>2. \A a, b \in Recent : a <= b => issued'[a] <= issued'[b]
        BY <1>1, <2>1 DEF FigureInv
    <2>3. \A l \in Loops : phase'[l] = "insert" => counter' <= reading'[l] + issued'[0]
        BY <1>1, <2>1 DEF FigureInv
    <2>4. ASSUME NEW k \in DOMAIN samples, NEW c \in Nat, Bounds(samples[k], c)
          PROVE  samples[k].age \in Recent => c + 1 <= samples[k].cumulative + issued'[samples[k].age]
        <3> HAVE samples[k].age \in Recent
        <3>1. c <= samples[k].cumulative + issued[samples[k].age]
            BY <2>4 DEF Bounds
        <3>2. issued'[samples[k].age] = issued[samples[k].age] + 1 /\ issued[samples[k].age] \in Nat
            BY <1>1, <2>1
        <3> QED BY <1>1, <3>1, <3>2
    <2>5. \A k \in DOMAIN samples' : (Bounds(samples[k], counter))'
        BY <1>1, <2>1, <2>4 DEF FigureInv, Bounds
    <2>6. ASSUME NEW k \in DOMAIN samples, NEW c \in Nat, Bounds(samples[k], c)
          PROVE  samples[k].age \in Recent => c <= samples[k].cumulative + issued'[samples[k].age]
        <3> HAVE samples[k].age \in Recent
        <3>1. c <= samples[k].cumulative + issued[samples[k].age]
            BY <2>6 DEF Bounds
        <3>2. issued'[samples[k].age] = issued[samples[k].age] + 1 /\ issued[samples[k].age] \in Nat
            BY <1>1, <2>1
        <3> QED BY <1>1, <3>1, <3>2
    <2>7. \A l \in Loops, k \in DOMAIN samples' :
              phase'[l] = "insert" /\ samples'[k].age > 0 => (Bounds(samples[k], reading[l]))'
        BY <1>1, <2>1, <2>6 DEF FigureInv, Bounds
    <2>8. \A m, k \in DOMAIN samples' :
              samples'[m].age < samples'[k].age => (Bounds(samples[k], samples[m].cumulative))'
        BY <1>1, <2>1, <2>6 DEF FigureInv, Bounds
    <2> QED BY <2>2, <2>3, <2>5, <2>7, <2>8 DEF FigureInv
<1>4. CASE KeaRestart
    <2>1. counter' = 0 /\ UNCHANGED <<samples, phase, reading, issued>>
        BY <1>4 DEF KeaRestart, loopVars
    <2> QED BY <1>1, <2>1 DEF FigureInv, Bounds
<1>5. CASE Tick
    <2>1. /\ samples' = [k \in DOMAIN samples |-> Aged(samples[k])]
          /\ UNCHANGED <<counter, phase, reading>>
          /\ \A l \in Loops : phase[l] # "insert"
          /\ \A a \in Recent : issued'[a] = IF a = 0 THEN 0 ELSE issued[a - 1]
        BY <1>5 DEF Tick, loopVars
    <2>2. \A k \in DOMAIN samples :
              /\ samples'[k].cumulative = samples[k].cumulative
              /\ samples'[k].age = IF samples[k].age = Ancient THEN Ancient ELSE samples[k].age + 1
        BY <1>1, <2>1, AgedFacts
    <2>3. DOMAIN samples' = DOMAIN samples
        BY <2>1
    <2>4. \A a \in Recent : a # 0 => a - 1 \in Recent
        BY ConstantFacts DEF Recent
    <2>5. \A a, b \in Recent : a <= b => issued'[a] <= issued'[b]
        <3> TAKE a, b \in Recent
        <3>1. a \in Nat /\ b \in Nat
            BY <1>1
        <3>2. CASE a = 0
            <4>1. issued'[b] \in Nat /\ issued'[a] = 0
                BY <1>1, <2>1, <2>4, <3>2
            <4> QED BY <4>1
        <3>3. CASE a # 0 /\ a <= b
            <4>1. b # 0 /\ a - 1 \in Recent /\ b - 1 \in Recent /\ a - 1 <= b - 1
                BY <2>4, <3>1, <3>3
            <4> QED BY <2>1, <3>3, <4>1 DEF FigureInv
        <3> QED BY <3>2, <3>3
    <2>6. \A k \in DOMAIN samples : samples'[k].age \in Recent =>
              /\ samples[k].age \in Recent /\ samples'[k].age = samples[k].age + 1
              /\ issued'[samples'[k].age] = issued[samples[k].age]
        <3> TAKE k \in DOMAIN samples
        <3> HAVE samples'[k].age \in Recent
        <3>1. samples'[k].age # Ancient
            BY ConstantFacts DEF Recent
        <3>2. samples'[k].age = samples[k].age + 1 /\ samples[k].age \in Nat
            BY <1>1, <2>2, <3>1
        <3>3. samples'[k].age # 0 /\ samples'[k].age - 1 = samples[k].age
            BY <3>2
        <3> QED BY <2>1, <2>4, <3>2, <3>3
    <2>7. \A k \in DOMAIN samples' : (Bounds(samples[k], counter))'
        BY <1>1, <2>1, <2>2, <2>3, <2>6 DEF FigureInv, Bounds
    <2>8. ASSUME NEW j \in DOMAIN samples', NEW k \in DOMAIN samples',
                 samples'[j].age < samples'[k].age
          PROVE  (Bounds(samples[k], samples[j].cumulative))'
        <3> SUFFICES ASSUME samples'[k].age \in Recent
                     PROVE  samples'[j].cumulative <= samples'[k].cumulative + issued'[samples'[k].age]
            BY DEF Bounds
        <3>1. samples[k].age \in Recent /\ samples'[k].age = samples[k].age + 1
            BY <2>3, <2>6
        <3>2. samples[j].age \in 0..Ancient /\ samples[k].age < Ancient
            BY <1>1, <2>3, <3>1, ConstantFacts DEF Samples, Recent
        <3>3. samples[j].age < samples[k].age
            <4>1. /\ samples[k].age \in Nat /\ samples[j].age \in Nat
                  /\ samples[j].age = Ancient \/ samples'[j].age = samples[j].age + 1
                  /\ samples[j].age = Ancient => samples'[j].age = Ancient
                BY <1>1, <2>2, <2>3
            <4>2. samples[j].age # Ancient
                BY <2>8, <3>1, <3>2, <4>1, ConstantFacts
            <4> QED BY <2>8, <3>1, <4>1, <4>2
        <3>4. Bounds(samples[k], samples[j].cumulative)
            BY <2>3, <3>3 DEF FigureInv
        <3> QED BY <2>2, <2>3, <2>6, <3>1, <3>4 DEF Bounds
    <2> QED BY <2>1, <2>5, <2>7, <2>8 DEF FigureInv
<1>6. ASSUME NEW l \in Loops, LoopStep(l) PROVE FigureInv'
    <2>1. CASE Read(l)
        <3>1. /\ UNCHANGED <<counter, samples, issued>> /\ reading'[l] = counter
              /\ \A m \in Loops : m # l => phase'[m] = phase[m] /\ reading'[m] = reading[m]
            BY <1>1, <2>1 DEF Read, Goto
        <3>2. issued[0] \in Nat /\ counter <= counter + issued[0]
            BY <1>1
        <3> QED BY <3>1, <3>2 DEF FigureInv, Bounds
    <2>2. CASE Insert(l)
        <3> DEFINE row == [age |-> 0, cumulative |-> reading[l]]
        <3>1. /\ UNCHANGED <<counter, issued>> /\ phase[l] = "insert" /\ phase'[l] # "insert"
              /\ \A m \in Loops : m # l => phase'[m] = phase[m] /\ reading'[m] = reading[m]
              /\ samples' = Append(samples, row)
            BY <1>1, <2>2 DEF Insert, Goto
        <3>2. row.age = 0 /\ row.cumulative = reading[l]
            OBVIOUS
        <3> HIDE DEF row
        <3>3. \A k \in DOMAIN samples' :
                  \/ samples'[k] = row
                  \/ k \in DOMAIN samples /\ samples'[k] = samples[k]
            BY <1>1, <3>1
        <3>4. \A k \in DOMAIN samples' : (Bounds(samples[k], counter))'
            BY <1>1, <3>1, <3>2, <3>3 DEF FigureInv, Bounds
        <3>5. ASSUME NEW m \in Loops, NEW k \in DOMAIN samples', phase'[m] = "insert",
                     samples'[k].age > 0
              PROVE  (Bounds(samples[k], reading[m]))'
            <4>1. samples'[k] # row
                BY <3>2, <3>5
            <4>2. m # l /\ k \in DOMAIN samples /\ samples'[k] = samples[k]
                BY <3>1, <3>3, <3>5, <4>1
            <4>3. Bounds(samples[k], reading[m])
                BY <3>1, <3>5, <4>2 DEF FigureInv
            <4> QED BY <3>1, <4>2, <4>3 DEF Bounds
        <3>6. ASSUME NEW j \in DOMAIN samples', NEW k \in DOMAIN samples',
                     samples'[j].age < samples'[k].age
              PROVE  (Bounds(samples[k], samples[j].cumulative))'
            <4>1. samples'[j].age \in Nat
                BY <1>1, <3>2, <3>3
            <4>2. samples'[k] # row
                BY <3>2, <3>6, <4>1
            <4>3. k \in DOMAIN samples /\ samples'[k] = samples[k]
                BY <3>3, <4>2
            <4>4. CASE samples'[j] = row
                BY <3>1, <3>2, <3>6, <4>3, <4>4 DEF FigureInv, Bounds
            <4>5. CASE j \in DOMAIN samples /\ samples'[j] = samples[j]
                BY <3>1, <3>6, <4>3, <4>5 DEF FigureInv, Bounds
            <4> QED BY <3>3, <4>4, <4>5
        <3>7. \A m \in Loops : phase'[m] = "insert" => counter' <= reading'[m] + issued'[0]
            BY <3>1 DEF FigureInv
        <3> QED BY <3>1, <3>4, <3>5, <3>6, <3>7 DEF FigureInv
    <2>3. CASE Prune(l)
        <3>1. /\ UNCHANGED <<counter, issued, reading>> /\ samples' = Within(samples, RETENTION)
              /\ \A m \in Loops : phase'[m] = "insert" => phase[m] = "insert"
            BY <1>1, <2>3 DEF Prune, Goto
        <3>2. \A k \in DOMAIN samples' : \E j \in DOMAIN samples : samples'[k] = samples[j]
            BY <1>1, <3>1, WithinKeeps, ConstantFacts
        <3> QED BY <3>1, <3>2, FewerRows
    <2>4. CASE ReadSkipped(l) \/ PassFailed(l) \/ Wake(l) \/ Exit(l)
        <3>1. /\ UNCHANGED <<counter, issued, samples>>
              /\ \A m \in Loops : phase'[m] = "insert" => phase[m] = "insert" /\ reading'[m] = reading[m]
            BY <1>1, <2>4 DEF ReadSkipped, PassFailed, Wake, Exit, Goto
        <3> QED BY <3>1, FewerRows
    <2> QED BY <1>6, <2>1, <2>2, <2>3, <2>4 DEF LoopStep
<1>7. CASE (\E l \in Loops : Start(l)) \/ StopPop \/ StopSignal
    <2>1. /\ UNCHANGED <<counter, issued, samples, reading>>
          /\ \A m \in Loops : phase'[m] = "insert" => phase[m] = "insert"
        BY <1>1, <1>7 DEF Start, StopPop, StopSignal, Goto
    <2> QED BY <2>1, FewerRows
<1>8. CASE ProcessRestart
    BY <1>8, FewerRows DEF ProcessRestart
<1> QED BY <1>2, <1>3, <1>4, <1>5, <1>6, <1>7, <1>8 DEF Next

\* The figure of the dashboard never exceeds the leases Kea assigned in the window
\* and the tolerance before it, for any window, tolerance and history.
THEOREM FigureIsHonest == FairSpec => []FigureNeverOverstates
<1>1. ASSUME TypeInv, FigureInv PROVE FigureNeverOverstates
    <2> DEFINE shown == Shown
               old == {k \in DOMAIN shown : shown[k].age >= WINDOW}
               m == Max(old)
               n == Len(shown)
    <2>1. /\ shown \in Seq(Samples)
          /\ \A k \in DOMAIN shown : \E j \in DOMAIN samples : shown[k] = samples[j]
        BY <1>1, FigureTypes, ShownKeeps
    <2> HIDE DEF shown
    <2>2. n \in Nat /\ DOMAIN shown = 1..n
        BY <2>1
    <2> SUFFICES ASSUME leases_issued_since(shown) # Blank
                 PROVE  leases_issued_since(shown) <= issued[WINDOW + TOLERANCE]
        BY DEF FigureNeverOverstates, shown
    <2>3. /\ ~(n < 2) /\ old # {}
          /\ ~(shown[m].age - WINDOW > TOLERANCE)
          /\ leases_issued_since(shown) = shown[n].cumulative - shown[m].cumulative
        BY DEF leases_issued_since, Last
    <2>4. m \in old /\ \A k \in old : k <= m
        <3>1. old \subseteq 1..n
            BY <2>2
        <3> HIDE DEF old
        <3> QED BY <2>2, <2>3, <3>1, MaxFacts
    <2>5. n \in DOMAIN shown /\ m \in DOMAIN shown /\ shown[m].age >= WINDOW
        BY <2>2, <2>3, <2>4
    <2>6. PICK i \in DOMAIN samples : shown[m] = samples[i]
        BY <2>1, <2>5
    <2>7. PICK j \in DOMAIN samples : shown[n] = samples[j]
        BY <2>1, <2>5
    <2>8. /\ samples[i].age \in Nat /\ samples[i].cumulative \in Nat
          /\ samples[j].age \in Nat /\ samples[j].cumulative \in Nat
        BY <1>1, FigureTypes
    <2>9. samples[i].age \in Recent /\ WINDOW + TOLERANCE \in Recent
          /\ samples[i].age <= WINDOW + TOLERANCE
        BY <2>3, <2>5, <2>6, <2>8, ConstantFacts DEF Recent
    <2>10. /\ issued[samples[i].age] <= issued[WINDOW + TOLERANCE]
           /\ issued[samples[i].age] \in Nat /\ issued[WINDOW + TOLERANCE] \in Nat
        BY <1>1, <2>9, FigureTypes DEF FigureInv
    <2>11. CASE m = n
        BY <2>3, <2>6, <2>8, <2>10, <2>11
    <2>12. CASE m # n
        <3>1. n \notin old
            <4> HIDE DEF m, n, old
            <4> QED BY <2>2, <2>4, <2>5, <2>12
        <3>2. samples[j].age < samples[i].age
            BY <2>5, <2>6, <2>7, <2>8, <3>1, ConstantFacts
        <3>3. samples[j].cumulative <= samples[i].cumulative + issued[samples[i].age]
            BY <1>1, <2>9, <3>2 DEF FigureInv, Bounds
        <3> QED BY <2>3, <2>6, <2>7, <2>8, <2>10, <3>3
    <2> QED BY <2>11, <2>12
<1> QED BY <1>1, FigureInit, FigureNext, TypeInvariant, PTL DEF FairSpec, Spec

-----------------------------------------------------------------------------
(* The rows a fetch or a prune selects *)

LEMMA OrderNext == TypeInv /\ OldestFirst(samples) /\ [Next]_vars => OldestFirst(samples)'
<1> SUFFICES ASSUME TypeInv, OldestFirst(samples), [Next]_vars PROVE OldestFirst(samples)'
    OBVIOUS
<1>1. /\ samples \in Seq(Samples)
      /\ \A k \in DOMAIN samples : samples[k] \in Samples /\ samples[k].age \in Nat
    BY FigureTypes
<1>2. CASE UNCHANGED samples
    BY <1>2 DEF OldestFirst
<1>3. CASE Tick
    <2>1. /\ DOMAIN samples' = DOMAIN samples
          /\ \A k \in DOMAIN samples : samples'[k] = Aged(samples[k])
        BY <1>3 DEF Tick
    <2>2. \A s, t \in Samples : s.age <= t.age => Aged(s).age <= Aged(t).age
        <3> TAKE s, t \in Samples
        <3> HAVE s.age <= t.age
        <3>1. s.age \in 0..Ancient /\ t.age \in 0..Ancient
            BY DEF Samples
        <3>2. /\ Aged(s).age = IF s.age = Ancient THEN Ancient ELSE s.age + 1
              /\ Aged(t).age = IF t.age = Ancient THEN Ancient ELSE t.age + 1
            BY AgedFacts
        <3> QED BY <3>1, <3>2, ConstantFacts
    <2> QED BY <1>1, <2>1, <2>2 DEF OldestFirst
<1>4. ASSUME NEW l \in Loops, Insert(l) PROVE OldestFirst(samples)'
    <2> DEFINE row == [age |-> 0, cumulative |-> reading[l]]
    <2>1. samples' = Append(samples, row) /\ row.age = 0
        BY <1>4 DEF Insert
    <2> HIDE DEF row
    <2>2. /\ DOMAIN samples' = 1..(Len(samples) + 1) /\ DOMAIN samples = 1..Len(samples)
          /\ Len(samples) \in Nat /\ samples'[Len(samples) + 1] = row
          /\ \A k \in DOMAIN samples : samples'[k] = samples[k]
        BY <1>1, <2>1
    <2>3. ASSUME NEW j \in DOMAIN samples', NEW k \in DOMAIN samples', j <= k
          PROVE  samples'[k].age <= samples'[j].age
        <3>1. CASE k = Len(samples) + 1
            <4>1. samples'[j].age \in Nat
                BY <1>1, <2>1, <2>2
            <4> QED BY <2>1, <2>2, <3>1, <4>1
        <3>2. CASE k # Len(samples) + 1
            BY <2>2, <2>3, <3>2 DEF OldestFirst
        <3> QED BY <3>1, <3>2
    <2> QED BY <2>3 DEF OldestFirst
<1>5. ASSUME NEW l \in Loops, Prune(l) PROVE OldestFirst(samples)'
    <2>1. samples' = Within(samples, RETENTION)
        BY <1>5 DEF Prune
    <2>2. OldestFirst(Within(samples, RETENTION))
        BY <1>1, WithinIsExact, ConstantFacts
    <2> QED BY <2>1, <2>2 DEF OldestFirst
<1> QED BY <1>2, <1>3, <1>4, <1>5
       DEF Next, LoopStep, Issue, KeaRestart, Read, ReadSkipped, PassFailed, Wake, Exit, Start,
           StopPop, StopSignal, ProcessRestart, vars

\* The rows are always in the order of time, however many loops insert: those from
\* the first young one on are the young ones (WithinIsExact).
LEMMA InOrderOfTime == FairSpec => []OldestFirst(samples)
<1>1. Init => OldestFirst(samples)
    BY DEF Init, OldestFirst
<1> QED BY <1>1, OrderNext, TypeInvariant, PTL DEF FairSpec, Spec
=============================================================================
