-------------------------- MODULE EnforcementProofs --------------------------
(***************************************************************************)
(* Proofs about Enforcement, for any devices, leases, Pi-holes, spellings, *)
(* scenarios and bound on attempts, and any number of threads but where a  *)
(* theorem says otherwise.                                                 *)
(***************************************************************************)
EXTENDS Enforcement, WellFoundedInduction, TLAPS

Names == Instances \cup {"kea", "arp", "nmap_refresh"}

\* The steps in the order in which a device is given them.
LEMMA StepsFacts ==
    /\ Steps \in Seq(Names)
    /\ Len(Steps) \in Nat /\ DOMAIN Steps = 1..Len(Steps) /\ Len(Steps) > 2
    /\ Steps[1] = "kea" /\ Steps[2] = "arp"
    /\ \A n \in 3..Len(Steps) : Steps[n] \in Instances \cup {"nmap_refresh"}
    /\ \A p \in Instances : \E n \in DOMAIN Steps : Steps[n] = p
    /\ \E n \in DOMAIN Steps : Steps[n] = "nmap_refresh"
<1> DEFINE front == <<"kea", "arp">> \o Piholes
<1>1. Piholes \in Seq(Instances) /\ Len(Piholes) \in Nat /\ DOMAIN Piholes = 1..Len(Piholes)
    BY EnforcementAssumption
<1>2. /\ front \in Seq(Names) /\ Len(front) = 2 + Len(Piholes)
      /\ front[1] = "kea" /\ front[2] = "arp"
      /\ \A k \in DOMAIN Piholes : front[k + 2] = Piholes[k]
    <2>1. <<"kea", "arp">> \in Seq(Names) /\ Piholes \in Seq(Names)
        BY <1>1 DEF Names
    <2> QED BY <1>1, <2>1
<1> HIDE DEF front
<1>3. /\ front \o <<"nmap_refresh">> \in Seq(Names)
      /\ Len(front \o <<"nmap_refresh">>) = 3 + Len(Piholes)
      /\ \A k \in 1..(2 + Len(Piholes)) : (front \o <<"nmap_refresh">>)[k] = front[k]
      /\ (front \o <<"nmap_refresh">>)[3 + Len(Piholes)] = "nmap_refresh"
    <2>1. <<"nmap_refresh">> \in Seq(Names)
        BY DEF Names
    <2> QED BY <1>1, <1>2, <2>1
<1>4. Steps = front \o <<"nmap_refresh">>
    BY DEF Steps, front
<1>5. \A p \in Instances : \E k \in DOMAIN Piholes : Piholes[k] = p
    BY DEF Instances
<1>6. \A k \in DOMAIN Piholes : Piholes[k] \in Instances
    BY DEF Instances
<1>7. \A k \in DOMAIN Piholes : k + 2 \in DOMAIN Steps /\ Steps[k + 2] = Piholes[k]
    BY <1>1, <1>2, <1>3, <1>4
<1>8. \A n \in 3..Len(Steps) : Steps[n] \in Instances \cup {"nmap_refresh"}
    <2>1. SUFFICES ASSUME NEW n \in 3..Len(Steps) PROVE Steps[n] \in Instances \cup {"nmap_refresh"}
        OBVIOUS
    <2>2. CASE n = Len(Steps)
        BY <2>2, <1>3, <1>4
    <2>3. CASE n # Len(Steps)
        <3>1. n - 2 \in DOMAIN Piholes /\ (n - 2) + 2 = n
            BY <2>3, <1>1, <1>3, <1>4
        <3> QED BY <3>1, <1>6, <1>7
    <2> QED BY <2>2, <2>3
<1>9. Steps[3 + Len(Piholes)] = "nmap_refresh" /\ 3 + Len(Piholes) \in DOMAIN Steps
    BY <1>1, <1>3, <1>4
<1>10. Steps[1] = "kea" /\ Steps[2] = "arp" /\ Len(Steps) = 3 + Len(Piholes)
    BY <1>1, <1>2, <1>3, <1>4
<1>11. \A p \in Instances : \E n \in DOMAIN Steps : Steps[n] = p
    BY <1>5, <1>7
<1>12. Steps \in Seq(Names) /\ DOMAIN Steps = 1..Len(Steps)
    BY <1>3, <1>4
<1> QED BY <1>1, <1>8, <1>9, <1>10, <1>11, <1>12

\* No step has the name of another kind.
LEMMA NameFacts ==
    /\ \A n \in DOMAIN Steps : Steps[n] # "identity_resolution"
    /\ \A n \in DOMAIN Steps : Steps[n] = "kea" => n = 1
    /\ \A n \in DOMAIN Steps : Steps[n] = "arp" => n = 2
    /\ \A n \in DOMAIN Steps : n > 2 <=> Steps[n] \in Instances \cup {"nmap_refresh"}
<1>1. \A n \in DOMAIN Steps : n = 1 \/ n = 2 \/ n \in 3..Len(Steps)
    BY StepsFacts
<1>2. Instances \cap {"identity_resolution", "kea", "arp", "nmap_refresh"} = {}
    BY EnforcementAssumption
<1> QED BY <1>1, <1>2, StepsFacts

\* The first of some devices is one of them, and the first.
LEMMA FirstFacts ==
    ASSUME NEW S \in SUBSET Devices, S # {}
    PROVE  First(S) \in S /\ \A e \in S : Position(First(S)) <= Position(e)
<1>1. \A d \in Devices : Position(d) \in Nat
    <2>1. \A d \in Devices : \E k \in DOMAIN Order : Order[k] = d
        BY EnforcementAssumption
    <2>2. DOMAIN Order \subseteq Nat
        BY EnforcementAssumption
    <2> QED BY <2>1, <2>2 DEF Position
<1> DEFINE T == {Position(d) : d \in S}
<1>2. PICK x \in T : \A y \in T : <<y, x>> \notin OpToRel(<, Nat)
    <2>1. T \in SUBSET Nat /\ T # {}
        BY <1>1
    <2> QED BY <2>1, NatLessThanWellFounded, WFMin
<1>3. \A y \in T : ~(y < x)
    <2>1. T \subseteq Nat
        BY <1>1
    <2> HIDE DEF T
    <2> QED BY <1>2, <2>1, Zenon DEF OpToRel
<1>4. PICK d \in S : x = Position(d)
    BY <1>2
<1>5. \A e \in S : Position(d) <= Position(e)
    BY <1>1, <1>3, <1>4
<1> QED BY <1>5 DEF First

-----------------------------------------------------------------------------
(* Types *)

\* What a request knows at each position.
Progress(r) ==
    /\ r.pc \in {"lookup", "resolve"} => r.results = <<>>
    /\ r.pc = "lookup" => ~r.isGroup
    /\ r.pc \in {"verify", "step", "stamp"} => Len(r.results) < Len(r.resolved)
    /\ r.pc = "step" => r.at \in 1..Len(Steps)
    /\ r.pc = "idle" /\ r.outcome = "ok" =>
          Len(r.results) = Len(r.resolved) /\ Len(r.resolved) > 0

Served == {r \in RequestRecords : Progress(r)}

\* No loop outlives its stop while stops are in time, and no kea step is undone
\* while Kea does not restart.
Undisturbed ==
    /\ "arp" \notin scenario => \A d \in Devices : dying[d] = {}
    /\ "restart" \notin scenario => undone = {}

\* A request is at a position it can be at.
TypeInv ==
    /\ TypeOK
    /\ \A q \in Requests : Progress(req[q])
    /\ Undisturbed

\* Kinds of the parts of a request.
LEMMA RecordFacts ==
    ASSUME NEW r \in RequestRecords
    PROVE  /\ r.resolved \in Seq(Identities) /\ Len(r.resolved) \in Nat
           /\ DOMAIN r.resolved = 1..Len(r.resolved)
           /\ r.results \in Seq(Results) /\ Len(r.results) \in Nat
           /\ DOMAIN r.results = 1..Len(r.results)
           /\ r.at \in Nat /\ r.log \subseteq LogRows /\ r.entries \subseteq Entries
           /\ r.target \subseteq Devices
BY StepsFacts DEF RequestRecords

\* A lease names a device, its MAC and its address.
LEMMA IdentityFacts ==
    ASSUME NEW i \in Identities
    PROVE  i.device \in Devices /\ i.mac \in Macs /\ i.ip \in Ips
BY EnforcementAssumption DEF Macs, Ips

\* Every thread has its request.
LEMMA ServedFacts == TypeInv => req \in [Requests -> Served]
BY DEF TypeInv, TypeOK, Served

\* A request that acts on devices has one whose turn it is.
LEMMA CurrentFacts ==
    ASSUME TypeInv, NEW q \in Requests, req[q].pc \in {"verify", "step", "stamp"}
    PROVE  /\ Len(req[q].results) + 1 \in DOMAIN req[q].resolved
           /\ Current(q) \in Identities
           /\ Current(q).device \in Devices
           /\ Current(q).mac \in Macs /\ Current(q).ip \in Ips
<1>1. req[q] \in RequestRecords /\ Progress(req[q])
    BY DEF TypeInv, TypeOK
<1>2. Len(req[q].results) < Len(req[q].resolved)
    BY <1>1 DEF Progress
<1>3. Len(req[q].results) + 1 \in DOMAIN req[q].resolved
    BY <1>1, <1>2, RecordFacts
<1>4. Current(q) \in Identities
    BY <1>1, <1>3, RecordFacts DEF Current
<1> QED BY <1>3, <1>4, IdentityFacts

\* A row about the current device is a row of the log.
LEMMA LogRowType ==
    ASSUME TypeInv, NEW q \in Requests, req[q].pc \in {"verify", "step", "stamp"},
           NEW step \in {"identity_resolution"} \cup {Steps[k] : k \in DOMAIN Steps},
           NEW succeeded \in BOOLEAN
    PROVE  LogRow(q, step, succeeded) \in LogRows
BY CurrentFacts DEF LogRow, LogRows

\* The request goes on with the next device, or is answered.
LEMMA FinishType ==
    ASSUME NEW r \in RequestRecords, Len(r.results) < Len(r.resolved), NEW result \in Results
    PROVE  Finish(r, result) \in Served
<1> DEFINE done == Append(r.results, result)
<1>1. done \in Seq(Results) /\ Len(done) = Len(r.results) + 1
    BY RecordFacts
<1>2. Len(done) = Len(r.resolved) \/ Len(done) < Len(r.resolved)
    BY <1>1, RecordFacts
<1>3. 0 \in 0..Len(Steps)
    BY StepsFacts
<1> HIDE DEF done
<1>4. Finish(r, result) = [r EXCEPT !.results = done, !.at = 0,
                  !.pc = IF Len(done) = Len(r.resolved) THEN "idle" ELSE "verify",
                  !.outcome = IF Len(done) = Len(r.resolved) THEN "ok" ELSE r.outcome]
    BY DEF Finish, done
<1> HIDE DEF Finish
<1>5. Finish(r, result) \in RequestRecords
    BY <1>1, <1>3, <1>4 DEF RequestRecords
<1>6. Progress(Finish(r, result))
    <2>1. /\ Finish(r, result).results = done
          /\ Finish(r, result).resolved = r.resolved
          /\ Finish(r, result).pc = IF Len(done) = Len(r.resolved) THEN "idle" ELSE "verify"
        BY <1>4 DEF RequestRecords
    <2> QED BY <1>2, <2>1 DEF Progress
<1> QED BY <1>5, <1>6 DEF Served

\* One thread's request becomes r.
Becomes(q, r) == req' = [req EXCEPT ![q] = r]

\* The rows that match are resolved next.
LEMMA MatchedType ==
    ASSUME TypeInv, NEW r \in RequestRecords, r.results = <<>>,
           NEW target \in SUBSET Devices, NEW matches \in SUBSET Devices
    PROVE  Matched(r, target, matches) \in Served
<1> DEFINE found == {[device |-> d, flag |-> flag[d]] : d \in matches}
<1>1. found \subseteq Entries
    BY DEF TypeInv, TypeOK, Entries
<1> HIDE DEF found
<1>2. Matched(r, target, matches) = [r EXCEPT !.pc = "resolve", !.target = target, !.entries = found]
    BY DEF Matched, found
<1>3. Matched(r, target, matches) \in RequestRecords
    BY <1>1, <1>2 DEF RequestRecords
<1>4. Progress(Matched(r, target, matches))
    BY <1>2 DEF Progress, RequestRecords
<1> QED BY <1>3, <1>4 DEF Served

\* A thread that serves nothing.
LEMMA NoRequestType == NoRequest \in Served /\ NoRequest.results = <<>>
<1>1. 0 \in 0..Len(Steps)
    BY StepsFacts
<1>2. NoRequest \in RequestRecords
    BY <1>1 DEF NoRequest, RequestRecords, Actions
<1> QED BY <1>2 DEF NoRequest, Served, Progress

\* The record of a request that has only been asked for.
LEMMA AskedType ==
    ASSUME NEW action \in Actions, NEW asked \in Spellings, NEW isGroup \in BOOLEAN
    PROVE  LET r == [NoRequest EXCEPT !.action = action, !.asked = asked, !.isGroup = isGroup]
           IN  /\ r \in RequestRecords /\ r.results = <<>> /\ r.isGroup = isGroup
               /\ ~isGroup => [r EXCEPT !.pc = "lookup"] \in Served
<1> DEFINE r == [NoRequest EXCEPT !.action = action, !.asked = asked, !.isGroup = isGroup]
<1>1. r \in RequestRecords /\ r.results = NoRequest.results /\ r.isGroup = isGroup
    BY NoRequestType DEF RequestRecords, Served
<1> HIDE DEF r
<1>2. r.results = <<>> /\ r.isGroup = isGroup
    BY <1>1, NoRequestType
<1>3. ~isGroup => [r EXCEPT !.pc = "lookup"] \in Served
    BY <1>1, <1>2 DEF Served, RequestRecords, Progress
<1> QED BY <1>1, <1>2, <1>3 DEF r

\* A request that starts has its record.
LEMMA StartType ==
    ASSUME TypeInv, NEW q \in Requests, NEW action \in Actions, NEW asked \in Spellings,
           NEW isGroup \in BOOLEAN, Start(q, action, asked, isGroup)
    PROVE  \E r \in Served : Becomes(q, r)
<1> DEFINE r == [NoRequest EXCEPT !.action = action, !.asked = asked, !.isGroup = isGroup]
<1>1. /\ r \in RequestRecords /\ r.results = <<>>
      /\ ~isGroup => [r EXCEPT !.pc = "lookup"] \in Served
    BY AskedType
<1>2. req' = [req EXCEPT ![q] =
          IF isGroup THEN Matched(r, Group, Group \cap registered)
          ELSE IF Exact(asked) THEN Matched(r, {asked}, {asked})
          ELSE [r EXCEPT !.pc = "lookup"]]
    BY Zenon DEF Start
<1> HIDE DEF r
<1>3. Matched(r, Group, Group \cap registered) \in Served
    BY <1>1, MatchedType, EnforcementAssumption
<1>4. Exact(asked) => Matched(r, {asked}, {asked}) \in Served
    BY <1>1, MatchedType DEF Exact, TypeInv, TypeOK
<1> QED BY <1>1, <1>2, <1>3, <1>4 DEF Becomes

\* One row at most is alike and first.
LEMMA MatchingType ==
    ASSUME TypeInv, NEW asked
    PROVE  /\ Matching(asked) \subseteq {d \in registered : Plain[d] = Plain[asked]}
           /\ \A d \in Matching(asked) : Matching(asked) = {d}
           /\ \A d \in Matching(asked), e \in registered :
                 Plain[e] = Plain[asked] => Position(d) <= Position(e)
<1> DEFINE alike == {d \in registered : Plain[d] = Plain[asked]}
<1>1. alike \subseteq Devices
    BY DEF TypeInv, TypeOK
<1>2. alike # {} => First(alike) \in alike /\ \A e \in alike : Position(First(alike)) <= Position(e)
    BY <1>1, FirstFacts
<1> QED BY <1>2 DEF Matching

\* An error ends a request.
LEMMA FailType ==
    ASSUME TypeInv, NEW q \in Requests, Fail(q)
    PROVE  \E r \in Served : Becomes(q, r)
<1>1. req[q] \in RequestRecords
    BY DEF TypeInv, TypeOK
<1>2. [req[q] EXCEPT !.pc = "idle", !.asked = Blank, !.outcome = "error"] \in Served
    BY <1>1 DEF RequestRecords, Served, Progress
<1>3. Becomes(q, [req[q] EXCEPT !.pc = "idle", !.asked = Blank, !.outcome = "error"])
    BY DEF Fail, Becomes
<1> QED BY <1>2, <1>3

\* The step that came back has its row, and the next one follows.
LEMMA SteppedType ==
    ASSUME TypeInv, NEW q \in Requests, req[q].pc = "step", NEW succeeded \in BOOLEAN,
           Stepped(q, succeeded)
    PROVE  \E r \in Served : Becomes(q, r)
<1>1. req[q] \in RequestRecords /\ Progress(req[q])
    BY DEF TypeInv, TypeOK
<1>2. req[q].at \in 1..Len(Steps) /\ Len(req[q].results) < Len(req[q].resolved)
    BY <1>1 DEF Progress
<1>3. LogRow(q, Steps[req[q].at], succeeded) \in LogRows
    BY <1>2, StepsFacts, LogRowType
<1> DEFINE next == IF req[q].at = Len(Steps) THEN 0 ELSE req[q].at + 1
           pc == IF req[q].at = Len(Steps) THEN "stamp" ELSE req[q].pc
           log == req[q].log \cup {LogRow(q, Steps[req[q].at], succeeded)}
           r == [req[q] EXCEPT !.log = log, !.at = next, !.pc = pc]
<1>4. Becomes(q, r)
    BY DEF Stepped, Becomes
<1>5. /\ next \in 0..Len(Steps) /\ (pc = "step" => next \in 1..Len(Steps))
      /\ pc \in {"step", "stamp"}
    BY <1>2, StepsFacts
<1>6. log \subseteq LogRows
    BY <1>1, <1>3, RecordFacts
<1> HIDE DEF next, pc, log
<1>7. r \in RequestRecords
    BY <1>1, <1>5, <1>6 DEF RequestRecords
<1>8. r.pc = pc /\ r.at = next /\ r.results = req[q].results /\ r.resolved = req[q].resolved
    BY <1>1 DEF RequestRecords
<1>9. Progress(r)
    BY <1>2, <1>5, <1>8 DEF Progress
<1> QED BY <1>4, <1>7, <1>9 DEF Served

\* What is enforced, and the rows, keep their kinds.
LayerTypes ==
    /\ dropped \subseteq Macs /\ onDisk \subseteq Macs /\ undone \subseteq Devices
    /\ loop \in [Devices -> Identities \cup {NoIdentity}]
    /\ dying \in [Devices -> SUBSET Identities]
    /\ blocked \in [Instances -> SUBSET Ips]
    /\ Undisturbed
RowTypes ==
    /\ registered \subseteq Devices
    /\ flag \in [Devices -> BOOLEAN]

\* The next row to resolve is one of those left.
LEMMA NextEntryFacts ==
    ASSUME TypeInv, NEW q \in Requests, req[q].entries # {}
    PROVE  /\ NextEntry(q) \in req[q].entries
           /\ NextEntry(q).device \in Devices /\ NextEntry(q).flag \in BOOLEAN
<1> DEFINE left == {f.device : f \in req[q].entries}
<1>1. req[q].entries \subseteq Entries
    BY RecordFacts DEF TypeInv, TypeOK
<1>2. left \subseteq Devices /\ left # {}
    BY <1>1 DEF Entries
<1>3. First(left) \in left
    BY <1>2, FirstFacts
<1>4. \E e \in req[q].entries : e.device = First(left)
    BY <1>3
<1>5. NextEntry(q) \in req[q].entries
    BY <1>4 DEF NextEntry
<1> QED BY <1>1, <1>5 DEF Entries

\* A request resolves: its record and the rows keep their kinds.
LEMMA ResolvingTypes ==
    ASSUME TypeInv, NEW q \in Requests,
           \/ LookUp(q) \/ Resolved(q) \/ ResolveOffline(q) \/ ResolveFailed(q)
           \/ \E l \in leases : Resolve(q, l)
    PROVE  (\E r \in Served : Becomes(q, r)) /\ RowTypes'
<1>1. req[q] \in RequestRecords /\ Progress(req[q]) /\ leases \subseteq Identities /\ RowTypes
    BY DEF TypeInv, TypeOK, RowTypes
<1>2. CASE LookUp(q)
    <2>1. Matched(req[q], Matching(req[q].asked), Matching(req[q].asked)) \in Served
        <3>1. Matching(req[q].asked) \subseteq Devices /\ req[q].results = <<>>
            BY <1>1, <1>2, MatchingType DEF LookUp, Progress, RowTypes
        <3> QED BY <1>1, <3>1, MatchedType
    <2>2. req' = [req EXCEPT ![q] = IF Matching(req[q].asked) = {} THEN NoRequest
                     ELSE Matched(req[q], Matching(req[q].asked), Matching(req[q].asked))]
        BY <1>2 DEF LookUp
    <2>3. RowTypes'
        BY <1>1, <1>2 DEF LookUp, rows, RowTypes
    <2> QED BY NoRequestType, <2>1, <2>2, <2>3 DEF Becomes
<1>3. CASE Resolved(q)
    <2>1. RowTypes'
        BY <1>1, <1>3 DEF Resolved, rows, RowTypes
    <2>2. CASE req[q].resolved = <<>>
        BY <1>3, <2>1, <2>2, FailType DEF Resolved
    <2>3. CASE req[q].resolved # <<>>
        <3> DEFINE r == [req[q] EXCEPT !.pc = "verify", !.asked = Blank]
        <3>1. Becomes(q, r)
            BY <1>3, <2>3 DEF Resolved, Becomes
        <3>2. r \in RequestRecords /\ r.pc = "verify" /\ r.results = <<>> /\ r.resolved = req[q].resolved
            BY <1>1, <1>3 DEF RequestRecords, Resolved, Progress
        <3>3. Len(r.results) < Len(r.resolved)
            BY <1>1, <2>3, <3>2, RecordFacts
        <3> QED BY <2>1, <3>1, <3>2, <3>3 DEF Served, Progress
    <2> QED BY <2>2, <2>3
<1>4. CASE ResolveOffline(q) \/ ResolveFailed(q)
    <2>1. RowTypes'
        BY <1>1, <1>4 DEF ResolveOffline, ResolveFailed, rows, RowTypes
    <2>2. CASE Fail(q)
        BY <2>1, <2>2, FailType
    <2>3. CASE ~Fail(q)
        <3> DEFINE r == [req[q] EXCEPT !.entries = req[q].entries \ {NextEntry(q)}]
        <3>1. Becomes(q, r)
            BY <1>4, <2>3 DEF ResolveOffline, ResolveFailed, Becomes
        <3>2. r \in RequestRecords /\ Progress(r)
            BY <1>1, RecordFacts DEF RequestRecords, Progress
        <3> QED BY <2>1, <3>1, <3>2 DEF Served
    <2> QED BY <2>2, <2>3
<1>5. ASSUME NEW l \in leases, Resolve(q, l) PROVE (\E r \in Served : Becomes(q, r)) /\ RowTypes'
    <2> DEFINE e == NextEntry(q)
               r == [req[q] EXCEPT !.entries = req[q].entries \ {e},
                                   !.resolved = Append(req[q].resolved, l)]
    <2>1. e \in req[q].entries /\ e.device \in Devices /\ e.flag \in BOOLEAN
        BY <1>5, NextEntryFacts DEF Resolve
    <2>2. Becomes(q, r)
        BY <1>5 DEF Resolve, Becomes
    <2>3. RowTypes'
        BY <1>1, <1>5, <2>1 DEF Resolve, RowTypes
    <2> HIDE DEF e
    <2>4. Append(req[q].resolved, l) \in Seq(Identities)
        BY <1>1, RecordFacts
    <2>5. r \in RequestRecords
        BY <1>1, <2>4, RecordFacts DEF RequestRecords
    <2>6. r.pc = "resolve" /\ r.results = <<>>
        BY <1>1, <1>5 DEF Resolve, Progress, RequestRecords
    <2>7. Progress(r)
        BY <2>6 DEF Progress
    <2> QED BY <2>2, <2>3, <2>5, <2>7 DEF Served
<1> QED BY <1>2, <1>3, <1>4, <1>5

\* A device is checked once more: the record keeps its kind.
LEMMA VerifyingTypes ==
    ASSUME TypeInv, NEW q \in Requests, Verify(q) \/ VerifyDrifted(q) \/ VerifyFailed(q)
    PROVE  \E r \in Served : Becomes(q, r)
<1>1. req[q] \in RequestRecords /\ Progress(req[q])
    BY DEF TypeInv, TypeOK
<1>2. req[q].pc = "verify"
    BY DEF Verify, VerifyDrifted, VerifyFailed
<1>3. /\ LogRow(q, "identity_resolution", TRUE) \in LogRows
      /\ LogRow(q, "identity_resolution", FALSE) \in LogRows
    BY <1>2, LogRowType
<1>4. Len(req[q].results) < Len(req[q].resolved)
    BY <1>1, <1>2 DEF Progress
<1>5. CASE Verify(q)
    <2> DEFINE log == req[q].log \cup {LogRow(q, "identity_resolution", TRUE)}
               r == [req[q] EXCEPT !.pc = "step", !.at = 1, !.log = log]
    <2>1. Becomes(q, r)
        BY <1>5 DEF Verify, Becomes
    <2>2. log \subseteq LogRows
        BY <1>1, <1>3, RecordFacts
    <2> HIDE DEF log
    <2>3. 1 \in 0..Len(Steps) /\ 1 \in 1..Len(Steps)
        BY StepsFacts
    <2>4. r \in RequestRecords
        BY <1>1, <2>2, <2>3 DEF RequestRecords
    <2>5. /\ r.pc = "step" /\ r.at = 1
          /\ r.results = req[q].results /\ r.resolved = req[q].resolved
        BY <1>1 DEF RequestRecords
    <2>6. Progress(r)
        BY <1>4, <2>3, <2>5 DEF Progress
    <2> QED BY <2>1, <2>4, <2>6 DEF Served
<1>6. CASE VerifyDrifted(q)
    <2> DEFINE log == req[q].log \cup {LogRow(q, "identity_resolution", FALSE)}
               r == [req[q] EXCEPT !.log = log]
    <2>1. Becomes(q, Finish(r, SkippedResult(Current(q).device)))
        BY <1>6 DEF VerifyDrifted, Becomes
    <2>2. log \subseteq LogRows
        BY <1>1, <1>3, RecordFacts
    <2> HIDE DEF log
    <2>3. r \in RequestRecords /\ r.results = req[q].results /\ r.resolved = req[q].resolved
        BY <1>1, <2>2 DEF RequestRecords
    <2>4. SkippedResult(Current(q).device) \in Results
        BY <1>2, CurrentFacts DEF SkippedResult, Results
    <2> HIDE DEF r
    <2> QED BY <1>4, <2>1, <2>3, <2>4, FinishType
<1>7. CASE VerifyFailed(q)
    BY <1>7, FailType DEF VerifyFailed
<1> QED BY <1>5, <1>6, <1>7

\* The actions of _enforce_device.
Enforcing(q) ==
    \/ KeaStep(q) \/ ArpStep(q) \/ GatewayFailed(q)
    \/ \E p \in Instances : PiholeStep(q, p)
    \/ NmapStep(q) \/ StepRaised(q)

\* A step acts, fails or leaves the handler: record and layers keep their kinds.
LEMMA EnforcingTypes ==
    ASSUME TypeInv, NEW q \in Requests, Enforcing(q)
    PROVE  (\E r \in Served : Becomes(q, r)) /\ LayerTypes'
<1>1. LayerTypes /\ scenario' = scenario
    BY DEF TypeInv, TypeOK, LayerTypes, Enforcing, KeaStep, ArpStep, GatewayFailed, PiholeStep,
           NmapStep, StepRaised, network
<1>2. req[q].pc = "step"
    BY DEF Enforcing, KeaStep, ArpStep, GatewayFailed, PiholeStep, NmapStep, StepRaised, At
<1>3. Current(q) \in Identities /\ Current(q).device \in Devices
      /\ Current(q).mac \in Macs /\ Current(q).ip \in Ips
    BY <1>2, CurrentFacts
<1>4. Stepped(q, TRUE) \/ Stepped(q, FALSE) \/ Fail(q)
    BY DEF Enforcing, KeaStep, ArpStep, GatewayFailed, PiholeStep, NmapStep, StepRaised
<1>5. \E r \in Served : Becomes(q, r)
    BY <1>2, <1>4, FailType, SteppedType
<1>6. CASE KeaStep(q)
    <2> DEFINE after == Toggled(dropped, q, Current(q).mac)
    <2>1. after \subseteq Macs
        BY <1>1, <1>3 DEF Toggled, LayerTypes
    <2>2. /\ dropped' \in {dropped, after, onDisk} /\ onDisk' \in {onDisk, after}
          /\ \/ undone' \in {undone, undone \ {Current(q).device}}
             \/ "restart" \in scenario /\ undone' = undone \cup {Current(q).device}
        BY <1>6 DEF KeaStep
    <2>3. UNCHANGED <<loop, dying, blocked>>
        BY <1>6 DEF KeaStep
    <2> HIDE DEF after
    <2>4. undone' \subseteq Devices /\ Undisturbed'
        BY <1>1, <1>3, <2>2, <2>3 DEF LayerTypes, Undisturbed
    <2> QED BY <1>1, <1>5, <2>1, <2>2, <2>3, <2>4 DEF LayerTypes
<1>7. CASE ArpStep(q)
    <2>1. \E i \in {NoIdentity, Current(q)} : loop' = [loop EXCEPT ![Current(q).device] = i]
        BY <1>7 DEF ArpStep
    <2>2. UNCHANGED <<dropped, onDisk, undone, blocked>>
        BY <1>7 DEF ArpStep
    <2>3. UNCHANGED dying \/ StopOverruns(Current(q).device)
        BY <1>7 DEF ArpStep
    <2>4. dying' \in [Devices -> SUBSET Identities]
        <3>1. CASE StopOverruns(Current(q).device)
            <4>1. loop[Current(q).device] \in Identities
                BY <1>1, <1>3, <3>1 DEF StopOverruns, LayerTypes
            <4>2. dying' = [dying EXCEPT ![Current(q).device] = @ \cup {loop[Current(q).device]}]
                BY <3>1 DEF StopOverruns
            <4> QED BY <1>1, <4>1, <4>2 DEF LayerTypes
        <3> QED BY <1>1, <2>3, <3>1 DEF LayerTypes
    <2>5. Undisturbed'
        BY <1>1, <2>2, <2>3 DEF StopOverruns, LayerTypes, Undisturbed
    <2>6. loop' \in [Devices -> Identities \cup {NoIdentity}]
        BY <1>1, <1>3, <2>1 DEF LayerTypes
    <2>7. LayerTypes'
        BY <1>1, <2>2, <2>4, <2>5, <2>6 DEF LayerTypes
    <2> QED BY <1>5, <2>7
<1>8. ASSUME NEW p \in Instances, PiholeStep(q, p) PROVE LayerTypes'
    <2> DEFINE after == Toggled(blocked[p], q, Current(q).ip)
    <2>1. after \subseteq Ips
        BY <1>1, <1>3 DEF Toggled, LayerTypes
    <2>2. \E ips \in {blocked[p], after} : blocked' = [blocked EXCEPT ![p] = ips]
        BY <1>8 DEF PiholeStep
    <2>3. UNCHANGED <<dropped, onDisk, undone, loop, dying>>
        BY <1>8 DEF PiholeStep
    <2> HIDE DEF after
    <2> QED BY <1>1, <2>1, <2>2, <2>3 DEF LayerTypes, Undisturbed
<1>9. CASE GatewayFailed(q) \/ NmapStep(q) \/ StepRaised(q)
    BY <1>1, <1>5, <1>9 DEF GatewayFailed, NmapStep, StepRaised, layers, LayerTypes, Undisturbed
<1> QED BY <1>5, <1>6, <1>7, <1>8, <1>9 DEF Enforcing

\* The flag is stamped and the result complete.
LEMMA StampingTypes ==
    ASSUME TypeInv, NEW q \in Requests, Stamp(q) \/ StampFailed(q)
    PROVE  (\E r \in Served : Becomes(q, r)) /\ RowTypes' /\ abandoned' \subseteq Devices
<1>1. /\ req[q] \in RequestRecords /\ Progress(req[q]) /\ RowTypes
      /\ abandoned \subseteq Devices /\ dropping \subseteq Devices
    BY DEF TypeInv, TypeOK, RowTypes
<1>2. CASE Stamp(q)
    <2>1. req[q].pc = "stamp" /\ Current(q).device \in Devices
        BY <1>2, CurrentFacts DEF Stamp
    <2>2. Len(req[q].results) < Len(req[q].resolved)
        BY <1>1, <2>1 DEF Progress
    <2>3. EnforcedResult(q) \in Results
        BY <2>1 DEF EnforcedResult, Results, Succeeded
    <2>4. Becomes(q, Finish(req[q], EnforcedResult(q)))
        BY <1>2 DEF Stamp, Becomes
    <2>5. RowTypes' /\ abandoned' \subseteq Devices
        BY <1>1, <1>2, <2>1 DEF Stamp, RowTypes
    <2> QED BY <1>1, <2>2, <2>3, <2>4, <2>5, FinishType
<1>3. CASE StampFailed(q)
    BY <1>1, <1>3, FailType DEF StampFailed, rows, RowTypes, admin
<1> QED BY <1>2, <1>3

\* What changes when a request takes a step: only a stamp may abandon a device.
LEMMA RequestFrame ==
    ASSUME NEW q \in Requests, RequestStep(q)
    PROVE  /\ UNCHANGED <<network, deletion, dropping, failures>>
           /\ UNCHANGED abandoned \/ Stamp(q)
           /\ \/ Enforcing(q) /\ UNCHANGED rows
              \/ /\ UNCHANGED layers
                 /\ \/ Verify(q) \/ VerifyDrifted(q) \/ VerifyFailed(q)
                    \/ Stamp(q) \/ StampFailed(q)
                    \/ LookUp(q) \/ Resolved(q) \/ ResolveOffline(q) \/ ResolveFailed(q)
                    \/ \E l \in leases : Resolve(q, l)
<1>1. CASE Enforcing(q)
    BY <1>1 DEF Enforcing, KeaStep, ArpStep, GatewayFailed, PiholeStep, NmapStep, StepRaised,
               network, admin, rows
<1>2. CASE Stamp(q) \/ StampFailed(q) \/ \E l \in leases : Resolve(q, l)
    BY <1>2 DEF Stamp, StampFailed, Resolve, network, admin, layers
<1>3. CASE \/ Verify(q) \/ VerifyDrifted(q) \/ VerifyFailed(q)
           \/ LookUp(q) \/ Resolved(q) \/ ResolveOffline(q) \/ ResolveFailed(q)
    BY <1>3 DEF Verify, VerifyDrifted, VerifyFailed, LookUp, Resolved, ResolveOffline,
               ResolveFailed, network, admin, layers
<1> QED BY <1>1, <1>2, <1>3 DEF RequestStep, Enforcing

\* Every part of the types but the requests, the Delete buttons and the leases.
LEMMA TypeParts ==
    ASSUME TypeInv, LayerTypes', RowTypes', leases' \subseteq Identities, scenario' = scenario,
           req' \in [Requests -> Served], dropping' \subseteq Devices,
           failures' \in [Devices -> 0..MaxDeleteReleases], abandoned' \subseteq Devices,
           deletion' \in [device : Devices, request : Requests] \cup {NoDeletion}
    PROVE  TypeInv'
BY DEF TypeInv, TypeOK, LayerTypes, RowTypes, Served

\* A request's record is one of many.
LEMMA BecomesType ==
    ASSUME TypeInv, NEW q \in Requests, \E r \in Served : Becomes(q, r)
    PROVE  req' \in [Requests -> Served]
BY ServedFacts DEF Becomes

\* Deleting a row resets its flag and its count.
LEMMA RemoveRowTypes ==
    ASSUME TypeInv, NEW d \in Devices, NEW byForce \in BOOLEAN, RemoveRow(d, byForce)
    PROVE  /\ RowTypes' /\ abandoned' \subseteq Devices
           /\ failures' \in [Devices -> 0..MaxDeleteReleases]
<1>1. MaxDeleteReleases \in Nat \ {0}
    BY EnforcementAssumption
<1> QED BY <1>1 DEF TypeInv, TypeOK, RemoveRow, RowTypes

\* At first nothing is asked for and nothing is enforced.
LEMMA TypeInit == Init => TypeInv
<1> SUFFICES ASSUME Init PROVE TypeInv
    OBVIOUS
<1>1. req \in [Requests -> Served]
    BY NoRequestType DEF Init
<1>2. 0 \in 0..MaxDeleteReleases /\ Group \subseteq Devices
    BY EnforcementAssumption
<1>3. Undisturbed
    BY DEF Init, Undisturbed
<1> QED BY <1>1, <1>2, <1>3 DEF Init, TypeInv, TypeOK, Served

\* Every step keeps the kinds.
LEMMA TypeNext == TypeInv /\ [Next]_vars => TypeInv'
<1> SUFFICES ASSUME TypeInv, [Next]_vars PROVE TypeInv'
    OBVIOUS
<1>1. /\ LayerTypes /\ RowTypes /\ leases \subseteq Identities /\ req \in [Requests -> Served]
      /\ failures \in [Devices -> 0..MaxDeleteReleases] /\ abandoned \subseteq Devices
      /\ dropping \subseteq Devices
      /\ deletion \in [device : Devices, request : Requests] \cup {NoDeletion}
    BY ServedFacts DEF TypeInv, TypeOK, LayerTypes, RowTypes
<1>2. UNCHANGED <<layers, scenario>> => LayerTypes'
    BY <1>1 DEF layers, LayerTypes, Undisturbed
<1>3. UNCHANGED rows => RowTypes'
    BY <1>1 DEF rows, RowTypes
<1>4. /\ UNCHANGED network => leases' \subseteq Identities /\ scenario' = scenario
      /\ UNCHANGED admin => UNCHANGED <<deletion, dropping, failures, abandoned>>
    BY <1>1 DEF network, admin
<1>5. ASSUME NEW i \in Identities, Acquire(i) \/ Expire(i) PROVE TypeInv'
    <2>1. leases' \subseteq Identities
        BY <1>1, <1>5 DEF Acquire, Expire
    <2>2. UNCHANGED <<layers, rows, req, admin, scenario>>
        BY <1>5 DEF Acquire, Expire
    <2> QED BY <1>1, <1>2, <1>3, <1>4, <2>1, <2>2, TypeParts
<1>6. ASSUME NEW q \in Requests, NEW action \in Actions, NEW asked \in Spellings,
             NEW isGroup \in BOOLEAN, Ask(q, action, asked, isGroup)
      PROVE  TypeInv'
    <2>1. req' \in [Requests -> Served]
        BY <1>6, StartType, BecomesType DEF Ask
    <2>2. UNCHANGED <<network, layers, rows, admin>>
        BY <1>6 DEF Ask
    <2> QED BY <1>1, <1>2, <1>3, <1>4, <2>1, <2>2, TypeParts
<1>7. ASSUME NEW q \in Requests, RequestStep(q) PROVE TypeInv'
    <2>1. UNCHANGED <<network, deletion, dropping, failures>> /\ (UNCHANGED abandoned \/ Stamp(q))
        BY <1>7, RequestFrame
    <2>2. CASE Enforcing(q) /\ UNCHANGED rows
        <3>1. req' \in [Requests -> Served] /\ LayerTypes'
            BY <2>2, EnforcingTypes, BecomesType
        <3>2. UNCHANGED abandoned
            BY <2>2 DEF Enforcing, KeaStep, ArpStep, GatewayFailed, PiholeStep, NmapStep,
                       StepRaised, admin
        <3> QED BY <1>1, <1>3, <1>4, <2>1, <2>2, <3>1, <3>2, TypeParts
    <2>3. CASE UNCHANGED layers /\ (Verify(q) \/ VerifyDrifted(q) \/ VerifyFailed(q))
        <3>1. req' \in [Requests -> Served]
            BY <2>3, VerifyingTypes, BecomesType
        <3>2. UNCHANGED rows /\ UNCHANGED admin
            BY <2>3 DEF Verify, VerifyDrifted, VerifyFailed
        <3> QED BY <1>1, <1>2, <1>3, <1>4, <2>1, <2>3, <3>1, <3>2, TypeParts
    <2>4. CASE UNCHANGED layers /\ (Stamp(q) \/ StampFailed(q))
        <3>1. req' \in [Requests -> Served] /\ RowTypes' /\ abandoned' \subseteq Devices
            BY <2>4, StampingTypes, BecomesType
        <3> QED BY <1>1, <1>2, <1>4, <2>1, <2>4, <3>1, TypeParts
    <2>5. CASE /\ UNCHANGED layers
               /\ \/ LookUp(q) \/ Resolved(q) \/ ResolveOffline(q) \/ ResolveFailed(q)
                  \/ \E l \in leases : Resolve(q, l)
        <3>1. req' \in [Requests -> Served] /\ RowTypes'
            BY <2>5, ResolvingTypes, BecomesType
        <3>2. UNCHANGED admin
            BY <2>5 DEF LookUp, Resolved, ResolveOffline, ResolveFailed, Resolve
        <3> QED BY <1>1, <1>2, <1>4, <2>1, <2>5, <3>1, <3>2, TypeParts
    <2> QED BY <1>7, <2>2, <2>3, <2>4, <2>5, RequestFrame
<1>8. ASSUME NEW d \in Devices, AddRow(d) PROVE TypeInv'
    <2>1. RowTypes' /\ abandoned' \subseteq Devices
        BY <1>1, <1>8 DEF AddRow, RowTypes
    <2>2. UNCHANGED <<network, layers, req, deletion, dropping, failures>>
        BY <1>8 DEF AddRow
    <2> QED BY <1>1, <1>2, <1>4, <2>1, <2>2, TypeParts
<1>9. ASSUME NEW d \in Devices, DropRow(d) \/ ForceDelete(d) PROVE TypeInv'
    <2>1. /\ UNCHANGED <<network, layers, req, deletion>> /\ dropping' \subseteq dropping
          /\ RemoveRow(d, FALSE) \/ RemoveRow(d, TRUE)
        BY <1>9 DEF DropRow, ForceDelete
    <2>2. /\ RowTypes' /\ abandoned' \subseteq Devices
          /\ failures' \in [Devices -> 0..MaxDeleteReleases]
        BY <2>1, RemoveRowTypes
    <2> QED BY <1>1, <1>2, <1>4, <2>1, <2>2, TypeParts
<1>10. ASSUME NEW d \in Devices, DeleteFree(d) PROVE TypeInv'
    <2>1. /\ UNCHANGED <<network, layers, rows, req, deletion, failures, abandoned>>
          /\ dropping' \subseteq Devices
        BY <1>1, <1>10 DEF DeleteFree
    <2> QED BY <1>1, <1>2, <1>3, <1>4, <2>1, TypeParts
<1>11. ASSUME NEW d \in Devices, NEW q \in Requests, DeleteQuarantined(d, q) PROVE TypeInv'
    <2>1. /\ Start(q, "release", d, FALSE)
          /\ deletion' = [device |-> d, request |-> q]
          /\ UNCHANGED <<network, layers, rows, dropping, failures, abandoned>>
        BY <1>11 DEF DeleteQuarantined
    <2>2. req' \in [Requests -> Served]
        BY <2>1, StartType, BecomesType DEF Actions, Spellings
    <2>3. deletion' \in [device : Devices, request : Requests]
        BY <2>1
    <2> QED BY <1>1, <1>2, <1>3, <1>4, <2>1, <2>2, <2>3, TypeParts
<1>12. CASE Answered
    <2> DEFINE d == deletion.device
    <2>1. d \in Devices /\ MaxDeleteReleases \in Nat
        BY <1>1, <1>12, EnforcementAssumption DEF Answered
    <2>2. deletion' = NoDeletion /\ UNCHANGED <<network, layers, rows, req, abandoned>>
        BY <1>12 DEF Answered
    <2>3. /\ dropping' \in {dropping, dropping \cup {d}}
          /\ \/ failures' = failures
             \/ failures' = [failures EXCEPT ![d] = IF @ < MaxDeleteReleases THEN @ + 1 ELSE @]
        BY <1>12 DEF Answered
    <2>4. dropping' \subseteq Devices
        BY <1>1, <2>1, <2>3
    <2>5. failures' \in [Devices -> 0..MaxDeleteReleases]
        BY <1>1, <2>1, <2>3
    <2> QED BY <1>1, <1>2, <1>3, <1>4, <2>2, <2>4, <2>5, TypeParts
<1>13. CASE AnswerLost
    BY <1>1, <1>2, <1>3, <1>4, <1>13, TypeParts DEF AnswerLost
<1>14. CASE ServiceRestart
    <2>1. UNCHANGED <<network, dropped, onDisk, undone, blocked, rows, admin>>
        BY <1>14 DEF ServiceRestart
    <2>2. req' \in [Requests -> Served] /\ LayerTypes'
        BY <1>1, <1>4, <1>14, <2>1, NoRequestType DEF ServiceRestart, LayerTypes, Undisturbed
    <2> QED BY <1>1, <1>3, <1>4, <2>1, <2>2, TypeParts
<1>15. CASE KeaRestart
    <2>1. LayerTypes' /\ UNCHANGED <<network, rows, req, admin>>
        BY <1>1, <1>4, <1>15 DEF KeaRestart, LayerTypes, Undisturbed
    <2> QED BY <1>1, <1>3, <1>4, <2>1, TypeParts
<1>16. ASSUME NEW d \in Devices, NEW i \in Identities, LoopEnds(d, i) PROVE TypeInv'
    <2>1. LayerTypes' /\ UNCHANGED <<network, rows, req, admin>>
        BY <1>1, <1>4, <1>16 DEF LoopEnds, LayerTypes, Undisturbed
    <2> QED BY <1>1, <1>3, <1>4, <2>1, TypeParts
<1>17. CASE UNCHANGED vars
    BY <1>1, <1>2, <1>3, <1>4, <1>17, TypeParts DEF vars, network, layers, rows, admin
<1> QED BY <1>5, <1>6, <1>7, <1>8, <1>9, <1>10, <1>11, <1>12, <1>13, <1>14, <1>15, <1>16, <1>17
        DEF Next

\* The invariant holds from the start on.
LEMMA TypeInvariant == FairSpec => []TypeInv
BY TypeInit, TypeNext, PTL DEF FairSpec, Spec

\* Every variable keeps its kind, the requests at every position and the Delete
\* buttons with their counts.
THEOREM TypeCorrect == FairSpec => []TypeOK
<1>1. TypeInv => TypeOK
    BY DEF TypeInv
<1> QED BY <1>1, TypeInvariant, PTL

-----------------------------------------------------------------------------
(* Targets *)

\* How the record of a thread comes to change.
LEMMA ThreadFacts ==
    ASSUME TypeInv, [Next]_vars, NEW q \in Requests
    PROVE  \/ req'[q] = req[q] \/ req'[q] = NoRequest
           \/ RequestStep(q)
           \/ \E action \in Actions, asked \in Spellings, isGroup \in BOOLEAN :
                 Start(q, action, asked, isGroup)
<1>1. req \in [Requests -> Served]
    BY ServedFacts
<1>2. ASSUME NEW t \in Requests, RequestStep(t) PROVE t = q \/ req'[q] = req[q]
    <2>1. \E r \in Served : Becomes(t, r)
        BY <1>2, RequestFrame, EnforcingTypes, VerifyingTypes, StampingTypes, ResolvingTypes
    <2> QED BY <1>1, <2>1 DEF Becomes
<1>3. ASSUME NEW t \in Requests, NEW action \in Actions, NEW asked \in Spellings,
             NEW isGroup \in BOOLEAN, Start(t, action, asked, isGroup)
      PROVE  t = q \/ req'[q] = req[q]
    <2>1. \E r \in Served : Becomes(t, r)
        BY <1>3, StartType
    <2> QED BY <1>1, <2>1 DEF Becomes
<1>4. CASE \E i \in Identities : Acquire(i) \/ Expire(i)
    BY <1>4 DEF Acquire, Expire
<1>5. CASE \E t \in Requests, action \in Actions : \E asked \in Spellings, isGroup \in BOOLEAN :
               Ask(t, action, asked, isGroup)
    BY <1>3, <1>5 DEF Ask
<1>6. CASE \E t \in Requests : RequestStep(t)
    BY <1>2, <1>6
<1>7. CASE \E d \in Devices : \/ AddRow(d) \/ DeleteFree(d) \/ DropRow(d) \/ ForceDelete(d)
                              \/ \E i \in Identities : LoopEnds(d, i)
                              \/ \E t \in Requests : DeleteQuarantined(d, t)
    <2>1. CASE \E d \in Devices : \/ AddRow(d) \/ DeleteFree(d) \/ DropRow(d) \/ ForceDelete(d)
                                  \/ \E i \in Identities : LoopEnds(d, i)
        BY <2>1 DEF AddRow, DeleteFree, DropRow, ForceDelete, LoopEnds
    <2>2. CASE \E d \in Devices, t \in Requests : DeleteQuarantined(d, t)
        BY <1>3, <2>2 DEF DeleteQuarantined, Actions, Spellings
    <2> QED BY <1>7, <2>1, <2>2
<1>8. CASE Answered \/ AnswerLost \/ ServiceRestart \/ KeaRestart \/ UNCHANGED vars
    BY <1>8 DEF Answered, AnswerLost, ServiceRestart, KeaRestart, vars
<1> QED BY <1>4, <1>5, <1>6, <1>7, <1>8 DEF Next

\* The devices of the rows a request is to resolve.
Aimed(r) == {e.device : e \in r.entries}

\* The devices of the rows that match are the matches.
LEMMA MatchedFacts ==
    ASSUME NEW r \in RequestRecords, NEW target, NEW matches
    PROVE  /\ Matched(r, target, matches).isGroup = r.isGroup
           /\ Matched(r, target, matches).asked = r.asked
           /\ Aimed(Matched(r, target, matches)) = matches
<1> DEFINE found == {[device |-> d, flag |-> flag[d]] : d \in matches}
<1>1. {e.device : e \in found} = matches
    <2>1. \A d \in matches : [device |-> d, flag |-> flag[d]].device = d
        OBVIOUS
    <2> QED BY <2>1, Zenon
<1> HIDE DEF found
<1>2. Matched(r, target, matches) = [r EXCEPT !.pc = "resolve", !.target = target, !.entries = found]
    BY DEF Matched, found
<1>3. /\ Matched(r, target, matches).isGroup = r.isGroup
      /\ Matched(r, target, matches).asked = r.asked
      /\ Matched(r, target, matches).entries = found
    BY <1>2 DEF RequestRecords
<1> QED BY <1>1, <1>3 DEF Aimed

\* A request sets out for the rows of its group or for the row of that very name.
LEMMA StartMeant ==
    ASSUME TypeInv, NEW q \in Requests, NEW action \in Actions, NEW asked \in Spellings,
           NEW isGroup \in BOOLEAN, Start(q, action, asked, isGroup), req'[q].pc = "resolve"
    PROVE  Meant(q)
<1> DEFINE r == [NoRequest EXCEPT !.action = action, !.asked = asked, !.isGroup = isGroup]
           looking == [r EXCEPT !.pc = "lookup"]
<1>1. r \in RequestRecords /\ r.isGroup = isGroup /\ r.asked = asked
    BY AskedType, NoRequestType DEF Served, RequestRecords
<1>2. req' = [req EXCEPT ![q] =
          IF isGroup THEN Matched(r, Group, Group \cap registered)
          ELSE IF Exact(asked) THEN Matched(r, {asked}, {asked})
          ELSE looking]
    BY Zenon DEF Start
<1>3. looking.pc = "lookup"
    BY <1>1 DEF RequestRecords
<1> HIDE DEF r, looking
<1>4. q \in DOMAIN req
    BY ServedFacts
<1>5. CASE isGroup
    <2>1. req'[q] = Matched(r, Group, Group \cap registered)
        BY <1>2, <1>4, <1>5
    <2>2. Group \cap registered # {}
        BY <1>5 DEF Start
    <2>3. Aimed(req'[q]) = Group \cap registered /\ req'[q].isGroup
        <3> DEFINE members == Group \cap registered
        <3> HIDE DEF members
        <3>1. /\ Aimed(Matched(r, Group, members)) = members
              /\ Matched(r, Group, members).isGroup
            BY <1>1, <1>5, MatchedFacts
        <3> QED BY <2>1, <3>1 DEF members
    <2> QED BY <2>2, <2>3 DEF Meant, Aimed
<1>6. CASE ~isGroup /\ Exact(asked)
    <2>1. req'[q] = Matched(r, {asked}, {asked})
        BY <1>2, <1>4, <1>6
    <2>2. asked \in registered
        BY <1>6 DEF Exact
    <2>3. Aimed(req'[q]) = {asked} /\ req'[q].asked = asked
        BY <1>1, <2>1, MatchedFacts
    <2>4. ~req'[q].isGroup
        BY <1>1, <1>6, <2>1, MatchedFacts
    <2> QED BY <2>2, <2>3, <2>4 DEF Meant, Aimed
<1>7. CASE ~isGroup /\ ~Exact(asked)
    BY <1>2, <1>3, <1>4, <1>7
<1> QED BY <1>5, <1>6, <1>7

\* Only a name that was not registered is looked for in other spellings.
LEMMA LookUpMeant ==
    ASSUME TypeInv, NEW q \in Requests, LookUp(q), req'[q].pc = "resolve"
    PROVE  Meant(q)
<1> DEFINE found == Matching(req[q].asked)
<1>1. req[q] \in RequestRecords /\ ~req[q].isGroup /\ req[q].pc = "lookup"
    BY DEF TypeInv, TypeOK, LookUp, Progress
<1>2. req' = [req EXCEPT ![q] = IF found = {} THEN NoRequest ELSE Matched(req[q], found, found)]
    BY DEF LookUp
<1>3. /\ found \subseteq {d \in registered : Plain[d] = Plain[req[q].asked]}
      /\ \A d \in found : found = {d}
      /\ \A d \in found, e \in registered :
            Plain[e] = Plain[req[q].asked] => Position(d) <= Position(e)
    BY MatchingType
<1> HIDE DEF found
<1>4. q \in DOMAIN req /\ NoRequest.pc = "idle"
    BY ServedFacts DEF NoRequest
<1>5. found # {} /\ req'[q] = Matched(req[q], found, found)
    BY <1>2, <1>4
<1>6. PICK d \in found : found = {d}
    BY <1>3, <1>5
<1>7. /\ Aimed(req'[q]) = {d} /\ req'[q].asked = req[q].asked
      /\ ~req'[q].isGroup
    <2>1. req'[q] = Matched(req[q], {d}, {d})
        BY <1>5, <1>6
    <2> QED BY <1>1, <2>1, MatchedFacts
<1>8. /\ d \in {a \in registered : Plain[a] = Plain[req[q].asked]}
      /\ \A a \in {b \in registered : Plain[b] = Plain[req[q].asked]} : Position(d) <= Position(a)
    BY <1>3, <1>6
<1> QED BY <1>1, <1>7, <1>8 DEF Meant, Aimed

\* The devices a request sets out for are the ones its target names, whoever adds,
\* deletes or asks for what in between, for any spellings and any order of names.
THEOREM TargetsMeant == FairSpec => TargetsAreMeant
<1>1. ASSUME TypeInv, [Next]_vars, NEW q \in Requests,
             req'[q].pc = "resolve", req[q].pc \in {"idle", "lookup"}
      PROVE  Meant(q)
    <2>1. req'[q] # req[q] /\ req'[q] # NoRequest
        BY <1>1 DEF NoRequest
    <2>2. CASE RequestStep(q)
        <3>1. LookUp(q)
            BY <1>1, <2>2 DEF RequestStep, Resolve, ResolveOffline, ResolveFailed, Resolved, Verify,
                  VerifyDrifted, VerifyFailed, KeaStep, ArpStep, GatewayFailed, PiholeStep, NmapStep,
                  StepRaised, Stamp, StampFailed, At
        <3> QED BY <1>1, <3>1, LookUpMeant
    <2>3. CASE \E action \in Actions, asked \in Spellings, isGroup \in BOOLEAN :
                   Start(q, action, asked, isGroup)
        BY <1>1, <2>3, StartMeant
    <2> QED BY <1>1, <2>1, <2>2, <2>3, ThreadFacts
<1>2. TypeInv /\ [Next]_vars =>
        [\A q \in Requests :
              req'[q].pc = "resolve" /\ req[q].pc \in {"idle", "lookup"} => Meant(q)]_vars
    BY <1>1
<1> QED BY <1>2, TypeInvariant, PTL DEF FairSpec, Spec, TargetsAreMeant

-----------------------------------------------------------------------------
(* The log of a request *)

\* The steps a request has logged for the device d.
Given(r, d) == {row.step : row \in {x \in r.log : x.device = d}} \ {"identity_resolution"}

\* The positions of the steps that the k-th device has been given.
Turns(r, k) ==
    CASE k \in DOMAIN r.results -> IF r.results[k].skipped THEN {} ELSE DOMAIN Steps
      [] k = Len(r.results) + 1 /\ r.pc = "step" -> 1..(r.at - 1)
      [] k = Len(r.results) + 1 /\ r.pc = "stamp" -> DOMAIN Steps
      [] OTHER -> {}

\* No device is resolved twice.
Distinct(r) ==
    \A j, k \in DOMAIN r.resolved : r.resolved[j].device = r.resolved[k].device => j = k

\* Devices are acted on, or have been.
Acting(r) == r.pc \in {"verify", "step", "stamp"} \/ (r.pc = "idle" /\ r.outcome = "ok")

\* Results are about the devices resolved, and the log has the steps of each.
LogFacts(r) ==
    /\ Distinct(r)
    /\ Len(r.results) <= Len(r.resolved)
    /\ \A k \in DOMAIN r.results : r.results[k].device = r.resolved[k].device
    /\ \A k \in DOMAIN r.resolved :
          Given(r, r.resolved[k].device) = {Steps[n] : n \in Turns(r, k)}

\* Devices still to resolve are neither resolved nor there twice.
EntryFacts(r) ==
    /\ r.log = {} /\ Distinct(r)
    /\ \A e \in r.entries, k \in DOMAIN r.resolved : e.device # r.resolved[k].device
    /\ \A e, f \in r.entries : e.device = f.device => e = f

LogOf(r) ==
    /\ Acting(r) => LogFacts(r)
    /\ r.pc = "resolve" => EntryFacts(r)
    /\ r.pc = "lookup" => r.log = {} /\ r.resolved = <<>>

LogInv == \A q \in Requests : LogOf(req[q])

\* A request that rests without an answer has nothing to say.
LEMMA RestingLog == ASSUME NEW r, r.pc = "idle", r.outcome # "ok" PROVE LogOf(r)
BY DEF LogOf, Acting

\* Nor does one that an error ended.
LEMMA FailLog ==
    ASSUME TypeInv, NEW q \in Requests, Fail(q)
    PROVE  LogOf(req'[q])
<1>1. req[q] \in RequestRecords /\ q \in DOMAIN req
    BY ServedFacts DEF TypeInv, TypeOK
<1>2. req'[q] = [req[q] EXCEPT !.pc = "idle", !.asked = Blank, !.outcome = "error"]
    BY <1>1 DEF Fail
<1>3. req'[q].pc = "idle" /\ req'[q].outcome # "ok"
    BY <1>1, <1>2 DEF RequestRecords
<1> QED BY <1>3, RestingLog

\* The rows that match are one per device.
LEMMA MatchedLog ==
    ASSUME NEW r \in RequestRecords, r.log = {}, r.resolved = <<>>, NEW target, NEW matches
    PROVE  LogOf(Matched(r, target, matches))
<1> DEFINE found == {[device |-> d, flag |-> flag[d]] : d \in matches}
<1>1. \A e, f \in found : e.device = f.device => e = f
    OBVIOUS
<1> HIDE DEF found
<1>2. Matched(r, target, matches) = [r EXCEPT !.pc = "resolve", !.target = target, !.entries = found]
    BY DEF Matched, found
<1> DEFINE s == Matched(r, target, matches)
<1>3. /\ s.pc = "resolve" /\ s.log = {} /\ s.resolved = <<>> /\ s.entries = found
    BY <1>2 DEF RequestRecords
<1> HIDE DEF s
<1>4. DOMAIN s.resolved = {}
    BY <1>3
<1> QED BY <1>1, <1>3, <1>4 DEF LogOf, Acting, EntryFacts, Distinct, s

\* A thread that serves nothing says nothing, nor does one that has been asked.
LEMMA StartLog ==
    ASSUME TypeInv, NEW q \in Requests, NEW action \in Actions, NEW asked \in Spellings,
           NEW isGroup \in BOOLEAN, Start(q, action, asked, isGroup)
    PROVE  LogOf(req'[q])
<1> DEFINE r == [NoRequest EXCEPT !.action = action, !.asked = asked, !.isGroup = isGroup]
           looking == [r EXCEPT !.pc = "lookup"]
<1>1. r \in RequestRecords
    BY AskedType
<1>2. r.log = {} /\ r.resolved = <<>>
    BY DEF NoRequest
<1>3. req' = [req EXCEPT ![q] =
          IF isGroup THEN Matched(r, Group, Group \cap registered)
          ELSE IF Exact(asked) THEN Matched(r, {asked}, {asked})
          ELSE looking]
    BY Zenon DEF Start
<1>4. looking.pc = "lookup" /\ looking.log = {} /\ looking.resolved = <<>>
    BY <1>1, <1>2 DEF RequestRecords
<1> HIDE DEF r, looking
<1>5. q \in DOMAIN req
    BY ServedFacts
<1>6. LogOf(looking)
    BY <1>4 DEF LogOf, Acting
<1> QED BY <1>1, <1>2, <1>3, <1>5, <1>6, MatchedLog

\* The device whose turn it was is done, skipped before its first step or given all.
LEMMA FinishLog ==
    ASSUME NEW r \in RequestRecords, LogFacts(r), r.pc \in {"verify", "stamp"},
           Len(r.results) < Len(r.resolved), NEW result \in Results,
           result.device = r.resolved[Len(r.results) + 1].device,
           result.skipped = (r.pc = "verify")
    PROVE  LogOf(Finish(r, result))
<1> DEFINE done == Append(r.results, result)
           s == Finish(r, result)
<1>1. /\ done \in Seq(Results) /\ Len(done) = Len(r.results) + 1
      /\ DOMAIN done = 1..(Len(r.results) + 1)
      /\ \A k \in DOMAIN r.results : done[k] = r.results[k]
      /\ done[Len(r.results) + 1] = result
    BY RecordFacts
<1> HIDE DEF done
<1>2. s = [r EXCEPT !.results = done, !.at = 0,
               !.pc = IF Len(done) = Len(r.resolved) THEN "idle" ELSE "verify",
               !.outcome = IF Len(done) = Len(r.resolved) THEN "ok" ELSE r.outcome]
    BY DEF Finish, done
<1>3. /\ s.results = done /\ s.resolved = r.resolved /\ s.log = r.log
      /\ s.pc \in {"idle", "verify"}
    BY <1>2 DEF RequestRecords
<1> HIDE DEF s
<1>4. DOMAIN r.results = 1..Len(r.results) /\ Len(r.results) \in Nat /\ Len(r.resolved) \in Nat
      /\ DOMAIN r.resolved = 1..Len(r.resolved)
    BY RecordFacts
<1>5. ASSUME NEW k \in DOMAIN r.resolved
      PROVE  Turns(s, k) = Turns(r, k)
    <2>1. CASE k \in DOMAIN r.results
        BY <1>1, <1>3, <1>4, <2>1 DEF Turns
    <2>2. CASE k = Len(r.results) + 1
        <3>1. k \notin DOMAIN r.results /\ k \in DOMAIN s.results /\ s.results[k] = result
            BY <1>1, <1>3, <1>4, <2>2
        <3>2. result.skipped \in BOOLEAN
            BY DEF Results
        <3>3. Turns(s, k) = IF result.skipped THEN {} ELSE DOMAIN Steps
            <4>1. k # Len(s.results) + 1
                BY <1>1, <1>3, <1>4, <2>2
            <4> QED BY <3>1, <4>1 DEF Turns
        <3>4. Turns(r, k) = IF r.pc = "stamp" THEN DOMAIN Steps ELSE {}
            BY <2>2, <3>1 DEF Turns
        <3> QED BY <3>2, <3>3, <3>4
    <2>3. CASE k \notin DOMAIN r.results /\ k # Len(r.results) + 1
        <3>1. k \notin DOMAIN s.results
            BY <1>1, <1>3, <1>4, <2>3
        <3> QED BY <1>3, <2>3, <3>1 DEF Turns
    <2> QED BY <2>1, <2>2, <2>3
<1>6. \A k \in DOMAIN s.resolved : Given(s, s.resolved[k].device) = {Steps[n] : n \in Turns(s, k)}
    <2>1. \A d : Given(s, d) = Given(r, d)
        BY <1>3 DEF Given
    <2>2. \A k \in DOMAIN r.resolved : Given(r, r.resolved[k].device) = {Steps[n] : n \in Turns(r, k)}
        BY DEF LogFacts
    <2>3. SUFFICES ASSUME NEW k \in DOMAIN r.resolved
                   PROVE  Given(s, r.resolved[k].device) = {Steps[n] : n \in Turns(s, k)}
        BY <1>3
    <2> QED BY <1>5, <2>1, <2>2
<1>7. \A k \in DOMAIN s.results : s.results[k].device = s.resolved[k].device
    BY <1>1, <1>3, <1>4 DEF LogFacts
<1>8. LogFacts(s)
    <2>1. Distinct(s)
        BY <1>3 DEF LogFacts, Distinct
    <2>2. Len(s.results) <= Len(s.resolved)
        BY <1>1, <1>3, <1>4
    <2> QED BY <1>6, <1>7, <2>1, <2>2 DEF LogFacts
<1>9. LogOf(s)
    BY <1>3, <1>8 DEF LogOf
<1> QED BY <1>9 DEF s

\* Resolving one more row keeps the devices apart; nothing is logged yet.
LEMMA ResolvingLog ==
    ASSUME TypeInv, LogInv, NEW q \in Requests,
           \/ LookUp(q) \/ Resolved(q) \/ ResolveOffline(q) \/ ResolveFailed(q)
           \/ \E l \in leases : Resolve(q, l)
    PROVE  LogOf(req'[q])
<1>1. /\ req[q] \in RequestRecords /\ Progress(req[q]) /\ LogOf(req[q]) /\ q \in DOMAIN req
      /\ leases \subseteq Identities
    BY ServedFacts DEF TypeInv, TypeOK, LogInv
<1>2. CASE Fail(q)
    BY <1>2, FailLog
<1>3. CASE LookUp(q)
    <2>1. req[q].log = {} /\ req[q].resolved = <<>>
        BY <1>1, <1>3 DEF LookUp, LogOf
    <2>2. \/ req'[q] = NoRequest
          \/ req'[q] = Matched(req[q], Matching(req[q].asked), Matching(req[q].asked))
        BY <1>1, <1>3 DEF LookUp
    <2>3. NoRequest.pc = "idle" /\ NoRequest.outcome # "ok"
        BY DEF NoRequest
    <2> QED BY <1>1, <2>1, <2>2, <2>3, MatchedLog, RestingLog
<1>4. CASE Resolved(q) /\ ~Fail(q)
    <2>1. req'[q] = [req[q] EXCEPT !.pc = "verify", !.asked = Blank]
        BY <1>1, <1>4 DEF Resolved
    <2>2. EntryFacts(req[q]) /\ req[q].results = <<>>
        BY <1>1, <1>4 DEF Resolved, LogOf, Progress
    <2> DEFINE r == req'[q]
    <2>3. /\ r.pc = "verify" /\ r.results = <<>> /\ r.log = {} /\ r.resolved = req[q].resolved
        BY <1>1, <2>1, <2>2 DEF RequestRecords, EntryFacts
    <2> HIDE DEF r
    <2>4. \A k : Turns(r, k) = {}
        <3>1. DOMAIN r.results = {}
            BY <2>3
        <3> QED BY <2>3, <3>1 DEF Turns
    <2>5. \A d : Given(r, d) = {}
        BY <2>3 DEF Given
    <2>6. LogFacts(r)
        <3>1. Distinct(r)
            BY <2>2, <2>3 DEF EntryFacts, Distinct
        <3>2. Len(r.results) <= Len(r.resolved) /\ DOMAIN r.results = {}
            BY <1>1, <2>3, RecordFacts
        <3>3. \A k : {Steps[n] : n \in Turns(r, k)} = {}
            BY <2>4
        <3> QED BY <2>5, <3>1, <3>2, <3>3 DEF LogFacts
    <2>7. LogOf(r)
        BY <2>3, <2>6 DEF LogOf
    <2> QED BY <2>7 DEF r
<1>5. CASE (ResolveOffline(q) \/ ResolveFailed(q)) /\ ~Fail(q)
    <2>1. req'[q] = [req[q] EXCEPT !.entries = req[q].entries \ {NextEntry(q)}]
        BY <1>1, <1>5 DEF ResolveOffline, ResolveFailed
    <2>2. req[q].pc = "resolve" /\ EntryFacts(req[q])
        BY <1>1, <1>5 DEF ResolveOffline, ResolveFailed, LogOf
    <2>3. /\ req'[q].pc = "resolve" /\ req'[q].log = {} /\ req'[q].resolved = req[q].resolved
          /\ req'[q].entries \subseteq req[q].entries
        BY <1>1, <2>1, <2>2 DEF RequestRecords, EntryFacts
    <2>4. EntryFacts(req'[q])
        BY <2>2, <2>3 DEF EntryFacts, Distinct
    <2> QED BY <2>3, <2>4 DEF LogOf, Acting
<1>6. ASSUME NEW l \in leases, Resolve(q, l) PROVE LogOf(req'[q])
    <2> DEFINE e == NextEntry(q)
               r == req'[q]
               old == req[q]
    <2>1. r = [old EXCEPT !.entries = old.entries \ {e}, !.resolved = Append(old.resolved, l)]
        BY <1>1, <1>6 DEF Resolve
    <2>2. /\ old.pc = "resolve" /\ EntryFacts(old) /\ l \in Identities /\ l.device = e.device
          /\ e \in old.entries
        BY <1>1, <1>6, NextEntryFacts DEF Resolve, LogOf, LeasesOf
    <2> HIDE DEF e, r
    <2>3. /\ r.pc = "resolve" /\ r.log = {} /\ r.entries = old.entries \ {e}
          /\ r.resolved = Append(old.resolved, l)
        BY <1>1, <2>1, <2>2 DEF RequestRecords, EntryFacts
    <2>4. /\ \A k \in DOMAIN r.resolved : k \in DOMAIN old.resolved \/ k = Len(old.resolved) + 1
          /\ \A k \in DOMAIN old.resolved : r.resolved[k] = old.resolved[k]
          /\ r.resolved[Len(old.resolved) + 1] = l
        BY <1>1, <2>2, <2>3, RecordFacts
    <2> HIDE DEF old
    <2>5. Distinct(r)
        BY <2>2, <2>4 DEF EntryFacts, Distinct
    <2>6. \A f \in r.entries, k \in DOMAIN r.resolved : f.device # r.resolved[k].device
        BY <2>2, <2>3, <2>4 DEF EntryFacts
    <2>7. EntryFacts(r)
        BY <2>2, <2>3, <2>5, <2>6 DEF EntryFacts
    <2>8. LogOf(r)
        BY <2>3, <2>7 DEF LogOf, Acting
    <2> QED BY <2>8 DEF r
<1> QED BY <1>2, <1>3, <1>4, <1>5, <1>6

\* The check of a device is no step.
LEMMA VerifyingLog ==
    ASSUME TypeInv, LogInv, NEW q \in Requests, Verify(q) \/ VerifyDrifted(q) \/ VerifyFailed(q)
    PROVE  LogOf(req'[q])
<1>1. req[q] \in RequestRecords /\ Progress(req[q]) /\ LogOf(req[q]) /\ q \in DOMAIN req
    BY ServedFacts DEF TypeInv, TypeOK, LogInv
<1>2. req[q].pc = "verify"
    BY DEF Verify, VerifyDrifted, VerifyFailed
<1>3. LogFacts(req[q]) /\ Len(req[q].results) < Len(req[q].resolved)
    <2>1. Acting(req[q])
        BY <1>2 DEF Acting
    <2> QED BY <1>1, <1>2, <2>1 DEF LogOf, Progress
<1>4. ASSUME NEW succeeded \in BOOLEAN, NEW d
      PROVE  Given([req[q] EXCEPT !.log = @ \cup {LogRow(q, "identity_resolution", succeeded)}], d)
                = Given(req[q], d)
    <2> DEFINE row == LogRow(q, "identity_resolution", succeeded)
               r == [req[q] EXCEPT !.log = @ \cup {row}]
    <2>1. row.step = "identity_resolution"
        BY DEF LogRow
    <2> HIDE DEF row
    <2>2. r.log = req[q].log \cup {row}
        BY <1>1 DEF RequestRecords
    <2> HIDE DEF r
    <2>3. Given(r, d) = Given(req[q], d)
        BY <2>1, <2>2 DEF Given
    <2> QED BY <2>3 DEF r, row
<1>5. CASE Verify(q)
    <2> DEFINE s == [req[q] EXCEPT !.log = @ \cup {LogRow(q, "identity_resolution", TRUE)}]
               r == [req[q] EXCEPT !.pc = "step", !.at = 1,
                                   !.log = @ \cup {LogRow(q, "identity_resolution", TRUE)}]
    <2>1. req'[q] = r
        BY <1>1, <1>5 DEF Verify
    <2>2. /\ r.pc = "step" /\ r.at = 1 /\ r.results = req[q].results
          /\ r.resolved = req[q].resolved /\ r.log = s.log
        BY <1>1 DEF RequestRecords
    <2>3. \A d : Given(s, d) = Given(req[q], d)
        BY <1>4
    <2> HIDE DEF r, s
    <2>4. \A d : Given(r, d) = Given(req[q], d)
        BY <2>2, <2>3 DEF Given
    <2>5. \A k : Turns(r, k) = Turns(req[q], k)
        <3>1. 1..(1 - 1) = {}
            OBVIOUS
        <3>2. Len(req[q].results) + 1 \notin DOMAIN req[q].results
            BY <1>1, RecordFacts
        <3> QED BY <1>2, <2>2, <3>1, <3>2 DEF Turns
    <2>6. LogFacts(r)
        BY <1>3, <2>2, <2>4, <2>5 DEF LogFacts, Distinct
    <2>7. LogOf(r)
        BY <2>2, <2>6 DEF LogOf
    <2> QED BY <2>1, <2>7
<1>6. CASE VerifyDrifted(q)
    <2> DEFINE r == [req[q] EXCEPT !.log = @ \cup {LogRow(q, "identity_resolution", FALSE)}]
               result == SkippedResult(Current(q).device)
    <2>1. req'[q] = Finish(r, result)
        BY <1>1, <1>6 DEF VerifyDrifted
    <2>2. LogRow(q, "identity_resolution", FALSE) \in LogRows
        BY <1>2, LogRowType
    <2>3. /\ r \in RequestRecords /\ r.results = req[q].results /\ r.resolved = req[q].resolved
          /\ r.pc = "verify" /\ r.at = req[q].at
        BY <1>1, <1>2, <2>2, RecordFacts DEF RequestRecords
    <2>4. \A d : Given(r, d) = Given(req[q], d)
        BY <1>4
    <2>5. /\ result \in Results /\ result.skipped = TRUE
          /\ result.device = r.resolved[Len(r.results) + 1].device
        BY <1>2, <2>3, CurrentFacts DEF SkippedResult, Results, Current
    <2> HIDE DEF r, result
    <2>6. \A k : Turns(r, k) = Turns(req[q], k)
        BY <1>2, <2>3 DEF Turns
    <2>7. LogFacts(r)
        BY <1>3, <2>3, <2>4, <2>6 DEF LogFacts, Distinct
    <2>8. result.skipped = (r.pc = "verify")
        BY <2>3, <2>5
    <2> QED BY <1>3, <2>1, <2>3, <2>5, <2>7, <2>8, FinishLog
<1>7. CASE VerifyFailed(q)
    BY <1>7, FailLog DEF VerifyFailed
<1> QED BY <1>5, <1>6, <1>7

\* A step that came back is one more step of its device, and of no other.
LEMMA EnforcingLog ==
    ASSUME TypeInv, LogInv, NEW q \in Requests, Enforcing(q)
    PROVE  LogOf(req'[q])
<1>1. req[q] \in RequestRecords /\ Progress(req[q]) /\ LogOf(req[q]) /\ q \in DOMAIN req
    BY ServedFacts DEF TypeInv, TypeOK, LogInv
<1>2. req[q].pc = "step"
    BY DEF Enforcing, KeaStep, ArpStep, GatewayFailed, PiholeStep, NmapStep, StepRaised, At
<1>3. LogFacts(req[q]) /\ Len(req[q].results) < Len(req[q].resolved)
      /\ req[q].at \in 1..Len(Steps)
    <2>1. Acting(req[q])
        BY <1>2 DEF Acting
    <2> QED BY <1>1, <1>2, <2>1 DEF LogOf, Progress
<1>4. ASSUME NEW succeeded \in BOOLEAN, Stepped(q, succeeded) PROVE LogOf(req'[q])
    <2> DEFINE row == LogRow(q, Steps[req[q].at], succeeded)
               here == Len(req[q].results) + 1
               r == req'[q]
    <2>1. r = [req[q] EXCEPT !.log = req[q].log \cup {row},
                  !.at = IF req[q].at = Len(Steps) THEN 0 ELSE req[q].at + 1,
                  !.pc = IF req[q].at = Len(Steps) THEN "stamp" ELSE req[q].pc]
        BY <1>1, <1>4 DEF Stepped
    <2>2. /\ row.device = req[q].resolved[here].device /\ row.step = Steps[req[q].at]
          /\ row.step # "identity_resolution" /\ here \in DOMAIN req[q].resolved
        BY <1>2, <1>3, CurrentFacts, NameFacts, StepsFacts DEF LogRow, Current
    <2> HIDE DEF row, r
    <2>3. /\ r.log = req[q].log \cup {row} /\ r.results = req[q].results
          /\ r.resolved = req[q].resolved
          /\ r.at = IF req[q].at = Len(Steps) THEN 0 ELSE req[q].at + 1
          /\ r.pc = IF req[q].at = Len(Steps) THEN "stamp" ELSE "step"
        BY <1>1, <1>2, <2>1 DEF RequestRecords
    <2>4. \A d : Given(r, d) = IF d = row.device THEN Given(req[q], d) \cup {row.step}
                               ELSE Given(req[q], d)
        BY <2>2, <2>3 DEF Given
    <2>5. here \notin DOMAIN req[q].results
        BY <1>1, RecordFacts
    <2> HIDE DEF here
    <2>6. \A k : k # here => Turns(r, k) = Turns(req[q], k)
        <3>1. here = Len(req[q].results) + 1
            BY DEF here
        <3> QED BY <2>3, <3>1 DEF Turns
    <2>7. /\ Turns(req[q], here) = 1..(req[q].at - 1)
          /\ Turns(r, here) = 1..req[q].at
        <3>1. here = Len(req[q].results) + 1
            BY DEF here
        <3>2. Turns(req[q], here) = 1..(req[q].at - 1)
            BY <1>2, <2>5, <3>1 DEF Turns
        <3>3. CASE req[q].at = Len(Steps)
            BY <1>3, <2>3, <2>5, <3>1, <3>2, <3>3, StepsFacts DEF Turns
        <3>4. CASE req[q].at # Len(Steps)
            <4>1. r.pc = "step" /\ r.at - 1 = req[q].at
                BY <1>3, <2>3, <3>4
            <4> QED BY <2>3, <2>5, <3>1, <3>2, <4>1 DEF Turns
        <3> QED BY <3>3, <3>4
    <2>8. {Steps[n] : n \in Turns(r, here)}
             = {Steps[n] : n \in Turns(req[q], here)} \cup {Steps[req[q].at]}
        <3>1. 1..req[q].at = (1..(req[q].at - 1)) \cup {req[q].at}
            BY <1>3
        <3> QED BY <2>7, <3>1
    <2>9. \A k \in DOMAIN r.resolved :
              Given(r, r.resolved[k].device) = {Steps[n] : n \in Turns(r, k)}
        <3>1. SUFFICES ASSUME NEW k \in DOMAIN req[q].resolved
                       PROVE  Given(r, req[q].resolved[k].device) = {Steps[n] : n \in Turns(r, k)}
            BY <2>3
        <3>2. Given(req[q], req[q].resolved[k].device) = {Steps[n] : n \in Turns(req[q], k)}
            BY <1>3 DEF LogFacts
        <3>3. CASE k = here
            BY <2>2, <2>4, <2>8, <3>2, <3>3
        <3>4. CASE k # here
            <4>1. req[q].resolved[k].device # row.device
                BY <1>3, <2>2, <3>4 DEF LogFacts, Distinct
            <4> QED BY <2>4, <2>6, <3>2, <3>4, <4>1
        <3> QED BY <3>3, <3>4
    <2>10. LogFacts(r)
        BY <1>3, <2>3, <2>9 DEF LogFacts, Distinct
    <2>11. LogOf(r)
        BY <2>3, <2>10 DEF LogOf
    <2> QED BY <2>11 DEF r
<1>5. Stepped(q, TRUE) \/ Stepped(q, FALSE) \/ Fail(q)
    BY DEF Enforcing, KeaStep, ArpStep, GatewayFailed, PiholeStep, NmapStep, StepRaised
<1> QED BY <1>4, <1>5, FailLog

\* A device that is stamped was given every step.
LEMMA StampingLog ==
    ASSUME TypeInv, LogInv, NEW q \in Requests, Stamp(q) \/ StampFailed(q)
    PROVE  LogOf(req'[q])
<1>1. req[q] \in RequestRecords /\ Progress(req[q]) /\ LogOf(req[q]) /\ q \in DOMAIN req
    BY ServedFacts DEF TypeInv, TypeOK, LogInv
<1>2. CASE Stamp(q)
    <2>1. req[q].pc = "stamp"
        BY <1>2 DEF Stamp
    <2>2. LogFacts(req[q]) /\ Len(req[q].results) < Len(req[q].resolved)
        <3>1. Acting(req[q])
            BY <2>1 DEF Acting
        <3> QED BY <1>1, <2>1, <3>1 DEF LogOf, Progress
    <2> DEFINE result == EnforcedResult(q)
    <2>3. /\ result \in Results /\ result.skipped = FALSE
          /\ result.device = req[q].resolved[Len(req[q].results) + 1].device
        BY <2>1, CurrentFacts DEF EnforcedResult, Results, Current, Succeeded
    <2> HIDE DEF result
    <2>4. req'[q] = Finish(req[q], result)
        BY <1>1, <1>2 DEF Stamp, result
    <2>5. result.skipped = (req[q].pc = "verify")
        BY <2>1, <2>3
    <2> QED BY <1>1, <2>1, <2>2, <2>3, <2>4, <2>5, FinishLog
<1>3. CASE StampFailed(q)
    BY <1>3, FailLog DEF StampFailed
<1> QED BY <1>2, <1>3

\* Every request keeps its log.
LEMMA LogNext == TypeInv /\ LogInv /\ [Next]_vars => LogInv'
<1> SUFFICES ASSUME TypeInv, LogInv, [Next]_vars, NEW q \in Requests PROVE LogOf(req'[q])
    BY DEF LogInv
<1>1. LogOf(req[q])
    BY DEF LogInv
<1>2. LogOf(NoRequest)
    BY RestingLog DEF NoRequest
<1>3. RequestStep(q) => LogOf(req'[q])
    BY RequestFrame, EnforcingLog, VerifyingLog, StampingLog, ResolvingLog
<1>4. (\E action \in Actions, asked \in Spellings, isGroup \in BOOLEAN :
          Start(q, action, asked, isGroup)) => LogOf(req'[q])
    BY StartLog
<1> QED BY <1>1, <1>2, <1>3, <1>4, ThreadFacts

LEMMA LogInit == Init => LogInv
<1>1. LogOf(NoRequest)
    BY RestingLog DEF NoRequest
<1> QED BY <1>1 DEF Init, LogInv

\* What is logged of a request is what it did.
LEMMA LogInvariant == FairSpec => []LogInv
BY TypeInvariant, LogInit, LogNext, PTL DEF FairSpec, Spec

\* An answer reports on devices that were given every step, whatever failed, or
\* none, with any number of threads, devices and Pi-holes.
THEOREM EveryStepIsTried == FairSpec => []AnsweredMeansEveryStep
<1>1. ASSUME TypeInv, LogInv, NEW q \in Requests, req[q].pc = "idle", req[q].outcome = "ok",
             NEW k \in DOMAIN req[q].results, NEW n \in DOMAIN Steps
      PROVE  <<req[q].results[k].device, Steps[n]>> \in {<<row.device, row.step>> : row \in req[q].log}
                <=> ~req[q].results[k].skipped
    <2> DEFINE r == req[q]
               d == r.results[k].device
    <2>1. r \in RequestRecords /\ LogFacts(r)
        BY <1>1 DEF TypeInv, TypeOK, LogInv, LogOf, Acting
    <2>2. k \in DOMAIN r.resolved
        BY <2>1, RecordFacts DEF LogFacts
    <2>3. Given(r, d) = {Steps[j] : j \in Turns(r, k)}
        BY <2>1, <2>2 DEF LogFacts
    <2>4. Turns(r, k) = IF r.results[k].skipped THEN {} ELSE DOMAIN Steps
        <3>1. k # Len(r.results) + 1
            BY <2>1, RecordFacts
        <3> QED BY <3>1 DEF Turns
    <2>5. Steps[n] \in Given(r, d) <=> ~r.results[k].skipped
        BY <2>3, <2>4
    <2>6. Steps[n] \in Given(r, d) <=> <<d, Steps[n]>> \in {<<row.device, row.step>> : row \in r.log}
        BY NameFacts DEF Given
    <2> QED BY <2>5, <2>6
<1>2. TypeInv /\ LogInv => AnsweredMeansEveryStep
    BY <1>1 DEF AnsweredMeansEveryStep
<1> QED BY <1>2, TypeInvariant, LogInvariant, PTL

-----------------------------------------------------------------------------
(* The answer of a lone thread *)

\* The request has logged a success of the step for the lease i.
Did(r, i, step) == [device |-> i.device, step |-> step, succeeded |-> TRUE] \in r.log

\* What the request did for the lease i is in force, or undone by a restart of Kea.
InForce(r, i) ==
    LET on == r.action = "quarantine"
    IN  /\ Did(r, i, "kea") => InKea(i, on) \/ i.device \in undone
        /\ Did(r, i, "arp") => loop[i.device] = IF on THEN i ELSE NoIdentity
        /\ \A p \in Instances : Did(r, i, p) => (i.ip \in blocked[p]) = on

\* A result reports only what was logged.
Shown(r, k) ==
    LET s == r.results[k]
        i == r.resolved[k]
    IN  /\ s.kea => Did(r, i, "kea")
        /\ s.arp => Did(r, i, "arp")
        /\ s.pihole => \A p \in Instances : Did(r, i, p)

TruthOf(r) ==
    Acting(r) => /\ \A k \in DOMAIN r.resolved : InForce(r, r.resolved[k])
                 /\ \A k \in DOMAIN r.results : Shown(r, k)

TruthInv == \A q \in Requests : TruthOf(req[q])

\* What a step leaves alone, and the row it adds.
LEMMA SteppedFacts ==
    ASSUME TypeInv, NEW q \in Requests, req[q].pc = "step", NEW succeeded \in BOOLEAN,
           Stepped(q, succeeded)
    PROVE  /\ req'[q].log = req[q].log \cup {LogRow(q, Steps[req[q].at], succeeded)}
           /\ req'[q].resolved = req[q].resolved /\ req'[q].results = req[q].results
           /\ req'[q].action = req[q].action /\ req'[q].pc \in {"step", "stamp"}
<1>1. req[q] \in RequestRecords /\ q \in DOMAIN req
    BY ServedFacts DEF TypeInv, TypeOK
<1>2. req'[q] = [req[q] EXCEPT !.log = req[q].log \cup {LogRow(q, Steps[req[q].at], succeeded)},
              !.at = IF req[q].at = Len(Steps) THEN 0 ELSE req[q].at + 1,
              !.pc = IF req[q].at = Len(Steps) THEN "stamp" ELSE req[q].pc]
    BY <1>1 DEF Stepped
<1> HIDE DEF LogRow
<1> QED BY <1>1, <1>2 DEF RequestRecords

\* What an error leaves is not acted on.
LEMMA FailTruth == ASSUME TypeInv, NEW q \in Requests, Fail(q) PROVE TruthOf(req[q])'
<1>1. req[q] \in RequestRecords /\ q \in DOMAIN req
    BY ServedFacts DEF TypeInv, TypeOK
<1>2. req'[q] = [req[q] EXCEPT !.pc = "idle", !.asked = Blank, !.outcome = "error"]
    BY <1>1 DEF Fail
<1>3. req'[q].pc = "idle" /\ req'[q].outcome = "error"
    BY <1>1, <1>2 DEF RequestRecords
<1> QED BY <1>3 DEF TruthOf, Acting

\* A row for the step of another device, or of another kind, says nothing new.
LEMMA DidFacts ==
    ASSUME TypeInv, LogInv, NEW q \in Requests, req[q].pc = "step", NEW succeeded \in BOOLEAN,
           Stepped(q, succeeded), NEW k \in DOMAIN req[q].resolved, NEW step
    PROVE  Did(req'[q], req[q].resolved[k], step) =>
              \/ Did(req[q], req[q].resolved[k], step)
              \/ succeeded /\ step = Steps[req[q].at] /\ req[q].resolved[k] = Current(q)
<1> DEFINE i == req[q].resolved[k]
<1>1. req'[q].log = req[q].log \cup {LogRow(q, Steps[req[q].at], succeeded)}
    BY SteppedFacts
<1>2. [device |-> i.device, step |-> step, succeeded |-> TRUE] = LogRow(q, Steps[req[q].at], succeeded)
          => succeeded /\ step = Steps[req[q].at] /\ i.device = Current(q).device
    BY DEF LogRow
<1>3. i.device = Current(q).device => i = Current(q)
    <2>1. LogFacts(req[q])
        BY DEF LogInv, LogOf, Acting
    <2>2. Len(req[q].results) + 1 \in DOMAIN req[q].resolved
        BY CurrentFacts
    <2> QED BY <2>1, <2>2 DEF LogFacts, Distinct, Current
<1> QED BY <1>1, <1>2, <1>3 DEF Did

\* A step that fails, or is done for another device, undoes nothing.
LEMMA EnforcingInForce ==
    ASSUME TypeInv, LogInv, TruthInv, NEW q \in Requests, Enforcing(q), ~Fail(q),
           NEW k \in DOMAIN req[q].resolved, NEW i, i = req[q].resolved[k]
    PROVE  InForce(req[q], i)'
<1> DEFINE on == req[q].action = "quarantine"
           cur == Current(q)
<1>1. req[q] \in RequestRecords
    BY DEF TypeInv, TypeOK
<1>2. req[q].pc = "step"
    BY DEF Enforcing, KeaStep, ArpStep, GatewayFailed, PiholeStep, NmapStep, StepRaised, At
<1>3. LogFacts(req[q]) /\ InForce(req[q], i) /\ req[q].at \in DOMAIN Steps
    BY <1>2, StepsFacts DEF LogInv, LogOf, TruthInv, TruthOf, Acting, TypeInv, Progress
<1>4. /\ dropped \subseteq Macs /\ onDisk \subseteq Macs
      /\ loop \in [Devices -> Identities \cup {NoIdentity}]
      /\ blocked \in [Instances -> SUBSET Ips] /\ cur.device \in Devices
    BY <1>2, CurrentFacts DEF TypeInv, TypeOK
<1>5. \A succeeded \in BOOLEAN : Stepped(q, succeeded) =>
          /\ req'[q].action = req[q].action
          /\ \A step : Did(req'[q], i, step) =>
                \/ Did(req[q], i, step)
                \/ succeeded /\ step = Steps[req[q].at] /\ i = cur
    BY <1>2, SteppedFacts, DidFacts
<1> HIDE DEF cur
<1>6. CASE KeaStep(q)
    <2> DEFINE after == Toggled(dropped, q, cur.mac)
    <2>1. PICK succeeded \in BOOLEAN :
              /\ Stepped(q, succeeded)
              /\ \/ dropped' = after /\ onDisk' = after /\ undone' = undone \ {cur.device}
                 \/ dropped' = onDisk /\ onDisk' = onDisk /\ undone' = undone \cup {cur.device}
                 \/ /\ ~succeeded /\ undone' = undone
                    /\ \/ UNCHANGED <<dropped, onDisk>>
                       \/ dropped' = after /\ onDisk' \in {onDisk, after}
        BY <1>6 DEF KeaStep, cur
    <2>2. UNCHANGED <<loop, blocked>> /\ Steps[req[q].at] = "kea"
        BY <1>6 DEF KeaStep, At
    <2>3. /\ (cur.mac \in after) = on
          /\ (i.mac \in dropped) = on => (i.mac \in after) = on
        BY DEF Toggled
    <2>4. i.device = cur.device => i = cur
        <3>1. Len(req[q].results) + 1 \in DOMAIN req[q].resolved
            BY <1>2, CurrentFacts
        <3> QED BY <1>3, <3>1 DEF LogFacts, Distinct, Current, cur
    <2> HIDE DEF after
    <2>5. ASSUME Did(req'[q], i, "kea")
          PROVE  \/ (i.mac \in dropped') = on /\ (i.mac \in onDisk') = on
                 \/ i.device \in undone'
        <3>1. Did(req[q], i, "kea") =>
                  \/ (i.mac \in dropped) = on /\ (i.mac \in onDisk) = on
                  \/ i.device \in undone
            BY <1>3 DEF InForce, InKea
        <3>2. Did(req[q], i, "kea") \/ (succeeded /\ i = cur)
            BY <1>5, <2>1, <2>5
        <3>3. CASE dropped' = after /\ onDisk' = after /\ undone' = undone \ {cur.device}
            BY <2>3, <2>4, <3>1, <3>2, <3>3
        <3>4. CASE dropped' = onDisk /\ onDisk' = onDisk /\ undone' = undone \cup {cur.device}
            BY <3>1, <3>2, <3>4
        <3>5. CASE /\ ~succeeded /\ undone' = undone
                   /\ \/ UNCHANGED <<dropped, onDisk>>
                      \/ dropped' = after /\ onDisk' \in {onDisk, after}
            BY <2>3, <3>1, <3>2, <3>5
        <3> QED BY <2>1, <3>3, <3>4, <3>5
    <2>6. /\ Did(req'[q], i, "arp") => loop'[i.device] = IF on THEN i ELSE NoIdentity
          /\ \A p \in Instances : Did(req'[q], i, p) => (i.ip \in blocked'[p]) = on
        <3>1. "kea" \notin Instances
            BY EnforcementAssumption
        <3> QED BY <1>3, <1>5, <2>1, <2>2, <3>1 DEF InForce
    <2> QED BY <1>5, <2>1, <2>5, <2>6 DEF InForce, InKea
<1>7. CASE ArpStep(q)
    <2> DEFINE after == IF on THEN cur ELSE NoIdentity
    <2>1. PICK succeeded \in BOOLEAN :
              /\ Stepped(q, succeeded)
              /\ succeeded => loop' = [loop EXCEPT ![cur.device] = after]
              /\ \E j \in {NoIdentity, after} : loop' = [loop EXCEPT ![cur.device] = j]
        BY <1>7 DEF ArpStep, cur
    <2>2. UNCHANGED <<dropped, onDisk, undone, blocked>> /\ Steps[req[q].at] = "arp"
        BY <1>7 DEF ArpStep, At
    <2>3. ~Did(req[q], cur, "arp")
        <3>1. Given(req[q], cur.device) = {Steps[n] : n \in 1..(req[q].at - 1)}
            <4> DEFINE here == Len(req[q].results) + 1
            <4>1. here \in DOMAIN req[q].resolved /\ cur = req[q].resolved[here]
                BY <1>2, CurrentFacts DEF Current, cur
            <4>2. here \notin DOMAIN req[q].results
                BY <1>1, RecordFacts
            <4>3. Turns(req[q], here) = 1..(req[q].at - 1)
                BY <1>2, <4>2 DEF Turns
            <4> QED BY <1>3, <4>1, <4>3 DEF LogFacts
        <3>2. req[q].at = 2
            BY <1>3, <2>2, NameFacts
        <3>3. "arp" \notin Given(req[q], cur.device)
            BY <3>1, <3>2, StepsFacts
        <3> QED BY <3>3 DEF Did, Given
    <2>4. Did(req'[q], i, "arp") => loop'[i.device] = IF on THEN i ELSE NoIdentity
        <3>1. CASE i.device = cur.device
            <4>1. Did(req[q], i, "arp") => Did(req[q], cur, "arp")
                BY <3>1 DEF Did
            <4> QED BY <1>4, <1>5, <2>1, <2>3, <4>1
        <3>2. CASE i.device # cur.device
            <4>1. loop'[i.device] = loop[i.device]
                <5>1. i.device \in Devices
                    BY <1>1, RecordFacts, IdentityFacts
                <5> QED BY <1>4, <2>1, <3>2, <5>1
            <4> QED BY <1>3, <1>5, <2>1, <3>2, <4>1 DEF InForce
        <3> QED BY <3>1, <3>2
    <2>5. /\ Did(req'[q], i, "kea") =>
                \/ (i.mac \in dropped') = on /\ (i.mac \in onDisk') = on
                \/ i.device \in undone'
          /\ \A p \in Instances : Did(req'[q], i, p) => (i.ip \in blocked'[p]) = on
        <3>1. "arp" \notin Instances
            BY EnforcementAssumption
        <3> QED BY <1>3, <1>5, <2>1, <2>2, <3>1 DEF InForce, InKea
    <2> QED BY <1>5, <2>1, <2>4, <2>5 DEF InForce, InKea
<1>8. ASSUME NEW p \in Instances, PiholeStep(q, p) PROVE InForce(req[q], i)'
    <2> DEFINE after == Toggled(blocked[p], q, cur.ip)
    <2>1. PICK succeeded \in BOOLEAN :
              /\ Stepped(q, succeeded)
              /\ succeeded => blocked' = [blocked EXCEPT ![p] = after]
              /\ \E ips \in {blocked[p], after} : blocked' = [blocked EXCEPT ![p] = ips]
        BY <1>8 DEF PiholeStep, cur
    <2>2. UNCHANGED <<dropped, onDisk, undone, loop>> /\ Steps[req[q].at] = p
        BY <1>8 DEF PiholeStep, At
    <2>3. /\ (cur.ip \in after) = on
          /\ (i.ip \in blocked[p]) = on => (i.ip \in after) = on
        BY DEF Toggled
    <2> HIDE DEF after
    <2>4. \A p2 \in Instances : Did(req'[q], i, p2) => (i.ip \in blocked'[p2]) = on
        <3>1. SUFFICES ASSUME NEW p2 \in Instances, Did(req'[q], i, p2)
                       PROVE  (i.ip \in blocked'[p2]) = on
            OBVIOUS
        <3>2. CASE p2 = p
            BY <1>3, <1>4, <1>5, <2>1, <2>2, <2>3, <3>1, <3>2 DEF InForce
        <3>3. CASE p2 # p
            BY <1>3, <1>4, <1>5, <2>1, <2>2, <3>1, <3>3 DEF InForce
        <3> QED BY <3>2, <3>3
    <2>5. /\ Did(req'[q], i, "kea") =>
                \/ (i.mac \in dropped') = on /\ (i.mac \in onDisk') = on
                \/ i.device \in undone'
          /\ Did(req'[q], i, "arp") => loop'[i.device] = IF on THEN i ELSE NoIdentity
        <3>1. p # "arp" /\ p # "kea"
            BY EnforcementAssumption
        <3> QED BY <1>3, <1>5, <2>1, <2>2, <3>1 DEF InForce, InKea
    <2> QED BY <1>5, <2>1, <2>4, <2>5 DEF InForce, InKea
<1>9. CASE NmapStep(q)
    <2>1. PICK succeeded \in BOOLEAN : Stepped(q, succeeded)
        BY <1>9 DEF NmapStep
    <2>2. UNCHANGED <<dropped, onDisk, undone, loop, blocked>> /\ Steps[req[q].at] = "nmap_refresh"
        BY <1>9 DEF NmapStep, At, layers
    <2>3. "nmap_refresh" \notin Instances
        BY EnforcementAssumption
    <2> QED BY <1>3, <1>5, <2>1, <2>2, <2>3 DEF InForce, InKea
<1>10. ~(GatewayFailed(q) \/ StepRaised(q))
    BY DEF GatewayFailed, StepRaised
<1> QED BY <1>6, <1>7, <1>8, <1>9, <1>10 DEF Enforcing

\* So the truth of a request survives its steps.
LEMMA EnforcingTruth ==
    ASSUME TypeInv, LogInv, TruthInv, NEW q \in Requests, Enforcing(q)
    PROVE  TruthOf(req[q])'
<1>1. CASE Fail(q)
    BY <1>1, FailTruth
<1>2. CASE ~Fail(q)
    <2>1. req[q].pc = "step"
        BY DEF Enforcing, KeaStep, ArpStep, GatewayFailed, PiholeStep, NmapStep, StepRaised, At
    <2>2. PICK succeeded \in BOOLEAN : Stepped(q, succeeded)
        BY <1>2 DEF Enforcing, KeaStep, ArpStep, GatewayFailed, PiholeStep, NmapStep, StepRaised
    <2>3. /\ req[q].log \subseteq req'[q].log
          /\ req'[q].resolved = req[q].resolved /\ req'[q].results = req[q].results
        BY <2>1, <2>2, SteppedFacts
    <2>4. \A k \in DOMAIN req[q].results : Shown(req[q], k)
        BY <2>1 DEF TruthInv, TruthOf, Acting
    <2>5. \A k \in DOMAIN req'[q].results : Shown(req'[q], k)
        <3>1. \A i, step : Did(req[q], i, step) => Did(req'[q], i, step)
            BY <2>3 DEF Did
        <3> QED BY <2>3, <2>4, <3>1 DEF Shown
    <2>6. \A k \in DOMAIN req[q].resolved : \A i : i = req[q].resolved[k] => InForce(req[q], i)'
        BY <1>2, EnforcingInForce
    <2>7. (\A k \in DOMAIN req[q].resolved : InForce(req[q], req[q].resolved[k]))'
        BY <2>3, <2>6 DEF InForce
    <2> QED BY <2>5, <2>7 DEF TruthOf
<1> QED BY <1>1, <1>2

\* What is in force stays so while no layer changes and no step is logged.
LEMMA QuietTruth ==
    ASSUME NEW q \in Requests, UNCHANGED layers, TruthOf(req[q]), Acting(req[q]),
           req'[q].resolved = req[q].resolved, req'[q].action = req[q].action,
           \A i, step : step \in Instances \cup {"kea", "arp"} =>
              (Did(req'[q], i, step) <=> Did(req[q], i, step)),
           \A k \in DOMAIN req'[q].results :
              \/ Shown(req'[q], k)
              \/ k \in DOMAIN req[q].results /\ req'[q].results[k] = req[q].results[k]
    PROVE  TruthOf(req[q])'
<1>1. (\A k \in DOMAIN req[q].resolved : InForce(req[q], req[q].resolved[k]))'
    <2>1. \A k \in DOMAIN req[q].resolved : InForce(req[q], req[q].resolved[k])
        BY DEF TruthOf
    <2> QED BY <2>1 DEF InForce, InKea, layers
<1>2. \A k \in DOMAIN req'[q].results : Shown(req'[q], k)
    <2>1. \A k \in DOMAIN req[q].results : Shown(req[q], k)
        BY DEF TruthOf
    <2> QED BY <2>1 DEF Shown
<1> QED BY <1>1, <1>2 DEF TruthOf

\* What the result of a finished device adds.
LEMMA FinishFacts ==
    ASSUME NEW r \in RequestRecords, NEW result \in Results,
           NEW s, s = Finish(r, result)
    PROVE  /\ s.resolved = r.resolved /\ s.action = r.action /\ s.log = r.log
           /\ s.results[Len(r.results) + 1] = result
           /\ \A k \in DOMAIN s.results :
                 \/ k = Len(r.results) + 1
                 \/ k \in DOMAIN r.results /\ s.results[k] = r.results[k]
<1> DEFINE done == Append(r.results, result)
<1>1. /\ \A k \in DOMAIN done : k \in DOMAIN r.results \/ k = Len(r.results) + 1
      /\ \A k \in DOMAIN r.results : done[k] = r.results[k]
      /\ done[Len(r.results) + 1] = result
    BY RecordFacts
<1> HIDE DEF done
<1>2. s = [r EXCEPT !.results = done, !.at = 0,
               !.pc = IF Len(done) = Len(r.resolved) THEN "idle" ELSE "verify",
               !.outcome = IF Len(done) = Len(r.resolved) THEN "ok" ELSE r.outcome]
    BY DEF Finish, done
<1>3. /\ s.results = done /\ s.resolved = r.resolved /\ s.log = r.log /\ s.action = r.action
    BY <1>2 DEF RequestRecords
<1> QED BY <1>1, <1>3

\* A check of a device, a stamp and an answer change no layer.
LEMMA CheckingTruth ==
    ASSUME TypeInv, LogInv, TruthInv, NEW q \in Requests, UNCHANGED layers,
           Verify(q) \/ VerifyDrifted(q) \/ VerifyFailed(q) \/ Stamp(q) \/ StampFailed(q)
    PROVE  TruthOf(req[q])'
<1>1. req[q] \in RequestRecords /\ q \in DOMAIN req /\ TruthOf(req[q])
    BY ServedFacts DEF TypeInv, TypeOK, TruthInv
<1>2. req[q].pc \in {"verify", "stamp"} /\ Acting(req[q])
    BY DEF Verify, VerifyDrifted, VerifyFailed, Stamp, StampFailed, Acting
<1>3. "identity_resolution" \notin Instances \cup {"kea", "arp"}
    BY EnforcementAssumption
<1>4. ASSUME NEW r, NEW succeeded \in BOOLEAN,
             r.log = req[q].log \cup {LogRow(q, "identity_resolution", succeeded)}
      PROVE  \A i, step : step \in Instances \cup {"kea", "arp"} =>
                (Did(r, i, step) <=> Did(req[q], i, step))
    <2>1. \A i, step : step # "identity_resolution" =>
              [device |-> i.device, step |-> step, succeeded |-> TRUE]
                  # LogRow(q, "identity_resolution", succeeded)
        BY DEF LogRow
    <2> QED BY <1>3, <1>4, <2>1 DEF Did
<1>5. CASE Verify(q)
    <2>1. req'[q] = [req[q] EXCEPT !.pc = "step", !.at = 1,
                  !.log = req[q].log \cup {LogRow(q, "identity_resolution", TRUE)}]
        BY <1>1, <1>5 DEF Verify
    <2> HIDE DEF LogRow
    <2>2. /\ req'[q].resolved = req[q].resolved /\ req'[q].action = req[q].action
          /\ req'[q].results = req[q].results
          /\ req'[q].log = req[q].log \cup {LogRow(q, "identity_resolution", TRUE)}
        BY <1>1, <2>1 DEF RequestRecords
    <2> QED BY <1>1, <1>2, <1>4, <2>2, QuietTruth
<1>6. CASE VerifyDrifted(q)
    <2> DEFINE r == [req[q] EXCEPT
                        !.log = req[q].log \cup {LogRow(q, "identity_resolution", FALSE)}]
               result == SkippedResult(Current(q).device)
    <2>1. req'[q] = Finish(r, result)
        BY <1>1, <1>6 DEF VerifyDrifted
    <2>2. LogRow(q, "identity_resolution", FALSE) \in LogRows
        BY <1>2, LogRowType
    <2>3. /\ r \in RequestRecords /\ r.results = req[q].results /\ r.resolved = req[q].resolved
          /\ r.action = req[q].action
          /\ r.log = req[q].log \cup {LogRow(q, "identity_resolution", FALSE)}
        BY <1>1, <2>2, RecordFacts DEF RequestRecords
    <2>4. result \in Results /\ ~result.kea /\ ~result.arp /\ ~result.pihole
        BY <1>2, CurrentFacts DEF SkippedResult, Results
    <2> HIDE DEF r, result
    <2>5. /\ req'[q].resolved = r.resolved /\ req'[q].action = r.action /\ req'[q].log = r.log
          /\ req'[q].results[Len(r.results) + 1] = result
          /\ \A k \in DOMAIN req'[q].results :
                \/ k = Len(r.results) + 1
                \/ k \in DOMAIN r.results /\ req'[q].results[k] = r.results[k]
        <3>1. r \in RequestRecords /\ result \in Results
            BY <2>3, <2>4
        <3> QED BY <2>1, <3>1, FinishFacts
    <2>6. Shown(req'[q], Len(r.results) + 1)
        BY <2>4, <2>5 DEF Shown
    <2>7. \A i, step : step \in Instances \cup {"kea", "arp"} =>
              (Did(req'[q], i, step) <=> Did(req[q], i, step))
        BY <1>4, <2>3, <2>5
    <2> QED BY <1>1, <1>2, <2>3, <2>5, <2>6, <2>7, QuietTruth
<1>7. CASE Stamp(q)
    <2> DEFINE result == EnforcedResult(q)
    <2>1. req'[q] = Finish(req[q], result)
        BY <1>1, <1>7 DEF Stamp
    <2>2. result \in Results
        BY <1>2, CurrentFacts DEF EnforcedResult, Results, Succeeded
    <2>3. /\ result.kea => Did(req[q], Current(q), "kea")
          /\ result.arp => Did(req[q], Current(q), "arp")
          /\ result.pihole => \A p \in Instances : Did(req[q], Current(q), p)
        BY DEF EnforcedResult, Succeeded, Did, LogRow
    <2> HIDE DEF result
    <2>4. /\ req'[q].resolved = req[q].resolved /\ req'[q].action = req[q].action
          /\ req'[q].log = req[q].log
          /\ req'[q].results[Len(req[q].results) + 1] = result
          /\ \A k \in DOMAIN req'[q].results :
                \/ k = Len(req[q].results) + 1
                \/ k \in DOMAIN req[q].results /\ req'[q].results[k] = req[q].results[k]
        BY <1>1, <2>1, <2>2, FinishFacts
    <2>5. \A i, step : Did(req'[q], i, step) <=> Did(req[q], i, step)
        BY <2>4 DEF Did
    <2>6. Shown(req'[q], Len(req[q].results) + 1)
        BY <2>3, <2>4, <2>5 DEF Shown, Current
    <2> QED BY <1>1, <1>2, <2>4, <2>5, <2>6, QuietTruth
<1>8. CASE VerifyFailed(q) \/ StampFailed(q)
    BY <1>8, FailTruth DEF VerifyFailed, StampFailed
<1> QED BY <1>5, <1>6, <1>7, <1>8

\* What is resolved has not been acted on.
LEMMA ResolvingTruth ==
    ASSUME TypeInv, LogInv, NEW q \in Requests,
           \/ LookUp(q) \/ Resolved(q) \/ ResolveOffline(q) \/ ResolveFailed(q)
           \/ \E l \in leases : Resolve(q, l)
    PROVE  TruthOf(req[q])'
<1>1. /\ req[q] \in RequestRecords /\ Progress(req[q]) /\ LogOf(req[q]) /\ q \in DOMAIN req
    BY ServedFacts DEF TypeInv, TypeOK, LogInv
<1>2. CASE Fail(q)
    BY <1>2, FailTruth
<1>3. CASE Resolved(q) /\ ~Fail(q)
    <2>1. req'[q] = [req[q] EXCEPT !.pc = "verify", !.asked = Blank]
        BY <1>1, <1>3 DEF Resolved
    <2>2. req[q].log = {} /\ req[q].results = <<>>
        BY <1>1, <1>3 DEF Resolved, LogOf, Progress, EntryFacts
    <2>3. req'[q].log = {} /\ DOMAIN req'[q].results = {}
        BY <1>1, <2>1, <2>2 DEF RequestRecords
    <2>4. \A i, step : ~Did(req'[q], i, step)
        BY <2>3 DEF Did
    <2>5. \A i : InForce(req[q], i)'
        BY <2>4 DEF InForce
    <2>6. (\A k \in DOMAIN req[q].resolved : InForce(req[q], req[q].resolved[k]))'
        BY <2>4 DEF InForce
    <2> QED BY <2>3, <2>6 DEF TruthOf
<1>4. CASE LookUp(q)
    <2>1. \/ req'[q] = NoRequest
          \/ req'[q] = Matched(req[q], Matching(req[q].asked), Matching(req[q].asked))
        BY <1>1, <1>4 DEF LookUp
    <2>2. NoRequest.pc = "idle" /\ NoRequest.outcome # "ok"
        BY DEF NoRequest
    <2>3. \A t, m : Matched(req[q], t, m).pc = "resolve"
        BY <1>1 DEF Matched, RequestRecords
    <2>4. ~Acting(req'[q])
        BY <2>1, <2>2, <2>3 DEF Acting
    <2> QED BY <2>4 DEF TruthOf
<1>5. CASE /\ ResolveOffline(q) \/ ResolveFailed(q) \/ \E l \in leases : Resolve(q, l)
           /\ ~Fail(q)
    <2>1. req'[q].pc = "resolve"
        BY <1>1, <1>5 DEF ResolveOffline, ResolveFailed, Resolve, RequestRecords
    <2>2. ~Acting(req'[q])
        BY <2>1 DEF Acting
    <2> QED BY <2>2 DEF TruthOf
<1> QED BY <1>2, <1>3, <1>4, <1>5

\* With one thread, every step keeps answers true: what has been reported is
\* undone by nobody before the next request.
LEMMA TruthNext ==
    ASSUME \A p, q \in Requests : p = q, TypeInv, LogInv, TruthInv, [Next]_vars
    PROVE  TruthInv'
<1> SUFFICES ASSUME NEW q \in Requests PROVE TruthOf(req[q])'
    BY DEF TruthInv
<1>1. q \in DOMAIN req /\ TruthOf(req[q]) /\ \A p \in Requests : p = q
    BY ServedFacts DEF TruthInv
<1>2. ASSUME UNCHANGED layers, UNCHANGED req PROVE TruthOf(req[q])'
    BY <1>1, <1>2 DEF TruthOf, InForce, InKea, Did, layers
<1>3. ASSUME NEW action \in Actions, NEW asked \in Spellings, NEW isGroup \in BOOLEAN,
             Start(q, action, asked, isGroup)
      PROVE  TruthOf(req[q])'
    <2> DEFINE r == [NoRequest EXCEPT !.action = action, !.asked = asked, !.isGroup = isGroup]
    <2>1. r \in RequestRecords
        BY AskedType
    <2>2. req' = [req EXCEPT ![q] =
              IF isGroup THEN Matched(r, Group, Group \cap registered)
              ELSE IF Exact(asked) THEN Matched(r, {asked}, {asked})
              ELSE [r EXCEPT !.pc = "lookup"]]
        BY <1>3, Zenon DEF Start
    <2> HIDE DEF r
    <2>3. \A target, matches : Matched(r, target, matches).pc = "resolve"
        BY <2>1 DEF Matched, RequestRecords
    <2>4. [r EXCEPT !.pc = "lookup"].pc = "lookup"
        BY <2>1 DEF RequestRecords
    <2>5. ~Acting(req'[q])
        BY <1>1, <2>2, <2>3, <2>4 DEF Acting
    <2> QED BY <2>5 DEF TruthOf
<1>4. CASE \E i \in Identities : Acquire(i) \/ Expire(i)
    BY <1>2, <1>4 DEF Acquire, Expire
<1>5. CASE \E p \in Requests, action \in Actions : \E asked \in Spellings, isGroup \in BOOLEAN :
               Ask(p, action, asked, isGroup)
    BY <1>1, <1>3, <1>5 DEF Ask
<1>6. CASE \E p \in Requests : RequestStep(p)
    BY <1>1, <1>6, RequestFrame, EnforcingTruth, CheckingTruth, ResolvingTruth
<1>7. CASE \E d \in Devices : \/ AddRow(d) \/ DeleteFree(d) \/ DropRow(d) \/ ForceDelete(d)
                              \/ \E p \in Requests : DeleteQuarantined(d, p)
    <2>1. CASE \E d \in Devices : AddRow(d) \/ DeleteFree(d) \/ DropRow(d) \/ ForceDelete(d)
        BY <1>2, <2>1 DEF AddRow, DeleteFree, DropRow, ForceDelete
    <2>2. CASE \E d \in Devices, p \in Requests : DeleteQuarantined(d, p)
        BY <1>1, <1>3, <2>2 DEF DeleteQuarantined, Actions, Spellings
    <2> QED BY <1>7, <2>1, <2>2
<1>8. CASE Answered \/ AnswerLost \/ UNCHANGED vars
    BY <1>2, <1>8 DEF Answered, AnswerLost, vars, layers
<1>9. CASE ServiceRestart
    <2>1. req'[q] = NoRequest
        BY <1>9 DEF ServiceRestart
    <2>2. ~Acting(req'[q])
        BY <2>1 DEF Acting, NoRequest
    <2> QED BY <2>2 DEF TruthOf
<1>10. CASE KeaRestart
    <2>1. dropped' = onDisk /\ UNCHANGED <<onDisk, undone, loop, blocked, req>>
        BY <1>10 DEF KeaRestart
    <2> QED BY <1>1, <2>1 DEF TruthOf, InForce, InKea, Did, Shown
<1>11. CASE \E d \in Devices, i \in Identities : LoopEnds(d, i)
    <2>1. UNCHANGED <<dropped, onDisk, undone, loop, blocked, req>>
        BY <1>11 DEF LoopEnds
    <2> QED BY <1>1, <2>1 DEF TruthOf, InForce, InKea, Did, Shown
<1> QED BY <1>4, <1>5, <1>6, <1>7, <1>8, <1>9, <1>10, <1>11 DEF Next

LEMMA TruthInit == Init => TruthInv
<1>1. ~Acting(NoRequest)
    BY DEF Acting, NoRequest
<1> QED BY <1>1 DEF Init, TruthInv, TruthOf

\* With one thread, what an answer reports as done is in force until the next
\* request, but for a kea step a restart of Kea undid under way, for any devices,
\* leases and Pi-holes and whatever parts may fail.
THEOREM AnswersAreTrue ==
    ASSUME \A p, q \in Requests : p = q
    PROVE  FairSpec => []ResponseIsTrue
<1>1. ASSUME TypeInv, LogInv, TruthInv, NEW q \in Requests, req[q].pc = "idle", req[q].outcome = "ok",
             NEW k \in DOMAIN req[q].results
      PROVE  LET on == req[q].action = "quarantine"
                 r == req[q].results[k]
                 i == req[q].resolved[k]
             IN  /\ r.device = i.device
                 /\ r.kea => InKea(i, on) \/ i.device \in undone
                 /\ r.arp => InArp(i, on)
                 /\ r.pihole => InPihole(i, on)
    <2>1. LogFacts(req[q]) /\ Acting(req[q])
        BY <1>1 DEF LogInv, LogOf, Acting
    <2>2. k \in DOMAIN req[q].resolved
        BY <1>1, <2>1, RecordFacts DEF LogFacts, TypeInv, TypeOK
    <2>3. InForce(req[q], req[q].resolved[k]) /\ Shown(req[q], k)
        BY <1>1, <2>1, <2>2 DEF TruthInv, TruthOf
    <2>4. req[q].results[k].device = req[q].resolved[k].device
        BY <2>1 DEF LogFacts
    <2> QED BY <2>3, <2>4 DEF InForce, InArp, InPihole, Shown
<1>2. TypeInv /\ LogInv /\ TruthInv => ResponseIsTrue
    BY <1>1 DEF ResponseIsTrue
<1>3. FairSpec => []TruthInv
    BY TypeInvariant, LogInvariant, TruthInit, TruthNext, PTL DEF FairSpec, Spec
<1> QED BY <1>2, <1>3, TypeInvariant, LogInvariant, PTL

\* With one thread, the spoken summary rounds nothing up: whom it calls off the
\* internet, or back online, is so in every layer, but for a kea step a restart of
\* Kea undid under way, and it leaves nobody out.
THEOREM SummariesAreTrue ==
    ASSUME \A p, q \in Requests : p = q
    PROVE  FairSpec => []SummaryIsTrue
<1>1. ASSUME TypeInv, LogInv, TruthInv, NEW q \in Requests, req[q].pc = "idle", req[q].outcome = "ok"
      PROVE  LET told == HumanSummary(req[q].results)
                 on == req[q].action = "quarantine"
             IN  /\ told.succeeded \cap told.failed = {}
                 /\ \A k \in DOMAIN req[q].resolved :
                       LET i == req[q].resolved[k]
                       IN  \/ /\ i.device \in told.succeeded
                              /\ InKea(i, on) \/ i.device \in undone
                              /\ InArp(i, on) /\ InPihole(i, on)
                           \/ i.device \in told.failed
    <2> DEFINE r == req[q]
               told == HumanSummary(r.results)
               on == r.action = "quarantine"
               named(good) == {r.results[k].device : k \in
                                  {n \in DOMAIN r.results : EnforcementSucceeded(r.results[n]) = good}}
    <2>1. r \in RequestRecords /\ LogFacts(r) /\ Acting(r) /\ Len(r.results) = Len(r.resolved)
        BY <1>1 DEF LogInv, LogOf, Acting, TypeInv, TypeOK, Progress
    <2>2. DOMAIN r.results = DOMAIN r.resolved
        BY <2>1, RecordFacts
    <2>3. told.succeeded = named(TRUE) /\ told.failed = named(FALSE)
        BY DEF HumanSummary
    <2>4. \A j, k \in DOMAIN r.results : r.results[j].device = r.results[k].device => j = k
        BY <2>1, <2>2 DEF LogFacts, Distinct
    <2>5. named(TRUE) \cap named(FALSE) = {}
        BY <2>4
    <2>6. ASSUME NEW k \in DOMAIN r.resolved
          PROVE  LET i == r.resolved[k]
                 IN  \/ /\ i.device \in named(TRUE)
                        /\ InKea(i, on) \/ i.device \in undone
                        /\ InArp(i, on) /\ InPihole(i, on)
                     \/ i.device \in named(FALSE)
        <3>1. InForce(r, r.resolved[k]) /\ Shown(r, k) /\ r.results[k].device = r.resolved[k].device
            BY <1>1, <2>1, <2>2, <2>6 DEF TruthInv, TruthOf, LogFacts
        <3>2. EnforcementSucceeded(r.results[k]) \in BOOLEAN /\ r.results[k] \in Results
            BY <2>1, <2>2, <2>6, RecordFacts DEF EnforcementSucceeded
        <3>3. CASE EnforcementSucceeded(r.results[k])
            <4>1. /\ InKea(r.resolved[k], on) \/ r.resolved[k].device \in undone
                  /\ InArp(r.resolved[k], on) /\ InPihole(r.resolved[k], on)
                BY <3>1, <3>3 DEF EnforcementSucceeded, InForce, Shown, InArp, InPihole
            <4>2. r.results[k].device \in named(TRUE)
                BY <2>2, <3>3
            <4> QED BY <3>1, <4>1, <4>2
        <3>4. CASE ~EnforcementSucceeded(r.results[k])
            <4>1. r.results[k].device \in named(FALSE)
                BY <2>2, <3>2, <3>4
            <4> QED BY <3>1, <4>1
        <3> QED BY <3>3, <3>4
    <2> HIDE DEF named, told
    <2>7. told.succeeded \cap told.failed = {}
        BY <2>3, <2>5
    <2> QED BY <2>3, <2>6, <2>7 DEF told
<1>2. TypeInv /\ LogInv /\ TruthInv => SummaryIsTrue
    BY <1>1 DEF SummaryIsTrue
<1>3. FairSpec => []TruthInv
    BY TypeInvariant, LogInvariant, TruthInit, TruthNext, PTL DEF FairSpec, Spec
<1> QED BY <1>2, <1>3, TypeInvariant, LogInvariant, PTL

-----------------------------------------------------------------------------
(* Deletion and the flag *)

\* Only the admin and the scans make trouble.
Calm == scenario \subseteq {"delete", "nmap"}

\* A row of the log that tells of no layer left undone.
Tidy(row) == row.succeeded \/ row.step \in {"nmap_refresh", "identity_resolution"}

\* r goes on as s: no device is added but those to be resolved, and no layer is
\* left undone.
Continues(r, s) ==
    /\ r.pc \notin {"idle", "lookup"} /\ s.pc # "lookup"
    /\ s.pc = "resolve" => r.pc = "resolve"
    /\ s.target = r.target /\ s.action = r.action
    /\ s.entries \subseteq r.entries
    /\ \A k \in DOMAIN s.resolved :
          \/ \E j \in DOMAIN r.resolved : s.resolved[k] = r.resolved[j]
          \/ r.pc = "resolve" /\ \E e \in r.entries : s.resolved[k].device = e.device
    /\ \A row \in s.log : row \in r.log \/ Tidy(row)

\* Every step of a request but a lookup continues it.
LEMMA ContinueFacts ==
    ASSUME TypeInv, Calm, NEW q \in Requests, RequestStep(q), ~LookUp(q)
    PROVE  Continues(req[q], req'[q])
<1>1. req[q] \in RequestRecords /\ q \in DOMAIN req
    BY ServedFacts DEF TypeInv, TypeOK
<1>2. ASSUME req[q].pc \notin {"idle", "lookup"}, req'[q].pc # "lookup",
             req'[q].pc = "resolve" => req[q].pc = "resolve",
             req'[q].target = req[q].target, req'[q].action = req[q].action,
             req'[q].entries \subseteq req[q].entries, req'[q].resolved = req[q].resolved,
             \A row \in req'[q].log : row \in req[q].log \/ Tidy(row)
      PROVE  Continues(req[q], req'[q])
    BY <1>2 DEF Continues
<1>3. ASSUME Fail(q), req[q].pc \notin {"idle", "lookup"} PROVE Continues(req[q], req'[q])
    <2>1. req'[q] = [req[q] EXCEPT !.pc = "idle", !.asked = Blank, !.outcome = "error"]
        BY <1>1, <1>3 DEF Fail
    <2>2. /\ req'[q].pc = "idle" /\ req'[q].target = req[q].target
          /\ req'[q].action = req[q].action /\ req'[q].entries = req[q].entries
          /\ req'[q].resolved = req[q].resolved /\ req'[q].log = req[q].log
        BY <1>1, <2>1 DEF RequestRecords
    <2> QED BY <1>2, <1>3, <2>2
<1>4. ASSUME NEW l \in leases, Resolve(q, l) PROVE Continues(req[q], req'[q])
    <2> DEFINE e == NextEntry(q)
    <2>1. req'[q] = [req[q] EXCEPT !.entries = req[q].entries \ {e},
                                   !.resolved = Append(req[q].resolved, l)]
        BY <1>1, <1>4 DEF Resolve
    <2>2. e \in req[q].entries /\ l.device = e.device /\ l \in Identities /\ req[q].pc = "resolve"
        BY <1>4, NextEntryFacts DEF Resolve, LeasesOf, TypeInv, TypeOK
    <2> HIDE DEF e
    <2>3. /\ req'[q].pc = "resolve" /\ req'[q].target = req[q].target
          /\ req'[q].action = req[q].action /\ req'[q].entries = req[q].entries \ {e}
          /\ req'[q].resolved = Append(req[q].resolved, l) /\ req'[q].log = req[q].log
        BY <1>1, <2>1, <2>2 DEF RequestRecords
    <2>4. \A k \in DOMAIN req'[q].resolved :
              \/ k \in DOMAIN req[q].resolved /\ req'[q].resolved[k] = req[q].resolved[k]
              \/ req'[q].resolved[k] = l
        BY <1>1, <2>2, <2>3, RecordFacts
    <2> QED BY <2>2, <2>3, <2>4 DEF Continues
<1>5. CASE ResolveOffline(q) \/ ResolveFailed(q) \/ Resolved(q)
    <2>1. req[q].pc = "resolve"
        BY <1>5 DEF ResolveOffline, ResolveFailed, Resolved
    <2>2. CASE ~Fail(q)
        <3>1. \/ req'[q] = [req[q] EXCEPT !.entries = req[q].entries \ {NextEntry(q)}]
              \/ req'[q] = [req[q] EXCEPT !.pc = "verify", !.asked = Blank]
            BY <1>1, <1>5, <2>2 DEF ResolveOffline, ResolveFailed, Resolved
        <3>2. /\ req'[q].pc # "lookup" /\ req'[q].target = req[q].target
              /\ req'[q].action = req[q].action /\ req'[q].entries \subseteq req[q].entries
              /\ req'[q].resolved = req[q].resolved /\ req'[q].log = req[q].log
            BY <1>1, <2>1, <3>1 DEF RequestRecords
        <3> QED BY <1>2, <2>1, <3>2
    <2> QED BY <1>3, <2>1, <2>2
<1>6. CASE Enforcing(q)
    <2>1. req[q].pc = "step"
        BY <1>6 DEF Enforcing, KeaStep, ArpStep, GatewayFailed, PiholeStep, NmapStep, StepRaised, At
    <2>2. ASSUME NEW succeeded \in BOOLEAN, Stepped(q, succeeded),
                 succeeded \/ Steps[req[q].at] = "nmap_refresh"
          PROVE  Continues(req[q], req'[q])
        <3>1. Tidy(LogRow(q, Steps[req[q].at], succeeded))
            BY <2>2 DEF Tidy, LogRow
        <3> HIDE DEF LogRow
        <3>2. req'[q] = [req[q] EXCEPT !.log = req[q].log \cup {LogRow(q, Steps[req[q].at], succeeded)},
                  !.at = IF req[q].at = Len(Steps) THEN 0 ELSE req[q].at + 1,
                  !.pc = IF req[q].at = Len(Steps) THEN "stamp" ELSE req[q].pc]
            BY <1>1, <2>2 DEF Stepped
        <3>3. /\ req'[q].pc \in {"step", "stamp"} /\ req'[q].target = req[q].target
              /\ req'[q].action = req[q].action /\ req'[q].entries \subseteq req[q].entries
              /\ req'[q].resolved = req[q].resolved
              /\ req'[q].log = req[q].log \cup {LogRow(q, Steps[req[q].at], succeeded)}
            BY <1>1, <2>1, <3>2 DEF RequestRecords
        <3> QED BY <1>2, <2>1, <3>1, <3>3
    <2>3. Stepped(q, TRUE) \/ (Stepped(q, FALSE) /\ Steps[req[q].at] = "nmap_refresh")
        BY <1>6 DEF Enforcing, KeaStep, ArpStep, GatewayFailed, PiholeStep, NmapStep, StepRaised,
                    Calm, At
    <2> QED BY <2>2, <2>3
<1>7. CASE Verify(q)
    <2>1. req'[q] = [req[q] EXCEPT !.pc = "step", !.at = 1,
                  !.log = req[q].log \cup {LogRow(q, "identity_resolution", TRUE)}]
        BY <1>1, <1>7 DEF Verify
    <2>2. Tidy(LogRow(q, "identity_resolution", TRUE))
        BY DEF Tidy, LogRow
    <2> HIDE DEF LogRow
    <2>3. /\ req'[q].pc = "step" /\ req'[q].target = req[q].target
          /\ req'[q].action = req[q].action /\ req'[q].entries \subseteq req[q].entries
          /\ req'[q].resolved = req[q].resolved
          /\ req'[q].log = req[q].log \cup {LogRow(q, "identity_resolution", TRUE)}
        BY <1>1, <2>1 DEF RequestRecords
    <2> QED BY <1>2, <1>7, <2>2, <2>3 DEF Verify
<1>8. ASSUME NEW r \in RequestRecords, NEW result, req'[q] = Finish(r, result),
             req[q].pc \in {"verify", "stamp"}, r.target = req[q].target,
             r.action = req[q].action, r.entries = req[q].entries, r.resolved = req[q].resolved,
             \A row \in r.log : row \in req[q].log \/ Tidy(row)
      PROVE  Continues(req[q], req'[q])
    <2>1. /\ req'[q].pc \in {"idle", "verify"} /\ req'[q].target = r.target
          /\ req'[q].action = r.action /\ req'[q].entries = r.entries
          /\ req'[q].resolved = r.resolved /\ req'[q].log = r.log
        BY <1>8 DEF RequestRecords, Finish
    <2> QED BY <1>2, <1>8, <2>1
<1>9. CASE VerifyDrifted(q)
    <2> DEFINE r == [req[q] EXCEPT !.log = req[q].log \cup {LogRow(q, "identity_resolution", FALSE)}]
    <2>1. req'[q] = Finish(r, SkippedResult(Current(q).device)) /\ req[q].pc = "verify"
        BY <1>1, <1>9 DEF VerifyDrifted
    <2>2. LogRow(q, "identity_resolution", FALSE) \in LogRows
        BY <2>1, LogRowType
    <2>3. Tidy(LogRow(q, "identity_resolution", FALSE))
        BY DEF Tidy, LogRow
    <2> HIDE DEF LogRow
    <2>4. /\ r \in RequestRecords /\ r.target = req[q].target
          /\ r.action = req[q].action /\ r.entries = req[q].entries /\ r.resolved = req[q].resolved
          /\ r.log = req[q].log \cup {LogRow(q, "identity_resolution", FALSE)}
        BY <1>1, <2>2, RecordFacts DEF RequestRecords
    <2>5. \A row \in r.log : row \in req[q].log \/ Tidy(row)
        BY <2>3, <2>4
    <2> HIDE DEF r
    <2> QED BY <1>8, <2>1, <2>4, <2>5
<1>10. CASE Stamp(q)
    <2>1. req'[q] = Finish(req[q], EnforcedResult(q)) /\ req[q].pc = "stamp"
        BY <1>1, <1>10 DEF Stamp
    <2> QED BY <1>1, <1>8, <2>1
<1>11. CASE VerifyFailed(q) \/ StampFailed(q)
    BY <1>3, <1>11 DEF VerifyFailed, StampFailed
<1> QED BY <1>4, <1>5, <1>6, <1>7, <1>9, <1>10, <1>11, RequestFrame

\* A request that has resolved nothing: the rows it is to resolve are as they were read.
Begun(r) ==
    /\ r.resolved = <<>> /\ r.log = {}
    /\ \A e \in r.entries :
          e.device \in r.target /\ e.device \in registered /\ e.flag = flag[e.device]

\* The rows that match are as the SELECT returned them.
LEMMA MatchedBegun ==
    ASSUME NEW r \in RequestRecords, r.resolved = <<>>, r.log = {}, NEW target,
           NEW matches \in SUBSET target, matches \subseteq registered
    PROVE  LET s == Matched(r, target, matches)
           IN  /\ Begun(s) /\ s.pc = "resolve" /\ s.action = r.action
               /\ \A e \in s.entries : e.device \in matches
<1> DEFINE found == {[device |-> d, flag |-> flag[d]] : d \in matches}
           s == Matched(r, target, matches)
<1>1. \A e \in found : e.device \in matches /\ e.flag = flag[e.device]
    OBVIOUS
<1> HIDE DEF found
<1>2. s = [r EXCEPT !.pc = "resolve", !.target = target, !.entries = found]
    BY DEF Matched, found
<1>3. /\ s.pc = "resolve" /\ s.action = r.action /\ s.target = target /\ s.entries = found
      /\ s.resolved = <<>> /\ s.log = {}
    BY <1>2 DEF RequestRecords
<1> HIDE DEF s
<1>4. Begun(s)
    BY <1>1, <1>3 DEF Begun
<1> QED BY <1>1, <1>3, <1>4 DEF s

\* A request that starts has resolved nothing, and one for the exact name of a
\* row is about that row.
LEMMA StartBegun ==
    ASSUME TypeInv, NEW q \in Requests, NEW action \in Actions, NEW asked \in Spellings,
           NEW isGroup \in BOOLEAN, Start(q, action, asked, isGroup)
    PROVE  /\ Begun(req'[q]) /\ req'[q].pc \in {"resolve", "lookup"}
           /\ asked \in registered /\ ~isGroup =>
                 /\ req'[q].pc = "resolve" /\ req'[q].action = action
                 /\ \A e \in req'[q].entries : e.device = asked
<1> DEFINE r == [NoRequest EXCEPT !.action = action, !.asked = asked, !.isGroup = isGroup]
           looking == [r EXCEPT !.pc = "lookup"]
<1>1. r \in RequestRecords
    BY AskedType
<1>2. r.log = {} /\ r.resolved = <<>> /\ r.entries = {} /\ r.action = action
    BY DEF NoRequest
<1>3. req' = [req EXCEPT ![q] =
          IF isGroup THEN Matched(r, Group, Group \cap registered)
          ELSE IF Exact(asked) THEN Matched(r, {asked}, {asked})
          ELSE looking]
    BY Zenon DEF Start
<1>4. looking.pc = "lookup" /\ Begun(looking)
    <2>1. looking.pc = "lookup" /\ looking.log = {} /\ looking.resolved = <<>> /\ looking.entries = {}
        BY <1>1, <1>2 DEF RequestRecords
    <2> QED BY <2>1 DEF Begun
<1> HIDE DEF r, looking
<1>5. q \in DOMAIN req
    BY ServedFacts
<1>6. CASE isGroup
    <2> DEFINE members == Group \cap registered
    <2>1. members \in SUBSET Group /\ members \subseteq registered
        OBVIOUS
    <2>2. req'[q] = Matched(r, Group, members)
        BY <1>3, <1>5, <1>6
    <2> HIDE DEF members
    <2> QED BY <1>1, <1>2, <1>6, <2>1, <2>2, MatchedBegun
<1>7. CASE ~isGroup /\ Exact(asked)
    <2>1. req'[q] = Matched(r, {asked}, {asked})
        BY <1>3, <1>5, <1>7
    <2>2. {asked} \in SUBSET {asked} /\ {asked} \subseteq registered
        BY <1>7 DEF Exact
    <2>3. /\ Begun(req'[q]) /\ req'[q].pc = "resolve" /\ req'[q].action = r.action
          /\ \A e \in req'[q].entries : e.device \in {asked}
        BY <1>1, <1>2, <2>1, <2>2, MatchedBegun
    <2> QED BY <1>2, <2>3
<1>8. CASE ~isGroup /\ ~Exact(asked)
    BY <1>3, <1>4, <1>5, <1>8 DEF Exact
<1> QED BY <1>6, <1>7, <1>8

\* Nor has one that looked for other spellings.
LEMMA LookUpBegun ==
    ASSUME TypeInv, LogInv, NEW q \in Requests, LookUp(q)
    PROVE  Begun(req'[q])
<1>1. req[q] \in RequestRecords /\ q \in DOMAIN req /\ req[q].log = {} /\ req[q].resolved = <<>>
    BY ServedFacts DEF TypeInv, TypeOK, LogInv, LogOf, LookUp
<1>2. \/ req'[q] = NoRequest
      \/ req'[q] = Matched(req[q], Matching(req[q].asked), Matching(req[q].asked))
    BY <1>1 DEF LookUp
<1>3. Begun(NoRequest)
    BY DEF Begun, NoRequest
<1>4. Matching(req[q].asked) \subseteq registered
    BY MatchingType
<1>5. Begun(Matched(req[q], Matching(req[q].asked), Matching(req[q].asked)))
    <2> DEFINE found == Matching(req[q].asked)
    <2>1. found \in SUBSET found /\ found \subseteq registered
        BY <1>4
    <2> HIDE DEF found
    <2>2. Begun(Matched(req[q], found, found))
        BY <1>1, <2>1, MatchedBegun
    <2> QED BY <2>2 DEF found
<1> QED BY <1>2, <1>3, <1>5

\* While only the admin and the scans make trouble: no layer was left undone, the
\* rows still to be resolved are as they were read, and those resolved are still
\* there, unless one was deleted under the request.
WorkOf(r) ==
    /\ \A row \in r.log : Tidy(row)
    /\ r.pc = "resolve" => \A e \in r.entries :
          e.device \in abandoned \/ (e.device \in registered /\ e.flag = flag[e.device])
    /\ r.pc # "idle" =>
          /\ \A e \in r.entries : e.device \in r.target
          /\ \A k \in DOMAIN r.resolved :
                /\ r.resolved[k].device \in r.target
                /\ r.resolved[k].device \in abandoned \cup registered

\* The request the Delete button waits for releases the device of its row.
ReleaseOf(r) ==
    deletion # NoDeletion =>
        /\ r.action = "release" /\ r.pc # "lookup"
        /\ \A e \in r.entries : e.device = deletion.device
        /\ \A k \in DOMAIN r.resolved : r.resolved[k].device = deletion.device

WorkInv == Calm => \A q \in Requests : WorkOf(req[q]) /\ ReleaseOf(req[q])

\* A request that begins knows only what is there.
LEMMA BegunWork ==
    ASSUME NEW q \in Requests, Begun(req'[q]), UNCHANGED rows
    PROVE  WorkOf(req[q])'
<1>1. DOMAIN req'[q].resolved = {}
    BY DEF Begun
<1> QED BY <1>1 DEF Begun, WorkOf, rows

\* Nothing a request leaves alone disturbs what it knows: rows may be added, and
\* flags of abandoned devices change.
LEMMA KeptWork ==
    ASSUME TypeInv, NEW q \in Requests, WorkOf(req[q]), req'[q] = req[q],
           \A e \in Devices : e \in abandoned' \/ flag'[e] = flag[e],
           registered \subseteq registered', abandoned \subseteq abandoned'
    PROVE  WorkOf(req[q])'
<1>1. \A e \in req[q].entries : e.device \in Devices
    BY RecordFacts DEF TypeInv, TypeOK, Entries
<1> QED BY <1>1 DEF WorkOf

\* A row that goes is nobody's business, or was deleted under the request.
LEMMA RemovedWork ==
    ASSUME TypeInv, NEW q \in Requests, WorkOf(req[q]), req'[q] = req[q], NEW d \in Devices,
           NEW byForce \in BOOLEAN, RemoveRow(d, byForce)
    PROVE  WorkOf(req[q])'
<1>1. req[q] \in RequestRecords /\ req[q].entries \subseteq Entries /\ flag \in [Devices -> BOOLEAN]
    BY RecordFacts DEF TypeInv, TypeOK
<1>2. /\ registered' = registered \ {d} /\ flag' = [flag EXCEPT ![d] = FALSE]
      /\ abandoned \subseteq abandoned'
      /\ req[q].pc # "idle" /\ d \in req[q].target => d \in abandoned'
    BY DEF RemoveRow, About
<1>3. ASSUME req[q].pc # "idle", NEW e \in req[q].entries, req[q].pc = "resolve"
      PROVE  \/ e.device \in abandoned'
             \/ e.device \in registered' /\ e.flag = flag'[e.device]
    <2>1. e.device \in req[q].target /\ e.device \in Devices
        BY <1>1, <1>3 DEF WorkOf, Entries
    <2>2. CASE e.device = d
        BY <1>2, <1>3, <2>1, <2>2
    <2>3. CASE e.device # d
        <3>1. flag'[e.device] = flag[e.device]
            BY <1>1, <1>2, <2>1, <2>3
        <3> QED BY <1>2, <1>3, <2>3, <3>1 DEF WorkOf
    <2> QED BY <2>2, <2>3
<1>4. ASSUME req[q].pc # "idle", NEW k \in DOMAIN req[q].resolved
      PROVE  /\ req[q].resolved[k].device \in req[q].target
             /\ req[q].resolved[k].device \in abandoned' \cup registered'
    BY <1>2, <1>4 DEF WorkOf
<1> QED BY <1>3, <1>4 DEF WorkOf

\* A request that goes on learns of no device but those it set out for.
LEMMA ContinuedWork ==
    ASSUME NEW q \in Requests, WorkOf(req[q]), Continues(req[q], req'[q]),
           registered \subseteq registered', abandoned \subseteq abandoned',
           req'[q].pc = "resolve" =>
              \A e \in req'[q].entries : e.flag = flag[e.device] => e.flag = flag'[e.device]
    PROVE  WorkOf(req[q])'
<1>1. \A row \in req'[q].log : Tidy(row)
    BY DEF WorkOf, Continues
<1>2. ASSUME req'[q].pc = "resolve", NEW e \in req'[q].entries
      PROVE  \/ e.device \in abandoned'
             \/ e.device \in registered' /\ e.flag = flag'[e.device]
    BY <1>2 DEF WorkOf, Continues
<1>3. \A e \in req'[q].entries : e.device \in req'[q].target
    BY DEF WorkOf, Continues
<1>4. ASSUME NEW k \in DOMAIN req'[q].resolved
      PROVE  /\ req'[q].resolved[k].device \in req'[q].target
             /\ req'[q].resolved[k].device \in abandoned' \cup registered'
    <2>1. CASE \E j \in DOMAIN req[q].resolved : req'[q].resolved[k] = req[q].resolved[j]
        BY <2>1 DEF WorkOf, Continues
    <2>2. CASE req[q].pc = "resolve" /\ \E e \in req[q].entries : req'[q].resolved[k].device = e.device
        BY <2>2 DEF WorkOf, Continues
    <2> QED BY <1>4, <2>1, <2>2 DEF Continues
<1> QED BY <1>1, <1>2, <1>3, <1>4 DEF WorkOf

\* A step of a request keeps what it knows.
LEMMA StepWork ==
    ASSUME TypeInv, LogInv, Calm, NEW q \in Requests, WorkOf(req[q]), RequestStep(q)
    PROVE  WorkOf(req[q])'
<1>1. /\ req[q] \in RequestRecords /\ q \in DOMAIN req /\ LogOf(req[q])
      /\ flag \in [Devices -> BOOLEAN]
    BY ServedFacts DEF TypeInv, TypeOK, LogInv
<1>2. abandoned \subseteq abandoned'
    BY RequestFrame DEF Stamp
<1>3. CASE LookUp(q)
    BY <1>3, LookUpBegun, BegunWork DEF LookUp
<1>4. CASE ~LookUp(q)
    <2>1. Continues(req[q], req'[q])
        BY <1>4, ContinueFacts
    <2>2. CASE UNCHANGED rows
        BY <1>2, <2>1, <2>2, ContinuedWork DEF rows
    <2>3. CASE Stamp(q)
        <3>1. req'[q].pc # "resolve"
            BY <2>1, <2>3 DEF Continues, Stamp
        <3>2. registered' = registered
            BY <2>3 DEF Stamp
        <3> QED BY <1>2, <2>1, <3>1, <3>2, ContinuedWork
    <2>4. ASSUME NEW l \in leases, Resolve(q, l) PROVE WorkOf(req[q])'
        <3> DEFINE e == NextEntry(q)
        <3>1. /\ registered' = registered \cup {e.device} /\ flag' = [flag EXCEPT ![e.device] = e.flag]
              /\ req' = [req EXCEPT ![q].entries = @ \ {e}, ![q].resolved = Append(@, l)]
            BY <2>4 DEF Resolve
        <3>2. e \in req[q].entries /\ e.device \in Devices
            BY <2>4, NextEntryFacts DEF Resolve
        <3>3. \A f \in req[q].entries : f.device \in Devices /\ (f.device = e.device => f = e)
            <4>1. EntryFacts(req[q]) /\ req[q].entries \subseteq Entries
                BY <1>1, <2>4, RecordFacts DEF Resolve, LogOf
            <4> HIDE DEF e
            <4> QED BY <3>2, <4>1 DEF EntryFacts, Entries
        <3> HIDE DEF e
        <3>4. req'[q].entries \subseteq req[q].entries
            BY <2>1 DEF Continues
        <3>5. \A f \in req'[q].entries : f.flag = flag[f.device] => f.flag = flag'[f.device]
            <4>1. \A f \in req[q].entries : flag'[f.device] = IF f = e THEN e.flag ELSE flag[f.device]
                BY <1>1, <3>1, <3>2, <3>3
            <4> QED BY <3>4, <4>1
        <3> QED BY <1>2, <2>1, <3>1, <3>5, ContinuedWork
    <2> QED BY <1>4, <2>2, <2>3, <2>4, RequestFrame DEF LookUp, Resolved, ResolveOffline,
               ResolveFailed, Verify, VerifyDrifted, VerifyFailed, StampFailed
<1> QED BY <1>3, <1>4

\* The request of the Delete button stays the release of that device.
LEMMA StepRelease ==
    ASSUME TypeInv, Calm, NEW q \in Requests, ReleaseOf(req[q]), RequestStep(q)
    PROVE  ReleaseOf(req[q])'
<1>1. deletion' = deletion
    BY RequestFrame
<1>2. CASE deletion = NoDeletion
    BY <1>1, <1>2 DEF ReleaseOf
<1>3. CASE deletion # NoDeletion
    <2>1. ~LookUp(q)
        BY <1>3 DEF ReleaseOf, LookUp
    <2>2. Continues(req[q], req'[q])
        BY <2>1, ContinueFacts
    <2> QED BY <1>1, <2>2 DEF ReleaseOf, Continues
<1> QED BY <1>2, <1>3

\* With one thread, what a request knows stays true.
LEMMA WorkNext ==
    ASSUME \A p, q \in Requests : p = q, TypeInv, LogInv, WorkInv, [Next]_vars
    PROVE  WorkInv'
<1> SUFFICES ASSUME Calm', NEW q \in Requests PROVE (WorkOf(req[q]) /\ ReleaseOf(req[q]))'
    BY DEF WorkInv
<1>1. q \in DOMAIN req /\ \A p \in Requests : p = q
    BY ServedFacts
<1>2. ASSUME UNCHANGED scenario PROVE Calm /\ WorkOf(req[q]) /\ ReleaseOf(req[q])
    BY <1>2 DEF Calm, WorkInv
<1>3. ASSUME UNCHANGED <<scenario, req, rows, abandoned>>, deletion' \in {deletion, NoDeletion}
      PROVE  (WorkOf(req[q]) /\ ReleaseOf(req[q]))'
    <2>1. WorkOf(req[q])'
        BY <1>2, <1>3, KeptWork DEF rows
    <2>2. ReleaseOf(req[q])'
        BY <1>2, <1>3 DEF ReleaseOf
    <2> QED BY <2>1, <2>2
<1>4. CASE \E i \in Identities : Acquire(i) \/ Expire(i)
    BY <1>3, <1>4 DEF Acquire, Expire, admin
<1>5. ASSUME NEW action \in Actions, NEW asked \in Spellings, NEW isGroup \in BOOLEAN,
             Ask(q, action, asked, isGroup)
      PROVE  (WorkOf(req[q]) /\ ReleaseOf(req[q]))'
    <2>1. Start(q, action, asked, isGroup) /\ UNCHANGED rows /\ UNCHANGED admin
        BY <1>5 DEF Ask
    <2>2. deletion' = NoDeletion
        <3>1. deletion # NoDeletion => deletion.request # q /\ deletion.request \in Requests
            BY <1>5 DEF Ask, TypeInv, TypeOK
        <3> QED BY <1>1, <2>1, <3>1 DEF admin
    <2>3. WorkOf(req[q])'
        BY <2>1, StartBegun, BegunWork
    <2> QED BY <2>2, <2>3 DEF ReleaseOf
<1>6. ASSUME RequestStep(q) PROVE (WorkOf(req[q]) /\ ReleaseOf(req[q]))'
    <2>1. UNCHANGED scenario
        BY <1>6, RequestFrame DEF network
    <2> QED BY <1>2, <1>6, <2>1, StepWork, StepRelease
<1>7. ASSUME NEW d \in Devices, AddRow(d) PROVE (WorkOf(req[q]) /\ ReleaseOf(req[q]))'
    <2>1. /\ registered' = registered \cup {d} /\ flag' = [flag EXCEPT ![d] = FALSE]
          /\ abandoned' = IF flag[d] THEN abandoned \cup {d} ELSE abandoned
          /\ UNCHANGED <<scenario, req, deletion>>
        BY <1>7 DEF AddRow, network
    <2>2. flag \in [Devices -> BOOLEAN]
        BY DEF TypeInv, TypeOK
    <2>3. \A e \in Devices : e \in abandoned' \/ flag'[e] = flag[e]
        BY <2>1, <2>2
    <2>4. WorkOf(req[q])'
        BY <1>2, <2>1, <2>3, KeptWork
    <2>5. ReleaseOf(req[q])'
        BY <1>2, <2>1 DEF ReleaseOf
    <2> QED BY <2>4, <2>5
<1>8. ASSUME NEW d \in Devices, DropRow(d) \/ ForceDelete(d)
      PROVE  (WorkOf(req[q]) /\ ReleaseOf(req[q]))'
    <2>1. UNCHANGED <<scenario, req, deletion>> /\ (RemoveRow(d, FALSE) \/ RemoveRow(d, TRUE))
        BY <1>8 DEF DropRow, ForceDelete, network
    <2>2. WorkOf(req[q])'
        BY <1>2, <2>1, RemovedWork
    <2>3. ReleaseOf(req[q])'
        BY <1>2, <2>1 DEF ReleaseOf
    <2> QED BY <2>2, <2>3
<1>9. ASSUME NEW d \in Devices, DeleteQuarantined(d, q)
      PROVE  (WorkOf(req[q]) /\ ReleaseOf(req[q]))'
    <2>1. /\ Start(q, "release", d, FALSE) /\ d \in registered /\ UNCHANGED rows
          /\ deletion' = [device |-> d, request |-> q]
        BY <1>9 DEF DeleteQuarantined
    <2>2. /\ Begun(req'[q]) /\ req'[q].pc = "resolve" /\ req'[q].action = "release"
          /\ \A e \in req'[q].entries : e.device = d
        BY <2>1, StartBegun DEF Actions, Spellings
    <2>3. WorkOf(req[q])'
        BY <2>1, <2>2, BegunWork
    <2>4. ReleaseOf(req[q])'
        <3>1. DOMAIN req'[q].resolved = {}
            BY <2>2 DEF Begun
        <3> QED BY <2>1, <2>2, <3>1 DEF ReleaseOf
    <2> QED BY <2>3, <2>4
<1>10. CASE \/ Answered \/ AnswerLost \/ UNCHANGED vars
            \/ \E d \in Devices : DeleteFree(d) \/ \E i \in Identities : LoopEnds(d, i)
    BY <1>3, <1>10 DEF Answered, AnswerLost, DeleteFree, LoopEnds, vars, network, rows, admin
<1>12. ~ServiceRestart /\ ~KeaRestart
    BY DEF ServiceRestart, KeaRestart, Calm, network
<1>13. CASE \E p \in Requests, action \in Actions : \E asked \in Spellings, isGroup \in BOOLEAN :
               Ask(p, action, asked, isGroup)
    BY <1>1, <1>5, <1>13
<1>14. CASE \E p \in Requests : RequestStep(p)
    BY <1>1, <1>6, <1>14
<1>15. CASE \E d \in Devices, p \in Requests : DeleteQuarantined(d, p)
    BY <1>1, <1>9, <1>15
<1> QED BY <1>4, <1>7, <1>8, <1>10, <1>12, <1>13, <1>14, <1>15 DEF Next

\* A settled device has one MAC and one address, which are nobody else's.
LEMMA SettledFacts ==
    ASSUME NEW d, Settled(d), NEW i \in Identities
    PROVE  /\ i.device = d => MacsOf(d) = {i.mac} /\ IpsOf(d) = {i.ip}
           /\ i.device # d => i.mac \notin MacsOf(d) /\ i.ip \notin IpsOf(d)
<1>1. i.device = d => i.mac \in MacsOf(d) /\ i.ip \in IpsOf(d)
    BY DEF MacsOf, IpsOf
<1> QED BY <1>1 DEF Settled

\* The thread is at work on the layers of the device.
InWork(r, d) == r.pc \in {"step", "stamp"} /\ r.resolved[Len(r.results) + 1].device = d

\* The layers are as the flag says, and a row that is to be deleted is of a device
\* that is free.
Truthful(d) ==
    /\ IF flag[d] THEN CutOff(d) ELSE Free(d)
    /\ d \in dropping => Free(d)

\* The flag of a device is true, or its turn has come.
Accounted(d) == Truthful(d) \/ \E q \in Requests : InWork(req[q], d)

FlagInv ==
    Calm => \A d \in Devices : Settled(d) /\ d \notin abandoned => Accounted(d)

\* The layers, the flag and the Delete buttons decide.
LEMMA StaysTruthful ==
    ASSUME NEW d, Truthful(d), flag'[d] = flag[d], UNCHANGED layers,
           d \in dropping' => d \in dropping \/ Free(d)
    PROVE  Truthful(d)'
<1>1. (CutOff(d) => CutOff(d)') /\ (Free(d) => Free(d)')
    BY DEF CutOff, InAllLayers, InKea, InArp, InPihole, Free, layers
<1> QED BY <1>1 DEF Truthful

\* A settled device is cut off when the one lease it may have is.
LEMMA OneLeaseCutOff ==
    ASSUME NEW i \in Identities, Settled(i.device), InAllLayers(i, TRUE), dying[i.device] = {}
    PROVE  CutOff(i.device)
<1>1. ASSUME NEW j \in Identities, j.device = i.device PROVE j = i
    <2>1. MacsOf(i.device) = {i.mac} /\ IpsOf(i.device) = {i.ip}
        BY SettledFacts
    <2>2. MacsOf(i.device) = {j.mac} /\ IpsOf(i.device) = {j.ip}
        BY <1>1, SettledFacts
    <2>3. j.mac = i.mac /\ j.ip = i.ip
        BY <2>1, <2>2
    <2>4. i \in [device : Devices, mac : Macs, ip : Ips] /\ j \in [device : Devices, mac : Macs, ip : Ips]
        BY EnforcementAssumption
    <2> QED BY <1>1, <2>3, <2>4
<1> QED BY <1>1 DEF CutOff

\* A request that did every step for a settled device has cut it off, or freed it.
LEMMA DoneInAllLayers ==
    ASSUME TypeInv, TruthInv, Calm, NEW q \in Requests, Acting(req[q]),
           NEW k \in DOMAIN req[q].resolved, Settled(req[q].resolved[k].device),
           Did(req[q], req[q].resolved[k], "kea"), Did(req[q], req[q].resolved[k], "arp"),
           \A p \in Instances : Did(req[q], req[q].resolved[k], p)
    PROVE  IF req[q].action = "quarantine" THEN CutOff(req[q].resolved[k].device)
           ELSE Free(req[q].resolved[k].device)
<1> DEFINE i == req[q].resolved[k]
           on == req[q].action = "quarantine"
<1>1. i \in Identities
    BY RecordFacts DEF TypeInv, TypeOK
<1>2. InForce(req[q], i)
    BY DEF TruthInv, TruthOf
<1>3. InAllLayers(i, on) /\ dying[i.device] = {}
    <2>1. undone = {} /\ \A d \in Devices : dying[d] = {}
        BY DEF TypeInv, Undisturbed, Calm
    <2>2. i.device \in Devices
        BY <1>1, IdentityFacts
    <2> QED BY <1>2, <2>1, <2>2 DEF InForce, InAllLayers, InArp, InPihole
<1> HIDE DEF i, on
<1>4. Settled(i.device)
    BY DEF i
<1>5. CASE on = TRUE
    <2>1. InAllLayers(i, TRUE) /\ dying[i.device] = {}
        BY <1>3, <1>5
    <2>2. CutOff(i.device)
        BY <1>1, <1>4, <2>1, OneLeaseCutOff
    <2> QED BY <1>5, <2>2 DEF i, on
<1>6. CASE on = FALSE
    <2>1. /\ i.mac \notin dropped /\ i.mac \notin onDisk /\ loop[i.device] = NoIdentity
          /\ \A p \in Instances : i.ip \notin blocked[p]
        BY <1>3, <1>6 DEF InAllLayers, InKea, InArp, InPihole
    <2>2. MacsOf(i.device) = {i.mac} /\ IpsOf(i.device) = {i.ip}
        BY <1>1, <1>4, SettledFacts
    <2>3. Free(i.device)
        BY <1>3, <2>1, <2>2 DEF Free
    <2> QED BY <1>6, <2>3 DEF i, on
<1> QED BY <1>5, <1>6 DEF on

\* The steps for one device change nothing for another settled one.
LEMMA OthersStayTruthful ==
    ASSUME TypeInv, NEW q \in Requests, Enforcing(q), UNCHANGED rows, NEW d \in Devices, Settled(d),
           Current(q).device # d, Truthful(d)
    PROVE  Truthful(d)'
<1>1. req[q].pc = "step"
    BY DEF Enforcing, KeaStep, ArpStep, GatewayFailed, PiholeStep, NmapStep, StepRaised, At
<1> DEFINE i == Current(q)
<1>2. i \in Identities /\ i.device \in Devices
    BY <1>1, CurrentFacts
<1>3. i.mac \notin MacsOf(d) /\ i.ip \notin IpsOf(d)
    BY <1>2, SettledFacts
<1>4. /\ loop \in [Devices -> Identities \cup {NoIdentity}]
      /\ dying \in [Devices -> SUBSET Identities] /\ blocked \in [Instances -> SUBSET Ips]
    BY DEF TypeInv, TypeOK
<1>5. ASSUME \A mac \in MacsOf(d) : /\ mac \in dropped' <=> mac \in dropped
                                    /\ mac \in onDisk' <=> mac \in onDisk,
             loop'[d] = loop[d], dying'[d] = dying[d],
             \A p \in Instances, ip \in IpsOf(d) : ip \in blocked'[p] <=> ip \in blocked[p]
      PROVE  Truthful(d)'
    <2>1. flag'[d] = flag[d] /\ dropping' = dropping
        BY DEF rows, Enforcing, KeaStep, ArpStep, GatewayFailed, PiholeStep, NmapStep, StepRaised,
               admin
    <2>2. Free(d) => Free(d)'
        BY <1>5 DEF Free
    <2>3. \A j \in Identities : j.device = d => j.mac \in MacsOf(d) /\ j.ip \in IpsOf(d)
        BY DEF MacsOf, IpsOf
    <2>4. CutOff(d) => CutOff(d)'
        BY <1>5, <2>3 DEF CutOff, InAllLayers, InKea, InArp, InPihole
    <2> QED BY <2>1, <2>2, <2>4 DEF Truthful
<1>6. CASE KeaStep(q)
    <2> DEFINE after == Toggled(dropped, q, i.mac)
    <2>1. /\ dropped' \in {dropped, after, onDisk} /\ onDisk' \in {onDisk, after}
          /\ UNCHANGED <<loop, dying, blocked>>
        BY <1>6 DEF KeaStep
    <2>2. \A mac \in MacsOf(d) : mac \in after <=> mac \in dropped
        BY <1>3 DEF Toggled
    <2>3. \A mac \in MacsOf(d) : mac \in onDisk <=> mac \in dropped
        <3>1. CASE Free(d)
            BY <3>1 DEF Free
        <3>2. CASE CutOff(d)
            BY <3>2 DEF CutOff, InAllLayers, InKea, MacsOf
        <3> QED BY <3>1, <3>2 DEF Truthful
    <2> HIDE DEF after
    <2>4. \A mac \in MacsOf(d) : /\ mac \in dropped' <=> mac \in dropped
                                 /\ mac \in onDisk' <=> mac \in onDisk
        BY <2>1, <2>2, <2>3
    <2> QED BY <1>5, <2>1, <2>4
<1>7. CASE ArpStep(q)
    <2>1. (\E j \in Identities \cup {NoIdentity} : loop' = [loop EXCEPT ![i.device] = j])
              /\ UNCHANGED <<dropped, onDisk, blocked>>
        BY <1>2, <1>7 DEF ArpStep
    <2>2. loop'[d] = loop[d] /\ dying'[d] = dying[d]
        <3>1. UNCHANGED dying \/ StopOverruns(i.device)
            BY <1>7 DEF ArpStep
        <3> QED BY <1>4, <2>1, <3>1 DEF StopOverruns
    <2> QED BY <1>5, <2>1, <2>2
<1>8. ASSUME NEW p \in Instances, PiholeStep(q, p) PROVE Truthful(d)'
    <2> DEFINE after == Toggled(blocked[p], q, i.ip)
    <2>1. (\E ips \in {blocked[p], after} : blocked' = [blocked EXCEPT ![p] = ips])
              /\ UNCHANGED <<dropped, onDisk, loop, dying>>
        BY <1>8 DEF PiholeStep
    <2>2. \A ip \in IpsOf(d) : ip \in after <=> ip \in blocked[p]
        BY <1>3 DEF Toggled
    <2> HIDE DEF after
    <2>3. \A p2 \in Instances, ip \in IpsOf(d) : ip \in blocked'[p2] <=> ip \in blocked[p2]
        BY <1>4, <2>1, <2>2
    <2> QED BY <1>5, <2>1, <2>3
<1>9. CASE GatewayFailed(q) \/ NmapStep(q) \/ StepRaised(q)
    <2>1. UNCHANGED layers
        BY <1>9 DEF GatewayFailed, NmapStep, StepRaised
    <2> QED BY <1>5, <2>1 DEF layers
<1> QED BY <1>6, <1>7, <1>8, <1>9 DEF Enforcing

\* The device whose turn it is when the flag is stamped was given every step, and
\* no layer was left undone.
LEMMA StampedDid ==
    ASSUME TypeInv, LogInv, NEW q \in Requests, WorkOf(req[q]), req[q].pc = "stamp"
    PROVE  /\ Did(req[q], Current(q), "kea") /\ Did(req[q], Current(q), "arp")
           /\ \A p \in Instances : Did(req[q], Current(q), p)
<1> DEFINE here == Len(req[q].results) + 1
           d == Current(q).device
<1>1. req[q] \in RequestRecords /\ LogFacts(req[q]) /\ here \in DOMAIN req[q].resolved
    BY CurrentFacts DEF TypeInv, TypeOK, LogInv, LogOf, Acting
<1>2. Given(req[q], d) = {Steps[n] : n \in DOMAIN Steps}
    <2>1. here \notin DOMAIN req[q].results
        BY <1>1, RecordFacts
    <2>2. Turns(req[q], here) = DOMAIN Steps
        BY <2>1 DEF Turns
    <2> QED BY <1>1, <2>2 DEF LogFacts, Current
<1>3. ASSUME NEW n \in DOMAIN Steps, Steps[n] # "nmap_refresh"
      PROVE  Did(req[q], Current(q), Steps[n])
    <2>1. PICK row \in req[q].log : row.device = d /\ row.step = Steps[n]
        BY <1>2 DEF Given
    <2>2. row.succeeded
        BY <1>3, <2>1, NameFacts DEF WorkOf, Tidy
    <2>3. row = [device |-> d, step |-> Steps[n], succeeded |-> TRUE]
        <3>1. row \in LogRows
            BY <1>1, <2>1, RecordFacts
        <3> QED BY <2>1, <2>2, <3>1 DEF LogRows
    <2> QED BY <2>1, <2>3 DEF Did
<1>4. "nmap_refresh" \notin Instances
    BY EnforcementAssumption
<1>5. Did(req[q], Current(q), "kea") /\ Did(req[q], Current(q), "arp")
    <2>1. 1 \in DOMAIN Steps /\ 2 \in DOMAIN Steps /\ Steps[1] = "kea" /\ Steps[2] = "arp"
        BY StepsFacts
    <2> QED BY <1>3, <2>1
<1>6. ASSUME NEW p \in Instances PROVE Did(req[q], Current(q), p)
    <2>1. PICK n \in DOMAIN Steps : Steps[n] = p
        BY StepsFacts
    <2> QED BY <1>3, <1>4, <2>1
<1> QED BY <1>5, <1>6

\* A release that answers with every check ticked has freed the device of the row.
LEMMA AnsweredFree ==
    ASSUME TypeInv, LogInv, TruthInv, Calm, NEW q \in Requests, ReleaseOf(req[q]),
           deletion # NoDeletion, req[q].pc = "idle", AllOk(req[q]), Settled(deletion.device)
    PROVE  Free(deletion.device)
<1> DEFINE r == req[q]
<1>1. r \in RequestRecords /\ Acting(r) /\ Len(r.results) = Len(r.resolved) /\ Len(r.resolved) > 0
    BY DEF TypeInv, TypeOK, Progress, Acting, AllOk
<1>2. 1 \in DOMAIN r.results /\ 1 \in DOMAIN r.resolved
    BY <1>1, RecordFacts
<1>3. r.action = "release" /\ r.resolved[1].device = deletion.device
    BY <1>2 DEF ReleaseOf
<1>4. Shown(r, 1) /\ r.results[1].kea /\ r.results[1].arp /\ r.results[1].pihole
    BY <1>1, <1>2 DEF TruthInv, TruthOf, AllOk
<1>5. /\ Did(r, r.resolved[1], "kea") /\ Did(r, r.resolved[1], "arp")
      /\ \A p \in Instances : Did(r, r.resolved[1], p)
    BY <1>4 DEF Shown
<1>6. Free(r.resolved[1].device)
    BY <1>1, <1>2, <1>3, <1>5, DoneInAllLayers
<1> QED BY <1>3, <1>6

\* A step of the request accounts for what it does.
LEMMA StepAccounted ==
    ASSUME \A p, q \in Requests : p = q, TypeInv, LogInv, TruthInv, Calm,
           NEW q \in Requests, WorkOf(req[q]), RequestStep(q),
           NEW d \in Devices, Settled(d), d \notin abandoned', Accounted(d)
    PROVE  Accounted(d)'
<1>1. /\ req[q] \in RequestRecords /\ q \in DOMAIN req /\ LogOf(req[q])
      /\ flag \in [Devices -> BOOLEAN] /\ dropping' = dropping /\ d \notin abandoned
    BY ServedFacts, RequestFrame DEF TypeInv, TypeOK, LogInv, Stamp
<1>2. Truthful(d) \/ InWork(req[q], d)
    BY DEF Accounted
<1>3. CASE Enforcing(q) /\ UNCHANGED rows
    <2>1. req[q].pc = "step"
        BY <1>3 DEF Enforcing, KeaStep, ArpStep, GatewayFailed, PiholeStep, NmapStep, StepRaised, At
    <2>2. PICK succeeded \in BOOLEAN : Stepped(q, succeeded)
        BY <1>3 DEF Enforcing, KeaStep, ArpStep, GatewayFailed, PiholeStep, NmapStep, StepRaised, Calm
    <2>3. /\ req'[q].resolved = req[q].resolved /\ req'[q].results = req[q].results
          /\ req'[q].pc \in {"step", "stamp"}
        BY <2>1, <2>2, SteppedFacts
    <2>4. CASE Current(q).device = d
        <3>1. InWork(req'[q], d)
            BY <2>3, <2>4 DEF InWork, Current
        <3> QED BY <3>1 DEF Accounted
    <2>5. CASE Current(q).device # d
        <3>1. Truthful(d)
            BY <1>2, <2>5 DEF InWork, Current
        <3>2. Truthful(d)'
            BY <1>3, <2>5, <3>1, OthersStayTruthful
        <3> QED BY <3>2 DEF Accounted
    <2> QED BY <2>4, <2>5
<1>4. CASE UNCHANGED layers /\ Stamp(q)
    <2> DEFINE cur == Current(q).device
    <2>1. req[q].pc = "stamp" /\ Len(req[q].results) + 1 \in DOMAIN req[q].resolved
        BY <1>4, CurrentFacts DEF Stamp
    <2>2. flag' = IF cur \in registered THEN [flag EXCEPT ![cur] = (req[q].action = "quarantine")]
                  ELSE flag
        BY <1>4 DEF Stamp
    <2>3. CASE cur = d
        <3>1. d \in registered /\ d \notin dropping
            BY <1>1, <1>4, <2>1, <2>3 DEF Stamp, WorkOf, Current
        <3>2. flag'[d] = (req[q].action = "quarantine")
            BY <1>1, <2>2, <2>3, <3>1
        <3>3. Acting(req[q])
            BY <2>1 DEF Acting
        <3>4. IF req[q].action = "quarantine" THEN CutOff(d) ELSE Free(d)
            <4>1. /\ Did(req[q], Current(q), "kea") /\ Did(req[q], Current(q), "arp")
                  /\ \A p \in Instances : Did(req[q], Current(q), p)
                BY <2>1, StampedDid
            <4> QED BY <2>1, <2>3, <3>3, <4>1, DoneInAllLayers DEF Current
        <3>5. (CutOff(d) => CutOff(d)') /\ (Free(d) => Free(d)')
            BY <1>4 DEF CutOff, InAllLayers, InKea, InArp, InPihole, Free, layers
        <3>6. Truthful(d)'
            BY <1>1, <3>1, <3>2, <3>4, <3>5 DEF Truthful
        <3> QED BY <3>6 DEF Accounted
    <2>4. CASE cur # d
        <3>1. Truthful(d)
            BY <1>2, <2>4 DEF InWork, Current
        <3>2. flag'[d] = flag[d]
            BY <1>1, <2>2, <2>4
        <3> QED BY <1>1, <1>4, <3>1, <3>2, StaysTruthful DEF Accounted
    <2> QED BY <2>3, <2>4
<1>5. ASSUME UNCHANGED layers, NEW l \in leases, Resolve(q, l) PROVE Accounted(d)'
    <2> DEFINE e == NextEntry(q)
    <2>1. e \in req[q].entries /\ e.device \in Devices /\ req[q].pc = "resolve"
        BY <1>5, NextEntryFacts DEF Resolve
    <2>2. flag' = [flag EXCEPT ![e.device] = e.flag]
        BY <1>5 DEF Resolve
    <2> HIDE DEF e
    <2>3. Truthful(d)
        BY <1>2, <2>1 DEF InWork
    <2>4. flag'[d] = flag[d]
        <3>1. CASE e.device = d
            <4>1. e.flag = flag[d]
                BY <1>1, <2>1, <3>1 DEF WorkOf
            <4> QED BY <1>1, <2>2, <3>1, <4>1
        <3>2. CASE e.device # d
            BY <1>1, <2>2, <3>2
        <3> QED BY <3>1, <3>2
    <2> QED BY <1>1, <1>5, <2>3, <2>4, StaysTruthful DEF Accounted
<1>6. CASE /\ UNCHANGED layers
           /\ \/ Verify(q) \/ VerifyDrifted(q) \/ VerifyFailed(q) \/ StampFailed(q)
              \/ LookUp(q) \/ Resolved(q) \/ ResolveOffline(q) \/ ResolveFailed(q)
    <2>1. req[q].pc \in {"verify", "lookup", "resolve"} /\ UNCHANGED rows
        BY <1>6 DEF Verify, VerifyDrifted, VerifyFailed, StampFailed, LookUp, Resolved,
                    ResolveOffline, ResolveFailed, Calm
    <2>2. Truthful(d)
        BY <1>2, <2>1 DEF InWork
    <2>3. flag'[d] = flag[d]
        BY <2>1 DEF rows
    <2> QED BY <1>1, <1>6, <2>2, <2>3, StaysTruthful DEF Accounted
<1> QED BY <1>3, <1>4, <1>5, <1>6, RequestFrame

\* With one thread, every settled device stays accounted for.
LEMMA FlagNext ==
    ASSUME \A p, q \in Requests : p = q, TypeInv, LogInv, TruthInv, WorkInv, FlagInv, [Next]_vars
    PROVE  FlagInv'
<1> SUFFICES ASSUME Calm', NEW d \in Devices, Settled(d), d \notin abandoned'
             PROVE  Accounted(d)'
    BY DEF FlagInv, Settled
<1>1. ASSUME UNCHANGED scenario, abandoned \subseteq abandoned' PROVE Calm /\ Accounted(d)
    BY <1>1 DEF Calm, FlagInv
<1>2. ASSUME UNCHANGED <<scenario, layers, req>>, abandoned \subseteq abandoned',
             flag'[d] = flag[d], d \in dropping' => d \in dropping \/ (Truthful(d) => Free(d))
      PROVE  Accounted(d)'
    <2>1. Truthful(d) => Truthful(d)'
        BY <1>2, StaysTruthful
    <2> QED BY <1>1, <1>2, <2>1 DEF Accounted
<1>3. ASSUME NEW q \in Requests, NEW action \in Actions, NEW asked \in Spellings,
             NEW isGroup \in BOOLEAN, Start(q, action, asked, isGroup),
             UNCHANGED <<network, layers, rows, dropping, abandoned>>
      PROVE  Accounted(d)'
    <2>1. req[q].pc = "idle"
        BY <1>3 DEF Start
    <2>2. Accounted(d)
        BY <1>1, <1>3 DEF network
    <2>3. Truthful(d) /\ flag'[d] = flag[d]
        BY <1>3, <2>1, <2>2 DEF Accounted, InWork, rows
    <2> QED BY <1>3, <2>3, StaysTruthful DEF Accounted
<1>4. ASSUME NEW e \in Devices, NEW byForce \in BOOLEAN, RemoveRow(e, byForce),
             UNCHANGED <<scenario, layers, req>>, dropping' \subseteq dropping,
             byForce \/ e \in dropping
      PROVE  Accounted(d)'
    <2>1. /\ abandoned \subseteq abandoned' /\ flag' = [flag EXCEPT ![e] = FALSE]
          /\ byForce => e \in abandoned'
        BY <1>4 DEF RemoveRow
    <2>2. Accounted(d) /\ flag \in [Devices -> BOOLEAN]
        BY <1>1, <1>4, <2>1 DEF TypeInv, TypeOK
    <2>3. CASE \E q \in Requests : InWork(req[q], d)
        BY <1>4, <2>3 DEF Accounted
    <2>4. CASE e = d /\ Truthful(d)
        <3>1. ~flag'[d] /\ Free(d)
            BY <1>4, <2>1, <2>2, <2>4 DEF Truthful
        <3>2. Free(d)'
            BY <1>4, <3>1 DEF layers, Free
        <3> QED BY <3>1, <3>2 DEF Accounted, Truthful
    <2>5. CASE e # d /\ Truthful(d)
        <3>1. flag'[d] = flag[d]
            BY <2>1, <2>2, <2>5
        <3> QED BY <1>4, <2>5, <3>1, StaysTruthful DEF Accounted
    <2> QED BY <2>2, <2>3, <2>4, <2>5 DEF Accounted
<1>5. CASE \E i \in Identities : Acquire(i) \/ Expire(i)
    BY <1>2, <1>5 DEF Acquire, Expire, rows, admin
<1>6. CASE \E q \in Requests, action \in Actions : \E asked \in Spellings, isGroup \in BOOLEAN :
               Ask(q, action, asked, isGroup)
    BY <1>3, <1>6 DEF Ask, admin
<1>7. ASSUME NEW q \in Requests, RequestStep(q) PROVE Accounted(d)'
    <2>1. UNCHANGED scenario /\ abandoned \subseteq abandoned'
        BY <1>7, RequestFrame DEF network, Stamp
    <2>2. Calm /\ Accounted(d) /\ WorkOf(req[q])
        BY <1>1, <2>1 DEF WorkInv
    <2> QED BY <1>7, <2>2, StepAccounted
<1>8. ASSUME NEW e \in Devices, AddRow(e) PROVE Accounted(d)'
    <2>1. /\ flag' = [flag EXCEPT ![e] = FALSE]
          /\ abandoned' = IF flag[e] THEN abandoned \cup {e} ELSE abandoned
          /\ UNCHANGED <<scenario, layers, req, dropping>>
        BY <1>8 DEF AddRow, network
    <2>2. flag'[d] = flag[d]
        <3>1. flag \in [Devices -> BOOLEAN]
            BY DEF TypeInv, TypeOK
        <3> QED BY <2>1, <3>1
    <2> QED BY <1>2, <2>1, <2>2
<1>9. ASSUME NEW e \in Devices, DeleteFree(e) PROVE Accounted(d)'
    <2>1. /\ dropping' = dropping \cup {e} /\ ~flag[e]
          /\ UNCHANGED <<scenario, layers, req, abandoned, flag>>
        BY <1>9 DEF DeleteFree, network, rows
    <2>2. d \in dropping' => d \in dropping \/ (Truthful(d) => Free(d))
        BY <2>1 DEF Truthful
    <2> QED BY <1>2, <2>1, <2>2
<1>10. ASSUME NEW e \in Devices, DropRow(e) \/ ForceDelete(e) PROVE Accounted(d)'
    BY <1>4, <1>10 DEF DropRow, ForceDelete, network
<1>11. ASSUME NEW e \in Devices, NEW q \in Requests, DeleteQuarantined(e, q) PROVE Accounted(d)'
    BY <1>3, <1>11 DEF DeleteQuarantined, Actions, Spellings
<1>12. CASE Answered
    <2>1. /\ UNCHANGED <<network, layers, rows, req, abandoned>> /\ deletion # NoDeletion
          /\ req[deletion.request].pc = "idle"
        BY <1>12 DEF Answered
    <2>2. deletion.request \in Requests /\ deletion.device \in Devices
        BY <2>1 DEF TypeInv, TypeOK
    <2>3. CASE AllOk(req[deletion.request])
        <3>1. dropping' = dropping \cup {deletion.device}
            BY <1>12, <2>3 DEF Answered
        <3>2. Calm
            BY <2>1 DEF network, Calm
        <3>3. ReleaseOf(req[deletion.request])
            BY <2>2, <3>2 DEF WorkInv
        <3>4. deletion.device = d => Free(d)
            BY <2>1, <2>2, <2>3, <3>2, <3>3, AnsweredFree
        <3> QED BY <1>2, <2>1, <3>1, <3>4 DEF network, rows
    <2>4. CASE ~AllOk(req[deletion.request])
        <3>1. UNCHANGED dropping
            BY <1>12, <2>4 DEF Answered
        <3> QED BY <1>2, <2>1, <3>1 DEF network, rows
    <2> QED BY <2>3, <2>4
<1>13. CASE AnswerLost \/ UNCHANGED vars
    BY <1>2, <1>13 DEF AnswerLost, vars, network, layers, rows
<1>14. ~ServiceRestart /\ ~KeaRestart
    BY DEF ServiceRestart, KeaRestart, Calm, network
<1>15. ASSUME NEW e \in Devices, NEW i \in Identities, LoopEnds(e, i) PROVE FALSE
    <2>1. scenario' = scenario /\ dying[e] # {}
        BY <1>15 DEF LoopEnds, network
    <2>2. "arp" \notin scenario
        BY <2>1 DEF Calm
    <2> QED BY <2>1, <2>2 DEF TypeInv, Undisturbed
<1> QED BY <1>5, <1>6, <1>7, <1>8, <1>9, <1>10, <1>11, <1>12, <1>13, <1>14, <1>15 DEF Next

\* At first nothing is asked for and nobody is cut off.
LEMMA FlagInit == Init => WorkInv /\ FlagInv
<1> SUFFICES ASSUME Init PROVE WorkInv /\ FlagInv
    OBVIOUS
<1>1. \A q \in Requests : WorkOf(req[q]) /\ ReleaseOf(req[q])
    <2>1. NoRequest.pc = "idle" /\ NoRequest.log = {}
        BY DEF NoRequest
    <2> QED BY <2>1 DEF Init, WorkOf, ReleaseOf
<1>2. \A d \in Devices : Free(d)
    BY DEF Init, Free
<1>3. \A d \in Devices : ~flag[d]
    BY DEF Init
<1> QED BY <1>1, <1>2, <1>3 DEF WorkInv, FlagInv, Accounted, Truthful

\* With one thread, and while only scans fail and the admin deletes rows: the flag of
\* a device that keeps its address and that no request works on is true in every
\* layer, but for rows deleted by force or under a request, stamped between the look
\* of a Delete button and its DELETE, or added anew while flagged.
THEOREM FlagsAreTrue ==
    ASSUME \A p, q \in Requests : p = q
    PROVE  FairSpec => []FlagTellsTheTruth
<1>1. TypeInv /\ WorkInv /\ FlagInv => FlagTellsTheTruth
    <2>1. SUFFICES ASSUME TypeInv, WorkInv, FlagInv, Calm, NEW d \in Devices, Settled(d),
                          ~About(d), d \notin abandoned
                   PROVE  Truthful(d)
        BY DEF FlagTellsTheTruth, Truthful, Calm
    <2>2. SUFFICES ASSUME NEW q \in Requests, InWork(req[q], d) PROVE FALSE
        BY <2>1 DEF FlagInv, Accounted
    <2>3. Len(req[q].results) + 1 \in DOMAIN req[q].resolved /\ req[q].pc # "idle"
        BY <2>1, <2>2, CurrentFacts DEF InWork
    <2>4. d \in req[q].target
        BY <2>1, <2>2, <2>3 DEF WorkInv, WorkOf, InWork
    <2> QED BY <2>1, <2>3, <2>4 DEF About
<1>2. FairSpec => []TruthInv
    BY TypeInvariant, LogInvariant, TruthInit, TruthNext, PTL DEF FairSpec, Spec
<1>3. FairSpec => []WorkInv
    BY TypeInvariant, LogInvariant, FlagInit, WorkNext, PTL DEF FairSpec, Spec
<1>4. FairSpec => []FlagInv
    BY <1>2, <1>3, TypeInvariant, LogInvariant, FlagInit, FlagNext, PTL DEF FairSpec, Spec
<1> QED BY <1>1, <1>3, <1>4, TypeInvariant, PTL
=============================================================================
