----------------------------- MODULE Enforcement -----------------------------
(***************************************************************************)
(* The orchestration of quarantine_service/main.py and identity.py: a      *)
(* request resolves its target to live leases, re-checks each device just  *)
(* before acting on it, runs the enforcement steps in order, stamps the    *)
(* registry and answers; and the Delete button of the dashboard, which     *)
(* releases a quarantined device before it drops its row.  Each step is    *)
(* one run of run_with_retries: what happens inside one is the subject of  *)
(* KeaConfig (the kea step), ArpDisrupt (the arp step) and DeviceRegistry  *)
(* (the writes of rows).  Leases belong to Kea and the devices, which are  *)
(* not under src/: an address goes to a device whose MAC is not dropped    *)
(* and is free again when the lease expires.                               *)
(***************************************************************************)
EXTENDS Naturals, Sequences

CONSTANTS
    Requests,       \* threads of the service
    Devices,        \* devices on the network
    Order,          \* all of them, as get_devices sorts them by name
    Group,          \* those that share the group tag
    Spoken,         \* other spellings requests use
    Plain,          \* what _normalized makes of a name or another spelling
    Tag,            \* what it makes of the group tag
    Blank,          \* no letter and no digit is left
    Identities,     \* leases that may come to exist: device, MAC and IP
    Piholes,        \* the configured instances, in order
    NoIdentity,     \* no lease, no ARP loop
    NoDeletion,     \* no Delete button is waiting for an answer
    Scenarios,      \* sets of events that may happen in one behaviour
    MaxDeleteReleases   \* _MAX_DELETE_RELEASE_ATTEMPTS

Macs == {i.mac : i \in Identities}
Ips == {i.ip : i \in Identities}
MacsOf(d) == {i.mac : i \in {j \in Identities : j.device = d}}
IpsOf(d) == {i.ip : i \in {j \in Identities : j.device = d}}
Instances == {Piholes[k] : k \in DOMAIN Piholes}
Spellings == Devices \cup Spoken
Actions == {"quarantine", "release"}
\* What may fail; "restart": the service or Kea restarts; "delete": an admin
\* deletes rows and adds them again.
Events == {"kea", "arp", "pihole", "nmap", "database", "restart", "delete"}

\* The steps of _enforce_device, in the order in which it runs them.
Steps == <<"kea", "arp">> \o Piholes \o <<"nmap_refresh">>

ASSUME EnforcementAssumption ==
    /\ Identities \subseteq [device : Devices, mac : Macs, ip : Ips]
    /\ Order \in Seq(Devices) /\ {Order[k] : k \in DOMAIN Order} = Devices
    /\ Group \subseteq Devices
    /\ Spellings \subseteq DOMAIN Plain /\ \A d \in Devices : Plain[d] # Blank
    /\ Piholes \in Seq(Instances)
    /\ Scenarios \subseteq SUBSET Events
    /\ MaxDeleteReleases \in Nat \ {0}
    /\ Instances \cap {"identity_resolution", "kea", "arp", "nmap_refresh"} = {}
    /\ NoIdentity \notin Identities

VARIABLES
    leases,     \* lease database of Kea
    dropped,    \* MACs in the DROP class of the running config
    onDisk,     \* MACs in the DROP class of kea-dhcp4.conf
    undone,     \* history: the last kea step reported what a restart had undone
    loop,       \* the identity the ARP loop of a name was built for
    dying,      \* loops of a name that were told to stop and still run
    blocked,    \* client overrides of each Pi-hole instance
    registered, \* friendly names in device_registry
    flag,       \* is_quarantined
    req,        \* the request each thread serves
    deletion,   \* the Delete button that waits for its release
    dropping,   \* rows a Delete button has decided to delete
    failures,   \* quarantine_delete_release_attempts of a device
    abandoned,  \* history: deleted by force or under a running request, or
                \* added again while it was flagged
    scenario    \* the events that may happen, chosen at the start

network == <<leases, scenario>>
layers == <<dropped, onDisk, undone, loop, dying, blocked>>
rows == <<registered, flag>>
admin == <<deletion, dropping, failures, abandoned>>
vars == <<leases, dropped, onDisk, undone, loop, dying, blocked, registered, flag, req,
          deletion, dropping, failures, abandoned, scenario>>

Entries == [device : Devices, flag : BOOLEAN]
LogRows == [device : Devices, step : {"identity_resolution"} \cup {Steps[k] : k \in DOMAIN Steps},
            succeeded : BOOLEAN]
Results == [device : Devices, skipped : BOOLEAN, kea : BOOLEAN, arp : BOOLEAN,
            pihole : BOOLEAN, fingerprint : BOOLEAN]

RequestRecords ==
    [pc : {"idle", "lookup", "resolve", "verify", "step", "stamp"}, action : Actions,
     asked : Spellings \cup {Blank}, target : SUBSET Devices, isGroup : BOOLEAN,
     entries : SUBSET Entries, resolved : Seq(Identities), at : 0..Len(Steps),
     results : Seq(Results), log : SUBSET LogRows, outcome : {"none", "error", "ok"}]

TypeOK ==
    /\ leases \subseteq Identities
    /\ dropped \subseteq Macs /\ onDisk \subseteq Macs /\ undone \subseteq Devices
    /\ loop \in [Devices -> Identities \cup {NoIdentity}]
    /\ dying \in [Devices -> SUBSET Identities]
    /\ blocked \in [Instances -> SUBSET Ips]
    /\ registered \subseteq Devices
    /\ flag \in [Devices -> BOOLEAN]
    /\ req \in [Requests -> RequestRecords]
    /\ deletion \in [device : Devices, request : Requests] \cup {NoDeletion}
    /\ dropping \subseteq Devices
    /\ failures \in [Devices -> 0..MaxDeleteReleases]
    /\ abandoned \subseteq Devices
    /\ scenario \in Scenarios

NoRequest == [pc |-> "idle", action |-> "release", asked |-> Blank, target |-> {},
              isGroup |-> FALSE, entries |-> {}, resolved |-> <<>>, at |-> 0, results |-> <<>>,
              log |-> {}, outcome |-> "none"]

Init ==
    /\ leases = {}
    /\ dropped = {} /\ onDisk = {} /\ undone = {}
    /\ loop = [d \in Devices |-> NoIdentity]
    /\ dying = [d \in Devices |-> {}]
    /\ blocked = [p \in Instances |-> {}]
    /\ registered = Group
    /\ flag = [d \in Devices |-> FALSE]
    /\ req = [q \in Requests |-> NoRequest]
    /\ deletion = NoDeletion /\ dropping = {}
    /\ failures = [d \in Devices |-> 0]
    /\ abandoned = {}
    /\ scenario \in Scenarios

LeasesOf(d) == {l \in leases : l.device = d}

-----------------------------------------------------------------------------
(* The devices and Kea's leases *)

Acquire(i) ==
    /\ i.mac \notin dropped
    /\ \A l \in leases : l.ip # i.ip
    /\ leases' = leases \cup {i}
    /\ UNCHANGED <<layers, rows, req, admin, scenario>>

Expire(i) ==
    /\ i \in leases
    /\ leases' = leases \ {i}
    /\ UNCHANGED <<layers, rows, req, admin, scenario>>

-----------------------------------------------------------------------------
(* _resolve_and_log: resolve_target, and before it _matching_registry_entries *)

\* The first of some rows in the order of get_devices.
Position(d) == CHOOSE k \in DOMAIN Order : Order[k] = d
First(devices) == CHOOSE d \in devices : \A e \in devices : Position(d) <= Position(e)

\* Mutant of Matching: the last of the rows that are alike.
MatchingLast(asked) ==
    LET alike == {d \in registered : Plain[d] = Plain[asked]}
    IN  {d \in alike : \A e \in alike : Position(e) <= Position(d)}

\* The first row, by name, that differs from the target in spelling only.
Matching(asked) ==
    LET alike == {d \in registered : Plain[d] = Plain[asked]}
    IN  IF alike = {} THEN {} ELSE {First(alike)}

\* The rows that match are those the SELECT returned, with their columns.
Matched(r, target, matches) ==
    [r EXCEPT !.pc = "resolve", !.target = target,
              !.entries = {[device |-> d, flag |-> flag[d]] : d \in matches}]

\* get_device: the name is registered exactly as the target is spelled.
Exact(asked) == asked \in registered

\* The first SELECT: all rows for a group, the row of that name otherwise.  A
\* group that matches no row is answered with 404 and changes nothing.
Start(q, action, asked, isGroup) ==
    LET r == [NoRequest EXCEPT !.action = action, !.asked = asked, !.isGroup = isGroup]
    IN  /\ req[q].pc = "idle"
        /\ Plain[asked] # Blank
        /\ isGroup => Plain[asked] = Tag /\ Group \cap registered # {}
        /\ req' = [req EXCEPT ![q] =
              IF isGroup THEN Matched(r, Group, Group \cap registered)
              ELSE IF Exact(asked) THEN Matched(r, {asked}, {asked})
              ELSE [r EXCEPT !.pc = "lookup"]]

Ask(q, action, asked, isGroup) ==
    /\ deletion # NoDeletion => deletion.request # q
    /\ Start(q, action, asked, isGroup)
    /\ UNCHANGED <<network, layers, rows, admin>>

\* The second SELECT, of all rows as they are by now; 404 if none is alike.
LookUp(q) ==
    /\ req[q].pc = "lookup"
    /\ LET found == Matching(req[q].asked)
       IN  req' = [req EXCEPT ![q] = IF found = {} THEN NoRequest
                                     ELSE Matched(@, found, found)]
    /\ UNCHANGED <<network, layers, rows, admin>>

\* An exception leaves the handler: an HTTP error, without step results.
Fail(q) == req' = [req EXCEPT ![q].pc = "idle", ![q].asked = Blank, ![q].outcome = "error"]

\* The row that is resolved next.
NextEntry(q) ==
    CHOOSE e \in req[q].entries : e.device = First({f.device : f \in req[q].entries})

\* The Kea lookup of the next entry, the refresh of its row from the values
\* the SELECT returned, and the resolved device.
Resolve(q, l) ==
    LET e == NextEntry(q)
    IN  /\ req[q].pc = "resolve" /\ req[q].entries # {}
        /\ l \in LeasesOf(e.device)
        /\ registered' = registered \cup {e.device}
        /\ flag' = [flag EXCEPT ![e.device] = e.flag]
        /\ req' = [req EXCEPT ![q].entries = @ \ {e},
                              ![q].resolved = Append(@, l)]
        /\ UNCHANGED <<network, layers, admin>>

\* No lease: a group goes on without the device, a single target is 409.
ResolveOffline(q) ==
    /\ req[q].pc = "resolve" /\ req[q].entries # {}
    /\ LeasesOf(NextEntry(q).device) = {}
    /\ IF req[q].isGroup
       THEN req' = [req EXCEPT ![q].entries = @ \ {NextEntry(q)}]
       ELSE Fail(q)
    /\ UNCHANGED <<network, layers, rows, admin>>

\* Kea does not answer, or the row cannot be written.
ResolveFailed(q) ==
    /\ req[q].pc = "resolve" /\ req[q].entries # {}
    /\ scenario \cap {"kea", "database"} # {}
    /\ Fail(q)
    /\ UNCHANGED <<network, layers, rows, admin>>

Resolved(q) ==
    /\ req[q].pc = "resolve" /\ req[q].entries = {}
    /\ IF req[q].resolved = <<>>
       THEN Fail(q)
       ELSE req' = [req EXCEPT ![q].pc = "verify", ![q].asked = Blank]
    /\ UNCHANGED <<network, layers, rows, admin>>

-----------------------------------------------------------------------------
(* verify_identity_unchanged *)

\* The device whose turn it is: one result per device done.
Current(q) == req[q].resolved[Len(req[q].results) + 1]

LogRow(q, step, succeeded) ==
    [device |-> Current(q).device, step |-> step, succeeded |-> succeeded]

\* The result of the current device is complete: the next one, or the answer.
Finish(r, result) ==
    LET done == Append(r.results, result)
        last == Len(done) = Len(r.resolved)
    IN  [r EXCEPT !.results = done, !.at = 0,
                  !.pc = IF last THEN "idle" ELSE "verify",
                  !.outcome = IF last THEN "ok" ELSE @]

SkippedResult(d) ==
    [device |-> d, skipped |-> TRUE, kea |-> FALSE, arp |-> FALSE,
     pihole |-> FALSE, fingerprint |-> FALSE]

\* leases[0] is the lease that was resolved.
Verify(q) ==
    /\ req[q].pc = "verify"
    /\ Current(q) \in leases
    /\ req' = [req EXCEPT ![q].pc = "step", ![q].at = 1,
                          ![q].log = @ \cup {LogRow(q, "identity_resolution", TRUE)}]
    /\ UNCHANGED <<network, layers, rows, admin>>

\* leases[0] is another one, or there is none: the device is skipped.
VerifyDrifted(q) ==
    /\ req[q].pc = "verify"
    /\ LeasesOf(Current(q).device) # {Current(q)}
    /\ req' = [req EXCEPT ![q] =
          Finish([req[q] EXCEPT !.log = @ \cup {LogRow(q, "identity_resolution", FALSE)}],
                 SkippedResult(Current(q).device))]
    /\ UNCHANGED <<network, layers, rows, admin>>

\* The lookup raises, or the row cannot be logged: nothing catches it.
VerifyFailed(q) ==
    /\ req[q].pc = "verify"
    /\ scenario \cap {"kea", "database"} # {}
    /\ Fail(q)
    /\ UNCHANGED <<network, layers, rows, admin>>

-----------------------------------------------------------------------------
(* _enforce_device *)

At(q, step) == req[q].pc = "step" /\ Steps[req[q].at] = step

\* Mutant of Stepped: the position is not reset after the last step.
SteppedBeyond(q, succeeded) ==
    req' = [req EXCEPT
        ![q].log = @ \cup {LogRow(q, Steps[req[q].at], succeeded)},
        ![q].at = @ + 1,
        ![q].pc = IF req[q].at = Len(Steps) THEN "stamp" ELSE @]

\* Mutant of Stepped: a failed step is run again until it succeeds.
SteppedUntilDone(q, succeeded) ==
    req' = IF succeeded
           THEN [req EXCEPT
                   ![q].log = @ \cup {LogRow(q, Steps[req[q].at], succeeded)},
                   ![q].at = IF @ = Len(Steps) THEN 0 ELSE @ + 1,
                   ![q].pc = IF req[q].at = Len(Steps) THEN "stamp" ELSE @]
           ELSE req

\* Mutant of Stepped: a failed step is the last one of its device.
SteppedGivesUp(q, succeeded) ==
    LET last == req[q].at = Len(Steps) \/ ~succeeded
    IN  req' = [req EXCEPT
            ![q].log = @ \cup {LogRow(q, Steps[req[q].at], succeeded)},
            ![q].at = IF last THEN 0 ELSE @ + 1,
            ![q].pc = IF last THEN "stamp" ELSE @]

\* run_with_retries came back: its row is logged and the next step follows.
Stepped(q, succeeded) ==
    req' = [req EXCEPT
        ![q].log = @ \cup {LogRow(q, Steps[req[q].at], succeeded)},
        ![q].at = IF @ = Len(Steps) THEN 0 ELSE @ + 1,
        ![q].pc = IF req[q].at = Len(Steps) THEN "stamp" ELSE @]

Toggled(set, q, element) ==
    IF req[q].action = "quarantine" THEN set \cup {element} ELSE set \ {element}

\* Mutant of KeaStep: the config is not written to the file.
KeaStepUnwritten(q) ==
    /\ At(q, "kea")
    /\ \/ /\ Stepped(q, TRUE)
          /\ dropped' = Toggled(dropped, q, Current(q).mac)
       \/ "kea" \in scenario /\ Stepped(q, FALSE) /\ UNCHANGED dropped
    /\ UNCHANGED <<network, onDisk, undone, loop, dying, blocked, rows, admin>>

\* Each failure leaves the system with the step done, half done or not done.
\* If Kea restarts between config-set and config-write, the class it writes is
\* the one it read from the file, and that is a success.
KeaStep(q) ==
    /\ At(q, "kea")
    /\ LET d == Current(q).device
           after == Toggled(dropped, q, Current(q).mac)
       IN  \/ /\ Stepped(q, TRUE)
              /\ dropped' = after /\ onDisk' = after
              /\ undone' = undone \ {d}
           \/ /\ "restart" \in scenario
              /\ Stepped(q, TRUE)
              /\ dropped' = onDisk /\ UNCHANGED onDisk
              /\ undone' = undone \cup {d}
           \/ /\ "kea" \in scenario
              /\ Stepped(q, FALSE)
              /\ \/ UNCHANGED <<dropped, onDisk>>
                 \/ dropped' = after /\ onDisk' \in {onDisk, after}
              /\ UNCHANGED undone
    /\ UNCHANGED <<network, loop, dying, blocked, rows, admin>>

\* A stop pops the handle before it waits for the loop.  If it gives up
\* waiting, the retry finds no handle, and the loop runs on under none.
StopOverruns(d) ==
    /\ "arp" \in scenario
    /\ loop[d] # NoIdentity
    /\ dying' = [dying EXCEPT ![d] = @ \cup {loop[d]}]

\* A release stops the loop of the name; a quarantine stops it and starts one
\* for the resolved identity.  A start that fails has stopped the old loop.
ArpStep(q) ==
    /\ At(q, "arp")
    /\ LET d == Current(q).device
           after == IF req[q].action = "quarantine" THEN Current(q) ELSE NoIdentity
       IN  /\ UNCHANGED dying \/ StopOverruns(d)
           /\ \/ Stepped(q, TRUE) /\ loop' = [loop EXCEPT ![d] = after]
              \/ /\ "arp" \in scenario
                 /\ Stepped(q, FALSE)
                 /\ \E i \in {NoIdentity, after} : loop' = [loop EXCEPT ![d] = i]
    /\ UNCHANGED <<network, dropped, onDisk, undone, blocked, rows, admin>>

\* A loop that was told to stop ends, after its last ARP replies.
LoopEnds(d, i) ==
    /\ i \in dying[d]
    /\ dying' = [dying EXCEPT ![d] = @ \ {i}]
    /\ UNCHANGED <<network, dropped, onDisk, undone, loop, blocked, rows, req, admin>>

\* _get_gateway_ip asks Kea before, and outside, the retries.
GatewayFailed(q) ==
    /\ At(q, "arp")
    /\ req[q].action = "quarantine"
    /\ "kea" \in scenario
    /\ Fail(q)
    /\ UNCHANGED <<network, layers, rows, admin>>

\* One instance; a 404 for an address that has no override is a success.
PiholeStep(q, p) ==
    /\ At(q, p)
    /\ LET after == Toggled(blocked[p], q, Current(q).ip)
       IN  \/ Stepped(q, TRUE) /\ blocked' = [blocked EXCEPT ![p] = after]
           \/ /\ "pihole" \in scenario
              /\ Stepped(q, FALSE)
              /\ \E ips \in {blocked[p], after} : blocked' = [blocked EXCEPT ![p] = ips]
    /\ UNCHANGED <<network, dropped, onDisk, undone, loop, dying, rows, admin>>

NmapStep(q) ==
    /\ At(q, "nmap_refresh")
    /\ \/ Stepped(q, TRUE)
       \/ "nmap" \in scenario /\ Stepped(q, FALSE)
    /\ UNCHANGED <<network, layers, rows, admin>>

\* The failure row of a step cannot be inserted: the error leaves the retries.
StepRaised(q) ==
    /\ req[q].pc = "step"
    /\ "database" \in scenario
    /\ Fail(q)
    /\ UNCHANGED <<network, layers, rows, admin>>

\* run_with_retries of a step returned True for the current device.
Succeeded(q, step) == LogRow(q, step, TRUE) \in req[q].log

EnforcedResult(q) ==
    [device |-> Current(q).device, skipped |-> FALSE,
     kea |-> Succeeded(q, "kea"), arp |-> Succeeded(q, "arp"),
     pihole |-> \A p \in Instances : Succeeded(q, p),
     fingerprint |-> Succeeded(q, "nmap_refresh")]

\* _stamp_quarantine_state, whatever the steps returned, and whether or not a
\* Delete button is about to delete the row.
Stamp(q) ==
    /\ req[q].pc = "stamp"
    /\ LET d == Current(q).device
       IN  /\ flag' = IF d \in registered
                      THEN [flag EXCEPT ![d] = (req[q].action = "quarantine")]
                      ELSE flag
           /\ abandoned' = IF d \in dropping THEN abandoned \cup {d} ELSE abandoned
    /\ req' = [req EXCEPT ![q] = Finish(@, EnforcedResult(q))]
    /\ UNCHANGED <<network, layers, registered, deletion, dropping, failures>>

StampFailed(q) ==
    /\ req[q].pc = "stamp"
    /\ "database" \in scenario
    /\ Fail(q)
    /\ UNCHANGED <<network, layers, rows, admin>>

-----------------------------------------------------------------------------
(* The spoken summary of an answer *)

\* Mutant of EnforcementSucceeded: the loop does not count.
SucceededWithoutArp(s) == ~s.skipped /\ s.kea /\ s.pihole

\* Off the network, or back on it: the scan of the device does not count.
EnforcementSucceeded(s) == ~s.skipped /\ s.kea /\ s.arp /\ s.pihole

\* _human_summary: whom the one sentence names, and whom the other.
HumanSummary(results) ==
    LET named(good) == {results[k].device : k \in
                           {n \in DOMAIN results : EnforcementSucceeded(results[n]) = good}}
    IN  [succeeded |-> named(TRUE), failed |-> named(FALSE)]

-----------------------------------------------------------------------------
(* The Delete button (ui_quarantine.py) *)

About(d) == \E q \in Requests :
    /\ req[q].pc # "idle"
    /\ d \in req[q].target

RemoveRow(d, byForce) ==
    /\ registered' = registered \ {d}
    /\ flag' = [flag EXCEPT ![d] = FALSE]
    /\ failures' = [failures EXCEPT ![d] = 0]
    /\ abandoned' = IF byForce \/ About(d) THEN abandoned \cup {d} ELSE abandoned

\* The Add dialog writes a row with its defaults, over one that exists too.
AddRow(d) ==
    /\ "delete" \in scenario
    /\ registered' = registered \cup {d}
    /\ flag' = [flag EXCEPT ![d] = FALSE]
    /\ abandoned' = IF flag[d] THEN abandoned \cup {d} ELSE abandoned
    /\ UNCHANGED <<network, layers, req, deletion, dropping, failures>>

\* Mutant of DeleteFree: the flag is not looked at.
DeleteUnchecked(d) ==
    /\ "delete" \in scenario
    /\ d \in registered
    /\ dropping' = dropping \cup {d}
    /\ UNCHANGED <<network, layers, rows, req, deletion, failures, abandoned>>

\* The row does not say quarantined: it is to be deleted.
DeleteFree(d) ==
    /\ "delete" \in scenario
    /\ d \in registered /\ ~flag[d]
    /\ dropping' = dropping \cup {d}
    /\ UNCHANGED <<network, layers, rows, req, deletion, failures, abandoned>>

\* The DELETE, which does not look at the row again.
DropRow(d) ==
    /\ d \in dropping
    /\ RemoveRow(d, FALSE)
    /\ dropping' = dropping \ {d}
    /\ UNCHANGED <<network, layers, req, deletion>>

\* The row says quarantined: ask for a release and wait for the answer.
DeleteQuarantined(d, q) ==
    /\ "delete" \in scenario
    /\ d \in registered /\ flag[d]
    /\ deletion = NoDeletion
    /\ Start(q, "release", d, FALSE)
    /\ deletion' = [device |-> d, request |-> q]
    /\ UNCHANGED <<network, layers, rows, dropping, failures, abandoned>>

\* _summarize_step_results: no device skipped and every check ticked.
AllOk(r) ==
    /\ r.outcome = "ok"
    /\ \A k \in DOMAIN r.results :
          LET s == r.results[k]
          IN  ~s.skipped /\ s.kea /\ s.arp /\ s.pihole /\ s.fingerprint

\* The release answered: the row is to be deleted, or the failure is counted,
\* here up to the number that matters.
Answered ==
    /\ deletion # NoDeletion
    /\ LET d == deletion.device
           r == req[deletion.request]
       IN  /\ r.pc = "idle"
           /\ IF AllOk(r)
              THEN dropping' = dropping \cup {d} /\ UNCHANGED failures
              ELSE /\ failures' = [failures EXCEPT
                                      ![d] = IF @ < MaxDeleteReleases THEN @ + 1 ELSE @]
                   /\ UNCHANGED dropping
    /\ deletion' = NoDeletion
    /\ UNCHANGED <<network, layers, rows, req, abandoned>>

\* The answer timed out: the script of the session ends, the request goes on.
AnswerLost ==
    /\ deletion # NoDeletion
    /\ deletion' = NoDeletion
    /\ UNCHANGED <<network, layers, rows, req, dropping, failures, abandoned>>

ForceDelete(d) ==
    /\ "delete" \in scenario
    /\ d \in registered
    /\ failures[d] >= MaxDeleteReleases
    /\ RemoveRow(d, TRUE)
    /\ UNCHANGED <<network, layers, req, deletion, dropping>>

-----------------------------------------------------------------------------

\* The container of the service restarts: requests and ARP loops are gone.
ServiceRestart ==
    /\ "restart" \in scenario
    /\ req' = [q \in Requests |-> NoRequest]
    /\ loop' = [d \in Devices |-> NoIdentity]
    /\ dying' = [d \in Devices |-> {}]
    /\ UNCHANGED <<network, dropped, onDisk, undone, blocked, rows, admin>>

KeaRestart ==
    /\ "restart" \in scenario
    /\ dropped' = onDisk
    /\ UNCHANGED <<network, onDisk, undone, loop, dying, blocked, rows, req, admin>>

RequestStep(q) ==
    \/ LookUp(q)
    \/ \E l \in leases : Resolve(q, l)
    \/ ResolveOffline(q) \/ ResolveFailed(q) \/ Resolved(q)
    \/ Verify(q) \/ VerifyDrifted(q) \/ VerifyFailed(q)
    \/ KeaStep(q) \/ ArpStep(q) \/ GatewayFailed(q)
    \/ \E p \in Instances : PiholeStep(q, p)
    \/ NmapStep(q) \/ StepRaised(q) \/ Stamp(q) \/ StampFailed(q)

Next ==
    \/ \E i \in Identities : Acquire(i) \/ Expire(i)
    \/ \E q \in Requests, action \in Actions :
          \E asked \in Spellings, isGroup \in BOOLEAN : Ask(q, action, asked, isGroup)
    \/ \E q \in Requests : RequestStep(q)
    \/ \E d \in Devices :
          \/ AddRow(d) \/ DeleteFree(d) \/ DropRow(d) \/ ForceDelete(d)
          \/ \E i \in Identities : LoopEnds(d, i)
          \/ \E q \in Requests : DeleteQuarantined(d, q)
    \/ Answered \/ AnswerLost
    \/ ServiceRestart \/ KeaRestart

Spec == Init /\ [][Next]_vars

\* Every call of a request has a timeout and every retry loop an end, so a
\* thread that serves a request gets on with it.
FairSpec == Spec /\ \A q \in Requests : WF_vars(RequestStep(q))

-----------------------------------------------------------------------------
(* Properties *)

\* Each layer is on, or off, for the identity i.
InKea(i, on) == (i.mac \in dropped) = on /\ (i.mac \in onDisk) = on
InArp(i, on) == loop[i.device] = IF on THEN i ELSE NoIdentity
InPihole(i, on) == \A p \in Instances : (i.ip \in blocked[p]) = on
InAllLayers(i, on) == InKea(i, on) /\ InArp(i, on) /\ InPihole(i, on)

\* With one thread: whatever an answer reports as succeeded is what the layers
\* hold for the identity it resolved, until the next request, whatever failed
\* before, in other steps, or for other devices, and wherever Kea restarted but
\* between the set and the write of this device's own kea step.  Of the ARP loops
\* it is the registered one that an answer tells about: one that was given up
\* waiting for may go on besides.
ResponseIsTrue ==
    \A q \in Requests :
        LET on == req[q].action = "quarantine"
        IN  req[q].pc = "idle" /\ req[q].outcome = "ok" =>
               \A k \in DOMAIN req[q].results :
                  LET r == req[q].results[k]
                      i == req[q].resolved[k]
                  IN  /\ r.device = i.device
                      /\ r.kea => InKea(i, on) \/ i.device \in undone
                      /\ r.arp => InArp(i, on)
                      /\ r.pihole => InPihole(i, on)

\* _human_summary: "a partial failure is never rounded up into done".  With one
\* thread: the summary names every device of the answer once, and one it calls
\* off the internet, or back online, is so in every layer until the next request,
\* with the two exceptions of ResponseIsTrue: its kea step lost to a restart of
\* Kea, and a loop that was given up waiting for.
SummaryIsTrue ==
    \A q \in Requests :
        LET told == HumanSummary(req[q].results)
            on == req[q].action = "quarantine"
        IN  req[q].pc = "idle" /\ req[q].outcome = "ok" =>
               /\ told.succeeded \cap told.failed = {}
               /\ \A k \in DOMAIN req[q].resolved :
                     LET i == req[q].resolved[k]
                     IN  \/ /\ i.device \in told.succeeded
                            /\ InKea(i, on) \/ i.device \in undone
                            /\ InArp(i, on) /\ InPihole(i, on)
                         \/ i.device \in told.failed

\* Nothing of d is enforced in any layer.
Free(d) ==
    /\ MacsOf(d) \cap (dropped \cup onDisk) = {}
    /\ loop[d] = NoIdentity /\ dying[d] = {}
    /\ \A p \in Instances : IpsOf(d) \cap blocked[p] = {}

\* No other lease of d, and no other device's, names its MAC or its address.
Settled(d) ==
    /\ \E mac \in Macs, ip \in Ips : MacsOf(d) = {mac} /\ IpsOf(d) = {ip}
    /\ \A i \in Identities : i.device # d => i.mac \notin MacsOf(d) /\ i.ip \notin IpsOf(d)

\* Every lease d may have is cut off in every layer, by one loop.
CutOff(d) ==
    /\ \A i \in Identities : i.device = d => InAllLayers(i, TRUE)
    /\ dying[d] = {}

\* What the dashboard shows and the Delete button relies on, with one thread: while
\* only scans fail, the flag of a device that keeps its address and that no request
\* is working on tells the truth, unless its row was deleted by force or under a
\* running request, stamped between the look of a Delete button and its DELETE, or
\* added anew while it was flagged.  A device shown as quarantined is cut off in
\* every layer and any other in none, so deleting a row that is not flagged leaves
\* nothing behind.
FlagTellsTheTruth ==
    scenario \subseteq {"delete", "nmap"} =>
        \A d \in Devices :
            Settled(d) /\ ~About(d) /\ d \notin abandoned =>
                IF flag[d] THEN CutOff(d) ELSE Free(d)

\* What it means for q that its target is the one that was meant.
Meant(q) ==
    LET r == req'[q]
        devices == {e.device : e \in r.entries}
        alike == {d \in registered : Plain[d] = Plain[r.asked]}
    IN  /\ devices # {}
        /\ r.isGroup => devices = registered \cap Group
        /\ ~r.isGroup => \E d \in alike :
              /\ devices = {d}
              /\ d # r.asked => /\ r.asked \notin registered \/ req[q].pc = "lookup"
                                /\ \A a \in alike : Position(d) <= Position(a)

\* identity.py:97: lenient matching never lets "an exactly-registered name be
\* shadowed".  The devices a request sets out for are registered and spelled as
\* its target is, but for case and separators; a single device is the one of
\* exactly that name if it is registered, and the first that is alike if it is
\* not, or was not when the request looked first; of a group none is left out.
TargetsAreMeant ==
    [][\A q \in Requests :
          req'[q].pc = "resolve" /\ req[q].pc \in {"idle", "lookup"} => Meant(q)]_vars

\* Every request is answered, whatever fails on the way.
RequestsEnd == \A q \in Requests : req[q].pc # "idle" ~> req[q].pc = "idle"

\* run_with_retries (retry.py:31-32): "one failed step doesn't stop the other
\* enforcement steps from running": every device an answer reports on was
\* given every step, however many failed, or none when it was skipped.
AnsweredMeansEveryStep ==
    \A q \in Requests :
        req[q].pc = "idle" /\ req[q].outcome = "ok" =>
            LET logged == {<<row.device, row.step>> : row \in req[q].log}
            IN  \A k \in DOMAIN req[q].results, n \in DOMAIN Steps :
                   LET r == req[q].results[k]
                   IN  <<r.device, Steps[n]>> \in logged <=> ~r.skipped
=============================================================================
