---------------------------- MODULE PiholeBlock ----------------------------
(***************************************************************************)
(* The DNS block of one Pi-hole: pihole.py, pihole_block.py and the retry  *)
(* of retry.py around each attempt.  Every request of the quarantine       *)
(* service has a client, and with it a login, of its own.                  *)
(* The Pi-hole is not under src/: it keeps group names and regex entries   *)
(* unique, refuses a session it does not know with 401, and forgets its    *)
(* sessions when it restarts.  Nobody else edits its groups.  One group    *)
(* name and one regex are ever used, so each is there or not.              *)
(***************************************************************************)
EXTENDS Naturals, FiniteSets

CONSTANTS
    Requests,           \* requests that reach the Pi-hole step
    Ips,                \* addresses of devices
    MAX_ATTEMPTS,       \* retry.py
    MaxTrouble,         \* bound: calls lost and restarts
    Nothing             \* no address yet

ASSUME PiholeAssumption ==
    /\ IsFiniteSet(Requests)
    /\ MAX_ATTEMPTS \in Nat /\ MAX_ATTEMPTS >= 3
    /\ MaxTrouble \in Nat
    /\ Nothing \notin Ips

VARIABLES
    group,          \* the group keanexus_quarantine is there
    regex,          \* the deny-all regex is there, scoped to the group
    overridden,     \* addresses with a client entry in the group
    sessions,       \* requests whose session the Pi-hole knows
    sid,            \* requests whose client has a session cached
    pc,             \* the call an attempt makes next
    target,         \* the address of a request
    failures,       \* attempts of a request that raised
    trouble,        \* calls lost and restarts so far
    upset,          \* history: requests that met one
    overtaken       \* history: finished requests whose address was written since

piholeVars == <<group, regex, overridden, sessions>>
vars == <<group, regex, overridden, sessions, sid, pc, target, failures,
          trouble, upset, overtaken>>

BlockCalls == {"findGroup", "addGroup", "findRegex", "addRegex", "assign"}
Calls == BlockCalls \cup {"unassign"}
PCs == Calls \cup {"idle", "raised", "blocked", "unblocked", "failed"}

TypeOK ==
    /\ group \in BOOLEAN /\ regex \in BOOLEAN
    /\ overridden \subseteq Ips
    /\ sessions \subseteq Requests /\ sid \subseteq Requests
    /\ pc \in [Requests -> PCs]
    /\ target \in [Requests -> [ip : Ips \cup {Nothing}, block : BOOLEAN]]
    /\ failures \in [Requests -> 0..MAX_ATTEMPTS]
    /\ trouble \in 0..MaxTrouble
    /\ upset \subseteq Requests /\ overtaken \subseteq Requests

Init ==
    /\ group = FALSE /\ regex = FALSE
    /\ overridden = {} /\ sessions = {} /\ sid = {}
    /\ pc = [q \in Requests |-> "idle"]
    /\ target = [q \in Requests |-> [ip |-> Nothing, block |-> FALSE]]
    /\ failures = [q \in Requests |-> 0]
    /\ trouble = 0 /\ upset = {} /\ overtaken = {}

First(block) == IF block THEN "findGroup" ELSE "unassign"

\* The Pi-hole step of a request begins: block or unblock an address.
Begin(q, ip, block) ==
    /\ pc[q] = "idle"
    /\ target' = [target EXCEPT ![q] = [ip |-> ip, block |-> block]]
    /\ pc' = [pc EXCEPT ![q] = First(block)]
    /\ UNCHANGED <<piholeVars, sid, failures, trouble, upset, overtaken>>

\* _authenticate: a client without a session logs in before its next call.
Login(q) ==
    /\ pc[q] \in Calls
    /\ q \notin sid
    /\ sid' = sid \cup {q}
    /\ sessions' = sessions \cup {q}
    /\ UNCHANGED <<group, regex, overridden, pc, target, failures, trouble, upset, overtaken>>

\* request: the call is sent with the session cached, and the Pi-hole knows it.
Served(q, call) ==
    /\ pc[q] = call
    /\ q \in sid
    /\ q \in sessions

\* A call raises: the attempt is over.
Raise(q) == pc' = [pc EXCEPT ![q] = "raised"]

Unchanged == UNCHANGED <<sessions, sid, target, failures, trouble, upset>>

\* Mutant of FindGroup: a group found is taken to have its regex.
FindGroupIsEnough(q) ==
    /\ Served(q, "findGroup")
    /\ pc' = [pc EXCEPT ![q] = IF group THEN "assign" ELSE "addGroup"]
    /\ UNCHANGED <<group, regex, overridden, overtaken>> /\ Unchanged

\* _find_group_by_name
FindGroup(q) ==
    /\ Served(q, "findGroup")
    /\ pc' = [pc EXCEPT ![q] = IF group THEN "findRegex" ELSE "addGroup"]
    /\ UNCHANGED <<group, regex, overridden, overtaken>> /\ Unchanged

\* The POST of _ensure_quarantine_group; a group added meanwhile refuses it.
AddGroup(q) ==
    /\ Served(q, "addGroup")
    /\ \/ ~group /\ pc' = [pc EXCEPT ![q] = "findRegex"]
       \/ group /\ Raise(q)
    /\ group' = TRUE
    /\ UNCHANGED <<regex, overridden, overtaken>> /\ Unchanged

\* The GET of _ensure_deny_all_regex
FindRegex(q) ==
    /\ Served(q, "findRegex")
    /\ pc' = [pc EXCEPT ![q] = IF regex THEN "assign" ELSE "addRegex"]
    /\ UNCHANGED <<group, regex, overridden, overtaken>> /\ Unchanged

\* The POST of _ensure_deny_all_regex; a regex added meanwhile refuses it.
AddRegex(q) ==
    /\ Served(q, "addRegex")
    /\ \/ ~regex /\ pc' = [pc EXCEPT ![q] = "assign"]
       \/ regex /\ Raise(q)
    /\ regex' = TRUE
    /\ UNCHANGED <<group, overridden, overtaken>> /\ Unchanged

\* Requests that had finished with the address q writes.
Overtakes(q) == overtaken' = overtaken \cup
                  {o \in Requests \ {q} : pc[o] \in {"blocked", "unblocked"}
                                          /\ target[o].ip = target[q].ip}

\* The PUT of block_via_pihole
Assign(q) ==
    /\ Served(q, "assign")
    /\ overridden' = overridden \cup {target[q].ip}
    /\ pc' = [pc EXCEPT ![q] = "blocked"]
    /\ Overtakes(q)
    /\ UNCHANGED <<group, regex>> /\ Unchanged

\* unblock_via_pihole: a 404 says the entry is gone and counts as success.
Unassign(q) ==
    /\ Served(q, "unassign")
    /\ overridden' = overridden \ {target[q].ip}
    /\ pc' = [pc EXCEPT ![q] = "unblocked"]
    /\ Overtakes(q)
    /\ UNCHANGED <<group, regex>> /\ Unchanged

\* A session the Pi-hole does not know: 401, and the client keeps it.
Refused(q) ==
    /\ pc[q] \in Calls
    /\ q \in sid /\ q \notin sessions
    /\ Raise(q)
    /\ UNCHANGED <<piholeVars, overtaken>> /\ Unchanged

\* The Pi-hole is not reached, or its answer to a login or a call is lost.
Lost(q) ==
    /\ pc[q] \in Calls
    /\ trouble < MaxTrouble
    /\ trouble' = trouble + 1
    /\ upset' = upset \cup {q}
    /\ Raise(q)
    /\ UNCHANGED <<piholeVars, sid, target, failures, overtaken>>

\* A write takes effect and its answer is lost: the timeout raises.
AnswerLost(q) ==
    /\ q \in sid /\ q \in sessions
    /\ trouble < MaxTrouble
    /\ trouble' = trouble + 1
    /\ upset' = upset \cup {q}
    /\ Raise(q)
    /\ \/ /\ pc[q] = "addGroup" /\ group' = TRUE
          /\ UNCHANGED <<regex, overridden, overtaken>>
       \/ /\ pc[q] = "addRegex" /\ regex' = TRUE
          /\ UNCHANGED <<group, overridden, overtaken>>
       \/ /\ pc[q] = "assign"
          /\ overridden' = overridden \cup {target[q].ip} /\ Overtakes(q)
          /\ UNCHANGED <<group, regex>>
       \/ /\ pc[q] = "unassign"
          /\ overridden' = overridden \ {target[q].ip} /\ Overtakes(q)
          /\ UNCHANGED <<group, regex>>
    /\ UNCHANGED <<sessions, sid, target, failures>>

\* Mutant of Retry: one attempt too few.
RetryOnceLess(q) ==
    /\ pc[q] = "raised"
    /\ failures' = [failures EXCEPT ![q] = @ + 1]
    /\ pc' = [pc EXCEPT ![q] = IF failures[q] + 2 < MAX_ATTEMPTS
                               THEN First(target[q].block) ELSE "failed"]
    /\ UNCHANGED <<piholeVars, sid, target, trouble, upset, overtaken>>

\* Mutant of Retry: one attempt too many.
RetryOnceMore(q) ==
    /\ pc[q] = "raised"
    /\ failures' = [failures EXCEPT ![q] = @ + 1]
    /\ pc' = [pc EXCEPT ![q] = IF failures[q] < MAX_ATTEMPTS
                               THEN First(target[q].block) ELSE "failed"]
    /\ UNCHANGED <<piholeVars, sid, target, trouble, upset, overtaken>>

\* run_with_retries: again from the first call, up to MAX_ATTEMPTS.
Retry(q) ==
    /\ pc[q] = "raised"
    /\ failures' = [failures EXCEPT ![q] = @ + 1]
    /\ pc' = [pc EXCEPT ![q] = IF failures[q] + 1 < MAX_ATTEMPTS
                               THEN First(target[q].block) ELSE "failed"]
    /\ UNCHANGED <<piholeVars, sid, target, trouble, upset, overtaken>>

\* The Pi-hole restarts and forgets the sessions of the requests under way.
PiholeRestart ==
    /\ trouble < MaxTrouble
    /\ sessions # {}
    /\ trouble' = trouble + 1
    /\ upset' = upset \cup sessions
    /\ sessions' = {}
    /\ UNCHANGED <<group, regex, overridden, sid, pc, target, failures, overtaken>>

RequestStep(q) ==
    \/ \E ip \in Ips, block \in BOOLEAN : Begin(q, ip, block)
    \/ Login(q) \/ FindGroup(q) \/ AddGroup(q) \/ FindRegex(q) \/ AddRegex(q)
    \/ Assign(q) \/ Unassign(q) \/ Refused(q) \/ Lost(q) \/ AnswerLost(q) \/ Retry(q)

Next == PiholeRestart \/ \E q \in Requests : RequestStep(q)

Spec == Init /\ [][Next]_vars

-----------------------------------------------------------------------------
(* The Pi-hole as the service sees it *)

\* A client entry denies every query once the group it names has its regex.
Blocked == IF group /\ regex THEN overridden ELSE {}

Status(q) ==
    CASE pc[q] = "idle" -> "none"
      [] pc[q] \in {"blocked", "unblocked"} -> "done"
      [] pc[q] = "failed" -> "failed"
      [] OTHER -> "waiting"

Told == INSTANCE BlockList WITH
    blocked <- Blocked, wanted <- target, status <- [q \in Requests |-> Status(q)]

-----------------------------------------------------------------------------
(* Properties *)

\* block_via_pihole and unblock_via_pihole edit three kinds of objects in up to
\* five calls, any of which may be refused, lost or repeated while other
\* requests edit the same objects: to everyone else each step is one write of
\* one address, a reported success is such a write during the request, and no
\* step changes whether another address is blocked.
StepsActAtomically == Told!Spec

\* However many requests find the group and the regex missing and add them
\* at the same time (pihole_block.py checks first and creates afterwards),
\* each loses either race at most once, so the three attempts of retry.py are
\* enough: a step fails only after a call of its own was lost or refused.
FailuresNeedTrouble == \A q \in Requests : pc[q] = "failed" => q \in upset

\* A step that reported success has the effect it reported, until another
\* request writes the same address (block_via_pihole, unblock_via_pihole):
\* the block in full, group and regex included, or no entry at all.
SuccessHolds ==
    \A q \in Requests \ overtaken :
        /\ pc[q] = "blocked" => group /\ regex /\ target[q].ip \in overridden
        /\ pc[q] = "unblocked" => target[q].ip \notin overridden
=============================================================================
