------------------------------ MODULE KeaConfig ------------------------------
(***************************************************************************)
(* The Dhcp4 configuration of Kea and the clients that rewrite it.  Kea    *)
(* keeps a running copy and a file; config-set replaces the running copy   *)
(* as a whole and config-write copies it to the file.  Every client is a   *)
(* read-modify-write over HTTP with nothing to detect a change in between: *)
(* the requests of the quarantine service (kea_deny.py under retry.py),    *)
(* and the Add, Edit and Settings forms of the dashboard, which start from *)
(* a config cached for two minutes (helpers.load_config).                  *)
(* Kea itself is not under src/: it applies a command and answers, refuses *)
(* it, or its answer is lost; it refuses a config that names a MAC twice;  *)
(* when it restarts it runs what is in its file.                           *)
(***************************************************************************)
EXTENDS Naturals

CONSTANTS
    Requests,       \* threads of the service in a Kea step
    Sessions,       \* dashboard sessions of admins
    Macs,           \* hw-address values
    Addressed,      \* the IP address of a form: given (TRUE), left blank (FALSE)
    Settings,       \* values of everything the Settings tab edits
    InitialConfigs, \* configurations Kea may be started with
    NoReservation,  \* no entry for a MAC
    NotCached,      \* load_config has nothing cached
    NoConfig,       \* load_config cached its None
    Spoiled,        \* a list that names one MAC twice, which Kea refuses
    MAX_ATTEMPTS,   \* attempts of run_with_retries
    MayRestart      \* Kea may restart in this instance

Classes == {"DROP", "other"}
Fields == {"ip-address", "hostname"}

\* The fields with a value, the classes, and whether the entry comes from
\* Kea: config-get returns every field of a reservation as a key, one
\* without a value too ("hostname": ""), while an entry the program has just
\* built has the keys it was given.
Reservations == [fields : SUBSET Fields, classes : SUBSET Classes, filled : BOOLEAN]
Configs == [reservations : [Macs -> Reservations \cup {NoReservation}],
            settings : Settings]

\* A configuration as config-get returns it.
Returned(config) ==
    \A m \in Macs :
        config.reservations[m] # NoReservation => config.reservations[m].filled

ASSUME ConfigAssumption ==
    /\ NoReservation \notin Reservations
    /\ {NotCached, NoConfig, Spoiled} \cap Configs = {}
    /\ Spoiled \notin {NotCached, NoConfig}
    /\ InitialConfigs \subseteq Configs
    /\ \A config \in InitialConfigs : Returned(config)
    /\ Requests \cap Sessions = {}
    /\ MAX_ATTEMPTS \in Nat /\ MAX_ATTEMPTS >= 1
    /\ Addressed \subseteq BOOLEAN
    /\ MayRestart \in BOOLEAN

VARIABLES
    running,    \* what Kea runs
    disk,       \* kea-dhcp4.conf
    cache,      \* the value of load_config
    pc,         \* where each client stands
    copy,       \* the config dict each client holds and edits
    op,         \* deny or undo of a request; the form of a session
    mac,        \* the MAC a request works on, or a form was opened for
    attempt,    \* attempt_number of a request
    outcome,    \* how the last Kea step of a request ended
    linked,     \* the reservation a form was opened for is still in copy
    base,       \* history: what copy was before the client edited it
    direction,  \* history: the last deny or undo applied to a MAC
    excused,    \* history: MACs someone else rewrote since
    disturbed   \* history: requests whose base somebody changed

keaVars == <<running, disk>>
requestVars == <<attempt, outcome>>
historyVars == <<direction, excused, disturbed>>
vars == <<running, disk, cache, pc, copy, op, mac, attempt, outcome, linked,
          base, direction, excused, disturbed>>

Clients == Requests \cup Sessions
Ops == {"deny", "undo", "add", "edit", "settings"}
PCs == {"idle", "get", "set", "write", "log", "open"}

TypeOK ==
    /\ running \in Configs
    /\ disk \in Configs
    /\ Returned(running) /\ Returned(disk)
    /\ cache \in Configs \cup {NotCached, NoConfig}
    /\ pc \in [Clients -> PCs]
    /\ copy \in [Clients -> Configs \cup {Spoiled, NoConfig}]
    /\ op \in [Clients -> Ops]
    /\ mac \in [Clients -> Macs]
    /\ attempt \in [Requests -> 1..MAX_ATTEMPTS]
    /\ outcome \in [Requests -> {"none", "ok", "failed"}]
    /\ linked \in [Sessions -> BOOLEAN]
    /\ base \in [Clients -> Configs \cup {NoConfig}]
    /\ direction \in [Macs -> {"deny", "undo"}]
    /\ excused \subseteq Macs
    /\ disturbed \subseteq Requests

-----------------------------------------------------------------------------
(* kea_deny.py on a config dict; Kea allows one reservation per MAC *)

Dropped(config, m) ==
    /\ config.reservations[m] # NoReservation
    /\ "DROP" \in config.reservations[m].classes

\* _reservation_has_no_remaining_purpose: it looks for keys, whatever their
\* values.
NoPurpose(r) == ~r.filled /\ r.fields = {} /\ r.classes = {}

\* The entry the service appends for a MAC that has none.
DropOnly == [fields |-> {}, classes |-> {"DROP"}, filled |-> FALSE]

\* A list with the entry of one MAC set, or taken out.
WithReservation(config, m, r) ==
    [config EXCEPT !.reservations = [config.reservations EXCEPT ![m] = r]]

\* Mutant of apply_drop_class: a fresh reservation replaces the old one.
apply_replaces(config, m) ==
    WithReservation(config, m, DropOnly)

\* Appends DROP to the classes of the reservation, or makes one for it.
apply_drop_class(config, m) ==
    LET r == config.reservations[m]
        denied == IF r = NoReservation THEN DropOnly
                  ELSE [r EXCEPT !.classes = @ \cup {"DROP"}]
    IN  WithReservation(config, m, denied)

\* Mutant of remove_drop_class: only a reservation of its own is released.
remove_spares(config, m) ==
    LET r == config.reservations[m]
        empty == r # NoReservation /\ r.fields = {} /\ r.classes \subseteq {"DROP"}
    IN  IF empty THEN WithReservation(config, m, NoReservation) ELSE config

\* Removes DROP, and the reservation when it has no purpose left.
remove_drop_class(config, m) ==
    LET r == config.reservations[m]
        left == [r EXCEPT !.classes = @ \ {"DROP"}]
        released == IF r = NoReservation \/ NoPurpose(left) THEN NoReservation ELSE left
    IN  WithReservation(config, m, released)

Modified(config, o, m) ==
    IF o = "deny" THEN apply_drop_class(config, m) ELSE remove_drop_class(config, m)

\* The entry the Add and Edit forms build: a MAC and an optional address.
Entry(withIp) ==
    [fields |-> IF withIp THEN {"ip-address"} ELSE {}, classes |-> {}, filled |-> FALSE]

\* What Kea makes of a configuration it accepts, as config-get shows it.
Filled(config) ==
    [config EXCEPT !.reservations =
        [m \in Macs |-> IF config.reservations[m] = NoReservation THEN NoReservation
                        ELSE [config.reservations[m] EXCEPT !.filled = TRUE]]]

-----------------------------------------------------------------------------

Init ==
    /\ running \in InitialConfigs
    /\ disk = running
    /\ cache = NotCached
    /\ pc = [c \in Clients |-> "idle"]
    /\ copy = [c \in Clients |-> NoConfig]
    /\ op = [c \in Clients |-> IF c \in Requests THEN "deny" ELSE "add"]
    /\ mac \in [Clients -> Macs]
    /\ attempt = [q \in Requests |-> 1]
    /\ outcome = [q \in Requests |-> "none"]
    /\ linked = [s \in Sessions |-> FALSE]
    /\ base = [c \in Clients |-> NoConfig]
    /\ direction = [m \in Macs |-> IF Dropped(running, m) THEN "deny" ELSE "undo"]
    /\ excused = {}
    /\ disturbed = {}

\* config-set of client c takes effect in Kea.
Applied(c) ==
    /\ running' = Filled(copy[c])
    /\ disturbed' = disturbed \cup (Requests \ {c})
    /\ excused' = IF base[c] # running THEN Macs
                  ELSE IF c \in Requests THEN excused \ {mac[c]}
                  ELSE excused \cup
                       {m \in Macs : base[c].reservations[m] # copy[c].reservations[m]}
    /\ direction' = IF c \in Requests THEN [direction EXCEPT ![mac[c]] = op[c]]
                                      ELSE direction

-----------------------------------------------------------------------------
(* A request: run_with_retries around deny_via_kea or undo_deny_via_kea *)

Ask(q, o, m) ==
    /\ pc[q] = "idle"
    /\ op' = [op EXCEPT ![q] = o]
    /\ mac' = [mac EXCEPT ![q] = m]
    /\ attempt' = [attempt EXCEPT ![q] = 1]
    /\ outcome' = [outcome EXCEPT ![q] = "none"]
    /\ pc' = [pc EXCEPT ![q] = "get"]
    /\ UNCHANGED <<keaVars, cache, copy, linked, base, historyVars>>

\* The config dict is a local variable of the attempt, dead once it was sent.
Forget(c) ==
    /\ copy' = [copy EXCEPT ![c] = NoConfig]
    /\ base' = [base EXCEPT ![c] = NoConfig]

\* Mutant of Raised: one attempt too many.
RaisedOnceMore(q) ==
    /\ attempt' = [attempt EXCEPT ![q] = IF @ <= MAX_ATTEMPTS THEN @ + 1 ELSE @]
    /\ pc' = [pc EXCEPT ![q] = IF attempt[q] <= MAX_ATTEMPTS THEN "get" ELSE "idle"]
    /\ outcome' = [outcome EXCEPT ![q] = IF attempt[q] <= MAX_ATTEMPTS THEN @ ELSE "failed"]
    /\ Forget(q)
    /\ UNCHANGED <<cache, op, mac, linked>>

\* attempt_fn raised: another attempt after the backoff, or the failure row.
Raised(q) ==
    /\ IF attempt[q] < MAX_ATTEMPTS
       THEN /\ attempt' = [attempt EXCEPT ![q] = @ + 1]
            /\ pc' = [pc EXCEPT ![q] = "get"]
            /\ UNCHANGED outcome
       ELSE /\ pc' = [pc EXCEPT ![q] = "idle"]
            /\ outcome' = [outcome EXCEPT ![q] = "failed"]
            /\ UNCHANGED attempt
    /\ Forget(q)
    /\ UNCHANGED <<cache, op, mac, linked>>

\* kea.get_config and the change of the dict it returned.
Get(q) ==
    /\ pc[q] = "get"
    /\ base' = [base EXCEPT ![q] = running]
    /\ copy' = [copy EXCEPT ![q] = Modified(running, op[q], mac[q])]
    /\ disturbed' = disturbed \ {q}
    /\ pc' = [pc EXCEPT ![q] = "set"]
    /\ UNCHANGED <<keaVars, cache, op, mac, requestVars, linked,
                   direction, excused>>

GetFailed(q) ==
    /\ pc[q] = "get"
    /\ Raised(q)
    /\ UNCHANGED <<keaVars, historyVars>>

\* save_config, first half.
Set(q) ==
    /\ pc[q] = "set"
    /\ Applied(q)
    /\ Forget(q)
    /\ pc' = [pc EXCEPT ![q] = "write"]
    /\ UNCHANGED <<disk, cache, op, mac, requestVars, linked>>

\* An error result, Kea unreachable, or an answer that timed out: in the last
\* case the command may have taken effect.
SetFailed(q) ==
    /\ pc[q] = "set"
    /\ \/ Applied(q)
       \/ UNCHANGED <<running, historyVars>>
    /\ Raised(q)
    /\ UNCHANGED disk

\* Mutant of Write: save_config without its config-write.
WriteForgotten(q) ==
    /\ pc[q] = "write"
    /\ pc' = [pc EXCEPT ![q] = "log"]
    /\ UNCHANGED <<keaVars, cache, copy, op, mac, requestVars, linked, base, historyVars>>

\* save_config, second half.
Write(q) ==
    /\ pc[q] = "write"
    /\ disk' = running
    /\ pc' = [pc EXCEPT ![q] = "log"]
    /\ UNCHANGED <<running, cache, copy, op, mac, requestVars, linked, base, historyVars>>

WriteFailed(q) ==
    /\ pc[q] = "write"
    /\ disk' \in {disk, running}
    /\ Raised(q)
    /\ UNCHANGED <<running, historyVars>>

\* The success row; a database error is one more failed attempt.
LogSuccess(q) ==
    /\ pc[q] = "log"
    /\ \/ /\ outcome' = [outcome EXCEPT ![q] = "ok"]
          /\ pc' = [pc EXCEPT ![q] = "idle"]
          /\ UNCHANGED <<cache, copy, op, mac, attempt, linked, base>>
       \/ Raised(q)
    /\ UNCHANGED <<keaVars, historyVars>>

-----------------------------------------------------------------------------
(* The dashboard *)

\* A script run finds no cached config and loads one; a failure is cached as
\* None like any other value.
LoadConfig ==
    /\ Sessions # {}
    /\ cache = NotCached
    /\ cache' \in {running, NoConfig}
    /\ UNCHANGED <<keaVars, pc, copy, op, mac, requestVars, linked, base, historyVars>>

\* The ttl of 120 seconds, or the refresh button of the Maintenance tab.
Expire ==
    /\ cache # NotCached
    /\ cache' = NotCached
    /\ UNCHANGED <<keaVars, pc, copy, op, mac, requestVars, linked, base, historyVars>>

\* A form is shown on a copy of the cached config.  The dict stays the same
\* object for as long as a dialog is open.
Open(s, form, m) ==
    /\ pc[s] = "idle"
    /\ cache \in Configs
    /\ IF form = "edit" THEN cache.reservations[m] # NoReservation ELSE m = mac[s]
    /\ copy' = [copy EXCEPT ![s] = cache]
    /\ base' = [base EXCEPT ![s] = cache]
    /\ op' = [op EXCEPT ![s] = form]
    /\ mac' = [mac EXCEPT ![s] = m]
    /\ linked' = [linked EXCEPT ![s] = (form = "edit")]
    /\ pc' = [pc EXCEPT ![s] = "open"]
    /\ UNCHANGED <<keaVars, cache, requestVars, historyVars>>

\* The form is gone, and with it the dict it was opened on.
Close(s) ==
    /\ Forget(s)
    /\ linked' = [linked EXCEPT ![s] = FALSE]
    /\ pc' = [pc EXCEPT ![s] = "idle"]
    /\ UNCHANGED <<op, mac, requestVars>>

Cancel(s) ==
    /\ pc[s] = "open"
    /\ Close(s)
    /\ UNCHANGED <<keaVars, cache, historyVars>>

Press(s, form) ==
    /\ pc[s] = "open" /\ op[s] = form
    /\ UNCHANGED <<keaVars, cache, op, requestVars, base, historyVars>>

\* Save in the Add form: append the entry.  When the list already holds the
\* MAC, Kea refuses it and the entry is popped again: nothing changes.
PressAdd(s, m, withIp) ==
    /\ Press(s, "add")
    /\ copy[s].reservations[m] = NoReservation
    /\ copy' = [copy EXCEPT ![s] = WithReservation(copy[s], m, Entry(withIp))]
    /\ mac' = [mac EXCEPT ![s] = m]
    /\ pc' = [pc EXCEPT ![s] = "set"]
    /\ UNCHANGED linked

\* What the list is after the loop that looks for the reservation object: the
\* new entry in its place, or the same list when it is not there any more.
Replaced(s, m, withIp) ==
    IF ~linked[s] THEN copy[s]
    ELSE IF m # mac[s] /\ copy[s].reservations[m] # NoReservation THEN Spoiled
    ELSE WithReservation(WithReservation(copy[s], mac[s], NoReservation), m, Entry(withIp))

\* Save in the Edit form.
PressSave(s, m, withIp) ==
    /\ Press(s, "edit")
    /\ copy' = [copy EXCEPT ![s] = Replaced(s, m, withIp)]
    /\ linked' = [linked EXCEPT ![s] = FALSE]
    /\ pc' = [pc EXCEPT ![s] = "set"]
    /\ UNCHANGED mac

\* Delete in the Edit form: list.remove compares by value, so an entry that
\* an earlier press put in the place of the reservation counts when equal.
PressDelete(s) ==
    /\ Press(s, "edit")
    /\ copy' = IF /\ copy[s] # Spoiled
                  /\ copy[s].reservations[mac[s]] = base[s].reservations[mac[s]]
               THEN [copy EXCEPT ![s] = WithReservation(copy[s], mac[s], NoReservation)]
               ELSE copy
    /\ linked' = [linked EXCEPT ![s] = FALSE]
    /\ pc' = [pc EXCEPT ![s] = "set"]
    /\ UNCHANGED mac

PressSettings(s, v) ==
    /\ Press(s, "settings")
    /\ copy' = [copy EXCEPT ![s].settings = v]
    /\ pc' = [pc EXCEPT ![s] = "set"]
    /\ UNCHANGED <<mac, linked>>

SessionSet(s) ==
    /\ pc[s] = "set"
    /\ copy[s] # Spoiled
    /\ Applied(s)
    /\ pc' = [pc EXCEPT ![s] = "write"]
    /\ UNCHANGED <<disk, cache, copy, op, mac, requestVars, linked, base>>

\* save_config did not return.  A dialog stays open on the dict as it is,
\* except that the Add form pops its entry when the error is a KeaError; the
\* Settings tab starts over from the cached config.
SaveFailed(s) ==
    /\ UNCHANGED cache
    /\ IF op[s] = "settings" THEN Close(s)
       ELSE /\ \/ UNCHANGED copy
               \/ /\ op[s] = "add"
                  /\ copy' = [copy EXCEPT ![s] =
                                WithReservation(copy[s], mac[s], NoReservation)]
            /\ pc' = [pc EXCEPT ![s] = "open"]
            /\ UNCHANGED <<op, mac, requestVars, linked, base>>

SessionSetFailed(s) ==
    /\ pc[s] = "set"
    /\ \/ copy[s] # Spoiled /\ Applied(s)
       \/ UNCHANGED <<running, historyVars>>
    /\ SaveFailed(s)
    /\ UNCHANGED disk

\* The save is complete: load_config.clear(), and the form is closed.
SessionWrite(s) ==
    /\ pc[s] = "write"
    /\ disk' = running
    /\ cache' = NotCached
    /\ Close(s)
    /\ UNCHANGED <<running, historyVars>>

SessionWriteFailed(s) ==
    /\ pc[s] = "write"
    /\ disk' \in {disk, running}
    /\ SaveFailed(s)
    /\ UNCHANGED <<running, historyVars>>

-----------------------------------------------------------------------------

\* Kea restarts and reads its file.
KeaRestart ==
    /\ MayRestart
    /\ running' = disk
    /\ disturbed' = Requests
    /\ excused' = IF disk = running THEN excused ELSE Macs
    /\ UNCHANGED <<disk, cache, pc, copy, op, mac, requestVars, linked, base,
                   direction>>

RequestStep(q) ==
    \/ Get(q) \/ GetFailed(q) \/ Set(q) \/ SetFailed(q)
    \/ Write(q) \/ WriteFailed(q) \/ LogSuccess(q)

SessionStep(s) ==
    \/ \E form \in {"add", "edit", "settings"}, m \in Macs : Open(s, form, m)
    \/ Cancel(s)
    \/ \E m \in Macs, withIp \in Addressed : PressAdd(s, m, withIp) \/ PressSave(s, m, withIp)
    \/ PressDelete(s)
    \/ \E v \in Settings : PressSettings(s, v)
    \/ SessionSet(s) \/ SessionSetFailed(s)
    \/ SessionWrite(s) \/ SessionWriteFailed(s)

Next ==
    \/ \E q \in Requests, o \in {"deny", "undo"}, m \in Macs : Ask(q, o, m)
    \/ \E q \in Requests : RequestStep(q)
    \/ \E s \in Sessions : SessionStep(s)
    \/ LoadConfig \/ Expire \/ KeaRestart

Spec == Init /\ [][Next]_vars

-----------------------------------------------------------------------------
(* Properties *)

\* A deny or undo step that reports success, and whose config nobody else
\* replaced since it fetched it, has done its work in Kea and in its file.
UndisturbedSuccessHolds ==
    \A q \in Requests :
        pc[q] = "idle" /\ outcome[q] = "ok" /\ q \notin disturbed =>
            /\ Dropped(running, mac[q]) <=> (op[q] = "deny")
            /\ Dropped(disk, mac[q]) <=> (op[q] = "deny")

\* The DROP class of a MAC follows the last deny or undo applied to it unless
\* a client sent a config whose base was no longer what Kea ran, a form
\* rewrote the reservation, or Kea restarted on an older file.
DriftNeedsStaleBase ==
    \A m \in Macs \ excused : Dropped(running, m) <=> (direction[m] = "deny")

\* apply_drop_class and remove_drop_class change the classes of one
\* reservation: a config-set of the service that is sent from what Kea runs
\* leaves settings, other MACs and every field and other class as they were,
\* and "never clobbers a reservation" (kea_deny.py:9-11): none is deleted.
FreshSetIsLocal ==
    [][\A q \in Requests : Set(q) /\ base[q] = running =>
          /\ running'.settings = running.settings
          /\ \A m \in Macs \ {mac[q]} : running'.reservations[m] = running.reservations[m]
          /\ LET old == running.reservations[mac[q]]
                 new == running'.reservations[mac[q]]
             IN  old # NoReservation =>
                    /\ new # NoReservation
                    /\ new.fields = old.fields
                    /\ new.classes \ {"DROP"} = old.classes \ {"DROP"}]_vars
=============================================================================
