---------------------------- MODULE AddressBook ----------------------------
(***************************************************************************)
(* Who has which address, as the dashboard's Reservations, Leases, IPAM    *)
(* and Maintenance tabs see it and change it: Kea's reservations, scope    *)
(* and lease database, the labels and static records in SQLite, and the    *)
(* copies of Kea's data that all sessions share through st.cache_data.     *)
(* Saving a configuration is one action here; what can happen inside it,   *)
(* and between it and the quarantine service, is the subject of KeaConfig. *)
(* The devices and Kea's allocation are not under src/: they are modelled  *)
(* as far as the tabs rely on them.                                        *)
(***************************************************************************)
EXTENDS LeaseViews

CONSTANTS
    Tabs,           \* sessions of the dashboard
    Scenarios       \* sets of activities that may occur in one behaviour

\* "pin": reservations may pin an address; "tabs": more than one session acts;
\* "hand": kea-dhcp4.conf is edited by hand; "quarantine": the service denies.
Activities == {"reserve", "pin", "tabs", "decline", "trouble", "dhcp", "lease", "clear", "static",
               "settings", "narrow", "hand", "quarantine", "presence"}
Editable == Octets \ {0, LastOctet}

ASSUME AddressBookAssumption == Tabs # {} /\ Scenarios \subseteq SUBSET Activities

VARIABLES
    config,     \* Kea's running configuration: reservations and scope
    leases,     \* Kea's lease database
    uses,       \* the address each device has configured, or NoIp
    labels,     \* reservation_labels: the MACs that have a row
    static,     \* ipam_static: the addresses that have a row
    seenConfig, \* load_config's cached copy
    seenLeases, \* load_leases' cached copy
    tab,        \* the dialog or the loop each session is in
    upset,      \* history: MACs whose save and label did not both go as meant
    unlabelled, \* history: MACs reserved by hand or by a quarantine, not saved since
    unmasked,   \* history: MACs that lost the hostname of their reservation
    byHand,     \* history: MACs given one by hand since seenConfig was loaded
    evicted,    \* history: devices whose lease an admin took from under them
    engulfed,   \* history: static records the scope was moved onto
    scenario    \* the activities of this behaviour, chosen at the start

network == <<leases, uses, evicted>>
kea == <<config, seenConfig, unmasked, byHand>>
records == <<labels, upset, unlabelled, static, engulfed>>
vars == <<config, leases, uses, labels, static, seenConfig, seenLeases, tab,
          upset, unlabelled, unmasked, byHand, evicted, engulfed, scenario>>

Idle == [at |-> "idle"]
AddDialogs == [at : {"add"}, base : Configs]
\* linked: the dialog's copy still has the entry it was opened for
EditDialogs == [at : {"edit"}, base : Configs, of : Reservations, linked : BOOLEAN]
\* a save went through; "back" is the dialog, whose label statements follow
LabelSteps == [at : {"label"}, drop : SUBSET Macs, put : SUBSET Macs,
               back : AddDialogs \cup EditDialogs]
LeaseDialogs == [at : {"lease"}, ip : Hosts, mac : Macs \cup {NoMac}, name : Names]
StaticDialogs == [at : {"static"}, ip : Editable, pool : Pools]
Clearings == [at : {"clear"}, left : SUBSET [ip : Hosts, seen : LeaseRecords]]
Dialogs == {Idle} \cup AddDialogs \cup EditDialogs \cup LabelSteps \cup LeaseDialogs
             \cup StaticDialogs \cup Clearings

TypeOK ==
    /\ config \in Configs /\ seenConfig \in Configs
    /\ leases \in LeaseTables /\ seenLeases \in LeaseTables
    /\ uses \in [Macs -> Hosts \cup {NoIp}]
    /\ labels \subseteq Macs /\ static \subseteq Editable
    /\ tab \in [Tabs -> Dialogs]
    /\ upset \subseteq Macs /\ unlabelled \subseteq Macs
    /\ unmasked \subseteq Macs /\ byHand \subseteq Macs /\ evicted \subseteq Macs
    /\ engulfed \subseteq static
    /\ scenario \in Scenarios

\* Reservations made by hand in kea-dhcp4.conf or before there were labels, some
\* with their label added since; nobody is on the network yet.
Init ==
    /\ scenario \in Scenarios
    /\ config \in {c \in Configs :
          /\ Cardinality(c.reservations) = Cardinality(ReservedMacs(c))
          /\ Cardinality(c.reservations) <= 1
          /\ \A r \in c.reservations :
                /\ "reserve" \in scenario
                /\ r.ip # NoIp => "pin" \in scenario
                /\ r.hostname => "dhcp" \in scenario
          /\ \/ "settings" \in scenario
             \/ \A p \in Pools : IF "narrow" \in scenario THEN c.pool \subseteq p
                                                        ELSE p \subseteq c.pool}
    /\ labels \in SUBSET ReservedMacs(config)
    /\ leases = [ip \in Hosts |-> NoLease]
    /\ uses = [m \in Macs |-> NoIp]
    /\ static = {}
    /\ seenConfig = config /\ seenLeases = leases
    /\ tab = [t \in Tabs |-> Idle]
    /\ unlabelled = ReservedMacs(config) \ labels
    /\ upset = {} /\ unmasked = {} /\ byHand = {} /\ evicted = {} /\ engulfed = {}

Turn(t, d) == tab' = [tab EXCEPT ![t] = d]

-----------------------------------------------------------------------------
(* The devices and Kea *)

\* Kea's choice of addresses: the reserved one, or one of the scope that no
\* reservation pins, also while the reserved one is not to be had.
MayHave(m, ip) ==
    LET own == {r.ip : r \in {q \in config.reservations : q.mac = m}} \ {NoIp}
        open == {i \in own : leases[i] = NoLease \/ leases[i].mac = m}
    IN  IF open # {} THEN ip \in open ELSE ip \in config.pool \ ReservedIps(config)

\* What Kea records for m: a reservation's hostname replaces the device's.
Written(m) ==
    [mac |-> m, declined |-> FALSE, cut |-> FALSE,
     name |-> IF \E r \in config.reservations : r.mac = m /\ r.hostname THEN Echo ELSE m]

ActiveOf(m) == {ip \in Leased(leases) : leases[ip].mac = m}

\* A device without an address gets one; other leases of its MAC are dropped.
Grant(m, ip) ==
    /\ "dhcp" \in scenario
    /\ uses[m] = NoIp
    /\ MayHave(m, ip)
    /\ leases[ip] = NoLease \/ ip \in ActiveOf(m)
    /\ leases' = [i \in Hosts |-> IF i = ip THEN Written(m)
                                  ELSE IF i \in ActiveOf(m) THEN NoLease ELSE leases[i]]
    /\ uses' = [uses EXCEPT ![m] = ip]
    /\ UNCHANGED <<kea, records, seenLeases, tab, evicted, scenario>>

\* A device asks for the address it uses once more: Kea confirms it, or refuses
\* and the device gives it up.
Renew(m) ==
    /\ "dhcp" \in scenario
    /\ uses[m] # NoIp
    /\ LET ip == uses[m]
       IN  IF MayHave(m, ip) /\ (leases[ip] = NoLease \/ leases[ip].mac = m)
           THEN leases' = [leases EXCEPT ![ip] = Written(m)] /\ UNCHANGED uses
           ELSE uses' = [uses EXCEPT ![m] = NoIp] /\ UNCHANGED leases
    /\ evicted' = evicted \ {m}
    /\ UNCHANGED <<kea, records, seenLeases, tab, scenario>>

\* A device leaves, or its lease is over for it.
Leave(m) ==
    /\ "dhcp" \in scenario
    /\ uses[m] # NoIp
    /\ uses' = [uses EXCEPT ![m] = NoIp]
    /\ evicted' = evicted \ {m}
    /\ UNCHANGED <<kea, records, leases, seenLeases, tab, scenario>>

\* A device finds its address taken: Kea sets it aside and forgets the device.
Decline(m) ==
    /\ "decline" \in scenario
    /\ uses[m] # NoIp /\ uses[m] \in ActiveOf(m)
    /\ leases' = [leases EXCEPT ![uses[m]] =
          [mac |-> NoMac, name |-> NoName, declined |-> TRUE, cut |-> FALSE]]
    /\ uses' = [uses EXCEPT ![m] = NoIp]
    /\ evicted' = evicted \ {m}
    /\ UNCHANGED <<kea, records, seenLeases, tab, scenario>>

\* Kea's time for a lease, or for a declined address, is over.  A device stops
\* in time, unless an admin shortened the lease without its knowing.
Expire(ip) ==
    /\ "dhcp" \in scenario
    /\ leases[ip] # NoLease
    /\ LET users == {m \in Macs : leases[ip].mac = m /\ uses[m] = ip}
       IN  /\ users # {} => leases[ip].cut
           /\ evicted' = evicted \cup users
    /\ leases' = [leases EXCEPT ![ip] = NoLease]
    /\ UNCHANGED <<kea, records, uses, seenLeases, tab, scenario>>

-----------------------------------------------------------------------------
(* The cached loaders: an entry expired or was cleared, and a session runs *)

LoadLeases ==
    /\ seenLeases' = leases
    /\ UNCHANGED <<kea, records, network, tab, scenario>>

\* The shared copy of the configuration is c.
Loaded(c) == seenConfig' = c /\ byHand' = {}

LoadConfig ==
    /\ Loaded(config)
    /\ UNCHANGED <<config, unmasked, records, network, seenLeases, tab, scenario>>

-----------------------------------------------------------------------------
(* Who else changes Kea's configuration *)

\* MACs whose reservation has a hostname.
Masked(c) == {r.mac : r \in {q \in c.reservations : q.hostname}}

\* A reservation without an address and without a hostname.
Entry(m, ip) == [mac |-> m, ip |-> ip, hostname |-> FALSE]

\* The quarantine service puts a device in the DROP class: an entry of its own if
\* there is none, which the release leaves behind (KeaConfig).
Deny(m) ==
    /\ "quarantine" \in scenario
    /\ m \notin ReservedMacs(config)
    /\ config' = [config EXCEPT !.reservations = @ \cup {Entry(m, NoIp)}]
    /\ unlabelled' = unlabelled \cup {m}
    /\ UNCHANGED <<seenConfig, unmasked, byHand, labels, upset, static, engulfed,
                   network, seenLeases, tab, scenario>>

\* An admin writes a hostname into the file and Kea loads it: into the device's
\* entry, or into a new one.
EditByHand(m) ==
    /\ "hand" \in scenario
    /\ m \notin Masked(config)
    /\ LET own == {r \in config.reservations : r.mac = m}
           named == {[r EXCEPT !.hostname = TRUE] :
                        r \in IF own = {} THEN {Entry(m, NoIp)} ELSE own}
       IN  /\ config' = [config EXCEPT !.reservations = (@ \ own) \cup named]
           /\ unlabelled' = IF own = {} THEN unlabelled \cup {m} ELSE unlabelled
    /\ byHand' = byHand \cup {m}
    /\ UNCHANGED <<seenConfig, unmasked, labels, upset, static, engulfed,
                   network, seenLeases, tab, scenario>>

-----------------------------------------------------------------------------
(* _save_config *)

\* Kea takes no two reservations of one MAC or one address.
Accepted(c) ==
    \A r, s \in c.reservations : r # s => r.mac # s.mac /\ (r.ip = s.ip => r.ip = NoIp)

\* MACs another session is about to write or delete the label of.
Pending(t) ==
    UNION {tab[s].drop \cup tab[s].put : s \in {u \in Tabs \ {t} : tab[u].at = "label"}}

\* c is Kea's configuration from now on.  The session meant to add the
\* reservations of "put" and to remove those of "drop"; whatever else c changes
\* it changes because its base was old or had been edited before.
Stored(t, c, drop, put, spoilt) ==
    LET meant == (ReservedMacs(config) \ drop) \cup put
        astray == (ReservedMacs(c) \ meant) \cup (meant \ ReservedMacs(c))
    IN  /\ config' = c
        /\ upset' = upset \cup astray \cup spoilt \cup (Pending(t) \cap (drop \cup put))
        /\ unlabelled' = unlabelled \cap ReservedMacs(c)
        /\ unmasked' = unmasked \cup (Masked(config) \ Masked(c))
        /\ engulfed' = IF c.pool = config.pool THEN engulfed ELSE static \cap c.pool

\* Mutant of Labelling: the label of a MAC that is gone is left to itself.
LabellingPutOnly(drop, put, back) ==
    [at |-> "label", drop |-> {}, put |-> put, back |-> back]

\* The label statements a dialog still has to run after its save: deleted is
\* the label of a MAC that was changed or whose reservation was removed.
Labelling(drop, put, back) ==
    [at |-> "label", drop |-> drop, put |-> put, back |-> back]

\* A dialog saves c.  It goes on with its label statements when config-set and
\* config-write succeeded.  After a KeaError, of a refusal or of the write alone,
\* its copy is "undone"; any other exception leaves "done".
Save(t, c, drop, put, undone, done) ==
    /\ \/ /\ Accepted(c)
          /\ Stored(t, c, drop, put, {})
          /\ Loaded(c)
          /\ Turn(t, Labelling(drop, put, done))
       \/ /\ ~Accepted(c) \/ "trouble" \in scenario
          /\ Turn(t, undone)
          /\ UNCHANGED <<kea, upset, unlabelled, engulfed>>
       \/ /\ Accepted(c) /\ "trouble" \in scenario
          /\ Stored(t, c, drop, put, drop \cup put)
          /\ \E d \in {undone, done} : Turn(t, d)
          /\ UNCHANGED <<seenConfig, byHand>>
    /\ UNCHANGED <<network, labels, static, seenLeases, scenario>>

-----------------------------------------------------------------------------
(* Reservation dialogs *)

Open(t, d) ==
    /\ tab[t] = Idle
    /\ Turn(t, d)
    /\ UNCHANGED <<kea, records, network, seenLeases, scenario>>

\* cache_data gives each run a copy of its own.
OpenAdd(t) == "reserve" \in scenario /\ Open(t, [at |-> "add", base |-> seenConfig])

OpenEdit(t, r) ==
    /\ "reserve" \in scenario
    /\ r \in seenConfig.reservations
    /\ Open(t, [at |-> "edit", base |-> seenConfig, of |-> r, linked |-> TRUE])

Cancel(t) ==
    /\ tab[t].at \in {"add", "edit", "lease", "static"}
    /\ Turn(t, Idle)
    /\ UNCHANGED <<kea, records, network, seenLeases, scenario>>

\* Both forms make an Entry of a MAC and an address: no hostname for Kea.  It is
\* appended to the dialog's copy, and popped on a KeaError only.
\* An entry appended twice is refused by Kea and popped: nothing happens.
SaveAdd(t, m, ip) ==
    /\ tab[t].at = "add"
    /\ LET d == tab[t]
           c == [d.base EXCEPT !.reservations = @ \cup {Entry(m, ip)}]
       IN  /\ Entry(m, ip) \notin d.base.reservations
           /\ Save(t, c, {}, {m}, d, [d EXCEPT !.base = c])

\* The entry the dialog was opened for is replaced in its copy; after a first
\* press it is not there any more, and what is saved is the earlier edit.  One that
\* repeats another entry makes a list Kea refuses at this and at every later
\* press: nothing but Cancel is left.
SaveEdit(t, m, ip) ==
    /\ tab[t].at = "edit"
    /\ LET d == tab[t]
           c == IF d.linked
                THEN [d.base EXCEPT !.reservations = (@ \ {d.of}) \cup {Entry(m, ip)}]
                ELSE d.base
           after == [d EXCEPT !.base = c, !.linked = FALSE]
       IN  /\ d.linked => Entry(m, ip) \notin d.base.reservations \ {d.of}
           /\ Save(t, c, {d.of.mac} \ {m}, {m}, after, after)

SaveDelete(t) ==
    /\ tab[t].at = "edit"
    /\ LET d == tab[t]
           c == [d.base EXCEPT !.reservations = @ \ {d.of}]
           after == [d EXCEPT !.base = c, !.linked = FALSE]
       IN  Save(t, c, {d.of.mac}, {}, after, after)

\* delete_reservation_label and upsert_reservation_label; the dialog closes.
WriteLabels(t) ==
    /\ tab[t].at = "label"
    /\ LET d == tab[t]
           now == (labels \ d.drop) \cup d.put
           right == {m \in d.drop \cup d.put : (m \in now) = (m \in ReservedMacs(config))}
       IN  /\ labels' = now
           /\ unlabelled' = unlabelled \ d.put
           /\ upset' = upset \ (right \ Pending(t))
    /\ Turn(t, Idle)
    /\ UNCHANGED <<kea, network, static, engulfed, seenLeases, scenario>>

\* SQLite refuses one of them, which nothing catches.
LabelsFailed(t) ==
    /\ tab[t].at = "label" /\ "trouble" \in scenario
    /\ LET d == tab[t]
       IN  /\ labels' \in {labels, labels \ d.drop}
           /\ upset' = upset \cup d.drop \cup d.put
           /\ Turn(t, d.back)
    /\ UNCHANGED <<kea, network, unlabelled, static, engulfed, seenLeases, scenario>>

-----------------------------------------------------------------------------
(* Settings and the IPAM dialog *)

\* The settings form saves the cached configuration with another scope.
SavePool(t, pool) ==
    /\ "settings" \in scenario
    /\ tab[t] = Idle
    /\ LET c == [seenConfig EXCEPT !.pool = pool]
       IN  Stored(t, c, {}, {}, {}) /\ Loaded(c)
    /\ UNCHANGED <<network, labels, static, seenLeases, tab, scenario>>

\* Mutant of Refused: the dialog trusts the map.
RefusedNever(ip, pool) == FALSE

\* _edit_dialog accepts no address of the scope it was opened with.
Refused(ip, pool) == ip \in pool

OpenStatic(t, ip) ==
    /\ "static" \in scenario
    /\ ~Refused(ip, seenConfig.pool)
    /\ Open(t, [at |-> "static", ip |-> ip, pool |-> seenConfig.pool])

SaveStatic(t) ==
    /\ tab[t].at = "static"
    /\ static' = static \cup {tab[t].ip}
    /\ engulfed' = IF tab[t].pool # config.pool
                   THEN engulfed \cup ({tab[t].ip} \cap config.pool)
                   ELSE engulfed
    /\ Turn(t, Idle)
    /\ UNCHANGED <<kea, network, labels, upset, unlabelled, seenLeases, scenario>>

DeleteStatic(t) ==
    /\ tab[t].at = "static"
    /\ tab[t].ip \in static
    /\ static' = static \ {tab[t].ip}
    /\ engulfed' = engulfed \ {tab[t].ip}
    /\ Turn(t, Idle)
    /\ UNCHANGED <<kea, network, labels, upset, unlabelled, seenLeases, scenario>>

-----------------------------------------------------------------------------
(* Leases and Maintenance *)

HolderAt(ip) == {m \in Macs : uses[m] = ip /\ leases[ip] # NoLease /\ leases[ip].mac = m}

\* Kea's leases after a command, and load_leases cleared and loaded again.
Commanded(table) ==
    /\ leases' = table /\ seenLeases' = table
    /\ UNCHANGED <<kea, records, uses, scenario>>

\* add_lease: an address that has a lease is refused.
AddLease(t, ip, m) ==
    /\ "clear" \in scenario
    /\ tab[t] = Idle
    /\ leases[ip] = NoLease
    /\ Commanded([leases EXCEPT ![ip] =
          [mac |-> m, name |-> Typed, declined |-> FALSE, cut |-> TRUE]])
    /\ UNCHANGED <<tab, evicted>>

\* The dialog shows the lease as get_lease_by_ip returned it.
OpenLease(t, ip) ==
    /\ "lease" \in scenario
    /\ leases[ip] # NoLease
    /\ Open(t, [at |-> "lease", ip |-> ip, mac |-> leases[ip].mac, name |-> leases[ip].name])

\* update_lease replaces all fields of whatever lease is at the address by now,
\* and gives it a new end; without one, or without a MAC, Kea refuses.  The form
\* was filled with the MAC and the name that were there; either may be kept.
SaveLease(t, m, name) ==
    /\ tab[t].at = "lease"
    /\ LET d == tab[t]
       IN  /\ leases[d.ip] # NoLease
           /\ name \in {Typed, d.name}
           /\ Commanded([leases EXCEPT ![d.ip] =
                 [mac |-> m, name |-> name, declined |-> FALSE, cut |-> TRUE]])
           /\ evicted' = evicted \cup (HolderAt(d.ip) \ {m})
    /\ Turn(t, Idle)

\* wipe_leases
Wipe(t) ==
    /\ "clear" \in scenario
    /\ tab[t] = Idle
    /\ Commanded([ip \in Hosts |-> NoLease])
    /\ evicted' = evicted \cup {m \in Macs : uses[m] # NoIp}
    /\ UNCHANGED tab

\* Mutant of DeclinedIn: every lease that names no device of the filter.
DeclinedInAll(table) == Leased(table)

\* The declined leases the Maintenance tab lists.
DeclinedIn(table) == {ip \in Leased(table) : table[ip].declined}

\* "Clear" and "Clear all" go by the list the run was rendered from.
Clear(t, ips) ==
    /\ "clear" \in scenario
    /\ ips # {}
    /\ Open(t, [at |-> "clear",
                left |-> {[ip |-> ip, seen |-> seenLeases[ip]] : ip \in ips}])

\* One delete_lease of the loop; after the last one load_leases is cleared.  Kea
\* may refuse one, and the loop goes on; any other exception, of a call that was
\* carried out or not, ends it, and nothing is cleared.
ClearNext(t, entry) ==
    LET left == tab[t].left \ {entry}
    IN  /\ \/ leases' = [leases EXCEPT ![entry.ip] = NoLease]
           \/ "trouble" \in scenario /\ UNCHANGED leases
        /\ \/ /\ seenLeases' = IF left = {} THEN leases' ELSE seenLeases
              /\ Turn(t, IF left = {} THEN Idle ELSE [tab[t] EXCEPT !.left = left])
           \/ "trouble" \in scenario /\ Turn(t, Idle) /\ UNCHANGED seenLeases
        /\ evicted' = IF leases' # leases /\ leases[entry.ip] # entry.seen
                      THEN evicted \cup HolderAt(entry.ip) ELSE evicted
        /\ UNCHANGED <<kea, records, uses, scenario>>

-----------------------------------------------------------------------------

Network ==
    \/ \E m \in Macs : \/ Renew(m) \/ Leave(m) \/ Decline(m)
                       \/ \E ip \in Hosts : Grant(m, ip)
    \/ \E ip \in Hosts : Expire(ip)

Reserving(t) ==
    \/ OpenAdd(t) \/ SaveDelete(t) \/ WriteLabels(t) \/ LabelsFailed(t)
    \/ \E r \in seenConfig.reservations : OpenEdit(t, r)
    \/ \E m \in Macs, ip \in {NoIp} \cup (IF "pin" \in scenario THEN Pinned ELSE {}) :
          SaveAdd(t, m, ip) \/ SaveEdit(t, m, ip)

Recording(t) ==
    \/ \E pool \in Pools : SavePool(t, pool)
    \/ \E ip \in Editable : OpenStatic(t, ip)
    \/ SaveStatic(t) \/ DeleteStatic(t)

Leasing(t) ==
    \/ \E ip \in Hosts, m \in Macs : AddLease(t, ip, m)
    \/ \E ip \in Hosts : OpenLease(t, ip)
    \/ \E m \in Macs, name \in Names : SaveLease(t, m, name)
    \/ Wipe(t)
    \/ Clear(t, DeclinedIn(seenLeases))
    \/ \E ip \in DeclinedIn(seenLeases) : Clear(t, {ip})
    \/ tab[t].at = "clear" /\ \E entry \in tab[t].left : ClearNext(t, entry)

Session(t) == Cancel(t) \/ Reserving(t) \/ Recording(t) \/ Leasing(t)

Acting == IF "tabs" \in scenario THEN Tabs ELSE {CHOOSE t \in Tabs : TRUE}

Editing == \E m \in Macs : Deny(m) \/ EditByHand(m)

Next == Network \/ Editing \/ LoadLeases \/ LoadConfig \/ \E t \in Acting : Session(t)

-----------------------------------------------------------------------------
(* Properties *)

\* ui_reservations.py keeps labels in SQLite and reservations in Kea, and writes
\* one after the other: a MAC that has a label is reserved, and a reserved one has
\* a label unless it was reserved by hand or by a quarantine and not saved in the
\* tab since.  The exceptions: a dialog is between the two; or one of them failed
\* for the MAC, its reservation came or went with an old copy of the configuration
\* or by the retry of another edit, or two sessions changed it at the same time,
\* until an edit of that MAC goes through.
LabelsFollowReservations ==
    LET pending == UNION {tab[t].drop \cup tab[t].put : t \in {s \in Tabs : tab[s].at = "label"}}
    IN  \A m \in Macs \ (upset \cup pending) :
            /\ m \in labels => m \in ReservedMacs(config)
            /\ m \in ReservedMacs(config) => m \in labels \cup unlabelled

\* helpers.real_hostname: "only when it reflects the device's own DHCP-negotiated
\* name".  With whatever ages of the two cached copies: no name is shown that is
\* the echo of a reservation which still has its hostname, wherever the device
\* was leased an address, unless the copy of the configuration is older than a
\* hostname added by hand, or an admin has saved that lease by hand since Kea wrote
\* it; and a device's own name is offered as soon as no reservation of its MAC or
\* address overrides it, so a resave does help.
RealNamesAreReal ==
    \A ip \in Leased(seenLeases) :
        LET lease == seenLeases[ip]
            overrides == {r \in seenConfig.reservations : r.hostname}
        IN  /\ RealHostname(seenLeases, ip, OverrideSets(seenConfig)) = Echo =>
                  lease.mac \in unmasked \cup byHand \/ lease.cut
            /\ lease.name = lease.mac /\ (\A r \in overrides : r.mac # lease.mac /\ r.ip # ip) =>
                  lease.mac \in DistinctRealHostnames(seenLeases, seenConfig)

\* Two devices use one address only after an admin took the lease of one from
\* under it: by a wipe, by writing another MAC or an earlier end into it, or by
\* clearing an address as declined that had been given away since the list was
\* loaded.  Clearing from an up-to-date list, adding leases, reservations and
\* moving the scope never lead there.
OneDevicePerAddress ==
    \A m, n \in Macs :
        m # n /\ uses[m] = uses[n] /\ uses[m] # NoIp => {m, n} \cap evicted # {}

\* What the IPAM tab is for: an address it offers for a static record ("free" or
\* "static", from copies that are up to date) is used by no device, neither leased,
\* set aside nor pinned, and out of Kea's reach, unless the scope was moved onto the record,
\* which no dialog accepts any more, or a device kept the address of a lease that
\* was taken from under it.
OfferedMeansFree ==
    seenConfig = config /\ seenLeases = leases =>
        \A ip \in Hosts :
            MapOf(leases, config, static)[ip] \in {"free", "static"} =>
                /\ \A m \in Macs : uses[m] = ip => m \in evicted
                /\ ip \notin Leased(leases) \cup ReservedIps(config)
                /\ ip \in config.pool => ip \in engulfed
=============================================================================
