-------------------------- MODULE AddressBookProofs --------------------------
(***************************************************************************)
(* Proofs about AddressBook, alone and beside the probe, for any number of *)
(* sessions, devices and addresses, any scopes and any scenarios.          *)
(***************************************************************************)
EXTENDS AddressBookAndProbe, WellFoundedInduction, TLAPS

\* Neither the network nor the broadcast address is a host's.
LEMMA HostFacts == NoIp \notin Hosts /\ Hosts \subseteq Editable /\ Pinned \subseteq Hosts
BY LeaseViewsAssumption DEF NoIp, Hosts, Editable, Octets

\* The values that stand for absence are none of the values proper.
LEMMA AbsenceFacts ==
    /\ NoLease \notin LeaseRecords
    /\ NoMac \notin Names /\ NoMac \notin Macs /\ Macs \subseteq Names
    /\ NoName \notin Macs /\ Echo \notin Macs
    /\ NoName # Echo /\ NoName # Typed /\ Echo # Typed
BY LeaseViewsAssumption DEF LeaseRecords, Names

\* What a session is in tells what it knows.
LEMMA DialogKinds ==
    ASSUME NEW d \in Dialogs
    PROVE  /\ d.at = "add" => d \in AddDialogs
           /\ d.at = "edit" => d \in EditDialogs
           /\ d.at = "label" => d \in LabelSteps
           /\ d.at = "lease" => d \in LeaseDialogs
           /\ d.at = "static" => d \in StaticDialogs
           /\ d.at = "clear" => d \in Clearings
BY DEF Dialogs, Idle, AddDialogs, EditDialogs, LabelSteps, LeaseDialogs, StaticDialogs, Clearings

\* A dialog or a step that fits its kind is one of the dialogs.
LEMMA KindsAreDialogs ==
    Dialogs = {Idle} \cup AddDialogs \cup EditDialogs \cup LabelSteps \cup LeaseDialogs
                \cup StaticDialogs \cup Clearings
BY DEF Dialogs

\* What the forms make of a MAC and an address is a reservation.
LEMMA EntryType ==
    ASSUME NEW m \in Macs, NEW ip \in {NoIp} \cup Pinned
    PROVE  Entry(m, ip) \in Reservations /\ Entry(m, ip).hostname = FALSE
                /\ Entry(m, ip).mac = m
BY DEF Entry, Reservations

\* The MACs of a configuration are devices.
LEMMA ConfigMacs ==
    ASSUME NEW k \in Configs
    PROVE  ReservedMacs(k) \subseteq Macs /\ Masked(k) \subseteq ReservedMacs(k)
BY DEF ReservedMacs, Masked, Configs, Reservations

-----------------------------------------------------------------------------
(* What the saves of the two reservation dialogs have in common *)

FormDialogs == AddDialogs \cup EditDialogs

Saving(t) ==
    \/ \E m \in Macs, ip \in {NoIp} \cup Pinned : SaveAdd(t, m, ip) \/ SaveEdit(t, m, ip)
    \/ SaveDelete(t)

\* The session saves c, which overrides no name that its copy did not, and then
\* writes or deletes the label of each MAC once.
SavesFrom(t, c, drop, put, undone, done) ==
    /\ Save(t, c, drop, put, undone, done)
    /\ tab[t] \in FormDialogs
    /\ drop \cap put = {}
    /\ Masked(c) \subseteq Masked(tab[t].base)
    /\ {undone.base, done.base} \subseteq {tab[t].base, c}

\* Each of the three saves is one.
LEMMA Saves ==
    ASSUME TypeOK, NEW t \in Tabs, Saving(t)
    PROVE  \E c \in Configs, drop \in SUBSET Macs, put \in SUBSET Macs,
              undone \in FormDialogs, done \in FormDialogs :
                 SavesFrom(t, c, drop, put, undone, done)
<1> DEFINE d == tab[t]
<1>1. d \in Dialogs
    BY DEF TypeOK
<1>2. ASSUME NEW m \in Macs, NEW ip \in {NoIp} \cup Pinned, SaveAdd(t, m, ip)
      PROVE  \E c \in Configs, drop \in SUBSET Macs, put \in SUBSET Macs,
                undone \in FormDialogs, done \in FormDialogs :
                   SavesFrom(t, c, drop, put, undone, done)
    <2> DEFINE e == Entry(m, ip)
               c == [d.base EXCEPT !.reservations = @ \cup {e}]
               done == [d EXCEPT !.base = c]
    <2>1. d \in AddDialogs
        BY <1>1, <1>2, DialogKinds DEF SaveAdd
    <2>2. e \in Reservations /\ ~e.hostname
        BY EntryType
    <2>3. Save(t, c, {}, {m}, d, done)
        BY <1>2 DEF SaveAdd
    <2> HIDE DEF e
    <2>4. c \in Configs /\ c.reservations = d.base.reservations \cup {e}
        BY <2>1, <2>2 DEF Configs, AddDialogs
    <2>5. done \in AddDialogs /\ done.base = c
        BY <2>1, <2>4 DEF AddDialogs
    <2>6. Masked(c) \subseteq Masked(d.base)
        BY <2>2, <2>4 DEF Masked
    <2> HIDE DEF c, done
    <2>7. SavesFrom(t, c, {}, {m}, d, done)
        BY <2>1, <2>3, <2>5, <2>6 DEF SavesFrom, FormDialogs
    <2> QED BY <2>1, <2>4, <2>5, <2>7 DEF FormDialogs
<1>3. ASSUME NEW m \in Macs, NEW ip \in {NoIp} \cup Pinned, SaveEdit(t, m, ip)
      PROVE  \E c \in Configs, drop \in SUBSET Macs, put \in SUBSET Macs,
                undone \in FormDialogs, done \in FormDialogs :
                   SavesFrom(t, c, drop, put, undone, done)
    <2> DEFINE e == Entry(m, ip)
               c == IF d.linked
                    THEN [d.base EXCEPT !.reservations = (@ \ {d.of}) \cup {e}]
                    ELSE d.base
               after == [d EXCEPT !.base = c, !.linked = FALSE]
    <2>1. d \in EditDialogs
        BY <1>1, <1>3, DialogKinds DEF SaveEdit
    <2>2. e \in Reservations /\ ~e.hostname
        BY EntryType
    <2>3. Save(t, c, {d.of.mac} \ {m}, {m}, after, after)
        BY <1>3 DEF SaveEdit
    <2> HIDE DEF e
    <2>4. c \in Configs /\ c.reservations \subseteq d.base.reservations \cup {e}
        BY <2>1, <2>2 DEF Configs, EditDialogs
    <2>5. after \in EditDialogs /\ after.base = c
        BY <2>1, <2>4 DEF EditDialogs
    <2>6. Masked(c) \subseteq Masked(d.base)
        BY <2>2, <2>4 DEF Masked
    <2>7. d.of.mac \in Macs
        BY <2>1 DEF EditDialogs, Reservations
    <2> HIDE DEF c, after
    <2>8. SavesFrom(t, c, {d.of.mac} \ {m}, {m}, after, after)
        BY <2>1, <2>3, <2>5, <2>6 DEF SavesFrom, FormDialogs
    <2> QED BY <2>4, <2>5, <2>7, <2>8 DEF FormDialogs
<1>4. ASSUME SaveDelete(t)
      PROVE  \E c \in Configs, drop \in SUBSET Macs, put \in SUBSET Macs,
                undone \in FormDialogs, done \in FormDialogs :
                   SavesFrom(t, c, drop, put, undone, done)
    <2> DEFINE c == [d.base EXCEPT !.reservations = @ \ {d.of}]
               after == [d EXCEPT !.base = c, !.linked = FALSE]
    <2>1. d \in EditDialogs
        BY <1>1, <1>4, DialogKinds DEF SaveDelete
    <2>2. Save(t, c, {d.of.mac}, {}, after, after)
        BY <1>4 DEF SaveDelete
    <2>3. c \in Configs /\ c.reservations \subseteq d.base.reservations
        BY <2>1 DEF Configs, EditDialogs
    <2>4. after \in EditDialogs /\ after.base = c
        BY <2>1, <2>3 DEF EditDialogs
    <2>5. Masked(c) \subseteq Masked(d.base)
        BY <2>3 DEF Masked
    <2>6. d.of.mac \in Macs
        BY <2>1 DEF EditDialogs, Reservations
    <2> HIDE DEF c, after
    <2>7. SavesFrom(t, c, {d.of.mac}, {}, after, after)
        BY <2>1, <2>2, <2>4, <2>5 DEF SavesFrom, FormDialogs
    <2> QED BY <2>3, <2>4, <2>6, <2>7 DEF FormDialogs
<1> QED BY <1>2, <1>3, <1>4 DEF Saving

-----------------------------------------------------------------------------
(* Types *)

\* Nobody is on the network and no dialog is open at first.
LEMMA TypeInit == Init => TypeOK
<1> SUFFICES ASSUME Init PROVE TypeOK
    OBVIOUS
<1>1. config \in Configs
    BY DEF Init
<1>2. labels \subseteq Macs /\ unlabelled \subseteq Macs
    BY <1>1, ConfigMacs DEF Init
<1> QED BY <1>1, <1>2, KindsAreDialogs DEF Init, TypeOK, LeaseTables

\* A save leaves a configuration, and a dialog or its label statements.
LEMMA SaveTypes ==
    ASSUME TypeOK, NEW t \in Tabs, NEW c \in Configs, NEW drop \in SUBSET Macs,
           NEW put \in SUBSET Macs, NEW undone \in FormDialogs, NEW done \in FormDialogs,
           Save(t, c, drop, put, undone, done)
    PROVE  TypeOK'
<1> USE DEF TypeOK
<1>1. ReservedMacs(config) \cup ReservedMacs(c) \cup Masked(config) \subseteq Macs
    BY ConfigMacs
<1>2. Labelling(drop, put, done) \in Dialogs /\ undone \in Dialogs /\ done \in Dialogs
    BY KindsAreDialogs DEF Labelling, LabelSteps, FormDialogs
<1>3. tab' \in [Tabs -> Dialogs]
    BY <1>2 DEF Save, Turn
<1>4. config' \in Configs /\ seenConfig' \in Configs
    BY DEF Save, Stored, Loaded, kea
<1>5. ASSUME NEW spoilt \in SUBSET (drop \cup put), Stored(t, c, drop, put, spoilt)
      PROVE  upset' \subseteq Macs /\ unlabelled' \subseteq Macs /\ unmasked' \subseteq Macs
    BY <1>1, <1>5 DEF Stored
<1>6. upset' \subseteq Macs /\ unlabelled' \subseteq Macs /\ unmasked' \subseteq Macs
    BY <1>5 DEF Save, kea
<1>8. byHand' \subseteq Macs
    BY DEF Save, Loaded, kea
<1>7. engulfed' \subseteq static'
    BY DEF Save, Stored
<1> QED BY <1>3, <1>4, <1>6, <1>7, <1>8 DEF Save, network

\* Whoever edits Kea's configuration from outside leaves one, of the same scope.
LEMMA EditingFacts ==
    ASSUME TypeOK, NEW m \in Macs, Deny(m) \/ EditByHand(m)
    PROVE  /\ config' \in Configs /\ config'.pool = config.pool
           /\ UNCHANGED <<seenConfig, unmasked, labels, upset, static, engulfed>>
           /\ UNCHANGED <<network, seenLeases, tab, scenario>>
           /\ ReservedMacs(config') = ReservedMacs(config) \cup {m}
           /\ unlabelled' = IF m \in ReservedMacs(config) THEN unlabelled ELSE unlabelled \cup {m}
           /\ \/ byHand' = byHand /\ Masked(config') = Masked(config)
              \/ byHand' = byHand \cup {m} /\ Masked(config') = Masked(config) \cup {m}
<1> DEFINE own == {r \in config.reservations : r.mac = m}
           e == Entry(m, NoIp)
           named == {[r EXCEPT !.hostname = TRUE] : r \in IF own = {} THEN {e} ELSE own}
<1>1. config \in Configs /\ config.reservations \subseteq Reservations
    BY DEF TypeOK, Configs
<1>2. e \in Reservations /\ e.mac = m /\ e.hostname = FALSE
    BY EntryType
<1>3. CASE Deny(m)
    <2>1. config' = [config EXCEPT !.reservations = @ \cup {e}]
        BY <1>3 DEF Deny
    <2> HIDE DEF e
    <2>2. /\ config' \in Configs /\ config'.pool = config.pool
          /\ config'.reservations = config.reservations \cup {e}
        BY <1>1, <1>2, <2>1 DEF Configs
    <2>3. ReservedMacs(config') = ReservedMacs(config) \cup {m}
        BY <1>2, <2>2 DEF ReservedMacs
    <2>4. Masked(config') = Masked(config)
        BY <1>2, <2>2 DEF Masked
    <2> QED BY <1>3, <2>2, <2>3, <2>4 DEF Deny
<1>4. CASE EditByHand(m)
    <2>1. /\ config' = [config EXCEPT !.reservations = (@ \ own) \cup named]
          /\ unlabelled' = IF own = {} THEN unlabelled \cup {m} ELSE unlabelled
        BY <1>4 DEF EditByHand
    <2>2. own = {} <=> m \notin ReservedMacs(config)
        BY DEF ReservedMacs
    <2>3. \A r \in IF own = {} THEN {e} ELSE own : r \in Reservations /\ r.mac = m
        BY <1>1, <1>2
    <2>4. \E r : r \in IF own = {} THEN {e} ELSE own
        OBVIOUS
    <2>5. \A r \in named : r \in Reservations /\ r.mac = m /\ r.hostname
        BY <2>3 DEF Reservations
    <2>6. named # {}
        BY <2>4
    <2>7. \A r \in own : r.mac = m
        OBVIOUS
    <2>8. \A r \in config.reservations : r \in own \/ r.mac # m
        OBVIOUS
    <2> HIDE DEF own, e, named
    <2>9. /\ config' \in Configs /\ config'.pool = config.pool
          /\ config'.reservations = (config.reservations \ own) \cup named
        BY <1>1, <2>1, <2>5 DEF Configs
    <2>10. ReservedMacs(config') = ReservedMacs(config) \cup {m}
        BY <2>5, <2>6, <2>7, <2>8, <2>9 DEF ReservedMacs
    <2>11. Masked(config') = Masked(config) \cup {m}
        BY <2>5, <2>6, <2>7, <2>8, <2>9 DEF Masked
    <2> QED BY <1>4, <2>1, <2>2, <2>9, <2>10, <2>11 DEF EditByHand
<1> QED BY <1>3, <1>4

\* Every step keeps the types.
LEMMA TypeNext == TypeOK /\ [Next]_vars => TypeOK'
<1> SUFFICES ASSUME TypeOK, [Next]_vars PROVE TypeOK'
    OBVIOUS
<1> USE DEF TypeOK, kea, records, network
<1>1. \A m \in Macs : Written(m) \in LeaseRecords
    BY DEF Written, LeaseRecords, Names
<1>2. ASSUME NEW m \in Macs, NEW ip \in Hosts, Grant(m, ip) PROVE TypeOK'
    BY <1>1, <1>2 DEF Grant, LeaseTables
<1>3. ASSUME NEW m \in Macs, Renew(m) PROVE TypeOK'
    <2>1. leases' \in LeaseTables /\ uses' \in [Macs -> Hosts \cup {NoIp}]
        BY <1>1, <1>3 DEF Renew, LeaseTables
    <2> QED BY <1>3, <2>1 DEF Renew
<1>4. ASSUME NEW m \in Macs, Leave(m) PROVE TypeOK'
    BY <1>4 DEF Leave
<1>5. ASSUME NEW m \in Macs, Decline(m) PROVE TypeOK'
    <2>1. [mac |-> NoMac, name |-> NoName, declined |-> TRUE, cut |-> FALSE] \in LeaseRecords
        BY DEF LeaseRecords, Names
    <2> QED BY <1>5, <2>1 DEF Decline, LeaseTables
<1>6. ASSUME NEW ip \in Hosts, Expire(ip) PROVE TypeOK'
    <2>1. evicted' \subseteq Macs
        BY <1>6 DEF Expire
    <2> QED BY <1>6, <2>1 DEF Expire, LeaseTables
<1>7. CASE LoadLeases
    BY <1>7 DEF LoadLeases
<1>8. CASE LoadConfig
    BY <1>8 DEF LoadConfig, Loaded
<1>12. ASSUME NEW m \in Macs, Deny(m) \/ EditByHand(m) PROVE TypeOK'
    BY <1>12, EditingFacts
<1>9. ASSUME NEW t \in Tabs, Session(t) PROVE TypeOK'
    <2> USE DialogKinds, KindsAreDialogs
    <2>1. tab[t] \in Dialogs
        OBVIOUS
    <2>2. CASE OpenAdd(t)
        <3>1. [at |-> "add", base |-> seenConfig] \in Dialogs
            BY DEF AddDialogs
        <3> QED BY <2>2, <3>1 DEF OpenAdd, Open, Turn
    <2>3. ASSUME NEW r \in seenConfig.reservations, OpenEdit(t, r) PROVE TypeOK'
        <3>1. r \in Reservations
            BY DEF Configs
        <3>2. [at |-> "edit", base |-> seenConfig, of |-> r, linked |-> TRUE] \in Dialogs
            BY <3>1 DEF EditDialogs
        <3> QED BY <2>3, <3>2 DEF OpenEdit, Open, Turn
    <2>4. CASE Cancel(t)
        BY <2>4 DEF Cancel, Turn
    <2>5. CASE Saving(t)
        BY <2>5, Saves, SaveTypes DEF SavesFrom
    <2>8. CASE WriteLabels(t)
        <3>1. tab[t] \in LabelSteps
            BY <2>1, <2>8 DEF WriteLabels
        <3> QED BY <2>8, <3>1 DEF WriteLabels, LabelSteps, Turn
    <2>9. CASE LabelsFailed(t)
        <3>1. tab[t] \in LabelSteps
            BY <2>1, <2>9 DEF LabelsFailed
        <3>2. tab[t].back \in Dialogs /\ tab[t].drop \subseteq Macs /\ tab[t].put \subseteq Macs
            BY <3>1 DEF LabelSteps
        <3> QED BY <2>9, <3>2 DEF LabelsFailed, Turn
    <2>10. ASSUME NEW pool \in Pools, SavePool(t, pool) PROVE TypeOK'
        <3> DEFINE c == [seenConfig EXCEPT !.pool = pool]
        <3>1. c \in Configs
            BY DEF Configs
        <3>2. Stored(t, c, {}, {}, {}) /\ seenConfig' = c /\ byHand' = {}
            BY <2>10 DEF SavePool, Loaded
        <3> HIDE DEF c
        <3>3. ReservedMacs(config) \cup ReservedMacs(c) \cup Masked(config) \subseteq Macs
            BY <3>1, ConfigMacs
        <3>5. /\ upset' \subseteq Macs /\ unlabelled' \subseteq Macs /\ unmasked' \subseteq Macs
              /\ engulfed' \subseteq static
            BY <3>2, <3>3 DEF Stored
        <3>6. config' \in Configs /\ seenConfig' \in Configs
            BY <3>1, <3>2 DEF Stored
        <3> QED BY <2>10, <3>2, <3>5, <3>6 DEF SavePool
    <2>11. ASSUME NEW ip \in Editable, OpenStatic(t, ip) PROVE TypeOK'
        <3>1. [at |-> "static", ip |-> ip, pool |-> seenConfig.pool] \in Dialogs
            BY DEF StaticDialogs, Configs
        <3> QED BY <2>11, <3>1 DEF OpenStatic, Open, Turn
    <2>12. CASE SaveStatic(t)
        <3>1. tab[t] \in StaticDialogs
            BY <2>1, <2>12 DEF SaveStatic
        <3>2. tab[t].ip \in Editable
            BY <3>1 DEF StaticDialogs
        <3> QED BY <2>12, <3>2 DEF SaveStatic, Turn
    <2>13. CASE DeleteStatic(t)
        BY <2>13 DEF DeleteStatic, Turn
    <2>14. ASSUME NEW ip \in Hosts, NEW m \in Macs, AddLease(t, ip, m) PROVE TypeOK'
        <3>1. [mac |-> m, name |-> Typed, declined |-> FALSE, cut |-> TRUE] \in LeaseRecords
            BY DEF LeaseRecords, Names
        <3> QED BY <2>14, <3>1 DEF AddLease, Commanded, LeaseTables
    <2>15. ASSUME NEW ip \in Hosts, OpenLease(t, ip) PROVE TypeOK'
        <3>1. leases[ip] \in LeaseRecords
            BY <2>15 DEF OpenLease, LeaseTables
        <3>2. [at |-> "lease", ip |-> ip, mac |-> leases[ip].mac, name |-> leases[ip].name]
                \in Dialogs
            BY <3>1 DEF LeaseDialogs, LeaseRecords
        <3> QED BY <2>15, <3>2 DEF OpenLease, Open, Turn
    <2>16. ASSUME NEW m \in Macs, NEW name \in Names, SaveLease(t, m, name) PROVE TypeOK'
        <3>1. tab[t] \in LeaseDialogs
            BY <2>1, <2>16 DEF SaveLease
        <3>2. [mac |-> m, name |-> name, declined |-> FALSE, cut |-> TRUE] \in LeaseRecords
            BY DEF LeaseRecords
        <3>3. evicted' \subseteq Macs
            BY <2>16 DEF SaveLease, HolderAt
        <3> QED BY <2>16, <3>1, <3>2, <3>3 DEF SaveLease, Commanded, LeaseTables, LeaseDialogs, Turn
    <2>17. CASE Wipe(t)
        BY <2>17 DEF Wipe, Commanded, LeaseTables
    <2>18. ASSUME NEW ips \in SUBSET DeclinedIn(seenLeases), Clear(t, ips) PROVE TypeOK'
        <3>1. \A ip \in ips : ip \in Hosts /\ seenLeases[ip] \in LeaseRecords
            BY DEF DeclinedIn, Leased, LeaseTables
        <3>2. [at |-> "clear", left |-> {[ip |-> ip, seen |-> seenLeases[ip]] : ip \in ips}]
                \in Dialogs
            BY <3>1 DEF Clearings
        <3> QED BY <2>18, <3>2 DEF Clear, Open, Turn
    <2>19. ASSUME tab[t].at = "clear", NEW entry \in tab[t].left, ClearNext(t, entry) PROVE TypeOK'
        <3>1. tab[t] \in Clearings
            BY <2>1, <2>19
        <3>2. [tab[t] EXCEPT !.left = tab[t].left \ {entry}] \in Dialogs
            BY <3>1 DEF Clearings
        <3>3. tab' \in [Tabs -> Dialogs]
            BY <2>19, <3>2 DEF ClearNext, Turn
        <3>4. evicted' \subseteq Macs
            BY <2>19 DEF ClearNext, HolderAt
        <3>5. leases' \in LeaseTables /\ seenLeases' \in LeaseTables
            BY <2>19, <3>1 DEF ClearNext, LeaseTables
        <3> QED BY <2>19, <3>3, <3>4, <3>5 DEF ClearNext
    <2>20. \A ip \in DeclinedIn(seenLeases) : {ip} \in SUBSET DeclinedIn(seenLeases)
        OBVIOUS
    <2>21. \A ip : ip \in {NoIp} \cup (IF "pin" \in scenario THEN Pinned ELSE {})
                  => ip \in {NoIp} \cup Pinned
        OBVIOUS
    <2> HIDE DEF TypeOK, kea, records, network
    <2> HIDE DialogKinds, KindsAreDialogs
    <2>22. CASE Reserving(t)
        BY <2>22, <2>2, <2>3, <2>5, <2>8, <2>9, <2>21 DEF Reserving, Saving
    <2>23. CASE Recording(t)
        BY <2>23, <2>10, <2>11, <2>12, <2>13 DEF Recording
    <2>24. CASE Leasing(t)
        BY <2>24, <2>14, <2>15, <2>16, <2>17, <2>18, <2>19, <2>20 DEF Leasing
    <2> QED BY <1>9, <2>4, <2>22, <2>23, <2>24 DEF Session
<1>10. CASE UNCHANGED vars
    BY <1>10 DEF vars
<1>11. \A t \in Acting : t \in Tabs
    BY AddressBookAssumption DEF Acting
<1> HIDE DEF TypeOK, kea, records, network
<1> QED BY <1>2, <1>3, <1>4, <1>5, <1>6, <1>7, <1>8, <1>9, <1>10, <1>11, <1>12
        DEF Next, Network, Editing

-----------------------------------------------------------------------------
(* What each part of the next-state relation leaves alone *)

Others(t) == \A s \in Tabs \ {t} : tab'[s] = tab[s]

\* Devices and Kea touch the leases only.
LEMMA NetworkFrame == Network => UNCHANGED <<kea, records, seenLeases, tab, scenario>>
BY DEF Network, Grant, Renew, Leave, Decline, Expire

\* A dialog closes and nothing else happens.
LEMMA CancelFrame ==
    ASSUME TypeOK, NEW t \in Tabs, Cancel(t)
    PROVE  /\ UNCHANGED <<kea, records, network, seenLeases, scenario>>
           /\ Others(t) /\ tab[t].at # "label" /\ tab'[t] = Idle
BY DEF Cancel, Turn, Others, TypeOK

\* A turn is one session's.
LEMMA TurnFacts ==
    ASSUME TypeOK, NEW t \in Tabs, NEW d, Turn(t, d)
    PROVE  tab'[t] = d /\ Others(t)
BY DEF Turn, Others, TypeOK

\* The settings form and the IPAM dialog leave leases and labels alone.
LEMMA RecordingFrame ==
    ASSUME TypeOK, NEW t \in Tabs, Recording(t)
    PROVE  /\ UNCHANGED <<network, labels, seenLeases, scenario>>
           /\ Others(t) /\ tab[t].at \in {"idle", "static"} /\ tab'[t].at \in {"idle", "static"}
<1>1. CASE \E pool \in Pools : SavePool(t, pool)
    BY <1>1 DEF SavePool, Others, network, Idle
<1>2. CASE \E ip \in Editable : OpenStatic(t, ip)
    <2>1. PICK ip \in Editable : OpenStatic(t, ip)
        BY <1>2
    <2> DEFINE d == [at |-> "static", ip |-> ip, pool |-> seenConfig.pool]
    <2>2. Open(t, d) /\ d.at = "static"
        BY <2>1 DEF OpenStatic
    <2> HIDE DEF d
    <2> QED BY <2>2, TurnFacts DEF Open, records, Idle
<1>3. CASE SaveStatic(t) \/ DeleteStatic(t)
    <2>1. Idle.at = "idle"
        BY DEF Idle
    <2> QED BY <1>3, <2>1, TurnFacts DEF SaveStatic, DeleteStatic
<1> QED BY <1>1, <1>2, <1>3 DEF Recording

\* The Leases and Maintenance tabs change leases only.
LEMMA LeasingFrame ==
    ASSUME TypeOK, NEW t \in Tabs, Leasing(t)
    PROVE  /\ UNCHANGED <<kea, records, uses, scenario>>
           /\ Others(t) /\ tab[t].at \in {"idle", "lease", "clear"}
           /\ tab'[t].at \in {"idle", "lease", "clear"}
<1>1. Idle.at = "idle"
    BY DEF Idle
<1>2. CASE (\E ip \in Hosts, m \in Macs : AddLease(t, ip, m)) \/ Wipe(t)
    BY <1>1, <1>2 DEF AddLease, Wipe, Commanded, Others
<1>3. CASE \E ip \in Hosts : OpenLease(t, ip)
    <2>1. PICK ip \in Hosts : OpenLease(t, ip)
        BY <1>3
    <2> DEFINE d == [at |-> "lease", ip |-> ip, mac |-> leases[ip].mac, name |-> leases[ip].name]
    <2>2. Open(t, d) /\ d.at = "lease"
        BY <2>1 DEF OpenLease
    <2> HIDE DEF d
    <2> QED BY <1>1, <2>2, TurnFacts DEF Open, network
<1>4. CASE \E m \in Macs, name \in Names : SaveLease(t, m, name)
    BY <1>1, <1>4, TurnFacts DEF SaveLease, Commanded
<1>5. ASSUME NEW ips, Clear(t, ips)
      PROVE  /\ UNCHANGED <<kea, records, uses, scenario>>
             /\ Others(t) /\ tab[t].at \in {"idle", "lease", "clear"}
             /\ tab'[t].at \in {"idle", "lease", "clear"}
    <2> DEFINE d == [at |-> "clear", left |-> {[ip |-> ip, seen |-> seenLeases[ip]] : ip \in ips}]
    <2>1. Open(t, d) /\ d.at = "clear"
        BY <1>5 DEF Clear
    <2> HIDE DEF d
    <2> QED BY <1>1, <2>1, TurnFacts DEF Open, network
<1>6. ASSUME tab[t].at = "clear", NEW entry \in tab[t].left, ClearNext(t, entry)
      PROVE  /\ UNCHANGED <<kea, records, uses, scenario>>
             /\ Others(t) /\ tab[t].at \in {"idle", "lease", "clear"}
             /\ tab'[t].at \in {"idle", "lease", "clear"}
    <2>1. tab[t] \in Clearings
        BY <1>6, DialogKinds DEF TypeOK
    <2>2. [tab[t] EXCEPT !.left = tab[t].left \ {entry}].at = "clear"
        BY <2>1 DEF Clearings
    <2> QED BY <1>1, <1>6, <2>2, TurnFacts DEF ClearNext
<1> QED BY <1>2, <1>3, <1>4, <1>5, <1>6 DEF Leasing

\* The reservation dialogs leave leases and static records alone.
LEMMA ReservingFrame ==
    ASSUME TypeOK, NEW t \in Tabs, Reserving(t)
    PROVE  /\ UNCHANGED <<network, static, seenLeases, scenario>>
           /\ Others(t) /\ tab[t].at \in {"idle", "add", "edit", "label"}
           /\ tab'[t].at \in {"idle", "add", "edit", "label"}
<1>1. CASE Saving(t)
    <2>1. PICK c \in Configs, drop \in SUBSET Macs, put \in SUBSET Macs,
               undone \in FormDialogs, done \in FormDialogs :
                   SavesFrom(t, c, drop, put, undone, done)
        BY <1>1, Saves
    <2>2. \A d \in FormDialogs : d.at \in {"add", "edit"}
        BY DEF FormDialogs, AddDialogs, EditDialogs
    <2>3. Labelling(drop, put, done).at = "label"
        BY DEF Labelling
    <2> QED BY <2>1, <2>2, <2>3 DEF SavesFrom, Save, Turn, Others, TypeOK, network
<1>2. CASE OpenAdd(t) \/ \E r \in seenConfig.reservations : OpenEdit(t, r)
    BY <1>2 DEF OpenAdd, OpenEdit, Open, Turn, Others, TypeOK, network, records, Idle
<1>3. CASE WriteLabels(t) \/ LabelsFailed(t)
    <2>1. tab[t] \in LabelSteps
        BY <1>3, DialogKinds DEF TypeOK, WriteLabels, LabelsFailed
    <2>2. tab[t].back.at \in {"add", "edit"}
        BY <2>1 DEF LabelSteps, AddDialogs, EditDialogs
    <2> QED BY <1>3, <2>2 DEF WriteLabels, LabelsFailed, Turn, Others, TypeOK, network, Idle
<1>4. \A ip : ip \in {NoIp} \cup (IF "pin" \in scenario THEN Pinned ELSE {})
              => ip \in {NoIp} \cup Pinned
    OBVIOUS
<1> QED BY <1>1, <1>2, <1>3, <1>4 DEF Reserving, Saving

-----------------------------------------------------------------------------
(* The inductive invariants *)

\* The session still has to write or delete the label of m.
Owes(t, m) == tab[t].at = "label" /\ m \in tab[t].drop \cup tab[t].put

\* Labels follow the reservations, where somebody wrote one; what is still to be
\* written is what the reservations have become, unless they came back without a
\* label, and no other session has to write it too.
LabelInv ==
    /\ \A m \in Macs \ upset :
          (\A s \in Tabs : ~Owes(s, m)) =>
              /\ m \in labels => m \in ReservedMacs(config)
              /\ m \in ReservedMacs(config) => m \in labels \cup unlabelled
    /\ \A t \in Tabs, m \in Macs \ upset : Owes(t, m) =>
          /\ m \in tab[t].put => m \in ReservedMacs(config)
          /\ m \in ReservedMacs(config) => m \in tab[t].put \cup unlabelled
          /\ m \in tab[t].put <=> m \notin tab[t].drop
          /\ \A s \in Tabs \ {t} : ~Owes(s, m)

\* The copy of the configuration a session goes on with.
Bases(t) ==
    {c \in Configs : \/ tab[t].at \in {"add", "edit"} /\ c = tab[t].base
                     \/ tab[t].at = "label" /\ c = tab[t].back.base}

\* MACs whose leases may carry an echo.
MayEcho == Masked(config) \cup unmasked

\* An echo is found on leases of such MACs, or saved by an admin, in no copy of
\* the leases or of the configuration is there another, and the shared copy has all
\* hostnames but those added by hand since it was loaded.
NameInv ==
    /\ Masked(config) \subseteq Masked(seenConfig) \cup unmasked \cup byHand
    /\ Masked(seenConfig) \subseteq MayEcho
    /\ \A t \in Tabs : \A c \in Bases(t) : Masked(c) \subseteq MayEcho
    /\ \A ip \in Hosts : leases[ip] # NoLease /\ leases[ip].name = Echo
                            => leases[ip].mac \in MayEcho \/ leases[ip].cut
    /\ \A ip \in Hosts : seenLeases[ip] # NoLease /\ seenLeases[ip].name = Echo
                            => seenLeases[ip].mac \in MayEcho \/ seenLeases[ip].cut

\* A device has the lease of the address it uses; a declined lease, also one that
\* a copy or the list of a running loop still has, is nobody's.
HolderInv ==
    /\ \A m \in Macs \ evicted : uses[m] # NoIp => leases[uses[m]] # NoLease /\ leases[uses[m]].mac = m
    /\ \A ip \in Hosts : leases[ip] # NoLease /\ leases[ip].declined => leases[ip].mac = NoMac
    /\ \A ip \in Hosts : seenLeases[ip] # NoLease /\ seenLeases[ip].declined => seenLeases[ip].mac = NoMac
    /\ \A t \in Tabs : tab[t].at = "clear" => \A e \in tab[t].left : e.seen.mac = NoMac

\* No record is in the scope unless the scope was moved, and no dialog is open for
\* an address of the scope it knows.
OfferInv ==
    /\ static \cap config.pool \subseteq engulfed
    /\ \A t \in Tabs : tab[t].at = "static" => tab[t].ip \notin tab[t].pool

-----------------------------------------------------------------------------
(* One device per address *)

\* Nobody uses an address at first.
LEMMA HolderInit == Init => HolderInv
BY HostFacts DEF Init, HolderInv, Idle

\* Every step keeps users and leases together, or says whom it took one from.
LEMMA HolderNext == TypeOK /\ HolderInv /\ [Next]_vars => HolderInv'
<1> SUFFICES ASSUME TypeOK, HolderInv, [Next]_vars PROVE HolderInv'
    OBVIOUS
<1> USE AbsenceFacts, HostFacts
<1>0. \A m \in Macs : /\ Written(m) \in LeaseRecords
                      /\ Written(m).mac = m /\ ~Written(m).declined
    BY DEF Written, LeaseRecords, Names
<1>1. ASSUME UNCHANGED <<seenLeases, tab>>,
             \A m \in Macs \ evicted' : uses'[m] # NoIp =>
                 leases'[uses'[m]] # NoLease /\ leases'[uses'[m]].mac = m,
             \A ip \in Hosts : leases'[ip] # NoLease /\ leases'[ip].declined => leases'[ip].mac = NoMac
      PROVE  HolderInv'
    BY <1>1 DEF HolderInv
<1>2. ASSUME NEW m \in Macs, NEW ip \in Hosts, Grant(m, ip) PROVE HolderInv'
    <2>1. /\ uses' = [uses EXCEPT ![m] = ip] /\ UNCHANGED <<seenLeases, tab, evicted>>
          /\ leases[ip] = NoLease \/ leases[ip].mac = m
          /\ leases' = [i \in Hosts |-> IF i = ip THEN Written(m)
                                        ELSE IF leases[i] # NoLease /\ leases[i].mac = m THEN NoLease
                                        ELSE leases[i]]
        BY <1>2 DEF Grant, ActiveOf, Leased
    <2>2. \A n \in Macs \ evicted : uses'[n] # NoIp =>
              leases'[uses'[n]] # NoLease /\ leases'[uses'[n]].mac = n
        <3> SUFFICES ASSUME NEW n \in Macs \ evicted, uses'[n] # NoIp
                     PROVE  leases'[uses'[n]] # NoLease /\ leases'[uses'[n]].mac = n
            OBVIOUS
        <3>1. CASE n = m
            BY <1>0, <2>1, <3>1 DEF TypeOK
        <3>2. CASE n # m
            BY <2>1, <3>2 DEF TypeOK, HolderInv
        <3> QED BY <3>1, <3>2
    <2>3. \A i \in Hosts : leases'[i] # NoLease /\ leases'[i].declined => leases'[i].mac = NoMac
        BY <1>0, <2>1 DEF HolderInv
    <2> QED BY <1>1, <2>1, <2>2, <2>3
<1>3. ASSUME NEW m \in Macs, Renew(m) PROVE HolderInv'
    <2>1. /\ uses[m] \in Hosts /\ evicted' = evicted \ {m} /\ UNCHANGED <<seenLeases, tab>>
          /\ \/ /\ leases[uses[m]] = NoLease \/ leases[uses[m]].mac = m
                /\ leases' = [leases EXCEPT ![uses[m]] = Written(m)] /\ UNCHANGED uses
             \/ uses' = [uses EXCEPT ![m] = NoIp] /\ UNCHANGED leases
        BY <1>3 DEF Renew, TypeOK
    <2>2. \A n \in Macs \ evicted' : uses'[n] # NoIp =>
              leases'[uses'[n]] # NoLease /\ leases'[uses'[n]].mac = n
        <3> SUFFICES ASSUME NEW n \in Macs \ evicted', uses'[n] # NoIp
                     PROVE  leases'[uses'[n]] # NoLease /\ leases'[uses'[n]].mac = n
            OBVIOUS
        <3>1. CASE n = m
            BY <1>0, <2>1, <3>1 DEF TypeOK, LeaseTables
        <3>2. CASE n # m
            BY <2>1, <3>2 DEF TypeOK, HolderInv, LeaseTables
        <3> QED BY <3>1, <3>2
    <2>3. \A i \in Hosts : leases'[i] # NoLease /\ leases'[i].declined => leases'[i].mac = NoMac
        BY <1>0, <2>1 DEF HolderInv, TypeOK, LeaseTables
    <2> QED BY <1>1, <2>1, <2>2, <2>3
<1>4. ASSUME NEW m \in Macs, Leave(m) PROVE HolderInv'
    <2>1. \A n \in Macs \ evicted' : uses'[n] # NoIp =>
              leases'[uses'[n]] # NoLease /\ leases'[uses'[n]].mac = n
        BY <1>4 DEF Leave, HolderInv, TypeOK
    <2> QED BY <1>1, <1>4, <2>1 DEF Leave, HolderInv
<1>5. ASSUME NEW m \in Macs, Decline(m) PROVE HolderInv'
    <2> DEFINE aside == [mac |-> NoMac, name |-> NoName, declined |-> TRUE, cut |-> FALSE]
    <2>1. /\ uses[m] \in Hosts /\ leases[uses[m]].mac = m
          /\ evicted' = evicted \ {m} /\ UNCHANGED <<seenLeases, tab>>
          /\ leases' = [leases EXCEPT ![uses[m]] = aside]
          /\ uses' = [uses EXCEPT ![m] = NoIp]
        BY <1>5 DEF Decline, ActiveOf, Leased
    <2>2. aside.mac = NoMac
        OBVIOUS
    <2> HIDE DEF aside
    <2>3. \A n \in Macs \ evicted' : uses'[n] # NoIp =>
              leases'[uses'[n]] # NoLease /\ leases'[uses'[n]].mac = n
        BY <2>1 DEF HolderInv, TypeOK, LeaseTables
    <2>4. \A i \in Hosts : leases'[i] # NoLease /\ leases'[i].declined => leases'[i].mac = NoMac
        BY <2>1, <2>2 DEF HolderInv, TypeOK, LeaseTables
    <2> QED BY <1>1, <2>1, <2>3, <2>4
<1>6. ASSUME NEW ip \in Hosts, Expire(ip) PROVE HolderInv'
    <2>1. /\ leases' = [leases EXCEPT ![ip] = NoLease] /\ UNCHANGED <<uses, seenLeases, tab>>
          /\ evicted' = evicted \cup {m \in Macs : leases[ip].mac = m /\ uses[m] = ip}
        BY <1>6 DEF Expire
    <2> QED BY <1>1, <2>1 DEF HolderInv, TypeOK, LeaseTables
<1>7. CASE LoadLeases
    BY <1>7 DEF LoadLeases, network, HolderInv
<1>8. CASE LoadConfig \/ \E m \in Macs : Deny(m) \/ EditByHand(m)
    BY <1>8, EditingFacts DEF LoadConfig, network, HolderInv
<1>9. ASSUME NEW t \in Tabs, UNCHANGED <<network, seenLeases>>, Others(t), tab'[t].at # "clear"
      PROVE  HolderInv'
    BY <1>9 DEF HolderInv, network, Others
<1>10. ASSUME NEW t \in Tabs, Cancel(t) \/ Reserving(t) \/ Recording(t) PROVE HolderInv'
    BY <1>9, <1>10, CancelFrame, ReservingFrame, RecordingFrame DEF Idle
<1>11. ASSUME NEW t \in Tabs, Leasing(t) PROVE HolderInv'
    <2>1. uses' = uses /\ Others(t)
        BY <1>11, LeasingFrame
    <2>2. ASSUME leases' = seenLeases' \/ UNCHANGED seenLeases, tab'[t].at # "clear" \/ tab' = tab,
                 \A m \in Macs \ evicted' : uses[m] # NoIp =>
                     leases'[uses[m]] # NoLease /\ leases'[uses[m]].mac = m,
                 \A ip \in Hosts : leases'[ip] # NoLease /\ leases'[ip].declined => leases'[ip].mac = NoMac
          PROVE  HolderInv'
        BY <2>1, <2>2 DEF HolderInv, Others
    <2>3. ASSUME NEW ip \in Hosts, NEW m \in Macs, AddLease(t, ip, m) PROVE HolderInv'
        <3> DEFINE added == [mac |-> m, name |-> Typed, declined |-> FALSE, cut |-> TRUE]
        <3>1. /\ leases[ip] = NoLease /\ leases' = [leases EXCEPT ![ip] = added]
              /\ seenLeases' = leases' /\ UNCHANGED <<tab, evicted>>
            BY <2>3 DEF AddLease, Commanded
        <3>2. ~added.declined
            OBVIOUS
        <3> HIDE DEF added
        <3> QED BY <2>2, <3>1, <3>2 DEF HolderInv, TypeOK, LeaseTables
    <2>4. ASSUME NEW ip \in Hosts, OpenLease(t, ip) PROVE HolderInv'
        <3> DEFINE d == [at |-> "lease", ip |-> ip, mac |-> leases[ip].mac, name |-> leases[ip].name]
        <3>1. Open(t, d) /\ d.at = "lease"
            BY <2>4 DEF OpenLease
        <3> HIDE DEF d
        <3> QED BY <3>1, <1>9, TurnFacts DEF Open
    <2>5. ASSUME NEW m \in Macs, NEW name \in Names, SaveLease(t, m, name) PROVE HolderInv'
        <3> DEFINE new == [mac |-> m, name |-> name, declined |-> FALSE, cut |-> TRUE]
                   ip == tab[t].ip
        <3>1. ip \in Hosts
            BY <2>5, DialogKinds DEF SaveLease, TypeOK, LeaseDialogs
        <3>2. /\ leases' = [leases EXCEPT ![ip] = new]
              /\ seenLeases' = leases' /\ tab'[t] = Idle
              /\ evicted' = evicted \cup (HolderAt(ip) \ {m})
            BY <2>5, TurnFacts DEF SaveLease, Commanded
        <3>3. new.mac = m /\ ~new.declined /\ new \in LeaseRecords
            BY DEF LeaseRecords
        <3> HIDE DEF new, ip
        <3> QED BY <2>2, <3>1, <3>2, <3>3 DEF HolderInv, TypeOK, LeaseTables, HolderAt, Idle
    <2>6. CASE Wipe(t)
        BY <2>2, <2>6 DEF Wipe, Commanded
    <2>7. ASSUME NEW ips \in SUBSET DeclinedIn(seenLeases), Clear(t, ips) PROVE HolderInv'
        <3> DEFINE d == [at |-> "clear", left |-> {[ip |-> ip, seen |-> seenLeases[ip]] : ip \in ips}]
        <3>1. Open(t, d) /\ d.at = "clear"
            BY <2>7 DEF Clear
        <3>2. \A e \in d.left : e.seen.mac = NoMac
            BY DEF HolderInv, DeclinedIn, Leased
        <3> HIDE DEF d
        <3> QED BY <3>1, <3>2, TurnFacts DEF Open, HolderInv, network, Others
    <2>8. ASSUME tab[t].at = "clear", NEW e \in tab[t].left, ClearNext(t, e) PROVE HolderInv'
        <3> DEFINE left == tab[t].left \ {e}
                   rest == [tab[t] EXCEPT !.left = left]
        <3>1. tab[t] \in Clearings
            BY <2>8, DialogKinds DEF TypeOK
        <3>2. e.ip \in Hosts /\ e.seen.mac = NoMac
            BY <2>8, <3>1 DEF Clearings, HolderInv
        <3>3. rest.at = "clear" /\ rest.left = left
            BY <3>1 DEF Clearings
        <3>4. /\ leases' = [leases EXCEPT ![e.ip] = NoLease] \/ leases' = leases
              /\ leases' = seenLeases' \/ UNCHANGED seenLeases
              /\ tab'[t] = Idle \/ tab'[t] = rest
              /\ evicted' = IF leases' # leases /\ leases[e.ip] # e.seen
                            THEN evicted \cup HolderAt(e.ip) ELSE evicted
            BY <2>8, TurnFacts DEF ClearNext
        <3> HIDE DEF rest
        <3>5. \A m \in Macs \ evicted' : uses[m] # NoIp =>
                  leases'[uses[m]] # NoLease /\ leases'[uses[m]].mac = m
            BY <3>2, <3>4 DEF HolderInv, TypeOK, LeaseTables, HolderAt
        <3>6. \A i \in Hosts : leases'[i] # NoLease /\ leases'[i].declined => leases'[i].mac = NoMac
            BY <3>2, <3>4 DEF HolderInv, TypeOK, LeaseTables
        <3>7. tab'[t].at = "clear" => \A f \in tab'[t].left : f.seen.mac = NoMac
            BY <2>8, <3>3, <3>4 DEF HolderInv, Idle
        <3>8. \A i \in Hosts : seenLeases'[i] # NoLease /\ seenLeases'[i].declined
                                => seenLeases'[i].mac = NoMac
            BY <3>4, <3>6 DEF HolderInv
        <3>9. \A s \in Tabs : tab'[s].at = "clear" => \A f \in tab'[s].left : f.seen.mac = NoMac
            BY <2>1, <3>7 DEF HolderInv, Others
        <3> QED BY <2>1, <3>5, <3>6, <3>8, <3>9 DEF HolderInv
    <2>9. \A ip \in DeclinedIn(seenLeases) : {ip} \in SUBSET DeclinedIn(seenLeases)
        OBVIOUS
    <2> QED BY <1>11, <2>3, <2>4, <2>5, <2>6, <2>7, <2>8, <2>9 DEF Leasing
<1>12. CASE UNCHANGED vars
    BY <1>12 DEF vars, HolderInv
<1>13. \A t \in Acting : t \in Tabs
    BY AddressBookAssumption DEF Acting
<1> QED BY <1>2, <1>3, <1>4, <1>5, <1>6, <1>7, <1>8, <1>10, <1>11, <1>12, <1>13
        DEF Next, Network, Editing, Session

-----------------------------------------------------------------------------
(* What the address map offers *)

\* There is no static record at first.
LEMMA OfferInit == Init => OfferInv
BY DEF Init, OfferInv, Idle

\* A stored configuration keeps records apart from the scope, or says so.
LEMMA StoredOffer ==
    ASSUME OfferInv, NEW t, NEW c, NEW drop, NEW put, NEW spoilt,
           Stored(t, c, drop, put, spoilt), static' = static
    PROVE  static' \cap config'.pool \subseteq engulfed'
BY DEF OfferInv, Stored

\* Every step keeps records and the scope apart, or says which it moved it onto.
LEMMA OfferNext == TypeOK /\ OfferInv /\ [Next]_vars => OfferInv'
<1> SUFFICES ASSUME TypeOK, OfferInv, [Next]_vars PROVE OfferInv'
    OBVIOUS
<1>1. CASE Network \/ LoadLeases \/ LoadConfig
    BY <1>1, NetworkFrame DEF LoadLeases, LoadConfig, kea, records, OfferInv
<1>8. ASSUME NEW m \in Macs, Deny(m) \/ EditByHand(m) PROVE OfferInv'
    BY <1>8, EditingFacts DEF OfferInv
<1>2. ASSUME NEW t \in Tabs, UNCHANGED <<static, config, engulfed>>, Others(t), tab'[t].at # "static"
      PROVE  OfferInv'
    BY <1>2 DEF OfferInv, Others
<1>3. ASSUME NEW t \in Tabs, Cancel(t) \/ Leasing(t) PROVE OfferInv'
    BY <1>2, <1>3, CancelFrame, LeasingFrame DEF kea, records, Idle
<1>4. ASSUME NEW t \in Tabs, Reserving(t) PROVE OfferInv'
    <2>1. /\ static' = static /\ Others(t) /\ tab'[t].at # "static"
        BY <1>4, ReservingFrame
    <2>2. static' \cap config'.pool \subseteq engulfed'
        <3>1. CASE Saving(t)
            <4>1. PICK c \in Configs, drop \in SUBSET Macs, put \in SUBSET Macs,
                       undone \in FormDialogs, done \in FormDialogs :
                           SavesFrom(t, c, drop, put, undone, done)
                BY <3>1, Saves
            <4> QED BY <2>1, <4>1, StoredOffer DEF SavesFrom, Save, OfferInv, kea
        <3>2. CASE ~Saving(t)
            <4>1. UNCHANGED <<config, static, engulfed>>
                BY <1>4, <3>2 DEF Reserving, Saving, OpenAdd, OpenEdit, Open, WriteLabels, LabelsFailed,
                                  kea, records
            <4> QED BY <4>1 DEF OfferInv
        <3> QED BY <3>1, <3>2
    <2> QED BY <2>1, <2>2 DEF OfferInv, Others
<1>5. ASSUME NEW t \in Tabs, Recording(t) PROVE OfferInv'
    <2>1. ASSUME NEW pool \in Pools, SavePool(t, pool) PROVE OfferInv'
        <3>1. static' \cap config'.pool \subseteq engulfed' /\ tab' = tab
            BY <2>1, StoredOffer DEF SavePool
        <3> QED BY <3>1 DEF OfferInv
    <2>2. ASSUME NEW ip \in Editable, OpenStatic(t, ip) PROVE OfferInv'
        <3> DEFINE d == [at |-> "static", ip |-> ip, pool |-> seenConfig.pool]
        <3>1. Open(t, d) /\ d.ip \notin d.pool
            BY <2>2 DEF OpenStatic, Refused
        <3> HIDE DEF d
        <3> QED BY <3>1, TurnFacts DEF Open, kea, records, OfferInv, Others
    <2>3. CASE SaveStatic(t)
        <3>1. /\ static' = static \cup {tab[t].ip} /\ tab[t].ip \notin tab[t].pool /\ config' = config
              /\ engulfed' = IF tab[t].pool # config.pool
                             THEN engulfed \cup ({tab[t].ip} \cap config.pool) ELSE engulfed
              /\ Others(t) /\ tab'[t] = Idle
            BY <2>3, TurnFacts DEF SaveStatic, OfferInv, kea
        <3>2. static' \cap config'.pool \subseteq engulfed'
            BY <3>1 DEF OfferInv
        <3> QED BY <3>1, <3>2 DEF OfferInv, Others, Idle
    <2>4. CASE DeleteStatic(t)
        <3>1. /\ static' = static \ {tab[t].ip} /\ engulfed' = engulfed \ {tab[t].ip}
              /\ config' = config /\ Others(t) /\ tab'[t] = Idle
            BY <2>4, TurnFacts DEF DeleteStatic, kea
        <3> QED BY <3>1 DEF OfferInv, Others, Idle
    <2> QED BY <1>5, <2>1, <2>2, <2>3, <2>4 DEF Recording
<1>6. CASE UNCHANGED vars
    BY <1>6 DEF vars, OfferInv
<1>7. \A t \in Acting : t \in Tabs
    BY AddressBookAssumption DEF Acting
<1> QED BY <1>1, <1>3, <1>4, <1>5, <1>6, <1>7, <1>8 DEF Next, Editing, Session

\* What the map offers is not in use.
LEMMA OfferSafe == TypeOK /\ HolderInv /\ OfferInv => OfferedMeansFree
<1> SUFFICES ASSUME TypeOK, HolderInv, OfferInv, NEW ip \in Hosts,
                    MapOf(leases, config, static)[ip] \in {"free", "static"}
             PROVE  /\ \A m \in Macs : uses[m] = ip => m \in evicted
                    /\ ip \notin Leased(leases) \cup ReservedIps(config)
                    /\ ip \in config.pool => ip \in engulfed
    BY DEF OfferedMeansFree
<1>1. ip \in Octets /\ ip # 0 /\ ip # LastOctet /\ ip # Gateway
    BY DEF Hosts
<1>2. StatusOf(ip, leases, config, static) \in {"free", "static"}
    BY <1>1 DEF MapOf
<1>3. ip \in Leased(leases) => leases[ip].declined \in BOOLEAN
    BY DEF TypeOK, LeaseTables, LeaseRecords, Leased
<1>4. ip \notin Leased(leases) \cup ReservedIps(config)
    BY <1>1, <1>2, <1>3 DEF StatusOf
<1>5. ip \in config.pool => ip \in static
    BY <1>1, <1>2, <1>4 DEF StatusOf
<1>6. \A m \in Macs : uses[m] = ip => m \in evicted
    BY <1>4, HostFacts DEF HolderInv, Leased
<1> QED BY <1>4, <1>5, <1>6 DEF OfferInv

\* Two users of one address would be two holders of one lease.
LEMMA HolderSafe == TypeOK /\ HolderInv => OneDevicePerAddress
BY DEF HolderInv, OneDevicePerAddress

-----------------------------------------------------------------------------
(* Names and their echoes *)

\* There are no leases, and the copy of the configuration is fresh, at first.
LEMMA NameInit == Init => NameInv
BY DEF Init, NameInv, Bases, MayEcho, Idle

\* Leases and dialogs change, and what may be echoed stays or grows.
LEMMA NameFrame ==
    ASSUME NameInv, UNCHANGED <<config, unmasked, seenConfig, byHand>>, NEW t \in Tabs, Others(t),
           \A c \in Bases(t)' : Masked(c) \subseteq MayEcho,
           \A ip \in Hosts : leases'[ip] # NoLease /\ leases'[ip].name = Echo
                                => leases'[ip].mac \in MayEcho \/ leases'[ip].cut,
           seenLeases' \in {seenLeases, leases'}
    PROVE  NameInv'
<1>1. MayEcho' = MayEcho /\ Masked(config)' = Masked(config) /\ Masked(seenConfig)' = Masked(seenConfig)
    BY DEF MayEcho, Masked
<1>2. \A s \in Tabs : Bases(s)' = IF s = t THEN Bases(t)' ELSE Bases(s)
    BY DEF Bases, Others
<1>3. \A ip \in Hosts : seenLeases'[ip] # NoLease /\ seenLeases'[ip].name = Echo
                             => seenLeases'[ip].mac \in MayEcho \/ seenLeases'[ip].cut
    BY DEF NameInv
<1> QED BY <1>1, <1>2, <1>3 DEF NameInv, Others

\* A configuration that overrides no name but those that may be echoed is stored,
\* and is the shared copy or not.
LEMMA StoredNames ==
    ASSUME NameInv, NEW t \in Tabs, NEW c \in Configs, NEW drop, NEW put, NEW spoilt,
           Stored(t, c, drop, put, spoilt), Masked(c) \subseteq MayEcho,
           Loaded(c) \/ UNCHANGED <<seenConfig, byHand>>
    PROVE  /\ MayEcho \subseteq MayEcho' /\ Masked(c) \subseteq MayEcho'
           /\ Masked(config)' \subseteq Masked(seenConfig)' \cup unmasked' \cup byHand'
           /\ Masked(seenConfig)' \subseteq MayEcho'
<1>1. config' = c /\ unmasked' = unmasked \cup (Masked(config) \ Masked(c))
    BY DEF Stored
<1>2. MayEcho' = Masked(c) \cup unmasked \cup (Masked(config) \ Masked(c)) /\ Masked(config)' = Masked(c)
    BY <1>1 DEF MayEcho, Masked
<1>3. CASE Loaded(c)
    <2>1. Masked(seenConfig)' = Masked(c)
        BY <1>3 DEF Loaded, Masked
    <2> QED BY <1>2, <2>1 DEF MayEcho
<1>4. CASE UNCHANGED <<seenConfig, byHand>>
    <2>1. Masked(seenConfig)' = Masked(seenConfig)
        BY <1>4 DEF Masked
    <2>2. Masked(c) \subseteq Masked(config) \cup unmasked
        BY DEF MayEcho
    <2>3. Masked(c) \subseteq Masked(seenConfig) \cup unmasked \cup byHand
        BY <2>2 DEF NameInv
    <2> QED BY <1>1, <1>2, <1>4, <2>1, <2>3 DEF NameInv, MayEcho
<1> QED BY <1>3, <1>4

\* Every step keeps the echoes where a reservation explains them.
LEMMA NameNext == TypeOK /\ NameInv /\ [Next]_vars => NameInv'
<1> SUFFICES ASSUME TypeOK, NameInv, [Next]_vars PROVE NameInv'
    OBVIOUS
<1> USE AbsenceFacts
<1>1. CASE Network
    <2>1. \A m \in Macs : Written(m).name = Echo => Written(m).mac \in MayEcho
        BY DEF Written, MayEcho, Masked
    <2>2. UNCHANGED <<config, seenConfig, unmasked, byHand, seenLeases, tab>>
        BY <1>1, NetworkFrame DEF kea
    <2> DEFINE Known == \A i \in Hosts : \/ leases'[i] \in {leases[i], NoLease}
                                         \/ \E n \in Macs : leases'[i] = Written(n)
                                         \/ leases'[i].name = NoName
    <2>3. Known
        <3>1. ASSUME NEW m \in Macs, NEW ip \in Hosts, Grant(m, ip) PROVE Known
            BY <3>1 DEF Grant
        <3>2. ASSUME NEW m \in Macs, Renew(m) PROVE Known
            BY <3>2 DEF Renew, TypeOK, LeaseTables
        <3>3. ASSUME NEW m \in Macs, Leave(m) PROVE Known
            BY <3>3 DEF Leave
        <3>4. ASSUME NEW m \in Macs, Decline(m) PROVE Known
            BY <3>4 DEF Decline, TypeOK, LeaseTables
        <3>5. ASSUME NEW ip \in Hosts, Expire(ip) PROVE Known
            BY <3>5 DEF Expire, TypeOK, LeaseTables
        <3> QED BY <1>1, <3>1, <3>2, <3>3, <3>4, <3>5 DEF Network
    <2>4. \A ip \in Hosts : leases'[ip] # NoLease /\ leases'[ip].name = Echo
                                => leases'[ip].mac \in MayEcho \/ leases'[ip].cut
        BY <2>1, <2>3 DEF NameInv
    <2>5. /\ MayEcho' = MayEcho /\ \A s \in Tabs : Bases(s)' = Bases(s)
          /\ Masked(config)' = Masked(config) /\ Masked(seenConfig)' = Masked(seenConfig)
        BY <2>2 DEF MayEcho, Masked, Bases
    <2> QED BY <2>2, <2>4, <2>5 DEF NameInv
<1>11. ASSUME NEW m \in Macs, Deny(m) \/ EditByHand(m) PROVE NameInv'
    <2>1. /\ UNCHANGED <<seenConfig, unmasked, leases, seenLeases, tab>>
          /\ \/ byHand' = byHand /\ Masked(config') = Masked(config)
             \/ byHand' = byHand \cup {m} /\ Masked(config') = Masked(config) \cup {m}
        BY <1>11, EditingFacts DEF network
    <2>2. Masked(config)' = Masked(config') /\ Masked(seenConfig)' = Masked(seenConfig)
        BY <2>1 DEF Masked
    <2>3. MayEcho \subseteq MayEcho' /\ \A s \in Tabs : Bases(s)' = Bases(s)
        BY <2>1, <2>2 DEF MayEcho, Bases
    <2>4. /\ Masked(config)' \subseteq Masked(seenConfig)' \cup unmasked' \cup byHand'
          /\ Masked(seenConfig)' \subseteq MayEcho'
        BY <2>1, <2>2, <2>3 DEF NameInv
    <2> QED BY <2>1, <2>3, <2>4 DEF NameInv
<1>2. CASE LoadLeases
    <2>1. /\ MayEcho' = MayEcho /\ \A s \in Tabs : Bases(s)' = Bases(s)
          /\ Masked(config)' = Masked(config) /\ Masked(seenConfig)' = Masked(seenConfig)
        BY <1>2 DEF LoadLeases, kea, MayEcho, Masked, Bases
    <2> QED BY <1>2, <2>1 DEF LoadLeases, kea, network, NameInv
<1>3. CASE LoadConfig
    <2>1. /\ MayEcho' = MayEcho /\ \A s \in Tabs : Bases(s)' = Bases(s)
          /\ Masked(config)' = Masked(config) /\ Masked(seenConfig)' = Masked(config)
        BY <1>3 DEF LoadConfig, Loaded, MayEcho, Masked, Bases
    <2>2. Masked(config) \subseteq MayEcho
        BY DEF MayEcho
    <2> QED BY <1>3, <2>1, <2>2 DEF LoadConfig, network, NameInv
<1>4. ASSUME NEW t \in Tabs, Cancel(t) PROVE NameInv'
    <2>1. /\ UNCHANGED <<config, unmasked, seenConfig, byHand, leases, seenLeases>>
          /\ Others(t) /\ tab'[t] = Idle
        BY <1>4, CancelFrame DEF kea, network
    <2>2. Bases(t)' = {}
        BY <2>1 DEF Bases, Idle
    <2> QED BY <2>1, <2>2, NameFrame DEF NameInv
<1>5. ASSUME NEW t \in Tabs, NEW c \in Configs, NEW drop, NEW put, NEW spoilt,
             Stored(t, c, drop, put, spoilt), Masked(c) \subseteq MayEcho, Others(t),
             Loaded(c) \/ UNCHANGED <<seenConfig, byHand>>, UNCHANGED <<leases, seenLeases>>,
             \A k \in Bases(t)' : k = c \/ Masked(k) \subseteq MayEcho
      PROVE  NameInv'
    <2>1. /\ MayEcho \subseteq MayEcho' /\ Masked(c) \subseteq MayEcho'
          /\ Masked(config)' \subseteq Masked(seenConfig)' \cup unmasked' \cup byHand'
          /\ Masked(seenConfig)' \subseteq MayEcho'
        BY <1>5, StoredNames
    <2>2. \A s \in Tabs : Bases(s)' = IF s = t THEN Bases(t)' ELSE Bases(s)
        BY <1>5 DEF Bases, Others
    <2>3. \A s \in Tabs : \A k \in Bases(s)' : Masked(k) \subseteq MayEcho'
        BY <1>5, <2>1, <2>2 DEF NameInv
    <2> QED BY <1>5, <2>1, <2>3 DEF NameInv, Others
<1>6. ASSUME NEW t \in Tabs, Reserving(t) PROVE NameInv'
    <2>1. Others(t) /\ UNCHANGED <<leases, seenLeases>>
        BY <1>6, ReservingFrame DEF network
    <2>2. ASSUME Saving(t) PROVE NameInv'
        <3>1. PICK c \in Configs, drop \in SUBSET Macs, put \in SUBSET Macs,
                   undone \in FormDialogs, done \in FormDialogs :
                       SavesFrom(t, c, drop, put, undone, done)
            BY <2>2, Saves
        <3>2. tab[t].base \in Bases(t)
            BY <3>1 DEF SavesFrom, FormDialogs, AddDialogs, EditDialogs, Bases
        <3>3. Masked(tab[t].base) \subseteq MayEcho /\ Masked(c) \subseteq MayEcho
            BY <3>1, <3>2 DEF SavesFrom, NameInv
        <3>4. \/ tab'[t] = Labelling(drop, put, done)
              \/ tab'[t] \in {undone, done}
            BY <3>1, TurnFacts DEF SavesFrom, Save
        <3>5. \A k \in Bases(t)' : k \in {tab[t].base, c}
            BY <3>1, <3>4 DEF Bases, Labelling, SavesFrom, FormDialogs, AddDialogs, EditDialogs
        <3>6. \/ /\ \E spoilt : Stored(t, c, drop, put, spoilt)
                 /\ Loaded(c) \/ UNCHANGED <<seenConfig, byHand>>
              \/ UNCHANGED <<config, unmasked, seenConfig, byHand>>
            BY <3>1 DEF SavesFrom, Save, kea
        <3> QED BY <2>1, <3>3, <3>5, <3>6, <1>5, NameFrame DEF NameInv
    <2>3. ASSUME UNCHANGED <<config, unmasked, seenConfig, byHand>>,
                 \A k \in Bases(t)' : k = seenConfig \/ k \in Bases(t)
          PROVE  NameInv'
        <3>1. Masked(seenConfig) \subseteq MayEcho
            BY DEF NameInv
        <3> QED BY <2>1, <2>3, <3>1, NameFrame DEF NameInv
    <2>4. CASE OpenAdd(t) \/ \E r \in seenConfig.reservations : OpenEdit(t, r)
        <3>1. \E d : Open(t, d) /\ d.at # "label" /\ d.base = seenConfig
            <4>1. CASE OpenAdd(t)
                <5>1. Open(t, [at |-> "add", base |-> seenConfig])
                    BY <4>1 DEF OpenAdd
                <5> QED BY <5>1
            <4>2. CASE \E r \in seenConfig.reservations : OpenEdit(t, r)
                <5>1. PICK r : Open(t, [at |-> "edit", base |-> seenConfig, of |-> r, linked |-> TRUE])
                    BY <4>2 DEF OpenEdit
                <5> QED BY <5>1
            <4> QED BY <2>4, <4>1, <4>2
        <3>2. UNCHANGED <<config, unmasked, seenConfig, byHand>> /\ tab'[t].at # "label" /\ tab'[t].base = seenConfig
            BY <3>1, TurnFacts DEF Open, kea
        <3> QED BY <2>3, <3>2 DEF Bases
    <2>5. CASE WriteLabels(t) \/ LabelsFailed(t)
        <3>1. tab[t] \in LabelSteps
            BY <2>5, DialogKinds DEF TypeOK, WriteLabels, LabelsFailed
        <3>2. tab[t].back.at \in {"add", "edit"} /\ tab[t].at = "label"
            BY <3>1 DEF LabelSteps, AddDialogs, EditDialogs
        <3>3. UNCHANGED <<config, unmasked, seenConfig, byHand>> /\ tab'[t] \in {Idle, tab[t].back}
            BY <2>5, TurnFacts DEF WriteLabels, LabelsFailed, kea
        <3>4. \A k \in Bases(t)' : k \in Bases(t)
            BY <3>2, <3>3 DEF Bases, Idle
        <3> QED BY <2>3, <3>3, <3>4
    <2>6. \A ip : ip \in {NoIp} \cup (IF "pin" \in scenario THEN Pinned ELSE {})
                  => ip \in {NoIp} \cup Pinned
        OBVIOUS
    <2> QED BY <1>6, <2>2, <2>4, <2>5, <2>6 DEF Reserving, Saving
<1>7. ASSUME NEW t \in Tabs, Recording(t) PROVE NameInv'
    <2>1. /\ Others(t) /\ UNCHANGED <<leases, seenLeases>> /\ tab'[t].at \in {"idle", "static"}
        BY <1>7, RecordingFrame DEF network
    <2>2. Bases(t)' = {}
        BY <2>1 DEF Bases
    <2>3. ASSUME NEW pool \in Pools, SavePool(t, pool) PROVE NameInv'
        <3> DEFINE c == [seenConfig EXCEPT !.pool = pool]
        <3>1. c \in Configs /\ c.reservations = seenConfig.reservations
            BY DEF TypeOK, Configs
        <3>2. Stored(t, c, {}, {}, {}) /\ Loaded(c)
            BY <2>3 DEF SavePool
        <3> HIDE DEF c
        <3>3. Masked(c) = Masked(seenConfig)
            BY <3>1 DEF Masked
        <3>4. Masked(c) \subseteq MayEcho
            BY <3>3 DEF NameInv
        <3> QED BY <1>5, <2>1, <2>2, <3>1, <3>2, <3>4
    <2>4. CASE (\E ip \in Editable : OpenStatic(t, ip)) \/ SaveStatic(t) \/ DeleteStatic(t)
        <3>1. UNCHANGED <<config, unmasked, seenConfig, byHand>>
            BY <2>4 DEF OpenStatic, Open, SaveStatic, DeleteStatic, kea
        <3> QED BY <2>1, <2>2, <3>1, NameFrame DEF NameInv
    <2> QED BY <1>7, <2>3, <2>4 DEF Recording
<1>8. ASSUME NEW t \in Tabs, Leasing(t) PROVE NameInv'
    <2>1. /\ Others(t) /\ UNCHANGED <<config, unmasked, seenConfig, byHand>>
          /\ tab'[t].at \in {"idle", "lease", "clear"}
        BY <1>8, LeasingFrame DEF kea
    <2>2. \A k \in Bases(t)' : Masked(k) \subseteq MayEcho
        BY <2>1 DEF Bases
    <2> DEFINE EchoesStay == /\ \A i \in Hosts : leases'[i] # NoLease /\ leases'[i].name = Echo
                                                 => leases'[i].mac \in MayEcho \/ leases'[i].cut
                             /\ seenLeases' \in {seenLeases, leases'}
    <2>4. EchoesStay
        <3>1. ASSUME NEW ip \in Hosts, NEW m \in Macs, AddLease(t, ip, m) 
              PROVE  EchoesStay
            <4> DEFINE new == [mac |-> m, name |-> Typed, declined |-> FALSE, cut |-> TRUE]
            <4>1. leases' = [leases EXCEPT ![ip] = new] /\ seenLeases' = leases' /\ new.name # Echo
                BY <3>1 DEF AddLease, Commanded
            <4> HIDE DEF new
            <4> QED BY <4>1 DEF NameInv, TypeOK, LeaseTables
        <3>2. ASSUME NEW m \in Macs, NEW name \in Names, SaveLease(t, m, name) 
              PROVE  EchoesStay
            <4> DEFINE new == [mac |-> m, name |-> name, declined |-> FALSE, cut |-> TRUE]
            <4>1. /\ leases' = [leases EXCEPT ![tab[t].ip] = new] /\ seenLeases' = leases'
                  /\ new.cut
                BY <3>2 DEF SaveLease, Commanded
            <4> HIDE DEF new
            <4> QED BY <4>1 DEF NameInv, TypeOK, LeaseTables
        <3>3. CASE Wipe(t)
            BY <3>3 DEF Wipe, Commanded
        <3>4. ASSUME NEW e, ClearNext(t, e) 
              PROVE  EchoesStay
            BY <3>4 DEF ClearNext, NameInv, TypeOK, LeaseTables
        <3>5. ASSUME UNCHANGED <<leases, seenLeases>> 
              PROVE  EchoesStay
            BY <3>5 DEF NameInv
        <3>6. CASE (\E ip \in Hosts : OpenLease(t, ip)) \/ \E ips : Clear(t, ips)
            BY <3>5, <3>6 DEF OpenLease, Clear, Open, network
        <3> QED BY <1>8, <3>1, <3>2, <3>3, <3>4, <3>6 DEF Leasing
    <2> QED BY <2>1, <2>2, <2>4, NameFrame
<1>9. CASE UNCHANGED vars
    <2>1. /\ MayEcho' = MayEcho /\ \A s \in Tabs : Bases(s)' = Bases(s)
          /\ Masked(config)' = Masked(config) /\ Masked(seenConfig)' = Masked(seenConfig)
        BY <1>9 DEF vars, MayEcho, Masked, Bases
    <2> QED BY <1>9, <2>1 DEF vars, NameInv
<1>10. \A t \in Acting : t \in Tabs
    BY AddressBookAssumption DEF Acting
<1> QED BY <1>1, <1>2, <1>3, <1>4, <1>6, <1>7, <1>8, <1>9, <1>10, <1>11 DEF Next, Editing, Session

\* What is shown as a device's name is one.
LEMMA NameSafe == TypeOK /\ NameInv => RealNamesAreReal
<1> SUFFICES ASSUME TypeOK, NameInv, NEW ip \in Leased(seenLeases) PROVE
        LET lease == seenLeases[ip]
            overrides == {r \in seenConfig.reservations : r.hostname}
        IN  /\ RealHostname(seenLeases, ip, OverrideSets(seenConfig)) = Echo =>
                  lease.mac \in unmasked \cup byHand \/ lease.cut
            /\ lease.name = lease.mac /\ (\A r \in overrides : r.mac # lease.mac /\ r.ip # ip) =>
                  lease.mac \in DistinctRealHostnames(seenLeases, seenConfig)
    BY DEF RealNamesAreReal
<1> DEFINE lease == seenLeases[ip]
           sets == OverrideSets(seenConfig)
<1>1. ip \in Hosts /\ lease # NoLease /\ lease \in LeaseRecords
    BY DEF Leased, TypeOK, LeaseTables
<1>2. sets.macs = Masked(seenConfig)
    BY DEF OverrideSets, Masked
<1>3. ASSUME RealHostname(seenLeases, ip, sets) = Echo
      PROVE  lease.mac \in unmasked \cup byHand \/ lease.cut
    <2>1. lease.name = Echo /\ lease.mac \notin Masked(seenConfig)
        BY <1>2, <1>3, AbsenceFacts DEF RealHostname
    <2>2. lease.mac \in Masked(config) \cup unmasked \/ lease.cut
        BY <1>1, <2>1 DEF NameInv, MayEcho
    <2> QED BY <2>1, <2>2 DEF NameInv
<1>4. ASSUME lease.name = lease.mac,
             \A r \in seenConfig.reservations : r.hostname => r.mac # lease.mac /\ r.ip # ip
      PROVE  lease.mac \in DistinctRealHostnames(seenLeases, seenConfig)
    <2>1. lease.mac \in Macs /\ lease.mac # NoName
        BY <1>1, <1>4, AbsenceFacts DEF LeaseRecords
    <2>2. ip \notin sets.ips /\ lease.mac \notin sets.macs
        BY <1>4 DEF OverrideSets
    <2>3. RealHostname(seenLeases, ip, sets) = lease.mac
        BY <1>4, <2>2 DEF RealHostname
    <2> QED BY <2>1, <2>3 DEF DistinctRealHostnames
<1> QED BY <1>3, <1>4

-----------------------------------------------------------------------------
(* Labels and reservations *)

\* A reservation without a label is one made by hand at first.
LEMMA LabelInit == Init => LabelInv
BY DEF Init, LabelInv, Owes, Idle

\* What other sessions owe, in the words of the invariant.
LEMMA PendingFacts ==
    ASSUME NEW t \in Tabs, NEW m
    PROVE  m \in Pending(t) <=> \E s \in Tabs \ {t} : Owes(s, m)
BY DEF Pending, Owes

\* A session that has no label to write does something else.
LEMMA LabelFrame ==
    ASSUME LabelInv, UNCHANGED <<config, labels, unlabelled, upset>>, NEW t \in Tabs, Others(t),
           tab[t].at # "label", tab'[t].at # "label"
    PROVE  LabelInv'
<1>1. \A s \in Tabs, m \in Macs : Owes(s, m)' <=> Owes(s, m)
    BY DEF Owes, Others
<1>2. \A s \in Tabs, m \in Macs : Owes(s, m) => tab'[s] = tab[s]
    BY DEF Owes, Others
<1>3. ReservedMacs(config)' = ReservedMacs(config)
    BY DEF ReservedMacs
<1> QED BY <1>1, <1>2, <1>3 DEF LabelInv

\* A configuration was stored by a session that owed nothing: it owes the labels
\* of what it meant to change, or those MACs are upset.
LEMMA StoredLabels ==
    ASSUME TypeOK, LabelInv, NEW t \in Tabs, NEW c \in Configs, NEW drop \in SUBSET Macs,
           NEW put \in SUBSET Macs, NEW spoilt, drop \cap put = {}, labels' = labels,
           Stored(t, c, drop, put, spoilt), tab[t].at # "label", Others(t),
           \/ tab'[t].at = "label" /\ tab'[t].drop = drop /\ tab'[t].put = put
           \/ tab'[t].at # "label" /\ drop \cup put \subseteq spoilt
    PROVE  LabelInv'
<1>1. /\ config' = c
      /\ \A m \in Macs \ upset' :
            /\ m \notin upset /\ m \notin spoilt
            /\ m \in drop \cup put => m \notin Pending(t)
            /\ m \in ReservedMacs(c) <=> m \in (ReservedMacs(config) \ drop) \cup put
      /\ unlabelled' = unlabelled \cap ReservedMacs(c)
    BY DEF Stored
<1>2. ReservedMacs(config)' = ReservedMacs(c)
    BY <1>1 DEF ReservedMacs
<1>3. \A s \in Tabs \ {t}, m \in Macs : Owes(s, m)' <=> Owes(s, m)
    BY DEF Owes, Others
<1>4. \A m \in Macs : ~Owes(t, m)
    BY DEF Owes
<1>5. \A m \in Macs \ upset' : Owes(t, m)' <=> m \in drop \cup put
    BY <1>1 DEF Owes
<1>6. ASSUME NEW m \in Macs \ upset', \A s \in Tabs : ~Owes(s, m)'
      PROVE  /\ m \in labels' => m \in ReservedMacs(config)'
             /\ m \in ReservedMacs(config)' => m \in labels' \cup unlabelled'
    <2>1. m \notin drop \cup put /\ \A s \in Tabs : ~Owes(s, m)
        BY <1>3, <1>4, <1>5, <1>6
    <2> QED BY <1>1, <1>2, <2>1 DEF LabelInv
<1>7. ASSUME NEW s \in Tabs, NEW m \in Macs \ upset', Owes(s, m)'
      PROVE  /\ m \in tab'[s].put => m \in ReservedMacs(config)'
             /\ m \in ReservedMacs(config)' => m \in tab'[s].put \cup unlabelled'
             /\ m \in tab'[s].put <=> m \notin tab'[s].drop
             /\ \A u \in Tabs \ {s} : ~Owes(u, m)'
    <2>1. CASE s = t
        <3>1. m \in drop \cup put /\ tab'[t].put = put /\ tab'[t].drop = drop
            BY <1>5, <1>7, <2>1 DEF Owes
        <3>2. \A u \in Tabs \ {t} : ~Owes(u, m)'
            BY <1>1, <1>3, <3>1, PendingFacts
        <3> QED BY <1>1, <1>2, <2>1, <3>1, <3>2
    <2>2. CASE s # t
        <3>1. Owes(s, m) /\ tab'[s] = tab[s]
            BY <1>3, <1>7, <2>2 DEF Others
        <3>2. m \notin drop \cup put
            BY <1>1, <2>2, <3>1, PendingFacts
        <3>3. ~Owes(t, m)'
            BY <1>5, <3>2
        <3> QED BY <1>1, <1>2, <1>3, <2>2, <3>1, <3>2, <3>3 DEF LabelInv
    <2> QED BY <2>1, <2>2
<1> QED BY <1>6, <1>7 DEF LabelInv

\* The label statements of a session were run, or one of them failed.
LEMMA LabelsWritten ==
    ASSUME TypeOK, LabelInv, NEW t \in Tabs, WriteLabels(t) \/ LabelsFailed(t)
    PROVE  LabelInv'
<1> DEFINE drop == tab[t].drop
           put == tab[t].put
<1>1. tab[t].at = "label" /\ tab[t] \in LabelSteps
    BY DialogKinds DEF TypeOK, WriteLabels, LabelsFailed
<1>2. /\ config' = config /\ Others(t) /\ tab'[t] \in {Idle, tab[t].back}
    BY TurnFacts DEF WriteLabels, LabelsFailed, kea
<1>3. tab'[t].at # "label"
    BY <1>1, <1>2 DEF LabelSteps, AddDialogs, EditDialogs, Idle
<1>4. ReservedMacs(config)' = ReservedMacs(config)
    BY <1>2 DEF ReservedMacs
<1>5. /\ \A s \in Tabs \ {t}, m \in Macs : Owes(s, m)' <=> Owes(s, m)
      /\ \A m \in Macs : ~Owes(t, m)'
      /\ \A m \in Macs : Owes(t, m) <=> m \in drop \cup put
    BY <1>1, <1>2, <1>3 DEF Owes, Others
<1>6. ASSUME NEW m \in Macs \ upset', NEW s \in Tabs \ {t}, Owes(s, m)
      PROVE  m \notin upset
    <2>1. m \in Pending(t)
        BY <1>6, PendingFacts
    <2> QED BY <1>6, <2>1 DEF WriteLabels, LabelsFailed
<1>7. ASSUME NEW m \in Macs \ upset', \A s \in Tabs : ~Owes(s, m)'
      PROVE  /\ m \in labels' => m \in ReservedMacs(config)
             /\ m \in ReservedMacs(config) => m \in labels' \cup unlabelled'
    <2>1. CASE m \in drop \cup put
        <3>1. WriteLabels(t)
            BY <1>7, <2>1 DEF LabelsFailed
        <3>2. labels' = (labels \ drop) \cup put /\ unlabelled' = unlabelled \ put
            BY <3>1 DEF WriteLabels
        <3>3. CASE m \in upset
            BY <1>7, <3>1, <3>3 DEF WriteLabels
        <3>4. CASE m \notin upset
            BY <1>5, <2>1, <3>2, <3>4 DEF LabelInv
        <3> QED BY <3>3, <3>4
    <2>2. CASE m \notin drop \cup put
        <3>1. (m \in labels' <=> m \in labels) /\ (m \in unlabelled' <=> m \in unlabelled)
            BY <2>2 DEF WriteLabels, LabelsFailed
        <3>2. m \notin upset /\ \A s \in Tabs : ~Owes(s, m)
            BY <1>5, <1>7, <2>2 DEF WriteLabels, LabelsFailed
        <3> QED BY <3>1, <3>2 DEF LabelInv
    <2> QED BY <2>1, <2>2
<1>8. ASSUME NEW s \in Tabs, NEW m \in Macs \ upset', Owes(s, m)'
      PROVE  /\ m \in tab'[s].put => m \in ReservedMacs(config)
             /\ m \in ReservedMacs(config) => m \in tab'[s].put \cup unlabelled'
             /\ m \in tab'[s].put <=> m \notin tab'[s].drop
             /\ \A u \in Tabs \ {s} : ~Owes(u, m)'
    <2>1. s # t /\ Owes(s, m) /\ tab'[s] = tab[s] /\ m \notin upset
        BY <1>2, <1>5, <1>6, <1>8 DEF Others
    <2>2. m \notin put
        BY <1>5, <1>8, <2>1 DEF LabelInv
    <2>3. m \in unlabelled' <=> m \in unlabelled
        BY <2>2 DEF WriteLabels, LabelsFailed
    <2> QED BY <1>5, <2>1, <2>3 DEF LabelInv
<1> QED BY <1>4, <1>7, <1>8 DEF LabelInv

\* Every step keeps labels and reservations together, or says of which MACs not.
LEMMA LabelNext == TypeOK /\ LabelInv /\ [Next]_vars => LabelInv'
<1> SUFFICES ASSUME TypeOK, LabelInv, [Next]_vars PROVE LabelInv'
    OBVIOUS
<1>1. CASE Network \/ LoadLeases \/ LoadConfig \/ UNCHANGED vars
    <2>1. UNCHANGED <<config, labels, unlabelled, upset, tab>>
        BY <1>1, NetworkFrame DEF LoadLeases, LoadConfig, kea, records, vars
    <2>2. ReservedMacs(config)' = ReservedMacs(config) /\ \A s \in Tabs, m \in Macs : Owes(s, m)' <=> Owes(s, m)
        BY <2>1 DEF ReservedMacs, Owes
    <2> QED BY <2>1, <2>2 DEF LabelInv
<1>6. ASSUME NEW m \in Macs, Deny(m) \/ EditByHand(m) PROVE LabelInv'
    <2>1. /\ UNCHANGED <<labels, upset, tab>>
          /\ ReservedMacs(config') = ReservedMacs(config) \cup {m}
          /\ unlabelled' = IF m \in ReservedMacs(config) THEN unlabelled ELSE unlabelled \cup {m}
        BY <1>6, EditingFacts
    <2>2. ReservedMacs(config)' = ReservedMacs(config')
        BY DEF ReservedMacs
    <2>3. \A s \in Tabs, n \in Macs : Owes(s, n)' <=> Owes(s, n)
        BY <2>1 DEF Owes
    <2> QED BY <2>1, <2>2, <2>3 DEF LabelInv
<1>2. ASSUME NEW t \in Tabs, Cancel(t) \/ Leasing(t) PROVE LabelInv'
    BY <1>2, CancelFrame, LeasingFrame, LabelFrame DEF kea, records, Idle
<1>3. ASSUME NEW t \in Tabs, Recording(t) PROVE LabelInv'
    <2>1. /\ labels' = labels /\ Others(t) /\ tab[t].at # "label" /\ tab'[t].at # "label"
        BY <1>3, RecordingFrame
    <2>2. ASSUME NEW pool \in Pools, SavePool(t, pool) PROVE LabelInv'
        <3> DEFINE c == [seenConfig EXCEPT !.pool = pool]
        <3>1. c \in Configs /\ Stored(t, c, {}, {}, {})
            BY <2>2 DEF SavePool, TypeOK, Configs
        <3> HIDE DEF c
        <3> QED BY <2>1, <3>1, StoredLabels
    <2>3. CASE (\E ip \in Editable : OpenStatic(t, ip)) \/ SaveStatic(t) \/ DeleteStatic(t)
        BY <2>1, <2>3, LabelFrame DEF OpenStatic, Open, SaveStatic, DeleteStatic, kea, records
    <2> QED BY <1>3, <2>2, <2>3 DEF Recording
<1>4. ASSUME NEW t \in Tabs, Reserving(t) PROVE LabelInv'
    <2>1. Others(t)
        BY <1>4, ReservingFrame
    <2>2. CASE Saving(t)
        <3>1. PICK c \in Configs, drop \in SUBSET Macs, put \in SUBSET Macs,
                   undone \in FormDialogs, done \in FormDialogs :
                       SavesFrom(t, c, drop, put, undone, done)
            BY <2>2, Saves
        <3>2. \A d \in FormDialogs : d.at # "label"
            BY DEF FormDialogs, AddDialogs, EditDialogs
        <3>3. tab[t].at # "label" /\ labels' = labels /\ drop \cap put = {}
            BY <3>1, <3>2 DEF SavesFrom, Save
        <3>4. CASE Stored(t, c, drop, put, {}) /\ Turn(t, Labelling(drop, put, done))
            <4>1. tab'[t].at = "label" /\ tab'[t].drop = drop /\ tab'[t].put = put
                BY <3>4, TurnFacts DEF Labelling
            <4> QED BY <2>1, <3>1, <3>3, <3>4, <4>1, StoredLabels
        <3>5. CASE (\E d \in {undone, done} : Turn(t, d)) /\ UNCHANGED <<config, unlabelled, upset>>
            BY <2>1, <3>1, <3>2, <3>3, <3>5, TurnFacts, LabelFrame
        <3>6. CASE Stored(t, c, drop, put, drop \cup put) /\ \E d \in {undone, done} : Turn(t, d)
            <4>1. tab'[t].at # "label"
                BY <3>1, <3>2, <3>6, TurnFacts
            <4> QED BY <2>1, <3>1, <3>3, <3>6, <4>1, StoredLabels
        <3> QED BY <3>1, <3>4, <3>5, <3>6 DEF SavesFrom, Save, kea
    <2>3. CASE OpenAdd(t) \/ \E r \in seenConfig.reservations : OpenEdit(t, r)
        <3>1. \E d : Open(t, d) /\ d.at # "label"
            <4>1. CASE OpenAdd(t)
                <5>1. Open(t, [at |-> "add", base |-> seenConfig])
                    BY <4>1 DEF OpenAdd
                <5> QED BY <5>1
            <4>2. CASE \E r \in seenConfig.reservations : OpenEdit(t, r)
                <5>1. PICK r : Open(t, [at |-> "edit", base |-> seenConfig, of |-> r, linked |-> TRUE])
                    BY <4>2 DEF OpenEdit
                <5> QED BY <5>1
            <4> QED BY <2>3, <4>1, <4>2
        <3>2. /\ tab[t].at # "label" /\ tab'[t].at # "label" /\ UNCHANGED <<config, labels, unlabelled, upset>>
            BY <3>1, TurnFacts DEF Open, Idle, kea, records
        <3> QED BY <2>1, <3>2, LabelFrame
    <2>4. CASE WriteLabels(t) \/ LabelsFailed(t)
        BY <2>4, LabelsWritten
    <2>5. \A ip : ip \in {NoIp} \cup (IF "pin" \in scenario THEN Pinned ELSE {})
                  => ip \in {NoIp} \cup Pinned
        OBVIOUS
    <2> QED BY <1>4, <2>2, <2>3, <2>4, <2>5 DEF Reserving, Saving
<1>5. \A t \in Acting : t \in Tabs
    BY AddressBookAssumption DEF Acting
<1> QED BY <1>1, <1>2, <1>3, <1>4, <1>5, <1>6 DEF Next, Editing, Session

\* The first part of the invariant is the property.
LEMMA LabelSafe == LabelInv => LabelsFollowReservations
BY DEF LabelInv, LabelsFollowReservations, Owes

-----------------------------------------------------------------------------
(* Together with the probe *)

\* The probe rests at first.
LEMMA ProbeInit == InitAll => Probe!TypeOK
BY DEF InitAll, Probe!Init, Probe!TypeOK, Found

\* The pass has a next device as long as devices are left.
LEMMA MinFacts ==
    ASSUME NEW S \in SUBSET Nat, S # {}
    PROVE  Probe!Min(S) \in S
<1>1. PICK x \in S : \A y \in S : <<y, x>> \notin OpToRel(<, Nat)
    BY NatLessThanWellFounded, WFMin
<1>2. \A y \in S : ~(y < x)
    BY <1>1, Zenon DEF OpToRel
<1>3. \A y \in S : x <= y
    BY <1>2
<1> QED BY <1>3 DEF Probe!Min

\* The probe only visits devices.
LEMMA ProbeNext == TypesOK /\ [NextAll]_allVars => Probe!TypeOK'
<1> SUFFICES ASSUME TypesOK, [NextAll]_allVars PROVE Probe!TypeOK'
    OBVIOUS
<1>1. (Found \subseteq Macs)'
    BY DEF Found
<1>2. CASE UNCHANGED probeVars
    BY <1>1, <1>2 DEF probeVars, TypesOK, Probe!TypeOK
<1>3. CASE ProbeLoop
    <2>1. todo # {} => Probe!Min(todo) \in Macs
        BY MinFacts, ProbeAssumption DEF TypesOK, Probe!TypeOK
    <2> QED BY <1>1, <1>3, <2>1 DEF ProbeLoop, TypesOK, Probe!TypeOK, Probe!Loop, Probe!StartPass,
               Probe!EndPass, Probe!LookUp, Probe!Probe, Probe!ProbeRaises, Probe!networkVars
<1>4. CASE ProbeChange
    BY <1>1, <1>4 DEF ProbeChange, TypesOK, Probe!TypeOK, Probe!Change
<1> QED BY <1>2, <1>3, <1>4 DEF NextAll, allVars

\* The probe only looks.
LEMMA BookSteps == [NextAll]_allVars => [Next]_vars
BY DEF NextAll, allVars, ProbeLoop, ProbeChange

Inv == TypesOK /\ LabelInv /\ NameInv /\ HolderInv /\ OfferInv

\* Together they are inductive.
LEMMA Invariant == FairSpec => []Inv
<1>1. InitAll => Inv
    BY TypeInit, ProbeInit, LabelInit, NameInit, HolderInit, OfferInit DEF InitAll, Inv, TypesOK
<1>2. Inv /\ [NextAll]_allVars => Inv'
    BY BookSteps, TypeNext, ProbeNext, LabelNext, NameNext, HolderNext, OfferNext DEF Inv, TypesOK
<1> QED BY <1>1, <1>2, PTL DEF FairSpec

-----------------------------------------------------------------------------
(* The theorems *)

\* Every variable keeps its kind, the probe's beside the address book's.
THEOREM TypeCorrect == FairSpec => []TypesOK
BY Invariant, PTL DEF Inv

\* ui_reservations.py's labels stay with Kea's reservations, apart from the MACs
\* whose save and label did not both go as meant; a reservation without one was made
\* by hand or by a quarantine.
THEOREM LabelsFollow == FairSpec => []LabelsFollowReservations
<1>1. Inv => LabelsFollowReservations
    BY LabelSafe DEF Inv
<1> QED BY <1>1, Invariant, PTL

\* helpers.real_hostname shows no echo of a reservation that still has its
\* hostname, and every device's own name, whatever the ages of the two copies, but
\* for hostnames added by hand under an older copy and leases saved by hand.
THEOREM NamesAreReal == FairSpec => []RealNamesAreReal
<1>1. Inv => RealNamesAreReal
    BY NameSafe DEF Inv, TypesOK
<1> QED BY <1>1, Invariant, PTL

\* No two devices use one address unless an admin took a lease from under one.
THEOREM NoAddressTwice == FairSpec => []OneDevicePerAddress
<1>1. Inv => OneDevicePerAddress
    BY HolderSafe DEF Inv, TypesOK
<1> QED BY <1>1, Invariant, PTL

\* An address that ui_ipam.py's map offers is nobody's, with the exceptions the
\* property names.
THEOREM OffersAreFree == FairSpec => []OfferedMeansFree
<1>1. Inv => OfferedMeansFree
    BY OfferSafe DEF Inv, TypesOK
<1> QED BY <1>1, Invariant, PTL
=============================================================================
