----------------------------- MODULE LeaseViews -----------------------------
(***************************************************************************)
(* What the dashboard makes of the leases and the reservations it loaded:  *)
(* helpers.py (which of the names Kea holds are the devices' own) and      *)
(* ui_ipam.py (what each address of the subnet is).  The operators are     *)
(* pure.  A lease is looked up by its address; a reservation names a MAC   *)
(* and may pin an address.  A name is what the properties tell apart: the  *)
(* device's own (written as its MAC), the echo of a reservation's          *)
(* "hostname", one an admin typed into a lease, or none.                   *)
(***************************************************************************)
EXTENDS Naturals, FiniteSets

CONSTANTS
    Macs,           \* devices
    LastOctet,      \* the broadcast address; 0 is the network's
    Gateway,        \* data of the option "routers"
    Pinned,         \* addresses admins pin to reservations
    Pools,          \* ranges that may be the DHCP scope, as sets of octets
    NoMac, NoLease, NoName, Echo, Typed

Octets == 0..LastOctet
Hosts == Octets \ {0, LastOctet, Gateway}
NoIp == 0           \* a reservation that pins no address
Names == Macs \cup {Echo, Typed, NoName}
\* cut: Kea's copy of the lease may end before the device's.
LeaseRecords == [mac : Macs \cup {NoMac}, name : Names, declined : BOOLEAN, cut : BOOLEAN]

ASSUME LeaseViewsAssumption ==
    /\ LastOctet \in Nat \ {0} /\ Gateway \in 1..(LastOctet - 1)
    /\ Pinned \subseteq Hosts /\ Pools \subseteq SUBSET Hosts
    /\ NoName # Echo /\ NoName # Typed /\ Echo # Typed
    /\ Macs \cap {NoName, Echo, Typed} = {} /\ NoMac \notin Names
    /\ NoLease \notin LeaseRecords

LeaseTables == [Hosts -> LeaseRecords \cup {NoLease}]
\* hostname: the reservation carries a non-empty one.
Reservations == [mac : Macs, ip : Pinned \cup {NoIp}, hostname : BOOLEAN]
Configs == [reservations : SUBSET Reservations, pool : Pools]

Leased(leases) == {ip \in Hosts : leases[ip] # NoLease}
ReservedMacs(config) == {r.mac : r \in config.reservations}
ReservedIps(config) == {r.ip : r \in config.reservations} \ {NoIp}

-----------------------------------------------------------------------------
(* Real names and labels *)

\* Mutant of OverrideSets: config-get gives every reservation the key.
OverrideSetsByKey(config) ==
    [ips |-> ReservedIps(config), macs |-> ReservedMacs(config)]

\* Mutant of OverrideSets: MACs of reservations without an address only, as
\* build_reservation_type_sets has them.
OverrideSetsUnpinned(config) ==
    LET overriding == {r \in config.reservations : r.hostname}
    IN  [ips |-> {r.ip : r \in overriding} \ {NoIp},
         macs |-> {r.mac : r \in {o \in overriding : o.ip = NoIp}}]

\* build_hostname_override_sets
OverrideSets(config) ==
    LET overriding == {r \in config.reservations : r.hostname}
    IN  [ips |-> {r.ip : r \in overriding} \ {NoIp}, macs |-> {r.mac : r \in overriding}]

\* real_hostname of the lease at ip.
RealHostname(leases, ip, overrides) ==
    IF ip \in overrides.ips \/ leases[ip].mac \in overrides.macs
    THEN NoName
    ELSE leases[ip].name

\* distinct_real_hostnames: what the picker of the Add Device dialog offers.
DistinctRealHostnames(leases, config) ==
    {RealHostname(leases, ip, OverrideSets(config)) : ip \in Leased(leases)} \ {NoName}

-----------------------------------------------------------------------------
(* The address map *)

\* Mutant of StatusOf: only active leases are looked up.
StatusOfActive(ip, leases, config, static) ==
    CASE ip = Gateway -> "gateway"
      [] ip # Gateway /\ ip \in Leased(leases) /\ ~leases[ip].declined ->
            IF ip \in ReservedIps(config) THEN "reserved" ELSE "leased"
      [] OTHER ->
            IF ip \in ReservedIps(config) THEN "reserved"
            ELSE IF ip \in static THEN "static"
            ELSE IF ip \in config.pool THEN "scope" ELSE "free"

\* _classify_all for one address: the first source that knows it decides.
StatusOf(ip, leases, config, static) ==
    LET taken == ip \in Leased(leases)
        pinned == ip \in ReservedIps(config)
    IN  CASE ip = 0 -> "network"
          [] ip = LastOctet -> "broadcast"
          [] ip = Gateway -> "gateway"
          [] ip \in Hosts /\ taken /\ leases[ip].declined -> "declined"
          [] ip \in Hosts /\ pinned /\ (taken => ~leases[ip].declined) -> "reserved"
          [] ip \in Hosts /\ ~pinned /\ taken /\ ~leases[ip].declined -> "leased"
          [] ip \in Hosts /\ ~pinned /\ ~taken ->
                IF ip \in static THEN "static"
                ELSE IF ip \in config.pool THEN "scope" ELSE "free"

\* _classify_all: the map, as the addresses of each status.
MapOf(leases, config, static) ==
    [ip \in Octets |-> StatusOf(ip, leases, config, static)]
=============================================================================
