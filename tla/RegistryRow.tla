----------------------------- MODULE RegistryRow -----------------------------
(***************************************************************************)
(* One row of the device_registry table, and what each writer of the       *)
(* program makes of the row it read.  upsert_device overwrites every       *)
(* column, so a writer that means to change one column passes the others   *)
(* through from the row it read before.  group_tag and notes are edited    *)
(* and passed through exactly as hostname is and are left out, as is the   *)
(* IP address, which is written beside the MAC address and never empty; a  *)
(* time stamp is whether it was ever written.                              *)
(***************************************************************************)
CONSTANTS
    Hostnames,      \* hostnames an admin can enter
    Addresses,      \* MAC addresses of leases
    Fingerprints,   \* conclusive nmap results
    Blank,          \* the empty string of a TEXT column
    NoRow           \* no such row (None)

ASSUME RowAssumption ==
    /\ Blank \notin Addresses \cup Fingerprints
    /\ NoRow \notin [hostname : Hostnames,
                     os_fingerprint : Fingerprints \cup {Blank},
                     last_seen_address : Addresses \cup {Blank},
                     last_seen_at : BOOLEAN,
                     last_quarantined_at : BOOLEAN,
                     is_quarantined : BOOLEAN]

Rows == [hostname : Hostnames,
         os_fingerprint : Fingerprints \cup {Blank},
         last_seen_address : Addresses \cup {Blank},
         last_seen_at : BOOLEAN,
         last_quarantined_at : BOOLEAN,
         is_quarantined : BOOLEAN]

\* The row the Add dialog saves, whatever the table holds under the name.
NewRow(hostname) ==
    [hostname |-> hostname,
     os_fingerprint |-> Blank,
     last_seen_address |-> Blank,
     last_seen_at |-> FALSE,
     last_quarantined_at |-> FALSE,
     is_quarantined |-> FALSE]

\* _edit_dialog: the hostname from the form, the rest from the row.
Edited(row, hostname) == [row EXCEPT !.hostname = hostname]

\* touch_last_seen: the device answered an ARP probe at this address; a
\* lease without a hardware address leaves the one of the row.
Touched(row, address) ==
    [row EXCEPT !.last_seen_address = IF address = Blank THEN @ ELSE address,
                !.last_seen_at = TRUE]

\* Mutant of Refreshed: is_quarantined is left at its default.
RefreshedUnflags(row, address) ==
    [row EXCEPT !.last_seen_address = address, !.is_quarantined = FALSE]

\* _refresh_last_seen: the address of the lease a request resolved.
Refreshed(row, address) == [row EXCEPT !.last_seen_address = address]

\* Mutant of Fingerprinted: two arguments of upsert_device swapped.
FingerprintedSwapped(row, fingerprint) ==
    [row EXCEPT !.os_fingerprint = row.last_seen_address,
                !.last_seen_address = fingerprint]

\* _persist_fingerprint: a conclusive scan.
Fingerprinted(row, fingerprint) == [row EXCEPT !.os_fingerprint = fingerprint]

\* Mutant of Stamped: the time is passed through.
StampedWithoutTime(row, action) ==
    [row EXCEPT !.is_quarantined = (action = "quarantine")]

\* _stamp_quarantine_state: the direction of the request, and the time of it
\* for a quarantine only.
Stamped(row, action) ==
    [row EXCEPT !.is_quarantined = (action = "quarantine"),
                !.last_quarantined_at = @ \/ action = "quarantine"]
=============================================================================
