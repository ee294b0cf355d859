------------------------ MODULE AddressBookAndProbe ------------------------
(***************************************************************************)
(* The address book together with the presence probe of the quarantine     *)
(* service, which asks Kea for the leases of each registered hostname: the *)
(* leases that devices get, admins edit or wipe and reservations rename    *)
(* are the ones it finds or does not find.                                 *)
(***************************************************************************)
EXTENDS AddressBook

CONSTANT Broken     \* devices whose probe raises something unexpected

\* Devices are numbered in the alphabetical order of their names.
ASSUME ProbeAssumption == Macs \subseteq Nat /\ Broken \subseteq Macs

VARIABLES
    registered,     \* device_registry
    answers,        \* whether Kea answers the probe
    todo,           \* devices the pass still has to probe
    turn,           \* where the probe loop is
    visited         \* history: the device it looked at last

probeVars == <<registered, answers, todo, turn, visited>>
allVars == <<vars, probeVars>>

\* get_leases_by_hostname finds a device by the name it gave Kea itself: not
\* under the hostname of a reservation, nor under one an admin typed.
Found == {m \in Macs : \E ip \in Leased(leases) : leases[ip].name = m}

Probe == INSTANCE PresenceCheck WITH Names <- Macs, leased <- Found, kea <- answers, pc <- turn

TypesOK == TypeOK /\ Probe!TypeOK

InitAll ==
    /\ Init
    /\ Probe!Init
    /\ "presence" \notin scenario => registered = {}

ProbeLoop == "presence" \in scenario /\ UNCHANGED vars /\ Probe!Loop
ProbeChange == "presence" \in scenario /\ UNCHANGED vars /\ Probe!Change

NextAll ==
    \/ Next /\ UNCHANGED probeVars
    \/ ProbeLoop
    \/ ProbeChange

\* The thread is a daemon that runs as long as the process does.
FairSpec == InitAll /\ [][NextAll]_allVars /\ WF_allVars(ProbeLoop)

-----------------------------------------------------------------------------
(* Properties *)

\* presence_check.py:61-64, "one bad device never kills the loop for every other
\* device", for the devices up to the first bad one, whatever happens to their
\* leases and their names in Kea, while its calls do not time out.
PrecedingDevicesKeepTheirTurn == Probe!PrecedingDevicesKeepTheirTurn
=============================================================================
