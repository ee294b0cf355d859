--------------------------- MODULE MCEnforcement ---------------------------
(***************************************************************************)
(* Enforcement on a small instance: a group of two devices that leave and  *)
(* come back, and one Pi-hole.                                             *)
(***************************************************************************)
EXTENDS Enforcement, TLC

CONSTANTS q1, d1, d2, mac1, mac2, ip1, ip2

OneRequest == {q1}
TwoDevices == {d1, d2}
ByName == <<d1, d2>>
\* The names of the two devices are alike, as "tommy_pc" and "Tommy-PC" are.
OtherSpellings == {"Family.", "Tommy PC."}
Normalized == [s \in TwoDevices \cup OtherSpellings |->
                  IF s = "Family." THEN "family" ELSE "tommypc"]
OnePihole == <<"pihole_primary">>
TwoLeases == {[device |-> d1, mac |-> mac1, ip |-> ip1],
              [device |-> d2, mac |-> mac2, ip |-> ip2]}

\* An admin deletes rows while scans may fail; or the parts of the system fail
\* one or two at a time.
Troubles ==
    {{"delete"}, {"nmap"}, {"kea", "pihole"}, {"arp", "pihole"}, {"database"}, {"restart"}}
=============================================================================
