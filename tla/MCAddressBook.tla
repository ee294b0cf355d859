---------------------------- MODULE MCAddressBook ----------------------------
(***************************************************************************)
(* AddressBookAndProbe on a subnet of two addresses besides the gateway,   *)
(* with two devices and two sessions.                                      *)
(***************************************************************************)
EXTENDS AddressBookAndProbe

CONSTANTS t1, t2

TwoTabs == {t1, t2}
TwoMacs == {1, 2}
\* The larger scope covers both addresses.
TwoPools == {{2}, {2, 3}}

\* Labels beside reservations; names under overrides; leases under devices; both
\* kinds of dialog; static records under a moving scope; the probe.
Days ==
    {{"reserve", "tabs", "trouble"}, {"reserve", "tabs", "quarantine"},
     {"reserve", "pin", "dhcp", "decline"}, {"reserve", "hand", "dhcp", "narrow"},
     {"reserve", "lease", "dhcp", "narrow"}, {"hand", "lease", "dhcp", "narrow"},
     {"lease", "clear", "dhcp", "decline", "trouble"},
     {"static", "settings", "dhcp", "decline", "tabs"},
     {"reserve", "static", "pin"}, {"presence", "dhcp"}}
=============================================================================
