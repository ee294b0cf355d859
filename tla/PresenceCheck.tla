--------------------------- MODULE PresenceCheck ---------------------------
(***************************************************************************)
(* The background presence probe: quarantine_service/presence_check.py.    *)
(* One thread probes every registered device in the order of its name, and *)
(* rests.  The registry and Kea's answers change meanwhile; which devices  *)
(* have a lease is up to the module this one is composed with              *)
(* (AddressBookAndProbe).  How a stamp meets the other writers of a row is *)
(* DeviceRegistry's subject.                                               *)
(***************************************************************************)
EXTENDS Naturals, FiniteSetsExt

CONSTANTS
    Names,          \* friendly names, as numbers in their alphabetical order
    Broken          \* devices whose probe raises something other than KeaError

VARIABLES
    registered,     \* device_registry
    leased,         \* devices whose hostname Kea finds a lease for
    kea,            \* Kea answers, is down, or takes a call and does not answer
    todo,           \* devices the pass still has to probe, a snapshot
    pc,             \* "rest", "next" or what happens to the device probed
    visited         \* history: the device the last step looked at, or 0

networkVars == <<registered, kea>>
vars == <<registered, kea, todo, pc, visited>>

TypeOK ==
    /\ registered \subseteq Names /\ leased \subseteq Names /\ kea \in {"up", "down", "hangs"}
    /\ todo \subseteq Names
    /\ pc \in {"rest", "next", "probe"}
    /\ visited \in Names \cup {0}

Init ==
    /\ registered \in SUBSET Names /\ kea = "up"
    /\ todo = {} /\ pc = "rest" /\ visited = 0

\* Mutant of StartPass: positions in the list taken for names, off by one.
StartPassShifted ==
    /\ pc = "rest"
    /\ todo' = {d + 1 : d \in registered}
    /\ pc' = "next"
    /\ visited' = 0
    /\ UNCHANGED networkVars

\* _run_one_pass takes its list of devices.
StartPass ==
    /\ pc = "rest"
    /\ todo' = registered
    /\ pc' = "next"
    /\ visited' = 0
    /\ UNCHANGED networkVars

\* The list is done; the loop waits.
EndPass ==
    /\ pc = "next" /\ todo = {}
    /\ pc' = "rest"
    /\ visited' = 0
    /\ UNCHANGED <<networkVars, todo>>

\* probe_device_now up to the probe: no row, no connection to Kea (a KeaError)
\* and no lease each end it for this device alone.  A call that times out raises
\* something else, which leaves _run_one_pass.
LookUp ==
    /\ pc = "next" /\ todo # {}
    /\ LET d == Min(todo)
       IN  /\ visited' = d
           /\ \/ /\ d \in registered /\ kea = "up" /\ d \in leased
                 /\ pc' = "probe" /\ UNCHANGED todo
              \/ /\ d \notin registered \/ kea = "down" \/ (kea = "up" /\ d \notin leased)
                 /\ todo' = todo \ {d} /\ UNCHANGED pc
              \/ /\ d \in registered /\ kea = "hangs"
                 /\ pc' = "rest" /\ todo' = {}
    /\ UNCHANGED networkVars

\* The ARP request, and touch_last_seen if it was answered.
Probe ==
    /\ pc = "probe"
    /\ Min(todo) \notin Broken
    /\ pc' = "next"
    /\ todo' = todo \ {Min(todo)}
    /\ UNCHANGED <<networkVars, visited>>

\* Mutant of ProbeRaises: the device is tried again on the spot.
ProbeRaisesTryAgain ==
    /\ pc = "probe"
    /\ Min(todo) \in Broken
    /\ pc' = "next"
    /\ UNCHANGED <<networkVars, todo, visited>>

\* Anything but a KeaError leaves _run_one_pass; _loop logs it and rests.
ProbeRaises ==
    /\ pc = "probe"
    /\ Min(todo) \in Broken
    /\ pc' = "rest"
    /\ todo' = {}
    /\ UNCHANGED <<networkVars, visited>>

Loop == StartPass \/ EndPass \/ LookUp \/ Probe \/ ProbeRaises

\* Devices are added and deleted, Kea stops, hangs and returns.
Change ==
    /\ \/ /\ \E d \in Names : registered' \in {registered \cup {d}, registered \ {d}}
          /\ UNCHANGED kea
       \/ kea' \in {"up", "down", "hangs"} /\ UNCHANGED registered
    /\ UNCHANGED <<todo, pc, visited>>

-----------------------------------------------------------------------------
(* Properties *)

\* Nothing but a device itself can end its pass before its turn: Kea does not
\* hang, or the device is the first.
Undelayed(d) == kea # "hangs" \/ \A e \in registered : d <= e

KeptProbed(d) == <>[](d \in registered /\ Undelayed(d)) => []<>(visited = d)

\* presence_check.py:61-64: one bad device does not kill the loop "for every
\* other device".  A device that stays registered is looked at again and again,
\* whatever fails for the devices after it, as soon as Kea has stopped hanging, and
\* the first one even while it hangs; the devices after a broken one are not.
PrecedingDevicesKeepTheirTurn ==
    \A d \in Names : (\A b \in Broken : d <= b) => KeptProbed(d)
=============================================================================
