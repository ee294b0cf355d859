--------------------------- MODULE DeviceRegistry ---------------------------
(***************************************************************************)
(* The device_registry table and everything that writes it: the quarantine *)
(* service (request threads and the presence loop) and the dashboard, two  *)
(* processes on one SQLite file.  Each statement is a transaction, but     *)
(* every writer except DELETE and the Add dialog reads a row in one        *)
(* statement and overwrites the whole row in another, so the row may       *)
(* change in between; the Add dialog overwrites it without reading it.     *)
(***************************************************************************)
EXTENDS RegistryRow

CONSTANTS
    Writers,    \* threads of the service and sessions of the dashboard
    Names       \* friendly names, the primary key

VARIABLES
    registry,   \* the table: the row of a name, or NoRow
    pc,         \* "idle" or the operation a writer is in the middle of
    snap,       \* what its SELECT returned
    key,        \* the friendly name it works on
    direction,  \* history: the last stamp of a name was a quarantine
    due         \* history: what a column was last given on purpose, for the
                \* columns no writer has overwritten since with an older value

writerVars == <<pc, snap, key>>
vars == <<registry, pc, snap, key, direction, due>>

Operations == {"edit", "touch", "refresh", "fingerprint", "quarantine", "release"}
Columns == {"hostname", "os_fingerprint", "last_seen_address", "last_seen_at",
            "last_quarantined_at", "is_quarantined"}

TypeOK ==
    /\ registry \in [Names -> Rows \cup {NoRow}]
    /\ pc \in [Writers -> Operations \cup {"idle"}]
    /\ snap \in [Writers -> Rows \cup {NoRow}]
    /\ key \in [Writers -> Names]
    /\ direction \in [Names -> BOOLEAN]
    /\ due = [n \in Names |-> due[n]]
    /\ \A n \in Names : DOMAIN due[n] \subseteq Columns

Nothing == [c \in {} |-> Blank]

Init ==
    /\ registry = [n \in Names |-> NoRow]
    /\ pc = [p \in Writers |-> "idle"]
    /\ snap = [p \in Writers |-> NoRow]
    /\ key \in [Writers -> Names]
    /\ direction = [n \in Names |-> FALSE]
    /\ due = [n \in Names |-> Nothing]

\* The SELECT every operation begins with: get_device, or get_devices for a
\* request that names a group.  All of them return when there is no row; the
\* dialog then is the one that adds.
Select(p, op, n) ==
    /\ pc[p] = "idle"
    /\ registry[n] # NoRow
    /\ snap' = [snap EXCEPT ![p] = registry[n]]
    /\ key' = [key EXCEPT ![p] = n]
    /\ pc' = [pc EXCEPT ![p] = op]
    /\ UNCHANGED <<registry, direction, due>>

\* The columns of n that a writer whose row comes from seen leaves as they are.
Unharmed(n, seen) ==
    {c \in DOMAIN due[n] : registry[n] # NoRow /\ seen # NoRow /\ seen[c] = registry[n][c]}

\* A write of n meant the columns of given, and took the others from seen.
Given(n, seen, given) ==
    due' = [due EXCEPT ![n] =
               [c \in DOMAIN given \cup Unharmed(n, seen) |->
                   IF c \in DOMAIN given THEN given[c] ELSE due[n][c]]]

\* upsert_device: INSERT ... ON CONFLICT DO UPDATE of every column.
Upsert(p, row, given) ==
    /\ registry' = [registry EXCEPT ![key[p]] = row]
    /\ Given(key[p], snap[p], given)
    /\ pc' = [pc EXCEPT ![p] = "idle"]
    /\ snap' = [snap EXCEPT ![p] = NoRow]
    /\ UNCHANGED key

WriteEdit(p, hostname) ==
    /\ pc[p] = "edit"
    /\ Upsert(p, Edited(snap[p], hostname), [hostname |-> hostname])
    /\ UNCHANGED direction

WriteTouch(p, address) ==
    /\ pc[p] = "touch"
    /\ Upsert(p, Touched(snap[p], address),
              IF address = Blank
                  THEN [last_seen_at |-> TRUE]
                  ELSE [last_seen_address |-> address, last_seen_at |-> TRUE])
    /\ UNCHANGED direction

WriteRefresh(p, address) ==
    /\ pc[p] = "refresh"
    /\ Upsert(p, Refreshed(snap[p], address), [last_seen_address |-> address])
    /\ UNCHANGED direction

WriteFingerprint(p, fingerprint) ==
    /\ pc[p] = "fingerprint"
    /\ Upsert(p, Fingerprinted(snap[p], fingerprint), [os_fingerprint |-> fingerprint])
    /\ UNCHANGED direction

WriteStamp(p) ==
    /\ pc[p] \in {"quarantine", "release"}
    /\ Upsert(p, Stamped(snap[p], pc[p]),
              IF pc[p] = "quarantine"
                  THEN [is_quarantined |-> TRUE, last_quarantined_at |-> TRUE]
                  ELSE [is_quarantined |-> FALSE])
    /\ direction' = [direction EXCEPT ![key[p]] = (pc[p] = "quarantine")]

\* The Add dialog, and an Edit dialog whose row was deleted under it: one
\* upsert of a new row over whatever the name holds by then.
Add(n, hostname) ==
    /\ registry' = [registry EXCEPT ![n] = NewRow(hostname)]
    /\ Given(n, NoRow, IF registry[n] = NoRow THEN NewRow(hostname)
                                              ELSE [hostname |-> hostname])
    /\ UNCHANGED <<writerVars, direction>>

\* delete_device, one statement.
Delete(n) ==
    /\ registry[n] # NoRow
    /\ registry' = [registry EXCEPT ![n] = NoRow]
    /\ direction' = [direction EXCEPT ![n] = FALSE]
    /\ due' = [due EXCEPT ![n] = Nothing]
    /\ UNCHANGED writerVars

\* The process of a writer ends between its two statements (a refresh whose
\* Kea call failed, a restart of the container).
Abandon(p) ==
    /\ pc[p] # "idle"
    /\ pc' = [pc EXCEPT ![p] = "idle"]
    /\ snap' = [snap EXCEPT ![p] = NoRow]
    /\ UNCHANGED <<registry, key, direction, due>>

Write(p) ==
    \/ \E h \in Hostnames : WriteEdit(p, h)
    \/ \E a \in Addresses \cup {Blank} : WriteTouch(p, a) \/ WriteRefresh(p, a)
    \/ \E f \in Fingerprints : WriteFingerprint(p, f)
    \/ WriteStamp(p)

Next ==
    \/ \E p \in Writers, op \in Operations, n \in Names : Select(p, op, n)
    \/ \E p \in Writers : Write(p) \/ Abandon(p)
    \/ \E n \in Names, h \in Hostnames : Add(n, h)
    \/ \E n \in Names : Delete(n)

Spec == Init /\ [][Next]_vars

-----------------------------------------------------------------------------
(* Properties *)

\* Whatever the interleaving of service and dashboard, a column shows what
\* the last edit, probe, refresh, scan or quarantine that is about this
\* column put there, unless since then a writer that had read another value
\* of it, or read the row before it was deleted, or the Add dialog, which
\* reads nothing, saved the row (upsert_device's "plain overwrite").
ColumnsKeepLastWrite ==
    \A n \in Names : registry[n] # NoRow =>
        \A c \in DOMAIN due[n] \ {"is_quarantined"} : registry[n][c] = due[n][c]

\* _stamp_quarantine_state (main.py:228-234): the flag "reflects the last
\* enforcement direction requested".  It disagrees with the last request only
\* if since that request the row was saved by a writer that had read another
\* flag, or by the Add dialog over the registered name: the dialog does not
\* "read the existing value and pass it through" (db.py:263-269).
DriftNeedsOverwrite ==
    \A n \in Names : registry[n] # NoRow /\ "is_quarantined" \in DOMAIN due[n] =>
        registry[n].is_quarantined = direction[n]

\* upsert_device (db.py:263-269): a caller that is not changing quarantine
\* state passes the flag through, "or a routine edit ... would silently
\* un-quarantine the device in the UI"; said to hold "across every other
\* upsert_device call site".  With one writer nobody's read is old, so only a
\* stamp moves the flag of a row; the code refutes it by the Add dialog.
OnlyStampsMoveTheFlag ==
    [][\A n \in Names :
           /\ registry[n] # NoRow /\ registry'[n] # NoRow
           /\ registry'[n].is_quarantined # registry[n].is_quarantined
           => \E p \in Writers : pc[p] \in {"quarantine", "release"} /\ pc'[p] = "idle"]_vars
=============================================================================
