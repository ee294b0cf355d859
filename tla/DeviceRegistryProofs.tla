------------------------ MODULE DeviceRegistryProofs ------------------------
(***************************************************************************)
(* Safety of DeviceRegistry for any set of writers, names and values.      *)
(***************************************************************************)
EXTENDS DeviceRegistry, TLAPS

-----------------------------------------------------------------------------
(* The rows the writers make *)

\* new is what a writer that means the columns of given makes of row.
Honours(new, row, given) ==
    /\ new \in Rows
    /\ DOMAIN given \subseteq Columns
    /\ \A c \in DOMAIN given : new[c] = given[c]
    /\ \A c \in Columns \ DOMAIN given : new[c] = row[c]

LEMMA NewRowIsRow ==
  ASSUME NEW h \in Hostnames
  PROVE  /\ NewRow(h) \in Rows
         /\ NewRow(h).hostname = h
         /\ NewRow(h).is_quarantined = FALSE
         /\ DOMAIN NewRow(h) = Columns
  BY DEF NewRow, Rows, Columns

LEMMA EditHonours ==
  ASSUME NEW row \in Rows, NEW h \in Hostnames
  PROVE  Honours(Edited(row, h), row, [hostname |-> h])
  BY DEF Honours, Edited, Rows, Columns

LEMMA TouchHonours ==
  ASSUME NEW row \in Rows, NEW a \in Addresses \cup {Blank}
  PROVE  /\ a = Blank => Honours(Touched(row, a), row, [last_seen_at |-> TRUE])
         /\ a # Blank => Honours(Touched(row, a), row,
                                 [last_seen_address |-> a, last_seen_at |-> TRUE])
<1> DEFINE new == Touched(row, a)
           seen == [last_seen_at |-> TRUE]
           met == [last_seen_address |-> a, last_seen_at |-> TRUE]
<1>1. /\ new \in Rows
      /\ new["last_seen_address"] = IF a = Blank THEN row["last_seen_address"] ELSE a
      /\ new["last_seen_at"] = TRUE
      /\ \A c \in Columns \ {"last_seen_address", "last_seen_at"} : new[c] = row[c]
  BY DEF Touched, Rows, Columns
<1>2. DOMAIN seen = {"last_seen_at"} /\ seen["last_seen_at"] = TRUE
  OBVIOUS
<1>3. DOMAIN met = {"last_seen_address", "last_seen_at"}
  OBVIOUS
<1>4. met["last_seen_address"] = a
  OBVIOUS
<1>5. met["last_seen_at"] = TRUE
  OBVIOUS
<1> HIDE DEF new, seen, met
<1>6. DOMAIN seen \subseteq Columns /\ DOMAIN met \subseteq Columns
  BY <1>2, <1>3 DEF Columns
<1>7. \A c \in DOMAIN seen : new[c] = seen[c]
  BY <1>1, <1>2, Zenon
<1>8. a # Blank => \A c \in DOMAIN met : new[c] = met[c]
  <2>1. a # Blank => new["last_seen_address"] = met["last_seen_address"]
    BY <1>1, <1>4
  <2>2. new["last_seen_at"] = met["last_seen_at"]
    BY <1>1, <1>5
  <2> QED
    BY <1>3, <2>1, <2>2, Zenon
<1>9. a = Blank => \A c \in Columns \ DOMAIN seen : new[c] = row[c]
  BY <1>1, <1>2
<1>10. \A c \in Columns \ DOMAIN met : new[c] = row[c]
  BY <1>1, <1>3
<1>11. a = Blank => Honours(new, row, seen)
  BY <1>1, <1>6, <1>7, <1>9, Zenon DEF Honours
<1>12. a # Blank => Honours(new, row, met)
  BY <1>1, <1>6, <1>8, <1>10, Zenon DEF Honours
<1> QED
  BY <1>11, <1>12 DEF new, seen, met

LEMMA RefreshHonours ==
  ASSUME NEW row \in Rows, NEW a \in Addresses \cup {Blank}
  PROVE  Honours(Refreshed(row, a), row, [last_seen_address |-> a])
  BY DEF Honours, Refreshed, Rows, Columns

LEMMA FingerprintHonours ==
  ASSUME NEW row \in Rows, NEW f \in Fingerprints
  PROVE  Honours(Fingerprinted(row, f), row, [os_fingerprint |-> f])
  BY DEF Honours, Fingerprinted, Rows, Columns

LEMMA StampHonours ==
  ASSUME NEW row \in Rows
  PROVE  /\ Honours(Stamped(row, "quarantine"), row,
                    [is_quarantined |-> TRUE, last_quarantined_at |-> TRUE])
         /\ Honours(Stamped(row, "release"), row, [is_quarantined |-> FALSE])
<1> DEFINE in == Stamped(row, "quarantine")
           out == Stamped(row, "release")
           cut == [is_quarantined |-> TRUE, last_quarantined_at |-> TRUE]
           free == [is_quarantined |-> FALSE]
<1>1. /\ in \in Rows
      /\ in["is_quarantined"] = TRUE
      /\ in["last_quarantined_at"] = TRUE
      /\ \A c \in Columns \ {"is_quarantined", "last_quarantined_at"} : in[c] = row[c]
  BY DEF Stamped, Rows, Columns
<1>2. /\ out \in Rows
      /\ out["is_quarantined"] = FALSE
      /\ \A c \in Columns \ {"is_quarantined"} : out[c] = row[c]
  BY DEF Stamped, Rows, Columns
<1>3. DOMAIN cut = {"is_quarantined", "last_quarantined_at"}
  OBVIOUS
<1>4. cut["is_quarantined"] = TRUE
  OBVIOUS
<1>5. cut["last_quarantined_at"] = TRUE
  OBVIOUS
<1>6. DOMAIN free = {"is_quarantined"} /\ free["is_quarantined"] = FALSE
  OBVIOUS
<1> HIDE DEF in, out, cut, free
<1>7. \A c \in DOMAIN cut : in[c] = cut[c]
  BY <1>1, <1>3, <1>4, <1>5, Zenon
<1>8. \A c \in DOMAIN free : out[c] = free[c]
  BY <1>2, <1>6, Zenon
<1>9. DOMAIN cut \subseteq Columns /\ DOMAIN free \subseteq Columns
  BY <1>3, <1>6 DEF Columns
<1>10. Honours(in, row, cut)
  BY <1>1, <1>3, <1>7, <1>9, Zenon DEF Honours
<1>11. Honours(out, row, free)
  BY <1>2, <1>6, <1>8, <1>9, Zenon DEF Honours
<1> QED
  BY <1>10, <1>11 DEF in, out, cut, free

-----------------------------------------------------------------------------
(* Rows, snapshots and what the columns were last given *)

\* Every writer returns when its SELECT found no row.
WriterHasRow == \A p \in Writers : pc[p] # "idle" => snap[p] \in Rows

\* A column nobody overwrote holds what it is due.
Kept ==
    \A n \in Names : registry[n] # NoRow =>
        \A c \in DOMAIN due[n] : registry[n][c] = due[n][c]

FlagDue ==
    \A n \in Names :
        "is_quarantined" \in DOMAIN due[n] => due[n]["is_quarantined"] = direction[n]

\* No row, no dues.
FreshStart ==
    \A n \in Names :
        registry[n] = NoRow => DOMAIN due[n] = {} /\ direction[n] = FALSE

IInv == TypeOK /\ WriterHasRow /\ Kept /\ FlagDue /\ FreshStart

LEMMA RowsAreSome == NoRow \notin Rows
  BY RowAssumption DEF Rows

LEMMA IInit == Init => IInv
<1> SUFFICES ASSUME Init PROVE IInv
  OBVIOUS
<1>1. \A n \in Names : DOMAIN due[n] = {}
  BY DEF Init, Nothing
<1>2. TypeOK
  BY <1>1 DEF Init, TypeOK
<1> QED
  BY <1>1, <1>2 DEF Init, IInv, WriterHasRow, Kept, FlagDue, FreshStart

\* What Given leaves in due.
LEMMA GivenIsDue ==
  ASSUME TypeOK, NEW n \in Names, NEW seen, NEW given, Given(n, seen, given)
  PROVE  /\ due' = [m \in Names |-> due'[m]]
         /\ \A m \in Names \ {n} : due'[m] = due[m]
         /\ DOMAIN due'[n] = DOMAIN given \cup Unharmed(n, seen)
         /\ \A c \in DOMAIN given : due'[n][c] = given[c]
         /\ \A c \in Unharmed(n, seen) \ DOMAIN given : due'[n][c] = due[n][c]
<1> DEFINE new == [c \in DOMAIN given \cup Unharmed(n, seen) |->
                      IF c \in DOMAIN given THEN given[c] ELSE due[n][c]]
<1>1. due = [m \in Names |-> due[m]]
  BY DEF TypeOK
<1>2. due' = [due EXCEPT ![n] = new]
  BY DEF Given
<1>3. /\ DOMAIN new = DOMAIN given \cup Unharmed(n, seen)
      /\ \A c \in DOMAIN given : new[c] = given[c]
      /\ \A c \in Unharmed(n, seen) \ DOMAIN given : new[c] = due[n][c]
  OBVIOUS
<1> HIDE DEF new
<1>4. due'[n] = new /\ \A m \in Names \ {n} : due'[m] = due[m]
  BY <1>1, <1>2
<1>5. due' = [m \in Names |-> due'[m]]
  BY <1>1, <1>2
<1> QED
  BY <1>3, <1>4, <1>5

\* A write leaves the flag's dues and the history of requests in step.
Directs(n, given) ==
    IF "is_quarantined" \in DOMAIN given
        THEN /\ given["is_quarantined"] \in BOOLEAN
             /\ direction' = [direction EXCEPT ![n] = given["is_quarantined"]]
        ELSE direction' = direction

LEMMA UpsertKeeps ==
  ASSUME IInv, NEW p \in Writers, pc[p] # "idle", NEW row, NEW given,
         Honours(row, snap[p], given), Upsert(p, row, given), Directs(key[p], given)
  PROVE  IInv'
<1> DEFINE k == key[p]
           left == Unharmed(k, snap[p])
<1>1. /\ k \in Names
      /\ row \in Rows
      /\ snap[p] \in Rows
      /\ DOMAIN given \subseteq Columns
      /\ \A c \in DOMAIN given : row[c] = given[c]
      /\ \A c \in Columns \ DOMAIN given : row[c] = snap[p][c]
  BY DEF IInv, TypeOK, WriterHasRow, Honours
<1>2. /\ registry' = [registry EXCEPT ![k] = row]
      /\ pc' = [pc EXCEPT ![p] = "idle"]
      /\ snap' = [snap EXCEPT ![p] = NoRow]
      /\ key' = key
      /\ Given(k, snap[p], given)
  BY DEF Upsert
<1>3. /\ due' = [m \in Names |-> due'[m]]
      /\ \A m \in Names \ {k} : due'[m] = due[m]
      /\ DOMAIN due'[k] = DOMAIN given \cup left
      /\ \A c \in DOMAIN given : due'[k][c] = given[c]
      /\ \A c \in left \ DOMAIN given : due'[k][c] = due[k][c]
  BY <1>1, <1>2, GivenIsDue DEF IInv
<1>4. left \subseteq Columns /\ left \subseteq DOMAIN due[k]
  BY <1>1 DEF Unharmed, IInv, TypeOK
<1>5. \A c \in left : due[k][c] = snap[p][c]
  BY <1>1 DEF Unharmed, IInv, Kept
<1>6. /\ registry \in [Names -> Rows \cup {NoRow}]
      /\ pc \in [Writers -> Operations \cup {"idle"}]
      /\ snap \in [Writers -> Rows \cup {NoRow}]
      /\ key \in [Writers -> Names]
      /\ direction \in [Names -> BOOLEAN]
      /\ \A n \in Names : DOMAIN due[n] \subseteq Columns
  BY DEF IInv, TypeOK
<1>7. direction' \in [Names -> BOOLEAN] /\ \A m \in Names \ {k} : direction'[m] = direction[m]
  BY <1>1, <1>6 DEF Directs
<1> HIDE DEF left
<1>8. TypeOK'
  <2>1. registry' \in [Names -> Rows \cup {NoRow}] /\ key' \in [Writers -> Names]
    BY <1>1, <1>2, <1>6
  <2>2. /\ pc' \in [Writers -> Operations \cup {"idle"}]
        /\ snap' \in [Writers -> Rows \cup {NoRow}]
    BY <1>2, <1>6
  <2>3. \A n \in Names : DOMAIN due'[n] \subseteq Columns
    BY <1>1, <1>3, <1>4, <1>6
  <2> QED
    BY <1>3, <1>7, <2>1, <2>2, <2>3 DEF TypeOK
<1>9. WriterHasRow'
  BY <1>2, <1>6 DEF IInv, WriterHasRow
<1>10. /\ registry'[k] = row
       /\ row # NoRow
       /\ \A m \in Names \ {k} : registry'[m] = registry[m]
  BY <1>1, <1>2, <1>6, RowsAreSome
<1>11. Kept'
  <2>1. \A c \in DOMAIN due'[k] : registry'[k][c] = due'[k][c]
    BY <1>1, <1>3, <1>4, <1>5, <1>10
  <2> QED
    BY <1>3, <1>10, <2>1 DEF IInv, Kept
<1>12. FlagDue'
  <2>1. CASE "is_quarantined" \in DOMAIN given
    <3>1. direction'[k] = given["is_quarantined"]
      BY <1>1, <1>6, <2>1 DEF Directs
    <3>2. due'[k]["is_quarantined"] = given["is_quarantined"]
      BY <1>3, <2>1
    <3> QED
      BY <1>3, <1>7, <3>1, <3>2 DEF IInv, FlagDue
  <2>2. CASE "is_quarantined" \notin DOMAIN given
    <3>1. direction' = direction
      BY <2>2 DEF Directs
    <3>2. "is_quarantined" \in DOMAIN due'[k] =>
             /\ "is_quarantined" \in DOMAIN due[k]
             /\ due'[k]["is_quarantined"] = due[k]["is_quarantined"]
      BY <1>3, <1>4, <2>2
    <3> QED
      BY <1>3, <3>1, <3>2 DEF IInv, FlagDue
  <2> QED
    BY <2>1, <2>2
<1>13. FreshStart'
  BY <1>3, <1>7, <1>10 DEF IInv, FreshStart
<1> QED
  BY <1>8, <1>9, <1>11, <1>12, <1>13 DEF IInv

LEMMA WriteKeeps ==
  ASSUME IInv, NEW p \in Writers, Write(p)
  PROVE  IInv'
<1>1. pc[p] # "idle" => snap[p] \in Rows
  BY DEF IInv, WriterHasRow
<1>2. ASSUME NEW h \in Hostnames, WriteEdit(p, h) PROVE IInv'
  <2> DEFINE given == [hostname |-> h]
  <2>1. pc[p] # "idle" /\ Upsert(p, Edited(snap[p], h), given) /\ direction' = direction
    BY <1>2 DEF WriteEdit
  <2>2. Honours(Edited(snap[p], h), snap[p], given)
    BY <1>1, <2>1, EditHonours
  <2>3. Directs(key[p], given)
    BY <2>1 DEF Directs
  <2> HIDE DEF given
  <2> QED
    BY <2>1, <2>2, <2>3, UpsertKeeps
<1>3. ASSUME NEW a \in Addresses \cup {Blank}, WriteTouch(p, a) PROVE IInv'
  <2> DEFINE given == IF a = Blank
                          THEN [last_seen_at |-> TRUE]
                          ELSE [last_seen_address |-> a, last_seen_at |-> TRUE]
  <2>1. pc[p] # "idle" /\ Upsert(p, Touched(snap[p], a), given) /\ direction' = direction
    BY <1>3 DEF WriteTouch
  <2>2. Honours(Touched(snap[p], a), snap[p], given)
    BY <1>1, <2>1, TouchHonours
  <2>3. "is_quarantined" \notin DOMAIN given
    OBVIOUS
  <2> HIDE DEF given
  <2>4. Directs(key[p], given)
    BY <2>1, <2>3 DEF Directs
  <2> QED
    BY <2>1, <2>2, <2>4, UpsertKeeps
<1>4. ASSUME NEW a \in Addresses \cup {Blank}, WriteRefresh(p, a) PROVE IInv'
  <2> DEFINE given == [last_seen_address |-> a]
  <2>1. pc[p] # "idle" /\ Upsert(p, Refreshed(snap[p], a), given) /\ direction' = direction
    BY <1>4 DEF WriteRefresh
  <2>2. Honours(Refreshed(snap[p], a), snap[p], given)
    BY <1>1, <2>1, RefreshHonours
  <2>3. Directs(key[p], given)
    BY <2>1 DEF Directs
  <2> HIDE DEF given
  <2> QED
    BY <2>1, <2>2, <2>3, UpsertKeeps
<1>5. ASSUME NEW f \in Fingerprints, WriteFingerprint(p, f) PROVE IInv'
  <2> DEFINE given == [os_fingerprint |-> f]
  <2>1. /\ pc[p] # "idle"
        /\ Upsert(p, Fingerprinted(snap[p], f), given)
        /\ direction' = direction
    BY <1>5 DEF WriteFingerprint
  <2>2. Honours(Fingerprinted(snap[p], f), snap[p], given)
    BY <1>1, <2>1, FingerprintHonours
  <2>3. Directs(key[p], given)
    BY <2>1 DEF Directs
  <2> HIDE DEF given
  <2> QED
    BY <2>1, <2>2, <2>3, UpsertKeeps
<1>6. ASSUME WriteStamp(p) PROVE IInv'
  <2>1. CASE pc[p] = "quarantine"
    <3> DEFINE given == [is_quarantined |-> TRUE, last_quarantined_at |-> TRUE]
    <3>1. /\ Upsert(p, Stamped(snap[p], "quarantine"), given)
          /\ direction' = [direction EXCEPT ![key[p]] = TRUE]
      BY <1>6, <2>1 DEF WriteStamp
    <3>2. Honours(Stamped(snap[p], "quarantine"), snap[p], given)
      BY <1>1, <2>1, StampHonours
    <3>3. "is_quarantined" \in DOMAIN given
      OBVIOUS
    <3>4. given["is_quarantined"] = TRUE
      OBVIOUS
    <3> HIDE DEF given
    <3>5. Directs(key[p], given)
      BY <3>1, <3>3, <3>4 DEF Directs
    <3> QED
      BY <2>1, <3>1, <3>2, <3>5, UpsertKeeps
  <2>2. CASE pc[p] = "release"
    <3> DEFINE given == [is_quarantined |-> FALSE]
    <3>1. /\ Upsert(p, Stamped(snap[p], "release"), given)
          /\ direction' = [direction EXCEPT ![key[p]] = FALSE]
      BY <1>6, <2>2 DEF WriteStamp
    <3>2. Honours(Stamped(snap[p], "release"), snap[p], given)
      BY <1>1, <2>2, StampHonours
    <3>3. "is_quarantined" \in DOMAIN given
      OBVIOUS
    <3>4. given["is_quarantined"] = FALSE
      OBVIOUS
    <3> HIDE DEF given
    <3>5. Directs(key[p], given)
      BY <3>1, <3>3, <3>4 DEF Directs
    <3> QED
      BY <2>2, <3>1, <3>2, <3>5, UpsertKeeps
  <2> QED
    BY <1>6, <2>1, <2>2 DEF WriteStamp
<1> QED
  BY <1>2, <1>3, <1>4, <1>5, <1>6 DEF Write

\* The Add dialog: a new row, or a new row over the one that is there.
LEMMA AddKeeps ==
  ASSUME IInv, NEW n \in Names, NEW h \in Hostnames, Add(n, h)
  PROVE  IInv'
<1> DEFINE given == IF registry[n] = NoRow THEN NewRow(h) ELSE [hostname |-> h]
<1>1. /\ registry' = [registry EXCEPT ![n] = NewRow(h)]
      /\ Given(n, NoRow, given)
      /\ UNCHANGED <<pc, snap, key, direction>>
  BY DEF Add, writerVars
<1>2. /\ NewRow(h) \in Rows
      /\ NewRow(h)["hostname"] = h
      /\ NewRow(h)["is_quarantined"] = FALSE
      /\ DOMAIN NewRow(h) = Columns
  BY NewRowIsRow
<1>3. /\ DOMAIN given \subseteq Columns
      /\ \A c \in DOMAIN given : NewRow(h)[c] = given[c]
  BY <1>2 DEF Columns
<1>4. "is_quarantined" \in DOMAIN given =>
         given["is_quarantined"] = FALSE /\ registry[n] = NoRow
  <2>1. registry[n] # NoRow => "is_quarantined" \notin DOMAIN given
    OBVIOUS
  <2>2. registry[n] = NoRow => given = NewRow(h)
    OBVIOUS
  <2> QED
    BY <1>2, <2>1, <2>2
<1> HIDE DEF given
<1>5. Unharmed(n, NoRow) = {}
  BY DEF Unharmed
<1>6. /\ due' = [m \in Names |-> due'[m]]
      /\ \A m \in Names \ {n} : due'[m] = due[m]
      /\ DOMAIN due'[n] = DOMAIN given
      /\ \A c \in DOMAIN given : due'[n][c] = given[c]
  BY <1>1, <1>5, GivenIsDue DEF IInv
<1>7. /\ registry \in [Names -> Rows \cup {NoRow}]
      /\ \A m \in Names : DOMAIN due[m] \subseteq Columns
  BY DEF IInv, TypeOK
<1>8. /\ registry' \in [Names -> Rows \cup {NoRow}]
      /\ registry'[n] = NewRow(h)
      /\ NewRow(h) # NoRow
      /\ \A m \in Names \ {n} : registry'[m] = registry[m]
  BY <1>1, <1>2, <1>7, RowsAreSome
<1>9. \A m \in Names : DOMAIN due'[m] \subseteq Columns
  BY <1>3, <1>6, <1>7
<1>10. TypeOK'
  BY <1>1, <1>6, <1>8, <1>9 DEF IInv, TypeOK
<1>11. WriterHasRow'
  BY <1>1 DEF IInv, WriterHasRow
<1>12. Kept'
  BY <1>3, <1>6, <1>8 DEF IInv, Kept
<1>13. FlagDue'
  <2>1. "is_quarantined" \in DOMAIN due'[n] => due'[n]["is_quarantined"] = direction[n]
    BY <1>4, <1>6 DEF IInv, FreshStart
  <2> QED
    BY <1>1, <1>6, <2>1 DEF IInv, FlagDue
<1>14. FreshStart'
  BY <1>1, <1>6, <1>8 DEF IInv, FreshStart
<1> QED
  BY <1>10, <1>11, <1>12, <1>13, <1>14 DEF IInv

LEMMA DeleteKeeps ==
  ASSUME IInv, NEW n \in Names, Delete(n)
  PROVE  IInv'
<1>1. /\ registry' = [registry EXCEPT ![n] = NoRow]
      /\ direction' = [direction EXCEPT ![n] = FALSE]
      /\ due' = [due EXCEPT ![n] = Nothing]
      /\ UNCHANGED <<pc, snap, key>>
  BY DEF Delete, writerVars
<1>2. DOMAIN Nothing = {}
  BY DEF Nothing
<1>3. /\ registry \in [Names -> Rows \cup {NoRow}]
      /\ direction \in [Names -> BOOLEAN]
      /\ due = [m \in Names |-> due[m]]
      /\ \A m \in Names : DOMAIN due[m] \subseteq Columns
  BY DEF IInv, TypeOK
<1>4. /\ due' = [m \in Names |-> due'[m]]
      /\ due'[n] = Nothing
      /\ \A m \in Names \ {n} : due'[m] = due[m]
  BY <1>1, <1>3
<1>5. /\ registry'[n] = NoRow
      /\ direction'[n] = FALSE
      /\ \A m \in Names \ {n} : registry'[m] = registry[m] /\ direction'[m] = direction[m]
  BY <1>1, <1>3
<1>6. TypeOK'
  <2>1. \A m \in Names : DOMAIN due'[m] \subseteq Columns
    BY <1>2, <1>3, <1>4
  <2>2. registry' \in [Names -> Rows \cup {NoRow}] /\ direction' \in [Names -> BOOLEAN]
    BY <1>1, <1>3
  <2> QED
    BY <1>1, <1>4, <2>1, <2>2 DEF IInv, TypeOK
<1>7. WriterHasRow'
  BY <1>1 DEF IInv, WriterHasRow
<1>8. Kept'
  BY <1>4, <1>5 DEF IInv, Kept
<1>9. FlagDue'
  BY <1>2, <1>4, <1>5 DEF IInv, FlagDue
<1>10. FreshStart'
  BY <1>2, <1>4, <1>5 DEF IInv, FreshStart
<1> QED
  BY <1>6, <1>7, <1>8, <1>9, <1>10 DEF IInv

LEMMA INext == IInv /\ [Next]_vars => IInv'
<1> SUFFICES ASSUME IInv, [Next]_vars PROVE IInv'
  OBVIOUS
<1>1. ASSUME NEW p \in Writers, NEW op \in Operations, NEW n \in Names, Select(p, op, n)
      PROVE  IInv'
  BY <1>1 DEF IInv, TypeOK, WriterHasRow, Kept, FlagDue, FreshStart, Select
<1>2. ASSUME NEW p \in Writers, Write(p) PROVE IInv'
  BY <1>2, WriteKeeps
<1>3. ASSUME NEW p \in Writers, Abandon(p) PROVE IInv'
  BY <1>3 DEF IInv, TypeOK, WriterHasRow, Kept, FlagDue, FreshStart, Abandon
<1>4. ASSUME NEW n \in Names, NEW h \in Hostnames, Add(n, h) PROVE IInv'
  BY <1>4, AddKeeps
<1>5. ASSUME NEW n \in Names, Delete(n) PROVE IInv'
  BY <1>5, DeleteKeeps
<1>6. ASSUME UNCHANGED vars PROVE IInv'
  BY <1>6 DEF IInv, TypeOK, WriterHasRow, Kept, FlagDue, FreshStart, vars
<1> QED
  BY <1>1, <1>2, <1>3, <1>4, <1>5, <1>6 DEF Next

(* Every column of the table and every snapshot is well typed.             *)
THEOREM TypeCorrect == Spec => []TypeOK
<1>1. IInv => TypeOK
  BY DEF IInv
<1> QED
  BY <1>1, IInit, INext, PTL DEF Spec

(* Whatever service and dashboard do in between one another's statements,  *)
(* a column other than the flag holds what was last written to it on       *)
(* purpose, unless a writer with an older value of it, or the Add dialog,  *)
(* has saved the row since (db.py:249-333).                                *)
THEOREM OnlyOverwritesLoseColumns == Spec => []ColumnsKeepLastWrite
<1>1. Kept => ColumnsKeepLastWrite
  BY DEF Kept, ColumnsKeepLastWrite
<1>2. IInv => Kept
  BY DEF IInv
<1> QED
  BY <1>1, <1>2, IInit, INext, PTL DEF Spec

(* is_quarantined is the last direction requested for the device, unless   *)
(* since that request the row was saved by a writer that had read another  *)
(* flag, or by the Add dialog (main.py:224-256 against db.py:282-333,      *)
(* identity.py:131-144 and ui_quarantine.py:320-338).                      *)
THEOREM FlagDriftsOnlyByOverwrites == Spec => []DriftNeedsOverwrite
<1>1. IInv => DriftNeedsOverwrite
  BY DEF IInv, Kept, FlagDue, DriftNeedsOverwrite
<1> QED
  BY <1>1, IInit, INext, PTL DEF Spec
=============================================================================
