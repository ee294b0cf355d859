--------------------------- MODULE KeaConfigProofs ---------------------------
(***************************************************************************)
(* Safety of KeaConfig for any number of requests, sessions, MACs and      *)
(* attempts.                                                               *)
(***************************************************************************)
EXTENDS KeaConfig, TLAPS

Forms == {"add", "edit", "settings"}

(* Where a request can stand, and what it is about to send. *)
RequestsConsistent ==
    \A q \in Requests :
        /\ pc[q] \in {"idle", "get", "set", "write", "log"}
        /\ op[q] \in {"deny", "undo"}
        /\ pc[q] = "set" => /\ base[q] \in Configs
                            /\ copy[q] = Modified(base[q], op[q], mac[q])

(* Where a session can stand.  Only the Edit form can spoil its list, and the
   reservation it was opened for is not in the list any more when it does. *)
SessionsConsistent ==
    \A s \in Sessions :
        /\ pc[s] \in {"idle", "open", "set", "write"}
        /\ op[s] \in Forms
        /\ pc[s] # "idle" => base[s] \in Configs /\ copy[s] \in Configs \cup {Spoiled}
        /\ copy[s] = Spoiled => op[s] = "edit" /\ ~linked[s]

(* The progress of a request nobody disturbed. *)
UndisturbedProgress ==
    \A q \in Requests \ disturbed :
        /\ pc[q] = "set" => base[q] = running
        /\ pc[q] = "write" => Dropped(running, mac[q]) <=> (op[q] = "deny")
        /\ pc[q] = "log" \/ (pc[q] = "idle" /\ outcome[q] = "ok") =>
              /\ Dropped(running, mac[q]) <=> (op[q] = "deny")
              /\ Dropped(disk, mac[q]) <=> (op[q] = "deny")

TypeInv == TypeOK /\ RequestsConsistent /\ SessionsConsistent

IInv == TypeInv /\ UndisturbedProgress /\ DriftNeedsStaleBase

-----------------------------------------------------------------------------
(* The operators of kea_deny.py *)

(* Denying or releasing a MAC keeps a configuration a configuration. *)
LEMMA ModifiedType ==
  ASSUME NEW config \in Configs, NEW o \in {"deny", "undo"}, NEW m \in Macs
  PROVE  Modified(config, o, m) \in Configs
<1>1. config.reservations[m] \in Reservations \cup {NoReservation}
  BY DEF Configs
<1>2. \A r \in Reservations :
         /\ [r EXCEPT !.classes = @ \cup {"DROP"}] \in Reservations
         /\ [r EXCEPT !.classes = @ \ {"DROP"}] \in Reservations
  BY DEF Reservations, Classes
<1>3. DropOnly \in Reservations
  BY DEF DropOnly, Reservations, Classes
<1>4. apply_drop_class(config, m) \in Configs
  BY <1>1, <1>2, <1>3 DEF apply_drop_class, WithReservation, Configs
<1>5. remove_drop_class(config, m) \in Configs
  BY <1>1, <1>2 DEF remove_drop_class, WithReservation, Configs
<1> QED
  BY <1>4, <1>5 DEF Modified

(* After a deny the MAC is dropped, after a release it is not. *)
LEMMA ModifiedDropped ==
  ASSUME NEW config \in Configs, NEW o \in {"deny", "undo"}, NEW m \in Macs
  PROVE  Dropped(Modified(config, o, m), m) <=> (o = "deny")
<1>1. config.reservations[m] \in Reservations \cup {NoReservation}
  BY DEF Configs
<1>2. \A r \in Reservations :
         /\ [r EXCEPT !.classes = @ \cup {"DROP"}] \in Reservations
         /\ "DROP" \in [r EXCEPT !.classes = @ \cup {"DROP"}].classes
         /\ "DROP" \notin [r EXCEPT !.classes = @ \ {"DROP"}].classes
  BY DEF Reservations, Classes
<1>3. DropOnly \in Reservations /\ "DROP" \in DropOnly.classes
  BY DEF DropOnly, Reservations, Classes
<1>4. Dropped(apply_drop_class(config, m), m)
  BY <1>1, <1>2, <1>3, ConfigAssumption DEF Dropped, apply_drop_class, WithReservation, Configs
<1>5. ~Dropped(remove_drop_class(config, m), m)
  BY <1>1, <1>2 DEF Dropped, remove_drop_class, WithReservation, Configs
<1> QED
  BY <1>4, <1>5 DEF Modified

(* Nothing but the reservation of the MAC is touched. *)
LEMMA ModifiedElsewhere ==
  ASSUME NEW config \in Configs, NEW o \in {"deny", "undo"}, NEW m \in Macs
  PROVE  /\ Modified(config, o, m).settings = config.settings
         /\ \A n \in Macs \ {m} :
               Modified(config, o, m).reservations[n] = config.reservations[n]
  BY DEF Modified, apply_drop_class, remove_drop_class, WithReservation, Configs

(* A reservation that came from Kea stays, and only its DROP class changes. *)
LEMMA ModifiedKeepsFields ==
  ASSUME NEW config \in Configs, NEW o \in {"deny", "undo"}, NEW m \in Macs,
         config.reservations[m] # NoReservation, config.reservations[m].filled
  PROVE  LET old == config.reservations[m]
             new == Modified(config, o, m).reservations[m]
         IN  /\ new \in Reservations
             /\ new.fields = old.fields
             /\ new.classes \ {"DROP"} = old.classes \ {"DROP"}
<1> DEFINE old == config.reservations[m]
<1>1. old \in Reservations
  BY DEF Configs
<1>2. /\ [old EXCEPT !.classes = @ \cup {"DROP"}] \in Reservations
      /\ [old EXCEPT !.classes = @ \ {"DROP"}] \in Reservations
  BY <1>1 DEF Reservations, Classes
<1>3. ~NoPurpose([old EXCEPT !.classes = @ \ {"DROP"}])
  BY <1>1 DEF NoPurpose, Reservations
<1>4. \A r : WithReservation(config, m, r).reservations[m] = r
  BY DEF WithReservation, Configs
<1>5. CASE o = "deny"
  <2>1. Modified(config, o, m).reservations[m] = [old EXCEPT !.classes = @ \cup {"DROP"}]
    BY <1>4, <1>5 DEF Modified, apply_drop_class
  <2> QED
    BY <1>1, <1>2, <2>1 DEF Reservations
<1>6. CASE o = "undo"
  <2>1. Modified(config, o, m).reservations[m] = [old EXCEPT !.classes = @ \ {"DROP"}]
    BY <1>3, <1>4, <1>6 DEF Modified, remove_drop_class
  <2> QED
    BY <1>1, <1>2, <2>1 DEF Reservations
<1> QED
  BY <1>5, <1>6

(* Kea fills in the keys of a configuration and changes nothing else. *)
LEMMA FilledType ==
  ASSUME NEW config \in Configs
  PROVE  /\ Filled(config) \in Configs
         /\ Returned(Filled(config))
         /\ Filled(config).settings = config.settings
         /\ \A m \in Macs :
               /\ config.reservations[m] = NoReservation
                     => Filled(config).reservations[m] = NoReservation
               /\ config.reservations[m] # NoReservation
                     => LET old == config.reservations[m]
                            new == Filled(config).reservations[m]
                        IN  /\ new \in Reservations
                            /\ new.fields = old.fields
                            /\ new.classes = old.classes
                            /\ new.filled
<1> DEFINE list == [m \in Macs |->
                       IF config.reservations[m] = NoReservation THEN NoReservation
                       ELSE [config.reservations[m] EXCEPT !.filled = TRUE]]
<1>1. \A m \in Macs : config.reservations[m] \in Reservations \cup {NoReservation}
  BY DEF Configs
<1>2. \A r \in Reservations :
         /\ [r EXCEPT !.filled = TRUE] \in Reservations
         /\ [r EXCEPT !.filled = TRUE].fields = r.fields
         /\ [r EXCEPT !.filled = TRUE].classes = r.classes
         /\ [r EXCEPT !.filled = TRUE].filled
  BY DEF Reservations
<1>3. list \in [Macs -> Reservations \cup {NoReservation}]
  BY <1>1, <1>2
<1>4. \A m \in Macs :
         list[m] = IF config.reservations[m] = NoReservation THEN NoReservation
                   ELSE [config.reservations[m] EXCEPT !.filled = TRUE]
  OBVIOUS
<1> HIDE DEF list
<1>5. Filled(config) = [config EXCEPT !.reservations = list]
  BY DEF Filled, list
<1>6. /\ Filled(config) \in Configs
      /\ Filled(config).settings = config.settings
      /\ Filled(config).reservations = list
  BY <1>3, <1>5 DEF Configs
<1>7. ASSUME NEW m \in Macs, config.reservations[m] # NoReservation
      PROVE  LET old == config.reservations[m]
                 new == Filled(config).reservations[m]
             IN  /\ new \in Reservations
                 /\ new.fields = old.fields
                 /\ new.classes = old.classes
                 /\ new.filled
  <2>1. config.reservations[m] \in Reservations
    BY <1>1, <1>7
  <2>2. Filled(config).reservations[m] = [config.reservations[m] EXCEPT !.filled = TRUE]
    BY <1>4, <1>6, <1>7
  <2> QED
    BY <1>2, <2>1, <2>2
<1>8. \A m \in Macs : config.reservations[m] = NoReservation
                         => Filled(config).reservations[m] = NoReservation
  BY <1>4, <1>6
<1>9. Returned(Filled(config))
  BY <1>7, <1>8 DEF Returned
<1> QED
  BY <1>6, <1>7, <1>8, <1>9

(* What came from Kea, and was not changed since, Kea leaves as it is. *)
LEMMA FilledAgain ==
  ASSUME NEW config \in Configs, NEW m \in Macs,
         config.reservations[m] # NoReservation => config.reservations[m].filled
  PROVE  Filled(config).reservations[m] = config.reservations[m]
<1>1. CASE config.reservations[m] = NoReservation
  BY <1>1, FilledType
<1>2. CASE config.reservations[m] # NoReservation
  <2> DEFINE old == config.reservations[m]
             new == Filled(config).reservations[m]
  <2>1. /\ old \in Reservations /\ new \in Reservations
        /\ new.fields = old.fields /\ new.classes = old.classes
        /\ new.filled /\ old.filled
    BY <1>2, FilledType DEF Configs
  <2>2. /\ new = [fields |-> new.fields, classes |-> new.classes, filled |-> new.filled]
        /\ old = [fields |-> old.fields, classes |-> old.classes, filled |-> old.filled]
    BY <2>1 DEF Reservations
  <2>3. new.filled = TRUE /\ old.filled = TRUE
    BY <2>1 DEF Reservations
  <2> HIDE DEF new, old
  <2> QED
    BY <2>1, <2>2, <2>3 DEF new, old
<1> QED
  BY <1>1, <1>2

LEMMA FilledDropped ==
  ASSUME NEW config \in Configs, NEW m \in Macs
  PROVE  Dropped(Filled(config), m) <=> Dropped(config, m)
<1>1. CASE config.reservations[m] = NoReservation
  BY <1>1, FilledType DEF Dropped
<1>2. CASE config.reservations[m] # NoReservation
  <2>1. Filled(config).reservations[m] # NoReservation
    BY <1>2, FilledType, ConfigAssumption
  <2> QED
    BY <1>2, <2>1, FilledType DEF Dropped
<1> QED
  BY <1>1, <1>2

(* The dicts the forms build are configurations. *)
LEMMA EntryType == \A withIp \in BOOLEAN : Entry(withIp) \in Reservations
  BY DEF Entry, Reservations, Fields

LEMMA EditedType ==
  ASSUME NEW config \in Configs, NEW m \in Macs,
         NEW r \in Reservations \cup {NoReservation}
  PROVE  WithReservation(config, m, r) \in Configs
  BY DEF WithReservation, Configs

-----------------------------------------------------------------------------
(* Types, and what each client is about to send. *)

LEMMA TypeInit == Init => TypeInv
  BY ConfigAssumption
  DEF Init, TypeInv, TypeOK, RequestsConsistent, SessionsConsistent, Forms,
      Clients, Ops, PCs

(* What a config-set leaves in Kea and in the histories. *)
LEMMA AppliedType ==
  ASSUME TypeInv, NEW c \in Clients, copy[c] \in Configs, Applied(c),
         c \in Requests => op[c] \in {"deny", "undo"}
  PROVE  /\ running' \in Configs
         /\ Returned(running')
         /\ direction' \in [Macs -> {"deny", "undo"}]
         /\ excused' \subseteq Macs
         /\ disturbed' \subseteq Requests
         /\ \A m \in Macs : Dropped(running', m) <=> Dropped(copy[c], m)
<1>1. /\ running' = Filled(copy[c])
      /\ disturbed' = disturbed \cup (Requests \ {c})
      /\ excused' \subseteq excused \cup Macs
      /\ direction' = IF c \in Requests THEN [direction EXCEPT ![mac[c]] = op[c]]
                                        ELSE direction
  BY DEF Applied
<1>2. /\ disturbed \subseteq Requests /\ excused \subseteq Macs /\ mac[c] \in Macs
      /\ direction \in [Macs -> {"deny", "undo"}]
  BY DEF TypeInv, TypeOK
<1>3. direction' \in [Macs -> {"deny", "undo"}]
  BY <1>1, <1>2
<1> QED
  BY <1>1, <1>2, <1>3, FilledType, FilledDropped

(* What a request is about to send is a configuration. *)
LEMMA SendsConfig ==
  ASSUME TypeInv, NEW q \in Requests, pc[q] = "set"
  PROVE  /\ copy[q] \in Configs
         /\ op[q] \in {"deny", "undo"}
         /\ mac[q] \in Macs
         /\ Dropped(copy[q], mac[q]) <=> (op[q] = "deny")
<1>1. /\ base[q] \in Configs /\ op[q] \in {"deny", "undo"} /\ mac[q] \in Macs
      /\ copy[q] = Modified(base[q], op[q], mac[q])
  BY DEF TypeInv, TypeOK, RequestsConsistent, Clients
<1> QED
  BY <1>1, ModifiedType, ModifiedDropped

(* A save that did not return leaves the session with its form on a
   well-formed dict, or without one. *)
LEMMA SaveFailedType ==
  ASSUME TypeInv, NEW s \in Sessions, pc[s] \in {"set", "write"}, SaveFailed(s),
         running' \in Configs, disk' \in Configs,
         direction' \in [Macs -> {"deny", "undo"}],
         excused' \subseteq Macs, disturbed' \subseteq Requests,
         Returned(running'), Returned(disk')
  PROVE  TypeInv'
<1> USE ConfigAssumption
    DEF TypeInv, TypeOK, RequestsConsistent, SessionsConsistent, Forms,
        Clients, Ops, PCs, requestVars
<1>1. CASE op[s] = "settings"
  <2>1. /\ copy' = [copy EXCEPT ![s] = NoConfig] /\ base' = [base EXCEPT ![s] = NoConfig]
        /\ linked' = [linked EXCEPT ![s] = FALSE] /\ pc' = [pc EXCEPT ![s] = "idle"]
        /\ UNCHANGED <<cache, op, mac, attempt, outcome>>
    BY <1>1 DEF SaveFailed, Close, Forget
  <2>2. TypeOK'
    BY <2>1
  <2>3. RequestsConsistent'
    BY <2>1
  <2>4. SessionsConsistent'
    BY <2>1
  <2> QED
    BY <2>2, <2>3, <2>4
<1>2. CASE op[s] # "settings" /\ UNCHANGED copy
  BY <1>2 DEF SaveFailed
<1>3. CASE /\ op[s] = "add"
           /\ copy' = [copy EXCEPT ![s] =
                          WithReservation(copy[s], mac[s], NoReservation)]
  <2>1. copy[s] \in Configs /\ mac[s] \in Macs
    BY <1>3
  <2>2. WithReservation(copy[s], mac[s], NoReservation) \in Configs
    BY <2>1, EditedType
  <2> QED
    BY <1>3, <2>2 DEF SaveFailed
<1> QED
  BY <1>1, <1>2, <1>3 DEF SaveFailed

(* Every action keeps them. *)
LEMMA TypeNext == TypeInv /\ [Next]_vars => TypeInv'
<1> SUFFICES ASSUME TypeInv, [Next]_vars PROVE TypeInv'
  OBVIOUS
<1> USE ConfigAssumption
    DEF TypeInv, TypeOK, RequestsConsistent, SessionsConsistent, Forms,
        Clients, Ops, PCs, keaVars, requestVars, historyVars
<1>1. ASSUME NEW q \in Requests, NEW o \in {"deny", "undo"}, NEW m \in Macs, Ask(q, o, m) PROVE TypeInv'
  BY <1>1 DEF Ask
<1>2. ASSUME NEW q \in Requests, Get(q) PROVE TypeInv'
  BY <1>2, ModifiedType DEF Get
<1>3. ASSUME NEW q \in Requests, GetFailed(q) PROVE TypeInv'
  BY <1>3 DEF GetFailed, Raised, Forget
<1>4. ASSUME NEW q \in Requests, Set(q) PROVE TypeInv'
  <2>1. /\ running' \in Configs /\ Returned(running')
        /\ direction' \in [Macs -> {"deny", "undo"}]
        /\ excused' \subseteq Macs
        /\ disturbed' \subseteq Requests
    BY <1>4, SendsConfig, AppliedType DEF Set
  <2> HIDE DEF historyVars, keaVars
  <2> QED
    BY <1>4, <2>1 DEF Set, Forget
<1>5. ASSUME NEW q \in Requests, SetFailed(q) PROVE TypeInv'
  <2>1. /\ running' \in Configs /\ Returned(running')
        /\ direction' \in [Macs -> {"deny", "undo"}]
        /\ excused' \subseteq Macs
        /\ disturbed' \subseteq Requests
    <3>1. CASE Applied(q)
      BY <1>5, <3>1, SendsConfig, AppliedType DEF SetFailed
    <3>2. CASE UNCHANGED <<running, historyVars>>
      BY <3>2
    <3> QED
      BY <1>5, <3>1, <3>2 DEF SetFailed
  <2> HIDE DEF historyVars, keaVars
  <2> QED
    BY <1>5, <2>1 DEF SetFailed, Raised, Forget
<1>6. ASSUME NEW q \in Requests, Write(q) PROVE TypeInv'
  BY <1>6 DEF Write
<1>7. ASSUME NEW q \in Requests, WriteFailed(q) PROVE TypeInv'
  BY <1>7 DEF WriteFailed, Raised, Forget
<1>8. ASSUME NEW q \in Requests, LogSuccess(q) PROVE TypeInv'
  BY <1>8 DEF LogSuccess, Raised, Forget
<1>9. ASSUME NEW s \in Sessions, NEW form \in Forms, NEW m \in Macs, Open(s, form, m) PROVE TypeInv'
  BY <1>9 DEF Open
<1>10. ASSUME NEW s \in Sessions, Cancel(s) PROVE TypeInv'
  BY <1>10 DEF Cancel, Close, Forget
<1>11. ASSUME NEW s \in Sessions, NEW m \in Macs, NEW withIp \in Addressed, PressAdd(s, m, withIp) PROVE TypeInv'
  <2>1. copy[s] \in Configs /\ withIp \in BOOLEAN
    BY <1>11 DEF PressAdd, Press
  <2>2. WithReservation(copy[s], m, Entry(withIp)) \in Configs
    BY <2>1, EditedType, EntryType
  <2>3. WithReservation(copy[s], m, Entry(withIp)) # Spoiled
    BY <2>2
  <2> QED
    BY <1>11, <2>2, <2>3 DEF PressAdd, Press
<1>12. ASSUME NEW s \in Sessions, NEW m \in Macs, NEW withIp \in Addressed, PressSave(s, m, withIp) PROVE TypeInv'
  BY <1>12, EditedType, EntryType DEF PressSave, Press, Replaced
<1>13. ASSUME NEW s \in Sessions, PressDelete(s) PROVE TypeInv'
  BY <1>13, EditedType, EntryType DEF PressDelete, Press
<1>14. ASSUME NEW s \in Sessions, NEW v \in Settings, PressSettings(s, v) PROVE TypeInv'
  BY <1>14 DEF PressSettings, Press, Configs
<1>15. ASSUME NEW s \in Sessions, SessionSet(s) PROVE TypeInv'
  <2>1. /\ running' \in Configs /\ Returned(running')
        /\ direction' \in [Macs -> {"deny", "undo"}]
        /\ excused' \subseteq Macs
        /\ disturbed' \subseteq Requests
    <3>1. copy[s] \in Configs /\ s \notin Requests
      BY <1>15 DEF SessionSet
    <3> QED
      BY <1>15, <3>1, AppliedType DEF SessionSet
  <2> HIDE DEF historyVars, keaVars
  <2> QED
    BY <1>15, <2>1 DEF SessionSet
<1>16. ASSUME NEW s \in Sessions, SessionSetFailed(s) PROVE TypeInv'
  <2>1. pc[s] \in {"set", "write"} /\ SaveFailed(s)
    BY <1>16 DEF SessionSetFailed
  <2>2. /\ running' \in Configs /\ disk' \in Configs
        /\ direction' \in [Macs -> {"deny", "undo"}]
        /\ excused' \subseteq Macs
        /\ disturbed' \subseteq Requests
        /\ Returned(running') /\ Returned(disk')
    <3>1. CASE copy[s] # Spoiled /\ Applied(s)
      <4>1. copy[s] \in Configs /\ s \notin Requests /\ s \in Clients
        BY <1>16, <3>1 DEF SessionSetFailed
      <4>2. UNCHANGED disk
        BY <1>16 DEF SessionSetFailed
      <4> QED
        BY <3>1, <4>1, <4>2, AppliedType
    <3>2. CASE UNCHANGED <<running, historyVars>>
      BY <1>16, <3>2 DEF SessionSetFailed
    <3> QED
      BY <1>16, <3>1, <3>2 DEF SessionSetFailed
  <2> QED
    BY <2>1, <2>2, SaveFailedType DEF TypeInv
<1>17. ASSUME NEW s \in Sessions, SessionWrite(s) PROVE TypeInv'
  BY <1>17 DEF SessionWrite, Close, Forget
<1>18. ASSUME NEW s \in Sessions, SessionWriteFailed(s) PROVE TypeInv'
  <2>1. pc[s] \in {"set", "write"} /\ SaveFailed(s)
    BY <1>18 DEF SessionWriteFailed
  <2>2. /\ running' \in Configs /\ disk' \in Configs
        /\ direction' \in [Macs -> {"deny", "undo"}]
        /\ excused' \subseteq Macs
        /\ disturbed' \subseteq Requests
        /\ Returned(running') /\ Returned(disk')
    BY <1>18 DEF SessionWriteFailed
  <2> QED
    BY <2>1, <2>2, SaveFailedType DEF TypeInv
<1>19. ASSUME LoadConfig PROVE TypeInv'
  BY <1>19 DEF LoadConfig
<1>20. ASSUME Expire PROVE TypeInv'
  BY <1>20 DEF Expire
<1>21. ASSUME KeaRestart PROVE TypeInv'
  BY <1>21 DEF KeaRestart
<1>22. ASSUME UNCHANGED vars PROVE TypeInv'
  BY <1>22 DEF vars
<1> HIDE DEF TypeInv, TypeOK, RequestsConsistent, SessionsConsistent
<1> QED
  BY <1>1, <1>2, <1>3, <1>4, <1>5, <1>6, <1>7, <1>8, <1>9, <1>10, <1>11, <1>12,
     <1>13, <1>14, <1>15, <1>16, <1>17, <1>18, <1>19, <1>20, <1>21, <1>22
     DEF Next, RequestStep, SessionStep, Forms

-----------------------------------------------------------------------------
(* Whoever replaces the configuration disturbs every other request, so the
   base of a request that is not disturbed is still what Kea runs. *)

LEMMA ProgressInit == Init => UndisturbedProgress
  BY DEF Init, UndisturbedProgress, Clients

LEMMA ProgressNext ==
  TypeInv /\ UndisturbedProgress /\ [Next]_vars => UndisturbedProgress'
<1> SUFFICES ASSUME TypeInv, UndisturbedProgress, [Next]_vars PROVE UndisturbedProgress'
  OBVIOUS
<1> USE ConfigAssumption
    DEF TypeInv, TypeOK, RequestsConsistent, SessionsConsistent, UndisturbedProgress,
        Clients, PCs, keaVars, requestVars, historyVars
<1>1. ASSUME NEW q \in Requests, NEW o \in {"deny", "undo"}, NEW m \in Macs, Ask(q, o, m) PROVE UndisturbedProgress'
  BY <1>1 DEF Ask
<1>2. ASSUME NEW q \in Requests, Get(q) PROVE UndisturbedProgress'
  BY <1>2 DEF Get
<1>3. ASSUME NEW q \in Requests, GetFailed(q) PROVE UndisturbedProgress'
  BY <1>3 DEF GetFailed, Raised, Forget
<1>4. ASSUME NEW q \in Requests, Set(q) PROVE UndisturbedProgress'
  <2>1. /\ Dropped(running', mac[q]) <=> (op[q] = "deny")
        /\ disturbed' = disturbed \cup (Requests \ {q})
    BY <1>4, SendsConfig, AppliedType DEF Set, Applied
  <2> QED
    BY <1>4, <2>1 DEF Set, Forget
<1>5. ASSUME NEW q \in Requests, SetFailed(q) PROVE UndisturbedProgress'
  <2>1. \A p \in Requests \ disturbed' : p = q \/ UNCHANGED <<running, disturbed>>
    BY <1>5 DEF SetFailed, Applied
  <2> QED
    BY <1>5, <2>1 DEF SetFailed, Raised, Forget
<1>6. ASSUME NEW q \in Requests, Write(q) PROVE UndisturbedProgress'
  BY <1>6 DEF Write
<1>7. ASSUME NEW q \in Requests, WriteFailed(q) PROVE UndisturbedProgress'
  BY <1>7 DEF WriteFailed, Raised, Forget
<1>8. ASSUME NEW q \in Requests, LogSuccess(q) PROVE UndisturbedProgress'
  BY <1>8 DEF LogSuccess, Raised, Forget
<1>9. ASSUME NEW s \in Sessions, NEW form \in Forms, NEW m \in Macs, Open(s, form, m) PROVE UndisturbedProgress'
  BY <1>9 DEF Open
<1>10. ASSUME NEW s \in Sessions, Cancel(s) PROVE UndisturbedProgress'
  BY <1>10 DEF Cancel, Close, Forget
<1>11. ASSUME NEW s \in Sessions, NEW m \in Macs, NEW withIp \in Addressed, PressAdd(s, m, withIp) PROVE UndisturbedProgress'
  BY <1>11 DEF PressAdd, Press
<1>12. ASSUME NEW s \in Sessions, NEW m \in Macs, NEW withIp \in Addressed, PressSave(s, m, withIp) PROVE UndisturbedProgress'
  BY <1>12 DEF PressSave, Press, Replaced
<1>13. ASSUME NEW s \in Sessions, PressDelete(s) PROVE UndisturbedProgress'
  BY <1>13 DEF PressDelete, Press
<1>14. ASSUME NEW s \in Sessions, NEW v \in Settings, PressSettings(s, v) PROVE UndisturbedProgress'
  BY <1>14 DEF PressSettings, Press
<1>15. ASSUME NEW s \in Sessions, SessionSet(s) PROVE UndisturbedProgress'
  BY <1>15 DEF SessionSet, Applied
<1>16. ASSUME NEW s \in Sessions, SessionSetFailed(s) PROVE UndisturbedProgress'
  BY <1>16 DEF SessionSetFailed, SaveFailed, Close, Forget, Applied
<1>17. ASSUME NEW s \in Sessions, SessionWrite(s) PROVE UndisturbedProgress'
  BY <1>17 DEF SessionWrite, Close, Forget
<1>18. ASSUME NEW s \in Sessions, SessionWriteFailed(s) PROVE UndisturbedProgress'
  BY <1>18 DEF SessionWriteFailed, SaveFailed, Close, Forget
<1>19. ASSUME LoadConfig PROVE UndisturbedProgress'
  BY <1>19 DEF LoadConfig
<1>20. ASSUME Expire PROVE UndisturbedProgress'
  BY <1>20 DEF Expire
<1>21. ASSUME KeaRestart PROVE UndisturbedProgress'
  BY <1>21 DEF KeaRestart
<1>22. ASSUME UNCHANGED vars PROVE UndisturbedProgress'
  BY <1>22 DEF vars
<1> QED
  BY <1>1, <1>2, <1>3, <1>4, <1>5, <1>6, <1>7, <1>8, <1>9, <1>10, <1>11, <1>12,
     <1>13, <1>14, <1>15, <1>16, <1>17, <1>18, <1>19, <1>20, <1>21, <1>22
     DEF Next, RequestStep, SessionStep, Forms

-----------------------------------------------------------------------------
(* A config that is sent from its base changes one reservation (a request) or
   marks as excused what it changes (a form). *)

LEMMA DriftInit == Init => DriftNeedsStaleBase
  BY DEF Init, DriftNeedsStaleBase

LEMMA AppliedRequestDrift ==
  ASSUME TypeInv, DriftNeedsStaleBase, NEW q \in Requests, pc[q] = "set", Applied(q)
  PROVE  DriftNeedsStaleBase'
<1>1. CASE base[q] # running
  BY <1>1 DEF Applied, DriftNeedsStaleBase
<1>2. CASE base[q] = running
  <2> SUFFICES ASSUME NEW m \in Macs, m \notin excused'
               PROVE  Dropped(running', m) <=> (direction'[m] = "deny")
    BY DEF DriftNeedsStaleBase
  <2>1. /\ running \in Configs /\ op[q] \in {"deny", "undo"} /\ mac[q] \in Macs
        /\ copy[q] = Modified(running, op[q], mac[q])
        /\ direction' = [direction EXCEPT ![mac[q]] = op[q]]
        /\ excused' = excused \ {mac[q]}
    BY <1>2 DEF Applied, TypeInv, TypeOK, RequestsConsistent, Clients
  <2>2. Dropped(running', m) <=> Dropped(copy[q], m)
    BY SendsConfig, AppliedType DEF Clients
  <2>3. CASE m = mac[q]
    BY <2>1, <2>2, <2>3, ModifiedDropped DEF TypeInv, TypeOK
  <2>4. CASE m # mac[q]
    <3>1. copy[q].reservations[m] = running.reservations[m]
      BY <2>1, <2>4, ModifiedElsewhere
    <3>2. m \notin excused /\ direction'[m] = direction[m]
      BY <2>1, <2>4 DEF TypeInv, TypeOK
    <3>3. Dropped(copy[q], m) <=> Dropped(running, m)
      BY <3>1 DEF Dropped
    <3> QED
      BY <2>2, <3>2, <3>3 DEF DriftNeedsStaleBase
  <2> QED
    BY <2>3, <2>4
<1> QED
  BY <1>1, <1>2

LEMMA AppliedSessionDrift ==
  ASSUME TypeInv, DriftNeedsStaleBase, NEW s \in Sessions,
         copy[s] \in Configs, Applied(s)
  PROVE  DriftNeedsStaleBase'
<1>1. CASE base[s] # running
  BY <1>1 DEF Applied, DriftNeedsStaleBase
<1>2. CASE base[s] = running
  <2> SUFFICES ASSUME NEW m \in Macs, m \notin excused'
               PROVE  Dropped(running', m) <=> (direction'[m] = "deny")
    BY DEF DriftNeedsStaleBase
  <2>1. s \in Clients /\ s \notin Requests
    BY ConfigAssumption DEF Clients
  <2>2. /\ copy[s].reservations[m] = running.reservations[m]
        /\ m \notin excused /\ direction' = direction
    BY <1>2, <2>1 DEF Applied
  <2>3. Dropped(running', m) <=> Dropped(copy[s], m)
    BY <2>1, AppliedType
  <2>4. Dropped(copy[s], m) <=> Dropped(running, m)
    BY <2>2 DEF Dropped
  <2> QED
    BY <2>2, <2>3, <2>4 DEF DriftNeedsStaleBase
<1> QED
  BY <1>1, <1>2

LEMMA DriftNext ==
  TypeInv /\ DriftNeedsStaleBase /\ [Next]_vars => DriftNeedsStaleBase'
<1> SUFFICES ASSUME TypeInv, DriftNeedsStaleBase, [Next]_vars PROVE DriftNeedsStaleBase'
  OBVIOUS
<1>1. ASSUME NEW q \in Requests, Set(q) \/ SetFailed(q) PROVE DriftNeedsStaleBase'
  <2>1. CASE Applied(q)
    BY <1>1, <2>1, AppliedRequestDrift DEF Set, SetFailed
  <2>2. CASE UNCHANGED <<running, historyVars>>
    BY <2>2 DEF DriftNeedsStaleBase, historyVars
  <2> QED
    BY <1>1, <2>1, <2>2 DEF Set, SetFailed
<1>2. ASSUME NEW s \in Sessions, SessionSet(s) \/ SessionSetFailed(s)
      PROVE  DriftNeedsStaleBase'
  <2>1. CASE copy[s] # Spoiled /\ Applied(s)
    <3>1. copy[s] \in Configs
      BY <1>2, <2>1 DEF SessionSet, SessionSetFailed, TypeInv, SessionsConsistent
    <3> QED
      BY <2>1, <3>1, AppliedSessionDrift
  <2>2. CASE UNCHANGED <<running, historyVars>>
    BY <2>2 DEF DriftNeedsStaleBase, historyVars
  <2> QED
    BY <1>2, <2>1, <2>2 DEF SessionSet, SessionSetFailed
<1>3. CASE KeaRestart
  BY <1>3 DEF KeaRestart, DriftNeedsStaleBase
<1>4. ASSUME NEW q \in Requests,
             \/ Get(q) \/ GetFailed(q) \/ Write(q) \/ WriteFailed(q) \/ LogSuccess(q)
             \/ \E o \in {"deny", "undo"}, m \in Macs : Ask(q, o, m)
      PROVE  UNCHANGED <<running, direction, excused>>
  BY <1>4 DEF Get, GetFailed, Write, WriteFailed, LogSuccess, Ask, keaVars, historyVars
<1>5. ASSUME NEW s \in Sessions,
             \/ Cancel(s) \/ PressDelete(s) \/ SessionWrite(s) \/ SessionWriteFailed(s)
             \/ \E form \in Forms, m \in Macs : Open(s, form, m)
             \/ \E m \in Macs, withIp \in Addressed :
                   PressAdd(s, m, withIp) \/ PressSave(s, m, withIp)
             \/ \E v \in Settings : PressSettings(s, v)
      PROVE  UNCHANGED <<running, direction, excused>>
  BY <1>5 DEF Cancel, PressDelete, SessionWrite, SessionWriteFailed, Open, PressAdd,
              PressSave, PressSettings, Press, keaVars, historyVars
<1>6. CASE LoadConfig \/ Expire \/ UNCHANGED vars
  BY <1>6 DEF LoadConfig, Expire, vars, DriftNeedsStaleBase, keaVars, historyVars
<1>7. UNCHANGED <<running, direction, excused>> => DriftNeedsStaleBase'
  BY DEF DriftNeedsStaleBase
<1> QED
  BY <1>1, <1>2, <1>3, <1>4, <1>5, <1>6, <1>7 DEF Next, RequestStep, SessionStep, Forms

-----------------------------------------------------------------------------

LEMMA Invariance == Spec => []IInv
<1>1. Init => IInv
  BY TypeInit, ProgressInit, DriftInit DEF IInv
<1>2. IInv /\ [Next]_vars => IInv'
  BY TypeNext, ProgressNext, DriftNext DEF IInv
<1> QED
  BY <1>1, <1>2, PTL DEF Spec

(* The configuration of Kea, its file, the cache and every client keep the
   shape the code gives them. *)
THEOREM TypeCorrect == Spec => []TypeOK
<1>1. IInv => TypeOK
  BY DEF IInv, TypeInv
<1> QED
  BY <1>1, Invariance, PTL

(* A deny or undo that run_with_retries reports as succeeded, and whose base
   nobody replaced, is in force in Kea and in kea-dhcp4.conf. *)
THEOREM UndisturbedSuccess == Spec => []UndisturbedSuccessHolds
<1>1. IInv => UndisturbedSuccessHolds
  BY DEF IInv, UndisturbedProgress, UndisturbedSuccessHolds
<1> QED
  BY <1>1, Invariance, PTL

(* Kea disagrees with the last deny or undo of a MAC only after a write from
   a stale base, a form that rewrote the reservation, or a restart. *)
THEOREM DriftOnlyByStaleBase == Spec => []DriftNeedsStaleBase
<1>1. IInv => DriftNeedsStaleBase
  BY DEF IInv
<1> QED
  BY <1>1, Invariance, PTL

(* A config-set of the service that is sent from what Kea runs changes the
   DROP class of one reservation and nothing else. *)
THEOREM FreshSetsAreLocal == Spec => FreshSetIsLocal
<1> DEFINE Local(q) ==
      /\ running'.settings = running.settings
      /\ \A m \in Macs \ {mac[q]} : running'.reservations[m] = running.reservations[m]
      /\ LET old == running.reservations[mac[q]]
             new == running'.reservations[mac[q]]
         IN  old # NoReservation =>
                /\ new # NoReservation
                /\ new.fields = old.fields
                /\ new.classes \ {"DROP"} = old.classes \ {"DROP"}
<1>1. ASSUME IInv, NEW q \in Requests, Set(q), base[q] = running PROVE Local(q)
  <2>1. /\ running \in Configs /\ op[q] \in {"deny", "undo"} /\ mac[q] \in Macs
        /\ copy[q] = Modified(running, op[q], mac[q]) /\ copy[q] \in Configs
        /\ running' = Filled(copy[q])
        /\ Returned(running)
    BY <1>1, SendsConfig DEF IInv, TypeInv, TypeOK, RequestsConsistent, Clients, Set, Applied
  <2>2. running'.settings = running.settings
    BY <2>1, ModifiedElsewhere, FilledType
  <2>3. ASSUME NEW m \in Macs \ {mac[q]}
        PROVE  running'.reservations[m] = running.reservations[m]
    <3>1. copy[q].reservations[m] = running.reservations[m]
      BY <2>1, ModifiedElsewhere
    <3>2. copy[q].reservations[m] # NoReservation => copy[q].reservations[m].filled
      BY <2>1, <3>1 DEF Returned
    <3> QED
      BY <2>1, <3>1, <3>2, FilledAgain
  <2>4. ASSUME running.reservations[mac[q]] # NoReservation
        PROVE  /\ running'.reservations[mac[q]] # NoReservation
               /\ running'.reservations[mac[q]].fields = running.reservations[mac[q]].fields
               /\ running'.reservations[mac[q]].classes \ {"DROP"}
                     = running.reservations[mac[q]].classes \ {"DROP"}
    <3>1. running.reservations[mac[q]].filled
      BY <2>1, <2>4 DEF Returned
    <3>2. /\ copy[q].reservations[mac[q]] # NoReservation
          /\ copy[q].reservations[mac[q]].fields = running.reservations[mac[q]].fields
          /\ copy[q].reservations[mac[q]].classes \ {"DROP"}
                = running.reservations[mac[q]].classes \ {"DROP"}
      BY <2>1, <2>4, <3>1, ModifiedKeepsFields, ConfigAssumption
    <3> QED
      BY <2>1, <3>2, FilledType, ConfigAssumption
  <2> QED
    BY <2>2, <2>3, <2>4
<1>2. IInv /\ [Next]_vars =>
         [\A q \in Requests : Set(q) /\ base[q] = running => Local(q)]_vars
  BY <1>1
<1> QED
  BY <1>2, Invariance, PTL DEF Spec, FreshSetIsLocal

-----------------------------------------------------------------------------
(* The requests as calls of the retry wrapper *)

(* Get is where an attempt begins; the log is what follows its return. *)
Phase(q) ==
    CASE pc[q] = "idle" -> "idle"
      [] pc[q] = "get" -> "begin"
      [] pc[q] = "log" -> "returned"
      [] OTHER -> "inside"

Retry(q) == INSTANCE RetryCall WITH
    phase <- Phase(q), attempt <- attempt[q], outcome <- outcome[q]

(* run_with_retries (retry.py:28-32) around the Kea step of deny and undo:
   each request is a call that never skips the beginning of an attempt and
   never succeeds or gives up out of turn. *)
RequestsAreRetried ==
    /\ \A q \in Requests : Retry(q)!Init
    /\ [][\A q \in Requests : [Retry(q)!Next]_(Retry(q)!vars)]_vars

(* An attempt that raised is followed by one from its beginning, or was the
   last. *)
LEMMA RaisedIsRetried ==
  ASSUME TypeInv, NEW q \in Requests, Raised(q), pc[q] # "idle"
  PROVE  Retry(q)!Next
<1>1. /\ pc \in [Clients -> PCs] /\ attempt \in [Requests -> 1..MAX_ATTEMPTS]
      /\ outcome \in [Requests -> {"none", "ok", "failed"}] /\ q \in Clients
      /\ MAX_ATTEMPTS \in Nat
  BY ConfigAssumption DEF TypeInv, TypeOK, Clients
<1>2. Phase(q) # "idle"
  BY DEF Phase
<1>3. CASE attempt[q] < MAX_ATTEMPTS
  BY <1>1, <1>2, <1>3 DEF Raised, Phase, Retry!Next, Retry!Again
<1>4. CASE ~(attempt[q] < MAX_ATTEMPTS)
  BY <1>1, <1>2, <1>4 DEF Raised, Phase, Retry!Next, Retry!GiveUp
<1> QED
  BY <1>3, <1>4

(* A step of a request is a step of its own call. *)
LEMMA RequestRetries ==
  ASSUME TypeInv, NEW q \in Requests, RequestStep(q)
  PROVE  Retry(q)!Next
<1>1. /\ pc \in [Clients -> PCs] /\ q \in Clients
      /\ outcome \in [Requests -> {"none", "ok", "failed"}]
  BY DEF TypeInv, TypeOK, Clients
<1>2. CASE Get(q) \/ Set(q)
  BY <1>1, <1>2 DEF Get, Set, requestVars, Phase, Retry!Next, Retry!Work, Retry!Attempting
<1>3. CASE Write(q)
  BY <1>1, <1>3 DEF Write, requestVars, Phase, Retry!Next, Retry!Return, Retry!Attempting
<1>4. CASE GetFailed(q) \/ SetFailed(q) \/ WriteFailed(q)
  BY <1>4, RaisedIsRetried DEF GetFailed, SetFailed, WriteFailed
<1>5. CASE LogSuccess(q)
  <2>1. CASE Raised(q)
    BY <1>5, <2>1, RaisedIsRetried DEF LogSuccess
  <2>2. CASE ~Raised(q)
    BY <1>1, <1>5, <2>2 DEF LogSuccess, Phase, Retry!Next, Retry!Succeed
  <2> QED
    BY <2>1, <2>2
<1> QED
  BY <1>2, <1>3, <1>4, <1>5 DEF RequestStep

(* What does not move a request is a stutter of its call. *)
LEMMA OthersStutter ==
  ASSUME NEW q \in Requests,
         pc'[q] = pc[q], attempt'[q] = attempt[q], outcome'[q] = outcome[q]
  PROVE  UNCHANGED Retry(q)!vars
BY DEF Phase, Retry!vars

(* A client moves no other one. *)
LEMMA ClientsMoveAlone ==
  ASSUME TypeInv, Next, NEW q \in Requests,
         ~RequestStep(q), \A o \in {"deny", "undo"}, m \in Macs : ~Ask(q, o, m)
  PROVE  pc'[q] = pc[q] /\ attempt'[q] = attempt[q] /\ outcome'[q] = outcome[q]
<1>1. /\ pc \in [Clients -> PCs] /\ attempt \in [Requests -> 1..MAX_ATTEMPTS]
      /\ outcome \in [Requests -> {"none", "ok", "failed"}]
      /\ q \in Clients /\ q \notin Sessions
  BY ConfigAssumption DEF TypeInv, TypeOK, Clients
<1>2. CASE \E r \in Requests, o \in {"deny", "undo"}, m \in Macs : Ask(r, o, m)
  BY <1>1, <1>2 DEF Ask
<1>3. CASE \E r \in Requests : RequestStep(r)
  <2>1. PICK r \in Requests : RequestStep(r)
    BY <1>3
  <2>2. r # q
    BY <2>1
  <2>3. CASE Raised(r)
    BY <1>1, <2>2, <2>3 DEF Raised
  <2>4. CASE ~Raised(r)
    BY <1>1, <2>1, <2>2, <2>4
    DEF RequestStep, Get, GetFailed, Set, SetFailed, Write, WriteFailed, LogSuccess, requestVars
  <2> QED
    BY <2>3, <2>4
<1>4. CASE \E s \in Sessions : SessionStep(s)
  <2>1. PICK s \in Sessions : SessionStep(s)
    BY <1>4
  <2>2. s # q
    BY <1>1
  <2>3. UNCHANGED requestVars
    BY <2>1 DEF SessionStep, Open, Cancel, Close, PressAdd, PressSave, PressDelete,
                PressSettings, Press, SessionSet, SessionSetFailed, SaveFailed,
                SessionWrite, SessionWriteFailed
  <2>4. pc'[q] = pc[q]
    BY <1>1, <2>1, <2>2
    DEF SessionStep, Open, Cancel, Close, PressAdd, PressSave, PressDelete, PressSettings,
        SessionSet, SessionSetFailed, SaveFailed, SessionWrite, SessionWriteFailed
  <2> QED
    BY <2>3, <2>4 DEF requestVars
<1>5. CASE LoadConfig \/ Expire \/ KeaRestart
  BY <1>5 DEF LoadConfig, Expire, KeaRestart, requestVars
<1> QED
  BY <1>2, <1>3, <1>4, <1>5 DEF Next

(* Whatever Kea answers or loses, and whoever else rewrites its configuration,
   each deny or undo makes its attempts one after the other from the
   config-get, at most MAX_ATTEMPTS, succeeds only after a config-write that
   was answered and gives up only after the last (retry.py). *)
THEOREM StepsImplementRetry == Spec => RequestsAreRetried
<1> DEFINE Retried == \A q \in Requests : [Retry(q)!Next]_(Retry(q)!vars)
<1>1. Init => \A q \in Requests : Retry(q)!Init
  <2> SUFFICES ASSUME Init, NEW q \in Requests PROVE Retry(q)!Init
    OBVIOUS
  <2>1. pc[q] = "idle" /\ attempt[q] = 1 /\ outcome[q] = "none"
    BY DEF Init, Clients
  <2> QED
    BY <2>1 DEF Phase, Retry!Init
<1>2. IInv /\ [Next]_vars => [Retried]_vars
  <2> SUFFICES ASSUME TypeInv, Next, NEW q \in Requests
               PROVE  [Retry(q)!Next]_(Retry(q)!vars)
    BY DEF IInv
  <2>1. CASE \E o \in {"deny", "undo"}, m \in Macs : Ask(q, o, m)
    <3>1. /\ pc \in [Clients -> PCs] /\ attempt \in [Requests -> 1..MAX_ATTEMPTS]
          /\ outcome \in [Requests -> {"none", "ok", "failed"}] /\ q \in Clients
      BY DEF TypeInv, TypeOK, Clients
    <3> QED
      BY <2>1, <3>1 DEF Ask, Phase, Retry!Next, Retry!Call
  <2>2. CASE RequestStep(q)
    BY <2>2, RequestRetries
  <2>3. CASE ~RequestStep(q) /\ \A o \in {"deny", "undo"}, m \in Macs : ~Ask(q, o, m)
    BY <2>3, ClientsMoveAlone, OthersStutter
  <2> QED
    BY <2>1, <2>2, <2>3
<1> QED
  BY <1>1, <1>2, Invariance, PTL DEF Spec, RequestsAreRetried
=============================================================================
