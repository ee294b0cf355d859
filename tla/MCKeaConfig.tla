---------------------------- MODULE MCKeaConfig ----------------------------
(***************************************************************************)
(* KeaConfig on a small instance: one request and one session, which meet  *)
(* at one MAC with a reservation made by an admin.                         *)
(***************************************************************************)
EXTENDS KeaConfig, TLC

CONSTANTS q1, s1, m1, v1

OneRequest == {q1}
OneSession == {s1}
OneMac == {m1}
OneSetting == {v1}

With(reservation) ==
    [reservations |-> [m \in Macs |-> reservation], settings |-> v1]

FixedAddress ==
    {With([fields |-> {"ip-address"}, classes |-> {}, filled |-> TRUE])}
=============================================================================
