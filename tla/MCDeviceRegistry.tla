-------------------------- MODULE MCDeviceRegistry --------------------------
(***************************************************************************)
(* DeviceRegistry with two writers on one row, which is where they meet,   *)
(* and with a single one, whose reads are never old.                       *)
(***************************************************************************)
EXTENDS DeviceRegistry, TLC

CONSTANTS p1, p2, n1, h1, h2, a1, f1

TwoWriters == {p1, p2}
OneWriter == {p1}
OneName == {n1}
TwoHostnames == {h1, h2}
OneAddress == {a1}
OneFingerprint == {f1}

WriterSymmetry ==
    Permutations(TwoWriters) \cup Permutations(TwoHostnames)
=============================================================================
