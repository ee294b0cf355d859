----------------------------- MODULE MCAccounts -----------------------------
(***************************************************************************)
(* Small instances of Accounts for TLC.                                    *)
(***************************************************************************)
EXTENDS Accounts, TLC

CONSTANTS tom, ann, s1, s2, b1

OneBrowser == [s \in Sessions |-> b1]
TabSymmetry == Permutations(Sessions)
=============================================================================
