---------------------------- MODULE MCXTimeline ----------------------------
(* Small instances of XTimeline for TLC. *)
EXTENDS XTimeline, TLC

CONSTANTS f1, f2, a1, a2

MCOne      == {f1}
MCTwo      == {f1, f2}
MCAccount  == {a1}
MCAccounts == {a1, a2}

MCSymmetry == Permutations(MCTwo) \cup Permutations(MCAccounts)
=============================================================================
