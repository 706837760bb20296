----------------------------- MODULE MCHotCache -----------------------------
(* Small instances of HotCache for TLC. *)
EXTENDS HotCache, TLC

CONSTANTS d1, d2, a, b

MCDatabases == {d1, d2}
MCDigests   == {a, b}
MCSymmetry  == Permutations(MCDatabases) \cup Permutations(MCDigests)
=============================================================================
