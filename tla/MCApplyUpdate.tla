---------------------------- MODULE MCApplyUpdate ----------------------------
(* Instances of ApplyUpdate for TLC: two ports, the serving snapshot and        *)
(* another one.                                                                *)
EXTENDS ApplyUpdate

\* The probes tell the snapshots apart, or do not.
MCTellsApart == [s \in Snapshots |-> s]
MCAlike      == [s \in Snapshots |-> Initial]
=============================================================================
