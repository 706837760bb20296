------------------------- MODULE MCSnapshotTransfer -------------------------
(* A small instance of SnapshotTransfer for TLC. *)
EXTENDS SnapshotTransfer, TLC

CONSTANTS cron, manual

MCProducers == {cron, manual}
=============================================================================
