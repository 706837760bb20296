----------------------------- MODULE GatedRelease -----------------------------
(***************************************************************************)
(* What the release of a database promises a reader of the site: a snapshot *)
(* is on trial from the moment it is shown until it is accepted or          *)
(* withdrawn, only the accepted one is shown otherwise, one is on trial at  *)
(* a time, and what is shown never changes under the reader except by these *)
(* three steps.  ApplyUpdate implements it with two slots, an nginx include *)
(* and a journal (src/deploy/sync/apply_db_update.py).                      *)
(***************************************************************************)
CONSTANTS Snapshots, Initial

VARIABLES
  shown,     \* the snapshot the active release shows
  accepted   \* the snapshot the producer may base its next delta on

TypeOK == shown \in Snapshots /\ accepted \in Snapshots

Init == shown = Initial /\ accepted = Initial

\* A snapshot goes on trial.
Show(s) == /\ shown = accepted
           /\ shown' = s
           /\ UNCHANGED accepted

\* It passed every gate.
Accept == /\ accepted' = shown
          /\ UNCHANGED shown

\* It did not: the release goes back to the accepted snapshot.
Withdraw == /\ shown' = accepted
            /\ UNCHANGED accepted

Next == (\E s \in Snapshots : Show(s)) \/ Accept \/ Withdraw

Spec == Init /\ [][Next]_<<shown, accepted>>
=============================================================================
