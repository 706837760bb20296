----------------------------- MODULE ReleaseIntake -----------------------------
(***************************************************************************)
(* What the release of the server promises the producer that hands it       *)
(* databases (src/deploy/sync/apply_db_update.py, as seen from              *)
(* sync-db-to-server.sh): what becomes of a published database and its      *)
(* sidecar, what the journal says of it, and when the site shows it.        *)
(* ApplyUpdate implements it; SnapshotTransfer is written against it.       *)
(*                                                                          *)
(* Slots, nginx, systemd, oracle and retry counts are gone: of a release it *)
(* is left that a database is claimed, built, put on trial (GatedRelease),  *)
(* and accepted or put aside, that a process may die between any two steps, *)
(* and that the next one goes on from the journal.                          *)
(***************************************************************************)
CONSTANTS Snapshots, Initial, None

VARIABLES
  sidecars,           \* published manifests: of which database, with whose oracle
  incoming, claimed,  \* the published database, the claimed one
  journal,            \* the state of the release, and of which database
  evidence,           \* the sidecar in the quarantine under way: none, still due, taken
  shown, accepted,    \* what the site shows; what deltas may build on
  apply,              \* the process: off, or what it is about
  after               \* where it goes from a release that is over

fileVars    == <<sidecars, incoming, claimed>>
releaseVars == <<shown, accepted>>
processVars == <<apply, after>>
intakeVars  == <<fileVars, journal, evidence, releaseVars, processVars>>

Release == INSTANCE GatedRelease

Manifest == [id : Snapshots, oracle : Snapshots]

Journal ==
  [state : {"idle", "claiming", "building", "trial", "verified", "committed",
            "quarantining", "quarantined", "blocked"},
   id : Snapshots \cup {None}]

TypeOK ==
  /\ sidecars \subseteq Manifest
  /\ incoming \in Snapshots \cup {None} /\ claimed \in Snapshots \cup {None}
  /\ journal \in Journal /\ evidence \in {"none", "due", "taken"}
  /\ Release!TypeOK
  /\ apply \in {"off", "reconcile", "look", "forward", "back", "record"}
  /\ after \in {"off", "look"}

Of(id) == {m \in sidecars : m.id = id}

Write(state, id) == journal' = [state |-> state, id |-> id]

In(phase, state) == apply = phase /\ journal.state = state

Goto(phase) == apply' = phase /\ UNCHANGED after

\* The release is over.
Leave == apply' = after /\ after' = "look"

Exit == apply' = "off" /\ after' = "look"

-----------------------------------------------------------------------------
(* The producer *)

Offer(m) ==
  /\ sidecars' = sidecars \cup {m}
  /\ UNCHANGED <<incoming, claimed, journal, evidence, releaseVars, processVars>>

Deliver(s) ==
  /\ incoming' = s
  /\ UNCHANGED <<sidecars, claimed, journal, evidence, releaseVars, processVars>>

-----------------------------------------------------------------------------
(* A process begins, may die anywhere, and starts from the journal *)

Start ==
  /\ apply = "off"
  /\ Goto("reconcile")
  /\ UNCHANGED <<fileVars, journal, evidence, releaseVars>>

Die ==
  /\ apply # "off"
  /\ Exit
  /\ UNCHANGED <<fileVars, journal, evidence, releaseVars>>

Settled ==
  /\ In("reconcile", "idle") \/ In("reconcile", "quarantined")
  /\ Leave
  /\ UNCHANGED <<fileVars, journal, evidence, releaseVars>>

\* The claim was journalled and not made.
Unclaimed ==
  /\ In("reconcile", "claiming") /\ claimed = None
  /\ Write("idle", None)
  /\ Leave
  /\ UNCHANGED <<fileVars, evidence, releaseVars>>

\* Forward: another attempt, the finalization, the cleanup.
Resume ==
  /\ In("reconcile", "building") \/ In("reconcile", "verified") \/ In("reconcile", "committed")
  /\ Goto("forward")
  /\ UNCHANGED <<fileVars, journal, evidence, releaseVars>>

\* Back: a trial is broken off, a quarantine completed.
Undo ==
  /\ In("reconcile", "trial") \/ In("reconcile", "quarantining")
  /\ Goto("back")
  /\ UNCHANGED <<fileVars, journal, evidence, releaseVars>>

\* The verifier is another one by now: an operator has to decide.
Block ==
  /\ In("reconcile", "building")
  /\ Write("blocked", journal.id)
  /\ Exit
  /\ UNCHANGED <<fileVars, evidence, releaseVars>>

StayBlocked ==
  /\ In("reconcile", "blocked")
  /\ Exit
  /\ UNCHANGED <<fileVars, journal, evidence, releaseVars>>

-----------------------------------------------------------------------------
(* A new database *)

LookInVain ==
  /\ apply = "look" /\ incoming = None
  /\ Exit
  /\ UNCHANGED <<fileVars, journal, evidence, releaseVars>>

Look ==
  /\ apply = "look" /\ incoming # None
  /\ Write("claiming", None)
  /\ apply' = "forward" /\ after' = "off"
  /\ UNCHANGED <<fileVars, evidence, releaseVars>>

Claim ==
  /\ In("forward", "claiming") /\ claimed = None
  /\ claimed' = incoming /\ incoming' = None
  /\ UNCHANGED <<sidecars, journal, evidence, releaseVars, processVars>>

\* With its sidecar, a claimed database is built.
Select ==
  /\ In("forward", "claiming") \/ In("reconcile", "claiming")
  /\ claimed # None /\ Of(claimed) # {}
  /\ Write("building", claimed)
  /\ Goto("forward")
  /\ UNCHANGED <<fileVars, evidence, releaseVars>>

-----------------------------------------------------------------------------
(* The trial *)

Try ==
  /\ In("forward", "building")
  /\ Write("trial", journal.id)
  /\ UNCHANGED <<fileVars, evidence, releaseVars, processVars>>

Show ==
  /\ In("forward", "trial")
  /\ Release!Show(journal.id)
  /\ UNCHANGED <<fileVars, journal, evidence, processVars>>

Verify ==
  /\ In("forward", "trial") /\ shown = journal.id
  /\ Write("verified", journal.id)
  /\ UNCHANGED <<fileVars, evidence, releaseVars, processVars>>

\* A gate fails, before the database is shown or afterwards.
Retreat ==
  /\ In("forward", "trial")
  /\ apply' = "back" /\ after' = "off"
  /\ UNCHANGED <<fileVars, journal, evidence, releaseVars>>

Withdraw ==
  /\ In("back", "trial")
  /\ Release!Withdraw
  /\ UNCHANGED <<fileVars, journal, evidence, processVars>>

-----------------------------------------------------------------------------
(* The quarantine *)

\* The intent is journalled, with the sidecar if there is one.
Quarantine(id) ==
  /\ Write("quarantining", id)
  /\ evidence' = IF Of(id) = {} THEN "none" ELSE "due"
  /\ apply' = "back"
  /\ UNCHANGED <<fileVars, releaseVars>>

\* There is no sidecar; or the verifier changed since the claim.
RejectClaim ==
  /\ In("reconcile", "claiming") \/ (In("forward", "claiming") /\ Of(claimed) = {})
  /\ claimed # None
  /\ Quarantine(claimed)
  /\ after' = "off"

\* The base or the candidate does not match the manifest.
RejectBuild ==
  /\ In("forward", "building")
  /\ Quarantine(journal.id)
  /\ after' = "off"

\* The one retry was used up.
Exhaust ==
  /\ In("reconcile", "building")
  /\ Quarantine(journal.id)
  /\ UNCHANGED after

\* The site shows what it showed before.
Condemn ==
  /\ In("back", "trial") /\ shown = accepted
  /\ Quarantine(journal.id)
  /\ UNCHANGED after

MoveBase ==
  /\ In("back", "quarantining") /\ claimed # None
  /\ claimed' = None
  /\ UNCHANGED <<sidecars, incoming, journal, evidence, releaseVars, processVars>>

MoveSidecar ==
  /\ In("back", "quarantining") /\ claimed = None /\ evidence = "due"
  /\ sidecars' = sidecars \ Of(journal.id)
  /\ evidence' = "taken"
  /\ Goto("record")
  /\ UNCHANGED <<incoming, claimed, journal, releaseVars>>

\* There was none, or it was taken before the process died.
SkipSidecar ==
  /\ In("back", "quarantining") /\ claimed = None
  /\ evidence = "none" \/ (evidence = "taken" /\ Of(journal.id) = {})
  /\ Goto("record")
  /\ UNCHANGED <<fileVars, journal, evidence, releaseVars>>

\* It was taken before the process died, and published again since.
Republished == journal.state = "quarantining" /\ evidence = "taken" /\ Of(journal.id) # {}

Refuse ==
  /\ apply = "back" /\ claimed = None /\ Republished
  /\ Exit
  /\ UNCHANGED <<fileVars, journal, evidence, releaseVars>>

Conclude ==
  /\ In("record", "quarantining")
  /\ Write("quarantined", journal.id)
  /\ evidence' = "none"
  /\ Leave
  /\ UNCHANGED <<fileVars, releaseVars>>

-----------------------------------------------------------------------------
(* The acceptance *)

Accept ==
  /\ In("forward", "verified")
  /\ Release!Accept
  /\ UNCHANGED <<fileVars, journal, evidence, processVars>>

Commit ==
  /\ In("forward", "verified") /\ accepted = journal.id
  /\ Write("committed", journal.id)
  /\ UNCHANGED <<fileVars, evidence, releaseVars, processVars>>

SweepBase ==
  /\ In("forward", "committed") /\ claimed = journal.id
  /\ claimed' = None
  /\ UNCHANGED <<sidecars, incoming, journal, evidence, releaseVars, processVars>>

\* A sidecar of the same name goes, whoever published it.
SweepSidecar ==
  /\ In("forward", "committed") /\ claimed = None
  /\ sidecars' = sidecars \ Of(journal.id)
  /\ Leave
  /\ UNCHANGED <<incoming, claimed, journal, evidence, releaseVars>>

-----------------------------------------------------------------------------
Init ==
  /\ sidecars = {} /\ incoming = None /\ claimed = None
  /\ journal = [state |-> "committed", id |-> Initial]
  /\ evidence = "none"
  /\ Release!Init
  /\ apply = "off" /\ after = "look"

\* A step of the process other than its start and its death.
Step ==
  \/ Settled \/ Unclaimed \/ Resume \/ Undo \/ Block \/ StayBlocked \/ LookInVain \/ Look \/ Claim
  \/ Select \/ Try \/ Show \/ Verify \/ Retreat \/ Withdraw \/ RejectClaim \/ RejectBuild
  \/ Exhaust \/ Condemn \/ MoveBase \/ MoveSidecar \/ SkipSidecar \/ Refuse \/ Conclude
  \/ Accept \/ Commit \/ SweepBase \/ SweepSidecar

Next ==
  \/ \E m \in Manifest : Offer(m)
  \/ \E s \in Snapshots : Deliver(s)
  \/ Start \/ Die \/ Step

Spec == Init /\ [][Next]_intakeVars
=============================================================================
