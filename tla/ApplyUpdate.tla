------------------------------ MODULE ApplyUpdate ------------------------------
(***************************************************************************)
(* The server's side of a database release                                  *)
(* (src/deploy/sync/apply_db_update.py).  The producer stages a snapshot    *)
(* and, before it, the manifest sidecar named by the snapshot's hash; one   *)
(* apply process at a time claims the snapshot, rebuilds it in the slot     *)
(* that does not serve, switches nginx over, passes the public gates with   *)
(* the old slot still recoverable, and only then advances basis and         *)
(* receipt.  A journal written before each step lets the next process       *)
(* recover from a crash at any point.                                       *)
(*                                                                          *)
(* A file is the snapshot it holds, and a gate sees of a snapshot what its  *)
(* probes answer: different snapshots may answer alike.  A sidecar is       *)
(* determined by its snapshot.  Failure records, pruning of old             *)
(* quarantines and journals of earlier versions are left out.               *)
(***************************************************************************)
EXTENDS Naturals

CONSTANTS
  Slots,        \* the two serving slots (ports)
  Snapshots,    \* snapshots by hash
  Answer,       \* [Snapshots -> answers]: what the search probes get from a snapshot
  Initial,      \* the snapshot of the committed installation
  None,         \* no file, no snapshot, no slot
  MaxPush,      \* bound: pushes of the producer
  MaxCrash,     \* bound: deaths of the process and reboots of the host
  MaxFailure,   \* bound: commands that fail where the code retries or carries on
  MaxUpgrade    \* bound: releases of the code that change the verifier

ASSUME ApplyUpdateAssumption ==
  /\ \E p, q \in Slots : p # q /\ Slots = {p, q}
  /\ Initial \in Snapshots
  /\ DOMAIN Answer = Snapshots
  /\ None \notin Snapshots \cup Slots
  /\ MaxPush \in Nat /\ MaxCrash \in Nat /\ MaxFailure \in Nat /\ MaxUpgrade \in Nat

VARIABLES
  \* the producer
  staged,     \* the snapshot whose sidecar is published and whose database is not yet
  pushes,     \* pushes so far (bound)
  \* files of the data directory
  incoming, claimed,  \* radar.db.incoming, the claimed base
  sidecars,   \* snapshots with a published manifest sidecar
  journal,    \* the durable release state
  slotDb,     \* slotDb[p]: what the slot's database is of, and whether it is rebuilt and verified
  basis,      \* the base the producer's deltas build on
  receipt,    \* what was committed, and where it serves
  moved,      \* evidence already in the quarantine of the current intent
  include,    \* the port in the nginx include file
  \* the host
  route,      \* the port nginx serves from
  running,    \* slots whose service runs
  enabled,    \* slots whose service starts at boot
  \* the apply process
  verifier,   \* VERIFIER_VERSION of the installed code
  pc,         \* the step it is at
  after,      \* where reconcile returns to: "look" for a snapshot, or the "idle" end
  \* bounds and history
  crashes, failures,
  attempts,   \* candidates built for the current claim
  masked      \* a reload moved nothing while both slots gave the same answers

producerVars == <<staged, pushes>>
intakeVars   == <<incoming, claimed, sidecars>>
commitVars   == <<basis, receipt>>
hostVars     == <<include, route, running, enabled>>
boundVars    == <<crashes, failures, verifier>>
fileVars     == <<intakeVars, slotDb, commitVars, moved>>
historyVars  == <<attempts, masked>>
vars == <<producerVars, fileVars, journal, hostVars, boundVars, pc, after, historyVars>>

Snap == Snapshots \cup {None}
Labels == {"base", "candidate", "manifest"}

Other(p) == CHOOSE q \in Slots : q # p

-----------------------------------------------------------------------------
(* The journal *)

Pending == {"switching", "switched", "old_stopping", "rollback_failed"}
Retryable == {"claiming", "rebuilding", "prepared"}
States == Pending \cup Retryable \cup
          {"idle", "retry_blocked", "rollback_blocked", "consumer_verified",
           "finalize_blocked", "quarantining", "quarantined", "committed"}

Receipt == [snap : Snapshots, port : Slots]
Oracle  == [db : Snap, basis : Snap, receipt : Receipt \cup {None}, results : Snap]
Intent  == [retire : BOOLEAN, takes : SUBSET Labels]

NoOracle == [db |-> None, basis |-> None, receipt |-> None, results |-> None]
NoIntent == [retire |-> FALSE, takes |-> {}]

Journal == [state : States, port : Slots \cup {None}, snap : Snap, retry : 0..1,
            verifier : 0..MaxUpgrade, oracle : Oracle, intent : Intent]

\* journal_write: a retry checkpoint carries the verifier's identity.
Entry(state, port, snap, retry) ==
  [state |-> state, port |-> port, snap |-> snap, retry |-> retry,
   verifier |-> IF state \in Retryable THEN verifier ELSE 0,
   oracle |-> NoOracle, intent |-> NoIntent]

\* journal_write of the release under way in another state.
Advance(state) == journal' = Entry(state, journal.port, journal.snap, journal.retry)

Cand == journal.port
Old  == Other(journal.port)

-----------------------------------------------------------------------------
(* Validations *)

\* _validate_pending_rollback_inputs, as journal_write applies it as well.
PendingValid(oracle) ==
  /\ claimed = journal.snap
  /\ journal.snap \in sidecars
  /\ slotDb[Old].snap = oracle.db
  /\ basis = oracle.basis
  /\ receipt = oracle.receipt

\* _validate_consumer_verified_authority
AuthorityValid ==
  /\ include = Cand
  /\ claimed = journal.snap
  /\ journal.snap \in sidecars

\* _validate_committed_entry
CommittedValid ==
  /\ include = journal.port
  /\ basis = journal.snap
  /\ receipt = [snap |-> journal.snap, port |-> journal.port]

\* The snapshot a probe through nginx gets its answer from.
Shown == IF route \in running THEN slotDb[route].snap ELSE None

Alike(s, t) == s \in Snapshots /\ t \in Snapshots /\ Answer[s] = Answer[t]

\* _verify_http_against_manifest through nginx.
ShowsCandidate == Alike(Shown, journal.snap)

\* What the rollback checks once it has switched back.
BaselineHolds ==
  /\ Old \in running
  /\ slotDb[Old].snap = journal.oracle.db
  /\ basis = journal.oracle.basis
  /\ receipt = journal.oracle.receipt
  /\ Alike(Shown, journal.oracle.results)

-----------------------------------------------------------------------------
(* Steps shared by several operations *)

Goto(next) == pc' = next /\ UNCHANGED after

\* The process ends: done, or an error the next process recovers from.
Exit == pc' = "idle" /\ after' = "look"

Fail == failures < MaxFailure /\ failures' = failures + 1 /\ UNCHANGED <<crashes, verifier>>

\* _retire_candidate
Retire(p) == running' = running \ {p} /\ enabled' = enabled \ {p}

\* ... when disabling the unit fails, or stopping it afterwards.
RetireFails(p) == /\ enabled' \in {enabled, enabled \ {p}}
                  /\ UNCHANGED running

\* Mutant of Evidence: the base stays where it is.
EvidenceWithoutBase(cand, snap, withCandidate) ==
  {label \in {"candidate", "manifest"} :
     \/ label = "candidate" /\ withCandidate /\ slotDb[cand].snap # None
     \/ label = "manifest" /\ snap \in sidecars}

\* The artifacts _quarantine finds and will have to move.
Evidence(cand, snap, withCandidate) ==
  {label \in Labels :
     \/ label = "base" /\ claimed # None
     \/ label = "candidate" /\ withCandidate /\ slotDb[cand].snap # None
     \/ label = "manifest" /\ snap \in sidecars}

\* _quarantine: make the intent durable, then carry it out.
Quarantine(cand, snap, retry, withCandidate, retire, then) ==
  /\ journal' = [Entry("quarantining", cand, snap, retry) EXCEPT
                   !.intent = [retire |-> retire,
                               takes |-> Evidence(cand, snap, withCandidate)]]
  /\ moved' = {}
  /\ pc' = "quarantine" /\ after' = then

\* Write a state whose journal entry binds the rollback oracle.
EnterPending(state, oracle, next) ==
  IF PendingValid(oracle)
    THEN /\ journal' = [Entry(state, Cand, journal.snap, journal.retry) EXCEPT !.oracle = oracle]
         /\ Goto(next)
    ELSE Exit /\ UNCHANGED journal

\* Point nginx's include at p; _switch_include then reloads.
WriteInclude(p) == include' = p /\ UNCHANGED <<route, running, enabled>>

\* nginx -s reload: either nginx serves the include's port, or it returns
\* success and goes on as before.
ReloadNginx ==
  /\ UNCHANGED <<include, running, enabled>>
  /\ \/ /\ route' = include
        /\ UNCHANGED <<boundVars, masked>>
     \/ /\ Fail
        /\ route' = route
        /\ masked' = (masked \/ Alike(slotDb[route].snap, slotDb[Other(route)].snap))

-----------------------------------------------------------------------------
(* The producer: sync-db-to-server.sh *)

\* Publish the sidecar; one of the same name with the same content stands.
PublishSidecar(s) ==
  /\ staged = None /\ pushes < MaxPush
  /\ sidecars' = sidecars \cup {s}
  /\ staged' = s
  /\ pushes' = pushes + 1
  /\ UNCHANGED <<incoming, claimed, slotDb, commitVars, moved, journal, hostVars, boundVars,
                 pc, after, historyVars>>

\* Publish the database: the commit marker of the push.
PublishDatabase ==
  /\ staged # None
  /\ incoming' = staged
  /\ staged' = None
  /\ UNCHANGED <<pushes, claimed, sidecars, slotDb, commitVars, moved, journal, hostVars,
                 boundVars, pc, after, historyVars>>

\* The transfer fails between the two.
PushFails ==
  /\ staged # None
  /\ staged' = None
  /\ UNCHANGED <<pushes, fileVars, journal, hostVars, boundVars, pc, after, historyVars>>

-----------------------------------------------------------------------------
(* A process starts, and reconciles the journal *)

\* The trigger of a push, or the boot of the host; the lock admits one.
Start ==
  /\ pc = "idle"
  /\ pc' = "reconcile" /\ after' = "look"
  /\ UNCHANGED <<producerVars, fileVars, journal, hostVars, boundVars, historyVars>>

Reconciling(states) == pc = "reconcile" /\ journal.state \in states

\* Nothing to recover.
ReconcileSettled ==
  /\ Reconciling({"idle", "quarantined"})
  /\ pc' = after /\ UNCHANGED after
  /\ UNCHANGED <<producerVars, fileVars, journal, hostVars, boundVars, historyVars>>

\* States that wait for an operator.
ReconcileBlocked ==
  /\ Reconciling({"retry_blocked", "rollback_blocked", "finalize_blocked"})
  /\ Exit
  /\ UNCHANGED <<producerVars, fileVars, journal, hostVars, boundVars, historyVars>>

\* Sweep what the finalization left, if basis, receipt and include agree.
ReconcileCommitted ==
  /\ Reconciling({"committed"})
  /\ IF CommittedValid THEN Goto("sweepBase") ELSE Exit
  /\ UNCHANGED <<producerVars, fileVars, journal, hostVars, boundVars, historyVars>>

\* Mutant of ReconcileUnclaimed: waits for the base.
UnclaimedStays ==
  /\ Reconciling({"claiming"}) /\ claimed = None
  /\ Exit
  /\ UNCHANGED <<producerVars, fileVars, journal, hostVars, boundVars, historyVars>>

\* The claim was journalled and the rename not done.
ReconcileUnclaimed ==
  /\ Reconciling({"claiming"}) /\ claimed = None
  /\ journal' = Entry("idle", None, None, 0)
  /\ pc' = after /\ UNCHANGED after
  /\ UNCHANGED <<producerVars, fileVars, hostVars, boundVars, historyVars>>

\* Mutant of ClaimedId: the identity the journal has.
JournalledId == journal.snap

\* snapshot_id_of(claimed): a claiming journal does not know it yet.
ClaimedId == claimed

\* The claim is done and nothing else: use the one automatic retry, unless
\* the verifier is another one by now or the sidecar is missing.
ReconcileClaimed ==
  /\ Reconciling({"claiming"}) /\ claimed # None
  /\ IF journal.verifier # verifier
       THEN Quarantine(Cand, ClaimedId, 0, FALSE, FALSE, "idle")
       ELSE IF ClaimedId \notin sidecars
         THEN Quarantine(Cand, ClaimedId, 1, FALSE, FALSE, "idle")
         ELSE /\ journal' = Entry("rebuilding", Cand, ClaimedId, 1)
              /\ Goto("rebuild")
              /\ UNCHANGED moved
  /\ UNCHANGED <<producerVars, intakeVars, slotDb, commitVars, hostVars, boundVars, historyVars>>

\* A crashed or failed attempt of another verifier.
ReconcileForeign ==
  /\ Reconciling({"rebuilding", "prepared"}) /\ journal.verifier # verifier
  /\ Advance("retry_blocked")
  /\ Exit
  /\ UNCHANGED <<producerVars, fileVars, hostVars, boundVars, historyVars>>

\* The retry was used up: retire the candidate, keep the evidence.
ReconcileExhausted ==
  /\ Reconciling({"rebuilding", "prepared"}) /\ journal.verifier = verifier /\ journal.retry = 1
  /\ Retire(Cand)
  /\ Quarantine(Cand, journal.snap, 1, TRUE, FALSE, after)
  /\ UNCHANGED <<producerVars, intakeVars, slotDb, commitVars, include, route, boundVars,
                 historyVars>>

\* Mutant of RetryUsed: a retry does not count.
RetryFree == 0

\* The retry count a rebuild after a crash is journalled with.
RetryUsed == 1

\* The one fresh rebuild from the claimed base.  A candidate that may have
\* been started is retired first.
ReconcileRetry ==
  /\ Reconciling({"rebuilding", "prepared"}) /\ journal.verifier = verifier /\ journal.retry = 0
  /\ IF claimed = journal.snap /\ journal.snap \in sidecars
       THEN /\ IF journal.state = "prepared"
                 THEN /\ Retire(Cand)
                      /\ include' = Old
                      /\ route' = IF include = Old THEN route ELSE Old
                 ELSE UNCHANGED hostVars
            /\ journal' = Entry(journal.state, Cand, journal.snap, RetryUsed)
            /\ Goto("rebuild")
       ELSE Exit /\ UNCHANGED <<hostVars, journal>>
  /\ UNCHANGED <<producerVars, fileVars, boundVars, historyVars>>

\* The candidate of either cannot be retired.
ReconcileRetireFails ==
  /\ Reconciling({"rebuilding", "prepared"}) /\ journal.verifier = verifier
  /\ journal.retry = 1 \/ journal.state = "prepared"
  /\ RetireFails(Cand) /\ Fail
  /\ Exit
  /\ UNCHANGED <<producerVars, fileVars, journal, include, route, historyVars>>

\* Mutant of ReconcileResume: a crashed switch is quarantined like a
\* crashed rebuild.
ResumeWithoutRollback ==
  /\ \/ Reconciling(Pending) /\ Quarantine(Cand, journal.snap, journal.retry, TRUE, FALSE, after)
     \/ Reconciling({"quarantining"}) /\ Goto("quarantine") /\ UNCHANGED <<journal, moved>>
     \/ Reconciling({"consumer_verified"}) /\ Goto("finalize") /\ UNCHANGED <<journal, moved>>
  /\ UNCHANGED <<producerVars, intakeVars, slotDb, commitVars, hostVars, boundVars, historyVars>>

\* Resume a rollback, a quarantine or a finalization.
ReconcileResume ==
  /\ \/ Reconciling(Pending) /\ Goto("rollback")
     \/ Reconciling({"quarantining"}) /\ Goto("quarantine")
     \/ Reconciling({"consumer_verified"}) /\ Goto("finalize")
  /\ UNCHANGED <<producerVars, fileVars, journal, hostVars, boundVars, historyVars>>

-----------------------------------------------------------------------------
(* A new snapshot *)

\* _apply_locked: no snapshot, or no memory for two slots.
LookInVain ==
  /\ pc = "look"
  /\ \/ incoming = None /\ UNCHANGED boundVars
     \/ incoming # None /\ Fail
  /\ Exit
  /\ UNCHANGED <<producerVars, fileVars, journal, hostVars, historyVars>>

\* Mutant of Candidate: the slot of the journal.
JournalledSlot == IF journal.port = None THEN Other(include) ELSE journal.port

\* The slot that does not serve.
Candidate == Other(include)

\* Journal the claim.
Look ==
  /\ pc = "look" /\ incoming # None
  /\ journal' = Entry("claiming", Candidate, None, 0)
  /\ pc' = "claim" /\ after' = "idle"
  /\ UNCHANGED <<producerVars, fileVars, hostVars, boundVars, historyVars>>

\* Claim the database before anything is read of it.
Claim ==
  /\ pc = "claim"
  /\ claimed' = incoming /\ incoming' = None
  /\ attempts' = 0
  /\ Goto("select")
  /\ UNCHANGED <<producerVars, sidecars, slotDb, commitVars, moved, journal, hostVars, boundVars,
                 masked>>

\* Select the sidecar by the hash of what was claimed.
Select ==
  /\ pc = "select"
  /\ IF ClaimedId \in sidecars
       THEN /\ journal' = Entry("rebuilding", Cand, ClaimedId, 0)
            /\ Goto("rebuild")
            /\ UNCHANGED moved
       ELSE Quarantine(Cand, ClaimedId, 0, FALSE, FALSE, "idle")
  /\ UNCHANGED <<producerVars, intakeVars, slotDb, commitVars, hostVars, boundVars, historyVars>>

\* verify_base_snapshot, then the copy of the claimed base in the slot.
Materialize ==
  /\ pc = "rebuild"
  /\ slotDb' = [slotDb EXCEPT ![Cand] = [snap |-> claimed, ready |-> FALSE]]
  /\ attempts' = attempts + 1
  /\ Goto("verify")
  /\ UNCHANGED <<producerVars, intakeVars, commitVars, moved, journal, hostVars, boundVars, masked>>

\* A base the verifier rejects.
RejectBase ==
  /\ pc = "rebuild"
  /\ Quarantine(Cand, journal.snap, journal.retry, FALSE, FALSE, "idle")
  /\ UNCHANGED <<producerVars, intakeVars, slotDb, commitVars, hostVars, boundVars, historyVars>>

\* rebuild_fts and the comparison with the manifest.
VerifyCandidate ==
  /\ pc = "verify"
  /\ slotDb' = [slotDb EXCEPT ![Cand] = [snap |-> slotDb[Cand].snap, ready |-> TRUE]]
  /\ Advance("prepared")
  /\ Goto("restart")
  /\ UNCHANGED <<producerVars, intakeVars, commitVars, moved, hostVars, boundVars, historyVars>>

\* A candidate that differs from the manifest.
RejectCandidate ==
  /\ pc = "verify"
  /\ Quarantine(Cand, journal.snap, journal.retry, TRUE, FALSE, "idle")
  /\ UNCHANGED <<producerVars, intakeVars, slotDb, commitVars, hostVars, boundVars, historyVars>>

\* Start the candidate's service and wait until it is healthy.
Restart ==
  /\ pc = "restart"
  /\ running' = running \cup {Cand}
  /\ Goto("enable")
  /\ UNCHANGED <<producerVars, fileVars, journal, include, route, enabled, boundVars, historyVars>>

Enable ==
  /\ pc = "enable"
  /\ enabled' = enabled \cup {Cand}
  /\ Goto("probe")
  /\ UNCHANGED <<producerVars, fileVars, journal, include, route, running, boundVars, historyVars>>

\* The candidate's own HTTP answers match the manifest ...
Probe ==
  /\ pc = "probe" /\ Alike(slotDb[Cand].snap, journal.snap)
  /\ Goto("capture")
  /\ UNCHANGED <<producerVars, fileVars, journal, hostVars, boundVars, historyVars>>

\* ... or do not.
RejectProbe ==
  /\ pc = "probe"
  /\ Quarantine(Cand, journal.snap, journal.retry, TRUE, TRUE, "idle")
  /\ UNCHANGED <<producerVars, intakeVars, slotDb, commitVars, hostVars, boundVars, historyVars>>

\* Record what serves, and open the period in which recovery means rollback.
Capture ==
  /\ pc = "capture" /\ Shown # None
  /\ EnterPending("switching",
                  [db |-> slotDb[Old].snap, basis |-> basis, receipt |-> receipt, results |-> Shown],
                  "point")
  /\ UNCHANGED <<producerVars, fileVars, hostVars, boundVars, historyVars>>

\* A command or probe fails before the switch: the candidate is retired, or
\* half of it, and the prepared state stays for the retry.
GiveUp ==
  /\ pc \in {"restart", "enable", "probe", "capture"}
  /\ Fail
  /\ Retire(Cand) \/ RetireFails(Cand)
  /\ Advance("prepared")
  /\ Exit
  /\ UNCHANGED <<producerVars, fileVars, include, route, historyVars>>

-----------------------------------------------------------------------------
(* The switch, and the gates after it *)

Point ==
  /\ pc = "point"
  /\ WriteInclude(Cand)
  /\ Goto("reload")
  /\ UNCHANGED <<producerVars, fileVars, journal, boundVars, historyVars>>

Reload ==
  /\ pc = "reload"
  /\ ReloadNginx
  /\ Goto("switched")
  /\ UNCHANGED <<producerVars, fileVars, journal, attempts>>

Switched ==
  /\ pc = "switched"
  /\ EnterPending("switched", journal.oracle, "gate")
  /\ UNCHANGED <<producerVars, fileVars, hostVars, boundVars, historyVars>>

\* The public answers match the manifest: the old slot may stop.
Gate ==
  /\ pc = "gate" /\ ShowsCandidate
  /\ EnterPending("old_stopping", journal.oracle, "stopOld")
  /\ UNCHANGED <<producerVars, fileVars, hostVars, boundVars, historyVars>>

StopOld ==
  /\ pc = "stopOld"
  /\ running' = running \ {Old}
  /\ Goto("prove")
  /\ UNCHANGED <<producerVars, fileVars, journal, include, route, enabled, boundVars, historyVars>>

\* With the old slot stopped, an answer can only be the candidate's.
Prove ==
  /\ pc = "prove" /\ ShowsCandidate
  /\ IF AuthorityValid
       THEN Advance("consumer_verified") /\ Goto("finalize")
       ELSE Exit /\ UNCHANGED journal
  /\ UNCHANGED <<producerVars, fileVars, hostVars, boundVars, historyVars>>

\* A gate or a command fails: switch back and quarantine.
Retreat ==
  /\ pc \in {"point", "reload", "gate", "stopOld", "prove"}
  /\ pc' = "rollback" /\ after' = "idle"
  /\ UNCHANGED <<producerVars, fileVars, journal, hostVars, boundVars, historyVars>>

-----------------------------------------------------------------------------
(* Rollback *)

\* Mutant of RestartOld: the old slot is taken to be up.
LeaveOld == UNCHANGED running

\* _ensure_slot_serving of the old slot.
RestartOld == running' = running \cup {Old}

\* What the rollback relies on is as captured, and the old slot serves.
Rollback ==
  /\ pc = "rollback"
  /\ IF PendingValid(journal.oracle)
       THEN RestartOld /\ Goto("back") /\ UNCHANGED journal
       ELSE Advance("rollback_blocked") /\ Exit /\ UNCHANGED running
  /\ UNCHANGED <<producerVars, fileVars, include, route, enabled, boundVars, historyVars>>

Back ==
  /\ pc = "back"
  /\ WriteInclude(Old)
  /\ Goto("reloadBack")
  /\ UNCHANGED <<producerVars, fileVars, journal, boundVars, historyVars>>

ReloadBack ==
  /\ pc = "reloadBack"
  /\ ReloadNginx
  /\ Goto("baseline")
  /\ UNCHANGED <<producerVars, fileVars, journal, attempts>>

\* The old release is proved to be back, drained of the candidate's
\* connections, and the candidate is retired.
Baseline ==
  /\ pc = "baseline" /\ BaselineHolds
  /\ Retire(Cand)
  /\ Goto("condemn")
  /\ UNCHANGED <<producerVars, fileVars, journal, include, route, boundVars, historyVars>>

Condemn ==
  /\ pc = "condemn"
  /\ Quarantine(Cand, journal.snap, journal.retry, TRUE, FALSE, after)
  /\ UNCHANGED <<producerVars, intakeVars, slotDb, commitVars, hostVars, boundVars, historyVars>>

\* The rollback fails and is tried again by the next process: always while
\* the baseline does not hold, and whenever a command fails.
RollbackFails ==
  /\ pc \in {"rollback", "back", "reloadBack", "baseline"}
  /\ \/ pc = "baseline" /\ ~BaselineHolds /\ UNCHANGED <<boundVars, running, enabled>>
     \/ Fail /\ UNCHANGED <<running, enabled>>
     \/ pc = "baseline" /\ BaselineHolds /\ Fail /\ RetireFails(Cand)
  /\ IF PendingValid(journal.oracle)
       THEN journal' = [Entry("rollback_failed", Cand, journal.snap, journal.retry)
                          EXCEPT !.oracle = journal.oracle]
       ELSE UNCHANGED journal
  /\ Exit
  /\ UNCHANGED <<producerVars, fileVars, include, route, historyVars>>

-----------------------------------------------------------------------------
(* Quarantine: carry out the durable intent *)

BeginQuarantine ==
  /\ pc = "quarantine"
  /\ IF journal.intent.retire THEN Retire(Cand) ELSE UNCHANGED <<running, enabled>>
  /\ Goto("base")
  /\ UNCHANGED <<producerVars, fileVars, journal, include, route, boundVars, historyVars>>

QuarantineRetireFails ==
  /\ pc = "quarantine" /\ journal.intent.retire
  /\ RetireFails(Cand) /\ Fail
  /\ Exit
  /\ UNCHANGED <<producerVars, fileVars, journal, include, route, historyVars>>

Present(label) ==
  \/ label = "base" /\ claimed # None
  \/ label = "candidate" /\ slotDb[Cand].snap # None
  \/ label = "manifest" /\ journal.snap \in sidecars

NextMove == [base |-> "candidate", candidate |-> "manifest", manifest |-> "record"]

\* Not part of the evidence, or moved before a crash.
SkipMove(label) ==
  /\ pc = label
  /\ label \notin journal.intent.takes \/ (label \in moved /\ ~Present(label))
  /\ Goto(NextMove[label])
  /\ UNCHANGED <<producerVars, fileVars, journal, hostVars, boundVars, historyVars>>

\* Rename the artifact to the place the intent fixed.
Move(label) ==
  /\ pc = label
  /\ label \in journal.intent.takes /\ label \notin moved /\ Present(label)
  /\ moved' = moved \cup {label}
  /\ claimed' = IF label = "base" THEN None ELSE claimed
  /\ slotDb' = IF label = "candidate"
                 THEN [slotDb EXCEPT ![Cand] = [snap |-> None, ready |-> FALSE]] ELSE slotDb
  /\ sidecars' = IF label = "manifest" THEN sidecars \ {journal.snap} ELSE sidecars
  /\ Goto(NextMove[label])
  /\ UNCHANGED <<producerVars, incoming, commitVars, journal, hostVars, boundVars, historyVars>>

\* "source and destination both exist", or neither.
MoveRefused(label) ==
  /\ pc = label
  /\ label \in journal.intent.takes /\ (label \in moved <=> Present(label))
  /\ Exit
  /\ UNCHANGED <<producerVars, fileVars, journal, hostVars, boundVars, historyVars>>

\* The journal is bound to the failure record, and with it to the snapshot.
Conclude ==
  /\ pc = "record"
  /\ journal' = Entry("quarantined", None, journal.snap, 0)
  /\ pc' = after /\ UNCHANGED after
  /\ UNCHANGED <<producerVars, fileVars, hostVars, boundVars, historyVars>>

-----------------------------------------------------------------------------
(* Finalization: only forward *)

\* Authority, and the candidate up and started at boot.
Finalize ==
  /\ pc = "finalize"
  /\ IF AuthorityValid
       THEN /\ running' = running \cup {Cand} /\ enabled' = enabled \cup {Cand}
            /\ Goto("disableOld") /\ UNCHANGED journal
       ELSE Advance("finalize_blocked") /\ Exit /\ UNCHANGED <<running, enabled>>
  /\ UNCHANGED <<producerVars, fileVars, include, route, boundVars, historyVars>>

DisableOld ==
  /\ pc = "disableOld"
  /\ enabled' = enabled \ {Old}
  /\ Goto("dropOld")
  /\ UNCHANGED <<producerVars, fileVars, journal, include, route, running, boundVars, historyVars>>

\* A command fails: the state stays consumer_verified.
FinalizeFails ==
  /\ pc \in {"finalize", "disableOld"}
  /\ Fail
  /\ Exit
  /\ UNCHANGED <<producerVars, fileVars, journal, hostVars, historyVars>>

\* Stop the old slot; whether it stopped is not looked at.
DropOld ==
  /\ pc = "dropOld"
  /\ \/ running' = running \ {Old} /\ UNCHANGED boundVars
     \/ running' = running /\ Fail
  /\ Goto("basis")
  /\ UNCHANGED <<producerVars, fileVars, journal, include, route, enabled, historyVars>>

\* Mutant of AdvanceBasis: the journal is committed before the receipt.
AdvanceBasisAndCommit ==
  /\ pc = "basis"
  /\ basis' = claimed
  /\ Goto("commit")
  /\ UNCHANGED <<producerVars, intakeVars, slotDb, receipt, moved, journal, hostVars, boundVars,
                 historyVars>>

AdvanceBasis ==
  /\ pc = "basis"
  /\ basis' = claimed
  /\ Goto("receipt")
  /\ UNCHANGED <<producerVars, intakeVars, slotDb, receipt, moved, journal, hostVars, boundVars,
                 historyVars>>

\* Mutant of WriteReceipt: the port of the old slot.
WriteReceiptOfOld ==
  /\ pc = "receipt"
  /\ receipt' = [snap |-> journal.snap, port |-> Old]
  /\ Goto("commit")
  /\ UNCHANGED <<producerVars, intakeVars, slotDb, basis, moved, journal, hostVars, boundVars,
                 historyVars>>

WriteReceipt ==
  /\ pc = "receipt"
  /\ receipt' = [snap |-> journal.snap, port |-> Cand]
  /\ Goto("commit")
  /\ UNCHANGED <<producerVars, intakeVars, slotDb, basis, moved, journal, hostVars, boundVars,
                 historyVars>>

Commit ==
  /\ pc = "commit"
  /\ journal' = Entry("committed", Cand, journal.snap, 0)
  /\ Goto("sweepBase")
  /\ UNCHANGED <<producerVars, fileVars, hostVars, boundVars, historyVars>>

SweepBase ==
  /\ pc = "sweepBase"
  /\ claimed' = IF claimed = journal.snap /\ basis = journal.snap THEN None ELSE claimed
  /\ Goto("sweepManifest")
  /\ UNCHANGED <<producerVars, incoming, sidecars, slotDb, commitVars, moved, journal, hostVars,
                 boundVars, historyVars>>

SweepManifest ==
  /\ pc = "sweepManifest"
  /\ sidecars' = sidecars \ {journal.snap}
  /\ pc' = after /\ UNCHANGED after
  /\ UNCHANGED <<producerVars, incoming, claimed, slotDb, commitVars, moved, journal, hostVars,
                 boundVars, historyVars>>

-----------------------------------------------------------------------------
(* The environment *)

\* The process dies between two steps.
Crash ==
  /\ pc # "idle" /\ crashes < MaxCrash
  /\ Exit
  /\ crashes' = crashes + 1
  /\ UNCHANGED <<producerVars, fileVars, journal, hostVars, failures, verifier, historyVars>>

\* The host restarts: nginx reads its include, systemd starts what is enabled.
Reboot ==
  /\ crashes < MaxCrash
  /\ Exit
  /\ crashes' = crashes + 1
  /\ route' = include /\ running' = enabled
  /\ UNCHANGED <<producerVars, fileVars, journal, include, enabled, failures, verifier, historyVars>>

\* deploy_code installs another verifier; it takes the same lock.
Upgrade ==
  /\ pc = "idle" /\ verifier < MaxUpgrade
  /\ verifier' = verifier + 1
  /\ UNCHANGED <<producerVars, fileVars, journal, hostVars, crashes, failures, pc, after,
                 historyVars>>

-----------------------------------------------------------------------------
(* Specification *)

\* An installation that committed its first release long ago.
Init ==
  /\ staged = None /\ pushes = 0
  /\ incoming = None /\ claimed = None /\ sidecars = {}
  /\ include \in Slots /\ route = include /\ running = {include} /\ enabled = {include}
  /\ slotDb = [p \in Slots |-> IF p = include THEN [snap |-> Initial, ready |-> TRUE]
                                              ELSE [snap |-> None, ready |-> FALSE]]
  /\ basis = Initial /\ receipt = [snap |-> Initial, port |-> include]
  /\ verifier = 0
  /\ journal = [state |-> "committed", port |-> include, snap |-> Initial, retry |-> 0,
                verifier |-> 0, oracle |-> NoOracle, intent |-> NoIntent]
  /\ moved = {}
  /\ pc = "idle" /\ after = "look"
  /\ crashes = 0 /\ failures = 0 /\ attempts = 0 /\ masked = FALSE

Producer == (\E s \in Snapshots : PublishSidecar(s)) \/ PublishDatabase \/ PushFails

Reconcile ==
  \/ ReconcileSettled \/ ReconcileBlocked \/ ReconcileCommitted \/ ReconcileUnclaimed
  \/ ReconcileClaimed \/ ReconcileForeign \/ ReconcileExhausted \/ ReconcileRetry
  \/ ReconcileRetireFails \/ ReconcileResume

Release ==
  \/ LookInVain \/ Look \/ Claim \/ Select \/ Materialize \/ RejectBase \/ VerifyCandidate
  \/ RejectCandidate \/ Restart \/ Enable \/ Probe \/ RejectProbe \/ Capture \/ GiveUp
  \/ Point \/ Reload \/ Switched \/ Gate \/ StopOld \/ Prove \/ Retreat

Recover ==
  \/ Rollback \/ Back \/ ReloadBack \/ Baseline \/ Condemn \/ RollbackFails
  \/ BeginQuarantine \/ QuarantineRetireFails \/ Conclude
  \/ \E label \in Labels : SkipMove(label) \/ Move(label) \/ MoveRefused(label)

Finish ==
  \/ Finalize \/ DisableOld \/ FinalizeFails \/ DropOld \/ AdvanceBasis \/ WriteReceipt
  \/ Commit \/ SweepBase \/ SweepManifest

\* A step of the apply process.
Step == Reconcile \/ Release \/ Recover \/ Finish

Next == Producer \/ Start \/ Step \/ Crash \/ Reboot \/ Upgrade

Spec == Init /\ [][Next]_vars

\* The producer's cron job triggers the process again and again, and a
\* started process takes its next step: every command and probe has a timeout.
FairSpec == Spec /\ WF_vars(Start) /\ WF_vars(Step)

-----------------------------------------------------------------------------
(* Properties *)

PCs == {"idle", "reconcile", "look", "claim", "select", "rebuild", "verify", "restart", "enable",
        "probe", "capture", "point", "reload", "switched", "gate", "stopOld", "prove", "rollback",
        "back", "reloadBack", "baseline", "condemn", "quarantine", "record", "finalize",
        "disableOld", "dropOld", "basis", "receipt", "commit", "sweepBase", "sweepManifest"}
       \cup Labels

\* What _validate_journal_payload asks of the identities in an entry.
JournalOK ==
  /\ journal \in Journal
  /\ journal.state \notin {"idle", "quarantined"} => journal.port \in Slots
  /\ journal.state \notin {"idle", "quarantined", "claiming"} => journal.snap \in Snapshots

\* The variables have their types, and the journal passes its validator.
TypeOK ==
  /\ staged \in Snap /\ pushes \in 0..MaxPush
  /\ incoming \in Snap /\ claimed \in Snap /\ sidecars \subseteq Snapshots
  /\ JournalOK
  /\ slotDb \in [Slots -> [snap : Snap, ready : BOOLEAN]]
  /\ basis \in Snap /\ receipt \in Receipt
  /\ moved \subseteq Labels
  /\ include \in Slots /\ route \in Slots
  /\ running \subseteq Slots /\ enabled \subseteq Slots
  /\ verifier \in 0..MaxUpgrade
  /\ pc \in PCs /\ after \in {"idle", "look"}
  /\ crashes \in 0..MaxCrash /\ failures \in 0..MaxFailure
  /\ attempts \in Nat /\ masked \in BOOLEAN

\* Without a serving gap (lines 2-6): the port nginx serves from belongs to a
\* running slot with a rebuilt and verified database, at every point of a
\* release, a rollback or a recovery.  Only a reload that moves nothing while
\* both slots give the same answers can hide from the gates.
RouteServes == masked \/ (route \in running /\ slotDb[route].ready)

\* If the host restarts at this moment, the port in the include file is
\* that of a slot systemd starts, with a rebuilt and verified database.
RebootServes == include \in enabled /\ slotDb[include].ready

\* Readers are served now and after the next boot.
AlwaysServes == RouteServes /\ RebootServes

Unsettled == Pending \cup {"consumer_verified", "rollback_blocked", "finalize_blocked"}

\* Only a verified consumer advances basis and receipt (lines 72-74, 82-88):
\* outside the trial of a snapshot, the active slot shows the basis the
\* producer builds its deltas on, and the receipt names both.
BasisIsServed ==
  journal.state \notin Unsettled =>
    /\ slotDb[include].snap = basis
    /\ receipt = [snap |-> basis, port |-> include]

\* No sequence of crashes, failures and pushes ends in a state the code
\* leaves to an operator, the change of the verifier excepted: the old slot's
\* database, base, sidecar, basis and receipt are as bound whenever a rollback
\* or a finalization starts, and a committed journal agrees with the files.
NoManualStop ==
  /\ journal.state \notin {"rollback_blocked", "finalize_blocked"}
  /\ journal.state = "committed" => CommittedValid
  /\ journal.state \in {"rebuilding", "prepared"} =>
       claimed = journal.snap /\ journal.snap \in sidecars

\* "one automatic fresh retry" (line 48): a snapshot is built at most twice,
\* the second time with the retry journalled.
OneRetry ==
  journal.state \in {"rebuilding", "prepared"} => attempts <= journal.retry + 1

\* No step writes the database of a slot that nginx serves from or would
\* serve from after a restart.
ServingKept == /\ slotDb'[include] = slotDb[include]
               /\ ~masked => slotDb'[route] = slotDb[route]

ServingUntouched == [][ServingKept]_vars

\* The claimed base leaves its place only when it has become the basis or is
\* evidence in the quarantine: no later claim replaces it (lines 48-51, 63-66).
BaseNeverLost ==
  [][claimed # None /\ claimed' # claimed =>
       claimed' = None /\ (basis = claimed \/ "base" \in moved')]_vars

\* The rollback to the old slot and the acceptance of the new one are steps
\* of the abstract release.
Gated == INSTANCE GatedRelease WITH shown <- slotDb[include].snap, accepted <- basis
IsGatedRelease == Gated!Spec

\* What a producer can tell the process is about, ...
Phase(step) ==
  CASE step = "idle" -> "off"
    [] step \in {"reconcile", "look", "record"} -> step
    [] step \in {"rollback", "back", "reloadBack", "baseline", "condemn", "quarantine"} \cup Labels ->
         "back"
    [] OTHER -> "forward"

\* ... what the journal says of the release, ...
Stage(state) ==
  CASE state \in {"rebuilding", "prepared"} -> "building"
    [] state \in Pending -> "trial"
    [] state = "consumer_verified" -> "verified"
    [] state \in {"retry_blocked", "rollback_blocked", "finalize_blocked"} -> "blocked"
    [] OTHER -> state

\* ... and what became of the sidecar in a quarantine.
Taken(entry, done) ==
  IF entry.state # "quarantining" \/ "manifest" \notin entry.intent.takes THEN "none"
  ELSE IF "manifest" \in done THEN "taken" ELSE "due"

\* Sidecars as a producer publishes them.
Published(snaps) == {[id |-> s, oracle |-> s] : s \in snaps}

Afterwards(step, then) == IF step # "idle" /\ then = "idle" THEN "off" ELSE "look"

\* To the producer every step of the process, and its death at any point, is
\* a step of the intake it was promised: a published snapshot is claimed, shown
\* only under its trial, and accepted or put aside with its sidecar, in the
\* order the journal tells.
Intake == INSTANCE ReleaseIntake WITH
  sidecars <- Published(sidecars),
  journal  <- [state |-> Stage(journal.state), id |-> journal.snap],
  evidence <- Taken(journal, moved),
  shown    <- slotDb[include].snap,
  accepted <- basis,
  apply    <- Phase(pc),
  after    <- Afterwards(pc, after)
IsReleaseIntake == Intake!Spec

\* What a release can wait for in vain: the verifier changed, the evidence of
\* a quarantine was published again while it was being moved, or nginx serves
\* from a slot that nobody knows it serves from.
Stuck ==
  \/ masked
  \/ journal.state = "retry_blocked"
  \/ /\ journal.state = "quarantining" /\ "manifest" \in moved
     /\ journal.snap \in sidecars

\* A snapshot that was pushed or claimed is released or quarantined.
ReleaseEnds ==
  (incoming # None \/ claimed # None) ~> ((incoming = None /\ claimed = None) \/ Stuck)

\* "the DB rename remains the existing commit marker"
\* (build_fts_manifest.py): a published database has its sidecar.
MarkerHasSidecar == incoming # None => incoming \in sidecars

\* "identical old results cannot mask a broken nginx route" (the name of a
\* test of the gates): a release or a rollback that is over left nginx with
\* a slot that runs.
RouteNotMasked == journal.state \in {"committed", "quarantined"} => route \in running
=============================================================================
