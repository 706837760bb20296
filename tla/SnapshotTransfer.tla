--------------------------- MODULE SnapshotTransfer ---------------------------
(***************************************************************************)
(* How the primary database reaches the server: the producer's rounds      *)
(* (src/deploy/sync/sync-db-to-server.sh, snapshot_db.py, logical_delta.py, *)
(* build_fts_manifest.py) against the server's apply, of which it knows    *)
(* what ApplyUpdate is shown to implement (ReleaseIntake).                 *)
(*                                                                         *)
(* A database file is the number of primary writes it holds, or Torn.  The *)
(* shipping replica is updated in place and survives the rounds; its       *)
(* rollback journal is the content SQLite would restore from it.  A round  *)
(* runs one child process after the other, and all inherit its lock: the   *)
(* entrypoint may die while a child still works.  Every round ends, one    *)
(* way or another, and cron begins the next.                               *)
(*                                                                         *)
(* A file's hash stands for what the file holds.  Left out: that the same  *)
(* rows may lie on other pages and then have another hash, sidecars that   *)
(* differ although their artifacts do not, dry runs, the compression of    *)
(* the transfer, and the wrapper's ssh-agent and receipt age               *)
(* (sync-db-cron.sh).                                                      *)
(***************************************************************************)
EXTENDS Naturals

CONSTANTS
  Producers,  \* entrypoints of the sync: the cron job, an operator
  None,       \* no file
  Torn,       \* a file that is partly written
  MaxWrite,   \* bound: writes to the primary
  MaxStop,    \* bound: rounds that fail or die, and deaths of apply
  MaxOrphan   \* bound: entrypoints killed while their child goes on

ASSUME SnapshotTransferAssumption ==
  /\ None \notin Nat /\ Torn \notin Nat /\ None # Torn
  /\ MaxWrite \in Nat /\ MaxStop \in Nat /\ MaxOrphan \in Nat

Versions == 0..MaxWrite
Files    == Versions \cup {None, Torn}

VARIABLES
  primary,    \* writes of the primary database
  \* files of the producer
  snapshot,   \* radar.db.snapshot
  replica,    \* radar.db.shipping, base tables only
  hot,        \* radar.db.shipping-journal: what it would restore
  \* files of the server
  upload,     \* radar.db.upload
  sidecars,   \* published manifests
  incoming, claimed,
  journal,    \* switch-journal.json, as far as a producer can tell
  evidence,   \* the sidecar in the quarantine under way
  \* the release
  shown, basis,
  \* processes
  job,        \* the producers' rounds
  apply, after, \* the server's apply
  stops, orphans

localVars   == <<snapshot, replica, hot>>
releaseVars == <<journal, evidence, shown, basis, apply, after>>
boundVars   == <<stops, orphans>>
serverVars  == <<sidecars, incoming, claimed, releaseVars>>
vars == <<primary, localVars, upload, serverVars, job, boundVars>>

Server == INSTANCE ReleaseIntake WITH
  accepted <- basis, Snapshots <- Versions \cup {Torn}, Initial <- 0

Manifest == [id : Files, oracle : Files]

\* manifest: the artifact's hash, and what its oracle is of; moved: the journal
\* was written since the round's checkpoint of it.  Histories: given, what became
\* of the database the round published; earlier, whether its checkpoint found a
\* release of the same snapshot undecided.
Job == [pc : {"idle", "snapshot", "sync", "delta", "commit", "reconcile", "rebuild", "manifest",
              "sidecar", "upload", "transfer", "publish", "checkpoint", "trigger", "wait"},
        alive : BOOLEAN, manifest : Manifest, moved : BOOLEAN,
        given : {"none", "incoming", "claimed", "rejected"}, earlier : BOOLEAN]

Idle == [pc |-> "idle", alive |-> FALSE, manifest |-> [id |-> None, oracle |-> None],
         moved |-> FALSE, given |-> "none", earlier |-> FALSE]

-----------------------------------------------------------------------------
(* A round *)

At(p, pc) == job[p].pc = pc

\* The child that works goes on.
Within(p, pc) == job' = [job EXCEPT ![p].pc = pc]

\* The child ends, which the entrypoint makes round of; without its entrypoint
\* nobody starts the next.
HandOn(p, round) == job' = [job EXCEPT ![p] = IF job[p].alive THEN round ELSE Idle]

Hand(p, pc) == HandOn(p, [job[p] EXCEPT !.pc = pc])

\* The round is over.
End(p) ==
  /\ job' = [job EXCEPT ![p] = Idle]
  /\ UNCHANGED <<primary, localVars, upload, serverVars, boundVars>>

\* Mutant of Locked: the lock is the entrypoint's, as a file removed on exit is.
LockedByEntrypoint == \E p \in Producers : job[p].pc # "idle" /\ job[p].alive

\* owner.flock, held by the entrypoint or the child that inherited it.
Locked == \E p \in Producers : job[p].pc # "idle"

\* The lock is taken and the old snapshot removed.
Begin(p) ==
  /\ At(p, "idle") /\ ~Locked
  /\ job' = [job EXCEPT ![p] = [Idle EXCEPT !.pc = "snapshot", !.alive = TRUE]]
  /\ snapshot' = None
  /\ UNCHANGED <<primary, replica, hot, upload, serverVars, boundVars>>

\* SQLite's backup of one committed state, and its quick_check.
TakeSnapshot(p) ==
  /\ At(p, "snapshot")
  /\ snapshot' = primary
  /\ Hand(p, "sync")
  /\ UNCHANGED <<primary, replica, hot, upload, serverVars, boundVars>>

\* sync_replica: a replica whose schema or pages are off is rebuilt.  It is read
\* as immutable, so that a journal beside it is not looked at, and torn pages
\* need not show.
ValidateReplica(p) ==
  /\ At(p, "sync")
  /\ \/ Within(p, "rebuild")
     \/ replica # None /\ Within(p, "delta")
  /\ UNCHANGED <<primary, localVars, upload, serverVars, boundVars>>

\* What opening the replica for writing makes of it.
Opened == IF hot = None THEN replica ELSE hot

\* _apply_delta: compares and, where they differ, starts to write.
BeginDelta(p) ==
  /\ At(p, "delta") /\ Opened # snapshot
  /\ hot' = Opened
  /\ replica' = Torn
  /\ Within(p, "commit")
  /\ UNCHANGED <<primary, snapshot, upload, serverVars, boundVars>>

NoDelta(p) ==
  /\ At(p, "delta") /\ Opened = snapshot
  /\ hot' = None
  /\ replica' = Opened
  /\ Within(p, "reconcile")
  /\ UNCHANGED <<primary, snapshot, upload, serverVars, boundVars>>

\* A delta that was computed on torn pages mends nothing.
CommitDelta(p) ==
  /\ At(p, "commit")
  /\ replica' = IF hot = Torn THEN Torn ELSE snapshot
  /\ hot' = None
  /\ Within(p, "reconcile")
  /\ UNCHANGED <<primary, snapshot, upload, serverVars, boundVars>>

\* An error of SQLite's: rolled back, and the replica is given up.
AbortDelta(p) ==
  /\ At(p, "commit")
  /\ replica' = hot
  /\ hot' = None
  /\ Within(p, "rebuild")
  /\ UNCHANGED <<primary, snapshot, upload, serverVars, boundVars>>

\* Mutant of Reconciled: the delta is trusted.
ReconciledAlways == TRUE

\* Every table of the replica has the digest of the snapshot's.
Reconciled == replica = snapshot

Reconcile(p) ==
  /\ At(p, "reconcile")
  /\ IF Reconciled THEN Hand(p, "manifest") ELSE Within(p, "rebuild")
  /\ UNCHANGED <<primary, localVars, upload, serverVars, boundVars>>

\* A reconciled copy replaces the replica; a journal that lies beside it stays,
\* and belongs to the file that is gone.
Rebuild(p) ==
  /\ At(p, "rebuild")
  /\ replica' = snapshot
  /\ hot' = IF hot = None THEN None ELSE Torn
  /\ Hand(p, "manifest")
  /\ UNCHANGED <<primary, snapshot, upload, serverVars, boundVars>>

BuildManifest(p) ==
  /\ At(p, "manifest")
  /\ HandOn(p, [job[p] EXCEPT !.pc = "sidecar", !.manifest = [id |-> replica, oracle |-> snapshot]])
  /\ UNCHANGED <<primary, localVars, upload, serverVars, boundVars>>

\* Mutant of PublishSidecar: mv -n that fails for any name it finds.
PublishSidecarOnce(p) ==
  /\ At(p, "sidecar")
  /\ \/ /\ \A m \in sidecars : m.id # job[p].manifest.id
        /\ Server!Offer(job[p].manifest)
        /\ Hand(p, "upload")
        /\ UNCHANGED <<primary, localVars, upload, boundVars>>
     \/ (\E m \in sidecars : m.id = job[p].manifest.id) /\ End(p)

\* mv -n of the sidecar; one of the same name has to be the same.
PublishSidecar(p) ==
  /\ At(p, "sidecar")
  /\ \A m \in sidecars : m.id = job[p].manifest.id => m = job[p].manifest
  /\ Server!Offer(job[p].manifest)
  /\ Hand(p, "upload")
  /\ UNCHANGED <<primary, localVars, upload, boundVars>>

\* rsync --inplace --partial
BeginUpload(p) ==
  /\ At(p, "upload")
  /\ upload' = Torn
  /\ Within(p, "transfer")
  /\ UNCHANGED <<primary, localVars, serverVars, boundVars>>

FinishUpload(p) ==
  /\ At(p, "transfer")
  /\ upload' = replica
  /\ Hand(p, "publish")
  /\ UNCHANGED <<primary, localVars, serverVars, boundVars>>

\* The commit marker: one rename.
PublishDatabase(p) ==
  /\ At(p, "publish") /\ upload # None
  /\ Server!Deliver(upload)
  /\ upload' = None
  /\ HandOn(p, [job[p] EXCEPT !.pc = "checkpoint", !.given = "incoming"])
  /\ UNCHANGED <<primary, localVars, boundVars>>

\* A release of the snapshot is under way and may still reject it.
Undecided(id) ==
  \/ journal.state = "claiming" /\ claimed = id
  \/ journal.state \in {"building", "trial", "quarantining"} /\ journal.id = id

\* remote_journal_generation
Checkpoint(p) ==
  /\ At(p, "checkpoint")
  /\ HandOn(p, [job[p] EXCEPT !.pc = "trigger", !.earlier = Undecided(job[p].manifest.id)])
  /\ UNCHANGED <<primary, localVars, upload, serverVars, boundVars>>

\* systemctl start; a unit that runs is not started again.
Trigger(p) ==
  /\ At(p, "trigger")
  /\ IF apply = "off" THEN Server!Start ELSE UNCHANGED serverVars
  /\ Hand(p, "wait")
  /\ UNCHANGED <<primary, localVars, upload, boundVars>>

\* Mutants of Verdict: a state from before the checkpoint is believed, and one
\* of another snapshot.
VerdictOfAnyTime(p, state) == At(p, "wait") /\ journal = [state |-> state, id |-> job[p].manifest.id]
VerdictOnAny(p, state) == At(p, "wait") /\ job[p].moved /\ journal.state = state

\* remote_terminal_state
Verdict(p, state) ==
  /\ At(p, "wait") /\ job[p].moved
  /\ journal = [state |-> state, id |-> job[p].manifest.id]

SayDone(p)     == Verdict(p, "committed") /\ End(p)
SayRejected(p) == Verdict(p, "quarantined") /\ End(p)

\* Apply is blocked, or AI_RADAR_SYNC_APPLY_TIMEOUT_S is over and acceptance
\* unknown.
GiveUp(p) == At(p, "wait") /\ End(p)

\* A command fails, or the host goes down with every process of the round;
\* files stay as they are.
Stop(p) ==
  /\ job[p].pc # "idle" /\ stops < MaxStop
  /\ stops' = stops + 1
  /\ job' = [job EXCEPT ![p] = Idle]
  /\ UNCHANGED <<primary, localVars, upload, serverVars, orphans>>

\* The entrypoint alone is killed; it waits for the verdict itself.
Orphan(p) ==
  /\ job[p].pc \notin {"idle", "wait"} /\ job[p].alive /\ orphans < MaxOrphan
  /\ orphans' = orphans + 1
  /\ job' = [job EXCEPT ![p].alive = FALSE]
  /\ UNCHANGED <<primary, localVars, upload, serverVars, stops>>

-----------------------------------------------------------------------------
(* The server *)

\* Every write gives the journal another generation.  A write that leaves the
\* state as it was is none of a verdict.
Rewritten == journal' # journal

\* What a step of the server makes of the database a round published: it is
\* renamed on the claim, and may end in quarantine.
Fate(p) ==
  IF job[p].given = "incoming" /\ incoming' = None THEN "claimed"
  ELSE IF job[p].given = "claimed" /\ Rewritten
          /\ journal' = [state |-> "quarantined", id |-> job[p].manifest.id] THEN "rejected"
  ELSE job[p].given

Seen ==
  job' = [p \in Producers |->
    [job[p] EXCEPT !.moved = @ \/ (Rewritten /\ job[p].pc \in {"trigger", "wait"}),
                   !.given = Fate(p)]]

\* What a step of the server leaves alone.
Aside == Seen /\ UNCHANGED <<primary, localVars, upload, boundVars>>

Serve == Server!Step /\ Aside

\* ai-radar-db-apply.timer: ten minutes after boot and every half hour.
TimerFires == Server!Start /\ Aside

\* Apply dies, or gives up for want of memory or settings.
ApplyDies ==
  /\ stops < MaxStop
  /\ stops' = stops + 1
  /\ Server!Die
  /\ UNCHANGED <<primary, localVars, upload, job, orphans>>

-----------------------------------------------------------------------------
\* The pipeline writes.
WritePrimary ==
  /\ primary < MaxWrite
  /\ primary' = primary + 1
  /\ UNCHANGED <<localVars, upload, serverVars, job, boundVars>>

Init ==
  /\ primary = 0
  /\ snapshot = None /\ replica = None /\ hot = None
  /\ upload = None
  /\ Server!Init
  /\ job = [p \in Producers |-> Idle]
  /\ stops = 0 /\ orphans = 0

Prepare(p) ==
  \/ TakeSnapshot(p) \/ ValidateReplica(p) \/ BeginDelta(p) \/ NoDelta(p)
  \/ CommitDelta(p) \/ AbortDelta(p) \/ Reconcile(p) \/ Rebuild(p) \/ BuildManifest(p)

Ship(p) ==
  \/ PublishSidecar(p) \/ BeginUpload(p) \/ FinishUpload(p) \/ PublishDatabase(p)
  \/ Checkpoint(p) \/ Trigger(p)

Await(p) == SayDone(p) \/ SayRejected(p) \/ GiveUp(p)

Step(p) == Prepare(p) \/ Ship(p) \/ Await(p)

Next ==
  \/ \E p \in Producers : Begin(p) \/ Step(p) \/ Stop(p) \/ Orphan(p)
  \/ Serve \/ TimerFires \/ ApplyDies \/ WritePrimary

Spec == Init /\ [][Next]_vars

\* cron begins a round every five hours, every command of a round and of apply
\* comes to an end, and the gates do not turn everything down for ever.
Fairness ==
  /\ WF_vars(\E p \in Producers : Begin(p) \/ Step(p))
  /\ WF_vars(Serve)
  /\ SF_vars(Server!Try /\ Aside) /\ SF_vars(Server!Show /\ Aside) /\ SF_vars(Server!Verify /\ Aside)

FairSpec == Spec /\ Fairness

-----------------------------------------------------------------------------
(* Properties *)

TypeOK ==
  /\ primary \in Versions
  /\ snapshot \in Versions \cup {None} /\ replica \in Files /\ hot \in Files
  /\ upload \in Files
  /\ Server!TypeOK /\ {shown, basis} \subseteq Versions
  /\ job \in [Producers -> Job]
  /\ stops \in 0..MaxStop /\ orphans \in 0..MaxOrphan

\* Whatever dies in the middle of a delta, an upload or a rename, and whatever
\* an orphan still does: a database the server may claim is a whole state of
\* the primary, and the oracle published under its hash is of that state.
GivenIsWhole ==
  /\ {incoming, claimed} \subseteq 0..primary \cup {None}
  /\ \A m \in sidecars : m.oracle = m.id

\* A round that reports success has brought everything of its snapshot to what
\* the server accepted, although another round's may have overtaken it, or its
\* own may have been resent or rejected under way.
DoneIsFresh == [][\A p \in Producers : SayDone(p) => basis >= snapshot]_vars

\* A round that reports a rejection reports a decision made after its checkpoint
\* on its own snapshot: the server claimed the database this round published and
\* turned it down, or it finished turning down a release of the same snapshot
\* that an earlier round had left under way at the checkpoint -- then the round's
\* own database may still lie in incoming.  A verdict that was in the journal at
\* the checkpoint is never taken for the round's.
RejectionIsCurrent ==
  [][\A p \in Producers : SayRejected(p) =>
       \/ job[p].given = "rejected"
       \/ job[p].given = "incoming" /\ job[p].earlier]_vars

\* Every write reaches the server in the end, through torn replicas, journals
\* left behind, interrupted uploads, swept sidecars and lost verdicts, unless
\* apply waits for an operator: by design, or because the sidecar of a quarantine
\* that was interrupted has been published again.
Arrives ==
  <>[](basis = MaxWrite \/ journal.state = "blocked" \/ Server!Republished \/ primary < MaxWrite)
=============================================================================
