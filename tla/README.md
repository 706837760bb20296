# Verification of ai-radar

ai-radar collects posts from X, RSS feeds and WeChat accounts, scores and curates them in a SQLite database, and serves the
result from a web server that is a different machine. Almost every hard question about it is of one kind: *a step was taken by
one process, in one database or on one machine, and the step that belongs to it was not, because a process died, another one
was faster, or an operator changed the configuration in between.* This directory holds TLA+ models of the parts where that
decides whether an article is lost, delivered twice, credited to the wrong account or served too late; TLC configurations that
check them on small instances; and theorems, checked by TLAPS, that hold for every instance.

All source paths are relative to the repository. `PROJECT.json` maps every definition to the lines it translates.

## 1. Inventory

| Part | State it keeps | Operations | Modelled in |
|---|---|---|---|
| Ingestion: collector and consumer (`fetcher/ingestion.py`, `fetcher/runner.py`, `sources/sync.py`, migration 023) | queue database: identity, source rows, outbox; main database: source rows, items, acknowledgements | `initialize`, `fetch_all` with and without outbox, `Outbox.record/finish`, `consume`, `_apply`, `_discard` | `Ingestion`, `OutboxDelivery` |
| X timeline cursor (`fetcher/x_api.py`, `sources/x_state.py`, `runner.py`) | runtime keys of `meta_json` of one source row, items | `fetch_x_timeline`, `_next_meta`, `validate_x_runtime_meta`, `_apply_source_feed_result`, `_persist_x_failure` | `XTimeline` |
| Hot candidate cache (`web/routes/hot_cache.py`) | one cache entry with its version and age, the bound path, the keeper thread | `bind`, `peek`, `_refresh_if_needed`, `_keep_warm` | `HotCache` |
| Database release (`deploy/sync/apply_db_update.py`) | release journal, two serving slots, active-upstream include, update directory, basis and receipt | `apply`, `reconcile`, `finalize`, rollback, quarantine | `ApplyUpdate`, `ReleaseIntake`, `GatedRelease` |
| Alerts (`admin/alerts.py`) | state file with two lifecycles per rule, event log, notifications in flight | `evaluate_rules`, `run_alert_results_state_machine`, `_apply_alert_results`, `send_alert_message` | `AlertLifecycle` |
| Snapshot and transfer (`deploy/sync/sync-db-to-server.sh`, `snapshot_db.py`, `logical_delta.py`, `build_fts_manifest.py`) | snapshot, shipping replica and its rollback journal, manifest, kernel lock; on the server upload, sidecars, incoming | one round: snapshot, delta, manifest, upload, publish, trigger, wait | `SnapshotTransfer` |
| Raw capture (`fetcher/raw_capture.py`) | run directories and their events | `prepare`, `record`, `finish`, `freeze`, `prune` | not modelled, section 7 |
| Collection supervisor (`scripts/collection_supervisor.py`), `pipeline.sh`, `pipeline_lock.py` | locks, job state, streaks, incident identity | `run_job`, `run_bounded`, health | not modelled, section 7 |
| WeChat discovery (`wechat_discovery/store.py`) | candidates, evaluations, cooldowns | one transaction per command | not modelled, section 7 |
| Stages, curation, providers, web routes, reports, evaluation, deployment of code | see `PROJECT.json` | batch stages under one lock, stateless reads, reports | not modelled, section 7 |

How they interact: cron starts `pipeline.sh` (lock on a file) and `collector.sh`. The collector writes the *queue* database only;
`ingest`, the first stage of the pipeline, moves its outbox into the *main* database; the other stages evaluate items of the main
database one after another under the pipeline lock; a snapshot of the main database is sent to the server and released there into
the slot that is not serving; the web process answers from its slot and keeps one expensive list in the hot cache, which polls
the counters that triggers maintain. A periodic alert check and the performance monitor evaluate the alert rules, against one
state file and one lock, and speak through im-notify. X sources carry their cursor in the very row that the source file configures, so that an
edit of the file, a fetch and a consumed batch all write to it.

What is hard: (1) two databases without a common transaction; (2) network calls made without any lock between reading a row and
writing it; (3) process deaths between any two of these; (4) edits of the source file at any moment, which re-key what is in
flight; (5) time: ceilings, polls and checkpoints given in seconds, by clocks of different hosts; (6) retries of what may already
have been done. The list `hazards` in `PROJECT.json` names each one at its line.

## 2. Modules

| Module | What it is |
|---|---|
| `OutboxDelivery` | What the hand-over promises: a log of batches, each applied to the store exactly once and in order |
| `Ingestion` | The collector, the queue with its outbox, the consumer and the main database; refines `OutboxDelivery` |
| `IngestionProofs` | Inductive invariant, seven safety theorems, and the refinement |
| `XTimeline` | One X source: pages, checkpoint, overlapping fetch processes, identity changes |
| `XTimelineProofs` | Inductive invariant, no post skipped, identity, monotone checkpoints |
| `HotCache` | The keeper thread, the entry, rebinding, time |
| `HotCacheProofs` | Inductive invariant, staleness ceiling, no missed write |
| `GatedRelease` | What a release promises a reader: one snapshot on trial at a time, accepted or withdrawn; implemented by `ApplyUpdate` |
| `ReleaseIntake` | What a release promises the producer: what becomes of a published database and sidecar, what the journal says of them, when `GatedRelease` moves; implemented by `ApplyUpdate`, built upon by `SnapshotTransfer` |
| `ApplyUpdate` | Claim, rebuild, switch, gates, rollback, quarantine, finalization and recovery; refines `ReleaseIntake` and `GatedRelease` |
| `ApplyUpdateProofs` | Inductive invariant, six safety theorems, two about steps, and the refinement of `GatedRelease` |
| `ReleaseIntakeProofs` | The refinement of `ReleaseIntake`, on the inductive invariant of `ApplyUpdateProofs` |
| `AlertLifecycle` | One alert rule: episodes per severity, prepared notifications, retries, recoveries, pauses, overlapping evaluators |
| `AlertLifecycleProofs` | Inductive invariant, four safety theorems and two about steps |
| `SnapshotTransfer` | The producer's rounds, composed with the server as `ReleaseIntake` describes it |
| `SnapshotTransferProofs` | Inductive invariant, two safety theorems and two about steps |
| `MC*` | Small instances for TLC, nothing else |

### Ingestion

`file` is the source file; `qConf`/`qMeta` and `mConf`/`mMeta` are the source rows of the queue and of main (configuration, and
account with cursor); `outbox` with `lastId` is the table `ingestion_outbox` with its AUTOINCREMENT sequence; `acks` is
`ingestion_acks`; `collector` and `consumer` are the program counters of the two commands. `published`, `applied` and `fetched`
(in which round which source was fetched without a failure) are history: no action reads them. A post of an account is a number, and cursor *n* claims posts 1..n.

| Action | Code |
|---|---|
| `Initialize`, `EnableDecoupled` | `ingestion.initialize` under both writer locks; the environment flag |
| `DirectRound` | `fetch_all` without an outbox: before the cut-over |
| `StartRound`, `BeginSource`, `CommitSource`, `CommitFailure`, `RollbackSource`, `FinishRaw`, `FinishRound` | `fetch_all` with an outbox; `BeginSource` takes the queue's write lock, which is what makes `_discard` meet SQLITE_BUSY |
| `StartConsume`, `ApplyBatch`, `RepeatBatch`, `RefuseBatch`, `Discard`, `FinishConsume` | `consume`: one transaction of main per batch, the outbox row deleted only afterwards |
| `CrashCollector`, `CrashConsumer` | either process dies between two transactions |
| `EditSource` | an operator edits the source file at any moment |

`Fetched` lets a fetch return all posts up to a number the environment picks, so that a cursor moves by any amount; that a real
fetch of an X source does not skip anything on the way is what `XTimeline` shows. Mutual exclusion of rounds (collector lock) and
of consumers (pipeline lock) is a guard: both are `flock`s held for the whole command.

### XTimeline

`timeline[a]` is what X has of account *a*, with originals and posts that the request excludes (retweets, replies) but which
take up ids; `name` and `runtime` are the source row; `job[f]` is a fetch process with the snapshot it loaded. Every request is
three steps (`Start`, `Lookup` or `FetchPage`, `Apply` or `Block`), with no lock in between, so processes overlap freely; a
manual fetch really takes no lock. `Valid` is `validate_x_runtime_meta` and is a *guard* of the fetch (the code raises), so the
type invariant says that the code never stores what the validator would reject: one such row would end the rounds of all sources
(`sync_to_db`). `Lag` is how far a request's `fetched_at` may lie behind X's clock. `GapPages` lets X answer with a page of
excluded posts only, although it has a next page.

### HotCache

`signalled[d]` counts the curation writes of a database, `sources[d]` stands for the digest of its source rows; the version is the
pair. An iteration of the keeper is `ReadVersion`, `Skip` or `Hydrate`, `Store`, in this order, with writes and rebinds between
them. `Tick` is a second; `entry.age` is what `peek` compares, `entry.readAge`, a history variable, is how old the *content* is.

### ApplyUpdate

The producer (`staged`, `pushes`) publishes a sidecar, then the database, and holds no lock of the server. One apply process at a
time (`.deploy.lock`) is the program counter `pc`, with `after` for where `reconcile` returns to. Files: `incoming`, `claimed`,
`sidecars`, `journal`, `slotDb`, `basis`, `receipt`, and `moved`, the part of the current quarantine that is done. Host: `include`
is the file that names the active port, `route` the port nginx serves from *in fact*, `running` and `enabled` what systemd runs and
what it starts at boot. The journal entry carries the rollback oracle (what served when the switch began) and the quarantine's
intent (which artifacts to move), as in the code. `attempts` and `masked` are history. A file is the snapshot it holds, and
`Answer` says what the search probes get from a snapshot: two snapshots may answer alike.

| Actions | Code |
|---|---|
| `PublishSidecar`, `PublishDatabase`, `PushFails` | the two renames of `sync-db-to-server.sh` |
| `Start`, `Reconcile*` | `apply`; one action per branch of `reconcile`, by journal state, verifier and retry |
| `Look`, `Claim`, `Select`, `Materialize`, `VerifyCandidate`, `Reject*` | `_apply_locked` up to the verified candidate |
| `Restart`, `Enable`, `Probe`, `Capture`, `GiveUp` | `_continue_release` before the switch |
| `Point`, `Reload`, `Switched`, `Gate`, `StopOld`, `Prove`, `Retreat` | the switch and its gates; `Retreat` is any of them failing |
| `Rollback`, `Back`, `ReloadBack`, `Baseline`, `Condemn`, `RollbackFails` | `_rollback_pending_consumer` |
| `BeginQuarantine`, `SkipMove`, `Move`, `MoveRefused`, `Conclude` | `_complete_quarantine`, one rename at a time |
| `Finalize`, `DisableOld`, `DropOld`, `AdvanceBasis`, `WriteReceipt`, `Commit`, `SweepBase`, `SweepManifest` | `finalize`, one command or file at a time |
| `Crash`, `Reboot`, `Upgrade` | the process dies; the host restarts; `deploy_code` installs another verifier |

`nginx -s reload` returns success when the signal is delivered, so `ReloadNginx` either takes effect or moves nothing; the second
is counted as a failure. `masked` records that it moved nothing *while both slots answered alike*, the one situation no probe
can see. A sidecar is determined by its snapshot. `Init` is an installation with a committed release; the first installation and
journals of earlier versions are not modelled.

### AlertLifecycle

Rules share the state file but not its entries, so one rule is followed, chosen by `Init`: A2 (owes two quiet evaluations, its
page may be carried by W1), A4 (its notice has to last), A7 (names its sources, which may be paused), W1 and PERF (pages; PERF
compares evaluation sequences). `lc` is the entry, one lifecycle per severity; `ev[e]` an evaluator between reading the
signals and its last write; `heard` what the operator has seen, with im-notify showing a signature once; `ledger` the rows of
`alert-events.jsonl` that close an episode. `handed`, `calm`, `spared`, `applied` are history: `calm` counts
the quiet evaluations since the rule last fired, `spared` the quiet streak which that firing evaluation found on the outgoing
severity and has not voided yet.

| Actions | Code |
|---|---|
| `Observe`, `Turn` | the signals are read, before the state lock; what they say is chosen by the environment |
| `Abandon`, `Skip`, `Defer`, `Retry` | `_alert_state_lock` times out; a later evaluation is on file; evidence in progress, with and without a notification owed |
| `ClosePaused`, `RecordPaused` | an A7 episode whose sources are all paused: first the row, then the state |
| `Announce`, `KeepFiring` | a firing evaluation, up to the prepared notification, or to its end when nothing is said |
| `Recover`, `StayQuiet` | a quiet one likewise |
| `Accepted`, `Refused`, `AnswerLost`, `Finish` | `send_alert_message` and what is written of its outcome |
| `Crash` | the evaluator dies anywhere; the kernel frees the lock |

An episode is known by its start. A reservation of an evaluation sequence is kept relative to the entry's (`seq`), so that it
is bounded.

### SnapshotTransfer

A database file is the number of primary writes it holds, or `Torn`. `replica` is updated in place by the logical delta; `hot` is
what the rollback journal beside it would restore, which SQLite does when the file is opened for writing (`Opened`) and does not
when it is read with `immutable=1`, as the validation does. `job[p]` is a round: `pc` names the child that works, `alive` says
whether the entrypoint that would start the next one still exists. `Locked` is the `flock` on descriptor 9, which children inherit.
`given` (what the server made of the database this round published) and `earlier` (whether the checkpoint found a release of the
same snapshot undecided) are history.

| Actions | Code |
|---|---|
| `Begin`, `TakeSnapshot` | the lock, the removed snapshot, `backup_database` |
| `ValidateReplica`, `BeginDelta`, `NoDelta`, `CommitDelta`, `AbortDelta`, `Reconcile`, `Rebuild` | `sync_replica`: shape, delta in one transaction, digests of all tables, self-heal |
| `BuildManifest`, `PublishSidecar`, `BeginUpload`, `FinishUpload`, `PublishDatabase` | the manifest of snapshot and replica, `mv -n`, `rsync --inplace`, `mv -f` |
| `Checkpoint`, `Trigger`, `SayDone`, `SayRejected`, `GiveUp` | the generation of the journal, `systemctl start`, `wait_for_apply_terminal` |
| `Stop`, `Orphan` | a command fails or the host dies; the entrypoint alone is killed |
| `Serve`, `TimerFires`, `ApplyDies` | the server's apply: a step, the start, the death of a `ReleaseIntake` |

### ReleaseIntake

A producer sees the names it publishes under, the journal's state and id, and in the end the site. `ReleaseIntake` is `ApplyUpdate` reduced
to that. `apply` says what the process is about (`Phase` of its program counter), `journal` in what stage the release is (`Stage` of
the journal's state; everything between the first switch and the verified release is one trial), `sidecars` are the published
manifests, and `evidence` whether the quarantine under way still has to take one. The mapping (`Intake` in `ApplyUpdate`)
is made of functions of the state; no history is needed. The actions are named for the code's; slots, nginx, systemd, oracle
and retries have none.

## 3. What the runs check

| Run | Bounds | Shows |
|---|---|---|
| `ingestion` | 1 X source, 2 accounts, 2 rounds, 1 crash, edits | `MainCursorCovered`, `CollectedIsDeliverable`, `RuntimeOwned`, `Acknowledged`, `OutboxDrains` |
| `ingestion_rounds` | X source and feed, 1 round, 1 edit, 1 crash | `ReceiptCoversRound` (of a failed source there is a batch too: it is no evidence), type invariant, refinement `DeliveredInOrderOnce` |
| `x_safety` | 2 processes, 2 accounts, 2 posts in pages of 1, pages of excluded posts only, 1 s, 1 edit | `NothingSkipped`, `OwnIdentity`, `NeverBack`, type invariant |
| `x_liveness` | 2 processes, 2 posts, 1 failure | `EventuallyCollected` |
| `hot_cache` | 2 databases, 1 write each, 2 rebinds, 1 failure, refresh 2 s, ceiling 4 s | `NoMissedWrite`, `Ceiling`, `NeverExpires`, `ForeignIsBrief`, `EventuallyServed` |
| `hot_rebind` | as `hot_cache` | **violation** of `ServedIsBound` |
| `hot_digest` | as `hot_cache`, no rebinds | **violation** of `VersionTells` |
| `apply_release` | 2 snapshots with different answers, 2 pushes, 2 crashes or reboots, 2 failing commands, 1 verifier change | `AlwaysServes`, `BasisIsServed`, `NoManualStop`, `OneRetry`, `ServingUntouched`, `BaseNeverLost`, refinement `IsReleaseIntake`, `ReleaseEnds` |
| `apply_marker` | 2 pushes, 1 crash, 1 failing command | **violation** of `MarkerHasSidecar` |
| `apply_masked` | as `apply_marker`, with snapshots that answer alike | **violation** of `RouteNotMasked` |
| `alerts` | 5 rules (one per behaviour), 2 evaluators (1 for A7), 1 change of the signals (2 for PERF and A2), 1 crash, 1 tick beyond the epoch (none for A2) | `NonceNamesOneIntent`, `OperatorKnows`, `RecoveryEarned`, `EpisodesEndAccounted`, `NewerEvidenceStays`, `ReportedInTheEnd`, type invariant |
| `transfer` | 2 producers, 1 write, 2 rounds or applies that die, 1 orphan | `GivenIsWhole`, `DoneIsFresh`, `RejectionIsCurrent`, `Arrives`, type invariant |

Why the bounds are enough to meet the cases: two rounds are the least in which an outbox holds batches of different rounds and an
id could be reused; two edits let a source leave an account and come back to it while a batch of the first period waits; one crash
at every point of every process is what separates each pair of steps, and the theorems cover more. Two posts in pages of
one give a window that takes two rounds to drain, or a page with a new post on top of it; the failure is in `x_liveness`. Two processes are all an overlap needs. The hot cache's
four constants keep the code's relation (refresh + poll + hydration <= ceiling) at its tightest. Two slots are all there are; two
pushes let a release meet the evidence of the one before it, two crashes let a recovery be interrupted, two failures let a rollback
fail after a gate did, and one change of the verifier separates the two sides of a retry. One change of the signals opens or ends an episode, or moves
it to the other severity, while evaluators that read the old ones are still waiting for the lock, and PERF's second change
separates three readings; A2's lets it fire at the other severity while quiet evaluations are still owed; a tick more than the longest window lets a window pass. Two producers are the cron job and an
operator; an orphan and a death let a torn replica, or a published sidecar, meet a round of the other; the second death is one of apply in a
quarantine, between its two renames. The write gives the later round something else to send than the first installation holds, and
identical snapshots are what confuses verdicts. The theorems of section 5 hold for any
number of each.

Symmetry (of processes, accounts, configurations) is used in safety runs only. `CHECK_DEADLOCK FALSE` stands where the bounds on rounds, crashes and posts let the system
come to rest; the runs of `HotCache` and `AlertLifecycle` check deadlock.

### The four disagreements

* `bind` clears the entry and its docstring says a rebind "drops the entry" so that no request is served another database's list;
  a hydration that began before `bind` stores afterwards (`hot_rebind`). `ForeignIsBrief` bounds how long that lasts: the entry's
  version names its database, so the next poll replaces it, within one poll and one hydration.
* The comment on the version says that it changes whenever the cached candidates could. The digest of sources is no counter:
  sources that change and change back during one hydration leave a version that equals the current one with candidates that do
  not (`hot_digest`). `Ceiling` bounds that too.
* `build_fts_manifest.py` says that an identical sidecar is an idempotent retry and the database rename the commit marker. The
  cleanup of a committed journal deletes the sidecar of the committed snapshot whenever it finds one, so a second push of that
  snapshot loses the sidecar it has just published, and its database is quarantined as "manifest sidecar missing"
  (`apply_marker`). Nothing is lost: the snapshot is served already.
* A test of the gates asks that "identical old results cannot mask a broken nginx route". The way forward keeps to it: it stops the
  old slot before it proves the route. The rollback proves the baseline while the candidate still runs: if the reload back moved
  nothing and both snapshots answer alike, the candidate is retired under nginx (`apply_masked`). `masked` makes this the only
  exception of `AlwaysServes`.

`ReleaseEnds` names two more ends a release can come to, by design or by accident: a crash under another verifier waits for an
operator (`retry_blocked`, by design), and a sidecar that is published again while its predecessor's quarantine is interrupted
makes every later attempt stop at "source and destination both exist", although the code calls its renames replayable. The same stop was met again from the producer's side: a round that sends the same
snapshot again while its quarantine is interrupted publishes just that sidecar, so that `Arrives` has to except it (`Republished` of `ReleaseIntake`).

### Seen while modelling, and not checked by a run

The properties of `AlertLifecycle` are worded so that they hold of the code; a maintainer should know where they stop:

* A firing message that was delivered, but whose evaluator died (or whose answer was lost) before that was recorded, belongs to an
  episode that the file calls unannounced. If the rule is quiet afterwards, the episode is closed without a recovery.
* The comment at `admin/alerts.py:2694` calls the reset of quiet streaks unconditional: "the rule is firing again, so the previous
  episode's quiet streak is void on EVERY outgoing severity", lest a recovery "date the clearing to before the intervening outage".
  The reset is written with the *record* of the firing evaluation. If the page has served one of two quiet evaluations, the rule
  fires as a notice, and the evaluator dies between preparing that message and recording it, then one more quiet evaluation
  sends the page's recovery: TLC finds this when `RecoveryEarned` is put without `spared`. `spared` makes it the only exception: just
  that streak, of just that severity, until a firing evaluation is recorded.
* If a notice is announced, the page that takes it over refused, and then delivered by a retry with evidence in progress, both
  severities are announced until the next complete evaluation.
* A recovery that was shown but not recorded, followed by a firing evaluation: the episode is still announced, so that nothing says
  the rule fires again.
* Rules other than PERF take their evaluation number with the state lock, after their signals were read: an evaluation of older
  signals may have the last word until the next one.
* Recoveries of the page and of the notice lifecycle share the signature `NOTICE:resolved:<nonce>`.

Of `SnapshotTransfer`, about whose verdict a round reports: when a round sends a snapshot while a release of the *same* snapshot,
published by an earlier round, is under way, and that release is turned down after the later round's checkpoint, the later round
reports "terminal state quarantined ... apply did not accept this snapshot" (`sync-db-to-server.sh:231`) although its own database
still lies in `incoming`. The earlier release may be one that `reconcile` completes (`apply_db_update.py:2834`), or one that runs
all the while; and the round's own copy can be accepted afterwards, in the next apply. A test asks that the verdict of the same
snapshot is not reused from a prior round (`tests/test_sync_db_producer.py:814`); it covers the verdict that is in the journal at the
checkpoint, which is never believed. `RejectionIsCurrent` says so of every other case, and excepts this one (`earlier`); without the
exception TLC finds it.

Also there: `_replace_with_base_copy` does not remove a rollback journal that a killed delta has left; the next round's
delta restores old pages over the new file, reconciliation notices, and the replica is rebuilt once more. It costs a rebuild
and nothing else, which is what `GivenIsWhole` and `Arrives` say. `sync-db-cron.sh:11` describes a hand-off that does not wait; the
script it calls does wait for the verdict and exits accordingly (not checked by a run: the wrapper is not modelled).

## 4. Fairness

* `Ingestion`: weak fairness of starting a consumer once decoupled (cron), of each step of a started process (a supervisor with a
  budget ends one that hangs, and the commands have no wait but SQLite's busy timeout). No fairness of rounds, of edits, or of a
  *successful* fetch. Crashes and edits are bounded in number, not in time.
  Rounds are bounded in number too: that a collector which is always busy keeps `_discard` from ever getting the queue is
  outside `OutboxDrains`.
* `XTimeline`: weak fairness of starting, strong fairness of a request that is answered: the API may fail for a while, not
  for ever. `EventuallyCollected` assumes `GapPages = FALSE`: with a first page of excluded posts only, the code has no
  high-water mark, refuses the page, and makes no progress until an original is on the first page (a listed hazard). It also
  assumes that pagination tokens do not expire (another one).
* `HotCache`: weak fairness of the keeper thread, whose loop catches every exception, and of time.
* `AlertLifecycle`: weak fairness of some evaluator starting (launchd and the samplers start them again and again) and of each
  evaluator's next step (the lock has a timeout, the transport another), strong fairness of a message being accepted: im-notify
  may refuse and lose answers, but not for ever. None of the signals.
* `SnapshotTransfer`: weak fairness of rounds (cron begins one, every command of it ends; `Stop` is one of the ways only within its
  bound), not of each producer, and of apply's steps; strong fairness of `Try`, `Show` and `Verify`: the gates do not turn every
  snapshot down. None of the apply timer: the rounds trigger apply often enough. `Arrives` excepts an apply that waits for an operator.
* `ApplyUpdate`: weak fairness of starting a process (the producer's cron job triggers one every few hours, and so does a boot)
  and of its next step (each command and probe has a timeout). Crashes and failing commands are bounded in number; a gate may
  reject every snapshot (`Reject*`, `Retreat`), which ends the release in the quarantine.

## 5. What is proved

The proofs assume only the named assumptions on the constants (`IngestionAssumption`, `XTimelineAssumption`, `HotCacheAssumption`,
`ApplyUpdateAssumption`, `SnapshotTransferAssumption`; `RulesAssumption`, `EvaluatingAssumption` and `ThresholdsAssumption` of
the alerts), which TLC evaluates in the runs.

* **Ingestion** (`IngestionProofs`). The safety properties are not inductive: that the cursor of a batch claims nothing main
  lacks when it is applied depends on the batches before it. `IInv` therefore says that main has applied a *prefix* of history and
  acknowledged just that (`OneHistory`), that each pending batch's cursor is *due*, i.e. covered by main together with the pending
  batches up to it (`CursorsDue`), that runtimes in rows and in batches belong to the account of their configuration (`Owned`), that the
  consumer's work list leaves no pending batch out below it (`ConsumerInOrder`) and that a round without failures has fetched, and has a
  batch for, every source it is done with (`RoundsWhole`). Theorems: `TypeCorrect`, `CursorCovered`, `NothingLost`, `Ownership`, `AcksAreReliable`,
  `ReceiptIsEvidence`, and `ExactlyOnce`: every behaviour of `Ingestion` is one of `OutboxDelivery` under
  `log <- published, received <- applied, store <- mItems`.
* **XTimeline** (`XTimelineProofs`). `IInv` adds what is in flight: a fetched result is not behind the snapshot it started from, and
  everything it claims beyond the snapshot it carries along. With the compare-and-set of `Current` this gives `NoSkip`, `Identity`,
  and, as an action property, `Monotone`; `TypeCorrect` includes that no stored runtime fails the validator.
* **HotCache** (`HotCacheProofs`). `IInv` says the version is read before the candidates, and bounds the age of an entry by where the
  keeper is. Theorems: `TypeCorrect`, `Noticed`, `CeilingHolds`, `NoExpiry`, `ForeignGoes`.

* **ApplyUpdate** (`ApplyUpdateProofs`). That nginx always has a serving slot depends on what the journal allows the *next* process to
  do, so `IInv` says for each journal state what holds of files and host (`Durable`: outside a trial the include's slot shows the
  basis; on trial the oracle still describes the old slot, which stays enabled; base and sidecar are kept until the release is over;
  no state is reached that an operator would have to settle), and for each step of the process what it has established since
  (`Steps`). A crash keeps `Durable` and makes `Steps` vacuous; recovery starts from `Durable` alone. One lemma per group of
  actions proves both for each action. Theorems: `TypeCorrect` (with the journal's validator), `Serves`,
  `BasisServed`, `NeedsNoOperator`, `OneFreshRetry` (from a second invariant, `Counted`), the action
  properties `ServingNotWritten` and `BaseKept`, and `Implements`: pointing the include at the candidate is `Show`, pointing it back
  `Withdraw`, advancing the basis `Accept`, and everything else a stutter. (`IsGatedRelease` is proved only; the run checks the finer
  `IsReleaseIntake`.)
* **AlertLifecycle** (`AlertLifecycleProofs`). `IInv` says that at most one evaluator holds the lock, what is true of an entry at rest
  (`Sound`: a pending notification has a nonce of the past, announced means heard), how a quiet streak on file compares with the
  quiet evaluations there really were (`Streaks`), and what an evaluator in flight has prepared and may have said (`InFlight`,
  `Earned`, `Unspoken`, `Timed`). Theorems: `TypeCorrect`, `NoncesAreUnique`, `OperatorIsTold`, `RecoveriesAreEarned`, and
  `NewerEvidenceKept` about steps. A second invariant, `EpisodesInv`, relates the ledger to the entry: A7 announces one severity at
  a time, its signals are never in progress, a row of a pause is written once, and an evaluator between the row and the state still
  finds the row (`Rowed`). It gives `EpisodesAccountedFor`.
* **ReleaseIntake** (`ReleaseIntakeProofs`). `IntakeImplemented`: every behaviour of `ApplyUpdate` is one of `ReleaseIntake`. `IInv` of
  `ApplyUpdateProofs` is what makes the mapping hold: that a process which goes forward finds the journal it wrote (so that
  `Phase` and `Stage` agree), that claimed file and journal name one snapshot, that what the include points at is the basis outside
  a trial, and that the intent of a quarantine lists the sidecar only if there was one. One lemma per group of actions (`ProducerTold`,
  `EnvironmentTold`, `ReconcileTold`, `ReleaseTold`, `RecoverTold`, `FinishTold`) maps each action to the abstract one, or to
  a stutter.
* **SnapshotTransfer** (`SnapshotTransferProofs`). That only whole states are handed over needs that the replica is reconciled with the
  snapshot when a manifest is built and that neither changes until the upload ends (`Rounds`), which needs that a single round has
  a child at work (`Single`, from the inherited lock), and what the journal says of claimed file and release (`Handed`). Whose verdict
  a round reports depends on the server: a release becomes undecided about a snapshot only when a database is claimed, and rejects
  only what it was undecided about (`ServerDecides`); so none but a release the checkpoint found undecided can reject the
  snapshot while the round's own database is unclaimed (`Round`). Theorems:
  `TypeCorrect`, `OnlyWholeStates`, and about steps `DoneMeansFresh`, `RejectionsAreCurrent`. They are about a server that does what
  `ReleaseIntake` allows, which by `IntakeImplemented` is all that `ApplyUpdate` does: the two ends of the hand-over meet
  in one specification instead of in two models of the same code. What that step leaves to the reader is the identification of the
  two `Snapshots`: `ApplyUpdate` is proved for any set of snapshots, and `SnapshotTransfer` takes versions for them, with `Torn`
  among them until `OnlyWholeStates` rules it out; and the sidecars of `ApplyUpdate` are those whose oracle is of their own snapshot,
  which is what `OnlyWholeStates` says of the producer's.

Only model-checked: all liveness (`OutboxDrains`, `EventuallyCollected`, `EventuallyServed`, `ReleaseEnds`,
`ReportedInTheEnd`, `Arrives`), since TLAPS 1.4.5 has no ENABLED and no fairness; and the four violations.

## 6. Plan

The components whose state is shared between processes, databases or hosts are modelled. What would add to them, in this order:

1. `Collection`: `XTimeline` and `Ingestion` composed, so that the fetch in a round is the real one and `NothingSkipped` reaches the
   main database. It needs `Fetched` of `Ingestion` replaced by the pages of `XTimeline`, or both proved against a common
   "contiguous cursor" specification.
2. `RawCapture` (`fetcher/raw_capture.py`): that retention never removes a run which a kept or frozen run depends on.

## 7. What is not modelled, and why

* *Ingestion*: turning the decoupled mode off again, bodies and avatars of WeChat items, hashes that deduplicate items of different
  sources, corrupted payload hashes. An item is its key.
* *XTimeline*: text, media, display timestamps and quoted posts. `fetched_at` is taken not to be ahead of X's clock.
* *HotCache*: the ranking of candidates per request (a pure function of them), and that `start_keeper` starts one thread only.
* *ApplyUpdate*: contents of failure records, pruning of old quarantines, journals written by earlier versions, the restarts that
  `deploy_code` makes of its own, the first installation, and a second sidecar for the same snapshot with other contents (the code
  raises in every reconciliation until it is removed). `finalize` does not look whether the old slot stopped, and neither does
  the model.
* *AlertLifecycle*: how signals are collected and compared with thresholds (data), the counter of the health page,
  `prepare_alert_source_pause`, the notifications about prices, and the ledger rows of delivered messages.
* *SnapshotTransfer*: how rows are compared, equal rows on different pages (and hence different hashes), dry runs, compression, the
  ssh-agent and age checks of `sync-db-cron.sh`. A verdict of a server whose receipt contradicts its journal is a `GiveUp`.
* *Raw capture archive, collection supervisor, pipeline lock*: exclusive locks around one process each; `Ingestion` uses
  what they provide (one collector, one consumer, rounds begun again and again).
* *WeChat discovery store*: a line of work that ADR 061 has retired; migrations, sampling and cooldowns, a transaction each.
* *Stages* (prefilter, score, enrich, interpret, curate): sequential batches under the pipeline lock; what a model answers is data.
* *Pure functions of text*: feed parsing, fingerprints of items, the rows of the logical delta. They are computed on strings
  and rows that the models do not tell apart.
* *Reports, evaluation tools, costs, web routes*: stateless reads.
* *External*: X, feeds, nginx, systemd, SQLite. They are modelled by how the code uses them: transactions with one writer, a
  reload that may be without effect, units that start at boot if enabled.
