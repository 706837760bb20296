-------------------------- MODULE ReleaseIntakeProofs --------------------------
(***************************************************************************)
(* Proof that ApplyUpdate implements ReleaseIntake, the release as the      *)
(* producer sees it, for any snapshots and any number of pushes, crashes,   *)
(* failures and upgrades.                                                   *)
(***************************************************************************)
EXTENDS ApplyUpdateProofs

-----------------------------------------------------------------------------
(* The mapping *)

\* What the mapping reads of the slots.
OnSite == slotDb[include].snap

USE ApplyUpdateAssumption
USE DEF producerVars, intakeVars, commitVars, hostVars, boundVars, fileVars, historyVars, Cand,
        Old, Goto, Exit, Fail, Snap, Labels, Pending, Rebuilding, Unsettled, Retire, RetireFails
USE DEF Intake!In, Intake!Goto, Intake!Leave, Intake!Exit, Intake!Write, Intake!fileVars,
        Intake!releaseVars, Intake!processVars

\* The phases.
LEMMA Phases ==
  /\ Phase("idle") = "off" /\ Phase("reconcile") = "reconcile" /\ Phase("look") = "look"
  /\ Phase("record") = "record"
  /\ \A step \in {"rollback", "back", "reloadBack", "baseline", "condemn", "quarantine", "base",
                  "candidate", "manifest"} : Phase(step) = "back"
  /\ \A step \in {"claim", "select", "rebuild", "verify", "restart", "enable", "probe", "capture",
                  "point", "reload", "switched", "gate", "stopOld", "prove", "finalize",
                  "disableOld", "dropOld", "basis", "receipt", "commit", "sweepBase",
                  "sweepManifest"} : Phase(step) = "forward"
BY DEF Phase

\* The stages of a release.
LEMMA Stages ==
  /\ Stage("rebuilding") = "building" /\ Stage("prepared") = "building"
  /\ \A state \in Pending : Stage(state) = "trial"
  /\ Stage("consumer_verified") = "verified"
  /\ \A state \in {"retry_blocked", "rollback_blocked", "finalize_blocked"} : Stage(state) = "blocked"
  /\ \A state \in {"idle", "claiming", "committed", "quarantining", "quarantined"} :
       Stage(state) = state
BY DEF Stage

\* The sidecars named by a snapshot.
Named(snaps, s) == {m \in Published(snaps) : m.id = s}

\* A sidecar more, a sidecar less, and whether there is one.
LEMMA Sidecars ==
  ASSUME NEW snaps, NEW s
  PROVE  /\ Published(snaps \cup {s}) = Published(snaps) \cup {[id |-> s, oracle |-> s]}
         /\ Named(snaps, s) = {} <=> s \notin snaps
         /\ Published(snaps \ {s}) = Published(snaps) \ Named(snaps, s)
<1>1. \A m : m \in Published(snaps) <=> \E t \in snaps : m = [id |-> t, oracle |-> t]
  BY DEF Published
<1>2. Published(snaps \cup {s}) = Published(snaps) \cup {[id |-> s, oracle |-> s]}
  <2>1. \A m : m \in Published(snaps \cup {s})
                 <=> \E t \in snaps \cup {s} : m = [id |-> t, oracle |-> t]
    BY DEF Published
  <2> QED
    BY <1>1, <2>1
<1>3. Named(snaps, s) = {} <=> s \notin snaps
  <2>1. ASSUME s \in snaps
        PROVE  \E m \in Published(snaps) : m.id = s
    <3>1. [id |-> s, oracle |-> s] \in Published(snaps)
      BY <1>1, <2>1
    <3> QED
      BY <3>1
  <2>2. ASSUME NEW m \in Published(snaps), m.id = s
        PROVE  s \in snaps
    BY <1>1, <2>2
  <2> QED
    BY <2>1, <2>2 DEF Named
<1>4. Published(snaps \ {s}) = Published(snaps) \ Named(snaps, s)
  <2>1. \A m : m \in Published(snaps \ {s}) <=> \E t \in snaps \ {s} : m = [id |-> t, oracle |-> t]
    BY DEF Published
  <2>2. \A t \in snaps : [id |-> t, oracle |-> t].id = t
    OBVIOUS
  <2>3. \A m : m \in Published(snaps \ {s}) <=> m \in Published(snaps) /\ m.id # s
    BY <1>1, <2>1, <2>2
  <2> QED
    BY <2>3 DEF Named
<1> QED
  BY <1>2, <1>3, <1>4

\* A database without its sidecar.
LEMMA Lacks ==
  ASSUME NEW s
  PROVE  Intake!Of(s) = {} <=> s \notin sidecars
BY Sidecars DEF Intake!Of, Named

\* A sidecar is swept away.
LEMMA Swept ==
  ASSUME NEW s, sidecars' = sidecars \ {s}
  PROVE  Published(sidecars') = Published(sidecars) \ Intake!Of(s)
<1>1. Published(sidecars \ {s}) = Published(sidecars) \ Named(sidecars, s)
  BY Sidecars
<1> QED
  BY <1>1 DEF Intake!Of, Named

\* Where a process goes from a release that is over.
LEMMA Ends ==
  /\ \A then : Afterwards("idle", then) = "look"
  /\ \A step : step # "idle" => Afterwards(step, "idle") = "off" /\ Afterwards(step, "look") = "look"
BY DEF Afterwards

\* Outside a quarantine there is no evidence.
LEMMA NoEvidence ==
  \A entry, done : entry.state # "quarantining" => Taken(entry, done) = "none"
BY DEF Taken

\* What is shown changes with the include only.
LEMMA SiteKept ==
  ASSUME IInv, [Next]_vars, include' = include
  PROVE  OnSite' = OnSite
BY SlotsKept DEF OnSite, ServingKept

\* The journal says the same to a producer.
SameEntry ==
  \/ journal' = journal /\ ("manifest" \in moved') = ("manifest" \in moved)
  \/ /\ {journal.state, journal'.state} \cap {"quarantining"} = {}
     /\ Stage(journal'.state) = Stage(journal.state) /\ journal'.snap = journal.snap

SameFiles == UNCHANGED <<sidecars, incoming, claimed, basis>> /\ OnSite' = OnSite

\* A step the producer does not see.
LEMMA Unseen ==
  ASSUME SameFiles, SameEntry, Phase(pc') = Phase(pc),
         Afterwards(pc', after') = Afterwards(pc, after)
  PROVE  UNCHANGED Intake!intakeVars
<1>1. [state |-> Stage(journal'.state), id |-> journal'.snap]
        = [state |-> Stage(journal.state), id |-> journal.snap]
  BY DEF SameEntry
<1>2. Taken(journal', moved') = Taken(journal, moved)
  BY NoEvidence DEF SameEntry, Taken
<1> QED
  BY <1>1, <1>2 DEF Intake!intakeVars, SameFiles, OnSite

\* A step at which the process ends without having changed anything.
LEMMA Ended ==
  ASSUME SameFiles, SameEntry, pc' = "idle", Phase(pc) # "off"
  PROVE  Intake!Die
<1>1. [state |-> Stage(journal'.state), id |-> journal'.snap]
        = [state |-> Stage(journal.state), id |-> journal.snap]
  BY DEF SameEntry
<1>2. Taken(journal', moved') = Taken(journal, moved)
  BY NoEvidence DEF SameEntry, Taken
<1> QED
  BY <1>1, <1>2, Phases, Ends DEF Intake!Die, SameFiles, OnSite

\* A step at which a release is over.
LEMMA Leaves ==
  ASSUME TypeOK, pc # "idle", pc' = after, after' = after
  PROVE  Phase(pc') = Afterwards(pc, after) /\ Afterwards(pc', after') = "look"
BY Phases, Ends DEF TypeOK

\* The durable intent of a quarantine, as a producer reads it.
LEMMA PutAside ==
  ASSUME verifier \in 0..MaxUpgrade, NEW p \in Slots, NEW s \in Snapshots, NEW r \in 0..1,
         NEW wc, NEW ret, NEW then, Quarantine(p, s, r, wc, ret, then), SameFiles
  PROVE  Intake!Quarantine(s) /\ pc' = "quarantine" /\ after' = then
<1> DEFINE i == [retire |-> ret, takes |-> Evidence(p, s, wc)]
<1>1. "manifest" \in i.takes <=> s \in sidecars
  BY DEF Evidence
<1> HIDE DEF i
<1>2. Reads(Entry("quarantining", p, s, r), "quarantining", p, s, r)
  BY EntryFacts DEF States
<1>3. journal' = [Entry("quarantining", p, s, r) EXCEPT !.intent = i] /\ moved' = {}
  BY DEF Quarantine, i
<1>4. journal'.state = "quarantining" /\ journal'.snap = s /\ journal'.intent = i
  BY <1>2, <1>3 DEF Journal, Reads
<1>5. Taken(journal', moved') = IF s \in sidecars THEN "due" ELSE "none"
  BY <1>1, <1>3, <1>4 DEF Taken
<1>6. Intake!Of(s) = {} <=> s \notin sidecars
  BY Lacks
<1>7. Stage(journal'.state) = "quarantining" /\ Phase(pc') = "back"
  BY <1>4, Stages, Phases DEF Quarantine
<1>8. Intake!Quarantine(s)
  BY <1>4, <1>5, <1>6, <1>7 DEF Intake!Quarantine, SameFiles, OnSite
<1> QED
  BY <1>8 DEF Quarantine

\* A write of a state that binds the rollback oracle.
LEMMA Bound ==
  ASSUME TypeOK, journal.state \in Pending \cup {"prepared"}, NEW st \in Pending, NEW o, NEW next,
         EnterPending(st, o, next)
  PROVE  \/ pc' = "idle" /\ after' = "look" /\ journal' = journal
         \/ /\ journal'.state = st /\ journal'.snap = journal.snap
            /\ pc' = next /\ after' = after
<1>1. Reads(Entry(st, Cand, journal.snap, journal.retry), st, Cand, journal.snap, journal.retry)
  BY EntryFacts DEF TypeOK, JournalOK, Journal, States
<1>2. CASE journal' = [Entry(st, Cand, journal.snap, journal.retry) EXCEPT !.oracle = o]
  <2>1. journal'.state = st /\ journal'.snap = journal.snap
    BY <1>1, <1>2 DEF Reads, Journal
  <2> QED
    BY <2>1 DEF EnterPending
<1> QED
  BY <1>2 DEF EnterPending

-----------------------------------------------------------------------------
(* The steps *)

Told == [Intake!Next]_Intake!intakeVars

\* The producer publishes.
LEMMA ProducerTold == IInv /\ Producer => Told
<1> SUFFICES ASSUME IInv, Producer
             PROVE  Told
  OBVIOUS
<1>1. [Next]_vars
  BY DEF Next
<1>2. ASSUME NEW s \in Snapshots, PublishSidecar(s)
      PROVE  Told
  <2>1. OnSite' = OnSite
    BY <1>1, <1>2, SiteKept DEF PublishSidecar
  <2>2. Published(sidecars') = Published(sidecars) \cup {[id |-> s, oracle |-> s]}
    BY <1>2, Sidecars DEF PublishSidecar
  <2>3. Intake!Offer([id |-> s, oracle |-> s])
    BY <1>2, <2>1, <2>2 DEF Intake!Offer, PublishSidecar, OnSite
  <2>4. [id |-> s, oracle |-> s] \in Intake!Manifest
    BY DEF Intake!Manifest
  <2> QED
    BY <2>3, <2>4 DEF Told, Intake!Next
<1>3. CASE PublishDatabase
  <2>1. OnSite' = OnSite
    BY <1>1, <1>3, SiteKept DEF PublishDatabase
  <2>2. Intake!Deliver(staged) /\ staged \in Snapshots
    BY <1>3, <2>1 DEF Intake!Deliver, PublishDatabase, OnSite, IInv, TypeOK
  <2> QED
    BY <2>2 DEF Told, Intake!Next
<1>4. CASE PushFails
  <2>1. SameFiles /\ SameEntry
    BY <1>1, <1>4, SiteKept DEF PushFails, SameFiles, SameEntry
  <2> QED
    BY <1>4, <2>1, Unseen DEF PushFails, Told
<1> QED
  BY <1>2, <1>3, <1>4 DEF Producer

\* Processes start and die, the host restarts, the code is replaced.
LEMMA EnvironmentTold == IInv /\ (Start \/ Crash \/ Reboot \/ Upgrade) => Told
<1> SUFFICES ASSUME IInv, Start \/ Crash \/ Reboot \/ Upgrade
             PROVE  Told
  OBVIOUS
<1>1. [Next]_vars
  BY DEF Next
<1>2. SameFiles /\ SameEntry
  BY <1>1, SiteKept DEF Start, Crash, Reboot, Upgrade, SameFiles, SameEntry
<1>3. CASE Start
  <2>1. Phase(pc) = "off" /\ Phase(pc') = "reconcile" /\ Afterwards(pc', after') = Afterwards(pc, after)
    BY <1>3, Phases, Ends DEF Start
  <2>2. Intake!Start
    BY <1>2, <1>3, <2>1 DEF Start, Intake!Start, SameFiles, OnSite
  <2> QED
    BY <2>2 DEF Told, Intake!Next
<1>4. CASE pc' = "idle" /\ Phase(pc) # "off"
  <2>1. Intake!Die
    BY <1>2, <1>4, Ended
  <2> QED
    BY <2>1 DEF Told, Intake!Next
<1>5. CASE pc = "idle" /\ pc' = "idle"
  <2>1. UNCHANGED Intake!intakeVars
    BY <1>2, <1>5, Unseen, Ends
  <2> QED
    BY <2>1 DEF Told
<1>6. pc # "idle" => Phase(pc) # "off"
  BY Phases DEF IInv, TypeOK, PCs
<1> QED
  BY <1>3, <1>4, <1>5, <1>6 DEF Start, Crash, Reboot, Upgrade

\* A process starts from the journal.
LEMMA ReconcileTold == IInv /\ Reconcile => Told
<1> SUFFICES ASSUME IInv, Reconcile
             PROVE  Told
  OBVIOUS
<1>1. [Next]_vars
  BY DEF Next, Step
<1>2. pc = "reconcile" /\ Phase(pc) = "reconcile" /\ include' = include /\ OnSite' = OnSite
  <2>1. pc = "reconcile" /\ include' = include
    BY DEF Reconcile, ReconcileSettled, ReconcileBlocked, ReconcileCommitted, ReconcileUnclaimed,
       ReconcileClaimed, ReconcileForeign, ReconcileExhausted, ReconcileRetry,
       ReconcileRetireFails, ReconcileResume, Reconciling, IInv, Durable, Aside
  <2> QED
    BY <1>1, <2>1, SiteKept, Phases
<1>3. verifier \in 0..MaxUpgrade /\ 0 \in 0..1 /\ 1 \in 0..1
  BY DEF IInv, TypeOK
<1>4. CASE ReconcileSettled
  <2>1. Phase(pc') = Afterwards(pc, after) /\ Afterwards(pc', after') = "look"
    BY <1>2, <1>4, Leaves DEF IInv, ReconcileSettled
  <2>2. Stage(journal.state) \in {"idle", "quarantined"}
    BY <1>4, Stages DEF ReconcileSettled, Reconciling
  <2>3. Intake!Settled
    BY <1>2, <1>4, <2>1, <2>2 DEF ReconcileSettled, Intake!Settled, OnSite
  <2> QED
    BY <2>3 DEF Told, Intake!Next, Intake!Step
<1>5. CASE ReconcileBlocked
  <2>1. SameFiles /\ SameEntry /\ pc' = "idle"
    BY <1>2, <1>5 DEF ReconcileBlocked, SameFiles, SameEntry
  <2>2. Intake!Die
    BY <1>2, <2>1, Ended
  <2> QED
    BY <2>2 DEF Told, Intake!Next
<1>6. CASE ReconcileCommitted
  <2>1. SameFiles /\ SameEntry
    BY <1>2, <1>6 DEF ReconcileCommitted, SameFiles, SameEntry
  <2>2. CASE pc' = "idle"
    <3>1. Intake!Die
      BY <1>2, <2>1, <2>2, Ended
    <3> QED
      BY <3>1 DEF Told, Intake!Next
  <2>3. CASE pc' = "sweepBase" /\ after' = after
    <3>1. Phase(pc') = "forward" /\ Afterwards(pc', after') = Afterwards(pc, after)
      BY <1>2, <2>3, Phases, Ends DEF Afterwards
    <3>2. Stage(journal.state) = "committed"
      BY <1>6, Stages DEF ReconcileCommitted, Reconciling
    <3>3. Intake!Resume
      BY <1>2, <1>6, <3>1, <3>2 DEF ReconcileCommitted, Intake!Resume, OnSite
    <3> QED
      BY <3>3 DEF Told, Intake!Next, Intake!Step
  <2> QED
    BY <1>6, <2>2, <2>3 DEF ReconcileCommitted
<1>7. CASE ReconcileUnclaimed
  <2>1. Phase(pc') = Afterwards(pc, after) /\ Afterwards(pc', after') = "look"
    BY <1>2, <1>7, Leaves DEF IInv, ReconcileUnclaimed
  <2>2. Reads(journal', "idle", None, None, 0)
    BY <1>7, EntryFacts DEF ReconcileUnclaimed, IInv, TypeOK, States
  <2>3. /\ Stage(journal.state) = "claiming" /\ Stage(journal'.state) = "idle"
        /\ Taken(journal, moved) = "none" /\ Taken(journal', moved') = "none"
    BY <1>7, <2>2, Stages, NoEvidence DEF ReconcileUnclaimed, Reconciling, Reads
  <2>4. Intake!Unclaimed
    BY <1>2, <1>7, <2>1, <2>2, <2>3 DEF ReconcileUnclaimed, Intake!Unclaimed, OnSite, Reads
  <2> QED
    BY <2>4 DEF Told, Intake!Next, Intake!Step
<1>8. CASE ReconcileClaimed
  <2>1. SameFiles
    BY <1>2, <1>8 DEF ReconcileClaimed, SameFiles
  <2>2. claimed \in Snapshots /\ Stage(journal.state) = "claiming" /\ Cand \in Slots
    BY <1>8, Stages, OtherSlot DEF ReconcileClaimed, Reconciling, IInv, TypeOK, JournalOK, Journal
  <2>3. CASE journal.verifier # verifier \/ claimed \notin sidecars
    <3>1. \/ Quarantine(Cand, claimed, 0, FALSE, FALSE, "idle")
          \/ Quarantine(Cand, claimed, 1, FALSE, FALSE, "idle")
      BY <1>8, <2>3 DEF ReconcileClaimed, ClaimedId
    <3>2. Intake!Quarantine(claimed) /\ pc' = "quarantine" /\ after' = "idle"
      BY <1>3, <2>1, <2>2, <3>1, PutAside, Zenon
    <3>3. Intake!RejectClaim
      BY <1>2, <2>2, <3>2, Ends DEF Intake!RejectClaim
    <3> QED
      BY <3>3 DEF Told, Intake!Next, Intake!Step
  <2>4. CASE journal.verifier = verifier /\ claimed \in sidecars
    <3>1. journal' = Entry("rebuilding", Cand, claimed, 1) /\ pc' = "rebuild" /\ after' = after
      BY <1>8, <2>4 DEF ReconcileClaimed, ClaimedId
    <3>2. Reads(journal', "rebuilding", Cand, claimed, 1)
      BY <2>2, <3>1, EntryFacts DEF IInv, TypeOK, States, Retryable
    <3>3. /\ Stage(journal'.state) = "building"
          /\ Taken(journal, moved) = "none" /\ Taken(journal', moved') = "none"
          /\ Phase(pc') = "forward" /\ Afterwards(pc', after') = Afterwards(pc, after)
      BY <1>2, <1>8, <3>1, <3>2, Stages, Phases, NoEvidence
         DEF Reads, ReconcileClaimed, Reconciling, Afterwards
    <3>4. Intake!Of(claimed) # {}
      BY <2>4, Lacks, Zenon
    <3>5. Intake!Select
      BY <1>2, <2>1, <2>2, <3>2, <3>3, <3>4 DEF Intake!Select, SameFiles, OnSite, Reads
    <3> QED
      BY <3>5 DEF Told, Intake!Next, Intake!Step
  <2> QED
    BY <2>3, <2>4
<1>9. CASE ReconcileForeign
  <2>1. journal.snap \in Snapshots /\ Cand \in Slots /\ journal.retry \in 0..1
    BY <1>9, OtherSlot DEF ReconcileForeign, Reconciling, IInv, TypeOK, JournalOK, Journal
  <2>2. Reads(journal', "retry_blocked", journal.port, journal.snap, journal.retry)
    BY <1>9, <2>1, EntryFacts DEF ReconcileForeign, Advance, IInv, TypeOK, States
  <2>3. /\ Stage(journal.state) = "building" /\ Stage(journal'.state) = "blocked"
        /\ Taken(journal, moved) = "none" /\ Taken(journal', moved') = "none"
        /\ Phase(pc') = "off" /\ Afterwards(pc', after') = "look"
    BY <1>9, <2>2, Stages, Phases, NoEvidence, Ends DEF Reads, ReconcileForeign, Reconciling
  <2>4. Intake!Block
    BY <1>2, <1>9, <2>2, <2>3 DEF Intake!Block, ReconcileForeign, OnSite, Reads
  <2> QED
    BY <2>4 DEF Told, Intake!Next, Intake!Step
<1>10. CASE ReconcileExhausted
  <2>1. /\ journal.snap \in Snapshots /\ Cand \in Slots /\ journal.retry \in 0..1
        /\ SameFiles /\ Stage(journal.state) = "building"
    BY <1>2, <1>10, Stages, OtherSlot DEF ReconcileExhausted, Reconciling, IInv, TypeOK, JournalOK,
       Journal, SameFiles
  <2>2. Quarantine(Cand, journal.snap, 1, TRUE, FALSE, after)
    BY <1>10 DEF ReconcileExhausted
  <2>3. Intake!Quarantine(journal.snap) /\ pc' = "quarantine" /\ after' = after
    BY <1>3, <2>1, <2>2, PutAside, Zenon
  <2>4. Afterwards(pc', after') = Afterwards(pc, after)
    BY <1>2, <2>3 DEF Afterwards
  <2>5. Intake!Exhaust
    BY <1>2, <2>1, <2>3, <2>4 DEF Intake!Exhaust
  <2> QED
    BY <2>5 DEF Told, Intake!Next, Intake!Step
<1>11. CASE ReconcileRetry
  <2>1. SameFiles
    BY <1>2, <1>11 DEF ReconcileRetry, SameFiles
  <2>2. CASE pc' = "idle" /\ journal' = journal
    <3>1. SameEntry
      BY <1>11, <2>2 DEF ReconcileRetry, SameEntry
    <3>2. Intake!Die
      BY <1>2, <2>1, <2>2, <3>1, Ended
    <3> QED
      BY <3>2 DEF Told, Intake!Next
  <2>3. CASE pc' = "rebuild" /\ after' = after
             /\ journal' = Entry(journal.state, Cand, journal.snap, RetryUsed)
    <3>1. Reads(journal', journal.state, Cand, journal.snap, 1)
      BY <1>11, <2>3, EntryFacts, OtherSlot
         DEF ReconcileRetry, Reconciling, RetryUsed, IInv, TypeOK, JournalOK, Journal, States
    <3>2. /\ Stage(journal'.state) = "building" /\ Stage(journal.state) = "building"
          /\ Taken(journal, moved) = "none" /\ Taken(journal', moved') = "none"
          /\ Phase(pc') = "forward" /\ Afterwards(pc', after') = Afterwards(pc, after)
      BY <1>2, <1>11, <2>3, <3>1, Stages, Phases, NoEvidence
         DEF Reads, ReconcileRetry, Reconciling, Afterwards
    <3>3. Intake!Resume
      BY <1>2, <2>1, <3>1, <3>2 DEF Intake!Resume, SameFiles, OnSite, Reads
    <3> QED
      BY <3>3 DEF Told, Intake!Next, Intake!Step
  <2> QED
    BY <1>11, <2>2, <2>3 DEF ReconcileRetry
<1>12. CASE ReconcileRetireFails
  <2>1. SameFiles /\ SameEntry /\ pc' = "idle"
    BY <1>2, <1>12 DEF ReconcileRetireFails, SameFiles, SameEntry
  <2>2. Intake!Die
    BY <1>2, <2>1, Ended
  <2> QED
    BY <2>2 DEF Told, Intake!Next
<1>13. CASE ReconcileResume
  <2>1. SameFiles /\ SameEntry
    BY <1>2, <1>13 DEF ReconcileResume, SameFiles, SameEntry
  <2>2. \/ Stage(journal.state) \in {"trial", "quarantining"} /\ Phase(pc') = "back"
        \/ Stage(journal.state) = "verified" /\ Phase(pc') = "forward"
    BY <1>13, Stages, Phases DEF ReconcileResume, Reconciling
  <2>3. Afterwards(pc', after') = Afterwards(pc, after)
    BY <1>2, <1>13 DEF ReconcileResume, Afterwards
  <2>4. /\ [state |-> Stage(journal'.state), id |-> journal'.snap]
             = [state |-> Stage(journal.state), id |-> journal.snap]
        /\ Taken(journal', moved') = Taken(journal, moved)
    BY <1>13 DEF ReconcileResume
  <2>5. Intake!Undo \/ Intake!Resume
    BY <1>2, <2>1, <2>2, <2>3, <2>4 DEF Intake!Undo, Intake!Resume, SameFiles, OnSite
  <2> QED
    BY <2>5 DEF Told, Intake!Next, Intake!Step
<1> QED
  BY <1>4, <1>5, <1>6, <1>7, <1>8, <1>9, <1>10, <1>11, <1>12, <1>13 DEF Reconcile

\* A new snapshot: claimed, built, tried.
LEMMA ReleaseTold == IInv /\ Release => Told
<1> SUFFICES ASSUME IInv, Release
             PROVE  Told
  OBVIOUS
<1>1. [Next]_vars
  BY DEF Next, Step
<1>2. /\ verifier \in 0..MaxUpgrade /\ 0 \in 0..1 /\ 1 \in 0..1 /\ journal.retry \in 0..1
      /\ pc \notin {"look", "claim"} => Cand \in Slots
      /\ pc \notin {"look", "claim", "select"} => journal.snap \in Snapshots
  <2>1. verifier \in 0..MaxUpgrade /\ 0 \in 0..1 /\ 1 \in 0..1 /\ journal.retry \in 0..1
    BY DEF IInv, TypeOK, JournalOK, Journal
  <2>2. pc \in {"look", "claim", "select", "rebuild", "verify", "restart", "enable", "probe",
               "capture", "point", "reload", "switched", "gate", "stopOld", "prove"}
    BY DEF Release, LookInVain, Look, Claim, Select, Materialize, RejectBase, VerifyCandidate,
       RejectCandidate, Restart, Enable, Probe, RejectProbe, Capture, GiveUp, Point, Reload,
       Switched, Gate, StopOld, Prove, Retreat
  <2>3. /\ pc \notin {"look", "claim"} => journal.state \notin {"idle", "quarantined"}
        /\ pc \notin {"look", "claim", "select"} =>
             journal.state \notin {"idle", "quarantined", "claiming"}
    BY <2>2 DEF IInv, Steps, StepsBefore, StepsForward
  <2> QED
    BY <2>1, <2>3 DEF IInv, TypeOK, JournalOK
<1>3. CASE LookInVain
  <2>1. SameFiles /\ SameEntry /\ pc' = "idle" /\ Phase(pc) # "off"
    BY <1>1, <1>3, SiteKept, Phases DEF LookInVain, SameFiles, SameEntry
  <2>2. Intake!Die
    BY <2>1, Ended
  <2> QED
    BY <2>2 DEF Told, Intake!Next
<1>4. CASE Look
  <2>1. SameFiles
    BY <1>1, <1>4, SiteKept DEF Look, SameFiles
  <2>2. Candidate \in Slots
    BY OtherSlot DEF Candidate, IInv, TypeOK
  <2>3. Reads(journal', "claiming", Candidate, None, 0)
    BY <1>2, <1>4, <2>2, EntryFacts DEF Look, States, Retryable
  <2>4. /\ Phase(pc) = "look" /\ Phase(pc') = "forward" /\ Afterwards(pc', after') = "off"
        /\ Stage(journal'.state) = "claiming" /\ journal'.snap = None
        /\ Taken(journal, moved) = "none" /\ Taken(journal', moved') = "none"
    BY <1>4, <2>3, Phases, Ends, Stages, NoEvidence DEF Look, Reads, IInv, Steps, StepsBefore
  <2>5. Intake!Look
    BY <1>4, <2>1, <2>4 DEF Intake!Look, Look, SameFiles, OnSite
  <2> QED
    BY <2>5 DEF Told, Intake!Next, Intake!Step
<1>5. CASE Claim
  <2>1. OnSite' = OnSite
    BY <1>1, <1>5, SiteKept DEF Claim
  <2>2. /\ Phase(pc) = "forward" /\ Phase(pc') = "forward"
        /\ Afterwards(pc', after') = Afterwards(pc, after)
        /\ Stage(journal.state) = "claiming" /\ claimed = None
    BY <1>5, Phases, Stages DEF Claim, Afterwards, IInv, Steps, StepsBefore
  <2>3. Intake!Claim
    BY <1>5, <2>1, <2>2 DEF Intake!Claim, Claim, OnSite
  <2> QED
    BY <2>3 DEF Told, Intake!Next, Intake!Step
<1>6. CASE Select
  <2>1. SameFiles
    BY <1>1, <1>6, SiteKept DEF Select, SameFiles
  <2>2. /\ claimed \in Snapshots /\ claimed # None /\ Stage(journal.state) = "claiming"
        /\ Phase(pc) = "forward" /\ Cand \in Slots /\ journal.state = "claiming"
    BY <1>2, <1>6, Phases, Stages DEF Select, IInv, TypeOK, Steps, StepsBefore
  <2>3. CASE claimed \notin sidecars
    <3>1. Quarantine(Cand, claimed, 0, FALSE, FALSE, "idle")
      BY <1>6, <2>3 DEF Select, ClaimedId
    <3>2. Intake!Quarantine(claimed) /\ pc' = "quarantine" /\ after' = "idle"
      <4>1. /\ verifier \in 0..MaxUpgrade /\ 0 \in 0..1 /\ Cand \in Slots
            /\ claimed \in Snapshots
        BY <1>2, <2>2
      <4> QED
        BY <2>1, <3>1, <4>1, PutAside, Zenon
    <3>3. Intake!Of(claimed) = {}
      BY <2>3, Lacks, Zenon
    <3>4. Intake!RejectClaim
      BY <2>2, <3>2, <3>3, Ends DEF Intake!RejectClaim
    <3> QED
      BY <3>4 DEF Told, Intake!Next, Intake!Step
  <2>4. CASE claimed \in sidecars
    <3>1. journal' = Entry("rebuilding", Cand, claimed, 0) /\ pc' = "rebuild" /\ after' = after
      BY <1>6, <2>4 DEF Select, ClaimedId
    <3>2. Reads(journal', "rebuilding", Cand, claimed, 0)
      BY <1>2, <2>2, <3>1, EntryFacts DEF States, Retryable
    <3>3. /\ Stage(journal'.state) = "building" /\ journal'.snap = claimed
          /\ Taken(journal, moved) = "none" /\ Taken(journal', moved') = "none"
          /\ Phase(pc') = "forward" /\ Afterwards(pc', after') = Afterwards(pc, after)
      BY <1>6, <2>2, <3>1, <3>2, Stages, Phases, NoEvidence DEF Reads, Select, Afterwards
    <3>4. Intake!Of(claimed) # {}
      BY <2>4, Lacks, Zenon
    <3>5. Intake!Select
      BY <2>1, <2>2, <3>3, <3>4 DEF Intake!Select, SameFiles, OnSite
    <3> QED
      BY <3>5 DEF Told, Intake!Next, Intake!Step
  <2> QED
    BY <2>3, <2>4
<1>7. CASE RejectBase \/ RejectCandidate \/ RejectProbe
  <2>1. SameFiles /\ Stage(journal.state) = "building" /\ Phase(pc) = "forward"
    BY <1>1, <1>7, SiteKept, Stages, Phases DEF RejectBase, RejectCandidate, RejectProbe, SameFiles,
       IInv, Steps, StepsBefore
  <2>2. /\ Cand \in Slots /\ journal.snap \in Snapshots
        /\ \/ Quarantine(Cand, journal.snap, journal.retry, FALSE, FALSE, "idle")
           \/ Quarantine(Cand, journal.snap, journal.retry, TRUE, FALSE, "idle")
           \/ Quarantine(Cand, journal.snap, journal.retry, TRUE, TRUE, "idle")
    BY <1>2, <1>7 DEF RejectBase, RejectCandidate, RejectProbe
  <2>3. Intake!Quarantine(journal.snap) /\ pc' = "quarantine" /\ after' = "idle"
    BY <1>2, <2>1, <2>2, PutAside, Zenon
  <2>4. Intake!RejectBuild
    BY <2>1, <2>3, Ends DEF Intake!RejectBuild
  <2> QED
    BY <2>4 DEF Told, Intake!Next, Intake!Step
<1>8. CASE Materialize \/ Restart \/ Enable \/ Probe \/ Reload \/ StopOld
  <2>1. SameFiles /\ SameEntry
    BY <1>1, <1>8, SiteKept DEF Materialize, Restart, Enable, Probe, Reload, ReloadNginx, StopOld,
       SameFiles, SameEntry
  <2>2. Phase(pc') = Phase(pc) /\ Afterwards(pc', after') = Afterwards(pc, after)
    BY <1>8, Phases DEF Materialize, Restart, Enable, Probe, Reload, StopOld, Afterwards
  <2> QED
    BY <2>1, <2>2, Unseen DEF Told
<1>9. CASE VerifyCandidate
  <2>1. SameFiles
    BY <1>1, <1>9, SiteKept DEF VerifyCandidate, SameFiles
  <2>2. Reads(journal', "prepared", journal.port, journal.snap, journal.retry)
    BY <1>2, <1>9, EntryFacts DEF VerifyCandidate, Advance, States, Retryable
  <2>3. SameEntry
    BY <1>9, <2>2, Stages DEF VerifyCandidate, SameEntry, Reads, IInv, Steps, StepsBefore
  <2>4. Phase(pc') = Phase(pc) /\ Afterwards(pc', after') = Afterwards(pc, after)
    BY <1>9, Phases DEF VerifyCandidate, Afterwards
  <2> QED
    BY <2>1, <2>3, <2>4, Unseen DEF Told
<1>10. CASE Capture \/ Switched \/ Gate
  <2>1. SameFiles /\ Phase(pc) = "forward"
    BY <1>1, <1>10, SiteKept, Phases DEF Capture, Switched, Gate, SameFiles
  <2>2. /\ journal.state \in Pending \cup {"prepared"}
        /\ Capture => Stage(journal.state) = "building"
        /\ Switched \/ Gate => Stage(journal.state) = "trial"
        /\ Taken(journal, moved) = "none"
    BY <1>10, Stages, NoEvidence
       DEF Capture, Switched, Gate, IInv, Steps, StepsBefore, StepsForward
  <2>3. \/ EnterPending("switching",
                        [db |-> slotDb[Old].snap, basis |-> basis, receipt |-> receipt,
                         results |-> Shown], "point") /\ Capture
        \/ EnterPending("switched", journal.oracle, "gate") /\ Switched
        \/ EnterPending("old_stopping", journal.oracle, "stopOld") /\ Gate
    BY <1>10 DEF Capture, Switched, Gate
  <2>4. \/ pc' = "idle" /\ journal' = journal /\ moved' = moved
        \/ /\ journal'.state \in Pending /\ journal'.snap = journal.snap
           /\ pc' \in {"point", "gate", "stopOld"} /\ after' = after
    BY <1>10, <2>2, <2>3, Bound DEF Capture, Switched, Gate, IInv
  <2>5. CASE pc' = "idle" /\ journal' = journal /\ moved' = moved
    <3>1. Intake!Die
      BY <2>1, <2>5, Ended DEF SameEntry
    <3> QED
      BY <3>1 DEF Told, Intake!Next
  <2>6. CASE /\ journal'.state \in Pending /\ journal'.snap = journal.snap
             /\ pc' \in {"point", "gate", "stopOld"} /\ after' = after
    <3>1. /\ Stage(journal'.state) = "trial" /\ Taken(journal', moved') = "none"
          /\ Phase(pc') = "forward" /\ Afterwards(pc', after') = Afterwards(pc, after)
      BY <1>10, <2>6, Stages, NoEvidence, Phases DEF Capture, Switched, Gate, Afterwards
    <3>2. CASE Capture
      <4>1. Intake!Try
        BY <2>1, <2>2, <2>6, <3>1, <3>2 DEF Intake!Try, SameFiles, OnSite
      <4> QED
        BY <4>1 DEF Told, Intake!Next, Intake!Step
    <3>3. CASE Switched \/ Gate
      <4>1. SameEntry
        BY <2>2, <2>6, <3>1, <3>3 DEF SameEntry, Switched, Gate, IInv, Steps, StepsForward
      <4> QED
        BY <2>1, <3>1, <4>1, Unseen DEF Told
    <3> QED
      BY <1>10, <3>2, <3>3
  <2> QED
    BY <2>4, <2>5, <2>6
<1>11. CASE GiveUp
  <2>1. SameFiles /\ pc' = "idle" /\ Phase(pc) # "off"
    BY <1>1, <1>11, SiteKept, Phases DEF GiveUp, SameFiles
  <2>2. Reads(journal', "prepared", journal.port, journal.snap, journal.retry)
    BY <1>2, <1>11, EntryFacts DEF GiveUp, Advance, States, Retryable
  <2>3. SameEntry
    BY <1>11, <2>2 DEF GiveUp, SameEntry, Reads, IInv, Steps, StepsBefore
  <2>4. Intake!Die
    BY <2>1, <2>3, Ended
  <2> QED
    BY <2>4 DEF Told, Intake!Next
<1>12. CASE Point
  <2>1. journal.state \in Pending /\ include = Old /\ include' = Cand /\ slotDb' = slotDb
    BY <1>12 DEF Point, WriteInclude, IInv, Steps, StepsForward
  <2>2. slotDb[Old].snap = basis /\ slotDb[Cand].snap = journal.snap
    BY <2>1 DEF IInv, Durable, OnTrial
  <2>3. Stage(journal.state) = "trial" /\ Phase(pc) = "forward" /\ Phase(pc') = "forward"
    BY <1>12, <2>1, Stages, Phases DEF Point
  <2>4. Afterwards(pc', after') = Afterwards(pc, after)
    BY <1>12 DEF Point, Afterwards
  <2>5. Intake!Show
    BY <1>12, <2>1, <2>2, <2>3, <2>4 DEF Intake!Show, Intake!Release!Show, Point
  <2> QED
    BY <2>5 DEF Told, Intake!Next, Intake!Step
<1>13. CASE Prove
  <2>1. SameFiles /\ Phase(pc) = "forward"
    BY <1>1, <1>13, SiteKept, Phases DEF Prove, SameFiles
  <2>2. /\ journal.state \in Pending /\ include = Cand /\ slotDb[Cand].snap = journal.snap
        /\ Stage(journal.state) = "trial"
    BY <1>13, Stages DEF Prove, IInv, Steps, StepsForward, Durable, OnTrial
  <2>3. CASE Exit /\ UNCHANGED journal
    <3>1. Intake!Die
      BY <1>13, <2>1, <2>3, Ended DEF Prove, SameEntry
    <3> QED
      BY <3>1 DEF Told, Intake!Next
  <2>4. CASE Advance("consumer_verified") /\ Goto("finalize")
    <3>1. Reads(journal', "consumer_verified", journal.port, journal.snap, journal.retry)
      BY <1>2, <1>13, <2>4, EntryFacts DEF Prove, Advance, States, Retryable
    <3>2. /\ Stage(journal'.state) = "verified" /\ journal'.snap = journal.snap
          /\ Taken(journal, moved) = "none" /\ Taken(journal', moved') = "none"
          /\ Phase(pc') = "forward" /\ Afterwards(pc', after') = Afterwards(pc, after)
      BY <1>13, <2>2, <2>4, <3>1, Stages, Phases, NoEvidence DEF Reads, Prove, Afterwards
    <3>3. Intake!Verify
      BY <2>1, <2>2, <3>2 DEF Intake!Verify, SameFiles, OnSite
    <3> QED
      BY <3>3 DEF Told, Intake!Next, Intake!Step
  <2> QED
    BY <1>13, <2>3, <2>4 DEF Prove
<1>14. CASE Retreat
  <2>1. SameFiles /\ journal' = journal /\ moved' = moved
    BY <1>1, <1>14, SiteKept DEF Retreat, SameFiles
  <2>2. /\ Stage(journal.state) = "trial" /\ Phase(pc) = "forward" /\ Phase(pc') = "back"
        /\ Afterwards(pc', after') = "off"
    BY <1>14, Stages, Phases, Ends DEF Retreat, IInv, Steps, StepsForward
  <2>3. Intake!Retreat
    BY <2>1, <2>2 DEF Intake!Retreat, SameFiles, OnSite
  <2> QED
    BY <2>3 DEF Told, Intake!Next, Intake!Step
<1> QED
  BY <1>3, <1>4, <1>5, <1>6, <1>7, <1>8, <1>9, <1>10, <1>11, <1>12, <1>13, <1>14 DEF Release

\* A trial is broken off, a quarantine carried out.
LEMMA RecoverTold == IInv /\ Recover => Told
<1> SUFFICES ASSUME IInv, Recover
             PROVE  Told
  OBVIOUS
<1>1. [Next]_vars
  BY DEF Next, Step
<1>2. CASE Rollback \/ ReloadBack \/ Baseline \/ BeginQuarantine
  <2>1. SameFiles /\ journal' = journal /\ moved' = moved
    BY <1>1, <1>2, SiteKept, RollbackValid DEF Rollback, ReloadBack, ReloadNginx, Baseline,
       BeginQuarantine, SameFiles, IInv, Steps, StepsBack
  <2>2. Phase(pc') = Phase(pc) /\ Afterwards(pc', after') = Afterwards(pc, after)
    BY <1>2, Phases, RollbackValid DEF Rollback, ReloadBack, Baseline, BeginQuarantine, Afterwards,
       IInv, Steps, StepsBack
  <2> QED
    BY <2>1, <2>2, Unseen DEF Told, SameEntry
<1>3. CASE Back
  <2>1. /\ journal.state \in Pending /\ include' = Old /\ slotDb' = slotDb
        /\ Stage(journal.state) = "trial" /\ Phase(pc) = "back" /\ Phase(pc') = "back"
        /\ Afterwards(pc', after') = Afterwards(pc, after)
    BY <1>3, Stages, Phases DEF Back, WriteInclude, Afterwards, IInv, Steps, StepsBack
  <2>2. slotDb[Old].snap = basis
    BY <2>1 DEF IInv, Durable, OnTrial
  <2>3. Intake!Withdraw
    BY <1>3, <2>1, <2>2 DEF Intake!Withdraw, Intake!Release!Withdraw, Back
  <2> QED
    BY <2>3 DEF Told, Intake!Next, Intake!Step
<1>4. CASE Condemn
  <2>1. /\ journal.state \in Pending /\ include = Old /\ slotDb[Old].snap = basis
        /\ Stage(journal.state) = "trial" /\ Phase(pc) = "back" /\ SameFiles
    BY <1>1, <1>4, SiteKept, Stages, Phases
       DEF Condemn, SameFiles, IInv, Durable, OnTrial, Steps, StepsBack
  <2>2. /\ verifier \in 0..MaxUpgrade /\ Cand \in Slots /\ journal.snap \in Snapshots
        /\ journal.retry \in 0..1
    BY <2>1 DEF IInv, TypeOK, JournalOK, Journal
  <2>3. Quarantine(Cand, journal.snap, journal.retry, TRUE, FALSE, after)
    BY <1>4 DEF Condemn
  <2>4. Intake!Quarantine(journal.snap) /\ pc' = "quarantine" /\ after' = after
    BY <2>1, <2>2, <2>3, PutAside, Zenon
  <2>5. Afterwards(pc', after') = Afterwards(pc, after)
    BY <1>4, <2>4, Phases DEF Afterwards, Condemn, Quarantine
  <2>6. Intake!Condemn
    BY <2>1, <2>4, <2>5 DEF Intake!Condemn
  <2> QED
    BY <2>6 DEF Told, Intake!Next, Intake!Step
<1>5. CASE RollbackFails \/ QuarantineRetireFails
  <2>1. SameFiles /\ pc' = "idle" /\ Phase(pc) # "off" /\ moved' = moved
    BY <1>1, <1>5, SiteKept, Phases DEF RollbackFails, QuarantineRetireFails, SameFiles
  <2>2. SameEntry
    <3>1. CASE journal' = journal
      BY <2>1, <3>1 DEF SameEntry
    <3>2. CASE RollbackFails /\ journal' # journal
      <4>1. /\ journal.state \in Pending /\ journal.snap \in Snapshots /\ journal.retry \in 0..1
            /\ Cand \in Slots /\ verifier \in 0..MaxUpgrade
        BY <3>2 DEF RollbackFails, IInv, TypeOK, JournalOK, Journal, Steps, StepsBack
      <4>2. journal.oracle \in Oracle
        BY <4>1, RollbackValid DEF IInv
      <4>3. Reads(journal', "rollback_failed", Cand, journal.snap, journal.retry)
        BY <3>2, <4>1, <4>2, PendingFacts DEF RollbackFails
      <4> QED
        BY <4>1, <4>3, Stages DEF SameEntry, Reads
    <3> QED
      BY <1>5, <3>1, <3>2 DEF QuarantineRetireFails
  <2>3. Intake!Die
    BY <2>1, <2>2, Ended
  <2> QED
    BY <2>3 DEF Told, Intake!Next
<1>6. CASE Conclude
  <2>1. Phase(pc') = Afterwards(pc, after) /\ Afterwards(pc', after') = "look"
    BY <1>6, Leaves DEF IInv, Conclude
  <2>2. journal.state = "quarantining" /\ journal.snap \in Snapshots /\ verifier \in 0..MaxUpgrade
    BY <1>6 DEF Conclude, IInv, TypeOK, JournalOK, Steps, StepsBack
  <2>3. Reads(journal', "quarantined", None, journal.snap, 0)
    BY <1>6, <2>2, EntryFacts DEF Conclude, States
  <2>4. /\ Stage(journal.state) = "quarantining" /\ Stage(journal'.state) = "quarantined"
        /\ Taken(journal', moved') = "none" /\ Phase(pc) = "record"
    BY <1>6, <2>2, <2>3, Stages, NoEvidence, Phases DEF Reads, Conclude
  <2>5. OnSite' = OnSite
    BY <1>1, <1>6, SiteKept DEF Conclude
  <2>6. Intake!Conclude
    BY <1>6, <2>1, <2>3, <2>4, <2>5 DEF Intake!Conclude, Conclude, Reads, OnSite
  <2> QED
    BY <2>6 DEF Told, Intake!Next, Intake!Step
<1>7. ASSUME NEW label \in Labels, SkipMove(label) \/ Move(label) \/ MoveRefused(label)
      PROVE  Told
  <2>1. /\ journal' = journal /\ journal.state = "quarantining" /\ journal.snap \in Snapshots
        /\ Stage(journal.state) = "quarantining" /\ pc = label /\ Phase(pc) = "back"
    BY <1>7, Stages, Phases
       DEF SkipMove, Move, MoveRefused, IInv, TypeOK, JournalOK, Steps, StepsBack
  <2>2. OnSite' = OnSite /\ incoming' = incoming /\ basis' = basis
    BY <1>1, <1>7, SiteKept DEF SkipMove, Move, MoveRefused
  <2>3. label = "manifest" => claimed = None
    BY <2>1 DEF IInv, Durable, BaseHeld
  <2>4. CASE MoveRefused(label)
    <3>1. Intake!Die
      BY <2>1, <2>2, <2>4, Ended DEF MoveRefused, SameFiles, SameEntry
    <3> QED
      BY <3>1 DEF Told, Intake!Next
  <2>5. CASE SkipMove(label) \/ Move(label)
    <3>1. pc' = NextMove[label] /\ after' = after
      BY <2>5 DEF SkipMove, Move
    <3>2. /\ label # "manifest" => Phase(pc') = "back"
          /\ label = "manifest" => Phase(pc') = "record"
          /\ Afterwards(pc', after') = Afterwards(pc, after)
      BY <2>1, <3>1, Phases DEF NextMove, Afterwards
    <3>3. CASE label # "manifest" /\ claimed' = claimed
      <4>1. SameFiles /\ SameEntry
        BY <2>1, <2>2, <2>5, <3>3 DEF SkipMove, Move, SameFiles, SameEntry
      <4> QED
        BY <2>1, <3>2, <3>3, <4>1, Unseen DEF Told
    <3>4. CASE label # "manifest" /\ claimed' # claimed
      <4>1. claimed # None /\ claimed' = None /\ sidecars' = sidecars
        BY <2>5, <3>4 DEF SkipMove, Move, Present
      <4>2. Taken(journal', moved') = Taken(journal, moved)
        BY <2>1, <2>5, <3>4 DEF SkipMove, Move, Taken
      <4>3. Intake!MoveBase
        BY <2>1, <2>2, <3>2, <3>4, <4>1, <4>2 DEF Intake!MoveBase, OnSite
      <4> QED
        BY <4>3 DEF Told, Intake!Next, Intake!Step
    <3>5. CASE label = "manifest" /\ Move(label)
      <4>1. /\ Taken(journal, moved) = "due" /\ Taken(journal', moved') = "taken"
            /\ sidecars' = sidecars \ {journal.snap} /\ claimed' = claimed
        BY <2>1, <3>5 DEF Move, Taken
      <4>2. Published(sidecars') = Published(sidecars) \ Intake!Of(journal.snap)
        BY <4>1, Swept, Zenon
      <4>3. Intake!MoveSidecar
        BY <2>1, <2>2, <2>3, <3>2, <3>5, <4>1, <4>2 DEF Intake!MoveSidecar, OnSite
      <4> QED
        BY <4>3 DEF Told, Intake!Next, Intake!Step
    <3>6. CASE label = "manifest" /\ SkipMove(label)
      <4>1. /\ claimed' = claimed /\ sidecars' = sidecars
            /\ Taken(journal', moved') = Taken(journal, moved)
            /\ \/ Taken(journal, moved) = "none"
               \/ Taken(journal, moved) = "taken" /\ journal.snap \notin sidecars
        BY <2>1, <3>6 DEF SkipMove, Present, Taken
      <4>2. Intake!Of(journal.snap) = {} <=> journal.snap \notin sidecars
        BY Lacks
      <4>3. Intake!SkipSidecar
        BY <2>1, <2>2, <2>3, <3>2, <3>6, <4>1, <4>2 DEF Intake!SkipSidecar, OnSite
      <4> QED
        BY <4>3 DEF Told, Intake!Next, Intake!Step
    <3> QED
      BY <2>5, <3>3, <3>4, <3>5, <3>6
  <2> QED
    BY <1>7, <2>4, <2>5
<1> QED
  BY <1>2, <1>3, <1>4, <1>5, <1>6, <1>7 DEF Recover

\* A snapshot is accepted, and what is left of its release swept away.
LEMMA FinishTold == IInv /\ Finish => Told
<1> SUFFICES ASSUME IInv, Finish
             PROVE  Told
  OBVIOUS
<1>1. [Next]_vars
  BY DEF Next, Step
<1>2. CASE Finalize \/ DisableOld \/ DropOld \/ WriteReceipt
  <2>1. Finalize => AuthorityValid
    BY DEF Finalize, AuthorityValid, IInv, Durable, Kept, Accepted, Steps, StepsFinal
  <2>2. SameFiles /\ journal' = journal /\ moved' = moved
    BY <1>1, <1>2, <2>1, SiteKept DEF Finalize, DisableOld, DropOld, WriteReceipt, SameFiles
  <2>3. Phase(pc') = Phase(pc) /\ Afterwards(pc', after') = Afterwards(pc, after)
    BY <1>2, <2>1, Phases DEF Finalize, DisableOld, DropOld, WriteReceipt, Afterwards
  <2> QED
    BY <2>2, <2>3, Unseen DEF Told, SameEntry
<1>3. CASE FinalizeFails
  <2>1. SameFiles /\ SameEntry /\ pc' = "idle" /\ Phase(pc) # "off"
    BY <1>1, <1>3, SiteKept, Phases DEF FinalizeFails, SameFiles, SameEntry
  <2>2. Intake!Die
    BY <2>1, Ended
  <2> QED
    BY <2>2 DEF Told, Intake!Next
<1>4. CASE AdvanceBasis
  <2>1. /\ journal' = journal /\ moved' = moved /\ OnSite' = OnSite
        /\ UNCHANGED <<sidecars, incoming, claimed>>
    BY <1>1, <1>4, SiteKept DEF AdvanceBasis
  <2>2. Phase(pc) = "forward" /\ Phase(pc') = Phase(pc) /\ Afterwards(pc', after') = Afterwards(pc, after)
    BY <1>4, Phases DEF AdvanceBasis, Afterwards
  <2>3. Stage(journal.state) = "verified" /\ basis' = OnSite
    BY <1>4, Stages DEF AdvanceBasis, OnSite, IInv, Durable, Kept, Accepted, Steps, StepsFinal
  <2>4. Intake!Accept
    BY <2>1, <2>2, <2>3 DEF Intake!Accept, Intake!Release!Accept, OnSite
  <2> QED
    BY <2>4 DEF Told, Intake!Next, Intake!Step
<1>5. CASE Commit
  <2>1. SameFiles /\ moved' = moved
    BY <1>1, <1>5, SiteKept DEF Commit, SameFiles
  <2>2. /\ journal.state = "consumer_verified" /\ basis = journal.snap
        /\ journal.snap \in Snapshots /\ Cand \in Slots /\ verifier \in 0..MaxUpgrade
    BY <1>5 DEF Commit, IInv, TypeOK, JournalOK, Steps, StepsFinal
  <2>3. Reads(journal', "committed", Cand, journal.snap, 0)
    BY <1>5, <2>2, EntryFacts DEF Commit, States
  <2>4. /\ Stage(journal.state) = "verified" /\ Stage(journal'.state) = "committed"
        /\ Taken(journal, moved) = "none" /\ Taken(journal', moved') = "none"
        /\ Phase(pc) = "forward" /\ Phase(pc') = "forward"
        /\ Afterwards(pc', after') = Afterwards(pc, after)
    BY <1>5, <2>2, <2>3, Stages, NoEvidence, Phases DEF Reads, Commit, Afterwards
  <2>5. Intake!Commit
    BY <2>1, <2>2, <2>3, <2>4 DEF Intake!Commit, Reads, SameFiles, OnSite
  <2> QED
    BY <2>5 DEF Told, Intake!Next, Intake!Step
<1>6. CASE SweepBase
  <2>1. /\ journal' = journal /\ moved' = moved /\ OnSite' = OnSite
        /\ UNCHANGED <<sidecars, incoming, basis>>
    BY <1>1, <1>6, SiteKept DEF SweepBase
  <2>2. Phase(pc) = "forward" /\ Phase(pc') = Phase(pc) /\ Afterwards(pc', after') = Afterwards(pc, after)
    BY <1>6, Phases DEF SweepBase, Afterwards
  <2>3. CASE claimed' = claimed
    BY <2>1, <2>2, <2>3, Unseen DEF Told, SameEntry, SameFiles
  <2>4. CASE claimed' # claimed
    <3>1. claimed = journal.snap /\ claimed' = None
      BY <1>6, <2>4 DEF SweepBase
    <3>2. Stage(journal.state) = "committed"
      BY <1>6, Stages DEF SweepBase, IInv, Steps, StepsFinal
    <3>3. Intake!SweepBase
      BY <2>1, <2>2, <3>1, <3>2 DEF Intake!SweepBase, OnSite
    <3> QED
      BY <3>3 DEF Told, Intake!Next, Intake!Step
  <2> QED
    BY <2>3, <2>4
<1>7. CASE SweepManifest
  <2>1. /\ journal' = journal /\ moved' = moved /\ OnSite' = OnSite
        /\ UNCHANGED <<claimed, incoming, basis>>
    BY <1>1, <1>7, SiteKept DEF SweepManifest
  <2>2. Phase(pc') = Afterwards(pc, after) /\ Afterwards(pc', after') = "look"
    BY <1>7, Leaves DEF IInv, SweepManifest
  <2>3. Stage(journal.state) = "committed" /\ claimed = None /\ Phase(pc) = "forward"
    BY <1>7, Stages, Phases DEF SweepManifest, IInv, Durable, BaseHeld, Steps, StepsFinal
  <2>4. sidecars' = sidecars \ {journal.snap}
    BY <1>7 DEF SweepManifest
  <2>5. Published(sidecars') = Published(sidecars) \ Intake!Of(journal.snap)
    BY <2>4, Swept, Zenon
  <2>6. Intake!SweepSidecar
    BY <2>1, <2>2, <2>3, <2>5 DEF Intake!SweepSidecar, OnSite
  <2> QED
    BY <2>6 DEF Told, Intake!Next, Intake!Step
<1> QED
  BY <1>2, <1>3, <1>4, <1>5, <1>6, <1>7 DEF Finish

\* What the apply process, its crashes and the reboots of the host do to the
\* files of a push is what the producer was promised, for any snapshots and
\* any number of pushes, crashes, failures and upgrades: a claimed database is
\* accepted or put aside with its sidecar, it is shown only under its trial,
\* and the journal tells which of these is under way.
THEOREM IntakeImplemented == Spec => IsReleaseIntake
<1>1. Init => Intake!Init
  <2> SUFFICES ASSUME Init
               PROVE  Intake!Init
    OBVIOUS
  <2>1. /\ journal.state = "committed" /\ journal.snap = Initial
        /\ slotDb[include].snap = Initial /\ basis = Initial
    BY DEF Init
  <2>2. Published(sidecars) = {}
    BY DEF Init, Published
  <2>3. Stage(journal.state) = "committed" /\ Taken(journal, moved) = "none"
    BY <2>1, Stages, NoEvidence
  <2>4. Phase(pc) = "off" /\ Afterwards(pc, after) = "look"
    BY Phases, Ends DEF Init
  <2> QED
    BY <2>1, <2>2, <2>3, <2>4 DEF Init, Intake!Init, Intake!Release!Init
<1>2. IInv /\ [Next]_vars => Told
  <2>1. ASSUME IInv, UNCHANGED vars
        PROVE  Told
    BY <2>1, Unseen DEF vars, Told, SameFiles, SameEntry, OnSite
  <2> QED
    BY <2>1, ProducerTold, EnvironmentTold, ReconcileTold, ReleaseTold, RecoverTold, FinishTold
       DEF Next, Step
<1>3. IInv /\ [Next]_vars => [Intake!Next]_Intake!intakeVars
  BY <1>2 DEF Told
<1> QED
  BY <1>1, <1>3, Inductive, PTL DEF Spec, IsReleaseIntake, Intake!Spec
=============================================================================
