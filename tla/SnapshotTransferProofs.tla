------------------------ MODULE SnapshotTransferProofs ------------------------
(***************************************************************************)
(* Proofs about SnapshotTransfer for any producers and any number of writes, *)
(* failures and orphans.                                                   *)
(***************************************************************************)
EXTENDS SnapshotTransfer, TLAPS

PCs == {"idle", "snapshot", "sync", "delta", "commit", "reconcile", "rebuild", "manifest",
        "sidecar", "upload", "transfer", "publish", "checkpoint", "trigger", "wait"}

Watching == {"trigger", "wait"}
Building == {"manifest", "sidecar", "upload", "transfer"}
Built    == {"sidecar", "upload", "transfer", "publish", "checkpoint", "trigger", "wait"}
Given    == {"checkpoint", "trigger", "wait"}

\* The types of what the server has no part in.
Local ==
  /\ primary \in Versions
  /\ snapshot \in Versions \cup {None} /\ replica \in Files /\ hot \in Files
  /\ upload \in Files
  /\ job \in [Producers -> Job]
  /\ stops \in 0..MaxStop /\ orphans \in 0..MaxOrphan

\* One round at a time, the orphaned ones included.
Single == \A p, q \in Producers : job[p].pc # "idle" /\ job[q].pc # "idle" => p = q

\* What a round has made sure of by the time it gets where it is; in particular,
\* that no release of its snapshot but those its checkpoint found can be about to
\* reject it while its own database waits to be claimed.
Round(p) ==
  /\ job[p].pc \notin {"idle", "snapshot"} => snapshot \in 0..primary
  /\ job[p].pc \in Building => replica = snapshot
  /\ job[p].pc \in Built => job[p].manifest = [id |-> snapshot, oracle |-> snapshot]
  /\ job[p].pc = "publish" => upload = snapshot
  /\ job[p].pc \notin Watching => ~job[p].moved
  /\ job[p].pc \in Given => job[p].given # "none"
  /\ job[p].pc \in Given /\ job[p].given = "incoming" => incoming # None
  /\ job[p].pc \in Watching /\ job[p].given = "incoming" /\ ~job[p].earlier =>
       ~Undecided(job[p].manifest.id)
  /\ job[p].moved /\ journal.state = "quarantined" /\ journal.id = job[p].manifest.id =>
       \/ job[p].given = "rejected"
       \/ job[p].given = "incoming" /\ job[p].earlier

Rounds == \A p \in Producers : Round(p)

\* What the server has and shows are whole states of the primary, and what its
\* journal calls committed is what it accepted; it looks for another database,
\* and forgets about the last, with none claimed.
Handed ==
  /\ Server!TypeOK /\ GivenIsWhole
  /\ basis \in 0..primary /\ shown \in 0..primary
  /\ journal.id \in 0..primary \cup {None}
  /\ journal.state \in {"building", "trial", "verified", "committed", "quarantining"} =>
       journal.id # None
  /\ journal.state = "committed" => basis = journal.id
  /\ apply \in {"look", "record"} \/ journal.state \in {"idle", "quarantined"} => claimed = None

IInv == Local /\ Single /\ Rounds /\ Handed

-----------------------------------------------------------------------------
(* The parts of a step *)

LEMMA Constants == /\ MaxWrite \in Nat /\ MaxStop \in Nat /\ MaxOrphan \in Nat
                   /\ None \notin Nat /\ Torn \notin Nat /\ None # Torn
                   /\ 0 \in Versions /\ 0 # None /\ 0 # Torn /\ Versions \subseteq Files
                   /\ None \in Files /\ Torn \in Files
BY SnapshotTransferAssumption DEF Versions, Files

LEMMA JobFields ==
  ASSUME Local, NEW p \in Producers
  PROVE  /\ job[p].pc \in PCs /\ job[p].alive \in BOOLEAN /\ job[p].manifest \in Manifest
         /\ job[p].moved \in BOOLEAN /\ job[p].earlier \in BOOLEAN /\ job[p] \in Job
         /\ job[p].given \in {"none", "incoming", "claimed", "rejected"}
         /\ job[p].manifest.id \in Files
BY DEF Local, Job, PCs, Manifest

LEMMA IdleFields ==
  /\ Idle \in Job /\ Idle.pc = "idle" /\ Idle.moved = FALSE
  /\ Idle.manifest \in Manifest
BY Constants DEF Idle, Job, Manifest

\* The other rounds are left alone.
Only(p) == job' \in [Producers -> Job] /\ \A q \in Producers : q # p => job'[q] = job[q]

\* So far as the server and the round's own promises tell them apart.
Same(j, k) ==
  /\ j.manifest = k.manifest /\ j.moved = k.moved
  /\ j.given = k.given /\ j.earlier = k.earlier

\* job[p] is replaced by a round that goes to pc with all else the same, or by none.
Turn(p, pc) ==
  /\ Only(p)
  /\ \/ job'[p].pc = pc /\ Same(job'[p], job[p])
     \/ job'[p].pc = "idle" /\ job'[p].moved = FALSE

LEMMA HandsOn ==
  ASSUME Local, NEW p \in Producers, NEW round \in Job, HandOn(p, round)
  PROVE  Only(p) /\ (job'[p] = round \/ job'[p] = Idle)
BY IdleFields DEF HandOn, Only, Local

LEMMA Withins ==
  ASSUME Local, NEW p \in Producers, NEW pc \in PCs, Within(p, pc)
  PROVE  Turn(p, pc)
<1> DEFINE new == [job[p] EXCEPT !.pc = pc]
<1>1. new \in Job /\ new.pc = pc /\ Same(new, job[p])
  BY JobFields DEF Job, PCs, Same
<1>2. job' = [job EXCEPT ![p] = new] /\ job \in [Producers -> Job]
  BY DEF Within, Local
<1> HIDE DEF new
<1> QED
  BY <1>1, <1>2 DEF Turn, Only

LEMMA Hands ==
  ASSUME Local, NEW p \in Producers, NEW pc \in PCs, Hand(p, pc)
  PROVE  Turn(p, pc)
<1> DEFINE new == [job[p] EXCEPT !.pc = pc]
<1>1. new \in Job /\ new.pc = pc /\ Same(new, job[p])
  BY JobFields DEF Job, PCs, Same
<1>2. HandOn(p, new)
  BY DEF Hand
<1> HIDE DEF new
<1> QED
  BY <1>1, <1>2, HandsOn, IdleFields DEF Turn

LEMMA Endings ==
  ASSUME Local, NEW p \in Producers, job' = [job EXCEPT ![p] = Idle]
  PROVE  Only(p) /\ job'[p] = Idle
BY IdleFields DEF Only, Local

\* A step of p alone keeps the other rounds' part of the invariant.
LEMMA Others ==
  ASSUME IInv, NEW p \in Producers, Only(p), job[p].pc # "idle"
  PROVE  /\ Single'
         /\ \A q \in Producers : q # p => Round(q)'
<1>1. \A q \in Producers : q # p => job[q].pc = "idle" /\ job'[q] = job[q]
  BY DEF IInv, Single, Only
<1>2. \A q \in Producers : q # p => job'[q].pc = "idle" /\ ~job'[q].moved
  BY <1>1 DEF IInv, Rounds, Round, Watching
<1>3. Single'
  BY <1>2 DEF Single
<1>4. \A q \in Producers : q # p => Round(q)'
  BY <1>2 DEF Round, Watching, Building, Built, Given
<1> QED
  BY <1>3, <1>4

-----------------------------------------------------------------------------
(* The server *)

\* Steps of the process keep the server's part; those that write neither the
\* journal nor what is shown or accepted only drop or rename files.
LEMMA ServerKeeps ==
  ASSUME primary \in Versions, Handed, Server!Step \/ Server!Start \/ Server!Die,
         UNCHANGED primary
  PROVE  Handed'
<1> USE Constants
<1> USE DEF Handed, GivenIsWhole, Versions, Server!TypeOK, Server!Journal, Server!Release!TypeOK,
        Server!In, Server!Goto, Server!Leave, Server!Exit, Server!Write, Server!fileVars,
        Server!releaseVars, Server!processVars
<1>1. CASE Server!Settled
  BY <1>1 DEF Server!Settled
<1>2. CASE Server!Unclaimed
  BY <1>2 DEF Server!Unclaimed
<1>3. CASE Server!Resume
  BY <1>3 DEF Server!Resume
<1>4. CASE Server!Undo
  BY <1>4 DEF Server!Undo
<1>5. CASE Server!Block
  BY <1>5 DEF Server!Block
<1>6. CASE Server!StayBlocked
  BY <1>6 DEF Server!StayBlocked
<1>7. CASE Server!LookInVain
  BY <1>7 DEF Server!LookInVain
<1>8. CASE Server!Look
  BY <1>8 DEF Server!Look
<1>9. CASE Server!Claim
  BY <1>9 DEF Server!Claim
<1>10. CASE Server!Select
  BY <1>10 DEF Server!Select
<1>11. CASE Server!Try
  BY <1>11 DEF Server!Try
<1>12. CASE Server!Show
  BY <1>12 DEF Server!Show, Server!Release!Show
<1>13. CASE Server!Verify
  BY <1>13 DEF Server!Verify
<1>14. CASE Server!Retreat
  BY <1>14 DEF Server!Retreat
<1>15. CASE Server!Withdraw
  BY <1>15 DEF Server!Withdraw, Server!Release!Withdraw
<1>16. CASE Server!RejectClaim
  BY <1>16 DEF Server!RejectClaim, Server!Quarantine, Server!Of
<1>17. CASE Server!RejectBuild
  BY <1>17 DEF Server!RejectBuild, Server!Quarantine, Server!Of
<1>18. CASE Server!Exhaust
  BY <1>18 DEF Server!Exhaust, Server!Quarantine, Server!Of
<1>19. CASE Server!Condemn
  BY <1>19 DEF Server!Condemn, Server!Quarantine, Server!Of
<1>20. CASE Server!MoveBase
  BY <1>20 DEF Server!MoveBase
<1>21. CASE Server!MoveSidecar
  BY <1>21 DEF Server!MoveSidecar, Server!Of
<1>22. CASE Server!SkipSidecar
  BY <1>22 DEF Server!SkipSidecar
<1>23. CASE Server!Refuse
  BY <1>23 DEF Server!Refuse
<1>24. CASE Server!Conclude
  BY <1>24 DEF Server!Conclude
<1>25. CASE Server!Accept
  BY <1>25 DEF Server!Accept, Server!Release!Accept
<1>26. CASE Server!Commit
  BY <1>26 DEF Server!Commit
<1>27. CASE Server!SweepBase
  BY <1>27 DEF Server!SweepBase
<1>28. CASE Server!SweepSidecar
  BY <1>28 DEF Server!SweepSidecar, Server!Of
<1>29. CASE Server!Start
  BY <1>29 DEF Server!Start
<1>30. CASE Server!Die
  BY <1>30 DEF Server!Die
<1> QED
  BY <1>1, <1>2, <1>3, <1>4, <1>5, <1>6, <1>7, <1>8, <1>9, <1>10, <1>11, <1>12, <1>13, <1>14,
     <1>15, <1>16, <1>17, <1>18, <1>19, <1>20, <1>21, <1>22, <1>23, <1>24, <1>25, <1>26, <1>27,
     <1>28, <1>29, <1>30 DEF Server!Step

\* A snapshot is rejected only by a release that was undecided about it, and one
\* becomes so only on the claim.
LEMMA ServerDecides ==
  ASSUME primary \in Versions, Handed, Server!Step \/ Server!Start, NEW id \in 0..primary
  PROVE  /\ Undecided(id)' => Undecided(id) \/ (incoming # None /\ incoming' = None)
         /\ journal' # journal /\ journal'.state = "quarantined" /\ journal'.id = id => Undecided(id)
         /\ incoming' # incoming => incoming' = None /\ journal' = journal /\ journal.state = "claiming"
<1> USE DEF Undecided, Server!In, Server!Write, Server!fileVars
<1>0. id # None
  BY Constants DEF Versions
<1> USE <1>0
<1>1. CASE Server!Settled
  BY <1>1 DEF Server!Settled
<1>2. CASE Server!Unclaimed
  BY <1>2 DEF Server!Unclaimed
<1>3. CASE Server!Resume
  BY <1>3 DEF Server!Resume
<1>4. CASE Server!Undo
  BY <1>4 DEF Server!Undo
<1>5. CASE Server!Block
  BY <1>5 DEF Server!Block
<1>6. CASE Server!StayBlocked
  BY <1>6 DEF Server!StayBlocked
<1>7. CASE Server!LookInVain
  BY <1>7 DEF Server!LookInVain
<1>8. CASE Server!Look
  BY <1>8 DEF Server!Look, Handed
<1>9. CASE Server!Claim
  BY <1>9 DEF Server!Claim
<1>10. CASE Server!Select
  BY <1>10 DEF Server!Select
<1>11. CASE Server!Try
  BY <1>11 DEF Server!Try
<1>12. CASE Server!Show
  BY <1>12 DEF Server!Show
<1>13. CASE Server!Verify
  BY <1>13 DEF Server!Verify
<1>14. CASE Server!Retreat
  BY <1>14 DEF Server!Retreat
<1>15. CASE Server!Withdraw
  BY <1>15 DEF Server!Withdraw
<1>16. CASE Server!RejectClaim
  BY <1>16 DEF Server!RejectClaim, Server!Quarantine
<1>17. CASE Server!RejectBuild
  BY <1>17 DEF Server!RejectBuild, Server!Quarantine
<1>18. CASE Server!Exhaust
  BY <1>18 DEF Server!Exhaust, Server!Quarantine
<1>19. CASE Server!Condemn
  BY <1>19 DEF Server!Condemn, Server!Quarantine
<1>20. CASE Server!MoveBase
  BY <1>20 DEF Server!MoveBase
<1>21. CASE Server!MoveSidecar
  BY <1>21 DEF Server!MoveSidecar
<1>22. CASE Server!SkipSidecar
  BY <1>22 DEF Server!SkipSidecar
<1>23. CASE Server!Refuse
  BY <1>23 DEF Server!Refuse
<1>24. CASE Server!Conclude
  BY <1>24 DEF Server!Conclude
<1>25. CASE Server!Accept
  BY <1>25 DEF Server!Accept
<1>26. CASE Server!Commit
  BY <1>26 DEF Server!Commit
<1>27. CASE Server!SweepBase
  BY <1>27 DEF Server!SweepBase
<1>28. CASE Server!SweepSidecar
  BY <1>28 DEF Server!SweepSidecar
<1>29. CASE Server!Start
  BY <1>29 DEF Server!Start
<1> QED
  BY <1>1, <1>2, <1>3, <1>4, <1>5, <1>6, <1>7, <1>8, <1>9, <1>10, <1>11, <1>12, <1>13, <1>14,
     <1>15, <1>16, <1>17, <1>18, <1>19, <1>20, <1>21, <1>22, <1>23, <1>24, <1>25, <1>26, <1>27,
     <1>28, <1>29 DEF Server!Step

\* Rounds outlive a step of the server, which may decide about their databases.
LEMMA SeenRounds ==
  ASSUME IInv, Seen, Server!Step \/ Server!Start, UNCHANGED <<primary, localVars, upload>>
  PROVE  Single' /\ Rounds' /\ job' \in [Producers -> Job]
<1> DEFINE moved(p) == job[p].moved \/ (Rewritten /\ job[p].pc \in Watching)
           new(p)   == [job[p] EXCEPT !.moved = moved(p), !.given = Fate(p)]
<1>1. ASSUME NEW p \in Producers
      PROVE  /\ new(p) \in Job /\ new(p).pc = job[p].pc /\ new(p).manifest = job[p].manifest
             /\ new(p).earlier = job[p].earlier /\ new(p).given = Fate(p)
             /\ new(p).moved = moved(p)
  <2>1. moved(p) \in BOOLEAN /\ Fate(p) \in {"none", "incoming", "claimed", "rejected"}
    BY JobFields DEF IInv, Fate
  <2> HIDE DEF moved
  <2> QED
    BY <2>1, JobFields DEF IInv, Job
<1>2. job' = [p \in Producers |-> new(p)]
  BY DEF Seen, Watching
<1> HIDE DEF new
<1>3. job' \in [Producers -> Job]
  BY <1>1, <1>2
<1>4. Single'
  BY <1>1, <1>2 DEF IInv, Single
<1>5. ASSUME NEW p \in Producers
      PROVE  Round(p)'
  <2>1. /\ job'[p].pc = job[p].pc /\ job'[p].manifest = job[p].manifest
        /\ job'[p].earlier = job[p].earlier /\ job'[p].given = Fate(p)
        /\ job'[p].moved = moved(p) /\ Round(p)
    BY <1>1, <1>2 DEF IInv, Rounds
  <2>2. CASE job[p].pc \notin Given
    BY <2>1, <2>2 DEF Round, Watching, Building, Built, Given, localVars
  <2>3. CASE job[p].pc \in Given
    <3>1. PICK id \in 0..primary : id = job[p].manifest.id
      BY <2>1, <2>3 DEF Round, Given, Built
    <3>2. /\ Undecided(id)' => Undecided(id) \/ (incoming # None /\ incoming' = None)
          /\ journal' # journal /\ journal'.state = "quarantined" /\ journal'.id = id => Undecided(id)
          /\ incoming' # incoming =>
               incoming' = None /\ journal' = journal /\ journal.state = "claiming"
      <4>1. primary \in Versions /\ Handed
        BY DEF IInv, Local
      <4> QED
        BY <4>1, ServerDecides
    <3>3. job'[p].given # "none" /\ (job'[p].given = "incoming" => incoming' # None)
      BY <2>1, <2>3 DEF Round, Fate
    <3>4. job[p].pc \in Watching /\ job'[p].given = "incoming" /\ ~job'[p].earlier =>
            ~Undecided(id)'
      BY <2>1, <2>3, <3>1, <3>2 DEF Round, Fate, Undecided
    <3>5. job'[p].moved /\ journal'.state = "quarantined" /\ journal'.id = id =>
            \/ job'[p].given = "rejected"
            \/ job'[p].given = "incoming" /\ job'[p].earlier
      <4> SUFFICES ASSUME job'[p].moved, journal'.state = "quarantined", journal'.id = id
                   PROVE  \/ job'[p].given = "rejected"
                          \/ job'[p].given = "incoming" /\ job'[p].earlier
        OBVIOUS
      <4>1. CASE journal' = journal
        BY <2>1, <2>3, <3>1, <3>2, <4>1 DEF Round, Fate, Rewritten
      <4>2. CASE journal' # journal
        <5>1. Undecided(id) /\ job[p].pc \in Watching /\ incoming' = incoming
          BY <2>1, <3>1, <3>2, <4>2 DEF Round
        <5>2. journal' = [state |-> "quarantined", id |-> id]
          BY ServerKeeps DEF IInv, Local, Handed, Server!TypeOK, Server!Journal
        <5> QED
          BY <2>1, <2>3, <3>1, <4>2, <5>1, <5>2, JobFields DEF IInv, Round, Fate, Rewritten,
             Undecided
      <4> QED
        BY <4>1, <4>2
    <3> QED
      BY <2>1, <2>3, <3>1, <3>3, <3>4, <3>5
      DEF Round, Undecided, Watching, Building, Built, Given, localVars
  <2> QED
    BY <2>2, <2>3
<1> QED
  BY <1>3, <1>4, <1>5 DEF Rounds

-----------------------------------------------------------------------------
(* The producer *)

\* The server's part is kept by whoever leaves it alone.
LEMMA Untouched ==
  ASSUME Handed, UNCHANGED <<primary, serverVars>>
  PROVE  Handed'
BY DEF Handed, GivenIsWhole, Server!TypeOK, Server!Release!TypeOK, serverVars, releaseVars

\* A step of a round that leaves the journal alone keeps the invariant if it
\* keeps its own part and the server's.
LEMMA RoundStep ==
  ASSUME IInv, NEW p \in Producers, Only(p), job[p].pc # "idle",
         UNCHANGED <<primary, journal>>,
         snapshot' \in Versions \cup {None}, replica' \in Files, hot' \in Files, upload' \in Files,
         stops' \in 0..MaxStop, orphans' \in 0..MaxOrphan,
         Round(p)', Handed'
  PROVE  IInv'
<1>1. Single' /\ Rounds'
  BY Others DEF Rounds
<1>2. Local'
  BY DEF IInv, Local, Only
<1> QED
  BY <1>1, <1>2 DEF IInv

LEMMA BeginStep ==
  ASSUME IInv, NEW p \in Producers, Begin(p)
  PROVE  IInv'
<1> DEFINE new == [Idle EXCEPT !.pc = "snapshot", !.alive = TRUE]
<1>1. new \in Job /\ new.pc = "snapshot" /\ new.moved = FALSE
  BY IdleFields DEF Job
<1>2. job' = [job EXCEPT ![p] = new] /\ job \in [Producers -> Job]
  BY DEF Begin, IInv, Local
<1> HIDE DEF new
<1>3. /\ job' \in [Producers -> Job] /\ job'[p].pc = "snapshot" /\ job'[p].moved = FALSE
      /\ \A q \in Producers : q # p => job'[q] = job[q] /\ job[q].pc = "idle"
  BY <1>1, <1>2 DEF Begin, Locked
<1>4. Single'
  BY <1>3 DEF Single
<1>5. Rounds'
  BY <1>3 DEF Begin, IInv, Rounds, Round, Watching, Building, Built, Given
<1>6. Local'
  BY <1>3 DEF Begin, IInv, Local, boundVars
<1>7. Handed'
  BY Untouched DEF Begin, IInv
<1> QED
  BY <1>4, <1>5, <1>6, <1>7 DEF IInv

LEMMA OpenedType == ASSUME Local PROVE Opened \in Files
BY DEF Local, Opened

LEMMA PrepareStep ==
  ASSUME IInv, NEW p \in Producers, Prepare(p)
  PROVE  IInv'
<1> USE DEF At, Watching, Building, Built, Given, PCs, Turn, Same, Undecided
<1>0. Local /\ Round(p) /\ primary \in Versions /\ snapshot \in Versions \cup {None}
      /\ replica \in Files /\ hot \in Files /\ upload \in Files
      /\ stops \in 0..MaxStop /\ orphans \in 0..MaxOrphan
  BY DEF IInv, Local, Rounds
<1>1. Handed' /\ UNCHANGED <<primary, journal>>
  <2>1. UNCHANGED <<primary, serverVars>>
    BY DEF Prepare, TakeSnapshot, ValidateReplica, BeginDelta, NoDelta, CommitDelta, AbortDelta,
       Reconcile, Rebuild, BuildManifest
  <2> QED
    BY <2>1, Untouched DEF IInv, serverVars, releaseVars
<1>2. CASE TakeSnapshot(p)
  <2>1. Turn(p, "sync")
    BY <1>0, <1>2, Hands DEF TakeSnapshot
  <2>2. Round(p)'
    BY <1>0, <1>2, <1>1, <2>1, Constants DEF TakeSnapshot, Round, Versions
  <2> QED
    BY <1>0, <1>2, <2>1, <2>2, <1>1, RoundStep DEF TakeSnapshot, boundVars
<1>3. CASE ValidateReplica(p)
  <2>1. PICK pc \in {"rebuild", "delta"} : Turn(p, pc)
    BY <1>0, <1>3, Withins DEF ValidateReplica
  <2>2. Round(p)'
    BY <1>0, <1>3, <1>1, <2>1 DEF ValidateReplica, Round, localVars
  <2> QED
    BY <1>0, <1>3, <2>1, <2>2, <1>1, RoundStep DEF ValidateReplica, localVars, boundVars
<1>4. CASE BeginDelta(p)
  <2>1. Turn(p, "commit")
    BY <1>0, <1>4, Withins DEF BeginDelta
  <2>2. Round(p)'
    BY <1>0, <1>4, <1>1, <2>1 DEF BeginDelta, Round
  <2> QED
    BY <1>0, <1>4, <2>1, <2>2, <1>1, RoundStep, OpenedType, Constants
    DEF BeginDelta, boundVars
<1>5. CASE NoDelta(p)
  <2>1. Turn(p, "reconcile")
    BY <1>0, <1>5, Withins DEF NoDelta
  <2>2. Round(p)'
    BY <1>0, <1>5, <1>1, <2>1 DEF NoDelta, Round
  <2> QED
    BY <1>0, <1>5, <2>1, <2>2, <1>1, RoundStep, OpenedType, Constants
    DEF NoDelta, boundVars
<1>6. CASE CommitDelta(p)
  <2>1. Turn(p, "reconcile")
    BY <1>0, <1>6, Withins DEF CommitDelta
  <2>2. Round(p)'
    BY <1>0, <1>6, <1>1, <2>1 DEF CommitDelta, Round
  <2> QED
    BY <1>0, <1>6, <2>1, <2>2, <1>1, RoundStep, Constants
    DEF CommitDelta, boundVars
<1>7. CASE AbortDelta(p)
  <2>1. Turn(p, "rebuild")
    BY <1>0, <1>7, Withins DEF AbortDelta
  <2>2. Round(p)'
    BY <1>0, <1>7, <1>1, <2>1 DEF AbortDelta, Round
  <2> QED
    BY <1>0, <1>7, <2>1, <2>2, <1>1, RoundStep, Constants
    DEF AbortDelta, boundVars
<1>8. CASE Reconcile(p)
  <2>1. PICK pc \in {"manifest", "rebuild"} : Turn(p, pc) /\ (pc = "manifest" => replica = snapshot)
    <3>1. CASE Reconciled
      BY <1>0, <1>8, <3>1, Hands DEF Reconcile, Reconciled
    <3>2. CASE ~Reconciled
      BY <1>0, <1>8, <3>2, Withins DEF Reconcile
    <3> QED
      BY <3>1, <3>2
  <2>2. Round(p)'
    BY <1>0, <1>8, <1>1, <2>1 DEF Reconcile, Round, localVars
  <2> QED
    BY <1>0, <1>8, <2>1, <2>2, <1>1, RoundStep DEF Reconcile, localVars, boundVars
<1>9. CASE Rebuild(p)
  <2>1. Turn(p, "manifest")
    BY <1>0, <1>9, Hands DEF Rebuild
  <2>2. Round(p)'
    BY <1>0, <1>9, <1>1, <2>1 DEF Rebuild, Round
  <2> QED
    BY <1>0, <1>9, <2>1, <2>2, <1>1, RoundStep, Constants
    DEF Rebuild, boundVars
<1>10. CASE BuildManifest(p)
  <2> DEFINE new == [job[p] EXCEPT !.pc = "sidecar",
                       !.manifest = [id |-> replica, oracle |-> snapshot]]
  <2>1. /\ new \in Job /\ new.pc = "sidecar" /\ new.moved = job[p].moved
        /\ new.manifest = [id |-> replica, oracle |-> snapshot]
    BY <1>0, JobFields, Constants DEF Job, Manifest, Files
  <2>2. HandOn(p, new)
    BY <1>10 DEF BuildManifest
  <2> HIDE DEF new
  <2>3. Only(p) /\ (job'[p] = new \/ job'[p] = Idle)
    BY <1>0, <2>1, <2>2, HandsOn
  <2>4. Round(p)'
    BY <1>0, <1>1, <1>10, <2>1, <2>3, IdleFields DEF BuildManifest, Round, localVars
  <2> QED
    BY <1>0, <1>1, <1>10, <2>3, <2>4, RoundStep DEF BuildManifest, localVars, boundVars
<1> QED
  BY <1>2, <1>3, <1>4, <1>5, <1>6, <1>7, <1>8, <1>9, <1>10 DEF Prepare

LEMMA ShipStep ==
  ASSUME IInv, NEW p \in Producers, Ship(p)
  PROVE  IInv'
<1> USE DEF At, Watching, Building, Built, Given, PCs, Turn, Same, Undecided
<1>0. /\ Local /\ Round(p) /\ Handed
      /\ primary \in Versions /\ snapshot \in Versions \cup {None}
      /\ replica \in Files /\ hot \in Files /\ upload \in Files
      /\ stops \in 0..MaxStop /\ orphans \in 0..MaxOrphan
  BY DEF IInv, Local, Rounds
<1>1. CASE PublishSidecar(p)
  <2>1. Turn(p, "upload")
    BY <1>0, <1>1, Hands DEF PublishSidecar
  <2>2. journal' = journal /\ Server!Offer(job[p].manifest)
    BY <1>1 DEF PublishSidecar, Server!Offer
  <2>3. Round(p)'
    BY <1>0, <1>1, <2>1, <2>2 DEF PublishSidecar, Round, localVars
  <2>4. job[p].manifest = [id |-> snapshot, oracle |-> snapshot] /\ snapshot \in 0..primary
    BY <1>0, <1>1 DEF PublishSidecar, Round
  <2>5. 0..primary \subseteq Versions
    BY <1>0, Constants DEF Versions
  <2>6. Handed'
    BY <1>0, <1>1, <2>2, <2>4, <2>5 DEF PublishSidecar, Server!Offer, Handed, GivenIsWhole,
       Server!TypeOK, Server!Manifest, Server!Release!TypeOK, Server!releaseVars, Server!processVars
  <2> QED
    BY <1>0, <1>1, <2>1, <2>2, <2>3, <2>6, RoundStep DEF PublishSidecar, localVars, boundVars
<1>2. CASE BeginUpload(p)
  <2>1. Turn(p, "transfer")
    BY <1>0, <1>2, Withins DEF BeginUpload
  <2>2. Handed' /\ UNCHANGED <<journal, claimed, incoming>>
    BY <1>0, <1>2, Untouched DEF BeginUpload, serverVars, releaseVars
  <2>3. Round(p)'
    BY <1>0, <1>2, <2>1, <2>2 DEF BeginUpload, Round, localVars
  <2> QED
    BY <1>0, <1>2, <2>1, <2>2, <2>3, RoundStep, Constants DEF BeginUpload, localVars, boundVars
<1>3. CASE FinishUpload(p)
  <2>1. Turn(p, "publish")
    BY <1>0, <1>3, Hands DEF FinishUpload
  <2>2. Handed' /\ UNCHANGED <<journal, claimed, incoming>>
    BY <1>0, <1>3, Untouched DEF FinishUpload, serverVars, releaseVars
  <2>3. Round(p)'
    BY <1>0, <1>3, <2>1, <2>2 DEF FinishUpload, Round, localVars
  <2> QED
    BY <1>0, <1>3, <2>1, <2>2, <2>3, RoundStep DEF FinishUpload, localVars, boundVars
<1>4. CASE PublishDatabase(p)
  <2> DEFINE new == [job[p] EXCEPT !.pc = "checkpoint", !.given = "incoming"]
  <2>1. /\ new \in Job /\ new.pc = "checkpoint" /\ new.given = "incoming"
        /\ new.manifest = job[p].manifest /\ new.moved = job[p].moved
    BY <1>0, JobFields DEF Job
  <2>2. HandOn(p, new) /\ journal' = journal /\ incoming' = upload /\ Server!Deliver(upload)
    BY <1>4 DEF PublishDatabase, Server!Deliver
  <2> HIDE DEF new
  <2>3. Only(p) /\ (job'[p] = new \/ job'[p] = Idle)
    BY <1>0, <2>1, <2>2, HandsOn
  <2>4. upload \in 0..primary /\ 0..primary \subseteq Versions
    BY <1>0, <1>4, Constants DEF PublishDatabase, Round, Versions
  <2>5. Round(p)'
    BY <1>0, <1>4, <2>1, <2>2, <2>3, IdleFields DEF PublishDatabase, Round, localVars
  <2>6. Handed'
    BY <1>0, <1>4, <2>2, <2>4 DEF PublishDatabase, Server!Deliver, Handed, GivenIsWhole,
       Server!TypeOK, Server!Release!TypeOK, Server!releaseVars, Server!processVars
  <2> QED
    BY <1>0, <1>4, <2>2, <2>3, <2>5, <2>6, RoundStep, Constants
    DEF PublishDatabase, localVars, boundVars
<1>5. CASE Checkpoint(p)
  <2> DEFINE undecided == Undecided(job[p].manifest.id)
             new == [job[p] EXCEPT !.pc = "trigger", !.earlier = undecided]
  <2>1. /\ new \in Job /\ new.pc = "trigger" /\ new.earlier = undecided
        /\ new.manifest = job[p].manifest /\ new.moved = job[p].moved /\ new.given = job[p].given
    <3>1. undecided \in BOOLEAN
      OBVIOUS
    <3> HIDE DEF undecided
    <3> QED
      BY <1>0, <3>1, JobFields DEF Job
  <2>2. HandOn(p, new)
    BY <1>5 DEF Checkpoint
  <2> HIDE DEF new
  <2>3. Only(p) /\ (job'[p] = new \/ job'[p] = Idle)
    BY <1>0, <2>1, <2>2, HandsOn
  <2>4. Handed' /\ UNCHANGED <<journal, claimed, incoming>>
    BY <1>0, <1>5, Untouched DEF Checkpoint, serverVars, releaseVars
  <2>5. Round(p)'
    BY <1>0, <1>5, <2>1, <2>3, <2>4, IdleFields DEF Checkpoint, Round, localVars
  <2> QED
    BY <1>0, <1>5, <2>3, <2>4, <2>5, RoundStep DEF Checkpoint, localVars, boundVars
<1>6. CASE Trigger(p)
  <2>1. Turn(p, "wait")
    BY <1>0, <1>6, Hands DEF Trigger
  <2>2. Handed' /\ UNCHANGED <<journal, claimed, incoming>>
    <3>1. CASE apply = "off"
      BY <1>0, <1>6, <3>1, ServerKeeps DEF Trigger, Server!Start, Server!fileVars
    <3>2. CASE apply # "off"
      BY <1>0, <1>6, <3>2, Untouched DEF Trigger, serverVars, releaseVars
    <3> QED
      BY <3>1, <3>2
  <2>3. Round(p)'
    BY <1>0, <1>6, <2>1, <2>2 DEF Trigger, Round, localVars
  <2> QED
    BY <1>0, <1>6, <2>1, <2>2, <2>3, RoundStep DEF Trigger, localVars, boundVars
<1> QED
  BY <1>1, <1>2, <1>3, <1>4, <1>5, <1>6 DEF Ship

\* However a round ends.
LEMMA EndStep ==
  ASSUME IInv, NEW p \in Producers, job[p].pc # "idle", job' = [job EXCEPT ![p] = Idle],
         UNCHANGED <<primary, localVars, upload, serverVars>>,
         stops' \in 0..MaxStop, orphans' \in 0..MaxOrphan
  PROVE  IInv'
<1>1. Only(p) /\ job'[p] = Idle
  BY Endings DEF IInv
<1>2. Round(p)'
  BY <1>1, IdleFields DEF Round, Watching, Building, Built, Given
<1>3. Handed' /\ journal' = journal
  BY Untouched DEF IInv, serverVars, releaseVars
<1> QED
  BY <1>1, <1>2, <1>3, RoundStep DEF IInv, Local, localVars

LEMMA AwaitStep ==
  ASSUME IInv, NEW p \in Producers, Await(p)
  PROVE  IInv'
<1>1. At(p, "wait") /\ End(p)
  BY DEF Await, SayDone, SayRejected, GiveUp, Verdict
<1> QED
  BY <1>1, EndStep DEF At, End, IInv, Local, boundVars

LEMMA StopStep ==
  ASSUME IInv, NEW p \in Producers, Stop(p)
  PROVE  IInv'
<1>1. stops' \in 0..MaxStop /\ orphans' \in 0..MaxOrphan
  BY Constants DEF Stop, IInv, Local
<1> QED
  BY <1>1, EndStep DEF Stop

LEMMA OrphanStep ==
  ASSUME IInv, NEW p \in Producers, Orphan(p)
  PROVE  IInv'
<1> DEFINE new == [job[p] EXCEPT !.alive = FALSE]
<1>1. new \in Job /\ new.pc = job[p].pc /\ Same(new, job[p])
  BY JobFields DEF IInv, Job, Same
<1>2. job' = [job EXCEPT ![p] = new] /\ job \in [Producers -> Job]
  BY DEF Orphan, IInv, Local
<1> HIDE DEF new
<1>3. Only(p) /\ job'[p].pc = job[p].pc /\ Same(job'[p], job[p])
  BY <1>1, <1>2 DEF Only
<1>4. Handed' /\ UNCHANGED <<journal, claimed, incoming>>
  BY Untouched DEF Orphan, IInv, serverVars, releaseVars
<1>5. Round(p)'
  BY <1>3, <1>4 DEF Orphan, IInv, Rounds, Round, Same, Undecided, localVars
<1>6. stops' \in 0..MaxStop /\ orphans' \in 0..MaxOrphan
  BY Constants DEF Orphan, IInv, Local
<1> QED
  BY <1>3, <1>4, <1>5, <1>6, RoundStep DEF Orphan, IInv, Local, localVars

LEMMA WritePrimaryStep ==
  ASSUME IInv, WritePrimary
  PROVE  IInv'
<1>1. primary \in Nat /\ primary' \in 0..MaxWrite /\ 0..primary \subseteq 0..primary'
  BY Constants DEF WritePrimary, IInv, Local, Versions
<1>2. Local'
  BY <1>1 DEF WritePrimary, IInv, Local, Versions, localVars, boundVars
<1>3. Single' /\ Rounds'
  BY <1>1 DEF WritePrimary, IInv, Single, Rounds, Round, Undecided, localVars, serverVars,
     releaseVars
<1>4. Handed'
  BY <1>1 DEF WritePrimary, IInv, Handed, GivenIsWhole, Server!TypeOK, Server!Release!TypeOK,
     serverVars, releaseVars
<1> QED
  BY <1>2, <1>3, <1>4 DEF IInv

\* The apply process goes on, begins, or dies.
LEMMA ServerStep ==
  ASSUME IInv, Serve \/ TimerFires \/ ApplyDies
  PROVE  IInv'
<1>1. Handed'
  BY ServerKeeps DEF Serve, TimerFires, ApplyDies, Aside, IInv, Local
<1>2. CASE Serve \/ TimerFires
  <2>1. Single' /\ Rounds' /\ job' \in [Producers -> Job]
    BY <1>2, SeenRounds DEF Serve, TimerFires, Aside
  <2>2. Local'
    BY <1>2, <2>1 DEF Serve, TimerFires, Aside, IInv, Local, localVars, boundVars
  <2> QED
    BY <1>1, <2>1, <2>2 DEF IInv
<1>3. CASE ApplyDies
  <2>1. stops' \in 0..MaxStop /\ UNCHANGED <<journal, claimed, incoming>>
    BY <1>3, Constants DEF ApplyDies, Server!Die, Server!fileVars, IInv, Local
  <2>2. Local' /\ Single' /\ Rounds'
    BY <1>3, <2>1 DEF ApplyDies, IInv, Local, Single, Rounds, Round, Undecided, localVars
  <2> QED
    BY <1>1, <2>2 DEF IInv
<1> QED
  BY <1>2, <1>3

-----------------------------------------------------------------------------
(* The theorems *)

LEMMA InitIInv == Init => IInv
<1> SUFFICES ASSUME Init PROVE IInv
  OBVIOUS
<1>1. /\ job \in [Producers -> Job]
      /\ \A p \in Producers : job[p].pc = "idle" /\ job[p].moved = FALSE
  BY IdleFields DEF Init
<1>2. Local
  BY <1>1, Constants DEF Init, Local, Versions
<1>3. Single /\ Rounds
  BY <1>1 DEF Single, Rounds, Round, Watching, Building, Built, Given
<1>4. Handed
  BY Constants DEF Init, Handed, GivenIsWhole, Server!Init, Server!TypeOK, Server!Journal,
     Server!Release!Init, Server!Release!TypeOK
<1> QED
  BY <1>2, <1>3, <1>4 DEF IInv

LEMMA NextIInv == IInv /\ [Next]_vars => IInv'
<1> SUFFICES ASSUME IInv, [Next]_vars PROVE IInv'
  OBVIOUS
<1>1. ASSUME NEW p \in Producers, Begin(p) \/ Step(p) \/ Stop(p) \/ Orphan(p) PROVE IInv'
  BY <1>1, BeginStep, PrepareStep, ShipStep, AwaitStep, StopStep, OrphanStep DEF Step
<1>2. CASE Serve \/ TimerFires \/ ApplyDies
  BY <1>2, ServerStep
<1>3. CASE WritePrimary
  BY <1>3, WritePrimaryStep
<1>4. CASE UNCHANGED vars
  <2>1. Local' /\ Single'
    BY <1>4 DEF IInv, Local, Single, vars, localVars, boundVars
  <2>2. Rounds'
    BY <1>4 DEF IInv, Rounds, Round, Undecided, vars, localVars, serverVars, releaseVars
  <2>3. Handed'
    BY <1>4, Untouched DEF IInv, vars
  <2> QED
    BY <2>1, <2>2, <2>3 DEF IInv
<1> QED
  BY <1>1, <1>2, <1>3, <1>4 DEF Next

LEMMA Inductive == Spec => []IInv
BY InitIInv, NextIInv, PTL DEF Spec

\* The files, the journal and the processes stay within their types.
THEOREM TypeCorrect == Spec => []TypeOK
<1>1. IInv => TypeOK
  BY Constants DEF IInv, Local, Handed, TypeOK, Versions
<1> QED
  BY <1>1, Inductive, PTL

\* The server is only ever given whole states of the primary, with an oracle of
\* the same state (logical_delta.py, the commit marker of sync-db-to-server.sh).
THEOREM OnlyWholeStates == Spec => []GivenIsWhole
<1>1. IInv => GivenIsWhole
  BY DEF IInv, Handed
<1> QED
  BY <1>1, Inductive, PTL

\* A round that says done has brought its snapshot to the accepted state
\* (wait_for_apply_terminal).
THEOREM DoneMeansFresh == Spec => DoneIsFresh
<1> DEFINE Fresh == \A p \in Producers : SayDone(p) => basis >= snapshot
<1>1. IInv => Fresh
  <2> SUFFICES ASSUME IInv, NEW p \in Producers, SayDone(p) PROVE basis >= snapshot
    OBVIOUS
  <2>1. job[p].pc = "wait" /\ journal = [state |-> "committed", id |-> job[p].manifest.id]
    BY DEF SayDone, Verdict, At
  <2>2. job[p].manifest = [id |-> snapshot, oracle |-> snapshot]
    BY <2>1 DEF IInv, Rounds, Round, Built
  <2>3. basis = snapshot /\ basis \in 0..primary
    BY <2>1, <2>2 DEF IInv, Handed
  <2> QED
    BY <2>3
<1>2. Fresh => [Fresh]_vars
  OBVIOUS
<1> HIDE DEF Fresh
<1>3. Spec => [][Fresh]_vars
  BY <1>1, <1>2, Inductive, PTL
<1> QED
  BY <1>3 DEF DoneIsFresh, Fresh

\* A round that says rejected reports a decision of after its checkpoint on its
\* own snapshot: about the database it published, or else about an earlier one
\* whose release was undecided at the checkpoint (remote_terminal_state, reconcile).
THEOREM RejectionsAreCurrent == Spec => RejectionIsCurrent
<1> DEFINE Current ==
      \A p \in Producers : SayRejected(p) =>
        \/ job[p].given = "rejected"
        \/ job[p].given = "incoming" /\ job[p].earlier
<1>1. IInv => Current
  <2> SUFFICES ASSUME IInv, NEW p \in Producers, SayRejected(p)
               PROVE  \/ job[p].given = "rejected"
                      \/ job[p].given = "incoming" /\ job[p].earlier
    OBVIOUS
  <2>1. /\ job[p].pc = "wait" /\ job[p].moved
        /\ journal.state = "quarantined" /\ journal.id = job[p].manifest.id
    BY DEF SayRejected, Verdict, At
  <2> QED
    BY <2>1 DEF IInv, Rounds, Round
<1> HIDE DEF Current
<1>2. Spec => [][Current]_vars
  BY <1>1, Inductive, PTL
<1> QED
  BY <1>2 DEF RejectionIsCurrent, Current
=============================================================================
