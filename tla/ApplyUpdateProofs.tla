--------------------------- MODULE ApplyUpdateProofs ---------------------------
(***************************************************************************)
(* Proofs about ApplyUpdate, for any snapshots and any number of pushes,    *)
(* crashes, failures and upgrades.                                          *)
(***************************************************************************)
EXTENDS ApplyUpdate, TLAPS

-----------------------------------------------------------------------------
(* The inductive invariant *)

Rebuilding == {"rebuilding", "prepared"}

\* Outside a trial: what is served is verified and is the basis, and nginx
\* serves what its include says.
Settled ==
  journal.state \notin Unsettled =>
    /\ slotDb[include] = [snap |-> basis, ready |-> TRUE]
    /\ receipt = [snap |-> basis, port |-> include]
    /\ include \in enabled
    /\ ~masked => route = include /\ include \in running

\* The candidate is the slot that does not serve.
Aside ==
  journal.state \in Rebuilding \cup {"claiming", "quarantining"} => include = Old

\* Base and sidecar stay until the release is over.
Kept ==
  journal.state \in Rebuilding \cup Pending \cup {"consumer_verified"} =>
    claimed = journal.snap /\ journal.snap \in sidecars

\* On trial: the oracle is what it was captured as, the old slot can be
\* returned to, and the candidate can be served from if it is.
OnTrial ==
  journal.state \in Pending =>
    /\ slotDb[Old] = [snap |-> basis, ready |-> TRUE]
    /\ slotDb[Cand] = [snap |-> journal.snap, ready |-> TRUE]
    /\ receipt = [snap |-> basis, port |-> Old]
    /\ journal.oracle.db = basis /\ journal.oracle.basis = basis
    /\ journal.oracle.receipt = receipt
    /\ Old \in enabled
    /\ include = Cand => Cand \in enabled
    /\ ~masked => journal.oracle.results = basis /\ route \in running

\* The candidate passed: it is what is served.
Accepted ==
  journal.state = "consumer_verified" =>
    /\ include = Cand
    /\ slotDb[Cand] = [snap |-> journal.snap, ready |-> TRUE]
    /\ Cand \in enabled
    /\ ~masked => route = Cand /\ Cand \in running

\* The states an operator would have to settle are not reached, and a
\* committed journal agrees with the files.
NotBlocked ==
  /\ journal.state \notin {"rollback_blocked", "finalize_blocked"}
  /\ journal.state = "committed" => CommittedValid

\* Where the claimed base may be.
BaseHeld ==
  /\ journal.state \in {"idle", "quarantined"} => claimed = None
  /\ journal.state = "committed" =>
       /\ claimed \in {None, journal.snap}
       /\ pc \in {"look", "sweepManifest"} => claimed = None
  /\ journal.state = "quarantining" =>
       /\ "base" \notin journal.intent.takes \/ "base" \in moved => claimed = None
       /\ pc \in {"candidate", "manifest", "record"} => claimed = None

\* What the process knows at each step: before the switch, ...
StepsBefore ==
  /\ pc = "look" => journal.state \in {"idle", "quarantined", "committed"}
  /\ pc = "claim" => journal.state = "claiming" /\ claimed = None /\ incoming # None
  /\ pc = "select" => journal.state = "claiming" /\ claimed # None
  /\ pc \in {"rebuild", "verify"} => journal.state \in Rebuilding
  /\ pc = "verify" => slotDb[Cand].snap = journal.snap
  /\ pc \in {"restart", "enable", "probe", "capture"} =>
       journal.state = "prepared" /\ slotDb[Cand] = [snap |-> journal.snap, ready |-> TRUE]
  /\ pc \in {"enable", "probe", "capture"} => Cand \in running
  /\ pc \in {"probe", "capture"} => Cand \in enabled

\* ... during the switch, ...
StepsForward ==
  /\ pc \in {"point", "reload", "switched", "gate", "stopOld", "prove"} =>
       journal.state \in Pending /\ Cand \in running /\ Cand \in enabled
  /\ pc = "point" => include = Old
  /\ pc \in {"reload", "switched", "gate", "stopOld", "prove"} => include = Cand
  /\ pc \in {"point", "reload"} => masked \/ route = Old
  /\ pc \in {"switched", "gate"} => masked \/ route = Cand \/ ~Alike(basis, journal.snap)
  /\ pc \in {"stopOld", "prove"} => masked \/ route = Cand

\* ... while switching back or moving evidence, ...
StepsBack ==
  /\ pc \in {"rollback", "back", "reloadBack", "baseline", "condemn"} => journal.state \in Pending
  /\ pc \in {"back", "reloadBack", "baseline", "condemn"} => masked \/ Old \in running
  /\ pc \in {"reloadBack", "baseline", "condemn"} => include = Old
  /\ pc = "baseline" => masked \/ route = Old \/ ~Alike(basis, journal.snap)
  /\ pc = "condemn" => masked \/ route = Old
  /\ pc \in {"quarantine", "record"} \cup Labels => journal.state = "quarantining"

\* ... and in the finalization.
StepsFinal ==
  /\ pc \in {"finalize", "disableOld", "dropOld", "basis", "receipt", "commit"} =>
       journal.state = "consumer_verified"
  /\ pc \in {"receipt", "commit"} => basis = journal.snap
  /\ pc = "commit" => receipt = [snap |-> journal.snap, port |-> Cand]
  /\ pc \in {"sweepBase", "sweepManifest"} => journal.state = "committed"

Durable == Settled /\ Aside /\ Kept /\ OnTrial /\ Accepted /\ NotBlocked /\ BaseHeld
Steps == StepsBefore /\ StepsForward /\ StepsBack /\ StepsFinal

IInv == TypeOK /\ Durable /\ Steps

-----------------------------------------------------------------------------
(* Facts about the operators *)

USE ApplyUpdateAssumption
USE DEF producerVars, intakeVars, commitVars, hostVars, boundVars, fileVars, historyVars, Cand,
        Old, Goto, Exit, Fail, Snap, Labels, Pending, Rebuilding, Unsettled, Retire, RetireFails

\* There are two slots: the other of the other slot is the slot.
LEMMA OtherSlot ==
  \A p \in Slots : /\ Other(p) \in Slots /\ Other(p) # p /\ Other(Other(p)) = p
                   /\ \A q \in Slots : q = p \/ q = Other(p)
BY DEF Other

\* What the proofs read of a journal entry.
Reads(j, st, p, s, r) ==
  j \in Journal /\ j.state = st /\ j.port = p /\ j.snap = s /\ j.retry = r

\* ... of the durable intent of a quarantine.
Condemned(p, s, r, then) ==
  /\ Reads(journal', "quarantining", p, s, r)
  /\ claimed # None => "base" \in journal'.intent.takes
  /\ moved' = {} /\ pc' = "quarantine" /\ after' = then

\* What journal_write writes is an entry.
LEMMA EntryFacts ==
  ASSUME verifier \in 0..MaxUpgrade,
         NEW st \in States, NEW p \in Slots \cup {None}, NEW s \in Snap, NEW r \in 0..1
  PROVE  Reads(Entry(st, p, s, r), st, p, s, r)
BY DEF Journal, States, Oracle, Intent, Entry, NoOracle, NoIntent, Reads

\* _quarantine leaves the process at the first rename, and the claimed base is
\* among what it will move.
LEMMA QuarantineFacts ==
  ASSUME verifier \in 0..MaxUpgrade, NEW p \in Slots, NEW s \in Snap, NEW r \in 0..1,
         NEW wc \in BOOLEAN, NEW ret \in BOOLEAN, NEW then, Quarantine(p, s, r, wc, ret, then)
  PROVE  Condemned(p, s, r, then)
<1>1. /\ Evidence(p, s, wc) \subseteq Labels
      /\ claimed # None => "base" \in Evidence(p, s, wc)
  BY DEF Evidence
<1> DEFINE i == [retire |-> ret, takes |-> Evidence(p, s, wc)]
<1>2. i \in Intent /\ i.takes = Evidence(p, s, wc)
  BY <1>1 DEF Intent
<1> HIDE DEF i
<1>3. Reads(Entry("quarantining", p, s, r), "quarantining", p, s, r)
  BY EntryFacts DEF States
<1>4. journal' = [Entry("quarantining", p, s, r) EXCEPT !.intent = i]
  BY DEF Quarantine, i
<1>5. Reads(journal', "quarantining", p, s, r) /\ journal'.intent = i
  BY <1>2, <1>3, <1>4 DEF Journal, Reads
<1> QED
  BY <1>1, <1>2, <1>5 DEF Quarantine, Condemned

\* The inputs of a rollback pass their validation whenever one may be needed:
\* no crash or push in between has changed what the oracle binds.
LEMMA RollbackValid ==
  ASSUME TypeOK, Durable, journal.state \in Pending
  PROVE  PendingValid(journal.oracle) /\ journal.oracle \in Oracle
BY OtherSlot DEF Durable, TypeOK, JournalOK, Journal, Kept, OnTrial, PendingValid

\* An entry with a rollback oracle.
LEMMA PendingFacts ==
  ASSUME verifier \in 0..MaxUpgrade,
         NEW st \in Pending, NEW p \in Slots, NEW s \in Snapshots, NEW r \in 0..1,
         NEW o \in Oracle, journal' = [Entry(st, p, s, r) EXCEPT !.oracle = o]
  PROVE  Reads(journal', st, p, s, r) /\ journal'.oracle = o
<1>1. Reads(Entry(st, p, s, r), st, p, s, r)
  BY EntryFacts DEF States
<1> QED
  BY <1>1 DEF Journal, Reads

\* A claim found by the next process is rebuilt with the retry used, or put
\* aside.
LEMMA RetryWrites ==
  ASSUME TypeOK, Steps, ReconcileClaimed
  PROVE  \/ \E r \in 0..1 : Condemned(Cand, claimed, r, "idle")
         \/ /\ Reads(journal', "rebuilding", Cand, claimed, 1)
            /\ pc' = "rebuild" /\ claimed \in sidecars
            /\ UNCHANGED <<after, moved>>
<1>1. Cand \in Slots /\ claimed \in Snapshots
  BY OtherSlot DEF TypeOK, JournalOK, Journal, ReconcileClaimed, Reconciling
<1>2. CASE journal.verifier # verifier \/ claimed \notin sidecars
  <2>1. \/ Quarantine(Cand, claimed, 0, FALSE, FALSE, "idle")
        \/ Quarantine(Cand, claimed, 1, FALSE, FALSE, "idle")
    BY <1>2 DEF ReconcileClaimed, ClaimedId
  <2>2. 0 \in 0..1 /\ 1 \in 0..1
    OBVIOUS
  <2>3. PICK r \in 0..1 : Quarantine(Cand, claimed, r, FALSE, FALSE, "idle")
    BY <2>1, <2>2, Zenon
  <2>4. Condemned(Cand, claimed, r, "idle")
    BY <1>1, <2>3, QuarantineFacts DEF TypeOK
  <2> QED
    BY <2>4
<1>3. CASE journal.verifier = verifier /\ claimed \in sidecars
  <2>1. /\ journal' = Entry("rebuilding", Cand, claimed, 1)
        /\ pc' = "rebuild" /\ UNCHANGED <<after, moved>>
    BY <1>3 DEF ReconcileClaimed, ClaimedId
  <2>2. Reads(Entry("rebuilding", Cand, claimed, 1), "rebuilding", Cand, claimed, 1)
    BY <1>1, EntryFacts DEF TypeOK, States, Retryable
  <2> QED
    BY <1>3, <2>1, <2>2
<1> QED
  BY <1>2, <1>3

\* A claim with its sidecar is rebuilt, one without is put aside.
LEMMA SelectWrites ==
  ASSUME TypeOK, Steps, Select
  PROVE  \/ Condemned(Cand, claimed, 0, "idle")
         \/ /\ Reads(journal', "rebuilding", Cand, claimed, 0)
            /\ pc' = "rebuild" /\ claimed \in sidecars
            /\ UNCHANGED <<after, moved>>
<1>1. Cand \in Slots /\ claimed \in Snapshots
  BY DEF TypeOK, JournalOK, Journal, Steps, StepsBefore, Select
<1>2. CASE claimed \notin sidecars
  <2>1. Quarantine(Cand, claimed, 0, FALSE, FALSE, "idle")
    BY <1>2 DEF Select, ClaimedId
  <2>2. /\ verifier \in 0..MaxUpgrade /\ claimed \in Snap
        /\ 0 \in 0..1 /\ FALSE \in BOOLEAN
    BY <1>1 DEF TypeOK
  <2> QED
    BY <1>1, <2>1, <2>2, QuarantineFacts, Zenon
<1>3. CASE claimed \in sidecars
  BY <1>1, <1>3, EntryFacts DEF TypeOK, Select, ClaimedId, States, Retryable
<1> QED
  BY <1>2, <1>3

-----------------------------------------------------------------------------
(* Each action preserves the invariant *)

\* The producer writes only its own files.
LEMMA ProducerKeeps == IInv /\ Producer => IInv'
<1> SUFFICES ASSUME TypeOK, Durable, Steps, Producer
             PROVE  TypeOK' /\ Durable' /\ Steps'
  BY DEF IInv
<1> USE DEF Durable, Steps
<1>1. ASSUME NEW s \in Snapshots, PublishSidecar(s)
     PROVE  TypeOK' /\ Durable' /\ Steps'
  <2>1. TypeOK'
    BY <1>1, OtherSlot DEF TypeOK, JournalOK, PCs, PublishSidecar
  <2>2. Durable'
    BY <1>1 DEF Settled, Aside, Kept, OnTrial, Accepted, NotBlocked, BaseHeld, CommittedValid,
       PublishSidecar
  <2>3. Steps'
    BY <1>1 DEF StepsBefore, StepsForward, StepsBack, StepsFinal, PublishSidecar
  <2> QED
    BY <2>1, <2>2, <2>3
<1>2. CASE PublishDatabase
  <2>1. TypeOK'
    BY <1>2, OtherSlot DEF TypeOK, JournalOK, PCs, PublishDatabase
  <2>2. Durable'
    BY <1>2 DEF Settled, Aside, Kept, OnTrial, Accepted, NotBlocked, BaseHeld, CommittedValid,
       PublishDatabase
  <2>3. Steps'
    BY <1>2 DEF StepsBefore, StepsForward, StepsBack, StepsFinal, PublishDatabase
  <2> QED
    BY <2>1, <2>2, <2>3
<1>3. CASE PushFails
  <2>1. TypeOK'
    BY <1>3, OtherSlot DEF TypeOK, JournalOK, PCs, PushFails
  <2>2. Durable'
    BY <1>3 DEF Settled, Aside, Kept, OnTrial, Accepted, NotBlocked, BaseHeld, CommittedValid,
       PushFails
  <2>3. Steps'
    BY <1>3 DEF StepsBefore, StepsForward, StepsBack, StepsFinal, PushFails
  <2> QED
    BY <2>1, <2>2, <2>3
<1> QED
  BY <1>1, <1>2, <1>3 DEF Producer

\* Reconciling a journal preserves the invariant.
LEMMA ReconcileKeeps == IInv /\ Reconcile => IInv'
<1> SUFFICES ASSUME TypeOK, Durable, Steps, Reconcile
             PROVE  TypeOK' /\ Durable' /\ Steps'
  BY DEF IInv
<1> USE DEF Durable, Steps
<1>1. CASE ReconcileSettled
  <2>1. TypeOK'
    BY <1>1, OtherSlot DEF TypeOK, JournalOK, PCs, ReconcileSettled, Reconciling
  <2>2. Durable'
    BY <1>1 DEF Settled, Aside, Kept, OnTrial, Accepted, NotBlocked, BaseHeld, CommittedValid,
       ReconcileSettled, Reconciling
  <2>3. Steps'
    BY <1>1, OtherSlot DEF TypeOK, JournalOK, StepsBefore, StepsForward, StepsBack, StepsFinal,
       ReconcileSettled, Reconciling
  <2> QED
    BY <2>1, <2>2, <2>3
<1>2. CASE ReconcileBlocked
  <2>1. TypeOK'
    BY <1>2, OtherSlot DEF TypeOK, JournalOK, PCs, ReconcileBlocked, Reconciling
  <2>2. Durable'
    BY <1>2 DEF Settled, Aside, Kept, OnTrial, Accepted, NotBlocked, BaseHeld, CommittedValid,
       ReconcileBlocked, Reconciling
  <2>3. Steps'
    BY <1>2 DEF StepsBefore, StepsForward, StepsBack, StepsFinal, ReconcileBlocked, Reconciling
  <2> QED
    BY <2>1, <2>2, <2>3
<1>3. CASE ReconcileCommitted
  <2>1. TypeOK'
    BY <1>3, OtherSlot DEF TypeOK, JournalOK, PCs, ReconcileCommitted, CommittedValid, Reconciling
  <2>2. Durable'
    BY <1>3 DEF Settled, Aside, Kept, OnTrial, Accepted, NotBlocked, BaseHeld, CommittedValid,
       ReconcileCommitted, Reconciling
  <2>3. Steps'
    BY <1>3 DEF StepsBefore, StepsForward, StepsBack, StepsFinal, ReconcileCommitted,
       CommittedValid, Reconciling
  <2> QED
    BY <2>1, <2>2, <2>3
<1>4. CASE ReconcileUnclaimed
  <2>1. Reads(journal', "idle", None, None, 0)
    BY <1>4, EntryFacts DEF TypeOK, JournalOK, Journal, States, Retryable, ReconcileUnclaimed,
       Reconciling
  <2>2. TypeOK'
    BY <1>4, <2>1, OtherSlot DEF TypeOK, JournalOK, PCs, ReconcileUnclaimed, Reconciling, Reads
  <2>3. Durable'
    BY <1>4, <2>1 DEF Settled, Aside, Kept, OnTrial, Accepted, NotBlocked, BaseHeld,
       CommittedValid, ReconcileUnclaimed, Reconciling, Reads
  <2>4. Steps'
    BY <1>4, <2>1, OtherSlot DEF TypeOK, JournalOK, StepsBefore, StepsForward, StepsBack,
       StepsFinal, ReconcileUnclaimed, Reconciling, Reads
  <2> QED
    BY <2>2, <2>3, <2>4
<1>5. CASE ReconcileClaimed
  <2>1. \/ \E r \in 0..1 : Condemned(Cand, claimed, r, "idle")
        \/ /\ Reads(journal', "rebuilding", Cand, claimed, 1)
           /\ pc' = "rebuild" /\ claimed \in sidecars
           /\ UNCHANGED <<after, moved>>
    BY <1>5, RetryWrites
  <2>2. TypeOK'
    BY <1>5, <2>1, OtherSlot DEF TypeOK, JournalOK, PCs, States, Journal, ReconcileClaimed,
       Reconciling, ClaimedId, Reads, Condemned
  <2>3. Durable'
    BY <1>5, <2>1 DEF Settled, Aside, Kept, OnTrial, Accepted, NotBlocked, BaseHeld,
       CommittedValid, ReconcileClaimed, Reconciling, ClaimedId, Reads, Condemned
  <2>4. Steps'
    BY <1>5, <2>1 DEF StepsBefore, StepsForward, StepsBack, StepsFinal, ReconcileClaimed,
       Reconciling, ClaimedId, Reads, Condemned
  <2> QED
    BY <2>2, <2>3, <2>4
<1>6. CASE ReconcileForeign
  <2>1. Reads(journal', "retry_blocked", Cand, journal.snap, journal.retry)
    BY <1>6, EntryFacts DEF TypeOK, JournalOK, Journal, States, Retryable, ReconcileForeign,
       Reconciling, Advance
  <2>2. TypeOK'
    BY <1>6, <2>1, OtherSlot DEF TypeOK, JournalOK, PCs, ReconcileForeign, Reconciling, Reads
  <2>3. Durable'
    BY <1>6, <2>1 DEF Settled, Aside, Kept, OnTrial, Accepted, NotBlocked, BaseHeld,
       CommittedValid, ReconcileForeign, Reconciling, Reads
  <2>4. Steps'
    BY <1>6, <2>1 DEF StepsBefore, StepsForward, StepsBack, StepsFinal, ReconcileForeign,
       Reconciling, Reads
  <2> QED
    BY <2>2, <2>3, <2>4
<1>7. CASE ReconcileExhausted
  <2>1. Condemned(Cand, journal.snap, 1, after)
    BY <1>7, QuarantineFacts DEF TypeOK, JournalOK, Journal, States, Retryable,
       ReconcileExhausted, Reconciling
  <2>2. TypeOK'
    BY <1>7, <2>1, OtherSlot DEF TypeOK, JournalOK, PCs, ReconcileExhausted, Reconciling, Reads,
       Condemned
  <2>3. Durable'
    BY <1>7, <2>1, OtherSlot DEF TypeOK, JournalOK, Settled, Aside, Kept, OnTrial, Accepted,
       NotBlocked, BaseHeld, CommittedValid, ReconcileExhausted, Reconciling, Reads, Condemned
  <2>4. Steps'
    BY <1>7, <2>1 DEF StepsBefore, StepsForward, StepsBack, StepsFinal, ReconcileExhausted,
       Reconciling, Reads, Condemned
  <2> QED
    BY <2>2, <2>3, <2>4
<1>8. CASE ReconcileRetry
  <2>1. Reads(journal', journal.state, Cand, journal.snap, 1) /\ pc' = "rebuild"
    BY <1>8, EntryFacts DEF TypeOK, JournalOK, Journal, States, Retryable, ReconcileRetry,
       Reconciling, RetryUsed, Kept
  <2>2. TypeOK'
    BY <1>8, <2>1, OtherSlot DEF TypeOK, JournalOK, PCs, ReconcileRetry, Reconciling, RetryUsed,
       Reads
  <2>3. Durable'
    BY <1>8, <2>1, OtherSlot DEF TypeOK, JournalOK, Settled, Aside, Kept, OnTrial, Accepted,
       NotBlocked, BaseHeld, CommittedValid, ReconcileRetry, Reconciling, RetryUsed, Reads
  <2>4. Steps'
    BY <1>8, <2>1 DEF StepsBefore, StepsForward, StepsBack, StepsFinal, ReconcileRetry,
       Reconciling, RetryUsed, Reads
  <2> QED
    BY <2>2, <2>3, <2>4
<1>9. CASE ReconcileRetireFails
  <2>1. TypeOK'
    BY <1>9, OtherSlot DEF TypeOK, JournalOK, PCs, ReconcileRetireFails, Reconciling
  <2>2. Durable'
    BY <1>9, OtherSlot DEF TypeOK, JournalOK, Settled, Aside, Kept, OnTrial, Accepted, NotBlocked,
       BaseHeld, CommittedValid, ReconcileRetireFails, Reconciling
  <2>3. Steps'
    BY <1>9 DEF StepsBefore, StepsForward, StepsBack, StepsFinal, ReconcileRetireFails,
       Reconciling
  <2> QED
    BY <2>1, <2>2, <2>3
<1>10. CASE ReconcileResume
  <2>1. TypeOK'
    BY <1>10, OtherSlot DEF TypeOK, JournalOK, PCs, ReconcileResume, Reconciling
  <2>2. Durable'
    BY <1>10 DEF Settled, Aside, Kept, OnTrial, Accepted, NotBlocked, BaseHeld, CommittedValid,
       ReconcileResume, Reconciling
  <2>3. Steps'
    BY <1>10 DEF StepsBefore, StepsForward, StepsBack, StepsFinal, ReconcileResume, Reconciling
  <2> QED
    BY <2>1, <2>2, <2>3
<1> QED
  BY <1>1, <1>2, <1>3, <1>4, <1>5, <1>6, <1>7, <1>8, <1>9, <1>10 DEF Reconcile

\* So does the release of a snapshot, up to the verified consumer, ...
LEMMA ReleaseKeeps == IInv /\ Release => IInv'
<1> SUFFICES ASSUME TypeOK, Durable, Steps, Release
             PROVE  TypeOK' /\ Durable' /\ Steps'
  BY DEF IInv
<1> USE DEF Durable, Steps
<1>1. CASE LookInVain
  <2>1. TypeOK'
    BY <1>1, OtherSlot DEF TypeOK, JournalOK, PCs, LookInVain
  <2>2. Durable'
    BY <1>1 DEF Settled, Aside, Kept, OnTrial, Accepted, NotBlocked, BaseHeld, CommittedValid,
       LookInVain
  <2>3. Steps'
    BY <1>1 DEF StepsBefore, StepsForward, StepsBack, StepsFinal, LookInVain
  <2> QED
    BY <2>1, <2>2, <2>3
<1>2. CASE Look
  <2>1. Reads(journal', "claiming", Candidate, None, 0)
    <3>1. Candidate \in Slots
      BY OtherSlot DEF TypeOK, Candidate
    <3> QED
      BY <1>2, <3>1, EntryFacts DEF TypeOK, Look, States, Retryable
  <2>2. TypeOK'
    BY <1>2, <2>1, OtherSlot DEF TypeOK, JournalOK, PCs, Look, Candidate, Reads
  <2>3. Durable'
    BY <1>2, <2>1, OtherSlot DEF TypeOK, JournalOK, Settled, Aside, Kept, OnTrial, Accepted,
       NotBlocked, BaseHeld, CommittedValid, StepsBefore, Look, Candidate, Reads
  <2>4. Steps'
    BY <1>2, <2>1, OtherSlot DEF TypeOK, JournalOK, OnTrial, Accepted, BaseHeld, StepsBefore,
       StepsForward, StepsBack, StepsFinal, Look, Candidate, Reads
  <2> QED
    BY <2>2, <2>3, <2>4
<1>3. CASE Claim
  <2>1. TypeOK'
    BY <1>3, OtherSlot DEF TypeOK, JournalOK, PCs, Claim
  <2>2. Durable'
    BY <1>3 DEF Settled, Aside, Kept, OnTrial, Accepted, NotBlocked, BaseHeld, CommittedValid,
       StepsBefore, Claim
  <2>3. Steps'
    BY <1>3 DEF StepsBefore, StepsForward, StepsBack, StepsFinal, Claim
  <2> QED
    BY <2>1, <2>2, <2>3
<1>4. CASE Select
  <2>1. \/ Condemned(Cand, claimed, 0, "idle")
        \/ /\ Reads(journal', "rebuilding", Cand, claimed, 0)
           /\ pc' = "rebuild" /\ claimed \in sidecars
           /\ UNCHANGED <<after, moved>>
    BY <1>4, SelectWrites
  <2>2. TypeOK'
    BY <1>4, <2>1, OtherSlot DEF TypeOK, JournalOK, PCs, States, Journal, StepsBefore, Select,
       ClaimedId, Reads, Condemned
  <2>3. Durable'
    BY <1>4, <2>1 DEF Settled, Aside, Kept, OnTrial, Accepted, NotBlocked, BaseHeld,
       CommittedValid, StepsBefore, Select, ClaimedId, Reads, Condemned
  <2>4. Steps'
    BY <1>4, <2>1 DEF StepsBefore, StepsForward, StepsBack, StepsFinal, Select, ClaimedId, Reads,
       Condemned
  <2> QED
    BY <2>2, <2>3, <2>4
<1>5. CASE Materialize
  <2>1. TypeOK'
    BY <1>5, OtherSlot DEF TypeOK, JournalOK, PCs, StepsBefore, Materialize
  <2>2. Durable'
    BY <1>5, OtherSlot DEF TypeOK, JournalOK, Settled, Aside, Kept, OnTrial, Accepted, NotBlocked,
       BaseHeld, CommittedValid, StepsBefore, Materialize
  <2>3. Steps'
    BY <1>5, OtherSlot DEF TypeOK, JournalOK, Settled, Aside, Kept, StepsBefore, StepsForward,
       StepsBack, StepsFinal, Materialize
  <2> QED
    BY <2>1, <2>2, <2>3
<1>6. CASE RejectBase
  <2>1. Condemned(Cand, journal.snap, journal.retry, "idle")
    BY <1>6, QuarantineFacts DEF TypeOK, JournalOK, Journal, States, Retryable, RejectBase,
       StepsBefore
  <2>2. TypeOK'
    BY <1>6, <2>1, OtherSlot DEF TypeOK, JournalOK, PCs, StepsBefore, RejectBase, Reads, Condemned
  <2>3. Durable'
    BY <1>6, <2>1 DEF Settled, Aside, Kept, OnTrial, Accepted, NotBlocked, BaseHeld,
       CommittedValid, StepsBefore, RejectBase, Reads, Condemned
  <2>4. Steps'
    BY <1>6, <2>1 DEF StepsBefore, StepsForward, StepsBack, StepsFinal, RejectBase, Reads,
       Condemned
  <2> QED
    BY <2>2, <2>3, <2>4
<1>7. CASE VerifyCandidate
  <2>1. /\ Reads(journal', "prepared", Cand, journal.snap, journal.retry)
        /\ slotDb' = [slotDb EXCEPT ![Cand] = [snap |-> journal.snap, ready |-> TRUE]]
    BY <1>7, EntryFacts DEF TypeOK, JournalOK, Journal, States, Retryable, VerifyCandidate,
       Advance, StepsBefore
  <2>2. TypeOK'
    BY <1>7, <2>1, OtherSlot DEF TypeOK, JournalOK, PCs, StepsBefore, VerifyCandidate, Reads
  <2>3. Durable'
    BY <1>7, <2>1, OtherSlot DEF TypeOK, JournalOK, Settled, Aside, Kept, OnTrial, Accepted,
       NotBlocked, BaseHeld, CommittedValid, StepsBefore, VerifyCandidate, Reads
  <2>4. StepsBefore'
    <3>1. Cand \in Slots
      BY <1>7 DEF TypeOK, JournalOK, Journal, StepsBefore, VerifyCandidate
    <3>2. slotDb'[Cand] = [snap |-> journal.snap, ready |-> TRUE]
      BY <2>1, <3>1 DEF TypeOK
    <3>3. pc' = "restart" /\ journal'.state = "prepared" /\ journal'.port = Cand
          /\ journal'.snap = journal.snap
      BY <1>7, <2>1 DEF VerifyCandidate, Reads
    <3> QED
      BY <3>2, <3>3 DEF StepsBefore
  <2>5. Steps'
    BY <1>7, <2>1, <2>4, OtherSlot DEF StepsForward, StepsBack, StepsFinal, VerifyCandidate, Reads
  <2> QED
    BY <2>2, <2>3, <2>5
<1>8. CASE RejectCandidate
  <2>1. Condemned(Cand, journal.snap, journal.retry, "idle")
    BY <1>8, QuarantineFacts DEF TypeOK, JournalOK, Journal, States, Retryable, RejectCandidate,
       StepsBefore
  <2>2. TypeOK'
    BY <1>8, <2>1, OtherSlot DEF TypeOK, JournalOK, PCs, StepsBefore, RejectCandidate, Reads,
       Condemned
  <2>3. Durable'
    BY <1>8, <2>1 DEF Settled, Aside, Kept, OnTrial, Accepted, NotBlocked, BaseHeld,
       CommittedValid, StepsBefore, RejectCandidate, Reads, Condemned
  <2>4. Steps'
    BY <1>8, <2>1 DEF StepsBefore, StepsForward, StepsBack, StepsFinal, RejectCandidate, Reads,
       Condemned
  <2> QED
    BY <2>2, <2>3, <2>4
<1>9. CASE Restart
  <2>1. TypeOK'
    BY <1>9, OtherSlot DEF TypeOK, JournalOK, PCs, StepsBefore, Restart
  <2>2. Durable'
    BY <1>9 DEF Settled, Aside, Kept, OnTrial, Accepted, NotBlocked, BaseHeld, CommittedValid,
       Restart
  <2>3. Steps'
    BY <1>9 DEF StepsBefore, StepsForward, StepsBack, StepsFinal, Restart
  <2> QED
    BY <2>1, <2>2, <2>3
<1>10. CASE Enable
  <2>1. TypeOK'
    BY <1>10, OtherSlot DEF TypeOK, JournalOK, PCs, StepsBefore, Enable
  <2>2. Durable'
    BY <1>10 DEF Settled, Aside, Kept, OnTrial, Accepted, NotBlocked, BaseHeld, CommittedValid,
       Enable
  <2>3. Steps'
    BY <1>10 DEF StepsBefore, StepsForward, StepsBack, StepsFinal, Enable
  <2> QED
    BY <2>1, <2>2, <2>3
<1>11. CASE Probe
  <2>1. TypeOK'
    BY <1>11, OtherSlot DEF TypeOK, JournalOK, PCs, Probe, Alike
  <2>2. Durable'
    BY <1>11 DEF Settled, Aside, Kept, OnTrial, Accepted, NotBlocked, BaseHeld, CommittedValid,
       Probe, Alike
  <2>3. Steps'
    BY <1>11 DEF StepsBefore, StepsForward, StepsBack, StepsFinal, Probe, Alike
  <2> QED
    BY <2>1, <2>2, <2>3
<1>12. CASE RejectProbe
  <2>1. Condemned(Cand, journal.snap, journal.retry, "idle")
    BY <1>12, QuarantineFacts DEF TypeOK, JournalOK, Journal, States, Retryable, RejectProbe,
       StepsBefore
  <2>2. TypeOK'
    BY <1>12, <2>1, OtherSlot DEF TypeOK, JournalOK, PCs, StepsBefore, RejectProbe, Reads,
       Condemned
  <2>3. Durable'
    BY <1>12, <2>1 DEF Settled, Aside, Kept, OnTrial, Accepted, NotBlocked, BaseHeld,
       CommittedValid, StepsBefore, RejectProbe, Reads, Condemned
  <2>4. Steps'
    BY <1>12, <2>1 DEF StepsBefore, StepsForward, StepsBack, StepsFinal, RejectProbe, Reads,
       Condemned
  <2> QED
    BY <2>2, <2>3, <2>4
<1>13. CASE Capture
  <2>1. /\ Reads(journal', "switching", Cand, journal.snap, journal.retry)
        /\ journal'.oracle = [db |-> slotDb[Old].snap, basis |-> basis, receipt |-> receipt,
                               results |-> Shown]
        /\ pc' = "point"
        /\ UNCHANGED after
    BY <1>13, PendingFacts, OtherSlot DEF TypeOK, JournalOK, Journal, States, Retryable, Capture,
       EnterPending, PendingValid, Kept, StepsBefore, Oracle, Shown
  <2>2. TypeOK'
    BY <1>13, <2>1, OtherSlot DEF TypeOK, JournalOK, PCs, StepsBefore, Capture, Shown, Reads
  <2>3. Durable'
    BY <1>13, <2>1 DEF Settled, Aside, Kept, OnTrial, Accepted, NotBlocked, BaseHeld,
       CommittedValid, StepsBefore, Capture, Shown, Reads
  <2>4. Steps'
    BY <1>13, <2>1, OtherSlot DEF TypeOK, JournalOK, Settled, Aside, Kept, StepsBefore,
       StepsForward, StepsBack, StepsFinal, Capture, Shown, Reads
  <2> QED
    BY <2>2, <2>3, <2>4
<1>14. CASE GiveUp
  <2>1. Reads(journal', "prepared", Cand, journal.snap, journal.retry)
    BY <1>14, EntryFacts DEF TypeOK, JournalOK, Journal, States, Retryable, GiveUp, Advance,
       StepsBefore
  <2>2. TypeOK'
    BY <1>14, <2>1, OtherSlot DEF TypeOK, JournalOK, PCs, StepsBefore, GiveUp, Reads
  <2>3. Durable'
    BY <1>14, <2>1, OtherSlot DEF TypeOK, JournalOK, Settled, Aside, Kept, OnTrial, Accepted,
       NotBlocked, BaseHeld, CommittedValid, StepsBefore, GiveUp, Reads
  <2>4. Steps'
    BY <1>14, <2>1 DEF StepsBefore, StepsForward, StepsBack, StepsFinal, GiveUp, Reads
  <2> QED
    BY <2>2, <2>3, <2>4
<1>15. CASE Point
  <2>1. TypeOK'
    BY <1>15, OtherSlot DEF TypeOK, JournalOK, PCs, StepsForward, Point, WriteInclude
  <2>2. Durable'
    BY <1>15 DEF Settled, Aside, Kept, OnTrial, Accepted, NotBlocked, BaseHeld, CommittedValid,
       StepsForward, Point, WriteInclude
  <2>3. Steps'
    BY <1>15 DEF StepsBefore, StepsForward, StepsBack, StepsFinal, Point, WriteInclude
  <2> QED
    BY <2>1, <2>2, <2>3
<1>16. CASE Reload
  <2>1. TypeOK'
    BY <1>16, OtherSlot DEF TypeOK, JournalOK, Settled, Aside, Kept, OnTrial, Accepted,
       NotBlocked, BaseHeld, StepsBefore, StepsForward, StepsBack, StepsFinal, CommittedValid,
       Reload, Alike, ReloadNginx, PCs, States, Journal, Receipt
  <2>2. Durable'
    BY <1>16 DEF Settled, Aside, Kept, OnTrial, Accepted, NotBlocked, BaseHeld, CommittedValid,
       StepsForward, Reload, Alike, ReloadNginx
  <2>3. Steps'
    BY <1>16, OtherSlot DEF TypeOK, JournalOK, OnTrial, Accepted, BaseHeld, StepsBefore,
       StepsForward, StepsBack, StepsFinal, Reload, Alike, ReloadNginx
  <2> QED
    BY <2>1, <2>2, <2>3
<1>17. CASE Switched
  <2>1. /\ Reads(journal', "switched", Cand, journal.snap, journal.retry)
        /\ journal'.oracle = journal.oracle
        /\ pc' = "gate"
        /\ UNCHANGED after
    BY <1>17, PendingFacts, RollbackValid DEF TypeOK, JournalOK, Journal, States, Retryable,
       Switched, EnterPending, StepsForward
  <2>2. TypeOK'
    BY <1>17, <2>1, OtherSlot DEF TypeOK, JournalOK, PCs, StepsForward, Switched, Reads
  <2>3. Durable'
    BY <1>17, <2>1 DEF Settled, Aside, Kept, OnTrial, Accepted, NotBlocked, BaseHeld,
       CommittedValid, StepsForward, Switched, Reads
  <2>4. Steps'
    BY <1>17, <2>1 DEF StepsBefore, StepsForward, StepsBack, StepsFinal, Switched, Reads
  <2> QED
    BY <2>2, <2>3, <2>4
<1>18. CASE Gate
  <2>1. /\ Reads(journal', "old_stopping", Cand, journal.snap, journal.retry)
        /\ journal'.oracle = journal.oracle
        /\ pc' = "stopOld"
        /\ UNCHANGED after
    BY <1>18, PendingFacts, RollbackValid DEF TypeOK, JournalOK, Journal, States, Retryable, Gate,
       EnterPending, StepsForward
  <2>2. TypeOK'
    BY <1>18, <2>1, OtherSlot DEF TypeOK, JournalOK, PCs, StepsForward, Gate, Shown, Alike,
       ShowsCandidate, Reads
  <2>3. Durable'
    BY <1>18, <2>1 DEF Settled, Aside, Kept, OnTrial, Accepted, NotBlocked, BaseHeld,
       CommittedValid, StepsForward, Gate, Shown, Alike, ShowsCandidate, Reads
  <2>4. Steps'
    BY <1>18, <2>1, OtherSlot DEF TypeOK, JournalOK, OnTrial, Accepted, BaseHeld, StepsBefore,
       StepsForward, StepsBack, StepsFinal, Gate, Shown, Alike, ShowsCandidate, Reads
  <2> QED
    BY <2>2, <2>3, <2>4
<1>19. CASE StopOld
  <2>1. TypeOK'
    BY <1>19, OtherSlot DEF TypeOK, JournalOK, PCs, StopOld
  <2>2. Durable'
    BY <1>19, OtherSlot DEF TypeOK, JournalOK, Settled, Aside, Kept, OnTrial, Accepted,
       NotBlocked, BaseHeld, CommittedValid, StepsForward, StopOld
  <2>3. Steps'
    BY <1>19, OtherSlot DEF TypeOK, JournalOK, StepsBefore, StepsForward, StepsBack, StepsFinal,
       StopOld
  <2> QED
    BY <2>1, <2>2, <2>3
<1>20. CASE Prove
  <2>1. /\ Reads(journal', "consumer_verified", Cand, journal.snap, journal.retry)
        /\ pc' = "finalize"
        /\ UNCHANGED after
    BY <1>20, EntryFacts DEF TypeOK, JournalOK, Journal, States, Retryable, Prove, Advance,
       AuthorityValid, StepsForward, Kept
  <2>2. TypeOK'
    BY <1>20, <2>1, OtherSlot DEF TypeOK, JournalOK, PCs, StepsForward, Prove, Shown, Alike,
       ShowsCandidate, Reads
  <2>3. Durable'
    BY <1>20, <2>1 DEF Settled, Aside, Kept, OnTrial, Accepted, NotBlocked, BaseHeld,
       CommittedValid, StepsForward, Prove, Shown, Alike, ShowsCandidate, Reads
  <2>4. Steps'
    BY <1>20, <2>1 DEF StepsBefore, StepsForward, StepsBack, StepsFinal, Prove, Shown, Alike,
       ShowsCandidate, Reads
  <2> QED
    BY <2>2, <2>3, <2>4
<1>21. CASE Retreat
  <2>1. TypeOK'
    BY <1>21, OtherSlot DEF TypeOK, JournalOK, PCs, Retreat
  <2>2. Durable'
    BY <1>21 DEF Settled, Aside, Kept, OnTrial, Accepted, NotBlocked, BaseHeld, CommittedValid,
       Retreat
  <2>3. Steps'
    BY <1>21 DEF StepsBefore, StepsForward, StepsBack, StepsFinal, Retreat
  <2> QED
    BY <2>1, <2>2, <2>3
<1> QED
  BY <1>1, <1>2, <1>3, <1>4, <1>5, <1>6, <1>7, <1>8, <1>9, <1>10, <1>11, <1>12, <1>13, <1>14,
     <1>15, <1>16, <1>17, <1>18, <1>19, <1>20, <1>21 DEF Release

\* ... its rollback and its quarantine, ...
LEMMA RecoverKeeps == IInv /\ Recover => IInv'
<1> SUFFICES ASSUME TypeOK, Durable, Steps, Recover
             PROVE  TypeOK' /\ Durable' /\ Steps'
  BY DEF IInv
<1> USE DEF Durable, Steps
<1>1. CASE Rollback
  <2>1. RestartOld /\ pc' = "back" /\ UNCHANGED <<after, journal>>
    BY <1>1, RollbackValid DEF TypeOK, JournalOK, Journal, States, Retryable, Rollback, StepsBack
  <2>2. TypeOK'
    BY <1>1, <2>1, OtherSlot DEF TypeOK, JournalOK, PCs, StepsBack, Rollback, RestartOld, Reads
  <2>3. Durable'
    BY <1>1, <2>1 DEF Settled, Aside, Kept, OnTrial, Accepted, NotBlocked, BaseHeld,
       CommittedValid, Rollback, RestartOld, Reads
  <2>4. Steps'
    BY <1>1, <2>1 DEF StepsBefore, StepsForward, StepsBack, StepsFinal, Rollback, RestartOld,
       Reads
  <2> QED
    BY <2>2, <2>3, <2>4
<1>2. CASE Back
  <2>1. TypeOK'
    BY <1>2, OtherSlot DEF TypeOK, JournalOK, PCs, StepsBack, Back, WriteInclude
  <2>2. Durable'
    BY <1>2 DEF Settled, Aside, Kept, OnTrial, Accepted, NotBlocked, BaseHeld, CommittedValid,
       StepsBack, Back, WriteInclude
  <2>3. Steps'
    BY <1>2 DEF StepsBefore, StepsForward, StepsBack, StepsFinal, Back, WriteInclude
  <2> QED
    BY <2>1, <2>2, <2>3
<1>3. CASE ReloadBack
  <2>1. TypeOK'
    BY <1>3, OtherSlot DEF TypeOK, JournalOK, Settled, Aside, Kept, OnTrial, Accepted, NotBlocked,
       BaseHeld, StepsBefore, StepsForward, StepsBack, StepsFinal, CommittedValid, ReloadBack,
       Alike, ReloadNginx, PCs, States, Journal, Receipt
  <2>2. Durable'
    BY <1>3 DEF Settled, Aside, Kept, OnTrial, Accepted, NotBlocked, BaseHeld, CommittedValid,
       StepsBack, ReloadBack, Alike, ReloadNginx
  <2>3. Steps'
    BY <1>3, OtherSlot DEF TypeOK, JournalOK, OnTrial, Accepted, BaseHeld, StepsBefore,
       StepsForward, StepsBack, StepsFinal, ReloadBack, Alike, ReloadNginx
  <2> QED
    BY <2>1, <2>2, <2>3
<1>4. CASE Baseline
  <2>1. TypeOK'
    BY <1>4, OtherSlot DEF TypeOK, JournalOK, PCs, Baseline, Shown, Alike, BaselineHolds
  <2>2. Durable'
    BY <1>4, OtherSlot DEF TypeOK, JournalOK, Settled, Aside, Kept, OnTrial, Accepted, NotBlocked,
       BaseHeld, CommittedValid, StepsBack, Baseline, Shown, Alike, BaselineHolds
  <2>3. Steps'
    BY <1>4, OtherSlot DEF TypeOK, JournalOK, OnTrial, Accepted, BaseHeld, StepsBefore,
       StepsForward, StepsBack, StepsFinal, Baseline, Shown, Alike, BaselineHolds
  <2> QED
    BY <2>1, <2>2, <2>3
<1>5. CASE Condemn
  <2>1. Condemned(Cand, journal.snap, journal.retry, after)
    BY <1>5, QuarantineFacts DEF TypeOK, JournalOK, Journal, States, Retryable, Condemn, StepsBack
  <2>2. TypeOK'
    BY <1>5, <2>1, OtherSlot DEF TypeOK, JournalOK, PCs, StepsBack, Condemn, Reads, Condemned
  <2>3. Durable'
    BY <1>5, <2>1 DEF Settled, Aside, Kept, OnTrial, Accepted, NotBlocked, BaseHeld,
       CommittedValid, StepsBack, Condemn, Reads, Condemned
  <2>4. Steps'
    BY <1>5, <2>1 DEF StepsBefore, StepsForward, StepsBack, StepsFinal, Condemn, Reads, Condemned
  <2> QED
    BY <2>2, <2>3, <2>4
<1>6. CASE RollbackFails
  <2>1. /\ Reads(journal', "rollback_failed", Cand, journal.snap, journal.retry)
        /\ journal'.oracle = journal.oracle
    BY <1>6, PendingFacts, RollbackValid DEF TypeOK, JournalOK, Journal, States, Retryable,
       RollbackFails, StepsBack
  <2>2. TypeOK'
    BY <1>6, <2>1, OtherSlot DEF TypeOK, JournalOK, PCs, StepsBack, RollbackFails, Shown, Alike,
       BaselineHolds, Reads
  <2>3. Durable'
    BY <1>6, <2>1, OtherSlot DEF TypeOK, JournalOK, Settled, Aside, Kept, OnTrial, Accepted,
       NotBlocked, BaseHeld, CommittedValid, StepsBack, RollbackFails, Shown, Alike,
       BaselineHolds, Reads
  <2>4. Steps'
    BY <1>6, <2>1 DEF StepsBefore, StepsForward, StepsBack, StepsFinal, RollbackFails, Shown,
       Alike, BaselineHolds, Reads
  <2> QED
    BY <2>2, <2>3, <2>4
<1>7. CASE BeginQuarantine
  <2>1. TypeOK'
    BY <1>7, OtherSlot DEF TypeOK, JournalOK, PCs, BeginQuarantine
  <2>2. Durable'
    BY <1>7, OtherSlot DEF TypeOK, JournalOK, Settled, Aside, Kept, OnTrial, Accepted, NotBlocked,
       BaseHeld, CommittedValid, StepsBack, BeginQuarantine
  <2>3. Steps'
    BY <1>7 DEF StepsBefore, StepsForward, StepsBack, StepsFinal, BeginQuarantine
  <2> QED
    BY <2>1, <2>2, <2>3
<1>8. CASE QuarantineRetireFails
  <2>1. TypeOK'
    BY <1>8, OtherSlot DEF TypeOK, JournalOK, PCs, QuarantineRetireFails
  <2>2. Durable'
    BY <1>8, OtherSlot DEF TypeOK, JournalOK, Settled, Aside, Kept, OnTrial, Accepted, NotBlocked,
       BaseHeld, CommittedValid, StepsBack, QuarantineRetireFails
  <2>3. Steps'
    BY <1>8 DEF StepsBefore, StepsForward, StepsBack, StepsFinal, QuarantineRetireFails
  <2> QED
    BY <2>1, <2>2, <2>3
<1>9. CASE Conclude
  <2>1. Reads(journal', "quarantined", None, journal.snap, 0)
    BY <1>9, EntryFacts DEF TypeOK, JournalOK, Journal, States, Retryable, Conclude
  <2>2. TypeOK'
    BY <1>9, <2>1, OtherSlot DEF TypeOK, JournalOK, PCs, Conclude, Reads
  <2>3. Durable'
    BY <1>9, <2>1 DEF Settled, Aside, Kept, OnTrial, Accepted, NotBlocked, BaseHeld,
       CommittedValid, StepsBack, Conclude, Reads
  <2>4. Steps'
    BY <1>9, <2>1, OtherSlot DEF TypeOK, JournalOK, StepsBefore, StepsForward, StepsBack,
       StepsFinal, Conclude, Reads
  <2> QED
    BY <2>2, <2>3, <2>4
<1>10. ASSUME NEW label \in Labels, SkipMove(label)
     PROVE  TypeOK' /\ Durable' /\ Steps'
  <2>1. TypeOK'
    BY <1>10, OtherSlot DEF TypeOK, JournalOK, PCs, SkipMove, Present, NextMove
  <2>2. Durable'
    BY <1>10 DEF Settled, Aside, Kept, OnTrial, Accepted, NotBlocked, BaseHeld, CommittedValid,
       SkipMove, Present, NextMove
  <2>3. Steps'
    BY <1>10 DEF StepsBefore, StepsForward, StepsBack, StepsFinal, SkipMove, Present, NextMove
  <2> QED
    BY <2>1, <2>2, <2>3
<1>11. ASSUME NEW label \in Labels, Move(label)
     PROVE  TypeOK' /\ Durable' /\ Steps'
  <2>1. TypeOK'
    <3>1. journal.port \in Slots
      BY <1>11 DEF TypeOK, JournalOK, Journal, StepsBack, Move
    <3>2. slotDb' \in [Slots -> [snap : Snap, ready : BOOLEAN]]
      BY <1>11, <3>1 DEF TypeOK, Move
    <3>3. claimed' \in Snap /\ sidecars' \subseteq Snapshots /\ moved' \subseteq Labels
      BY <1>11 DEF TypeOK, Move
    <3>4. pc' \in PCs
      BY <1>11 DEF PCs, Move, NextMove
    <3> QED
      BY <1>11, <3>2, <3>3, <3>4 DEF TypeOK, JournalOK, Move
  <2>2. Durable'
    BY <1>11, OtherSlot DEF TypeOK, JournalOK, Settled, Aside, Kept, OnTrial, Accepted,
       NotBlocked, BaseHeld, CommittedValid, StepsBack, Move, Present, NextMove
  <2>3. Steps'
    BY <1>11 DEF StepsBefore, StepsForward, StepsBack, StepsFinal, Move, Present, NextMove
  <2> QED
    BY <2>1, <2>2, <2>3
<1>12. ASSUME NEW label \in Labels, MoveRefused(label)
     PROVE  TypeOK' /\ Durable' /\ Steps'
  <2>1. TypeOK'
    BY <1>12, OtherSlot DEF TypeOK, JournalOK, PCs, MoveRefused, Present
  <2>2. Durable'
    BY <1>12 DEF Settled, Aside, Kept, OnTrial, Accepted, NotBlocked, BaseHeld, CommittedValid,
       MoveRefused, Present
  <2>3. Steps'
    BY <1>12 DEF StepsBefore, StepsForward, StepsBack, StepsFinal, MoveRefused, Present
  <2> QED
    BY <2>1, <2>2, <2>3
<1> QED
  BY <1>1, <1>2, <1>3, <1>4, <1>5, <1>6, <1>7, <1>8, <1>9, <1>10, <1>11, <1>12 DEF Recover

\* ... and its finalization.
LEMMA FinishKeeps == IInv /\ Finish => IInv'
<1> SUFFICES ASSUME TypeOK, Durable, Steps, Finish
             PROVE  TypeOK' /\ Durable' /\ Steps'
  BY DEF IInv
<1> USE DEF Durable, Steps
<1>1. CASE Finalize
  <2>1. /\ running' = running \cup {Cand}
        /\ enabled' = enabled \cup {Cand}
        /\ pc' = "disableOld"
        /\ UNCHANGED <<after, journal>>
    BY <1>1 DEF TypeOK, JournalOK, Journal, States, Retryable, Finalize, AuthorityValid,
       StepsFinal, Kept, Accepted
  <2>2. TypeOK'
    BY <1>1, <2>1, OtherSlot DEF TypeOK, JournalOK, PCs, StepsFinal, Finalize, Reads
  <2>3. Durable'
    BY <1>1, <2>1 DEF Settled, Aside, Kept, OnTrial, Accepted, NotBlocked, BaseHeld,
       CommittedValid, Finalize, Reads
  <2>4. Steps'
    BY <1>1, <2>1 DEF StepsBefore, StepsForward, StepsBack, StepsFinal, Finalize, Reads
  <2> QED
    BY <2>2, <2>3, <2>4
<1>2. CASE DisableOld
  <2>1. TypeOK'
    BY <1>2, OtherSlot DEF TypeOK, JournalOK, PCs, DisableOld
  <2>2. Durable'
    BY <1>2, OtherSlot DEF TypeOK, JournalOK, Settled, Aside, Kept, OnTrial, Accepted, NotBlocked,
       BaseHeld, CommittedValid, StepsFinal, DisableOld
  <2>3. Steps'
    BY <1>2 DEF StepsBefore, StepsForward, StepsBack, StepsFinal, DisableOld
  <2> QED
    BY <2>1, <2>2, <2>3
<1>3. CASE FinalizeFails
  <2>1. TypeOK'
    BY <1>3, OtherSlot DEF TypeOK, JournalOK, PCs, FinalizeFails
  <2>2. Durable'
    BY <1>3 DEF Settled, Aside, Kept, OnTrial, Accepted, NotBlocked, BaseHeld, CommittedValid,
       FinalizeFails
  <2>3. Steps'
    BY <1>3 DEF StepsBefore, StepsForward, StepsBack, StepsFinal, FinalizeFails
  <2> QED
    BY <2>1, <2>2, <2>3
<1>4. CASE DropOld
  <2>1. TypeOK'
    BY <1>4, OtherSlot DEF TypeOK, JournalOK, PCs, DropOld
  <2>2. Durable'
    BY <1>4, OtherSlot DEF TypeOK, JournalOK, Settled, Aside, Kept, OnTrial, Accepted, NotBlocked,
       BaseHeld, CommittedValid, StepsFinal, DropOld
  <2>3. Steps'
    BY <1>4 DEF StepsBefore, StepsForward, StepsBack, StepsFinal, DropOld
  <2> QED
    BY <2>1, <2>2, <2>3
<1>5. CASE AdvanceBasis
  <2>1. TypeOK'
    BY <1>5, OtherSlot DEF TypeOK, JournalOK, PCs, AdvanceBasis
  <2>2. Durable'
    BY <1>5 DEF Settled, Aside, Kept, OnTrial, Accepted, NotBlocked, BaseHeld, CommittedValid,
       StepsFinal, AdvanceBasis
  <2>3. Steps'
    BY <1>5, OtherSlot DEF TypeOK, JournalOK, Settled, Aside, Kept, StepsBefore, StepsForward,
       StepsBack, StepsFinal, AdvanceBasis
  <2> QED
    BY <2>1, <2>2, <2>3
<1>6. CASE WriteReceipt
  <2>1. TypeOK'
    BY <1>6, OtherSlot DEF TypeOK, JournalOK, Settled, Aside, Kept, OnTrial, Accepted, NotBlocked,
       BaseHeld, StepsBefore, StepsForward, StepsBack, StepsFinal, CommittedValid, WriteReceipt,
       PCs, States, Journal, Receipt
  <2>2. Durable'
    BY <1>6 DEF Settled, Aside, Kept, OnTrial, Accepted, NotBlocked, BaseHeld, CommittedValid,
       StepsFinal, WriteReceipt
  <2>3. Steps'
    BY <1>6 DEF StepsBefore, StepsForward, StepsBack, StepsFinal, WriteReceipt
  <2> QED
    BY <2>1, <2>2, <2>3
<1>7. CASE Commit
  <2>1. Reads(journal', "committed", Cand, journal.snap, 0)
    BY <1>7, EntryFacts DEF TypeOK, JournalOK, Journal, States, Retryable, Commit, StepsFinal
  <2>2. TypeOK'
    BY <1>7, <2>1, OtherSlot DEF TypeOK, JournalOK, PCs, StepsFinal, Commit, Reads
  <2>3. Durable'
    BY <1>7, <2>1 DEF Settled, Aside, Kept, OnTrial, Accepted, NotBlocked, BaseHeld,
       CommittedValid, StepsFinal, Commit, Reads
  <2>4. Steps'
    BY <1>7, <2>1 DEF StepsBefore, StepsForward, StepsBack, StepsFinal, Commit, Reads
  <2> QED
    BY <2>2, <2>3, <2>4
<1>8. CASE SweepBase
  <2>1. TypeOK'
    BY <1>8, OtherSlot DEF TypeOK, JournalOK, PCs, SweepBase
  <2>2. Durable'
    BY <1>8 DEF Settled, Aside, Kept, OnTrial, Accepted, NotBlocked, BaseHeld, CommittedValid,
       StepsFinal, SweepBase
  <2>3. Steps'
    BY <1>8 DEF StepsBefore, StepsForward, StepsBack, StepsFinal, SweepBase
  <2> QED
    BY <2>1, <2>2, <2>3
<1>9. CASE SweepManifest
  <2>1. TypeOK'
    BY <1>9, OtherSlot DEF TypeOK, JournalOK, PCs, SweepManifest
  <2>2. Durable'
    BY <1>9 DEF Settled, Aside, Kept, OnTrial, Accepted, NotBlocked, BaseHeld, CommittedValid,
       StepsFinal, SweepManifest
  <2>3. Steps'
    BY <1>9, OtherSlot DEF TypeOK, JournalOK, StepsBefore, StepsForward, StepsBack, StepsFinal,
       SweepManifest
  <2> QED
    BY <2>1, <2>2, <2>3
<1> QED
  BY <1>1, <1>2, <1>3, <1>4, <1>5, <1>6, <1>7, <1>8, <1>9 DEF Finish

\* A start, a crash, a reboot and an upgrade preserve it.
LEMMA EnvironmentKeeps == IInv /\ (Start \/ Crash \/ Reboot \/ Upgrade) => IInv'
<1> SUFFICES ASSUME TypeOK, Durable, Steps, Start \/ Crash \/ Reboot \/ Upgrade
             PROVE  TypeOK' /\ Durable' /\ Steps'
  BY DEF IInv
<1> USE DEF Durable, Steps
<1>1. CASE Start
  <2>1. TypeOK'
    BY <1>1, OtherSlot DEF TypeOK, JournalOK, PCs, Start
  <2>2. Durable'
    BY <1>1 DEF Settled, Aside, Kept, OnTrial, Accepted, NotBlocked, BaseHeld, CommittedValid,
       Start
  <2>3. Steps'
    BY <1>1 DEF StepsBefore, StepsForward, StepsBack, StepsFinal, Start
  <2> QED
    BY <2>1, <2>2, <2>3
<1>2. CASE Crash
  <2>1. TypeOK'
    BY <1>2, OtherSlot DEF TypeOK, JournalOK, PCs, Crash
  <2>2. Durable'
    BY <1>2 DEF Settled, Aside, Kept, OnTrial, Accepted, NotBlocked, BaseHeld, CommittedValid,
       Crash
  <2>3. Steps'
    BY <1>2 DEF StepsBefore, StepsForward, StepsBack, StepsFinal, Crash
  <2> QED
    BY <2>1, <2>2, <2>3
<1>3. CASE Reboot
  <2>1. TypeOK'
    BY <1>3, OtherSlot DEF TypeOK, JournalOK, PCs, Reboot
  <2>2. Durable'
    BY <1>3, OtherSlot DEF TypeOK, JournalOK, Settled, Aside, Kept, OnTrial, Accepted, NotBlocked,
       BaseHeld, CommittedValid, Reboot
  <2>3. Steps'
    BY <1>3 DEF StepsBefore, StepsForward, StepsBack, StepsFinal, Reboot
  <2> QED
    BY <2>1, <2>2, <2>3
<1>4. CASE Upgrade
  <2>1. TypeOK'
    BY <1>4, OtherSlot DEF TypeOK, JournalOK, PCs, Upgrade
  <2>2. Durable'
    BY <1>4 DEF Settled, Aside, Kept, OnTrial, Accepted, NotBlocked, BaseHeld, CommittedValid,
       Upgrade
  <2>3. Steps'
    BY <1>4 DEF StepsBefore, StepsForward, StepsBack, StepsFinal, Upgrade
  <2> QED
    BY <2>1, <2>2, <2>3
<1> QED
  BY <1>1, <1>2, <1>3, <1>4

-----------------------------------------------------------------------------
(* The invariant holds of every behaviour *)

\* The committed installation satisfies it.
LEMMA InitHolds == Init => IInv
<1> SUFFICES ASSUME Init PROVE IInv
  OBVIOUS
<1>1. TypeOK
  <2>1. JournalOK
    BY DEF Init, JournalOK, Journal, States, Oracle, Intent, NoOracle, NoIntent
  <2>2. slotDb \in [Slots -> [snap : Snap, ready : BOOLEAN]]
    BY DEF Init
  <2>3. receipt \in Receipt
    BY DEF Init, Receipt
  <2>4. include \in Slots /\ route \in Slots /\ running \subseteq Slots /\ enabled \subseteq Slots
    BY DEF Init
  <2>5. /\ pushes \in 0..MaxPush /\ verifier \in 0..MaxUpgrade
        /\ crashes \in 0..MaxCrash /\ failures \in 0..MaxFailure /\ attempts \in Nat
    BY DEF Init
  <2>6. /\ staged \in Snap /\ incoming \in Snap /\ claimed \in Snap /\ sidecars \subseteq Snapshots
        /\ basis \in Snap /\ moved \subseteq Labels /\ masked \in BOOLEAN
    BY DEF Init
  <2>7. pc \in PCs /\ after \in {"idle", "look"}
    BY DEF Init, PCs
  <2> QED
    BY <2>1, <2>2, <2>3, <2>4, <2>5, <2>6, <2>7 DEF TypeOK
<1>2. Durable
  BY OtherSlot DEF Init, Durable, Settled, Aside, Kept, OnTrial, Accepted, NotBlocked, BaseHeld,
     CommittedValid
<1>3. Steps
  BY DEF Init, Steps, StepsBefore, StepsForward, StepsBack, StepsFinal
<1> QED
  BY <1>1, <1>2, <1>3 DEF IInv

\* A step that changes nothing preserves it.
LEMMA StutterKeeps == IInv /\ UNCHANGED vars => IInv'
<1> SUFFICES ASSUME TypeOK, Durable, Steps, UNCHANGED vars
             PROVE  TypeOK' /\ Durable' /\ Steps'
  BY DEF IInv
<1>1. TypeOK'
  BY DEF TypeOK, JournalOK, vars
<1>2. Durable'
  BY DEF Durable, Settled, Aside, Kept, OnTrial, Accepted, NotBlocked, BaseHeld, CommittedValid,
     vars
<1>3. Steps'
  BY DEF Steps, StepsBefore, StepsForward, StepsBack, StepsFinal, Alike, vars
<1> QED
  BY <1>1, <1>2, <1>3

\* The journal, the two slots and the steps of the process stay consistent
\* through any interleaving of pushes, crashes, reboots and failures.
THEOREM Inductive == Spec => []IInv
<1>1. Init => IInv
  BY InitHolds
<1>2. IInv /\ [Next]_vars => IInv'
  BY ProducerKeeps, ReconcileKeeps, ReleaseKeeps, RecoverKeeps, FinishKeeps, EnvironmentKeeps,
     StutterKeeps DEF Next, Step
<1> QED
  BY <1>1, <1>2, PTL DEF Spec

\* The journal always passes the validator the next process applies to it,
\* and every other variable has its type.
THEOREM TypeCorrect == Spec => []TypeOK
<1>1. IInv => TypeOK
  BY DEF IInv
<1> QED
  BY <1>1, Inductive, PTL

\* No serving gap: at every point of a release, rollback or recovery nginx
\* serves from a running slot with a verified database, unless a reload was
\* silently without effect while the slots answered alike.
THEOREM NoServingGap == Spec => []RouteServes
<1>1. IInv => RouteServes
  <2> SUFFICES ASSUME IInv, ~masked PROVE route \in running /\ slotDb[route].ready
    BY DEF RouteServes
  <2>1. CASE journal.state \in Pending
    BY <2>1, OtherSlot DEF IInv, TypeOK, JournalOK, Durable, OnTrial
  <2>2. CASE journal.state = "consumer_verified"
    BY <2>2 DEF IInv, Durable, Accepted
  <2>3. CASE journal.state \notin Pending \cup {"consumer_verified"}
    BY <2>3 DEF IInv, Durable, NotBlocked, Settled
  <2> QED
    BY <2>1, <2>2, <2>3
<1> QED
  BY <1>1, Inductive, PTL

\* Whenever the host restarts, the slot of the nginx include starts with it
\* and serves a verified database.
THEOREM ServesAfterReboot == Spec => []RebootServes
<1>1. IInv => RebootServes
  <2> SUFFICES ASSUME IInv PROVE RebootServes
    OBVIOUS
  <2>1. CASE journal.state \in Pending
    BY <2>1, OtherSlot DEF IInv, TypeOK, JournalOK, Durable, OnTrial, RebootServes
  <2>2. CASE journal.state = "consumer_verified"
    BY <2>2 DEF IInv, Durable, Accepted, RebootServes
  <2>3. CASE journal.state \notin Pending \cup {"consumer_verified"}
    BY <2>3 DEF IInv, Durable, NotBlocked, Settled, RebootServes
  <2> QED
    BY <2>1, <2>2, <2>3
<1> QED
  BY <1>1, Inductive, PTL

\* At every point of a release, a rollback and a recovery readers have a
\* slot, before and after a boot.
THEOREM Serves == Spec => []AlwaysServes
<1>1. RouteServes /\ RebootServes => AlwaysServes
  BY DEF AlwaysServes
<1> QED
  BY <1>1, NoServingGap, ServesAfterReboot, PTL

\* Outside a trial the active slot shows the basis of the producer's deltas.
THEOREM BasisServed == Spec => []BasisIsServed
<1>1. IInv => BasisIsServed
  BY DEF IInv, Durable, Settled, BasisIsServed
<1> QED
  BY <1>1, Inductive, PTL

\* No history of crashes, failures and pushes blocks a rollback or a
\* finalization for an operator.
THEOREM NeedsNoOperator == Spec => []NoManualStop
<1>1. IInv => NoManualStop
  BY DEF IInv, Durable, NotBlocked, Kept, NoManualStop
<1> QED
  BY <1>1, Inductive, PTL

-----------------------------------------------------------------------------
(* What a step may do *)

\* The actions that write the include, the basis, a slot's database or the
\* claimed base.
LEMMA Writers ==
  ASSUME [Next]_vars
  PROVE  /\ include' = include \/ Point \/ Back \/ ReconcileRetry
         /\ basis' = basis \/ AdvanceBasis
         /\ slotDb' = slotDb \/ Materialize \/ VerifyCandidate \/ \E label \in Labels : Move(label)
         /\ claimed' = claimed \/ Claim \/ SweepBase \/ \E label \in Labels : Move(label)
<1>1. CASE Producer
  BY <1>1 DEF Producer, PublishSidecar, PublishDatabase, PushFails
<1>2. CASE Reconcile
  BY <1>2 DEF Reconcile, ReconcileSettled, ReconcileBlocked, ReconcileCommitted,
     ReconcileUnclaimed, ReconcileClaimed, ReconcileForeign, ReconcileExhausted,
     ReconcileRetireFails, ReconcileResume, ReconcileRetry
<1>3. CASE Release
  BY <1>3 DEF Release, LookInVain, Look, Claim, Select, Materialize, RejectBase, VerifyCandidate,
     RejectCandidate, Restart, Enable, Probe, RejectProbe, Capture, GiveUp, Point, Reload,
     ReloadNginx, Switched, Gate, StopOld, Prove, Retreat
<1>4. CASE Recover
  BY <1>4 DEF Recover, Rollback, Back, ReloadBack, ReloadNginx, Baseline, Condemn, RollbackFails,
     BeginQuarantine, QuarantineRetireFails, Conclude, SkipMove, Move, MoveRefused
<1>5. CASE Finish
  BY <1>5 DEF Finish, Finalize, DisableOld, FinalizeFails, DropOld, AdvanceBasis, WriteReceipt,
     Commit, SweepBase, SweepManifest
<1>6. CASE Start \/ Crash \/ Reboot \/ Upgrade
  BY <1>6 DEF Start, Crash, Reboot, Upgrade
<1>7. CASE UNCHANGED vars
  BY <1>7 DEF vars
<1> QED
  BY <1>1, <1>2, <1>3, <1>4, <1>5, <1>6, <1>7 DEF Next, Step

\* No step writes the database of the slot in the include, or of the one
\* nginx serves from: the candidate is always the other one.
LEMMA SlotsKept ==
  ASSUME IInv, [Next]_vars
  PROVE  ServingKept
<1>1. CASE Materialize
  BY <1>1, OtherSlot DEF IInv, TypeOK, JournalOK, Durable, Settled, Aside, Steps, StepsBefore,
     Materialize, ServingKept
<1>2. CASE VerifyCandidate
  BY <1>2, OtherSlot DEF IInv, TypeOK, JournalOK, Durable, Settled, Aside, Steps, StepsBefore,
     VerifyCandidate, ServingKept
<1>3. ASSUME NEW label \in Labels, Move(label)
      PROVE  ServingKept
  BY <1>3, OtherSlot DEF IInv, TypeOK, JournalOK, Durable, Settled, Aside, Steps, StepsBack, Move,
     ServingKept
<1> QED
  BY <1>1, <1>2, <1>3, Writers DEF ServingKept

\* No step writes a database that is served, or would be after a restart.
THEOREM ServingNotWritten == Spec => ServingUntouched
<1>1. IInv /\ [Next]_vars => [ServingKept]_vars
  BY SlotsKept
<1> QED
  BY <1>1, Inductive, PTL DEF Spec, ServingUntouched

\* The claimed base goes to the quarantine or away once it is the basis.
THEOREM BaseKept == Spec => BaseNeverLost
<1>1. ASSUME IInv, [Next]_vars, claimed # None, claimed' # claimed
      PROVE  claimed' = None /\ (basis = claimed \/ "base" \in moved')
  <2>1. CASE Claim
    BY <1>1, <2>1 DEF IInv, Steps, StepsBefore, Claim
  <2>2. CASE SweepBase
    BY <1>1, <2>2 DEF SweepBase
  <2>3. ASSUME NEW label \in Labels, Move(label)
        PROVE  claimed' = None /\ "base" \in moved'
    BY <1>1, <2>3 DEF Move
  <2> QED
    BY <1>1, <2>1, <2>2, <2>3, Writers
<1>2. IInv /\ [Next]_vars =>
        [claimed # None /\ claimed' # claimed =>
           claimed' = None /\ (basis = claimed \/ "base" \in moved')]_vars
  BY <1>1
<1> QED
  BY <1>2, Inductive, PTL DEF Spec, BaseNeverLost

-----------------------------------------------------------------------------
(* The abstract release *)

\* Every step is a step of the abstract release or leaves what it shows and
\* what it accepted: pointing the include at the candidate puts a snapshot on
\* trial, pointing it back withdraws the snapshot, and advancing the basis
\* accepts it.
LEMMA StepIsGated ==
  ASSUME IInv, [Next]_vars
  PROVE  [Gated!Next]_<<slotDb[include].snap, basis>>
<1>1. CASE Point
  <2>1. Gated!Show(journal.snap)
    BY <1>1, OtherSlot DEF Gated!Show, Point, WriteInclude, IInv, TypeOK, JournalOK, Durable,
       OnTrial, Steps, StepsForward
  <2>2. journal.snap \in Snapshots
    BY <1>1 DEF Point, IInv, TypeOK, JournalOK, Steps, StepsForward
  <2> QED
    BY <2>1, <2>2 DEF Gated!Next
<1>2. CASE Back
  <2>1. Gated!Withdraw
    BY <1>2, OtherSlot DEF Gated!Withdraw, Back, WriteInclude, IInv, TypeOK, JournalOK, Durable,
       OnTrial, Steps, StepsBack
  <2> QED
    BY <2>1 DEF Gated!Next
<1>3. CASE AdvanceBasis
  <2>1. Gated!Accept
    BY <1>3 DEF Gated!Accept, AdvanceBasis, IInv, TypeOK, Durable, Kept, Accepted, Steps,
       StepsFinal
  <2> QED
    BY <2>1 DEF Gated!Next
<1>4. CASE ReconcileRetry
  <2>1. include' = include
    BY <1>4 DEF ReconcileRetry, Reconciling, IInv, Durable, Aside
  <2>2. basis' = basis /\ slotDb' = slotDb
    BY <1>4 DEF ReconcileRetry
  <2> QED
    BY <2>1, <2>2
<1>5. CASE include' = include /\ basis' = basis
  BY <1>5, SlotsKept DEF ServingKept
<1> QED
  BY <1>1, <1>2, <1>3, <1>4, <1>5, Writers

\* The two slots, the include and the journal implement the abstract release.
THEOREM Implements == Spec => IsGatedRelease
<1>1. Init => Gated!Init
  BY DEF Init, Gated!Init
<1>2. IInv /\ [Next]_vars => [Gated!Next]_<<slotDb[include].snap, basis>>
  BY StepIsGated
<1> QED
  BY <1>1, <1>2, Inductive, PTL DEF Spec, IsGatedRelease, Gated!Spec

-----------------------------------------------------------------------------
(* The retry *)

\* Builds of a claim, counted by the process and by the journal.
Counted ==
  /\ journal.state = "claiming" /\ claimed # None => attempts = 0
  /\ journal.state \in Rebuilding => attempts <= journal.retry + 1
  /\ pc = "rebuild" => attempts <= journal.retry

\* Every step keeps the count.
LEMMA CountedKeeps ==
  ASSUME IInv, Counted, [Next]_vars
  PROVE  Counted'
<1>1. ASSUME ReconcileClaimed
      PROVE  Counted'
  <2>1. attempts' = 0
    BY <1>1 DEF ReconcileClaimed, Reconciling, Counted
  <2>2. \/ journal'.state = "quarantining" /\ pc' = "quarantine"
        \/ journal'.state = "rebuilding" /\ journal'.retry = 1
    BY <1>1, RetryWrites DEF IInv, Reads, Condemned
  <2> QED
    BY <2>1, <2>2 DEF Counted
<1>2. ASSUME Select
      PROVE  Counted'
  <2>1. attempts' = 0
    BY <1>2 DEF Select, IInv, Steps, StepsBefore, Counted
  <2>2. \/ journal'.state = "quarantining" /\ pc' = "quarantine"
        \/ journal'.state = "rebuilding" /\ journal'.retry = 0
    BY <1>2, SelectWrites DEF IInv, Reads, Condemned
  <2> QED
    BY <2>1, <2>2 DEF Counted
<1> USE DEF IInv, TypeOK, JournalOK, Journal, Durable, BaseHeld, Steps, StepsBefore, Counted
<1>3. CASE Producer
  BY <1>3 DEF Producer, PublishSidecar, PublishDatabase, PushFails
<1>4. CASE Reconcile
  <2>1. CASE ReconcileSettled
    BY <2>1 DEF ReconcileSettled, Reconciling
  <2>2. CASE ReconcileBlocked
    BY <2>2 DEF ReconcileBlocked, Reconciling
  <2>3. CASE ReconcileCommitted
    BY <2>3 DEF ReconcileCommitted, CommittedValid, Reconciling
  <2>4. CASE ReconcileUnclaimed
    BY <2>4 DEF ReconcileUnclaimed, Entry, Reconciling, Retryable
  <2>5. CASE ReconcileClaimed
    BY <2>5, <1>1
  <2>6. CASE ReconcileForeign
    BY <2>6 DEF ReconcileForeign, Entry, Advance, Reconciling, Retryable
  <2>7. CASE ReconcileExhausted
    BY <2>7 DEF ReconcileExhausted, Entry, Quarantine, Reconciling, Retryable
  <2>8. CASE ReconcileRetry
    BY <2>8 DEF ReconcileRetry, Entry, Reconciling, RetryUsed, Retryable
  <2>9. CASE ReconcileRetireFails
    BY <2>9 DEF ReconcileRetireFails, Reconciling
  <2>10. CASE ReconcileResume
    BY <2>10 DEF ReconcileResume, Reconciling
  <2> QED
    BY <1>4, <2>1, <2>2, <2>3, <2>4, <2>5, <2>6, <2>7, <2>8, <2>9, <2>10 DEF Reconcile
<1>5. CASE Release
  <2>1. CASE LookInVain
    BY <2>1 DEF LookInVain
  <2>2. CASE Look
    BY <2>2 DEF Look, Entry, Candidate, Retryable
  <2>3. CASE Claim
    BY <2>3 DEF Claim
  <2>4. CASE Select
    BY <2>4, <1>2
  <2>5. CASE Materialize
    BY <2>5 DEF Materialize
  <2>6. CASE RejectBase
    BY <2>6 DEF RejectBase, Entry, Quarantine, Retryable
  <2>7. CASE VerifyCandidate
    BY <2>7 DEF VerifyCandidate, Entry, Advance, Retryable
  <2>8. CASE RejectCandidate
    BY <2>8 DEF RejectCandidate, Entry, Quarantine, Retryable
  <2>9. CASE Restart
    BY <2>9 DEF Restart
  <2>10. CASE Enable
    BY <2>10 DEF Enable
  <2>11. CASE Probe
    BY <2>11 DEF Probe, Alike
  <2>12. CASE RejectProbe
    BY <2>12 DEF RejectProbe, Entry, Quarantine, Retryable
  <2>13. CASE Capture
    BY <2>13 DEF Capture, Entry, PendingValid, Shown, EnterPending, Retryable
  <2>14. CASE GiveUp
    BY <2>14 DEF GiveUp, Entry, Advance, Retryable
  <2>15. CASE Point
    BY <2>15 DEF Point, WriteInclude
  <2>16. CASE Reload
    BY <2>16 DEF Reload, Alike, ReloadNginx
  <2>17. CASE Switched
    BY <2>17 DEF Switched, Entry, PendingValid, EnterPending, Retryable
  <2>18. CASE Gate
    BY <2>18 DEF Gate, Entry, PendingValid, Shown, Alike, ShowsCandidate, EnterPending, Retryable
  <2>19. CASE StopOld
    BY <2>19 DEF StopOld
  <2>20. CASE Prove
    BY <2>20 DEF Prove, Entry, Advance, AuthorityValid, Shown, Alike, ShowsCandidate, Retryable
  <2>21. CASE Retreat
    BY <2>21 DEF Retreat
  <2> QED
    BY <1>5, <2>1, <2>2, <2>3, <2>4, <2>5, <2>6, <2>7, <2>8, <2>9, <2>10, <2>11, <2>12, <2>13,
       <2>14, <2>15, <2>16, <2>17, <2>18, <2>19, <2>20, <2>21 DEF Release
<1>6. CASE Recover
  <2>1. CASE Rollback
    BY <2>1 DEF Rollback, Entry, Advance, PendingValid, RestartOld, Retryable
  <2>2. CASE Back
    BY <2>2 DEF Back, WriteInclude
  <2>3. CASE ReloadBack
    BY <2>3 DEF ReloadBack, Alike, ReloadNginx
  <2>4. CASE Baseline
    BY <2>4 DEF Baseline, Shown, Alike, BaselineHolds
  <2>5. CASE Condemn
    BY <2>5 DEF Condemn, Entry, Quarantine, Retryable
  <2>6. CASE RollbackFails
    BY <2>6 DEF RollbackFails, Entry, PendingValid, Shown, Alike, BaselineHolds, Retryable
  <2>7. CASE BeginQuarantine
    BY <2>7 DEF BeginQuarantine
  <2>8. CASE QuarantineRetireFails
    BY <2>8 DEF QuarantineRetireFails
  <2>9. CASE Conclude
    BY <2>9 DEF Conclude, Entry, Retryable
  <2>10. ASSUME NEW label \in Labels, SkipMove(label)
        PROVE  Counted'
    BY <2>10 DEF SkipMove, Present, NextMove
  <2>11. ASSUME NEW label \in Labels, Move(label)
        PROVE  Counted'
    BY <2>11 DEF Move, Present, NextMove
  <2>12. ASSUME NEW label \in Labels, MoveRefused(label)
        PROVE  Counted'
    BY <2>12 DEF MoveRefused, Present
  <2> QED
    BY <1>6, <2>1, <2>2, <2>3, <2>4, <2>5, <2>6, <2>7, <2>8, <2>9, <2>10, <2>11, <2>12 DEF Recover
<1>7. CASE Finish
  BY <1>7 DEF Finish, Finalize, Entry, Advance, AuthorityValid, Retryable, DisableOld,
     FinalizeFails, DropOld, AdvanceBasis, WriteReceipt, Commit, SweepBase, SweepManifest
<1>8. CASE Start \/ Crash \/ Reboot \/ Upgrade
  BY <1>8 DEF Start, Crash, Reboot, Upgrade
<1>9. CASE UNCHANGED vars
  BY <1>9 DEF vars
<1> QED
  BY <1>3, <1>4, <1>5, <1>6, <1>7, <1>8, <1>9 DEF Next, Step

\* A claimed snapshot is built at most twice, the second time with the retry
\* in the journal, however often the process dies.
THEOREM OneFreshRetry == Spec => []OneRetry
<1>1. Init => Counted
  BY DEF Init, Counted
<1>2. IInv /\ Counted /\ [Next]_vars => Counted'
  BY CountedKeeps
<1>3. Counted => OneRetry
  BY DEF Counted, OneRetry
<1> QED
  BY <1>1, <1>2, <1>3, Inductive, PTL DEF Spec
====
