--------------------------- MODULE IngestionProofs ---------------------------
(***************************************************************************)
(* Proofs about Ingestion for every set of sources and accounts and every   *)
(* bound: the inductive invariant IInv, the safety properties it implies    *)
(* and the refinement of OutboxDelivery.                                    *)
(***************************************************************************)
EXTENDS Ingestion, SequenceTheorems, TLAPS

(***************************************************************************)
(* Operators                                                                *)
(***************************************************************************)

\* The reload keeps or resets every runtime, and leaves it with the account
\* the file names and a cursor no larger than before.
LEMMA SyncedFacts ==
  ASSUME EnvType, NEW metas \in [Sources -> Meta], NEW s \in Sources
  PROVE  /\ Synced(metas) \in [Sources -> Meta]
         /\ Synced(metas)[s].account = Account[file[s]]
         /\ Claimed(s, Synced(metas)[s]) \subseteq Claimed(s, metas[s])
<1>1. Account[file[s]] \in Accounts
  BY IngestionAssumption DEF EnvType
<1>2. \A t \in Sources : Synced(metas)[t] \in Meta
  BY IngestionAssumption DEF Synced, Meta, EnvType
<1>3. Synced(metas) \in [Sources -> Meta]
  BY <1>2 DEF Synced
<1>4. CASE s \in XSources /\ metas[s].account = Account[file[s]]
  BY <1>3, <1>4 DEF Synced
<1>5. CASE ~(s \in XSources /\ metas[s].account = Account[file[s]])
  <2>1. Synced(metas)[s] = [account |-> Account[file[s]], cursor |-> 0]
    BY <1>5 DEF Synced
  <2>2. Claimed(s, Synced(metas)[s]) = {}
    BY <2>1 DEF Claimed, Posts
  <2> QED
    BY <1>3, <2>1, <2>2
<1> QED
  BY <1>4, <1>5

LEMMA SyncedType ==
  ASSUME EnvType, NEW metas \in [Sources -> Meta]
  PROVE  Synced(metas) \in [Sources -> Meta]
<1>1. CASE Sources = {}
  BY <1>1 DEF Synced
<1>2. CASE Sources # {}
  BY <1>2, SyncedFacts
<1> QED
  BY <1>1, <1>2

\* What a fetch from a cursor to upto adds is just what the cursor lacked.
LEMMA ClaimedAfterFetch ==
  ASSUME NEW s \in Sources, NEW m \in Meta, NEW upto \in 0..MaxPost, upto >= m.cursor
  PROVE  /\ [m EXCEPT !.cursor = upto] \in Meta
         /\ [m EXCEPT !.cursor = upto].account = m.account
         /\ Claimed(s, [m EXCEPT !.cursor = upto]) \subseteq Claimed(s, m) \cup Fetched(s, m, upto)
         /\ Fetched(s, m, upto) \subseteq Post
<1> DEFINE n == [m EXCEPT !.cursor = upto]
<1>1. n \in Meta /\ n.account = m.account /\ n.cursor = upto
  BY DEF Meta
<1>2. m.account \in Accounts /\ m.cursor \in Nat
  BY IngestionAssumption DEF Meta
<1>3. Claimed(s, n) \subseteq Claimed(s, m) \cup Fetched(s, m, upto)
  <2> SUFFICES ASSUME NEW k \in 1..upto
               PROVE  <<s, m.account, k>> \in Claimed(s, m) \cup Fetched(s, m, upto)
    BY <1>1 DEF Claimed, Posts
  <2>1. k \in 1..m.cursor \/ k \in (m.cursor + 1)..upto
    BY <1>2, IngestionAssumption
  <2> QED
    BY <2>1 DEF Claimed, Fetched, Posts
<1>4. Fetched(s, m, upto) \subseteq Post
  BY <1>2, IngestionAssumption DEF Fetched, Posts, Post
<1> QED
  BY <1>1, <1>3, <1>4

\* A new row keeps the outbox well-typed and numbered below its sequence.
LEMMA InsertFacts ==
  ASSUME OutboxType, NEW b \in Batch, Insert(b)
  PROVE  /\ lastId' = lastId + 1
         /\ published' \in Seq(Batch) /\ Len(published') = lastId'
         /\ DOMAIN outbox' = DOMAIN outbox \cup {lastId + 1}
         /\ DOMAIN outbox' \subseteq 1..lastId'
         /\ \A i \in DOMAIN outbox' : outbox'[i] \in Batch
         /\ \A i \in 1..lastId : published'[i] = published[i]
         /\ published'[lastId + 1] = b
         /\ outbox'[lastId + 1] = b
         /\ \A i \in DOMAIN outbox : outbox'[i] = outbox[i]
<1> USE DEF Insert, NextId
<1>1. lastId' = lastId + 1 /\ lastId \in Nat
  BY DEF OutboxType
<1>2. /\ published' \in Seq(Batch) /\ Len(published') = lastId'
      /\ \A i \in 1..lastId : published'[i] = published[i]
      /\ published'[lastId + 1] = b
  BY <1>1, AppendProperties DEF OutboxType
<1>3. DOMAIN outbox' = DOMAIN outbox \cup {lastId + 1} /\ outbox'[lastId + 1] = b
  BY <1>1 DEF Put
<1>4. \A i \in DOMAIN outbox : outbox'[i] = outbox[i]
  BY <1>1 DEF Put, OutboxType
<1>5. DOMAIN outbox' \subseteq 1..lastId'
  BY <1>1, <1>3 DEF OutboxType
<1>6. \A i \in DOMAIN outbox' : outbox'[i] \in Batch
  BY <1>3, <1>4 DEF OutboxType
<1> QED
  BY <1>1, <1>2, <1>3, <1>4, <1>5, <1>6

(***************************************************************************)
(* Type correctness                                                         *)
(***************************************************************************)

LEMMA InitType == Init => TypeOK
<1> SUFFICES ASSUME Init PROVE TypeOK
  OBVIOUS
<1>1. EnvType
  <2>1. edits \in 0..MaxOperator /\ crashes \in 0..MaxCrash
    BY IngestionAssumption DEF Init
  <2>2. decoupled \in BOOLEAN
    BY DEF Init
  <2> QED
    BY <2>1, <2>2 DEF Init, EnvType
<1>2. \A s \in Sources : Account[file[s]] \in Accounts
  BY IngestionAssumption DEF Init
<1>3. RowsType
  <2>1. qMeta \in [Sources -> Meta]
    BY <1>2, IngestionAssumption DEF Init, Meta
  <2>2. bound \in BOOLEAN
    BY DEF Init
  <2>3. mMeta \in [Sources -> Meta] /\ qConf \in [Sources -> Confs] /\ mConf \in [Sources -> Confs]
    BY <1>1, <2>1 DEF Init, EnvType
  <2>4. mItems \subseteq Post
    BY DEF Init
  <2> QED
    BY <2>1, <2>2, <2>3, <2>4 DEF RowsType
<1>4. OutboxType /\ AcksType
  <2>1. DOMAIN outbox = {} /\ DOMAIN acks = {}
    BY DEF Init
  <2> QED
    BY <2>1 DEF Init, OutboxType, AcksType
<1>5. CollectorType
  BY IngestionAssumption DEF Init, CollectorType, IdleCollector
<1>6. ConsumerType
  BY DEF Init, ConsumerType, IdleConsumer
<1> QED
  BY <1>1, <1>3, <1>4, <1>5, <1>6 DEF TypeOK

\* The batches the collector inserts are batches.
LEMMA RecordType ==
  ASSUME CollectorType, RowsType, NEW s \in Sources, NEW meta \in Meta, NEW items \in SUBSET Post
  PROVE  [kind |-> "source", run |-> collector.run, source |-> s, conf |-> qConf[s],
          meta |-> meta, items |-> items] \in Batch
  BY DEF CollectorType, RowsType, Batch, SourceBatch

\* Inserting a row disturbs neither the acknowledgements nor the consumer.
LEMMA InsertType ==
  ASSUME TypeOK, NEW b \in Batch, Insert(b), UNCHANGED <<acks, applied, consumer>>,
         fetched' \subseteq (0..MaxRound) \X Sources
  PROVE  OutboxType' /\ AcksType' /\ ConsumerType'
<1>1. lastId \in Nat /\ lastId' = lastId + 1
  BY DEF TypeOK, OutboxType, Insert, NextId
<1>2. 1..lastId \subseteq 1..lastId'
  BY <1>1
<1>3. OutboxType'
  BY <1>1, InsertFacts DEF OutboxType, TypeOK
<1>4. AcksType'
  BY <1>2 DEF AcksType, TypeOK
<1>5. ConsumerType'
  BY <1>2 DEF ConsumerType, TypeOK
<1> QED
  BY <1>3, <1>4, <1>5

LEMMA CollectorTypeStep == TypeOK /\ CollectorStep => TypeOK'
<1> SUFFICES ASSUME TypeOK, CollectorStep PROVE TypeOK'
  OBVIOUS
<1> USE DEF envVars, queueVars, mainVars
<1>1. CASE StartRound
  <2>1. qMeta' \in [Sources -> Meta] /\ qConf' \in [Sources -> Confs]
    BY <1>1, SyncedType DEF StartRound, TypeOK, RowsType, EnvType
  <2>2. CollectorType'
    BY <1>1, IngestionAssumption DEF StartRound, TypeOK, CollectorType
  <2> QED
    BY <1>1, <2>1, <2>2 DEF StartRound, TypeOK, EnvType, OutboxType, RowsType, AcksType, ConsumerType
<1>2. ASSUME NEW s \in Sources, BeginSource(s) PROVE TypeOK'
  <2>1. CollectorType'
    BY <1>2 DEF BeginSource, TypeOK, CollectorType
  <2> QED
    BY <1>2, <2>1 DEF BeginSource, TypeOK, EnvType, OutboxType, RowsType, AcksType, ConsumerType
<1>3. ASSUME NEW s \in Sources, NEW upto \in 0..MaxPost, CommitSource(s, upto) PROVE TypeOK'
  <2> DEFINE meta == [qMeta[s] EXCEPT !.cursor = upto]
             b == [kind |-> "source", run |-> collector.run, source |-> s, conf |-> qConf[s],
                   meta |-> meta, items |-> Fetched(s, qMeta[s], upto)]
  <2>1. qMeta[s] \in Meta /\ upto >= qMeta[s].cursor
    BY <1>3 DEF CommitSource, TypeOK, RowsType
  <2>2. meta \in Meta /\ Fetched(s, qMeta[s], upto) \in SUBSET Post
    BY <2>1, ClaimedAfterFetch
  <2>3. b \in Batch
    BY <2>2, RecordType DEF TypeOK
  <2>4. Insert(b) /\ UNCHANGED <<acks, applied, consumer>>
    BY <1>3 DEF CommitSource, Record
  <2>5. fetched' \subseteq (0..MaxRound) \X Sources
    BY <1>3 DEF CommitSource, TypeOK, OutboxType, CollectorType
  <2>6. OutboxType' /\ AcksType' /\ ConsumerType'
    BY <2>3, <2>4, <2>5, InsertType
  <2>7. RowsType'
    BY <1>3, <2>2 DEF CommitSource, TypeOK, RowsType
  <2>8. CollectorType'
    BY <1>3 DEF CommitSource, TypeOK, CollectorType
  <2> QED
    BY <1>3, <2>6, <2>7, <2>8 DEF CommitSource, TypeOK, EnvType
<1>4. ASSUME NEW s \in Sources, CommitFailure(s) PROVE TypeOK'
  <2> DEFINE b == [kind |-> "source", run |-> collector.run, source |-> s, conf |-> qConf[s],
                   meta |-> qMeta[s], items |-> {}]
  <2>1. b \in Batch
    BY RecordType DEF TypeOK, RowsType
  <2>2. Insert(b) /\ UNCHANGED <<acks, applied, consumer>>
    BY <1>4 DEF CommitFailure, Record
  <2>3. fetched' \subseteq (0..MaxRound) \X Sources
    BY <1>4 DEF CommitFailure, TypeOK, OutboxType
  <2>4. OutboxType' /\ AcksType' /\ ConsumerType'
    BY <2>1, <2>2, <2>3, InsertType
  <2>5. CollectorType'
    <3>1. collector.failed + 1 \in Nat
      BY DEF TypeOK, CollectorType
    <3> QED
      BY <1>4, <3>1 DEF CommitFailure, TypeOK, CollectorType
  <2> QED
    BY <1>4, <2>4, <2>5 DEF CommitFailure, TypeOK, EnvType, RowsType
<1>5. ASSUME NEW s \in Sources, RollbackSource(s) PROVE TypeOK'
  <2>1. CollectorType'
    <3>1. collector.failed + 1 \in Nat
      BY DEF TypeOK, CollectorType
    <3> QED
      BY <1>5, <3>1 DEF RollbackSource, TypeOK, CollectorType
  <2>2. EnvType'
    BY <1>5, IngestionAssumption DEF RollbackSource, TypeOK, EnvType
  <2> QED
    BY <1>5, <2>1, <2>2 DEF RollbackSource, TypeOK, OutboxType, RowsType, AcksType, ConsumerType
<1>6. CASE FinishRaw
  <2>1. CollectorType'
    BY <1>6 DEF FinishRaw, TypeOK, CollectorType
  <2> QED
    BY <1>6, <2>1 DEF FinishRaw, TypeOK, EnvType, OutboxType, RowsType, AcksType, ConsumerType
<1>7. CASE FinishRound
  <2> DEFINE b == [kind |-> "round", run |-> collector.run, failed |-> collector.failed]
  <2>1. b \in Batch
    BY DEF TypeOK, CollectorType, Batch, RoundBatch
  <2>2. Insert(b) /\ UNCHANGED <<acks, applied, consumer>>
    BY <1>7 DEF FinishRound
  <2>3. fetched' \subseteq (0..MaxRound) \X Sources
    BY <1>7 DEF FinishRound, TypeOK, OutboxType
  <2>4. OutboxType' /\ AcksType' /\ ConsumerType'
    BY <2>1, <2>2, <2>3, InsertType
  <2>5. CollectorType'
    BY <1>7 DEF FinishRound, IdleCollector, TypeOK, CollectorType
  <2> QED
    BY <1>7, <2>4, <2>5 DEF FinishRound, TypeOK, EnvType, RowsType
<1>8. CASE CrashCollector
  <2>1. CollectorType'
    BY <1>8 DEF CrashCollector, IdleCollector, TypeOK, CollectorType
  <2>2. EnvType'
    BY <1>8, IngestionAssumption DEF CrashCollector, TypeOK, EnvType
  <2> QED
    BY <1>8, <2>1, <2>2 DEF CrashCollector, TypeOK, OutboxType, RowsType, AcksType, ConsumerType
<1> QED
  BY <1>1, <1>2, <1>3, <1>4, <1>5, <1>6, <1>7, <1>8 DEF CollectorStep

LEMMA ConsumerTypeStep == TypeOK /\ ConsumerStep => TypeOK'
<1> SUFFICES ASSUME TypeOK, ConsumerStep PROVE TypeOK'
  OBVIOUS
<1> USE DEF envVars, queueVars, mainVars
<1>1. CASE StartConsume
  <2>1. mMeta' \in [Sources -> Meta] /\ mConf' \in [Sources -> Confs]
    BY <1>1, SyncedType DEF StartConsume, TypeOK, RowsType, EnvType
  <2>2. ConsumerType'
    BY <1>1 DEF StartConsume, TypeOK, OutboxType, ConsumerType
  <2> QED
    BY <1>1, <2>1, <2>2 DEF StartConsume, TypeOK, EnvType, OutboxType, RowsType, AcksType, CollectorType
<1>2. ASSUME NEW i \in consumer.todo, ApplyBatch(i) PROVE TypeOK'
  <2> DEFINE b == outbox[i]
  <2>1. b \in Batch /\ i \in 1..lastId
    BY <1>2 DEF ApplyBatch, TypeOK, OutboxType
  <2>2. Content(b) \subseteq Post
    BY <2>1 DEF Content, Batch, SourceBatch, RoundBatch
  <2>3. b.kind = "source" => b.meta \in Meta
    BY <2>1 DEF Batch, SourceBatch, RoundBatch
  <2>4. RowsType'
    BY <1>2, <2>2, <2>3 DEF ApplyBatch, TypeOK, RowsType
  <2>5. [row |-> b, completed |-> b.kind = "round" /\ b.failed = 0] \in Ack
    BY <2>1 DEF Ack
  <2>6. applied' \in Seq(Batch)
    BY <1>2, <2>1 DEF ApplyBatch, TypeOK, AcksType
  <2>7. AcksType'
    BY <1>2, <2>1, <2>5, <2>6 DEF ApplyBatch, Put, TypeOK, AcksType
  <2>8. ConsumerType'
    BY <1>2 DEF ApplyBatch, NextBatch, TypeOK, ConsumerType
  <2> QED
    BY <1>2, <2>4, <2>7, <2>8 DEF ApplyBatch, TypeOK, EnvType, OutboxType, CollectorType
<1>3. ASSUME NEW i \in consumer.todo, RepeatBatch(i) PROVE TypeOK'
  <2>1. ConsumerType'
    BY <1>3 DEF RepeatBatch, NextBatch, TypeOK, ConsumerType
  <2> QED
    BY <1>3, <2>1 DEF RepeatBatch, TypeOK, EnvType, OutboxType, RowsType, AcksType, CollectorType
<1>4. ASSUME NEW i \in consumer.todo, RefuseBatch(i) PROVE TypeOK'
  <2>1. ConsumerType'
    BY <1>4 DEF RefuseBatch, IdleConsumer, TypeOK, ConsumerType
  <2> QED
    BY <1>4, <2>1 DEF RefuseBatch, TypeOK, EnvType, OutboxType, RowsType, AcksType, CollectorType
<1>5. ASSUME NEW i \in consumer.todo, Discard(i) PROVE TypeOK'
  <2>1. OutboxType'
    BY <1>5 DEF Discard, Drop, TypeOK, OutboxType
  <2>2. ConsumerType'
    <3>1. CASE collector.pc = "writing"
      BY <1>5, <3>1 DEF Discard, TypeOK, ConsumerType
    <3>2. CASE collector.pc # "writing"
      BY <1>5, <3>2 DEF Discard, TypeOK, ConsumerType
    <3> QED
      BY <3>1, <3>2
  <2> QED
    BY <1>5, <2>1, <2>2 DEF Discard, TypeOK, EnvType, RowsType, AcksType, CollectorType
<1>6. CASE FinishConsume
  <2>1. ConsumerType'
    BY <1>6 DEF FinishConsume, IdleConsumer, TypeOK, ConsumerType
  <2> QED
    BY <1>6, <2>1 DEF FinishConsume, TypeOK, EnvType, OutboxType, RowsType, AcksType, CollectorType
<1>7. CASE CrashConsumer
  <2>1. ConsumerType'
    BY <1>7 DEF CrashConsumer, IdleConsumer, TypeOK, ConsumerType
  <2>2. EnvType'
    BY <1>7, IngestionAssumption DEF CrashConsumer, TypeOK, EnvType
  <2> QED
    BY <1>7, <2>1, <2>2 DEF CrashConsumer, TypeOK, OutboxType, RowsType, AcksType, CollectorType
<1> QED
  BY <1>1, <1>2, <1>3, <1>4, <1>5, <1>6, <1>7 DEF ConsumerStep

LEMMA OperatorTypeStep == TypeOK /\ OperatorStep => TypeOK'
<1> SUFFICES ASSUME TypeOK, OperatorStep PROVE TypeOK'
  OBVIOUS
<1> USE DEF envVars, queueVars, mainVars
<1>1. CASE Initialize
  <2>1. Seeded \in [Sources -> Meta]
    <3>1. \A s \in Sources : Account[file[s]] \in Accounts
      BY IngestionAssumption DEF TypeOK, EnvType
    <3> QED
      BY <3>1, IngestionAssumption DEF Seeded, Meta, TypeOK, RowsType
  <2> QED
    BY <1>1, <2>1 DEF Initialize, TypeOK, EnvType, OutboxType, RowsType, AcksType, CollectorType,
                      ConsumerType
<1>2. CASE EnableDecoupled
  BY <1>2 DEF EnableDecoupled, TypeOK, EnvType, OutboxType, RowsType, AcksType, CollectorType,
              ConsumerType
<1>3. ASSUME NEW upto \in [Sources -> 0..MaxPost], DirectRound(upto) PROVE TypeOK'
  <2> DEFINE synced == Synced(mMeta)
  <2>1. synced \in [Sources -> Meta]
    BY SyncedType DEF TypeOK, RowsType
  <2>2. \A s \in Sources :
          /\ [synced[s] EXCEPT !.cursor = upto[s]] \in Meta
          /\ Fetched(s, synced[s], upto[s]) \subseteq Post
    <3> SUFFICES ASSUME NEW s \in Sources
                 PROVE  /\ [synced[s] EXCEPT !.cursor = upto[s]] \in Meta
                        /\ Fetched(s, synced[s], upto[s]) \subseteq Post
      OBVIOUS
    <3>1. synced[s] \in Meta /\ upto[s] \in 0..MaxPost /\ upto[s] >= synced[s].cursor
      BY <1>3, <2>1 DEF DirectRound
    <3> QED
      BY <3>1, ClaimedAfterFetch
  <2>3. mMeta' \in [Sources -> Meta]
    BY <1>3, <2>2 DEF DirectRound
  <2>4. mItems' \subseteq Post
    BY <1>3, <2>2 DEF DirectRound, TypeOK, RowsType
  <2> QED
    BY <1>3, <2>3, <2>4 DEF DirectRound, TypeOK, EnvType, OutboxType, RowsType, AcksType,
                            CollectorType, ConsumerType
<1>4. ASSUME NEW s \in Sources, NEW c \in Confs, EditSource(s, c) PROVE TypeOK'
  <2>1. EnvType'
    BY <1>4, IngestionAssumption DEF EditSource, TypeOK, EnvType
  <2> QED
    BY <1>4, <2>1 DEF EditSource, TypeOK, OutboxType, RowsType, AcksType, CollectorType, ConsumerType
<1> QED
  BY <1>1, <1>2, <1>3, <1>4 DEF OperatorStep

LEMMA TypeStep == TypeOK /\ [Next]_vars => TypeOK'
<1>1. TypeOK /\ UNCHANGED vars => TypeOK'
  BY DEF vars, envVars, queueVars, mainVars, TypeOK, EnvType, OutboxType, RowsType, AcksType,
         CollectorType, ConsumerType
<1> QED
  BY <1>1, CollectorTypeStep, ConsumerTypeStep, OperatorTypeStep DEF Next

\* Type correctness of every reachable state.
THEOREM TypeCorrect == Spec => []TypeOK
  BY InitType, TypeStep, PTL DEF Spec
(***************************************************************************)
(* The inductive invariant                                                  *)
(***************************************************************************)

\* The steps that touch the history are the collector's inserts and the
\* consumer's apply and discard; every other step leaves all of it alone.
history == <<outbox, lastId, published, acks, applied>>

LEMMA Steps ==
  ASSUME [Next]_vars
  PROVE  \/ UNCHANGED history
         \/ \E s \in Sources, upto \in 0..MaxPost : CommitSource(s, upto)
         \/ \E s \in Sources : CommitFailure(s)
         \/ FinishRound
         \/ \E i \in consumer.todo : ApplyBatch(i)
         \/ \E i \in consumer.todo : Discard(i)
<1> USE DEF history, envVars, queueVars, mainVars
<1>1. CASE CollectorStep
  BY <1>1 DEF CollectorStep, StartRound, BeginSource, RollbackSource, FinishRaw, CrashCollector
<1>2. CASE ConsumerStep
  BY <1>2 DEF ConsumerStep, StartConsume, RepeatBatch, RefuseBatch, FinishConsume, CrashConsumer
<1>3. CASE OperatorStep
  BY <1>3 DEF OperatorStep, Initialize, EnableDecoupled, DirectRound, EditSource
<1>4. CASE UNCHANGED vars
  BY <1>4 DEF vars
<1> QED
  BY <1>1, <1>2, <1>3, <1>4 DEF Next

\* What the three kinds of insert have in common.
LEMMA InsertSteps ==
  ASSUME TypeOK,
         \/ \E s \in Sources, upto \in 0..MaxPost : CommitSource(s, upto)
         \/ \E s \in Sources : CommitFailure(s)
         \/ FinishRound
  PROVE  \E b \in Batch : Insert(b) /\ UNCHANGED <<acks, applied, consumer, mItems, mConf, mMeta>>
<1> USE DEF envVars, queueVars, mainVars
<1>1. ASSUME NEW s \in Sources, NEW upto \in 0..MaxPost, CommitSource(s, upto)
      PROVE  \E b \in Batch : Insert(b) /\ UNCHANGED <<acks, applied, consumer, mItems, mConf, mMeta>>
  <2>1. qMeta[s] \in Meta /\ upto >= qMeta[s].cursor
    BY <1>1 DEF CommitSource, TypeOK, RowsType
  <2>2. /\ [qMeta[s] EXCEPT !.cursor = upto] \in Meta
        /\ Fetched(s, qMeta[s], upto) \in SUBSET Post
    BY <2>1, ClaimedAfterFetch
  <2> QED
    BY <1>1, <2>2, RecordType DEF CommitSource, Record, TypeOK
<1>2. ASSUME NEW s \in Sources, CommitFailure(s)
      PROVE  \E b \in Batch : Insert(b) /\ UNCHANGED <<acks, applied, consumer, mItems, mConf, mMeta>>
  BY <1>2, RecordType DEF CommitFailure, Record, TypeOK, RowsType
<1>3. ASSUME FinishRound
      PROVE  \E b \in Batch : Insert(b) /\ UNCHANGED <<acks, applied, consumer, mItems, mConf, mMeta>>
  <2>1. [kind |-> "round", run |-> collector.run, failed |-> collector.failed] \in Batch
    BY DEF TypeOK, CollectorType, Batch, RoundBatch
  <2> QED
    BY <1>3, <2>1 DEF FinishRound
<1> QED
  BY <1>1, <1>2, <1>3

\* An insert makes one more batch pending.
LEMMA InsertPending ==
  ASSUME TypeOK, NEW b \in Batch, Insert(b), UNCHANGED acks
  PROVE  /\ Pending' = Pending \cup {lastId + 1}
         /\ \A j \in Pending : j \in 1..lastId /\ published'[j] = published[j]
         /\ lastId + 1 \notin Pending
<1>1. lastId \in Nat /\ lastId' = lastId + 1 /\ DOMAIN acks \subseteq 1..lastId
  BY DEF TypeOK, OutboxType, AcksType, Insert, NextId
<1>2. \A j \in 1..lastId : published'[j] = published[j]
  BY InsertFacts DEF TypeOK
<1> QED
  BY <1>1, <1>2 DEF Pending

\* The batch whose turn it is to be applied is the first pending one, the
\* next after the prefix main has applied.
LEMMA ApplyIsNext ==
  ASSUME TypeOK, OneHistory, ConsumerInOrder, NEW i \in consumer.todo, ApplyBatch(i)
  PROVE  /\ i \in Pending
         /\ i = Len(applied) + 1
         /\ \A j \in Pending : i <= j
         /\ Pending' = Pending \ {i}
         /\ outbox[i] = published[i] /\ published[i] \in Batch
<1>1. /\ i \in 1..lastId /\ lastId \in Nat /\ i \notin DOMAIN acks
      /\ outbox[i] = published[i] /\ published[i] \in Batch
      /\ Len(applied) \in Nat
  BY DEF ApplyBatch, OneHistory, TypeOK, OutboxType, AcksType
<1>2. i \in Pending
  BY <1>1 DEF Pending
<1>3. \A j \in Pending : i <= j
  <2> SUFFICES ASSUME NEW j \in Pending, ~(i <= j) PROVE FALSE
    OBVIOUS
  <2>1. j \in Nat /\ j <= i
    BY <1>1 DEF Pending
  <2>2. j \in consumer.todo
    BY <2>1 DEF ConsumerInOrder
  <2> QED
    BY <2>2 DEF ApplyBatch, Turn
<1>4. i = Len(applied) + 1
  <2>1. i > Len(applied)
    BY <1>1 DEF OneHistory
  <2>2. SUFFICES ASSUME i > Len(applied) + 1 PROVE FALSE
    BY <1>1, <2>1
  <2>3. Len(applied) + 1 \in Pending
    BY <1>1, <2>2 DEF Pending, OneHistory
  <2> QED
    BY <1>1, <1>3, <2>2, <2>3
<1>5. Pending' = Pending \ {i}
  <2>1. DOMAIN acks' = DOMAIN acks \cup {i} /\ lastId' = lastId
    BY DEF ApplyBatch, Put, queueVars
  <2> QED
    BY <2>1 DEF Pending
<1> QED
  BY <1>1, <1>2, <1>3, <1>4, <1>5

\* The row that is deleted is acknowledged.
LEMMA DiscardIsAcked ==
  ASSUME TypeOK, ConsumerInOrder, NEW i \in consumer.todo, Discard(i)
  PROVE  /\ i \in DOMAIN acks
         /\ \A j \in DOMAIN outbox : j # i => j \in DOMAIN outbox' /\ outbox'[j] = outbox[j]
         /\ DOMAIN outbox' \subseteq DOMAIN outbox
         /\ Pending' = Pending
<1>1. PICK k \in consumer.todo \cap DOMAIN acks : \A j \in consumer.todo : k <= j
  BY DEF Discard, ConsumerInOrder
<1>2. i \in Nat /\ k \in Nat /\ i <= k /\ k <= i
  BY <1>1 DEF Discard, TypeOK, ConsumerType
<1>3. i = k
  BY <1>2
<1>4. Pending' = Pending
  BY DEF Pending, Discard, mainVars
<1>5. /\ \A j \in DOMAIN outbox : j # i => j \in DOMAIN outbox' /\ outbox'[j] = outbox[j]
      /\ DOMAIN outbox' \subseteq DOMAIN outbox
  BY DEF Discard, Drop
<1> QED
  BY <1>1, <1>3, <1>4, <1>5

LEMMA OneHistoryStep == TypeOK /\ OneHistory /\ ConsumerInOrder /\ [Next]_vars => OneHistory'
<1> SUFFICES ASSUME TypeOK, OneHistory, ConsumerInOrder, [Next]_vars PROVE OneHistory'
  OBVIOUS
<1>1. CASE UNCHANGED history
  BY <1>1 DEF history, OneHistory, Pending
<1>2. ASSUME NEW b \in Batch, Insert(b), UNCHANGED <<acks, applied>> PROVE OneHistory'
  <2>1. /\ \A i \in 1..lastId : published'[i] = published[i]
        /\ DOMAIN outbox' = DOMAIN outbox \cup {lastId + 1}
        /\ outbox'[lastId + 1] = b /\ published'[lastId + 1] = b
        /\ \A i \in DOMAIN outbox : outbox'[i] = outbox[i]
    BY <1>2, InsertFacts DEF TypeOK
  <2>2. DOMAIN outbox \subseteq 1..lastId /\ DOMAIN acks \subseteq 1..lastId
    BY DEF TypeOK, OutboxType, AcksType
  <2>3. \A i \in DOMAIN outbox' : outbox'[i] = published'[i]
    BY <2>1, <2>2 DEF OneHistory
  <2>4. Pending' \subseteq DOMAIN outbox'
    BY <1>2, <2>1, InsertPending DEF OneHistory
  <2> QED
    BY <1>2, <2>1, <2>2, <2>3, <2>4 DEF OneHistory
<1>3. ASSUME NEW i \in consumer.todo, ApplyBatch(i) PROVE OneHistory'
  <2> DEFINE b == published[i]
  <2>1. /\ i = Len(applied) + 1 /\ Pending' = Pending \ {i} /\ outbox[i] = b /\ b \in Batch
    BY <1>3, ApplyIsNext
  <2>2. /\ applied' = Append(applied, b)
        /\ acks' = Put(acks, i, [row |-> b, completed |-> b.kind = "round" /\ b.failed = 0])
        /\ UNCHANGED <<outbox, lastId, published>>
    BY <1>3, <2>1 DEF ApplyBatch, queueVars
  <2>3. applied \in Seq(Batch) /\ Len(applied) \in Nat
    BY DEF TypeOK, AcksType
  <2>4. /\ Len(applied') = i /\ applied'[i] = b
        /\ \A j \in 1..Len(applied) : applied'[j] = applied[j]
    BY <2>1, <2>2, <2>3, AppendProperties
  <2>5. /\ DOMAIN acks' = DOMAIN acks \cup {i}
        /\ acks'[i] = [row |-> b, completed |-> b.kind = "round" /\ b.failed = 0]
        /\ \A j \in DOMAIN acks : j # i => acks'[j] = acks[j]
    BY <2>2 DEF Put
  <2>6. DOMAIN acks = 1..Len(applied)
    BY DEF OneHistory
  <2>7. DOMAIN acks' = 1..Len(applied')
    BY <2>1, <2>3, <2>4, <2>5, <2>6
  <2>8. \A j \in DOMAIN acks' :
          /\ applied'[j] = published[j]
          /\ acks'[j] = [row |-> published[j],
                         completed |-> published[j].kind = "round" /\ published[j].failed = 0]
    BY <2>1, <2>3, <2>4, <2>5, <2>6 DEF OneHistory
  <2> QED
    BY <2>1, <2>2, <2>7, <2>8 DEF OneHistory
<1>4. ASSUME NEW i \in consumer.todo, Discard(i) PROVE OneHistory'
  <2>1. /\ i \in DOMAIN acks
        /\ \A j \in DOMAIN outbox : j # i => j \in DOMAIN outbox' /\ outbox'[j] = outbox[j]
        /\ DOMAIN outbox' \subseteq DOMAIN outbox
        /\ Pending' = Pending
    BY <1>4, DiscardIsAcked
  <2>2. UNCHANGED <<published, acks, applied, lastId>>
    BY <1>4 DEF Discard, mainVars
  <2>3. i \notin Pending
    BY <2>1 DEF Pending
  <2>4. \A j \in DOMAIN outbox' : outbox'[j] = published[j]
    BY <1>4 DEF OneHistory, Discard, Drop
  <2> QED
    BY <2>1, <2>2, <2>3, <2>4 DEF OneHistory
<1> QED
  BY <1>1, <1>2, <1>3, <1>4, Steps, InsertSteps

LEMMA ConsumerInOrderStep ==
  TypeOK /\ OneHistory /\ ConsumerInOrder /\ [Next]_vars => ConsumerInOrder'
<1> SUFFICES ASSUME TypeOK, OneHistory, ConsumerInOrder, [Next]_vars PROVE ConsumerInOrder'
  OBVIOUS
<1> USE DEF envVars, queueVars, mainVars
<1>1. ASSUME NEW b \in Batch, Insert(b), UNCHANGED <<acks, consumer>> PROVE ConsumerInOrder'
  <2>1. DOMAIN outbox \subseteq DOMAIN outbox'
    BY <1>1, InsertFacts DEF TypeOK
  <2>2. /\ Pending' = Pending \cup {lastId + 1}
        /\ \A i \in consumer.todo : ~(lastId + 1 <= i)
    BY <1>1, InsertPending DEF TypeOK, OutboxType, ConsumerType
  <2> QED
    BY <1>1, <2>1, <2>2 DEF ConsumerInOrder
<1>2. CASE UNCHANGED <<history, consumer>>
  BY <1>2 DEF history, ConsumerInOrder, Pending
<1>3. CASE StartConsume
  <2>1. consumer'.todo = DOMAIN outbox /\ consumer'.pc = "applying"
    BY <1>3 DEF StartConsume
  <2>2. UNCHANGED <<outbox, acks, lastId, published>>
    BY <1>3 DEF StartConsume
  <2>3. Pending' = Pending /\ Pending \subseteq DOMAIN outbox
    BY <2>2 DEF Pending, OneHistory
  <2> QED
    BY <2>1, <2>2, <2>3 DEF ConsumerInOrder
<1>4. ASSUME NEW i \in consumer.todo, NextBatch(i), i \in DOMAIN acks', consumer.pc = "applying",
             \A j \in consumer.todo : i <= j,
             UNCHANGED outbox, Pending' \subseteq Pending, i \notin Pending'
      PROVE  ConsumerInOrder'
  <2>1. CASE consumer.deferred
    <3>1. consumer'.todo = consumer.todo \ {i} /\ consumer'.pc = "applying"
      BY <1>4, <2>1 DEF NextBatch, TypeOK, ConsumerType
    <3> QED
      BY <1>4, <3>1 DEF ConsumerInOrder
  <2>2. CASE ~consumer.deferred
    <3>1. consumer'.todo = consumer.todo /\ consumer'.pc = "discarding"
      BY <1>4, <2>2 DEF NextBatch, TypeOK, ConsumerType
    <3> QED
      BY <1>4, <3>1 DEF ConsumerInOrder
  <2> QED
    BY <2>1, <2>2
<1>5. ASSUME NEW i \in consumer.todo, ApplyBatch(i) PROVE ConsumerInOrder'
  <2>1. Pending' = Pending \ {i}
    BY <1>5, ApplyIsNext
  <2>2. i \in DOMAIN acks'
    BY <1>5 DEF ApplyBatch, Put
  <2> QED
    BY <1>4, <1>5, <2>1, <2>2 DEF ApplyBatch, Turn
<1>6. ASSUME NEW i \in consumer.todo, RepeatBatch(i) PROVE ConsumerInOrder'
  <2>1. Pending' = Pending /\ i \notin Pending /\ i \in DOMAIN acks'
    BY <1>6 DEF RepeatBatch, Pending
  <2> QED
    BY <1>4, <1>6, <2>1 DEF RepeatBatch, Turn
<1>7. ASSUME NEW i \in consumer.todo, Discard(i) PROVE ConsumerInOrder'
  <2>1. /\ i \in DOMAIN acks
        /\ \A j \in DOMAIN outbox : j # i => j \in DOMAIN outbox'
        /\ Pending' = Pending
    BY <1>7, DiscardIsAcked
  <2>2. consumer'.todo = consumer.todo \ {i} /\ consumer'.pc = "applying"
    <3>1. CASE collector.pc = "writing"
      BY <1>7, <3>1 DEF Discard, TypeOK, ConsumerType
    <3>2. CASE collector.pc # "writing"
      BY <1>7, <3>2 DEF Discard, TypeOK, ConsumerType
    <3> QED
      BY <3>1, <3>2
  <2>3. i \notin Pending
    BY <2>1 DEF Pending
  <2> QED
    BY <2>1, <2>2, <2>3 DEF ConsumerInOrder
<1>8. CASE consumer' = IdleConsumer
  BY <1>8 DEF ConsumerInOrder, IdleConsumer
<1>9. CASE CollectorStep
  <2>1. CASE StartRound \/ FinishRaw \/ CrashCollector
    BY <1>2, <2>1 DEF history, StartRound, FinishRaw, CrashCollector
  <2>2. ASSUME NEW s \in Sources, BeginSource(s) \/ RollbackSource(s) PROVE ConsumerInOrder'
    BY <1>2, <2>2 DEF history, BeginSource, RollbackSource
  <2> QED
    BY <1>1, <1>9, <2>1, <2>2, InsertSteps DEF CollectorStep
<1>10. CASE ConsumerStep
  BY <1>3, <1>5, <1>6, <1>7, <1>8, <1>10 DEF ConsumerStep, RefuseBatch, FinishConsume, CrashConsumer
<1>11. CASE OperatorStep
  BY <1>2, <1>11 DEF history, OperatorStep, Initialize, EnableDecoupled, DirectRound, EditSource
<1> QED
  BY <1>2, <1>9, <1>10, <1>11 DEF Next, vars, history

\* A runtime changes hands only together with its configuration.
LEMMA OwnedStep ==
  TypeOK /\ OneHistory /\ ConsumerInOrder /\ Owned /\ [Next]_vars => Owned'
<1> SUFFICES ASSUME TypeOK, OneHistory, ConsumerInOrder, Owned, [Next]_vars PROVE Owned'
  OBVIOUS
<1> USE DEF envVars, queueVars, mainVars
<1> DEFINE Sent == \A i \in 1..lastId : published[i].kind = "source" =>
                     published[i].meta.account = Account[published[i].conf]
<1>1. ASSUME NEW metas \in [Sources -> Meta]
      PROVE  \A s \in Sources : Synced(metas)[s].account = Account[file[s]]
  BY SyncedFacts DEF TypeOK
<1>2. ASSUME NEW b \in Batch, Insert(b), b.kind = "source" => b.meta.account = Account[b.conf]
      PROVE  Sent'
  <2>1. /\ lastId' = lastId + 1 /\ lastId \in Nat
        /\ \A i \in 1..lastId : published'[i] = published[i]
        /\ published'[lastId + 1] = b
    BY <1>2, InsertFacts DEF TypeOK, OutboxType
  <2> QED
    BY <1>2, <2>1 DEF Owned
<1>3. CASE UNCHANGED <<lastId, published, qConf, qMeta, mConf, mMeta>>
  BY <1>3 DEF Owned, RuntimeOwned
<1>4. CASE StartRound
  <2>1. qMeta' = Synced(qMeta) /\ qConf' = file /\ qMeta \in [Sources -> Meta]
    BY <1>4 DEF StartRound, TypeOK, RowsType
  <2> QED
    BY <1>1, <1>4, <2>1 DEF StartRound, Owned, RuntimeOwned
<1>5. ASSUME NEW s \in Sources, NEW upto \in 0..MaxPost, CommitSource(s, upto) PROVE Owned'
  <2> DEFINE meta == [qMeta[s] EXCEPT !.cursor = upto]
             b == [kind |-> "source", run |-> collector.run, source |-> s, conf |-> qConf[s],
                   meta |-> meta, items |-> Fetched(s, qMeta[s], upto)]
  <2>1. qMeta[s] \in Meta /\ upto >= qMeta[s].cursor
    BY <1>5 DEF CommitSource, TypeOK, RowsType
  <2>2. meta \in Meta /\ meta.account = qMeta[s].account /\ Fetched(s, qMeta[s], upto) \in SUBSET Post
    BY <2>1, ClaimedAfterFetch
  <2>3. b \in Batch
    BY <2>2, RecordType DEF TypeOK
  <2>4. Insert(b) /\ qMeta' = [qMeta EXCEPT ![s] = meta] /\ UNCHANGED <<qConf, mConf, mMeta>>
    BY <1>5 DEF CommitSource, Record
  <2>5. b.meta.account = Account[b.conf]
    BY <2>2 DEF Owned, RuntimeOwned
  <2>6. Sent'
    BY <1>2, <2>3, <2>4, <2>5
  <2>7. RuntimeOwned'
    BY <2>2, <2>4 DEF Owned, RuntimeOwned, TypeOK, RowsType
  <2> QED
    BY <2>6, <2>7 DEF Owned
<1>6. ASSUME NEW s \in Sources, CommitFailure(s) PROVE Owned'
  <2> DEFINE b == [kind |-> "source", run |-> collector.run, source |-> s, conf |-> qConf[s],
                   meta |-> qMeta[s], items |-> {}]
  <2>1. b \in Batch
    BY RecordType DEF TypeOK, RowsType
  <2>2. Insert(b) /\ UNCHANGED <<qConf, qMeta, mConf, mMeta>>
    BY <1>6 DEF CommitFailure, Record
  <2>3. b.meta.account = Account[b.conf]
    BY DEF Owned, RuntimeOwned
  <2>4. Sent'
    BY <1>2, <2>1, <2>2, <2>3
  <2> QED
    BY <2>2, <2>4 DEF Owned, RuntimeOwned
<1>7. CASE FinishRound
  <2> DEFINE b == [kind |-> "round", run |-> collector.run, failed |-> collector.failed]
  <2>1. b \in Batch /\ b.kind # "source"
    BY DEF TypeOK, CollectorType, Batch, RoundBatch
  <2>2. Insert(b) /\ UNCHANGED <<qConf, qMeta, mConf, mMeta>>
    BY <1>7 DEF FinishRound
  <2>3. Sent'
    BY <1>2, <2>1, <2>2
  <2> QED
    BY <2>2, <2>3 DEF Owned, RuntimeOwned
<1>8. CASE StartConsume
  <2>1. mMeta' = Synced(mMeta) /\ mConf' = file /\ mMeta \in [Sources -> Meta]
    BY <1>8 DEF StartConsume, TypeOK, RowsType
  <2> QED
    BY <1>1, <1>8, <2>1 DEF StartConsume, Owned, RuntimeOwned
<1>9. ASSUME NEW i \in consumer.todo, ApplyBatch(i) PROVE Owned'
  <2> DEFINE b == published[i]
  <2>1. b \in Batch /\ i \in 1..lastId /\ outbox[i] = b
    BY <1>9, ApplyIsNext DEF Pending
  <2>2. CASE b.kind # "source"
    BY <1>9, <2>1, <2>2 DEF ApplyBatch, Owned, RuntimeOwned
  <2>3. CASE b.kind = "source"
    <3>1. mMeta' = [mMeta EXCEPT ![b.source] = b.meta] /\ mConf[b.source] = b.conf
      BY <1>9, <2>1, <2>3 DEF ApplyBatch, Applicable
    <3>2. b.meta.account = Account[b.conf]
      BY <2>1, <2>3 DEF Owned
    <3>3. UNCHANGED <<lastId, published, qConf, qMeta, mConf>>
      BY <1>9 DEF ApplyBatch
    <3> QED
      BY <3>1, <3>2, <3>3 DEF Owned, RuntimeOwned, TypeOK, RowsType
  <2> QED
    BY <2>2, <2>3
<1>10. CASE Initialize
  <2>1. \A s \in Sources : Seeded[s].account = Account[file[s]]
    BY DEF Seeded, Owned, RuntimeOwned
  <2> QED
    BY <1>10, <2>1 DEF Initialize, Owned, RuntimeOwned
<1>11. ASSUME NEW upto \in [Sources -> 0..MaxPost], DirectRound(upto) PROVE Owned'
  <2> DEFINE synced == Synced(mMeta)
  <2>1. mMeta \in [Sources -> Meta]
    BY DEF TypeOK, RowsType
  <2>2. \A s \in Sources : synced[s] \in Meta /\ synced[s].account = Account[file[s]]
    BY <1>1, <2>1, SyncedType DEF TypeOK
  <2>3. \A s \in Sources : mMeta'[s] = [synced[s] EXCEPT !.cursor = upto[s]]
    BY <1>11 DEF DirectRound
  <2>4. \A s \in Sources : mMeta'[s].account = Account[file[s]]
    BY <2>2, <2>3 DEF Meta
  <2> QED
    BY <1>11, <2>4 DEF DirectRound, Owned, RuntimeOwned
<1>12. CASE CollectorStep
  <2>1. ASSUME NEW s \in Sources, BeginSource(s) \/ RollbackSource(s) PROVE Owned'
    BY <1>3, <2>1 DEF BeginSource, RollbackSource
  <2>2. CASE FinishRaw \/ CrashCollector
    BY <1>3, <2>2 DEF FinishRaw, CrashCollector
  <2> QED
    BY <1>4, <1>5, <1>6, <1>7, <1>12, <2>1, <2>2 DEF CollectorStep
<1>13. CASE ConsumerStep
  <2>1. ASSUME NEW i \in consumer.todo, RepeatBatch(i) \/ RefuseBatch(i) \/ Discard(i) PROVE Owned'
    BY <1>3, <2>1 DEF RepeatBatch, RefuseBatch, Discard
  <2>2. CASE FinishConsume \/ CrashConsumer
    BY <1>3, <2>2 DEF FinishConsume, CrashConsumer
  <2> QED
    BY <1>8, <1>9, <1>13, <2>1, <2>2 DEF ConsumerStep
<1>14. CASE OperatorStep
  <2>1. ASSUME NEW s \in Sources, NEW c \in Confs, EditSource(s, c) PROVE Owned'
    BY <1>3, <2>1 DEF EditSource
  <2>2. CASE EnableDecoupled
    BY <1>3, <2>2 DEF EnableDecoupled
  <2> QED
    BY <1>10, <1>11, <1>14, <2>1, <2>2 DEF OperatorStep
<1> QED
  BY <1>3, <1>12, <1>13, <1>14 DEF Next, vars

-----------------------------------------------------------------------------

\* What is due stays due when a step only adds to main's items ...
LEMMA DueKept ==
  ASSUME UNCHANGED published, Pending' = Pending, mItems \subseteq mItems', NEW p, NEW i, Due(p, i)
  PROVE  Due(p, i)'
BY DEF Due

\* ... or inserts one more batch, whose own posts are due with it.
LEMMA DueInserted ==
  ASSUME TypeOK, NEW b \in Batch, Insert(b), UNCHANGED <<acks, mItems>>, NEW p, NEW i \in Nat
  PROVE  /\ Due(p, i) => Due(p, i)'
         /\ Due(p, lastId) => Due(p, lastId)'
         /\ p \in Content(b) => Due(p, lastId)'
<1>1. /\ Pending' = Pending \cup {lastId + 1} /\ lastId \in Nat /\ lastId' = lastId + 1
      /\ \A j \in Pending : j \in 1..lastId /\ published'[j] = published[j]
      /\ published'[lastId + 1] = b
  BY InsertPending, InsertFacts DEF TypeOK, OutboxType
<1>2. Due(p, i) => Due(p, i)'
  BY <1>1 DEF Due
<1>3. Due(p, lastId) => Due(p, lastId)'
  <2> SUFFICES ASSUME NEW j \in Pending, p \in Content(published[j]) PROVE Due(p, lastId)'
    BY DEF Due
  <2>1. j \in Pending' /\ p \in Content(published'[j]) /\ j <= lastId'
    BY <1>1
  <2> QED
    BY <2>1 DEF Due
<1>4. ASSUME p \in Content(b) PROVE Due(p, lastId)'
  <2>1. lastId' \in Pending' /\ lastId' <= lastId' /\ p \in Content(published'[lastId'])
    BY <1>1, <1>4
  <2> QED
    BY <2>1 DEF Due
<1> QED
  BY <1>2, <1>3, <1>4

\* A step that neither inserts nor applies a batch.
LEMMA CursorsDueQuiet ==
  ASSUME CursorsDue, UNCHANGED <<published, lastId>>, Pending' = Pending, mItems \subseteq mItems',
         \A s \in Sources : Claimed(s, mMeta'[s]) \subseteq mItems',
         \A s \in Sources : \A p \in Claimed(s, qMeta'[s]) : Due(p, lastId)
  PROVE  CursorsDue'
<1>1. \A s \in Sources : \A p \in Claimed(s, qMeta'[s]) : Due(p, lastId)'
  <2>1. ASSUME NEW p, Due(p, lastId) PROVE Due(p, lastId)'
    BY <2>1 DEF Due
  <2> QED
    BY <2>1
<1>2. \A i \in Pending : published[i].kind = "source" =>
        \A p \in Claimed(published[i].source, published[i].meta) : Due(p, i)'
  BY DueKept DEF CursorsDue
<1>3. \A i \in Pending' : published'[i].kind = "source" =>
        \A p \in Claimed(published'[i].source, published'[i].meta) : Due(p, i)'
  BY <1>2
<1>4. \A s \in Sources : \A p \in Claimed(s, mMeta'[s]) : p \in mItems'
  OBVIOUS
<1> QED
  BY <1>1, <1>3, <1>4 DEF CursorsDue, Claimed, Posts

\* An inserted batch carries what its cursor claims beyond what was due before.
LEMMA CursorsDueInsert ==
  ASSUME TypeOK, CursorsDue, NEW b \in Batch, Insert(b), UNCHANGED <<acks, mItems, mMeta>>,
         \A s \in Sources : \A p \in Claimed(s, qMeta'[s]) : Due(p, lastId) \/ p \in Content(b),
         b.kind = "source" =>
           \A p \in Claimed(b.source, b.meta) : Due(p, lastId) \/ p \in Content(b)
  PROVE  CursorsDue'
<1>1. /\ lastId' = lastId + 1 /\ lastId \in Nat
      /\ Pending' = Pending \cup {lastId + 1}
      /\ \A j \in Pending : j \in 1..lastId /\ published'[j] = published[j]
      /\ published'[lastId + 1] = b
  BY InsertPending, InsertFacts DEF TypeOK, OutboxType
<1>2. \A s \in Sources : \A p \in Claimed(s, qMeta'[s]) : Due(p, lastId)'
  BY <1>1, DueInserted
<1>3. ASSUME NEW i \in Pending', published'[i].kind = "source",
             NEW p \in Claimed(published'[i].source, published'[i].meta)
      PROVE  Due(p, i)'
  <2>1. CASE i = lastId + 1
    <3>1. Due(p, lastId) \/ p \in Content(b)
      BY <1>1, <1>3, <2>1
    <3>2. Due(p, lastId)'
      BY <1>1, <3>1, DueInserted
    <3> QED
      BY <1>1, <2>1, <3>2 DEF Due
  <2>2. CASE i \in Pending
    <3>1. Due(p, i) /\ i \in Nat
      BY <1>1, <1>3, <2>2 DEF CursorsDue
    <3> QED
      BY <3>1, DueInserted
  <2> QED
    BY <1>1, <2>1, <2>2
<1>4. \A s \in Sources : \A p \in Claimed(s, mMeta'[s]) : p \in mItems'
  BY DEF CursorsDue
<1> QED
  BY <1>2, <1>3, <1>4 DEF CursorsDue, Claimed, Posts

LEMMA CursorsDueStep ==
  TypeOK /\ OneHistory /\ ConsumerInOrder /\ CursorsDue /\ [Next]_vars => CursorsDue'
<1> SUFFICES ASSUME TypeOK, OneHistory, ConsumerInOrder, CursorsDue, [Next]_vars PROVE CursorsDue'
  OBVIOUS
<1> USE DEF envVars, queueVars, mainVars
<1>0. /\ \A s \in Sources : Claimed(s, mMeta[s]) \subseteq mItems
      /\ \A s \in Sources : \A p \in Claimed(s, qMeta[s]) : Due(p, lastId)
      /\ qMeta \in [Sources -> Meta] /\ mMeta \in [Sources -> Meta]
  BY DEF CursorsDue, TypeOK, RowsType
<1>1. CASE UNCHANGED <<published, lastId, acks, mItems, mMeta, qMeta>>
  <2>1. Pending' = Pending
    BY <1>1 DEF Pending
  <2> QED
    BY <1>0, <1>1, <2>1, CursorsDueQuiet
<1>2. CASE StartRound
  <2>1. \A s \in Sources : Claimed(s, qMeta'[s]) \subseteq Claimed(s, qMeta[s])
    BY <1>0, <1>2, SyncedFacts DEF StartRound, TypeOK
  <2>2. Pending' = Pending /\ UNCHANGED <<published, lastId, mItems, mMeta>>
    BY <1>2 DEF StartRound, Pending
  <2> QED
    BY <1>0, <2>1, <2>2, CursorsDueQuiet
<1>3. ASSUME NEW s \in Sources, NEW upto \in 0..MaxPost, CommitSource(s, upto) PROVE CursorsDue'
  <2> DEFINE meta == [qMeta[s] EXCEPT !.cursor = upto]
             b == [kind |-> "source", run |-> collector.run, source |-> s, conf |-> qConf[s],
                   meta |-> meta, items |-> Fetched(s, qMeta[s], upto)]
  <2>1. qMeta[s] \in Meta /\ upto >= qMeta[s].cursor
    BY <1>0, <1>3 DEF CommitSource
  <2>2. /\ meta \in Meta /\ Fetched(s, qMeta[s], upto) \in SUBSET Post
        /\ Claimed(s, meta) \subseteq Claimed(s, qMeta[s]) \cup Fetched(s, qMeta[s], upto)
    BY <2>1, ClaimedAfterFetch
  <2>3. b \in Batch
    BY <2>2, RecordType DEF TypeOK
  <2>4. /\ Insert(b) /\ UNCHANGED <<acks, mItems, mMeta>>
        /\ qMeta' = [qMeta EXCEPT ![s] = meta]
    BY <1>3 DEF CommitSource, Record
  <2>5. \A p \in Claimed(s, meta) : Due(p, lastId) \/ p \in Content(b)
    BY <1>0, <2>2 DEF Content
  <2>6. \A t \in Sources : \A p \in Claimed(t, qMeta'[t]) : Due(p, lastId) \/ p \in Content(b)
    BY <1>0, <2>4, <2>5
  <2>7. b.kind = "source" => \A p \in Claimed(b.source, b.meta) : Due(p, lastId) \/ p \in Content(b)
    BY <2>5
  <2> QED
    BY <2>3, <2>4, <2>6, <2>7, CursorsDueInsert
<1>4. ASSUME NEW s \in Sources, CommitFailure(s) PROVE CursorsDue'
  <2> DEFINE b == [kind |-> "source", run |-> collector.run, source |-> s, conf |-> qConf[s],
                   meta |-> qMeta[s], items |-> {}]
  <2>1. b \in Batch
    BY <1>0, RecordType DEF TypeOK
  <2>2. Insert(b) /\ UNCHANGED <<acks, mItems, mMeta, qMeta>>
    BY <1>4 DEF CommitFailure, Record
  <2>3. \A p \in Claimed(b.source, b.meta) : Due(p, lastId) \/ p \in Content(b)
    BY <1>0
  <2>4. \A t \in Sources : \A p \in Claimed(t, qMeta'[t]) : Due(p, lastId) \/ p \in Content(b)
    BY <1>0, <2>2
  <2> QED
    BY <2>1, <2>2, <2>3, <2>4, CursorsDueInsert
<1>5. CASE FinishRound
  <2> DEFINE b == [kind |-> "round", run |-> collector.run, failed |-> collector.failed]
  <2>1. b \in Batch /\ b.kind # "source"
    BY DEF TypeOK, CollectorType, Batch, RoundBatch
  <2>2. Insert(b) /\ UNCHANGED <<acks, mItems, mMeta, qMeta>>
    BY <1>5 DEF FinishRound
  <2>3. \A t \in Sources : \A p \in Claimed(t, qMeta'[t]) : Due(p, lastId) \/ p \in Content(b)
    BY <1>0, <2>2
  <2> QED
    BY <2>1, <2>2, <2>3, CursorsDueInsert
<1>6. CASE StartConsume
  <2>1. \A s \in Sources : Claimed(s, mMeta'[s]) \subseteq Claimed(s, mMeta[s])
    BY <1>0, <1>6, SyncedFacts DEF StartConsume, TypeOK
  <2>2. Pending' = Pending /\ UNCHANGED <<published, lastId, mItems, qMeta>>
    BY <1>6 DEF StartConsume, Pending
  <2> QED
    BY <1>0, <2>1, <2>2, CursorsDueQuiet
<1>7. ASSUME NEW i \in consumer.todo, ApplyBatch(i) PROVE CursorsDue'
  <2> DEFINE b == published[i]
  <2>1. /\ i \in Pending /\ Pending' = Pending \ {i} /\ outbox[i] = b /\ b \in Batch
        /\ \A j \in Pending : i <= j
        /\ \A j \in Pending : j \in Nat
    BY <1>7, ApplyIsNext DEF Pending
  <2>2. /\ mItems' = mItems \cup Content(b)
        /\ mMeta' = IF b.kind = "source" THEN [mMeta EXCEPT ![b.source] = b.meta] ELSE mMeta
        /\ UNCHANGED <<published, lastId, qMeta>>
    BY <1>7, <2>1 DEF ApplyBatch
  <2>3. ASSUME NEW p, NEW k, Due(p, k) PROVE Due(p, k)'
    <3>1. CASE p \in mItems \cup Content(b)
      BY <2>2, <3>1 DEF Due
    <3>2. CASE p \notin mItems \cup Content(b)
      <4>1. PICK j \in Pending : j <= k /\ p \in Content(published[j])
        BY <2>3, <3>2 DEF Due
      <4>2. j # i
        BY <3>2, <4>1
      <4> QED
        BY <2>1, <2>2, <4>1, <4>2 DEF Due
    <3> QED
      BY <3>1, <3>2
  <2>4. ASSUME NEW p, Due(p, i) PROVE p \in mItems'
    <3>1. \A j \in Pending : j <= i => j = i
      BY <2>1
    <3> QED
      BY <2>2, <2>4, <3>1 DEF Due
  <2>5. ASSUME NEW s \in Sources, NEW p \in Claimed(s, mMeta'[s]) PROVE p \in mItems'
    <3>1. CASE b.kind = "source" /\ s = b.source
      <4>1. mMeta'[s] = b.meta
        BY <1>0, <2>2, <3>1
      <4>2. Due(p, i)
        BY <2>1, <2>5, <3>1, <4>1 DEF CursorsDue
      <4> QED
        BY <2>4, <4>2
    <3>2. CASE ~(b.kind = "source" /\ s = b.source)
      <4>1. mMeta'[s] = mMeta[s]
        BY <1>0, <2>2, <3>2
      <4> QED
        BY <1>0, <2>2, <2>5, <4>1
    <3> QED
      BY <3>1, <3>2
  <2>6. ASSUME NEW s \in Sources, NEW p \in Claimed(s, qMeta'[s]) PROVE Due(p, lastId)'
    <3>1. Due(p, lastId)
      BY <1>0, <2>2, <2>6
    <3> QED
      BY <2>2, <2>3, <3>1 DEF Due
  <2>7. ASSUME NEW k \in Pending', published'[k].kind = "source",
               NEW p \in Claimed(published'[k].source, published'[k].meta)
        PROVE  Due(p, k)'
    BY <2>1, <2>2, <2>3, <2>7 DEF CursorsDue
  <2> QED
    BY <2>5, <2>6, <2>7 DEF CursorsDue, Claimed, Posts
<1>8. ASSUME NEW i \in consumer.todo, Discard(i) PROVE CursorsDue'
  <2>1. Pending' = Pending
    BY <1>8, DiscardIsAcked
  <2>2. UNCHANGED <<published, lastId, mItems, mMeta, qMeta>>
    BY <1>8 DEF Discard
  <2> QED
    BY <1>0, <2>1, <2>2, CursorsDueQuiet
<1>9. CASE Initialize
  <2>1. Pending' = Pending /\ UNCHANGED <<published, lastId, mItems, mMeta>> /\ qMeta' = Seeded
    BY <1>9 DEF Initialize, Pending
  <2>2. ASSUME NEW s \in Sources, NEW p \in Claimed(s, Seeded[s]) PROVE Due(p, lastId)
    <3>1. CASE mConf[s] = file[s]
      <4>1. Seeded[s] = mMeta[s]
        BY <3>1 DEF Seeded
      <4> QED
        BY <1>0, <2>2, <4>1 DEF Due
    <3>2. CASE mConf[s] # file[s]
      <4>1. Seeded[s] = [account |-> Account[file[s]], cursor |-> 0]
        BY <3>2 DEF Seeded
      <4> QED
        BY <2>2, <4>1 DEF Claimed, Posts
    <3> QED
      BY <3>1, <3>2
  <2> QED
    BY <1>0, <2>1, <2>2, CursorsDueQuiet
<1>10. ASSUME NEW upto \in [Sources -> 0..MaxPost], DirectRound(upto) PROVE CursorsDue'
  <2> DEFINE synced == Synced(mMeta)
  <2>1. /\ Pending' = Pending /\ UNCHANGED <<published, lastId, qMeta>>
        /\ mItems' = mItems \cup UNION {Fetched(s, synced[s], upto[s]) : s \in Sources}
        /\ \A s \in Sources : mMeta'[s] = [synced[s] EXCEPT !.cursor = upto[s]]
        /\ \A s \in Sources : upto[s] >= synced[s].cursor
    BY <1>10 DEF DirectRound, Pending
  <2>2. ASSUME NEW s \in Sources PROVE Claimed(s, mMeta'[s]) \subseteq mItems'
    <3>1. synced[s] \in Meta /\ Claimed(s, synced[s]) \subseteq Claimed(s, mMeta[s])
      BY <1>0, SyncedFacts DEF TypeOK
    <3>2. upto[s] \in 0..MaxPost /\ upto[s] >= synced[s].cursor
      BY <2>1
    <3>3. Claimed(s, mMeta'[s]) \subseteq Claimed(s, synced[s]) \cup Fetched(s, synced[s], upto[s])
      BY <2>1, <3>1, <3>2, ClaimedAfterFetch
    <3>4. Fetched(s, synced[s], upto[s]) \subseteq mItems'
      BY <2>1
    <3> QED
      BY <1>0, <2>1, <3>1, <3>3, <3>4
  <2> HIDE DEF synced
  <2>3. mItems \subseteq mItems'
    BY <2>1
  <2>4. \A s \in Sources : \A p \in Claimed(s, qMeta'[s]) : Due(p, lastId)
    BY <1>0, <2>1
  <2> QED
    BY <2>1, <2>2, <2>3, <2>4, CursorsDueQuiet
<1>11. CASE CollectorStep
  <2>1. ASSUME NEW s \in Sources, BeginSource(s) \/ RollbackSource(s) PROVE CursorsDue'
    BY <1>1, <2>1 DEF BeginSource, RollbackSource
  <2>2. CASE FinishRaw \/ CrashCollector
    BY <1>1, <2>2 DEF FinishRaw, CrashCollector
  <2> QED
    BY <1>2, <1>3, <1>4, <1>5, <1>11, <2>1, <2>2 DEF CollectorStep
<1>12. CASE ConsumerStep
  <2>1. ASSUME NEW i \in consumer.todo, RepeatBatch(i) \/ RefuseBatch(i) PROVE CursorsDue'
    BY <1>1, <2>1 DEF RepeatBatch, RefuseBatch
  <2>2. CASE FinishConsume \/ CrashConsumer
    BY <1>1, <2>2 DEF FinishConsume, CrashConsumer
  <2> QED
    BY <1>6, <1>7, <1>8, <1>12, <2>1, <2>2 DEF ConsumerStep
<1>13. CASE OperatorStep
  <2>1. ASSUME NEW s \in Sources, NEW c \in Confs, EditSource(s, c) PROVE CursorsDue'
    BY <1>1, <2>1 DEF EditSource
  <2>2. CASE EnableDecoupled
    BY <1>1, <2>2 DEF EnableDecoupled
  <2> QED
    BY <1>9, <1>10, <1>13, <2>1, <2>2 DEF OperatorStep
<1> QED
  BY <1>1, <1>11, <1>12, <1>13 DEF Next, vars

-----------------------------------------------------------------------------

\* What was fetched in a run, and its batch, stay when another is inserted.
LEMMA FetchedInserted ==
  ASSUME TypeOK, NEW b \in Batch, Insert(b), fetched \subseteq fetched', NEW s, NEW run
  PROVE  /\ \A i \in 1..lastId : FetchedInRun(s, run, i) => FetchedInRun(s, run, i)'
         /\ FetchedInRun(s, run, lastId) => FetchedInRun(s, run, lastId)'
         /\ b.kind = "source" /\ b.source = s /\ b.run = run /\ <<run, s>> \in fetched'
              => FetchedInRun(s, run, lastId)'
<1>1. /\ lastId \in Nat /\ lastId' = lastId + 1 /\ published'[lastId'] = b
      /\ \A i \in 1..lastId : published'[i] = published[i]
  BY InsertFacts DEF TypeOK, OutboxType
<1>2. ASSUME NEW i \in 1..lastId, FetchedInRun(s, run, i) PROVE FetchedInRun(s, run, i)'
  <2>1. \A j \in 1..i : published'[j] = published[j]
    BY <1>1
  <2> QED
    BY <1>2, <2>1 DEF FetchedInRun
<1>3. ASSUME FetchedInRun(s, run, lastId) PROVE FetchedInRun(s, run, lastId)'
  BY <1>1, <1>3 DEF FetchedInRun
<1>4. ASSUME b.kind = "source", b.source = s, b.run = run, <<run, s>> \in fetched'
      PROVE  FetchedInRun(s, run, lastId)'
  <2>1. lastId' \in 1..lastId'
    BY <1>1
  <2> QED
    BY <1>1, <1>4, <2>1 DEF FetchedInRun
<1> QED
  BY <1>2, <1>3, <1>4

LEMMA RoundsWholeStep == TypeOK /\ RoundsWhole /\ [Next]_vars => RoundsWhole'
<1> SUFFICES ASSUME TypeOK, RoundsWhole, [Next]_vars PROVE RoundsWhole'
  OBVIOUS
<1> USE DEF envVars, queueVars, mainVars
<1> DEFINE Open == /\ collector.pc # "idle" /\ collector.failed = 0 =>
                        \A s \in Sources \ (collector.todo \cup collector.source) :
                          FetchedInRun(s, collector.run, lastId)
                   /\ collector.pc = "fetching" => collector.source = {}
                   /\ collector.pc = "finished" => collector.todo = {} /\ collector.source = {}
           Closed == \A i \in 1..lastId : published[i].kind = "round" /\ published[i].failed = 0 =>
                       \A s \in Sources : FetchedInRun(s, published[i].run, i)
<1>0. Open /\ Closed /\ (Open' /\ Closed' => RoundsWhole')
  BY DEF RoundsWhole
<1>1. UNCHANGED <<published, lastId, fetched>> => Closed'
  BY <1>0 DEF FetchedInRun
<1>2. CASE UNCHANGED <<published, lastId, fetched, collector>>
  <2>1. Open'
    BY <1>0, <1>2 DEF FetchedInRun
  <2> QED
    BY <1>0, <1>1, <1>2, <2>1
<1>3. CASE StartRound
  <2>1. Open'
    BY <1>3 DEF StartRound
  <2> QED
    BY <1>0, <1>1, <1>3, <2>1 DEF StartRound
<1>4. ASSUME NEW s \in Sources, BeginSource(s) PROVE RoundsWhole'
  <2>1. /\ collector'.pc = "writing" /\ collector'.run = collector.run
        /\ collector'.failed = collector.failed /\ collector.source = {}
        /\ collector'.todo \cup collector'.source = collector.todo \cup collector.source
        /\ collector.pc # "idle" /\ UNCHANGED <<published, lastId, fetched>>
    BY <1>0, <1>4 DEF BeginSource, TypeOK, CollectorType
  <2>2. Open'
    BY <1>0, <2>1 DEF FetchedInRun
  <2> QED
    BY <1>0, <1>1, <2>1, <2>2
<1>5. ASSUME NEW b \in Batch, Insert(b), fetched \subseteq fetched',
             b.kind = "round" /\ b.failed = 0 =>
               \A s \in Sources : FetchedInRun(s, b.run, lastId)
      PROVE  Closed'
  <2>1. /\ lastId \in Nat /\ lastId' = lastId + 1 /\ published'[lastId'] = b
        /\ \A i \in 1..lastId : published'[i] = published[i]
    BY <1>5, InsertFacts DEF TypeOK, OutboxType
  <2> SUFFICES ASSUME NEW i \in 1..lastId', published'[i].kind = "round", published'[i].failed = 0,
                      NEW s \in Sources
               PROVE  FetchedInRun(s, published[i].run, i)'
    OBVIOUS
  <2>2. CASE i \in 1..lastId
    <3>1. FetchedInRun(s, published[i].run, i)
      BY <1>0, <2>1, <2>2
    <3>2. \A j \in 1..i : published'[j] = published[j]
      BY <2>1, <2>2
    <3> QED
      BY <1>5, <2>2, <3>1, <3>2 DEF FetchedInRun
  <2>3. CASE i = lastId'
    <3>1. published'[i] = b
      BY <2>1, <2>3
    <3>2. FetchedInRun(s, b.run, lastId)
      BY <1>5, <3>1
    <3>3. FetchedInRun(s, b.run, lastId)'
      BY <1>5, <3>2, FetchedInserted
    <3> QED
      BY <2>3, <3>1, <3>3 DEF FetchedInRun
  <2> QED
    BY <2>1, <2>2, <2>3
<1>6. ASSUME NEW s \in Sources, NEW upto \in 0..MaxPost, CommitSource(s, upto) PROVE RoundsWhole'
  <2> DEFINE b == [kind |-> "source", run |-> collector.run, source |-> s, conf |-> qConf[s],
                   meta |-> [qMeta[s] EXCEPT !.cursor = upto], items |-> Fetched(s, qMeta[s], upto)]
  <2>1. qMeta[s] \in Meta /\ upto >= qMeta[s].cursor
    BY <1>6 DEF CommitSource, TypeOK, RowsType
  <2>2. b \in Batch
    BY <2>1, ClaimedAfterFetch, RecordType DEF TypeOK
  <2>3. /\ Insert(b) /\ fetched \subseteq fetched'
        /\ <<collector.run, s>> \in fetched'
    BY <1>6 DEF CommitSource, Record
  <2>4. /\ collector'.pc = "fetching" /\ collector'.run = collector.run
        /\ collector'.failed = collector.failed /\ collector.source = {s} /\ collector'.source = {}
        /\ collector'.todo = collector.todo /\ collector.pc # "idle"
    BY <1>6 DEF CommitSource, TypeOK, CollectorType
  <2>5. ASSUME collector.failed = 0, NEW t \in Sources \ collector.todo
        PROVE  FetchedInRun(t, collector.run, lastId)'
    <3>1. CASE t = s
      <4>1. /\ b.kind = "source" /\ b.source = t /\ b.run = collector.run
            /\ <<b.run, t>> \in fetched'
        BY <2>3, <3>1
      <4>2. ASSUME NEW r, b.run = r PROVE FetchedInRun(t, r, lastId)'
        BY <2>2, <2>3, <4>1, <4>2, FetchedInserted
      <4> QED
        BY <2>4, <4>1, <4>2 DEF FetchedInRun
    <3>2. CASE t # s
      <4>1. FetchedInRun(t, collector.run, lastId)
        BY <1>0, <2>4, <2>5, <3>2
      <4>2. ASSUME NEW r, FetchedInRun(t, r, lastId) PROVE FetchedInRun(t, r, lastId)'
        BY <2>2, <2>3, <4>2, FetchedInserted
      <4> QED
        BY <2>4, <4>1, <4>2 DEF FetchedInRun
    <3> QED
      BY <3>1, <3>2
  <2>6. Open'
    BY <2>4, <2>5
  <2>7. Closed'
    BY <1>5, <2>2, <2>3
  <2> QED
    BY <1>0, <2>6, <2>7
<1>7. ASSUME NEW s \in Sources, CommitFailure(s) PROVE RoundsWhole'
  <2> DEFINE b == [kind |-> "source", run |-> collector.run, source |-> s, conf |-> qConf[s],
                   meta |-> qMeta[s], items |-> {}]
  <2>1. b \in Batch
    BY RecordType DEF TypeOK, RowsType
  <2>2. Insert(b) /\ UNCHANGED fetched
    BY <1>7 DEF CommitFailure, Record
  <2>3. collector.failed \in Nat /\ collector.failed + 1 # 0
    BY DEF TypeOK, CollectorType
  <2>4. collector'.pc = "fetching" /\ collector'.failed # 0 /\ collector'.source = {}
    BY <1>7, <2>3 DEF CommitFailure, TypeOK, CollectorType
  <2>5. Open'
    BY <2>4
  <2>6. Closed'
    BY <1>5, <2>1, <2>2
  <2> QED
    BY <1>0, <2>5, <2>6
<1>8. ASSUME NEW s \in Sources, RollbackSource(s) PROVE RoundsWhole'
  <2>1. collector.failed \in Nat /\ collector.failed + 1 # 0
    BY DEF TypeOK, CollectorType
  <2>2. /\ collector'.pc = "fetching" /\ collector'.failed # 0 /\ collector'.source = {}
        /\ UNCHANGED <<published, lastId, fetched>>
    BY <1>8, <2>1 DEF RollbackSource, TypeOK, CollectorType
  <2>3. Open'
    BY <2>2
  <2> QED
    BY <1>0, <1>1, <2>2, <2>3
<1>9. CASE FinishRaw
  <2>1. /\ collector'.pc = "finished" /\ collector'.run = collector.run
        /\ collector'.failed = collector.failed /\ collector.source = {} /\ collector'.source = {}
        /\ collector'.todo = collector.todo /\ collector.todo = {}
        /\ collector.pc # "idle" /\ UNCHANGED <<published, lastId, fetched>>
    BY <1>0, <1>9 DEF FinishRaw, TypeOK, CollectorType
  <2>2. Open'
    BY <1>0, <2>1 DEF FetchedInRun
  <2> QED
    BY <1>0, <1>1, <2>1, <2>2
<1>10. CASE FinishRound
  <2> DEFINE b == [kind |-> "round", run |-> collector.run, failed |-> collector.failed]
  <2>1. b \in Batch
    BY DEF TypeOK, CollectorType, Batch, RoundBatch
  <2>2. /\ Insert(b) /\ UNCHANGED fetched
        /\ collector.pc = "finished" /\ collector' = IdleCollector(collector.run)
    BY <1>10 DEF FinishRound
  <2>3. b.failed = 0 => \A s \in Sources : FetchedInRun(s, b.run, lastId)
    BY <1>0, <2>2
  <2>4. Closed'
    BY <1>5, <2>1, <2>2, <2>3
  <2>5. Open'
    BY <2>2 DEF IdleCollector
  <2> QED
    BY <1>0, <2>4, <2>5
<1>11. CASE CrashCollector
  <2>1. Open'
    BY <1>11 DEF CrashCollector, IdleCollector
  <2> QED
    BY <1>0, <1>1, <1>11, <2>1 DEF CrashCollector
<1>12. CASE CollectorStep
  BY <1>3, <1>4, <1>6, <1>7, <1>8, <1>9, <1>10, <1>11, <1>12 DEF CollectorStep
<1>13. CASE ConsumerStep
  BY <1>2, <1>13 DEF ConsumerStep, StartConsume, ApplyBatch, RepeatBatch, RefuseBatch, Discard,
                     FinishConsume, CrashConsumer
<1>14. CASE OperatorStep
  BY <1>2, <1>14 DEF OperatorStep, Initialize, EnableDecoupled, DirectRound, EditSource
<1> QED
  BY <1>2, <1>12, <1>13, <1>14 DEF Next, vars

-----------------------------------------------------------------------------

LEMMA InitIInv == Init => IInv
<1> SUFFICES ASSUME Init PROVE IInv
  OBVIOUS
<1>1. TypeOK
  BY InitType
<1>2. /\ lastId = 0 /\ DOMAIN outbox = {} /\ DOMAIN acks = {} /\ applied = <<>>
      /\ 1..lastId = {}
  BY DEF Init
<1>3. Pending = {} /\ 1..Len(applied) = {}
  BY <1>2 DEF Pending
<1>4. OneHistory
  BY <1>2, <1>3 DEF OneHistory
<1>5. ASSUME NEW s \in Sources
      PROVE  /\ mMeta[s] = qMeta[s] /\ Claimed(s, qMeta[s]) = {}
             /\ qMeta[s].account = Account[qConf[s]] /\ mMeta[s].account = Account[mConf[s]]
  BY DEF Init, Claimed, Posts
<1>6. CursorsDue
  BY <1>3, <1>5 DEF CursorsDue
<1>7. Owned
  BY <1>2, <1>5 DEF Owned, RuntimeOwned
<1>8. ConsumerInOrder
  BY DEF Init, IdleConsumer, ConsumerInOrder
<1>9. RoundsWhole
  BY <1>2 DEF Init, IdleCollector, RoundsWhole
<1> QED
  BY <1>1, <1>4, <1>6, <1>7, <1>8, <1>9 DEF IInv

LEMMA IInvStep == IInv /\ [Next]_vars => IInv'
BY TypeStep, OneHistoryStep, CursorsDueStep, OwnedStep, ConsumerInOrderStep, RoundsWholeStep DEF IInv

\* The strengthening from which every safety property below follows.
THEOREM Inductive == Spec => []IInv
BY InitIInv, IInvStep, PTL DEF Spec

(***************************************************************************)
(* Safety                                                                   *)
(***************************************************************************)

\* No runtime of the main database claims a post that main does not hold.
THEOREM CursorCovered == Spec => []MainCursorCovered
<1>1. IInv => MainCursorCovered
  BY DEF IInv, CursorsDue, MainCursorCovered
<1> QED
  BY <1>1, Inductive, PTL

\* A runtime only ever sits under a configuration of its own account.
THEOREM Ownership == Spec => []RuntimeOwned
<1>1. IInv => RuntimeOwned
  BY DEF IInv, Owned
<1> QED
  BY <1>1, Inductive, PTL

\* Nothing the collector's cursors have passed is lost on the way to main.
THEOREM NothingLost == Spec => []CollectedIsDeliverable
<1>1. IInv => CollectedIsDeliverable
  <2> SUFFICES ASSUME IInv, NEW s \in Sources, NEW p \in Claimed(s, qMeta[s])
               PROVE  p \in mItems \/ \E i \in DOMAIN outbox : p \in Content(outbox[i])
    BY DEF CollectedIsDeliverable
  <2>1. Due(p, lastId)
    BY DEF IInv, CursorsDue
  <2> QED
    BY <2>1 DEF Due, IInv, OneHistory
<1> QED
  BY <1>1, Inductive, PTL

\* A row of the outbox is deleted only after main has acknowledged it.
THEOREM AckFirst == Spec => []AckedBeforeDeleted
<1>1. IInv => AckedBeforeDeleted
  BY DEF IInv, OneHistory, Pending, AckedBeforeDeleted
<1> QED
  BY <1>1, Inductive, PTL

\* The acknowledgement the consumer finds for a row is the row's own.
THEOREM AckOfRow == Spec => []AckMatchesRow
<1>1. IInv => AckMatchesRow
  BY DEF IInv, OneHistory, AckMatchesRow
<1> QED
  BY <1>1, Inductive, PTL

\* So the consumer may trust the acknowledgements: what it deletes was applied,
\* and what it skips was applied from this very row.
THEOREM AcksAreReliable == Spec => []Acknowledged
<1>1. AckedBeforeDeleted /\ AckMatchesRow => Acknowledged
  BY DEF Acknowledged
<1> QED
  BY <1>1, AckFirst, AckOfRow, PTL

\* A receipt of a complete round is evidence that every source was fetched in
\* that round and that what it brought is in main.
THEOREM ReceiptIsEvidence == Spec => []ReceiptCoversRound
<1>1. IInv => ReceiptCoversRound
  <2> SUFFICES ASSUME IInv, NEW i \in DOMAIN acks, acks[i].completed, NEW s \in Sources
               PROVE  /\ <<acks[i].row.run, s>> \in fetched
                      /\ \E j \in DOMAIN acks : /\ acks[j].row.kind = "source"
                                                /\ acks[j].row.source = s
                                                /\ acks[j].row.run = acks[i].row.run
    BY DEF ReceiptCoversRound
  <2>1. /\ acks[i] = [row |-> published[i],
                      completed |-> published[i].kind = "round" /\ published[i].failed = 0]
        /\ DOMAIN acks = 1..Len(applied) /\ DOMAIN acks \subseteq 1..lastId
        /\ lastId \in Nat /\ Len(applied) \in Nat
    BY DEF IInv, OneHistory, TypeOK, OutboxType, AcksType
  <2>2. FetchedInRun(s, published[i].run, i)
    <3> DEFINE whole == published[i].kind = "round" /\ published[i].failed = 0
    <3>1. acks[i] = [row |-> published[i], completed |-> whole]
      BY <2>1
    <3>2. whole
      <4> HIDE DEF whole
      <4> QED
        BY <3>1
    <3>3. i \in 1..lastId
      BY <2>1
    <3> QED
      BY <3>2, <3>3 DEF IInv, RoundsWhole
  <2>3. <<published[i].run, s>> \in fetched
    BY <2>2 DEF FetchedInRun
  <2>4. PICK j \in 1..i : /\ published[j].kind = "source"
                          /\ published[j].source = s
                          /\ published[j].run = published[i].run
    BY <2>2 DEF FetchedInRun
  <2>5. j \in DOMAIN acks
    BY <2>1
  <2>6. acks[j].row = published[j] /\ acks[i].row = published[i]
    BY <2>1, <2>5 DEF IInv, OneHistory
  <2> QED
    BY <2>3, <2>4, <2>5, <2>6
<1> QED
  BY <1>1, Inductive, PTL

(***************************************************************************)
(* Refinement                                                               *)
(***************************************************************************)

LEMMA DeliveryStep == IInv /\ [Next]_vars => [Delivery!Next]_(Delivery!deliveryVars)
<1> SUFFICES ASSUME IInv, [Next]_vars PROVE [Delivery!Next]_(Delivery!deliveryVars)
  OBVIOUS
<1> USE DEF envVars, queueVars, mainVars, Delivery!deliveryVars
<1>1. CASE UNCHANGED <<published, applied, mItems>>
  BY <1>1
<1>2. ASSUME NEW b \in Batch, Insert(b), UNCHANGED <<applied, mItems>> PROVE Delivery!Publish
  <2>1. published' = Append(published, b) /\ published \in Seq(Batch)
    BY <1>2 DEF Insert, IInv, TypeOK, OutboxType
  <2>2. Len(published') = Len(published) + 1 /\ published'[Len(published')] = b
    BY <2>1, AppendProperties
  <2> QED
    BY <1>2, <2>1, <2>2 DEF Delivery!Publish
<1>3. ASSUME NEW i \in consumer.todo, ApplyBatch(i) PROVE Delivery!Deliver
  <2>1. /\ i = Len(applied) + 1 /\ i \in 1..lastId /\ outbox[i] = published[i]
        /\ Len(published) = lastId /\ lastId \in Nat /\ Len(applied) \in Nat
    BY <1>3, ApplyIsNext DEF IInv, Pending, TypeOK, OutboxType, AcksType
  <2>2. /\ applied' = Append(applied, published[i])
        /\ mItems' = mItems \cup Content(published[i])
        /\ UNCHANGED published
    BY <1>3, <2>1 DEF ApplyBatch
  <2> QED
    BY <2>1, <2>2 DEF Delivery!Deliver
<1>4. ASSUME NEW upto \in [Sources -> 0..MaxPost], DirectRound(upto) PROVE Delivery!WriteDirectly
  BY <1>4 DEF DirectRound, Delivery!WriteDirectly
<1>5. CASE CollectorStep
  <2>1. CASE StartRound \/ FinishRaw \/ CrashCollector
    BY <1>1, <2>1 DEF StartRound, FinishRaw, CrashCollector
  <2>2. ASSUME NEW s \in Sources, BeginSource(s) \/ RollbackSource(s)
        PROVE  UNCHANGED <<published, applied, mItems>>
    BY <2>2 DEF BeginSource, RollbackSource
  <2>3. ASSUME NEW s \in Sources, CommitFailure(s) \/ \E upto \in 0..MaxPost : CommitSource(s, upto)
        PROVE  Delivery!Publish
    BY <1>2, <2>3, InsertSteps DEF IInv
  <2>4. ASSUME FinishRound PROVE Delivery!Publish
    BY <1>2, <2>4, InsertSteps DEF IInv
  <2> QED
    BY <1>1, <1>5, <2>1, <2>2, <2>3, <2>4 DEF CollectorStep, Delivery!Next
<1>6. CASE ConsumerStep
  <2>1. ASSUME NEW i \in consumer.todo, RepeatBatch(i) \/ RefuseBatch(i) \/ Discard(i)
        PROVE  UNCHANGED <<published, applied, mItems>>
    BY <2>1 DEF RepeatBatch, RefuseBatch, Discard
  <2>2. CASE StartConsume \/ FinishConsume \/ CrashConsumer
    BY <1>1, <2>2 DEF StartConsume, FinishConsume, CrashConsumer
  <2> QED
    BY <1>1, <1>3, <1>6, <2>1, <2>2 DEF ConsumerStep, Delivery!Next
<1>7. CASE OperatorStep
  <2>1. CASE Initialize \/ EnableDecoupled
    BY <1>1, <2>1 DEF Initialize, EnableDecoupled
  <2>2. ASSUME NEW s \in Sources, NEW c \in Confs, EditSource(s, c)
        PROVE  UNCHANGED <<published, applied, mItems>>
    BY <2>2 DEF EditSource
  <2> QED
    BY <1>1, <1>4, <1>7, <2>1, <2>2 DEF OperatorStep, Delivery!Next
<1> QED
  BY <1>1, <1>5, <1>6, <1>7 DEF Next, vars

\* The collector, the outbox and the consumer together implement in-order,
\* exactly-once delivery, whatever crashes, rollbacks, refusals and edits occur.
THEOREM ExactlyOnce == Spec => DeliveredInOrderOnce
<1>1. Init => Delivery!Init
  BY DEF Init, Delivery!Init
<1> QED
  BY <1>1, DeliveryStep, Inductive, PTL DEF Spec, DeliveredInOrderOnce, Delivery!Spec
=============================================================================
