------------------------------ MODULE Ingestion ------------------------------
(***************************************************************************)
(* Decoupled ingestion: a collector process fetches the sources into a      *)
(* collection database (the queue) and, in the same transaction as each     *)
(* source's cursor, appends a batch to its outbox; the processing pipeline  *)
(* consumes the outbox into the main database under the pipeline lock,      *)
(* acknowledging each batch in the transaction that applies it and deleting *)
(* the outbox row only afterwards (src/airadar/fetcher/ingestion.py,        *)
(* fetcher/runner.py, sources/sync.py, migration 023).                      *)
(*                                                                          *)
(* A post of an account is a number: the account publishes 1, 2, 3, ... and *)
(* the source's runtime cursor n says that 1..n have been collected.  A     *)
(* source's configuration names the account it reads; editing the source    *)
(* file may or may not change the account.  Item content, dedup hashes,     *)
(* avatars and raw archives are not told apart here.                        *)
(***************************************************************************)
EXTENDS Naturals, Sequences, FiniteSets

CONSTANTS
  Sources,      \* slugs of the source file
  XSources,     \* those with adapter x_api: their runtime survives a reload
  Confs,        \* configurations a source can be given (configuration_digest)
  Accounts,     \* remote identities
  Account,      \* [Confs -> Accounts]: the identity a configuration names
  MaxPost,      \* bound: posts an account publishes
  MaxRound,     \* bound: collection rounds
  MaxOperator,  \* bound: edits of the source file
  MaxCrash      \* bound: process deaths and failed transactions

ASSUME IngestionAssumption ==
  /\ XSources \subseteq Sources
  /\ Account \in [Confs -> Accounts]
  /\ MaxPost \in Nat
  /\ MaxRound \in Nat
  /\ MaxOperator \in Nat
  /\ MaxCrash \in Nat

VARIABLES
  \* the environment
  file,       \* file[s]: the configuration of s in the source file on disk
  decoupled,  \* AI_RADAR_DECOUPLED_INGESTION
  edits,      \* how often the file was edited (bound)
  crashes,    \* how often a process died or a transaction failed (bound)
  \* the collection database
  bound,      \* ingestion_identity row exists: the queue is bound to main
  qConf,      \* sources rows of the queue: configuration ...
  qMeta,      \* ... and account with cursor (meta_json)
  outbox,     \* ingestion_outbox: id -> batch
  lastId,     \* its AUTOINCREMENT sequence
  \* the main database
  mConf, mMeta,
  mItems,     \* items
  acks,       \* ingestion_acks of this queue: id -> batch digest and receipt
  \* the processes
  collector,  \* state of the collect command
  consumer,   \* state of the ingest command
  \* history
  published,  \* every batch ever inserted into the outbox
  fetched,    \* <<run, s>>: run committed s after a fetch that did not fail
  applied     \* every batch main applied, in the order it did

envVars   == <<file, decoupled, edits, crashes>>
queueVars == <<bound, qConf, qMeta, outbox, lastId, published, fetched>>
mainVars  == <<mConf, mMeta, mItems, acks, applied>>
vars == <<envVars, queueVars, mainVars, collector, consumer>>

-----------------------------------------------------------------------------
(* Data *)

Post == Sources \X Accounts \X (1..MaxPost)
Meta == [account : Accounts, cursor : 0..MaxPost]

SourceBatch == [kind : {"source"}, run : 0..MaxRound, source : Sources, conf : Confs,
                meta : Meta, items : SUBSET Post]
RoundBatch  == [kind : {"round"}, run : 0..MaxRound, failed : Nat]
Batch == SourceBatch \cup RoundBatch
Ack   == [row : Batch, completed : BOOLEAN]

\* The posts from..upto of the account a source reads.
Posts(s, account, from, upto) == {<<s, account, k>> : k \in from..upto}

\* The posts a cursor claims to have collected.
Claimed(s, meta) == Posts(s, meta.account, 1, meta.cursor)

Content(b) == IF b.kind = "source" THEN b.items ELSE {}

Put(f, k, v)  == [x \in DOMAIN f \cup {k} |-> IF x = k THEN v ELSE f[x]]
Drop(f, k)    == [x \in DOMAIN f \ {k} |-> f[x]]

-----------------------------------------------------------------------------
(* Source rows *)

\* sync_to_db: the file's configuration replaces the row; the runtime of an
\* x_api source survives if it still reads the same account.
Synced(metas) ==
  [s \in Sources |->
     IF s \in XSources /\ metas[s].account = Account[file[s]]
       THEN metas[s]
       ELSE [account |-> Account[file[s]], cursor |-> 0]]

\* Mutant of Fetched: one post past the last page.
FetchedPastEnd(s, meta, upto) == Posts(s, meta.account, meta.cursor + 1, upto + 1)

\* _fetch_source_feed of a source whose row is meta: the posts after the
\* cursor, up to whatever the account has published by now.
Fetched(s, meta, upto) == Posts(s, meta.account, meta.cursor + 1, upto)

-----------------------------------------------------------------------------
(* Cut-over *)

\* Seeding the queue: a source whose configuration in main is the file's
\* hands its runtime over, any other starts from nothing.
Seeded ==
  [s \in Sources |->
     IF mConf[s] = file[s] THEN mMeta[s]
                           ELSE [account |-> Account[file[s]], cursor |-> 0]]

\* initialize, run by ingestion-init under both writer locks.
Initialize ==
  /\ ~bound
  /\ collector.pc = "idle"
  /\ consumer.pc = "idle"
  /\ bound' = TRUE
  /\ qConf' = file
  /\ qMeta' = Seeded
  /\ UNCHANGED <<outbox, lastId, published, fetched, envVars, mainVars, collector, consumer>>

\* The operator turns AI_RADAR_DECOUPLED_INGESTION on.
EnableDecoupled ==
  /\ bound
  /\ ~decoupled
  /\ decoupled' = TRUE
  /\ UNCHANGED <<file, edits, crashes, queueVars, mainVars, collector, consumer>>

\* fetch_all without an outbox: the fetch stage of the undecoupled pipeline,
\* under the pipeline lock.  One commit per source; a source that failed, or
\* that a crash cut off, keeps its cursor.
DirectRound(upto) ==
  /\ ~decoupled
  /\ consumer.pc = "idle"
  /\ LET synced == Synced(mMeta) IN
       /\ \A s \in Sources : upto[s] >= synced[s].cursor
       /\ mMeta' = [s \in Sources |-> [synced[s] EXCEPT !.cursor = upto[s]]]
       /\ mItems' = mItems \cup UNION {Fetched(s, synced[s], upto[s]) : s \in Sources}
  /\ mConf' = file
  /\ UNCHANGED <<acks, applied, envVars, queueVars, collector, consumer>>

\* An operator edits the source file.
EditSource(s, c) ==
  /\ edits < MaxOperator
  /\ file[s] # c
  /\ file' = [file EXCEPT ![s] = c]
  /\ edits' = edits + 1
  /\ UNCHANGED <<decoupled, crashes, queueVars, mainVars, collector, consumer>>

-----------------------------------------------------------------------------
(* The collector: collect, fetch_all with an outbox, one process at a time
   (collector lock) *)

IdleCollector(run) == [pc |-> "idle", run |-> run, todo |-> {}, source |-> {}, failed |-> 0]

\* collect takes the lock and checks the binding; fetch_all reloads the
\* sources and opens the raw archive of a new run.
StartRound ==
  /\ decoupled
  /\ bound
  /\ collector.pc = "idle"
  /\ collector.run < MaxRound
  /\ qConf' = file
  /\ qMeta' = Synced(qMeta)
  /\ collector' = [pc |-> "fetching", run |-> collector.run + 1, todo |-> Sources,
                   source |-> {}, failed |-> 0]
  /\ UNCHANGED <<bound, outbox, lastId, published, fetched, envVars, mainVars, consumer>>

\* _apply_source_feed_result reaches its first write: from here to the commit
\* or the rollback it owns the queue's write lock.  as_completed fixes no order.
BeginSource(s) ==
  /\ collector.pc = "fetching"
  /\ s \in collector.todo
  /\ collector' = [collector EXCEPT !.pc = "writing", !.source = {s}, !.todo = @ \ {s}]
  /\ UNCHANGED <<envVars, queueVars, mainVars, consumer>>

\* Mutant of NextId: an INTEGER PRIMARY KEY without AUTOINCREMENT.
NextIdReused == 
  IF DOMAIN outbox = {} THEN 1
                        ELSE 1 + CHOOSE i \in DOMAIN outbox : \A j \in DOMAIN outbox : j <= i

\* The key SQLite gives the next outbox row.
NextId == lastId + 1

\* Outbox._insert
Insert(b) ==
  /\ outbox' = Put(outbox, NextId, b)
  /\ lastId' = NextId
  /\ published' = Append(published, b)

\* Outbox.record: the batch carries the runtime of this very transaction.
Record(s, meta, items) ==
  Insert([kind |-> "source", run |-> collector.run, source |-> s, conf |-> qConf[s],
          meta |-> meta, items |-> items])

\* The fetch succeeded: cursor and batch are committed together.  The batch
\* itself does not say so: only the history variable tells it from a failure.
CommitSource(s, upto) ==
  /\ collector.pc = "writing"
  /\ collector.source = {s}
  /\ upto >= qMeta[s].cursor
  /\ LET meta == [qMeta[s] EXCEPT !.cursor = upto] IN
       /\ qMeta' = [qMeta EXCEPT ![s] = meta]
       /\ Record(s, meta, Fetched(s, qMeta[s], upto))
  /\ fetched' = fetched \cup {<<collector.run, s>>}
  /\ collector' = [collector EXCEPT !.pc = "fetching", !.source = {}]
  /\ UNCHANGED <<bound, qConf, envVars, mainVars, consumer>>

\* Mutant of CommitFailure: the failure is not counted.
FailureUncounted(s) ==
  /\ collector.pc = "writing"
  /\ collector.source = {s}
  /\ Record(s, qMeta[s], {})
  /\ collector' = [collector EXCEPT !.pc = "fetching", !.source = {}]
  /\ UNCHANGED <<bound, qConf, qMeta, fetched, envVars, mainVars, consumer>>

\* The fetch failed: an empty batch with the unmoved cursor is committed and
\* the source counts as failed.
CommitFailure(s) ==
  /\ collector.pc = "writing"
  /\ collector.source = {s}
  /\ Record(s, qMeta[s], {})
  /\ collector' = [collector EXCEPT !.pc = "fetching", !.source = {}, !.failed = @ + 1]
  /\ UNCHANGED <<bound, qConf, qMeta, fetched, envVars, mainVars, consumer>>

\* Mutant of RollbackSource: the cursor was saved in a transaction of its own.
RollbackKeepsCursor(s) ==
  /\ collector.pc = "writing"
  /\ collector.source = {s}
  /\ crashes < MaxCrash
  /\ crashes' = crashes + 1
  /\ qMeta' = [qMeta EXCEPT ![s].cursor = MaxPost]
  /\ collector' = [collector EXCEPT !.pc = "fetching", !.source = {}, !.failed = @ + 1]
  /\ UNCHANGED <<file, decoupled, edits, bound, qConf, outbox, lastId, published, fetched, mainVars, consumer>>

\* The transaction failed: conn.rollback(), and the source counts as failed.
RollbackSource(s) ==
  /\ collector.pc = "writing"
  /\ collector.source = {s}
  /\ crashes < MaxCrash
  /\ crashes' = crashes + 1
  /\ collector' = [collector EXCEPT !.pc = "fetching", !.source = {}, !.failed = @ + 1]
  /\ UNCHANGED <<file, decoupled, edits, queueVars, mainVars, consumer>>

\* archive.finish: the raw run is complete; the round batch is still missing.
FinishRaw ==
  /\ collector.pc = "fetching"
  /\ collector.todo = {}
  /\ collector' = [collector EXCEPT !.pc = "finished"]
  /\ UNCHANGED <<envVars, queueVars, mainVars, consumer>>

\* Outbox.finish: the round batch reports how many sources failed.
FinishRound ==
  /\ collector.pc = "finished"
  /\ Insert([kind |-> "round", run |-> collector.run, failed |-> collector.failed])
  /\ collector' = IdleCollector(collector.run)
  /\ UNCHANGED <<bound, qConf, qMeta, fetched, envVars, mainVars, consumer>>

\* The process dies, or an exception leaves fetch_all: the open transaction
\* is lost, the lock is free, the round is never reported.
CrashCollector ==
  /\ collector.pc # "idle"
  /\ crashes < MaxCrash
  /\ crashes' = crashes + 1
  /\ collector' = IdleCollector(collector.run)
  /\ UNCHANGED <<file, decoupled, edits, queueVars, mainVars, consumer>>

-----------------------------------------------------------------------------
(* The consumer: consume, one process at a time (pipeline lock) *)

IdleConsumer == [pc |-> "idle", todo |-> {}, deferred |-> FALSE]

\* consume checks the binding, reloads main's sources and fixes the batches
\* of this run.
StartConsume ==
  /\ bound
  /\ consumer.pc = "idle"
  /\ mConf' = file
  /\ mMeta' = Synced(mMeta)
  /\ consumer' = [pc |-> "applying", todo |-> DOMAIN outbox, deferred |-> FALSE]
  /\ UNCHANGED <<mItems, acks, applied, envVars, queueVars, collector>>

\* Mutant of Turn: a SELECT without ORDER BY.
TurnUnordered(i) == consumer.pc = "applying" /\ i \in consumer.todo

\* ORDER BY id: i is the batch whose turn it is.
Turn(i) ==
  /\ consumer.pc = "applying"
  /\ i \in consumer.todo
  /\ \A j \in consumer.todo : i <= j

\* After batch i: its outbox row is deleted next, unless cleaning is deferred.
NextBatch(i) ==
  consumer' = IF consumer.deferred
                THEN [consumer EXCEPT !.todo = @ \ {i}]
                ELSE [consumer EXCEPT !.pc = "discarding"]

\* Mutant of Applicable: no comparison of configurations.
ApplicableAlways(b) == TRUE

\* _apply accepts a source batch only under the configuration it was collected
\* with, and a round batch always.
Applicable(b) == b.kind = "source" => mConf[b.source] = b.conf

\* Mutant of ApplyBatch: the acknowledgement is not looked up first.
ApplyAgain(i) ==
  /\ Turn(i)
  /\ i \in DOMAIN outbox
  /\ LET b == outbox[i] IN
       /\ Applicable(b)
       /\ mItems' = mItems \cup Content(b)
       /\ mMeta' = IF b.kind = "source" THEN [mMeta EXCEPT ![b.source] = b.meta] ELSE mMeta
       /\ acks' = Put(acks, i, [row |-> b, completed |-> b.kind = "round" /\ b.failed = 0])
       /\ applied' = Append(applied, b)
  /\ NextBatch(i)
  /\ UNCHANGED <<mConf, envVars, queueVars, collector>>

\* The main transaction of a batch that has no acknowledgement: items, runtime
\* and acknowledgement, a receipt if it closes a round without failures.
ApplyBatch(i) ==
  /\ Turn(i)
  /\ i \in DOMAIN outbox
  /\ i \notin DOMAIN acks
  /\ LET b == outbox[i] IN
       /\ Applicable(b)
       /\ mItems' = mItems \cup Content(b)
       /\ mMeta' = IF b.kind = "source" THEN [mMeta EXCEPT ![b.source] = b.meta] ELSE mMeta
       /\ acks' = Put(acks, i, [row |-> b, completed |-> b.kind = "round" /\ b.failed = 0])
       /\ applied' = Append(applied, b)
  /\ NextBatch(i)
  /\ UNCHANGED <<mConf, envVars, queueVars, collector>>

\* Mutant of RepeatBatch: an acknowledged row is skipped and not deleted.
RepeatSkipped(i) ==
  /\ Turn(i)
  /\ i \in DOMAIN outbox \cap DOMAIN acks
  /\ consumer' = [consumer EXCEPT !.todo = @ \ {i}]
  /\ UNCHANGED <<envVars, queueVars, mainVars, collector>>

\* A batch acknowledged by an earlier run is not applied again.
RepeatBatch(i) ==
  /\ Turn(i)
  /\ i \in DOMAIN outbox
  /\ i \in DOMAIN acks
  /\ acks[i].row = outbox[i]
  /\ NextBatch(i)
  /\ UNCHANGED <<envVars, queueVars, mainVars, collector>>

\* The ValueErrors of consume: the row is gone, the acknowledged payload is
\* another one, or the configuration differs.  The run ends, the batch stays.
RefuseBatch(i) ==
  /\ Turn(i)
  /\ \/ i \notin DOMAIN outbox
     \/ i \in DOMAIN outbox \cap DOMAIN acks /\ acks[i].row # outbox[i]
     \/ i \in DOMAIN outbox \ DOMAIN acks /\ ~Applicable(outbox[i])
  /\ consumer' = IdleConsumer
  /\ UNCHANGED <<envVars, queueVars, mainVars, collector>>

\* _discard: the row is deleted, or SQLITE_BUSY because the collector owns the
\* write lock defers all cleaning of this run.
Discard(i) ==
  /\ consumer.pc = "discarding"
  /\ i \in consumer.todo
  /\ \A j \in consumer.todo : i <= j
  /\ IF collector.pc = "writing"
       THEN /\ consumer' = [consumer EXCEPT !.pc = "applying", !.todo = @ \ {i}, !.deferred = TRUE]
            /\ UNCHANGED outbox
       ELSE /\ consumer' = [consumer EXCEPT !.pc = "applying", !.todo = @ \ {i}]
            /\ outbox' = Drop(outbox, i)
  /\ UNCHANGED <<bound, qConf, qMeta, lastId, published, fetched, envVars, mainVars, collector>>

FinishConsume ==
  /\ consumer.pc = "applying"
  /\ consumer.todo = {}
  /\ consumer' = IdleConsumer
  /\ UNCHANGED <<envVars, queueVars, mainVars, collector>>

\* The process dies between two transactions, or one of them fails.
CrashConsumer ==
  /\ consumer.pc # "idle"
  /\ crashes < MaxCrash
  /\ crashes' = crashes + 1
  /\ consumer' = IdleConsumer
  /\ UNCHANGED <<file, decoupled, edits, queueVars, mainVars, collector>>

-----------------------------------------------------------------------------
(* Specification *)

\* An undecoupled installation whose sources have been loaded.
Init ==
  /\ file \in [Sources -> Confs]
  /\ decoupled = FALSE
  /\ edits = 0
  /\ crashes = 0
  /\ bound = FALSE
  /\ qConf = file
  /\ qMeta = [s \in Sources |-> [account |-> Account[file[s]], cursor |-> 0]]
  /\ outbox = [i \in {} |-> {}]
  /\ lastId = 0
  /\ published = <<>>
  /\ fetched = {}
  /\ mConf = file
  /\ mMeta = qMeta
  /\ mItems = {}
  /\ acks = [i \in {} |-> {}]
  /\ applied = <<>>
  /\ collector = IdleCollector(0)
  /\ consumer = IdleConsumer

CollectorStep ==
  \/ StartRound
  \/ \E s \in Sources :
       \/ BeginSource(s)
       \/ \E upto \in 0..MaxPost : CommitSource(s, upto)
       \/ CommitFailure(s)
       \/ RollbackSource(s)
  \/ FinishRaw
  \/ FinishRound
  \/ CrashCollector

ConsumerStep ==
  \/ StartConsume
  \/ \E i \in consumer.todo :
       ApplyBatch(i) \/ RepeatBatch(i) \/ RefuseBatch(i) \/ Discard(i)
  \/ FinishConsume
  \/ CrashConsumer

OperatorStep ==
  \/ Initialize
  \/ EnableDecoupled
  \/ \E upto \in [Sources -> 0..MaxPost] : DirectRound(upto)
  \/ \E s \in Sources, c \in Confs : EditSource(s, c)

Next == CollectorStep \/ ConsumerStep \/ OperatorStep

Spec == Init /\ [][Next]_vars

\* cron starts the pipeline again and again once decoupled mode is on, and a
\* started consumer or collector takes its next step (the supervisor ends one
\* that does not).  Nobody promises a new round, an edit or a successful fetch.
Fairness ==
  /\ WF_vars(decoupled /\ StartConsume)
  /\ WF_vars(\E i \in consumer.todo :
                ApplyBatch(i) \/ RepeatBatch(i) \/ RefuseBatch(i) \/ Discard(i))
  /\ WF_vars(FinishConsume)
  /\ WF_vars(\E s \in Sources : BeginSource(s))
  /\ WF_vars(\E s \in Sources :
                CommitFailure(s) \/ \E upto \in 0..MaxPost : CommitSource(s, upto))
  /\ WF_vars(FinishRaw \/ FinishRound)

FairSpec == Spec /\ Fairness

-----------------------------------------------------------------------------
(* Properties *)

EnvType ==
  /\ file \in [Sources -> Confs]
  /\ decoupled \in BOOLEAN
  /\ edits \in 0..MaxOperator
  /\ crashes \in 0..MaxCrash

OutboxType ==
  /\ lastId \in Nat
  /\ published \in Seq(Batch)
  /\ Len(published) = lastId
  /\ fetched \subseteq (0..MaxRound) \X Sources
  /\ DOMAIN outbox \subseteq 1..lastId
  /\ \A i \in DOMAIN outbox : outbox[i] \in Batch

RowsType ==
  /\ bound \in BOOLEAN
  /\ qConf \in [Sources -> Confs] /\ qMeta \in [Sources -> Meta]
  /\ mConf \in [Sources -> Confs] /\ mMeta \in [Sources -> Meta]
  /\ mItems \subseteq Post

AcksType ==
  /\ DOMAIN acks \subseteq 1..lastId
  /\ \A i \in DOMAIN acks : acks[i] \in Ack
  /\ applied \in Seq(Batch)

CollectorType ==
  collector \in [pc : {"idle", "fetching", "writing", "finished"}, run : 0..MaxRound,
                todo : SUBSET Sources, source : SUBSET Sources, failed : Nat]

ConsumerType ==
  consumer \in [pc : {"idle", "applying", "discarding"}, todo : SUBSET (1..lastId),
               deferred : BOOLEAN]

\* Every variable holds a value of its kind, and the outbox, its sequence and
\* the acknowledgements agree on which keys exist.
TypeOK ==
  EnvType /\ OutboxType /\ RowsType /\ AcksType /\ CollectorType /\ ConsumerType

\* A cursor in the main database never runs ahead of the main database's
\* items: whatever the runtime says was collected is there, although runtime
\* and items travel through two databases, replays, refusals and edits of the
\* source file (ADR 20260916-e3a8, decision 4).
MainCursorCovered == \A s \in Sources : Claimed(s, mMeta[s]) \subseteq mItems

\* A runtime is only ever stored under a configuration that reads the account
\* the runtime belongs to: no cursor of one account ends up in the row of
\* another, although batches collected before an edit of the source file are
\* consumed after it.
RuntimeOwned ==
  \A s \in Sources :
    /\ qMeta[s].account = Account[qConf[s]]
    /\ mMeta[s].account = Account[mConf[s]]

\* A cursor in the collection database never runs ahead of what can still be
\* delivered: each post it has passed is in main or in a batch of the outbox
\* (ADR 20260916-e3a8, decision 3), whenever the collector or the consumer died.
CollectedIsDeliverable ==
  \A s \in Sources : \A p \in Claimed(s, qMeta[s]) :
    p \in mItems \/ \E i \in DOMAIN outbox : p \in Content(outbox[i])

\* No row leaves the outbox before its acknowledgement is in main.
AckedBeforeDeleted == 1..lastId \subseteq DOMAIN outbox \cup DOMAIN acks

\* An acknowledgement speaks of the row that carries its id, so that the
\* consumer never finds an "acknowledged batch payload changed" and never
\* skips a batch for the acknowledgement of another (AUTOINCREMENT).
AckMatchesRow == \A i \in DOMAIN acks \cap DOMAIN outbox : acks[i].row = outbox[i]

\* What the two guard together: a row that is gone was applied, a row that is
\* still there and acknowledged is only deleted, never applied again.
Acknowledged == AckedBeforeDeleted /\ AckMatchesRow

\* A receipt of a complete round, the evidence the pipeline resolves the
\* browser alert from, is only in main once every source of that round was
\* fetched without a failure and its batch applied (ADR 20260916-e3a8,
\* decision 5: an interrupted round is no evidence).  A source that failed has
\* an acknowledged batch of the round as well: that batch alone is no evidence.
ReceiptCoversRound ==
  \A i \in DOMAIN acks : acks[i].completed =>
    \A s \in Sources :
      /\ <<acks[i].row.run, s>> \in fetched
      /\ \E j \in DOMAIN acks :
           /\ acks[j].row.kind = "source"
           /\ acks[j].row.source = s
           /\ acks[j].row.run = acks[i].row.run

\* The abstract promise: exactly once, in order, nothing lost.
Delivery == INSTANCE OutboxDelivery WITH
  log <- published, received <- applied, store <- mItems

DeliveredInOrderOnce == Delivery!Spec

-----------------------------------------------------------------------------
(* Inductive invariant *)

Pending == (1..lastId) \ DOMAIN acks

\* p is in main, or will be once the pending batches up to i are applied.
Due(p, i) == p \in mItems \/ \E j \in Pending : j <= i /\ p \in Content(published[j])

\* Outbox and acknowledgements are views of one history: main has applied a
\* prefix of it and acknowledged just that prefix, the rest is in the outbox.
OneHistory ==
  /\ \A i \in DOMAIN outbox : outbox[i] = published[i]
  /\ DOMAIN acks = 1..Len(applied)
  /\ \A i \in DOMAIN acks :
       /\ applied[i] = published[i]
       /\ acks[i] = [row |-> published[i],
                     completed |-> published[i].kind = "round" /\ published[i].failed = 0]
  /\ Pending \subseteq DOMAIN outbox

\* Each batch leaves nothing behind it: what its cursor claims is due with it.
CursorsDue ==
  /\ \A s \in Sources : \A p \in Claimed(s, mMeta[s]) : p \in mItems
  /\ \A s \in Sources : \A p \in Claimed(s, qMeta[s]) : Due(p, lastId)
  /\ \A i \in Pending : published[i].kind = "source" =>
       \A p \in Claimed(published[i].source, published[i].meta) : Due(p, i)

\* Runtimes, also those on their way, belong to the account of their
\* configuration.
Owned ==
  /\ RuntimeOwned
  /\ \A i \in 1..lastId : published[i].kind = "source" =>
       published[i].meta.account = Account[published[i].conf]

\* The consumer's work list is a stretch of the outbox with no pending batch
\* left out below it; the row it is about to delete is acknowledged.
ConsumerInOrder ==
  /\ consumer.todo \subseteq DOMAIN outbox
  /\ \A i \in consumer.todo : \A j \in Pending : j <= i => j \in consumer.todo
  /\ consumer.pc = "discarding" =>
       \E i \in consumer.todo \cap DOMAIN acks : \A j \in consumer.todo : i <= j

FetchedInRun(s, run, i) ==
  /\ <<run, s>> \in fetched
  /\ \E j \in 1..i :
       /\ published[j].kind = "source"
       /\ published[j].source = s
       /\ published[j].run = run

\* A round without failures has fetched every source it is done with and has
\* a batch of it, and its round batch comes after them all.
RoundsWhole ==
  /\ collector.pc # "idle" /\ collector.failed = 0 =>
       \A s \in Sources \ (collector.todo \cup collector.source) :
         FetchedInRun(s, collector.run, lastId)
  /\ collector.pc = "fetching" => collector.source = {}
  /\ collector.pc = "finished" => collector.todo = {} /\ collector.source = {}
  /\ \A i \in 1..lastId : published[i].kind = "round" /\ published[i].failed = 0 =>
       \A s \in Sources : FetchedInRun(s, published[i].run, i)

\* The inductive invariant behind the safety properties above.
IInv ==
  /\ TypeOK
  /\ OneHistory
  /\ CursorsDue
  /\ Owned
  /\ ConsumerInOrder
  /\ RoundsWhole

-----------------------------------------------------------------------------
(* Liveness *)

BatchIds == 1..(MaxRound * (Cardinality(Sources) + 1))

\* Batch i and the batches it has to wait for were collected under the
\* configuration the source file has now.
Deliverable(i) ==
  /\ decoupled
  /\ i <= lastId
  /\ \A j \in (1..i) \ DOMAIN acks :
       published[j].kind = "source" => file[published[j].source] = published[j].conf

\* A batch reaches main unless an edit of the source file holds it or a batch
\* before it back: crashes, refusals and a busy queue only delay it.
PendingIsDelivered ==
  \A i \in BatchIds : <>[]Deliverable(i) => <>(i \in DOMAIN acks)

\* Deferred and interrupted cleaning is made up for: an acknowledged row does
\* not stay in the outbox, even when a batch behind it is refused for ever.
AcknowledgedRowsGo ==
  \A i \in BatchIds :
    (decoupled /\ i \in DOMAIN outbox \cap DOMAIN acks) ~> (i \notin DOMAIN outbox)

\* The outbox drains: deliverable batches reach main and delivered ones leave.
OutboxDrains == PendingIsDelivered /\ AcknowledgedRowsGo
=============================================================================
