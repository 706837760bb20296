------------------------------ MODULE HotCache ------------------------------
(***************************************************************************)
(* The candidate cache of the hot page: requests only peek at one entry,    *)
(* one keeper thread fills it (src/airadar/web/routes/hot_cache.py,         *)
(* ADR-060).                                                                *)
(*                                                                          *)
(* candidate_version is made of counters (generations, curation runs) and a *)
(* digest of the sources.  Writes it does not notice are bounded only by    *)
(* the age of the entry.  Time is kept as ages, so that it may pass for     *)
(* ever.                                                                    *)
(***************************************************************************)
EXTENDS Naturals

CONSTANTS
  Databases,     \* paths the cache may be bound to
  NoEntry,       \* the cache holds nothing
  RefreshAfter,  \* REFRESH_AFTER_SECONDS
  MaxStale,      \* MAX_STALE_SECONDS
  Poll,          \* KEEPER_POLL_SECONDS
  Hydration,     \* the longest an iteration of the keeper takes
  Digests,       \* what the sources of a database may be
  MaxWrites,     \* bound: counted writes of a database
  MaxBinds,      \* bound: rebinds
  MaxFailures    \* bound: failed keeper iterations

ASSUME HotCacheAssumption ==
  /\ RefreshAfter \in Nat \ {0} /\ MaxStale \in Nat /\ Poll \in Nat \ {0} /\ Hydration \in Nat
  /\ RefreshAfter + Poll + Hydration <= MaxStale
  /\ Digests # {}
  /\ MaxWrites \in Nat /\ MaxBinds \in Nat /\ MaxFailures \in Nat

VARIABLES
  signalled,   \* signalled[d]: writes of d that the version counts
  sources,     \* sources[d]: the sources of d, of which the version has a digest
  path,        \* _db_path
  entry,       \* _candidates, _version and _stored_at
  keeper,      \* the keeper thread
  binds, failures   \* bounds

vars == <<signalled, sources, path, entry, keeper, binds, failures>>

\* Ages are counted up to Old, where nothing tells them apart any more.
Old == MaxStale + Hydration + 1

-----------------------------------------------------------------------------
(* The cache *)

\* What candidate_version reads, and what a hydration makes of a database.
Version == [writes : Nat, sources : Digests]

VersionOf(d) == [writes |-> signalled[d], sources |-> sources[d]]

\* seen: what the candidates include; age: since _stored_at; readAge: since
\* the hydration began to read.
Entry == [db : Databases, version : Version, seen : Version, age : 0..Old, readAge : 0..Old]

\* Mutant of Served: the age of the entry is not looked at.
ServedAlways == entry

\* peek
Served == IF entry # NoEntry /\ entry.age < MaxStale THEN entry ELSE NoEntry

\* Mutant of StillCurrent: only the age counts.
CurrentByAge == entry # NoEntry /\ entry.age < RefreshAfter

\* Mutant of StillCurrent: an entry is refreshed when it may no longer be served.
CurrentWhileServed ==
  /\ entry # NoEntry
  /\ entry.version = keeper.version /\ entry.db = keeper.db
  /\ entry.age < MaxStale

\* What _refresh_if_needed takes for a current entry.
StillCurrent ==
  /\ entry # NoEntry
  /\ entry.version = keeper.version /\ entry.db = keeper.db
  /\ entry.age < RefreshAfter

-----------------------------------------------------------------------------
(* Other processes and the application *)

\* A write the version counts: a curation run, a curated item, ...
Write(d) ==
  /\ signalled[d] < MaxWrites
  /\ signalled' = [signalled EXCEPT ![d] = @ + 1]
  /\ UNCHANGED <<sources, path, entry, keeper, binds, failures>>

\* A write of the sources table.
EditSources(d) ==
  /\ \E new \in Digests \ {sources[d]} : sources' = [sources EXCEPT ![d] = new]
  /\ UNCHANGED <<signalled, path, entry, keeper, binds, failures>>

\* Mutant of Bind: the entry of the other database is kept.
BindKeeps(d) ==
  /\ binds < MaxBinds
  /\ path # d
  /\ path' = d
  /\ binds' = binds + 1
  /\ UNCHANGED <<signalled, sources, entry, keeper, failures>>

\* bind, when the path is another one
Bind(d) ==
  /\ binds < MaxBinds
  /\ path # d
  /\ path' = d
  /\ entry' = NoEntry
  /\ binds' = binds + 1
  /\ UNCHANGED <<signalled, sources, keeper, failures>>

-----------------------------------------------------------------------------
(* The keeper *)

\* Between two iterations, where only the clock counts.
Asleep == [pc |-> "asleep", clock |-> 0, db |-> path,
           version |-> VersionOf(path), seen |-> VersionOf(path), readAge |-> 0]

\* _refresh_if_needed: connect to _db_path and read its version.
ReadVersion ==
  /\ keeper.pc = "asleep" /\ keeper.clock = Poll
  /\ keeper' = [Asleep EXCEPT !.pc = "versioned", !.db = path, !.version = VersionOf(path)]
  /\ UNCHANGED <<signalled, sources, path, entry, binds, failures>>

\* The entry is current: back to sleep.
Skip ==
  /\ keeper.pc = "versioned"
  /\ StillCurrent
  /\ keeper' = Asleep
  /\ UNCHANGED <<signalled, sources, path, entry, binds, failures>>

\* Mutant of Hydrate: the version is read after the candidates.
HydrateFirst ==
  /\ keeper.pc = "versioned"
  /\ ~ StillCurrent
  /\ \E later \in signalled[keeper.db]..MaxWrites :
       keeper' = [keeper EXCEPT !.pc = "hydrating", !.version.writes = later,
                                !.seen = VersionOf(keeper.db), !.readAge = 0]
  /\ UNCHANGED <<signalled, sources, path, entry, binds, failures>>

\* compute_candidates: its first query; the ones after it may see more.
Hydrate ==
  /\ keeper.pc = "versioned"
  /\ ~ StillCurrent
  /\ keeper' = [keeper EXCEPT !.pc = "hydrating", !.seen = VersionOf(keeper.db), !.readAge = 0]
  /\ UNCHANGED <<signalled, sources, path, entry, binds, failures>>

\* Mutant of Store: the version is not stored with the candidates.
StoreUnversioned ==
  /\ keeper.pc = "hydrating"
  /\ entry' = [db |-> keeper.db, version |-> IF entry = NoEntry THEN NoEntry ELSE entry.version,
               seen |-> keeper.seen, age |-> 0, readAge |-> keeper.readAge]
  /\ keeper' = Asleep
  /\ UNCHANGED <<signalled, sources, path, binds, failures>>

\* The candidates are stored under the version read before them.
Store ==
  /\ keeper.pc = "hydrating"
  /\ entry' = [db |-> keeper.db, version |-> keeper.version, seen |-> keeper.seen,
               age |-> 0, readAge |-> keeper.readAge]
  /\ keeper' = Asleep
  /\ UNCHANGED <<signalled, sources, path, binds, failures>>

\* Mutant of Fail: the thread ends with the iteration.
FailForGood ==
  /\ keeper.pc # "asleep"
  /\ failures < MaxFailures
  /\ failures' = failures + 1
  /\ keeper' = [Asleep EXCEPT !.pc = "ended"]
  /\ UNCHANGED <<signalled, sources, path, entry, binds>>

\* An iteration raises; _keep_warm logs it and goes on.
Fail ==
  /\ keeper.pc # "asleep"
  /\ failures < MaxFailures
  /\ failures' = failures + 1
  /\ keeper' = Asleep
  /\ UNCHANGED <<signalled, sources, path, entry, binds>>

-----------------------------------------------------------------------------
(* Time *)

Older(age) == IF age < Old THEN age + 1 ELSE Old

\* A second passes, if the keeper need not have moved on before.
Tick ==
  /\ keeper.clock < IF keeper.pc = "asleep" THEN Poll ELSE Hydration
  /\ keeper' = [keeper EXCEPT !.clock = @ + 1,
                              !.readAge = IF keeper.pc = "hydrating" THEN Older(@) ELSE 0]
  /\ entry' = IF entry = NoEntry THEN NoEntry
              ELSE [entry EXCEPT !.age = Older(@), !.readAge = Older(@)]
  /\ UNCHANGED <<signalled, sources, path, binds, failures>>

-----------------------------------------------------------------------------
(* Specification *)

\* prewarm_hot_candidates: bound, and a keeper about to poll at once.
Init ==
  /\ signalled = [d \in Databases |-> 0]
  /\ sources \in [Databases -> Digests]
  /\ path \in Databases
  /\ entry = NoEntry
  /\ keeper = [Asleep EXCEPT !.clock = Poll]
  /\ binds = 0
  /\ failures = 0

Keeper == ReadVersion \/ Skip \/ Hydrate \/ Store

Next ==
  \/ \E d \in Databases : Write(d) \/ EditSources(d) \/ Bind(d)
  \/ Keeper \/ Fail \/ Tick

Spec == Init /\ [][Next]_vars

\* The keeper's loop never ends, and time passes.
FairSpec == Spec /\ WF_vars(Keeper) /\ WF_vars(Tick)

-----------------------------------------------------------------------------
(* Properties *)

\* Every variable holds a value of its kind; an iteration stays in its time.
TypeOK ==
  /\ signalled \in [Databases -> 0..MaxWrites] /\ sources \in [Databases -> Digests]
  /\ path \in Databases
  /\ entry \in Entry \cup {NoEntry}
  /\ keeper \in [pc : {"asleep", "versioned", "hydrating"}, clock : Nat,
                 db : Databases, version : Version, seen : Version, readAge : 0..Old]
  /\ keeper.clock <= IF keeper.pc = "asleep" THEN Poll ELSE Hydration
  /\ binds \in 0..MaxBinds /\ failures \in 0..MaxFailures

\* No counted write is missed: as long as the version of an entry counts what
\* its database counts, the candidates include all of it, so an entry that
\* _refresh_if_needed takes for current lacks no curation run.
NoMissedWrite ==
  entry # NoEntry =>
    /\ entry.version.writes <= signalled[entry.db]
    /\ entry.version.writes = signalled[entry.db] => entry.seen.writes = signalled[entry.db]

\* "Version tuple that must change whenever the cached candidates could"
\* (hot_cache.py 102): an entry with the version of its database shows it.
VersionTells ==
  entry # NoEntry /\ entry.version = VersionOf(entry.db) => entry.seen = VersionOf(entry.db)

\* The staleness ceiling: what a request is served was read at most MaxStale
\* and one hydration ago, although _stored_at is taken after the hydration
\* (MAX_STALE_SECONDS stands in for the writes the version does not notice).
Ceiling == Served # NoEntry => Served.readAge < MaxStale + Hydration

\* While no iteration fails, an entry is replaced before it is too old to be
\* served: 120 s leave a minute for the refresh to land (hot_cache.py 48-50).
NeverExpires == failures = 0 /\ entry # NoEntry => Served # NoEntry

\* A request is served the candidates of the database the cache is bound to,
\* as the docstring of bind says (hot_cache.py 231).
ServedIsBound == Served # NoEntry => Served.db = path

\* What a keeper stored for a database the cache is no longer bound to is gone
\* after one more poll and hydration: its version names the database.
ForeignIsBrief ==
  failures = 0 /\ entry # NoEntry /\ entry.db # path => entry.age <= Poll + Hydration

\* The inductive invariant behind the four invariants that hold.
VersionFirst ==
  /\ keeper.pc # "asleep" => keeper.version.writes <= signalled[keeper.db]
  /\ keeper.pc = "hydrating" =>
       /\ keeper.version.writes <= keeper.seen.writes
       /\ keeper.seen.writes <= signalled[keeper.db]
       /\ keeper.readAge <= keeper.clock
  /\ entry # NoEntry =>
       /\ entry.version.writes <= entry.seen.writes
       /\ entry.seen.writes <= signalled[entry.db]
       /\ entry.readAge <= entry.age + Hydration

\* How old an entry may be, by where the keeper is.
InTime ==
  failures = 0 /\ entry # NoEntry =>
    /\ keeper.pc = "asleep" => entry.age <= RefreshAfter - 1 + keeper.clock
    /\ keeper.pc # "asleep" => entry.age <= RefreshAfter - 1 + Poll + keeper.clock
    /\ entry.db # path =>
         /\ keeper.pc = "asleep" => entry.age <= keeper.clock
         /\ keeper.pc # "asleep" => keeper.db = path /\ entry.age <= Poll + keeper.clock

IInv == TypeOK /\ VersionFirst /\ InTime

\* Every write is served in the end, also after rebinds and failed iterations.
EventuallyServed ==
  \A d \in Databases : \A n \in 0..MaxWrites :
    path = d /\ signalled[d] = n
      ~> path # d \/ (Served # NoEntry /\ Served.db = d /\ Served.seen.writes >= n)
=============================================================================
