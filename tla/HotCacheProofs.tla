--------------------------- MODULE HotCacheProofs ---------------------------
(***************************************************************************)
(* Proofs about HotCache for all databases, any digests and any times that  *)
(* leave room for a poll and a hydration before an entry is too old.        *)
(***************************************************************************)
EXTENDS HotCache, TLAPS

LEMMA Constants ==
  /\ RefreshAfter \in Nat /\ RefreshAfter # 0 /\ MaxStale \in Nat /\ Poll \in Nat /\ Poll # 0
  /\ Hydration \in Nat /\ RefreshAfter + Poll + Hydration <= MaxStale
  /\ MaxWrites \in Nat /\ MaxBinds \in Nat /\ MaxFailures \in Nat
  /\ Old \in Nat /\ Old = MaxStale + Hydration + 1 /\ 0 \in 0..Old
BY HotCacheAssumption DEF Old

LEMMA OlderFacts ==
  ASSUME NEW age \in 0..Old
  PROVE  Older(age) \in 0..Old /\ Older(age) <= age + 1 /\ (age < Old => Older(age) = age + 1)
BY Constants DEF Older

LEMMA VersionFacts ==
  ASSUME TypeOK, NEW d \in Databases
  PROVE  VersionOf(d) \in Version /\ VersionOf(d).writes = signalled[d] /\ signalled[d] \in Nat
<1>1. signalled[d] \in 0..MaxWrites /\ sources[d] \in Digests
  BY DEF TypeOK
<1> QED
  BY <1>1, Constants DEF VersionOf, Version

\* The types of the keeper's and the entry's fields.
LEMMA Fields ==
  ASSUME TypeOK
  PROVE  /\ keeper.pc \in {"asleep", "versioned", "hydrating"} /\ keeper.clock \in Nat
         /\ keeper.db \in Databases /\ keeper.version \in Version /\ keeper.seen \in Version
         /\ keeper.readAge \in 0..Old
         /\ keeper.version.writes \in Nat /\ keeper.seen.writes \in Nat
         /\ signalled[keeper.db] \in Nat
         /\ entry # NoEntry =>
              /\ entry \in Entry /\ entry.db \in Databases /\ entry.version \in Version
              /\ entry.seen \in Version /\ entry.age \in 0..Old /\ entry.readAge \in 0..Old
              /\ entry.version.writes \in Nat /\ entry.seen.writes \in Nat
              /\ signalled[entry.db] \in Nat
<1>1. /\ keeper.pc \in {"asleep", "versioned", "hydrating"} /\ keeper.clock \in Nat
      /\ keeper.db \in Databases /\ keeper.version \in Version /\ keeper.seen \in Version
      /\ keeper.readAge \in 0..Old
  BY DEF TypeOK
<1>2. keeper.version.writes \in Nat /\ keeper.seen.writes \in Nat
  BY <1>1 DEF Version
<1>3. \A d \in Databases : signalled[d] \in Nat
  BY VersionFacts
<1>4. ASSUME entry # NoEntry
      PROVE  /\ entry \in Entry /\ entry.db \in Databases /\ entry.version \in Version
             /\ entry.seen \in Version /\ entry.age \in 0..Old /\ entry.readAge \in 0..Old
  BY <1>4 DEF TypeOK, Entry
<1>5. ASSUME entry # NoEntry PROVE entry.version.writes \in Nat /\ entry.seen.writes \in Nat
  BY <1>4, <1>5 DEF Version
<1> QED
  BY <1>1, <1>2, <1>3, <1>4, <1>5

LEMMA AsleepFacts ==
  ASSUME TypeOK
  PROVE  /\ Asleep.pc = "asleep" /\ Asleep.clock = 0 /\ Asleep.db = path
         /\ Asleep.version = VersionOf(path) /\ Asleep.readAge = 0
         /\ Asleep \in [pc : {"asleep", "versioned", "hydrating"}, clock : Nat,
                        db : Databases, version : Version, seen : Version, readAge : 0..Old]
BY VersionFacts, Constants DEF Asleep, TypeOK

LEMMA InitIInv == Init => IInv
<1> SUFFICES ASSUME Init PROVE IInv
  OBVIOUS
<1>1. /\ signalled \in [Databases -> 0..MaxWrites] /\ sources \in [Databases -> Digests]
      /\ path \in Databases /\ entry = NoEntry /\ binds = 0 /\ failures = 0
  BY Constants DEF Init
<1>2. VersionOf(path) \in Version
  BY <1>1 DEF VersionOf, Version
<1>3. /\ keeper.pc = "asleep" /\ keeper.clock = Poll
      /\ keeper \in [pc : {"asleep", "versioned", "hydrating"}, clock : Nat,
                     db : Databases, version : Version, seen : Version, readAge : 0..Old]
  BY <1>1, <1>2, Constants DEF Init, Asleep
<1>4. TypeOK
  BY <1>1, <1>3, Constants DEF TypeOK
<1> QED
  BY <1>1, <1>3, <1>4 DEF IInv, VersionFirst, InTime

-----------------------------------------------------------------------------
(* One lemma for each action *)

LEMMA WriteStep ==
  ASSUME IInv, NEW d \in Databases, Write(d) \/ EditSources(d)
  PROVE  IInv'
<1>1. TypeOK /\ VersionFirst /\ InTime
  BY DEF IInv
<1>2. UNCHANGED <<path, entry, keeper, binds, failures>>
  BY DEF Write, EditSources
<1>3. /\ signalled' \in [Databases -> 0..MaxWrites] /\ sources' \in [Databases -> Digests]
      /\ \A e \in Databases : signalled[e] <= signalled'[e] /\ signalled'[e] \in Nat
  <2>1. CASE Write(d)
    <3>1. signalled[d] \in 0..MaxWrites /\ signalled[d] < MaxWrites
      BY <1>1, <2>1 DEF TypeOK, Write
    <3>2. signalled[d] + 1 \in 0..MaxWrites
      BY <3>1, Constants
    <3> QED
      BY <1>1, <2>1, <3>1, <3>2, Constants, VersionFacts DEF TypeOK, Write
  <2>2. CASE EditSources(d)
    <3>1. signalled' = signalled /\ sources' \in [Databases -> Digests]
      BY <1>1, <2>2 DEF TypeOK, EditSources
    <3>2. \A e \in Databases : signalled[e] \in Nat
      BY <1>1, VersionFacts
    <3> QED
      BY <1>1, <3>1, <3>2 DEF TypeOK
  <2> QED
    BY <2>1, <2>2
<1>4. TypeOK'
  BY <1>1, <1>2, <1>3 DEF TypeOK
<1>5. VersionFirst'
  BY <1>1, <1>2, <1>3, Fields DEF VersionFirst
<1>6. InTime'
  BY <1>1, <1>2 DEF InTime
<1> QED
  BY <1>4, <1>5, <1>6 DEF IInv

LEMMA BindStep ==
  ASSUME IInv, NEW d \in Databases, Bind(d)
  PROVE  IInv'
<1>1. TypeOK /\ VersionFirst /\ InTime
  BY DEF IInv
<1>2. /\ path' = d /\ entry' = NoEntry /\ binds' = binds + 1 /\ binds < MaxBinds
      /\ UNCHANGED <<signalled, sources, keeper, failures>>
  BY DEF Bind
<1>3. binds' \in 0..MaxBinds
  BY <1>1, <1>2, Constants DEF TypeOK
<1>4. TypeOK'
  BY <1>1, <1>2, <1>3 DEF TypeOK
<1>5. VersionFirst'
  BY <1>1, <1>2 DEF VersionFirst
<1>6. InTime'
  BY <1>2 DEF InTime
<1> QED
  BY <1>4, <1>5, <1>6 DEF IInv

LEMMA ReadVersionStep ==
  ASSUME IInv, ReadVersion
  PROVE  IInv'
<1>1. TypeOK /\ VersionFirst /\ InTime
  BY DEF IInv
<1>2. /\ keeper' = [Asleep EXCEPT !.pc = "versioned", !.db = path, !.version = VersionOf(path)]
      /\ keeper.pc = "asleep" /\ keeper.clock = Poll
      /\ UNCHANGED <<signalled, sources, path, entry, binds, failures>>
  BY DEF ReadVersion
<1>3. path \in Databases /\ VersionOf(path) \in Version /\ VersionOf(path).writes = signalled[path]
      /\ signalled[path] \in Nat
  BY <1>1, VersionFacts DEF TypeOK
<1>4. /\ keeper'.pc = "versioned" /\ keeper'.clock = 0 /\ keeper'.db = path
      /\ keeper'.version = VersionOf(path)
      /\ keeper' \in [pc : {"asleep", "versioned", "hydrating"}, clock : Nat,
                      db : Databases, version : Version, seen : Version, readAge : 0..Old]
  BY <1>1, <1>2, <1>3, AsleepFacts
<1>5. TypeOK'
  BY <1>1, <1>2, <1>4, Constants DEF TypeOK
<1>6. VersionFirst'
  BY <1>1, <1>2, <1>3, <1>4 DEF VersionFirst
<1>7. InTime'
  BY <1>1, <1>2, <1>4, Constants, Fields DEF InTime
<1> QED
  BY <1>5, <1>6, <1>7 DEF IInv

LEMMA SkipStep ==
  ASSUME IInv, Skip
  PROVE  IInv'
<1>1. TypeOK /\ VersionFirst /\ InTime
  BY DEF IInv
<1>2. /\ keeper' = Asleep /\ keeper.pc = "versioned" /\ entry # NoEntry
      /\ entry.db = keeper.db /\ entry.age < RefreshAfter
      /\ UNCHANGED <<signalled, sources, path, entry, binds, failures>>
  BY DEF Skip, StillCurrent
<1>3. TypeOK'
  BY <1>1, <1>2, AsleepFacts, Constants DEF TypeOK
<1>4. VersionFirst'
  BY <1>1, <1>2, AsleepFacts DEF VersionFirst
<1>5. InTime'
  BY <1>1, <1>2, AsleepFacts, Constants, Fields DEF InTime
<1> QED
  BY <1>3, <1>4, <1>5 DEF IInv

LEMMA HydrateStep ==
  ASSUME IInv, Hydrate
  PROVE  IInv'
<1>1. TypeOK /\ VersionFirst /\ InTime
  BY DEF IInv
<1>2. /\ keeper' = [keeper EXCEPT !.pc = "hydrating", !.seen = VersionOf(keeper.db), !.readAge = 0]
      /\ keeper.pc = "versioned"
      /\ UNCHANGED <<signalled, sources, path, entry, binds, failures>>
  BY DEF Hydrate
<1>3. VersionOf(keeper.db) \in Version /\ VersionOf(keeper.db).writes = signalled[keeper.db]
  BY <1>1, Fields, VersionFacts
<1>4. /\ keeper'.pc = "hydrating" /\ keeper'.clock = keeper.clock /\ keeper'.db = keeper.db
      /\ keeper'.version = keeper.version /\ keeper'.seen = VersionOf(keeper.db)
      /\ keeper'.readAge = 0
      /\ keeper' \in [pc : {"asleep", "versioned", "hydrating"}, clock : Nat,
                      db : Databases, version : Version, seen : Version, readAge : 0..Old]
  BY <1>1, <1>2, <1>3, Constants DEF TypeOK
<1>5. TypeOK'
  BY <1>1, <1>2, <1>4 DEF TypeOK
<1>6. VersionFirst'
  BY <1>1, <1>2, <1>3, <1>4, Fields DEF VersionFirst
<1>7. InTime'
  BY <1>1, <1>2, <1>4 DEF InTime
<1> QED
  BY <1>5, <1>6, <1>7 DEF IInv

LEMMA StoreStep ==
  ASSUME IInv, Store
  PROVE  IInv'
<1>1. TypeOK /\ VersionFirst /\ InTime
  BY DEF IInv
<1>2. /\ keeper' = Asleep /\ keeper.pc = "hydrating"
      /\ UNCHANGED <<signalled, sources, path, binds, failures>>
  BY DEF Store
<1>3. /\ entry' \in Entry /\ entry'.db = keeper.db /\ entry'.version = keeper.version
      /\ entry'.seen = keeper.seen /\ entry'.age = 0 /\ entry'.readAge = keeper.readAge
  BY <1>1, Fields, Constants DEF Store, Entry
<1>4. keeper.clock <= Hydration
  BY <1>1, <1>2 DEF TypeOK
<1>5. TypeOK'
  BY <1>1, <1>2, <1>3, AsleepFacts, Constants DEF TypeOK
<1>6. VersionFirst'
  BY <1>1, <1>2, <1>3, <1>4, AsleepFacts, Fields, Constants DEF VersionFirst
<1>7. InTime'
  BY <1>1, <1>2, <1>3, AsleepFacts, Constants DEF InTime
<1> QED
  BY <1>5, <1>6, <1>7 DEF IInv

LEMMA FailStep ==
  ASSUME IInv, Fail
  PROVE  IInv'
<1>1. TypeOK /\ VersionFirst /\ InTime
  BY DEF IInv
<1>2. /\ keeper' = Asleep /\ failures' = failures + 1 /\ failures < MaxFailures
      /\ UNCHANGED <<signalled, sources, path, entry, binds>>
  BY DEF Fail
<1>3. failures' \in 0..MaxFailures /\ failures' # 0
  BY <1>1, <1>2, Constants DEF TypeOK
<1>4. TypeOK'
  BY <1>1, <1>2, <1>3, AsleepFacts, Constants DEF TypeOK
<1>5. VersionFirst'
  BY <1>1, <1>2, AsleepFacts DEF VersionFirst
<1>6. InTime'
  BY <1>3 DEF InTime
<1> QED
  BY <1>4, <1>5, <1>6 DEF IInv

LEMMA TickStep ==
  ASSUME IInv, Tick
  PROVE  IInv'
<1>1. TypeOK /\ VersionFirst /\ InTime
  BY DEF IInv
<1>2. /\ keeper.clock < IF keeper.pc = "asleep" THEN Poll ELSE Hydration
      /\ UNCHANGED <<signalled, sources, path, binds, failures>>
  BY DEF Tick
<1>3. (IF keeper.pc = "hydrating" THEN Older(keeper.readAge) ELSE 0) \in 0..Old
  BY <1>1, Fields, OlderFacts, Constants
<1>4. /\ keeper'.pc = keeper.pc /\ keeper'.clock = keeper.clock + 1 /\ keeper'.db = keeper.db
      /\ keeper'.version = keeper.version /\ keeper'.seen = keeper.seen
      /\ keeper.pc = "hydrating" => keeper'.readAge = Older(keeper.readAge)
      /\ keeper' \in [pc : {"asleep", "versioned", "hydrating"}, clock : Nat,
                      db : Databases, version : Version, seen : Version, readAge : 0..Old]
  <2>1. keeper.clock + 1 \in Nat
    BY <1>1, Fields
  <2> QED
    BY <1>1, <1>3, <2>1 DEF TypeOK, Tick
<1>5. /\ entry = NoEntry => entry' = NoEntry
      /\ entry # NoEntry =>
           /\ entry' \in Entry /\ entry'.db = entry.db /\ entry'.version = entry.version
           /\ entry'.seen = entry.seen
           /\ entry'.age = Older(entry.age) /\ entry'.readAge = Older(entry.readAge)
  <2>1. CASE entry = NoEntry
    BY <2>1 DEF Tick
  <2>2. CASE entry # NoEntry
    <3>1. /\ Older(entry.age) \in 0..Old /\ Older(entry.readAge) \in 0..Old /\ entry \in Entry
          /\ entry' = [entry EXCEPT !.age = Older(entry.age), !.readAge = Older(entry.readAge)]
      BY <1>1, <2>2, Fields, OlderFacts DEF Tick
    <3> QED
      BY <2>2, <3>1 DEF Entry
  <2> QED
    BY <2>1, <2>2
<1>6. TypeOK'
  <2>1. keeper'.clock <= IF keeper'.pc = "asleep" THEN Poll ELSE Hydration
    BY <1>1, <1>2, <1>4, Fields, Constants
  <2>2. entry' \in Entry \cup {NoEntry}
    BY <1>5
  <2> QED
    BY <1>1, <1>2, <1>4, <2>1, <2>2 DEF TypeOK
<1>7. VersionFirst'
  <2>1. keeper.pc = "hydrating" => keeper'.readAge <= keeper'.clock
    BY <1>1, <1>4, Fields, OlderFacts, Constants DEF VersionFirst
  <2>2. entry # NoEntry => entry'.readAge <= entry'.age + Hydration
    <3> SUFFICES ASSUME entry # NoEntry PROVE entry'.readAge <= entry'.age + Hydration
      OBVIOUS
    <3>1. /\ entry.readAge <= entry.age + Hydration /\ entry.age \in 0..Old /\ entry.readAge \in 0..Old
          /\ entry'.age = Older(entry.age) /\ entry'.readAge = Older(entry.readAge)
      BY <1>1, <1>5, Fields DEF VersionFirst
    <3> QED
      BY <3>1, OlderFacts, Constants DEF Older
  <2> QED
    BY <1>1, <1>2, <1>4, <1>5, <2>1, <2>2 DEF VersionFirst
<1>8. InTime'
  <2> SUFFICES ASSUME failures = 0, entry # NoEntry
               PROVE  /\ keeper.pc = "asleep" => entry'.age <= RefreshAfter - 1 + keeper'.clock
                      /\ keeper.pc # "asleep" => entry'.age <= RefreshAfter - 1 + Poll + keeper'.clock
                      /\ entry.db # path =>
                           /\ keeper.pc = "asleep" => entry'.age <= keeper'.clock
                           /\ keeper.pc # "asleep" => keeper.db = path /\ entry'.age <= Poll + keeper'.clock
    BY <1>2, <1>4, <1>5 DEF InTime
  <2>1. entry.age \in 0..Old /\ keeper.clock \in Nat /\ keeper'.clock = keeper.clock + 1
        /\ entry'.age <= entry.age + 1 /\ entry'.age \in Nat
    BY <1>1, <1>4, <1>5, Fields, OlderFacts, Constants
  <2> QED
    BY <1>1, <2>1, Constants DEF InTime
<1> QED
  BY <1>6, <1>7, <1>8 DEF IInv

LEMMA NextIInv == IInv /\ [Next]_vars => IInv'
<1> SUFFICES ASSUME IInv, [Next]_vars PROVE IInv'
  OBVIOUS
<1>1. CASE UNCHANGED vars
  BY <1>1 DEF vars, IInv, TypeOK, VersionFirst, InTime
<1>2. CASE Next
  BY <1>2, WriteStep, BindStep, ReadVersionStep, SkipStep, HydrateStep, StoreStep, FailStep, TickStep
     DEF Next, Keeper
<1> QED
  BY <1>1, <1>2

-----------------------------------------------------------------------------
(* Theorems *)

\* The strengthened invariant holds in every reachable state.
THEOREM Inductive == Spec => []IInv
<1> QED
  BY InitIInv, NextIInv, PTL DEF Spec

\* The entry and the keeper's iteration stay within their types and times.
THEOREM TypeCorrect == Spec => []TypeOK
<1>1. IInv => TypeOK
  BY DEF IInv
<1> QED
  BY <1>1, Inductive, PTL

\* An entry whose counters are those of its database lacks no counted write,
\* because the version is read before the candidates.
THEOREM Noticed == Spec => []NoMissedWrite
<1>1. IInv => NoMissedWrite
  BY Fields DEF IInv, VersionFirst, NoMissedWrite
<1> QED
  BY <1>1, Inductive, PTL

\* What a request is served was read at most MaxStale and a hydration ago.
THEOREM CeilingHolds == Spec => []Ceiling
<1>1. IInv => Ceiling
  BY Fields, Constants DEF IInv, VersionFirst, Ceiling, Served
<1> QED
  BY <1>1, Inductive, PTL

\* Without failures an entry never gets too old to be served.
THEOREM NoExpiry == Spec => []NeverExpires
<1>1. IInv => NeverExpires
  <2> SUFFICES ASSUME IInv, failures = 0, entry # NoEntry PROVE entry.age < MaxStale
    BY DEF NeverExpires, Served
  <2>1. keeper.clock <= IF keeper.pc = "asleep" THEN Poll ELSE Hydration
    BY DEF IInv, TypeOK
  <2> QED
    BY <2>1, Fields, Constants DEF IInv, InTime
<1> QED
  BY <1>1, Inductive, PTL

\* Candidates of a database the cache has left go within a poll and a hydration.
THEOREM ForeignGoes == Spec => []ForeignIsBrief
<1>1. IInv => ForeignIsBrief
  <2> SUFFICES ASSUME IInv, failures = 0, entry # NoEntry, entry.db # path
               PROVE  entry.age <= Poll + Hydration
    BY DEF ForeignIsBrief
  <2>1. keeper.clock <= IF keeper.pc = "asleep" THEN Poll ELSE Hydration
    BY DEF IInv, TypeOK
  <2> QED
    BY <2>1, Fields, Constants DEF IInv, InTime
<1> QED
  BY <1>1, Inductive, PTL
=============================================================================
