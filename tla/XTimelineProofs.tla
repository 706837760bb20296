--------------------------- MODULE XTimelineProofs ---------------------------
(***************************************************************************)
(* Proofs about XTimeline for every set of accounts and fetch processes,    *)
(* every page size, lookback and lag, and every bound.                      *)
(***************************************************************************)
EXTENDS XTimeline, SequenceTheorems, WellFoundedInduction, TLAPS

LEMMA Least ==
  ASSUME NEW T, T \subseteq Nat, T # {}
  PROVE  \E x \in T : \A y \in T : x <= y
<1> DEFINE R == OpToRel(<, Nat)
<1>1. IsWellFoundedOn(R, Nat)
  BY NatLessThanWellFounded
<1>2. ASSUME NEW x \in Nat, NEW y \in Nat, x < y PROVE <<x, y>> \in R
  <2>1. <<x, y>> \in Nat \X Nat /\ <<x, y>>[1] < <<x, y>>[2]
    BY <1>2
  <2> QED
    BY <2>1 DEF OpToRel
<1> HIDE DEF R
<1>3. PICK x \in T : \A y \in T : ~ (<<y, x>> \in R)
  BY <1>1, WFMin
<1>4. ASSUME NEW y \in T PROVE x <= y
  <2>1. x \in Nat /\ y \in Nat /\ ~ (y < x)
    BY <1>2, <1>3
  <2> QED
    BY <2>1
<1> QED
  BY <1>4

\* A page's high-water mark is its newest post.
LEMMA HighWaterFacts ==
  ASSUME NEW page, NEW n \in Nat, page \subseteq 1..n
  PROVE  /\ HighWater(page) \in 0..n
         /\ page # {} => HighWater(page) \in page /\ \A i \in page : i <= HighWater(page)
         /\ page = {} <=> HighWater(page) = 0
<1>1. CASE page = {}
  BY <1>1 DEF HighWater
<1>2. CASE page # {}
  <2> DEFINE T == {n - i : i \in page}
  <2>1. T \subseteq Nat /\ T # {}
    <3>1. \A i \in page : n - i \in Nat
      OBVIOUS
    <3> QED
      BY <1>2, <3>1
  <2>2. PICK x \in T : \A y \in T : x <= y
    BY <2>1, Least
  <2>3. PICK i \in page : x = n - i
    BY <2>2
  <2>4. \A j \in page : j <= i
    <3> SUFFICES ASSUME NEW j \in page PROVE j <= i
      OBVIOUS
    <3>1. n - j \in T
      OBVIOUS
    <3>2. n - i <= n - j
      BY <2>2, <2>3, <3>1
    <3> QED
      BY <3>2
  <2>5. HighWater(page) \in page /\ \A j \in page : j <= HighWater(page)
    BY <1>2, <2>4 DEF HighWater
  <2>6. HighWater(page) \in 1..n
    BY <2>5
  <2> QED
    BY <1>2, <2>5, <2>6
<1> QED
  BY <1>1, <1>2

-----------------------------------------------------------------------------
(* One page *)

LEMMA RuntimeFields ==
  ASSUME NEW r \in Runtime
  PROVE  /\ r.state \in States /\ r.status \in Statuses /\ r.user \in SUBSET Accounts
         /\ r.initial \in Nat /\ r.sinceId \in Nat /\ r.sinceTime \in Nat
         /\ r.token \in Nat /\ r.pendingId \in Nat /\ r.pendingStart \in Nat
BY DEF Runtime

LEMMA PostTime ==
  ASSUME NEW posts \in Seq(Entry), NEW i \in DOMAIN posts
  PROVE  i \in Nat /\ i \in 1..Len(posts) /\ posts[i].time \in Nat /\ posts[i].original \in BOOLEAN
<1>1. i \in 1..Len(posts) /\ Len(posts) \in Nat
  OBVIOUS
<1>2. posts[i] \in Entry
  BY <1>1
<1> QED
  BY <1>1, <1>2 DEF Entry

LEMMA UnresolvedFacts ==
  Unresolved \in Runtime /\ Valid(Unresolved)
BY DEF Unresolved, Runtime, Valid, NoPagination, States, Statuses

LEMMA DrainingFields ==
  ASSUME NEW r \in Runtime, NEW page, NEW next \in Nat, Pending(r, page) \in Nat
  PROVE  LET n == Draining(r, page, next) IN
         /\ n \in Runtime
         /\ n.state = "draining" /\ n.status = "verified" /\ n.user = r.user /\ n.initial = 0
         /\ n.sinceId = r.sinceId /\ n.sinceTime = r.sinceTime /\ n.token = next
         /\ n.pendingId = Pending(r, page)
         /\ n.pendingStart = IF r.sinceTime = 0 THEN Boundary(r).time ELSE r.pendingStart
<1>1. Boundary(r).time \in Nat
  BY RuntimeFields DEF Boundary
<1> QED
  BY <1>1 DEF Draining, Runtime, States, Statuses

LEMMA CheckpointedFields ==
  ASSUME NEW r \in Runtime, NEW page, NEW at \in Nat,
         NEW final \in Nat,
         final = IF Pending(r, page) # 0 THEN Pending(r, page) ELSE HighWater(page)
  PROVE  LET n == Checkpointed(r, page, at) IN
         /\ n \in Runtime
         /\ n.state = "checkpointed" /\ n.status = "verified" /\ n.user = r.user /\ n.initial = 0
         /\ n.sinceId = IF final # 0 THEN final ELSE r.sinceId
         /\ n.sinceTime = IF final # 0 THEN 0
                           ELSE IF r.token = 0 /\ r.sinceId = 0 THEN at ELSE r.sinceTime
         /\ n.token = 0 /\ n.pendingId = 0 /\ n.pendingStart = 0
BY DEF Checkpointed, Runtime, States, Statuses

LEMMA ResolvedFields ==
  ASSUME NEW r \in Runtime, NEW user \in Accounts, NEW at \in Nat, at - Lookback \in Nat
  PROVE  LET n == Resolved(r, user, at) IN
         /\ n \in Runtime
         /\ n.state = "uninitialized" /\ n.status = "pending" /\ n.user = {user}
         /\ n.initial = at - Lookback
         /\ n.sinceId = r.sinceId /\ n.sinceTime = r.sinceTime /\ n.token = r.token
         /\ n.pendingId = r.pendingId /\ n.pendingStart = r.pendingStart
BY DEF Resolved, Runtime, States, Statuses

LEMMA BlockedFields ==
  ASSUME NEW r \in Runtime, Valid(r)
  PROVE  LET n == [r EXCEPT !.status = "blocked"] IN
         /\ n \in Runtime /\ Valid(n)
         /\ n.state = r.state /\ n.user = r.user /\ n.initial = r.initial
         /\ n.sinceId = r.sinceId /\ n.sinceTime = r.sinceTime /\ n.token = r.token
         /\ n.pendingId = r.pendingId /\ n.pendingStart = r.pendingStart
<1> DEFINE n == [r EXCEPT !.status = "blocked"]
<1>1. /\ n \in Runtime /\ n.status = "blocked"
      /\ n.state = r.state /\ n.user = r.user /\ n.initial = r.initial
      /\ n.sinceId = r.sinceId /\ n.sinceTime = r.sinceTime /\ n.token = r.token
      /\ n.pendingId = r.pendingId /\ n.pendingStart = r.pendingStart
  BY DEF Runtime, Statuses
<1> HIDE DEF n
<1>2. Valid(n)
  BY <1>1 DEF Valid, NoPagination
<1> QED
  BY <1>1, <1>2 DEF n

\* An original of the asked-for window either is claimed already or is among
\* the posts the API has to show.
LEMMA WindowComplete ==
  ASSUME NEW posts \in Seq(Entry), NEW r \in Runtime, Valid(r),
         r.state # "identity_pending",
         NEW i \in DOMAIN posts,
         posts[i].time >= r.pendingStart, posts[i].time >= r.initial,
         ~ Collected(r, posts, i),
         r.token # 0 => i < r.token
  PROVE  i \in Window(posts, r)
<1>1. posts[i].time \in Nat /\ i \in Nat
  BY PostTime
<1>2. i > r.sinceId /\ posts[i].time >= r.sinceTime
  BY <1>1, RuntimeFields DEF Collected
<1>3. posts[i].time >= Boundary(r).time
  BY <1>1, <1>2, RuntimeFields DEF Boundary
<1> QED
  BY <1>2, <1>3 DEF Window, Boundary

LEMMA PageFacts ==
  ASSUME NEW posts \in Seq(Entry), NEW r \in Runtime, Valid(r),
         r.state # "identity_pending",
         r.sinceId <= Len(posts), r.pendingId <= Len(posts), r.sinceTime <= now,
         NEW at \in Nat, at <= now, now \in Nat,
         NEW cut \in Nat, NEW new, NEW user,
         Advances(r, Page(posts, Window(posts, r), cut), NextToken(Window(posts, r), cut), at),
         \A i \in Page(posts, Window(posts, r), cut) : <<user, i>> \in new
  PROVE  LET n == NextMeta(r, Page(posts, Window(posts, r), cut), NextToken(Window(posts, r), cut), at) IN
         /\ n \in Runtime /\ Valid(n)
         /\ n.initial = 0 /\ n.user = r.user
         /\ n.sinceTime <= now /\ n.sinceId <= Len(posts) /\ n.pendingId <= Len(posts)
         /\ n.sinceId >= r.sinceId
         /\ n.sinceId = 0 => n.sinceTime >= r.sinceTime
         /\ n.pendingStart \in {0, r.pendingStart, r.initial}
         /\ Carries(r, n, posts, new, user)
<1> DEFINE window == Window(posts, r)
           page == Page(posts, window, cut)
           next == NextToken(window, cut)
           n == NextMeta(r, page, next, at)
           H == HighWater(page)
           P == Pending(r, page)
           final == IF P # 0 THEN P ELSE H
<1>1. /\ Len(posts) \in Nat /\ DOMAIN posts = 1..Len(posts)
      /\ window \subseteq 1..Len(posts)
      /\ page = {i \in window : i >= cut /\ posts[i].original}
      /\ page \subseteq window /\ page \subseteq 1..Len(posts)
  BY DEF Window, Page
<1>2. /\ H \in 0..Len(posts)
      /\ page # {} => H \in page /\ \A i \in page : i <= H
      /\ page = {} <=> H = 0
  BY <1>1, HighWaterFacts
<1>3. P \in Nat /\ P <= Len(posts)
  BY <1>1, <1>2, RuntimeFields DEF Pending
<1>4. /\ r.token = 0 => r.pendingId = 0 /\ r.pendingStart = 0
      /\ r.token # 0 => r.state = "draining"
  BY RuntimeFields DEF Valid, NoPagination, States
<1>5. next \in Nat /\ (next # 0 => next = cut)
      /\ (next = 0 => \A i \in window : i >= cut)
  <2>1. CASE \E i \in window : i < cut
    <3>1. next = cut
      BY <2>1 DEF NextToken
    <3>2. cut # 0
      BY <2>1, <1>1
    <3> QED
      BY <3>1, <3>2
  <2>2. CASE ~ \E i \in window : i < cut
    BY <1>1, <2>2 DEF NextToken
  <2> QED
    BY <2>1, <2>2
<1>6. Valid(n)
  BY DEF Advances
<1>7. \A i \in page : i > r.sinceId
  BY <1>1 DEF Window, Boundary
<1>8. ASSUME NEW i \in DOMAIN posts, posts[i].original,
             posts[i].time >= r.pendingStart, posts[i].time >= r.initial,
             ~ Collected(r, posts, i), r.token # 0 => i < r.token,
             i >= cut \/ next = 0
      PROVE  i \in page
  <2>1. i \in window
    BY <1>8, WindowComplete
  <2> QED
    BY <1>1, <1>5, <1>8, <2>1
<1>9. /\ n = NextMeta(r, page, next, at) /\ Advances(r, page, next, at)
       /\ \A i \in page : <<user, i>> \in new
  OBVIOUS
<1> SUFFICES /\ n \in Runtime /\ Valid(n)
             /\ n.initial = 0 /\ n.user = r.user
             /\ n.sinceTime <= now /\ n.sinceId <= Len(posts) /\ n.pendingId <= Len(posts)
             /\ n.sinceId >= r.sinceId
             /\ n.sinceId = 0 => n.sinceTime >= r.sinceTime
             /\ n.pendingStart \in {0, r.pendingStart, r.initial}
             /\ Carries(r, n, posts, new, user)
  OBVIOUS
<1> HIDE DEF n, page, next, window, H, P, final
<1> USE <1>9
<1>10. CASE next # 0
  <2>1. n = Draining(r, page, next)
    BY <1>10 DEF NextMeta
  <2>2. /\ n \in Runtime /\ n.user = r.user /\ n.initial = 0
        /\ n.sinceId = r.sinceId /\ n.sinceTime = r.sinceTime /\ n.token = next
        /\ n.pendingId = P
        /\ n.pendingStart = IF r.sinceTime = 0 THEN Boundary(r).time ELSE r.pendingStart
    <3>1. Pending(r, page) \in Nat
      BY <1>3 DEF P
    <3> QED
      BY <1>5, <2>1, <3>1, DrainingFields DEF P
  <2>3. n.pendingStart \in {0, r.pendingStart, r.initial}
    BY <2>2, RuntimeFields DEF Boundary
  <2>4. ASSUME NEW i \in DOMAIN posts, posts[i].original,
               posts[i].time >= r.pendingStart, posts[i].time >= r.initial,
               Collected(n, posts, i), ~ Collected(r, posts, i)
        PROVE  i \in page
    <3>1. next <= i /\ i <= P
      BY <2>2, <2>4 DEF Collected
    <3>2. r.token # 0 => i < r.token
      BY <1>1, <2>4, <3>1, RuntimeFields DEF Collected, P, Pending
    <3> QED
      BY <1>5, <1>8, <1>10, <2>4, <3>1, <3>2
  <2>5. Carries(r, n, posts, new, user)
    BY <2>4 DEF Carries
  <2> QED
    BY <1>3, <1>6, <2>2, <2>3, <2>5, RuntimeFields
<1>11. CASE next = 0
  <2>1. n = Checkpointed(r, page, at)
    BY <1>11 DEF NextMeta
  <2>2. final \in Nat /\ final <= Len(posts)
    BY <1>1, <1>2, <1>3 DEF final
  <2>3. /\ n \in Runtime /\ n.user = r.user /\ n.initial = 0
        /\ n.sinceId = IF final # 0 THEN final ELSE r.sinceId
        /\ n.sinceTime = IF final # 0 THEN 0
                          ELSE IF r.token = 0 /\ r.sinceId = 0 THEN at ELSE r.sinceTime
        /\ n.token = 0 /\ n.pendingId = 0 /\ n.pendingStart = 0
    BY <2>1, <2>2, CheckpointedFields DEF final, P, H
  <2>4. r.token # 0 => P = r.pendingId /\ final = r.pendingId /\ r.pendingId # 0
    BY <1>4, RuntimeFields DEF Valid, P, Pending, final
  <2>5. r.token = 0 => final = H
    BY <1>2, <1>4, RuntimeFields DEF P, Pending, H, final
  <2>6. n.sinceId >= r.sinceId /\ (n.sinceId = 0 => n.sinceTime >= r.sinceTime)
    <3>1. CASE r.token # 0
      <4>1. r.sinceId # 0 => r.pendingId > r.sinceId
        BY <1>4, <3>1 DEF Valid
      <4> QED
        BY <2>3, <2>4, <3>1, <4>1, RuntimeFields
    <3>2. CASE r.token = 0
      <4>1. final # 0 => final > r.sinceId
        BY <1>2, <1>7, <2>5, <3>2
      <4>2. final = 0 => page = {}
        BY <1>2, <2>5, <3>2
      <4>3. final = 0 /\ r.sinceId = 0 => at >= r.sinceTime
        BY <1>11, <3>2, <4>2 DEF Advances
      <4> QED
        BY <2>2, <2>3, <3>2, <4>1, <4>3, RuntimeFields
    <3> QED
      BY <3>1, <3>2
  <2>7. n.sinceTime <= now
    BY <2>3, RuntimeFields
  <2>8. ASSUME NEW i \in DOMAIN posts, posts[i].original,
               posts[i].time >= r.pendingStart, posts[i].time >= r.initial,
               Collected(n, posts, i), ~ Collected(r, posts, i)
        PROVE  i \in page
    <3>1. CASE r.token = 0
      BY <1>8, <1>11, <2>8, <3>1
    <3>2. CASE r.token # 0
      <4>1. i <= r.pendingId
        <5>1. posts[i].time \in Nat
          BY PostTime
        <5>2. n.sinceId = r.pendingId /\ n.sinceTime = 0 /\ n.token = 0
          BY <2>3, <2>4, <3>2
        <5> QED
          BY <2>8, <5>1, <5>2 DEF Collected
      <4>2. i < r.token
        BY <1>1, <2>8, <3>2, <4>1, RuntimeFields DEF Collected
      <4> QED
        BY <1>8, <1>11, <2>8, <4>2
    <3> QED
      BY <3>1, <3>2
  <2>9. Carries(r, n, posts, new, user)
    BY <2>8 DEF Carries
  <2> QED
    BY <1>6, <2>2, <2>3, <2>6, <2>7, <2>9, RuntimeFields
<1> QED
  BY <1>10, <1>11

-----------------------------------------------------------------------------
(* The invariant is inductive *)

\* The conjuncts of IInv by what they speak of.
RowInv == NothingSkipped /\ OwnIdentity /\ WindowKept /\ Past(runtime)

JobInv(f) ==
  /\ Valid(job[f].runtime) /\ Valid(job[f].next)
  /\ Past(job[f].runtime) /\ Owned(f) /\ Carried(f)

LEMMA Split == IInv <=> TypeOK /\ RowInv /\ \A f \in Fetchers : JobInv(f)
BY DEF IInv, TypeOK, RowInv, JobInv

LEMMA Joined ==
  ASSUME TypeOK', RowInv', \A f \in Fetchers : JobInv(f)'
  PROVE  IInv'
BY DEF IInv, RowInv, JobInv

LEMMA JobFields ==
  ASSUME NEW j \in Job
  PROVE  /\ j.pc \in {"idle", "loaded", "fetched", "failed"} /\ j.name \in Accounts \cup {""}
         /\ j.runtime \in Runtime /\ j.next \in Runtime /\ j.items \in SUBSET Result
BY DEF Job

LEMMA IdleFacts ==
  /\ IdleJob \in Job /\ IdleJob.pc = "idle" /\ IdleJob.runtime = Unresolved
  /\ IdleJob.next = Unresolved /\ Valid(Unresolved) /\ Unresolved.user = {}
  /\ Unresolved.sinceTime = 0 /\ Unresolved.initial = 0 /\ Unresolved.pendingStart = 0
BY UnresolvedFacts DEF IdleJob, Job, Unresolved

LEMMA RowStep ==
  ASSUME RowInv, UNCHANGED rowVars, now' = now, timeline' = timeline
  PROVE  RowInv'
BY DEF RowInv, rowVars, NothingSkipped, OwnIdentity, WindowKept, Past

\* A step that writes one job leaves the others as they are.
LEMMA JobStep ==
  ASSUME TypeOK, \A g \in Fetchers : JobInv(g),
         NEW f \in Fetchers, NEW j \in Job, job' = [job EXCEPT ![f] = j],
         now' = now, timeline' = timeline
  PROVE  /\ job' \in [Fetchers -> Job]
         /\ job'[f] = j
         /\ \A g \in Fetchers \ {f} : JobInv(g)'
<1>1. job \in [Fetchers -> Job]
  BY DEF TypeOK
<1>2. job' \in [Fetchers -> Job] /\ job'[f] = j
  BY <1>1
<1>3. ASSUME NEW g \in Fetchers \ {f} PROVE JobInv(g)'
  <2>1. job'[g] = job[g]
    BY <1>1
  <2> QED
    BY <2>1 DEF JobInv, Past, Owned, Carried
<1> QED
  BY <1>2, <1>3

\* A process that has nothing to apply.
LEMMA Returns ==
  ASSUME TypeOK, \A g \in Fetchers : JobInv(g),
         NEW f \in Fetchers, job' = [job EXCEPT ![f] = IdleJob],
         now' = now, timeline' = timeline
  PROVE  job' \in [Fetchers -> Job] /\ \A g \in Fetchers : JobInv(g)'
<1>1. /\ job' \in [Fetchers -> Job] /\ job'[f] = IdleJob
      /\ \A g \in Fetchers \ {f} : JobInv(g)'
  BY JobStep, IdleFacts
<1>2. now \in Nat
  BY DEF TypeOK
<1>3. JobInv(f)'
  BY <1>1, <1>2, IdleFacts DEF JobInv, Past, Owned, Carried
<1> QED
  BY <1>1, <1>3

LEMMA InitIInv == Init => IInv
<1> SUFFICES ASSUME Init PROVE IInv
  OBVIOUS
<1> USE IdleFacts, UnresolvedFacts, XTimelineAssumption
<1>1. TypeOK
  <2>1. \A a \in Accounts : timeline[a] = <<>> /\ timeline[a] \in Seq(Entry) /\ Len(timeline[a]) = 0
    BY DEF Init
  <2>2. timeline \in [Accounts -> Seq(Entry)]
    BY <2>1 DEF Init
  <2>3. StartTime \in Nat
    BY DEF StartTime
  <2> QED
    BY <2>1, <2>2, <2>3 DEF Init, TypeOK
<1>2. RowInv
  BY <1>1 DEF Init, TypeOK, RowInv, NothingSkipped, OwnIdentity, WindowKept, Past
<1>3. ASSUME NEW f \in Fetchers PROVE JobInv(f)
  BY <1>1 DEF Init, TypeOK, JobInv, Past, Owned, Carried
<1> QED
  BY <1>1, <1>2, <1>3, Split

LEMMA PublishStep ==
  ASSUME IInv, NEW a \in Accounts, NEW original \in BOOLEAN, Publish(a, original)
  PROVE  IInv'
<1> DEFINE entry == [time |-> now, original |-> original]
<1>1. TypeOK /\ RowInv /\ \A f \in Fetchers : JobInv(f)
  BY Split
<1>2. /\ timeline' = [timeline EXCEPT ![a] = Append(@, entry)]
      /\ Len(timeline[a]) < MaxPosts
      /\ UNCHANGED <<now, file, edits, rowVars, job, failures>>
  BY DEF Publish
<1>3. entry \in Entry /\ entry.time = now /\ now \in Nat
  BY <1>1 DEF TypeOK, Entry
<1> HIDE DEF entry
<1>4. /\ timeline' \in [Accounts -> Seq(Entry)]
      /\ \A b \in Accounts : b # a => timeline'[b] = timeline[b]
      /\ timeline'[a] = Append(timeline[a], entry)
      /\ timeline[a] \in Seq(Entry)
  BY <1>1, <1>2, <1>3 DEF TypeOK
<1>5. /\ Len(timeline[a]) \in Nat /\ Len(timeline'[a]) = Len(timeline[a]) + 1
      /\ \A i \in 1..Len(timeline[a]) : timeline'[a][i] = timeline[a][i]
      /\ timeline'[a][Len(timeline[a]) + 1] = entry
      /\ DOMAIN timeline'[a] = 1..(Len(timeline[a]) + 1)
      /\ DOMAIN timeline[a] = 1..Len(timeline[a])
  BY <1>3, <1>4
<1>6. TypeOK'
  <2>1. \A b \in Accounts : Len(timeline'[b]) <= MaxPosts
    BY <1>1, <1>2, <1>4, <1>5, XTimelineAssumption DEF TypeOK
  <2> QED
    BY <1>1, <1>2, <1>4, <2>1 DEF TypeOK, rowVars
<1>7. ASSUME NEW r \in Runtime, Past(r) PROVE Past(r)'
  <2> SUFFICES ASSUME NEW user \in r.user
               PROVE  r.sinceId <= Len(timeline'[user]) /\ r.pendingId <= Len(timeline'[user])
    BY <1>2, <1>7 DEF Past
  <2>1. user \in Accounts /\ r.sinceId <= Len(timeline[user]) /\ r.pendingId <= Len(timeline[user])
    BY <1>7, RuntimeFields DEF Past
  <2> QED
    BY <1>4, <1>5, <2>1, RuntimeFields
<1>8. ASSUME NEW r \in Runtime, Past(r), NEW user \in r.user, NEW i \in DOMAIN timeline'[user],
             Collected(r, timeline'[user], i)
      PROVE  /\ i \in DOMAIN timeline[user] /\ timeline'[user][i] = timeline[user][i]
             /\ Collected(r, timeline[user], i)
  <2>1. user \in Accounts /\ r.sinceTime <= now
        /\ r.sinceId <= Len(timeline[user]) /\ r.pendingId <= Len(timeline[user])
    BY <1>8, RuntimeFields DEF Past
  <2>2. CASE user # a
    BY <1>4, <1>8, <2>1, <2>2
  <2>3. CASE user = a
    <3>1. CASE i = Len(timeline[a]) + 1
      <4>1. timeline'[a][i].time = now
        BY <1>3, <1>5, <3>1
      <4>2. ~ (i <= r.sinceId) /\ ~ (i <= r.pendingId) /\ ~ (now < r.sinceTime)
        BY <1>3, <1>5, <2>1, <2>3, <3>1, RuntimeFields
      <4> QED
        BY <1>8, <2>3, <4>1, <4>2 DEF Collected
    <3>2. CASE i # Len(timeline[a]) + 1
      <4>1. i \in 1..Len(timeline[a])
        BY <1>5, <1>8, <2>3, <3>2
      <4>2. timeline'[a][i] = timeline[a][i]
        BY <1>5, <4>1
      <4> QED
        BY <1>5, <1>8, <2>3, <4>1, <4>2 DEF Collected
    <3> QED
      BY <3>1, <3>2
  <2> QED
    BY <2>2, <2>3
<1>9. RowInv'
  <2>1. runtime \in Runtime /\ Past(runtime)
    BY <1>1 DEF TypeOK, RowInv
  <2>2. UNCHANGED <<runtime, items, from, name>>
    BY <1>2 DEF rowVars
  <2>3. NothingSkipped'
    BY <1>1, <1>8, <2>1, <2>2 DEF RowInv, NothingSkipped
  <2>4. Past(runtime)'
    BY <1>7, <2>1, <2>2 DEF Past
  <2> QED
    BY <1>1, <2>2, <2>3, <2>4 DEF RowInv, OwnIdentity, WindowKept
<1>10. ASSUME NEW f \in Fetchers PROVE JobInv(f)'
  <2> DEFINE r == job[f].runtime
             n == job[f].next
  <2>1. job'[f] = job[f] /\ JobInv(f) /\ job[f] \in Job
    BY <1>1, <1>2 DEF TypeOK
  <2>2. r \in Runtime /\ n \in Runtime
    BY <2>1, JobFields
  <2>3. Past(job[f].runtime)'
    BY <1>7, <2>1, <2>2 DEF JobInv, Past
  <2>4. Carried(f)'
    <3> SUFFICES ASSUME job[f].pc = "fetched" PROVE Carried(f)'
      BY <2>1 DEF Carried
    <3>1. Past(n) /\ Past(r)
      BY <2>1 DEF JobInv, Carried
    <3>2. Past(job[f].next)'
      BY <1>7, <2>1, <2>2, <3>1 DEF Past
    <3>3. ASSUME n.user = r.user, NEW user \in r.user,
                 Carries(r, n, timeline[user], job[f].items, user)
          PROVE  Carries(r, n, timeline'[user], job[f].items, user)
      <4> SUFFICES ASSUME NEW i \in DOMAIN timeline'[user],
                          timeline'[user][i].original,
                          timeline'[user][i].time >= r.pendingStart,
                          timeline'[user][i].time >= r.initial,
                          Collected(n, timeline'[user], i)
                   PROVE  Collected(r, timeline'[user], i) \/ <<user, i>> \in job[f].items
        BY DEF Carries
      <4>1. /\ i \in DOMAIN timeline[user] /\ timeline'[user][i] = timeline[user][i]
            /\ Collected(n, timeline[user], i)
        BY <1>8, <2>2, <3>1, <3>3
      <4>2. Collected(r, timeline[user], i) \/ <<user, i>> \in job[f].items
        BY <3>3, <4>1 DEF Carries
      <4> QED
        BY <4>1, <4>2 DEF Collected
    <3> QED
      BY <2>1, <3>2, <3>3 DEF JobInv, Carried
  <2> QED
    BY <2>1, <2>3, <2>4 DEF JobInv, Owned
<1> QED
  BY <1>6, <1>9, <1>10, Joined

LEMMA RemoteSteps ==
  ASSUME IInv, Tick \/ \E a \in Accounts : EditUsername(a)
  PROVE  IInv'
<1>1. TypeOK /\ RowInv /\ \A f \in Fetchers : JobInv(f)
  BY Split
<1>2. /\ now' \in Nat /\ now' >= now /\ file' \in Accounts /\ edits' \in Nat
      /\ UNCHANGED <<timeline, rowVars, job, failures>>
  BY <1>1 DEF TypeOK, Tick, EditUsername
<1>3. now \in Nat /\ StartTime \in Nat
  BY <1>1, XTimelineAssumption DEF TypeOK, StartTime
<1>4. TypeOK'
  BY <1>1, <1>2, <1>3 DEF TypeOK, rowVars
<1>5. ASSUME NEW r \in Runtime, Past(r) PROVE Past(r)'
  BY <1>2, <1>3, <1>5, RuntimeFields DEF Past
<1>6. RowInv'
  <2>1. runtime \in Runtime /\ runtime' = runtime
    BY <1>1, <1>2 DEF TypeOK, rowVars
  <2>2. Past(runtime)'
    BY <1>1, <1>5, <2>1 DEF RowInv, Past
  <2> QED
    BY <1>1, <1>2, <2>2 DEF rowVars, RowInv, NothingSkipped, OwnIdentity, WindowKept
<1>7. ASSUME NEW f \in Fetchers PROVE JobInv(f)'
  <2>1. job[f] \in Job /\ job'[f] = job[f] /\ JobInv(f)
    BY <1>1, <1>2 DEF TypeOK
  <2>2. job[f].runtime \in Runtime /\ job[f].next \in Runtime
    BY <2>1, JobFields
  <2>3. Past(job[f].runtime)'
    BY <1>5, <2>1, <2>2 DEF JobInv, Past
  <2>4. job[f].pc = "fetched" => Past(job[f].next)'
    BY <1>5, <2>1, <2>2 DEF JobInv, Carried, Past
  <2>5. Carried(f)'
    BY <1>2, <2>1, <2>4 DEF JobInv, Carried
  <2> QED
    BY <2>1, <2>3, <2>5 DEF JobInv, Owned
<1> QED
  BY <1>4, <1>6, <1>7, Joined

LEMMA StartStep ==
  ASSUME IInv, NEW f \in Fetchers, Start(f)
  PROVE  IInv'
<1> DEFINE j == [IdleJob EXCEPT !.pc = "loaded", !.name = file, !.runtime = runtime']
<1>1. TypeOK /\ RowInv /\ \A g \in Fetchers : JobInv(g)
  BY Split
<1>2. /\ name' = file /\ runtime' = (IF name = file THEN runtime ELSE Unresolved)
      /\ job' = [job EXCEPT ![f] = j]
      /\ UNCHANGED <<items, from, now, timeline, file, edits, failures>>
  BY DEF Start, remoteVars
<1>3. /\ runtime' \in Runtime /\ Valid(runtime') /\ file \in Accounts
      /\ (name' = name /\ runtime' = runtime) \/ runtime' = Unresolved
  BY <1>1, <1>2, UnresolvedFacts DEF TypeOK
<1>4. /\ j \in Job /\ j.pc = "loaded" /\ j.name = file /\ j.runtime = runtime'
      /\ j.next = Unresolved
  BY <1>3, IdleFacts DEF IdleJob, Job
<1> HIDE DEF j
<1>5. /\ job' \in [Fetchers -> Job] /\ job'[f] = j
      /\ \A g \in Fetchers \ {f} : JobInv(g)'
  BY <1>1, <1>2, <1>4, JobStep
<1>6. now \in Nat
  BY <1>1 DEF TypeOK
<1>7. RowInv'
  <2>1. CASE name' = name /\ runtime' = runtime
    BY <1>1, <1>2, <2>1 DEF RowInv, NothingSkipped, OwnIdentity, WindowKept, Past
  <2>2. CASE runtime' = Unresolved
    BY <1>2, <1>6, <2>2, IdleFacts DEF RowInv, NothingSkipped, OwnIdentity, WindowKept, Past
  <2> QED
    BY <1>3, <2>1, <2>2
<1>8. JobInv(f)'
  <2>1. Past(job[f].runtime)'
    BY <1>4, <1>5, <1>7 DEF RowInv, Past
  <2>2. runtime'.user \subseteq {file}
    BY <1>2, <1>7 DEF RowInv, OwnIdentity
  <2> QED
    BY <1>3, <1>4, <1>5, <2>1, <2>2, IdleFacts DEF JobInv, Owned, Carried
<1>9. TypeOK'
  <2>1. \A g \in Fetchers : Valid(job'[g].runtime) /\ Valid(job'[g].next)
    BY <1>5, <1>8 DEF JobInv
  <2> QED
    BY <1>1, <1>2, <1>3, <1>5, <2>1 DEF TypeOK
<1> QED
  BY <1>5, <1>7, <1>8, <1>9, Joined

\* A result that goes into a job.
LEMMA ResultStep ==
  ASSUME IInv, NEW f \in Fetchers, NEW n \in Runtime, Valid(n), NEW new \in SUBSET Result,
         job[f].pc = "loaded",
         job' = [job EXCEPT ![f].pc = "fetched", ![f].next = n, ![f].items = new],
         UNCHANGED <<remoteVars, rowVars, failures>>,
         Carried(f)'
  PROVE  IInv'
<1> DEFINE j == [job[f] EXCEPT !.pc = "fetched", !.next = n, !.items = new]
<1>1. TypeOK /\ RowInv /\ \A g \in Fetchers : JobInv(g)
  BY Split
<1>2. UNCHANGED <<now, timeline, file, edits, name, runtime, items, from, failures>>
  BY DEF remoteVars, rowVars
<1>3. job \in [Fetchers -> Job] /\ job[f] \in Job
  BY <1>1 DEF TypeOK
<1>4. j \in Job /\ j.pc = "fetched" /\ j.name = job[f].name /\ j.runtime = job[f].runtime
      /\ j.next = n
  BY <1>3 DEF Job
<1>5. job' = [job EXCEPT ![f] = j]
  BY <1>3 DEF Job
<1> HIDE DEF j
<1>6. /\ job' \in [Fetchers -> Job] /\ job'[f] = j
      /\ \A g \in Fetchers \ {f} : JobInv(g)'
  BY <1>1, <1>2, <1>4, <1>5, JobStep
<1>7. RowInv'
  BY <1>1, <1>2, RowStep DEF rowVars
<1>8. JobInv(f)'
  BY <1>1, <1>2, <1>4, <1>6 DEF JobInv, Owned, Past
<1>9. TypeOK'
  <2>1. \A g \in Fetchers : Valid(job'[g].runtime) /\ Valid(job'[g].next)
    BY <1>6, <1>8 DEF JobInv
  <2> QED
    BY <1>1, <1>2, <1>6, <2>1 DEF TypeOK
<1> QED
  BY <1>6, <1>7, <1>8, <1>9, Joined

LEMMA LookupStep ==
  ASSUME IInv, NEW f \in Fetchers, NEW at \in Clock, Lookup(f, at)
  PROVE  IInv'
<1> DEFINE r == job[f].runtime
           n == Resolved(r, job[f].name, at)
<1>1. TypeOK /\ JobInv(f) /\ job[f] \in Job
  BY Split DEF TypeOK
<1>2. /\ job[f].pc = "loaded" /\ r.state = "identity_pending"
      /\ UNCHANGED <<remoteVars, rowVars, failures>>
  BY DEF Lookup
<1>3. job' = [job EXCEPT ![f].pc = "fetched", ![f].next = n]
  BY DEF Lookup
<1>4. r \in Runtime /\ job[f].name \in Accounts /\ job[f].items \in SUBSET Result
  BY <1>1, <1>2, JobFields DEF JobInv, Owned
<1>5. at \in Nat /\ at - Lookback \in Nat /\ at - Lookback # 0
  <2>1. now \in Nat /\ now >= Lookback + Lag + 1 /\ Lookback \in Nat /\ Lag \in Nat
    BY <1>1, XTimelineAssumption DEF TypeOK, StartTime
  <2>2. at \in (now - Lag)..now
    BY DEF Clock
  <2> QED
    BY <2>1, <2>2
<1>6. /\ n \in Runtime /\ n.state = "uninitialized" /\ n.status = "pending"
      /\ n.user = {job[f].name} /\ n.initial = at - Lookback
      /\ n.sinceId = r.sinceId /\ n.sinceTime = r.sinceTime /\ n.token = r.token
      /\ n.pendingId = r.pendingId /\ n.pendingStart = r.pendingStart
  BY <1>4, <1>5, ResolvedFields
<1> HIDE DEF n
<1>7. /\ r.user = {} /\ r.sinceId = 0 /\ r.sinceTime = 0 /\ r.token = 0
      /\ r.pendingId = 0 /\ r.pendingStart = 0
  BY <1>1, <1>2 DEF JobInv, Valid, NoPagination
<1>8. Valid(n)
  BY <1>5, <1>6, <1>7 DEF Valid, NoPagination
<1>9. job' = [job EXCEPT ![f].pc = "fetched", ![f].next = n, ![f].items = job[f].items]
  BY <1>1, <1>3 DEF TypeOK, Job
<1>10. Carried(f)'
  <2>1. job'[f].next = n /\ job'[f].runtime = r /\ job'[f].name = job[f].name
    BY <1>1, <1>3 DEF TypeOK, Job
  <2>2. now' = now /\ timeline' = timeline /\ now \in Nat
    BY <1>1, <1>2 DEF remoteVars, TypeOK
  <2>3. Len(timeline[job[f].name]) \in Nat
    BY <1>1, <1>4 DEF TypeOK
  <2>4. Past(job[f].next)'
    BY <1>6, <1>7, <2>1, <2>2, <2>3 DEF Past
  <2> QED
    BY <1>5, <1>6, <1>7, <2>1, <2>4 DEF Carried
<1> QED
  BY <1>2, <1>4, <1>6, <1>8, <1>9, <1>10, ResultStep

LEMMA FetchPageStep ==
  ASSUME IInv, NEW f \in Fetchers, NEW at \in Clock, NEW cut \in 1..(MaxPosts + 1),
         FetchPage(f, at, cut)
  PROVE  IInv'
<1> DEFINE r == job[f].runtime
<1>1. /\ TypeOK /\ JobInv(f) /\ job[f] \in Job
      /\ job[f].pc = "loaded" /\ r.state # "identity_pending"
      /\ UNCHANGED <<remoteVars, rowVars, failures>>
  BY Split DEF TypeOK, FetchPage
<1>2. r \in Runtime /\ Valid(r) /\ Past(r) /\ r.user \subseteq {job[f].name} /\ r.user \subseteq Accounts
  BY <1>1, JobFields, RuntimeFields DEF JobInv, Owned
<1>3. PICK user \in r.user :
        LET window == Window(timeline[user], r)
            page   == Page(timeline[user], window, cut)
            next   == NextToken(window, cut)
        IN /\ Advances(r, page, next, at)
           /\ job' = [job EXCEPT ![f].pc = "fetched",
                                 ![f].next = NextMeta(r, page, next, at),
                                 ![f].items = {<<user, i>> : i \in page}]
  BY DEF FetchPage
<1> DEFINE posts == timeline[user]
           page  == Page(posts, Window(posts, r), cut)
           next  == NextToken(Window(posts, r), cut)
           n     == NextMeta(r, page, next, at)
           new   == {<<user, i>> : i \in page}
<1>4. /\ Advances(r, page, next, at)
      /\ job' = [job EXCEPT ![f].pc = "fetched", ![f].next = n, ![f].items = new]
  BY <1>3
<1>5. /\ posts \in Seq(Entry) /\ Len(posts) <= MaxPosts /\ user \in Accounts
      /\ now \in Nat /\ at \in Nat /\ at <= now /\ cut \in Nat
  <2>1. user \in Accounts
    BY <1>2
  <2>2. now \in Nat /\ now >= Lookback + Lag + 1 /\ Lookback \in Nat /\ Lag \in Nat /\ MaxPosts \in Nat
    BY <1>1, XTimelineAssumption DEF TypeOK, StartTime
  <2>3. at \in (now - Lag)..now
    BY DEF Clock
  <2> QED
    BY <1>1, <2>1, <2>2, <2>3 DEF TypeOK
<1>6. new \in SUBSET Result
  <2>1. page \subseteq 1..Len(posts)
    BY <1>5 DEF Page, Window
  <2>2. page \subseteq 1..MaxPosts
    BY <1>5, <2>1, XTimelineAssumption
  <2> QED
    BY <1>5, <2>2 DEF Result
<1>7. r.sinceId <= Len(posts) /\ r.pendingId <= Len(posts) /\ r.sinceTime <= now
  BY <1>2 DEF Past
<1>8. r.user = {user}
  BY <1>2
<1>9. /\ n \in Runtime /\ Valid(n)
      /\ n.initial = 0 /\ n.user = r.user
      /\ n.sinceTime <= now /\ n.sinceId <= Len(posts) /\ n.pendingId <= Len(posts)
      /\ n.sinceId >= r.sinceId
      /\ n.sinceId = 0 => n.sinceTime >= r.sinceTime
      /\ n.pendingStart \in {0, r.pendingStart, r.initial}
      /\ Carries(r, n, posts, new, user)
  <2>1. r.state # "identity_pending" /\ \A i \in page : <<user, i>> \in new
    BY <1>1
  <2> HIDE DEF r, new
  <2> QED
    BY ONLY <1>2, <1>4, <1>5, <1>7, <2>1, PageFacts
<1> HIDE DEF n, new
<1>10. Carried(f)'
  <2>1. /\ job'[f].next = n /\ job'[f].runtime = r /\ job'[f].name = job[f].name
        /\ job'[f].items = new
    BY <1>1, <1>4 DEF TypeOK, Job
  <2>2. now' = now /\ timeline' = timeline
    BY <1>1 DEF remoteVars
  <2>3. Past(job[f].next)'
    BY <1>8, <1>9, <2>1, <2>2 DEF Past
  <2> QED
    BY <1>8, <1>9, <2>1, <2>2, <2>3 DEF Carried
<1> HIDE DEF r
<1> QED
  BY <1>1, <1>4, <1>6, <1>9, <1>10, ResultStep

LEMMA FetchFailsStep ==
  ASSUME IInv, NEW f \in Fetchers, FetchFails(f)
  PROVE  IInv'
<1> DEFINE j == [job[f] EXCEPT !.pc = "failed"]
<1>1. TypeOK /\ RowInv /\ \A g \in Fetchers : JobInv(g)
  BY Split
<1>2. /\ UNCHANGED <<now, timeline, file, edits, name, runtime, items, from>>
      /\ job[f].pc = "loaded" /\ failures' \in Nat
  BY <1>1 DEF FetchFails, remoteVars, rowVars, TypeOK
<1>3. job \in [Fetchers -> Job] /\ job[f] \in Job
  BY <1>1 DEF TypeOK
<1>4. j \in Job /\ j.pc = "failed" /\ j.name = job[f].name /\ j.runtime = job[f].runtime
      /\ j.next = job[f].next
  BY <1>3 DEF Job
<1>5. job' = [job EXCEPT ![f] = j]
  BY <1>3 DEF Job, FetchFails
<1> HIDE DEF j
<1>6. /\ job' \in [Fetchers -> Job] /\ job'[f] = j
      /\ \A g \in Fetchers \ {f} : JobInv(g)'
  BY <1>1, <1>2, <1>4, <1>5, JobStep
<1>7. RowInv'
  BY <1>1, <1>2, RowStep DEF rowVars
<1>8. JobInv(f)'
  BY <1>1, <1>2, <1>4, <1>6 DEF JobInv, Owned, Past, Carried
<1>9. TypeOK'
  <2>1. \A g \in Fetchers : Valid(job'[g].runtime) /\ Valid(job'[g].next)
    BY <1>6, <1>8 DEF JobInv
  <2> QED
    BY <1>1, <1>2, <1>6, <2>1 DEF TypeOK
<1> QED
  BY <1>6, <1>7, <1>8, <1>9, Joined

LEMMA CrashStep ==
  ASSUME IInv, NEW f \in Fetchers, Crash(f)
  PROVE  IInv'
<1>1. TypeOK /\ RowInv /\ \A g \in Fetchers : JobInv(g)
  BY Split
<1>2. /\ UNCHANGED <<now, timeline, file, edits, name, runtime, items, from>>
      /\ failures' \in Nat /\ job' = [job EXCEPT ![f] = IdleJob]
  BY <1>1 DEF Crash, remoteVars, rowVars, TypeOK
<1>3. job' \in [Fetchers -> Job] /\ \A g \in Fetchers : JobInv(g)'
  BY <1>1, <1>2, Returns
<1>4. RowInv'
  BY <1>1, <1>2, RowStep DEF rowVars
<1>5. TypeOK'
  BY <1>1, <1>2, <1>3 DEF TypeOK, JobInv
<1> QED
  BY <1>3, <1>4, <1>5, Joined

LEMMA BlockStep ==
  ASSUME IInv, NEW f \in Fetchers, Block(f)
  PROVE  IInv'
<1>1. TypeOK /\ RowInv /\ \A g \in Fetchers : JobInv(g)
  BY Split
<1>2. /\ UNCHANGED <<now, timeline, file, edits, name, items, from, failures>>
      /\ job' = [job EXCEPT ![f] = IdleJob]
      /\ runtime' = (IF Current(f) THEN [runtime EXCEPT !.status = "blocked"] ELSE runtime)
  BY DEF Block, remoteVars
<1>3. runtime \in Runtime /\ Valid(runtime)
  BY <1>1 DEF TypeOK
<1>4. /\ runtime' \in Runtime /\ Valid(runtime')
      /\ runtime'.user = runtime.user /\ runtime'.initial = runtime.initial
      /\ runtime'.sinceId = runtime.sinceId /\ runtime'.sinceTime = runtime.sinceTime
      /\ runtime'.token = runtime.token /\ runtime'.pendingId = runtime.pendingId
      /\ runtime'.pendingStart = runtime.pendingStart
  BY <1>2, <1>3, BlockedFields
<1>5. job' \in [Fetchers -> Job] /\ \A g \in Fetchers : JobInv(g)'
  BY <1>1, <1>2, Returns
<1>6. RowInv'
  BY <1>1, <1>2, <1>4 DEF RowInv, NothingSkipped, OwnIdentity, WindowKept, Past, Collected
<1>7. TypeOK'
  BY <1>1, <1>2, <1>4, <1>5 DEF TypeOK, JobInv
<1> QED
  BY <1>5, <1>6, <1>7, Joined

LEMMA ApplyStep ==
  ASSUME IInv, NEW f \in Fetchers, Apply(f)
  PROVE  IInv'
<1> DEFINE r == job[f].runtime
           n == job[f].next
<1>1. TypeOK /\ RowInv /\ \A g \in Fetchers : JobInv(g)
  BY Split
<1>2. /\ UNCHANGED <<now, timeline, file, edits, name, failures>>
      /\ job[f].pc = "fetched" /\ job' = [job EXCEPT ![f] = IdleJob]
  BY DEF Apply, remoteVars
<1>3. job' \in [Fetchers -> Job] /\ \A g \in Fetchers : JobInv(g)'
  BY <1>1, <1>2, Returns
<1>4. CASE ~ Current(f)
  <2>1. UNCHANGED <<runtime, items, from>>
    BY <1>4 DEF Apply
  <2>2. RowInv'
    BY <1>1, <1>2, <2>1, RowStep DEF rowVars
  <2>3. TypeOK'
    BY <1>1, <1>2, <1>3, <2>1 DEF TypeOK, JobInv
  <2> QED
    BY <1>3, <2>2, <2>3, Joined
<1>5. CASE Current(f)
  <2>1. /\ runtime' = n /\ items' = items \cup job[f].items
        /\ from' = IF n.initial # 0 THEN n.initial ELSE from
        /\ runtime = r /\ name = job[f].name
    BY <1>5 DEF Apply, Current
  <2>2. job[f] \in Job /\ r \in Runtime /\ n \in Runtime /\ Valid(n) /\ job[f].items \subseteq Result
    BY <1>1, JobFields DEF TypeOK, JobInv
  <2>3. TypeOK'
    BY <1>1, <1>2, <1>3, <2>1, <2>2, RuntimeFields DEF TypeOK, JobInv
  <2>4. Past(n)
    BY <1>1, <1>2 DEF JobInv, Carried
  <2>5. Past(runtime)'
    BY <1>2, <2>1, <2>4 DEF Past
  <2>6. CASE /\ n.initial # 0 /\ n.user = {job[f].name} /\ r.user = {}
             /\ n.sinceId = 0 /\ n.sinceTime = 0 /\ n.token = 0 /\ n.pendingStart = 0
    <3>1. NothingSkipped'
      <4> SUFFICES ASSUME NEW user \in n.user, NEW i \in DOMAIN timeline[user],
                          Collected(n, timeline[user], i)
                   PROVE  FALSE
        BY <1>2, <2>1 DEF NothingSkipped
      <4>1. name \in Accounts /\ timeline[user] \in Seq(Entry)
        BY <1>1, <2>1, <2>6 DEF TypeOK
      <4>2. i \in 1..Len(timeline[user]) /\ timeline[user][i].time \in Nat
        BY <4>1, PostTime
      <4> QED
        BY <2>6, <4>2 DEF Collected
    <3>2. OwnIdentity' /\ WindowKept'
      BY <1>2, <2>1, <2>6 DEF OwnIdentity, WindowKept
    <3> QED
      BY <1>3, <2>3, <2>5, <3>1, <3>2, Joined DEF RowInv
  <2>7. CASE /\ n.initial = 0 /\ n.user = r.user
             /\ n.pendingStart \in {0, r.pendingStart, r.initial}
             /\ \A user \in r.user : Carries(r, n, timeline[user], job[f].items, user)
    <3>1. /\ from' = from
          /\ r.pendingStart # 0 => from = r.pendingStart
          /\ r.initial # 0 => from = r.initial
      BY <1>1, <2>1, <2>7 DEF RowInv, WindowKept
    <3>2. NothingSkipped'
      <4> SUFFICES ASSUME NEW user \in r.user, NEW i \in DOMAIN timeline[user],
                          timeline[user][i].original, timeline[user][i].time >= from,
                          Collected(n, timeline[user], i)
                   PROVE  <<user, i>> \in items \cup job[f].items
        BY <1>2, <2>1, <2>7, <3>1 DEF NothingSkipped
      <4>1. timeline[user] \in Seq(Entry)
        BY <1>1, <2>2, RuntimeFields DEF TypeOK
      <4>2. timeline[user][i].time \in Nat
        BY <4>1, PostTime
      <4>3. timeline[user][i].time >= r.pendingStart /\ timeline[user][i].time >= r.initial
        BY <2>2, <3>1, <4>2, RuntimeFields
      <4>4. Collected(r, timeline[user], i) \/ <<user, i>> \in job[f].items
        BY <2>7, <4>3 DEF Carries
      <4> QED
        BY <1>1, <2>1, <4>4 DEF RowInv, NothingSkipped
    <3>3. OwnIdentity' /\ WindowKept'
      BY <1>1, <1>2, <2>1, <2>7, <3>1 DEF RowInv, OwnIdentity, WindowKept
    <3> QED
      BY <1>3, <2>3, <2>5, <3>2, <3>3, Joined DEF RowInv
  <2> QED
    BY <1>1, <1>2, <2>6, <2>7 DEF JobInv, Carried
<1> QED
  BY <1>4, <1>5

\* Every step of the specification keeps the invariant.
LEMMA NextIInv == IInv /\ [Next]_vars => IInv'
<1> SUFFICES ASSUME IInv, [Next]_vars PROVE IInv'
  OBVIOUS
<1>1. CASE RemoteStep
  BY <1>1, PublishStep, RemoteSteps DEF RemoteStep
<1>2. ASSUME NEW f \in Fetchers, Start(f) \/ Request(f) \/ FetchFails(f) \/ Apply(f) \/ Block(f) \/ Crash(f)
      PROVE  IInv'
  <2>1. CASE Start(f)
    BY <2>1, StartStep
  <2>2. CASE Request(f)
    BY <2>2, LookupStep, FetchPageStep DEF Request
  <2>3. CASE FetchFails(f)
    BY <2>3, FetchFailsStep
  <2>4. CASE Apply(f)
    BY <2>4, ApplyStep
  <2>5. CASE Block(f)
    BY <2>5, BlockStep
  <2>6. CASE Crash(f)
    BY <2>6, CrashStep
  <2> QED
    BY <1>2, <2>1, <2>2, <2>3, <2>4, <2>5, <2>6
<1>3. CASE UNCHANGED vars
  BY <1>3 DEF vars, remoteVars, rowVars, IInv, TypeOK, NothingSkipped, OwnIdentity, WindowKept,
              Past, Owned, Carried
<1> QED
  BY <1>1, <1>2, <1>3 DEF Next

-----------------------------------------------------------------------------
(* Theorems *)

\* The strengthened invariant holds in every reachable state.
THEOREM Inductive == Spec => []IInv
<1> QED
  BY InitIInv, NextIInv, PTL DEF Spec

\* Every row and every process holds runtime metadata the validator accepts
\* (validate_x_runtime_meta), so no round of the source sync is refused.
THEOREM TypeCorrect == Spec => []TypeOK
<1>1. IInv => TypeOK
  BY DEF IInv
<1> QED
  BY <1>1, Inductive, PTL

\* No post of the window is passed by the cursor without being stored, for
\* any page size, any lookback and any number of overlapping processes.
THEOREM NoSkip == Spec => []NothingSkipped
<1>1. IInv => NothingSkipped
  BY DEF IInv
<1> QED
  BY <1>1, Inductive, PTL

\* A row never holds the user id of another username.
THEOREM Identity == Spec => []OwnIdentity
<1>1. IInv => OwnIdentity
  BY DEF IInv
<1> QED
  BY <1>1, Inductive, PTL

\* No step moves the checkpoint of an identity back.
THEOREM Monotone == Spec => NeverBack
<1>1. ASSUME IInv, [Next]_vars PROVE [Forward]_vars
  <2> SUFFICES ASSUME name' = name, runtime.user # {}
               PROVE  /\ runtime'.sinceId >= runtime.sinceId
                      /\ runtime'.sinceId = 0 => runtime'.sinceTime >= runtime.sinceTime
    BY DEF Forward
  <2>1. TypeOK /\ runtime \in Runtime /\ \A f \in Fetchers : JobInv(f)
    BY <1>1, Split DEF TypeOK
  <2>2. CASE runtime' = runtime
    BY <2>1, <2>2, RuntimeFields
  <2>3. ASSUME NEW f \in Fetchers, Start(f) PROVE runtime' = runtime
    BY <2>3 DEF Start
  <2>4. ASSUME NEW f \in Fetchers, Block(f)
        PROVE  runtime'.sinceId = runtime.sinceId /\ runtime'.sinceTime = runtime.sinceTime
    <3>1. CASE Current(f)
      BY <2>1, <2>4, <3>1 DEF Block, Runtime
    <3>2. CASE ~ Current(f)
      BY <2>4, <3>2 DEF Block
    <3> QED
      BY <3>1, <3>2
  <2>5. ASSUME NEW f \in Fetchers, Apply(f), Current(f)
        PROVE  /\ runtime'.sinceId >= runtime.sinceId
               /\ runtime'.sinceId = 0 => runtime'.sinceTime >= runtime.sinceTime
    <3>1. runtime' = job[f].next /\ runtime = job[f].runtime /\ job[f].pc = "fetched"
      BY <2>5 DEF Apply, Current
    <3> QED
      BY <2>1, <3>1 DEF JobInv, Carried
  <2>6. ASSUME NEW f \in Fetchers, Apply(f), ~ Current(f) PROVE runtime' = runtime
    BY <2>6 DEF Apply
  <2>7. CASE RemoteStep \/ UNCHANGED vars \/ \E f \in Fetchers : Request(f) \/ FetchFails(f) \/ Crash(f)
    <3>1. runtime' = runtime
      BY <2>7 DEF RemoteStep, Publish, Tick, EditUsername, Request, Lookup, FetchPage,
                  FetchFails, Crash, vars, rowVars
    <3> QED
      BY <2>2, <3>1
  <2>8. ASSUME NEW f \in Fetchers, Start(f) \/ Apply(f) \/ Block(f)
        PROVE  /\ runtime'.sinceId >= runtime.sinceId
               /\ runtime'.sinceId = 0 => runtime'.sinceTime >= runtime.sinceTime
    BY <2>1, <2>2, <2>3, <2>4, <2>5, <2>6, <2>8, RuntimeFields
  <2> QED
    BY <1>1, <2>7, <2>8 DEF Next
<1>2. Spec => [][Next]_vars
  BY DEF Spec
<1> QED
  BY <1>1, <1>2, Inductive, PTL DEF NeverBack
=============================================================================
