------------------------------ MODULE XTimeline ------------------------------
(***************************************************************************)
(* The cursor of one x_api source: how fetch_x_timeline walks a remote      *)
(* timeline page by page, one request per round, and how the runner stores  *)
(* what it brought back (src/airadar/fetcher/x_api.py, sources/x_state.py,  *)
(* fetcher/runner.py, sources/sync.py; ADR-046).                            *)
(*                                                                          *)
(* Several fetch processes may overlap (a manual fetch takes no lock): each *)
(* loads the source's row, talks to the API without any lock and writes the *)
(* result back if the row still is what it loaded.                          *)
(*                                                                          *)
(* The id of a post is its place in the account's timeline; X returns posts *)
(* newest first and leaves out retweets and replies, which take ids too.  A *)
(* pagination token is the id the next page lies below.  Times are seconds. *)
(* In a runtime record 0 stands for a key that is absent; the times and     *)
(* texts kept for display only are left out.                                *)
(***************************************************************************)
EXTENDS Naturals, Sequences, FiniteSets

CONSTANTS
  Accounts,    \* usernames, each with a timeline of its own
  Fetchers,    \* processes that run the fetch stage
  PageSize,    \* X_MAX_RESULTS_PER_SOURCE
  Lookback,    \* X_RECENT_LOOKBACK
  Lag,         \* how far a request's fetched_at may lie behind X's clock
  GapPages,    \* whether X may answer with a page of excluded posts only
  MaxPosts,    \* bound: posts of an account
  MaxTime,     \* bound: seconds that pass
  MaxEdits,    \* bound: edits of the source file
  MaxFailures  \* bound: failed requests, failed writes and dead processes

ASSUME XTimelineAssumption ==
  /\ PageSize \in Nat \ {0}
  /\ Lookback \in Nat /\ Lag \in Nat
  /\ GapPages \in BOOLEAN
  /\ MaxPosts \in Nat /\ MaxTime \in Nat /\ MaxEdits \in Nat /\ MaxFailures \in Nat

VARIABLES
  now,       \* X's clock
  timeline,  \* timeline[a]: the posts of a, oldest first
  file,      \* username of the source in the source file
  edits, failures,   \* bounds
  name,      \* username in the sources row
  runtime,   \* runtime keys of its meta_json
  items,     \* items of the database
  job,       \* job[f]: what fetch process f is doing
  from       \* history: the cold start window of the runtime's identity

remoteVars == <<now, timeline, file, edits>>
rowVars    == <<name, runtime, items, from>>
vars       == <<remoteVars, rowVars, job, failures>>

-----------------------------------------------------------------------------
(* Data *)

StartTime == Lookback + Lag + 1

Entry == [time : Nat, original : BOOLEAN]

Statuses == {"pending", "verified", "blocked"}
States   == {"identity_pending", "uninitialized", "checkpointed", "draining"}

\* user is the account an identity lookup returned, if there was one yet.
Runtime == [state : States, status : Statuses, user : SUBSET Accounts,
            initial : Nat, sinceId : Nat, sinceTime : Nat,
            token : Nat, pendingId : Nat, pendingStart : Nat]

\* What sync_to_db gives a source it has not seen under this username.
Unresolved ==
  [state |-> "identity_pending", status |-> "pending", user |-> {}, initial |-> 0,
   sinceId |-> 0, sinceTime |-> 0, token |-> 0, pendingId |-> 0, pendingStart |-> 0]

NoPagination(r) == r.token = 0 /\ r.pendingId = 0 /\ r.pendingStart = 0

\* validate_x_runtime_meta
Valid(r) ==
  /\ r.sinceId = 0 \/ r.sinceTime = 0
  /\ r.state = "identity_pending" =>
       r.user = {} /\ r.initial = 0 /\ r.sinceId = 0 /\ r.sinceTime = 0 /\ NoPagination(r)
  /\ r.state = "uninitialized" =>
       r.user # {} /\ r.initial # 0 /\ r.sinceId = 0 /\ r.sinceTime = 0 /\ NoPagination(r)
  /\ r.state = "checkpointed" =>
       /\ r.user # {} /\ r.initial = 0 /\ NoPagination(r)
       /\ r.sinceId # 0 \/ r.sinceTime # 0
  /\ r.state = "draining" =>
       /\ r.user # {} /\ r.initial = 0 /\ r.token # 0 /\ r.pendingId # 0
       /\ IF r.sinceId # 0 THEN r.pendingStart = 0 /\ r.pendingId > r.sinceId
                           ELSE (r.sinceTime = 0) # (r.pendingStart = 0)
  /\ r.status = "pending" => r.state \in {"identity_pending", "uninitialized"}
  /\ r.status = "verified" => r.state \in {"checkpointed", "draining"}

-----------------------------------------------------------------------------
(* One request *)

\* _request_cursor: the lower end of what is asked for, as a post and as a time.
Boundary(r) ==
  [id |-> r.sinceId,
   time |-> CASE r.sinceId # 0      -> 0
              [] r.sinceTime # 0    -> r.sinceTime
              [] r.pendingStart # 0 -> r.pendingStart
              [] OTHER              -> r.initial]

\* The posts the API has to show for a request, excluded ones counted.
Window(posts, r) ==
  {i \in DOMAIN posts : /\ i > Boundary(r).id
                        /\ posts[i].time >= Boundary(r).time
                        /\ r.token # 0 => i < r.token}

\* The originals of the posts from cut upwards: one page of a window.
Page(posts, window, cut) == {i \in window : i >= cut /\ posts[i].original}

\* The next_token that goes with the page: there is one if posts lie below it.
NextToken(window, cut) == IF \E i \in window : i < cut THEN cut ELSE 0

\* _post_high_water
HighWater(page) == IF page = {} THEN 0 ELSE CHOOSE i \in page : \A j \in page : j <= i

\* The high-water mark of the pages since the one that had no token.
Pending(r, page) ==
  IF r.token = 0 /\ page # {} THEN HighWater(page) ELSE r.pendingId

\* Mutant of Draining: the checkpoint moves before the window is drained.
DrainingCommits(r, page, next) ==
  [r EXCEPT !.state = "checkpointed", !.status = "verified", !.initial = 0,
            !.sinceId = Pending(r, page), !.sinceTime = 0]

\* _next_meta when the page has a next_token.
Draining(r, page, next) ==
  [r EXCEPT !.state = "draining", !.status = "verified", !.initial = 0,
            !.token = next, !.pendingId = Pending(r, page),
            !.pendingStart = IF r.sinceTime = 0 THEN Boundary(r).time ELSE @]

\* _next_meta when the page is the last one: with a high-water mark the
\* checkpoint moves there, an empty timeline moves a time checkpoint to at.
Checkpointed(r, page, at) ==
  LET final == IF Pending(r, page) # 0 THEN Pending(r, page) ELSE HighWater(page) IN
  [r EXCEPT !.state = "checkpointed", !.status = "verified", !.initial = 0,
            !.sinceId = IF final # 0 THEN final ELSE @,
            !.sinceTime = IF final # 0 THEN 0
                          ELSE IF r.token = 0 /\ r.sinceId = 0 THEN at ELSE @,
            !.token = 0, !.pendingId = 0, !.pendingStart = 0]

\* _next_meta, and the ValueErrors it ends in.
NextMeta(r, page, next, at) ==
  IF next # 0 THEN Draining(r, page, next) ELSE Checkpointed(r, page, at)

\* Mutant of Advances: the next runtime is not validated.
AdvancesUnchecked(r, page, next, at) ==
  /\ next # 0 => next # r.token
  /\ next = 0 /\ page = {} /\ r.token = 0 /\ r.sinceId = 0 => at >= r.sinceTime

Advances(r, page, next, at) ==
  /\ next # 0 => next # r.token
  /\ next = 0 /\ page = {} /\ r.token = 0 /\ r.sinceId = 0 => at >= r.sinceTime
  /\ Valid(NextMeta(r, page, next, at))

\* _resolve_x_identity
Resolved(r, user, at) ==
  [r EXCEPT !.state = "uninitialized", !.status = "pending", !.user = {user},
            !.initial = at - Lookback]

-----------------------------------------------------------------------------
(* The remote side and the operator *)

Publish(a, original) ==
  /\ Len(timeline[a]) < MaxPosts
  /\ timeline' = [timeline EXCEPT ![a] = Append(@, [time |-> now, original |-> original])]
  /\ UNCHANGED <<now, file, edits, rowVars, job, failures>>

Tick ==
  /\ now < StartTime + MaxTime
  /\ now' = now + 1
  /\ UNCHANGED <<timeline, file, edits, rowVars, job, failures>>

\* The source gets another username in the source file.
EditUsername(a) ==
  /\ edits < MaxEdits
  /\ file # a
  /\ file' = a
  /\ edits' = edits + 1
  /\ UNCHANGED <<now, timeline, rowVars, job, failures>>

-----------------------------------------------------------------------------
(* A fetch process *)

IdleJob == [pc |-> "idle", name |-> "", runtime |-> Unresolved, next |-> Unresolved, items |-> {}]

\* Mutant of Start: a blocked reference is not fetched again.
StartUnblocked(f) ==
  /\ job[f].pc = "idle"
  /\ name = file => runtime.status # "blocked"
  /\ name' = file
  /\ runtime' = IF name = file THEN runtime ELSE Unresolved
  /\ job' = [job EXCEPT ![f] = [IdleJob EXCEPT !.pc = "loaded", !.name = file, !.runtime = runtime']]
  /\ UNCHANGED <<items, from, remoteVars, failures>>

\* fetch_all: sync_to_db keeps the runtime of an unchanged identity, and
\* load_fetchable_sources_from_db takes the snapshot the request starts from.
Start(f) ==
  /\ job[f].pc = "idle"
  /\ name' = file
  /\ runtime' = IF name = file THEN runtime ELSE Unresolved
  /\ job' = [job EXCEPT ![f] = [IdleJob EXCEPT !.pc = "loaded", !.name = file, !.runtime = runtime']]
  /\ UNCHANGED <<items, from, remoteVars, failures>>

\* fetch_x_timeline of a row without a user id: the identity lookup.
Lookup(f, at) ==
  /\ job[f].pc = "loaded"
  /\ job[f].runtime.state = "identity_pending"
  /\ job' = [job EXCEPT ![f].pc = "fetched",
                        ![f].next = Resolved(job[f].runtime, job[f].name, at)]
  /\ UNCHANGED <<remoteVars, rowVars, failures>>

\* fetch_x_timeline of a row with a user id: one page of the timeline.
FetchPage(f, at, cut) ==
  /\ job[f].pc = "loaded"
  /\ job[f].runtime.state # "identity_pending"
  /\ \E user \in job[f].runtime.user :
       LET posts  == timeline[user]
           r      == job[f].runtime
           window == Window(posts, r)
           page   == Page(posts, window, cut)
           next   == NextToken(window, cut)
       IN /\ Cardinality(page) <= PageSize
          /\ next # 0 => cut \in window /\ (GapPages \/ page # {})
          /\ Advances(r, page, next, at)
          /\ job' = [job EXCEPT ![f].pc = "fetched",
                                ![f].next = NextMeta(r, page, next, at),
                                ![f].items = {<<user, i>> : i \in page}]
  /\ UNCHANGED <<remoteVars, rowVars, failures>>

\* The request fails, the response is refused, or the cursor does not advance.
FetchFails(f) ==
  /\ job[f].pc = "loaded"
  /\ failures < MaxFailures
  /\ failures' = failures + 1
  /\ job' = [job EXCEPT ![f].pc = "failed"]
  /\ UNCHANGED <<remoteVars, rowVars>>

\* Mutants of Current: only the identity, or only the runtime, is compared.
CurrentByName(f)    == job[f].name = name
CurrentByRuntime(f) == job[f].runtime = runtime

\* The comparison that rejects "X source state changed while fetching".
Current(f) == job[f].name = name /\ job[f].runtime = runtime

\* _apply_source_feed_result: runtime and items in one transaction, or the
\* rollback of a stale one.
Apply(f) ==
  /\ job[f].pc = "fetched"
  /\ IF Current(f)
       THEN /\ runtime' = job[f].next
            /\ items' = items \cup job[f].items
            /\ from' = IF job[f].next.initial # 0 THEN job[f].next.initial ELSE from
       ELSE UNCHANGED <<runtime, items, from>>
  /\ job' = [job EXCEPT ![f] = IdleJob]
  /\ UNCHANGED <<name, remoteVars, failures>>

\* _persist_x_failure: the cursor stays, the reference is blocked.
Block(f) ==
  /\ job[f].pc = "failed"
  /\ runtime' = IF Current(f) THEN [runtime EXCEPT !.status = "blocked"] ELSE runtime
  /\ job' = [job EXCEPT ![f] = IdleJob]
  /\ UNCHANGED <<name, items, from, remoteVars, failures>>

\* The process dies or its transaction fails and is rolled back.
Crash(f) ==
  /\ job[f].pc # "idle"
  /\ failures < MaxFailures
  /\ failures' = failures + 1
  /\ job' = [job EXCEPT ![f] = IdleJob]
  /\ UNCHANGED <<remoteVars, rowVars>>

-----------------------------------------------------------------------------
(* Specification *)

Init ==
  /\ now = StartTime
  /\ timeline = [a \in Accounts |-> <<>>]
  /\ file \in Accounts
  /\ edits = 0
  /\ failures = 0
  /\ name = file
  /\ runtime = Unresolved
  /\ items = {}
  /\ job = [f \in Fetchers |-> IdleJob]
  /\ from = 0

RemoteStep ==
  \/ \E a \in Accounts, original \in BOOLEAN : Publish(a, original)
  \/ Tick
  \/ \E a \in Accounts : EditUsername(a)

\* fetched_at of a request sent now
Clock == (now - Lag)..now

Request(f) ==
  \/ \E at \in Clock : Lookup(f, at)
  \/ \E at \in Clock, cut \in 1..(MaxPosts + 1) : FetchPage(f, at, cut)

Next ==
  \/ RemoteStep
  \/ \E f \in Fetchers :
       Start(f) \/ Request(f) \/ FetchFails(f) \/ Apply(f) \/ Block(f) \/ Crash(f)

Spec == Init /\ [][Next]_vars

\* cron starts rounds for ever, and the API answers again and again.
Fairness ==
  \A f \in Fetchers :
    /\ WF_vars(Start(f))
    /\ SF_vars(Request(f))
    /\ WF_vars(Apply(f) \/ Block(f))

FairSpec == Spec /\ Fairness

-----------------------------------------------------------------------------
(* Properties *)

Result == Accounts \X (1..MaxPosts)

Job == [pc : {"idle", "loaded", "fetched", "failed"}, name : Accounts \cup {""},
        runtime : Runtime, next : Runtime, items : SUBSET Result]

\* Every variable holds a value of its kind, and what the row or a process
\* holds passes the validator: sync_to_db ends a round for every source if
\* one row does not.
TypeOK ==
  /\ now \in Nat /\ now >= StartTime
  /\ timeline \in [Accounts -> Seq(Entry)]
  /\ \A a \in Accounts : Len(timeline[a]) <= MaxPosts
  /\ file \in Accounts /\ name \in Accounts
  /\ edits \in Nat /\ failures \in Nat /\ from \in Nat
  /\ runtime \in Runtime /\ Valid(runtime)
  /\ items \subseteq Result
  /\ job \in [Fetchers -> Job]
  /\ \A f \in Fetchers : Valid(job[f].runtime) /\ Valid(job[f].next)

\* What a runtime claims to have collected of a timeline.
Collected(r, posts, i) ==
  \/ i <= r.sinceId
  \/ posts[i].time < r.sinceTime
  \/ r.token # 0 /\ r.token <= i /\ i <= r.pendingId

\* No post is skipped: an original that the account published in the cold
\* start window or later and that the cursor has passed is in the database,
\* whatever pages, failures, overlapping rounds and identity changes came
\* between (architecture.md 306: the checkpoint only moves once drained).
NothingSkipped ==
  \A user \in runtime.user : \A i \in DOMAIN timeline[user] :
    /\ timeline[user][i].original
    /\ timeline[user][i].time >= from
    /\ Collected(runtime, timeline[user], i)
    => <<user, i>> \in items

\* A row's user id is the one of the row's username: a lookup that was on its
\* way while the source got another username is not stored for the new one.
OwnIdentity == runtime.user \subseteq {name}

\* A committed checkpoint never moves back while the identity stays, although
\* overlapping rounds write results of different age (the SQL CAS of ADR-046).
Forward ==
  name' = name /\ runtime.user # {} =>
    /\ runtime'.sinceId >= runtime.sinceId
    /\ runtime'.sinceId = 0 => runtime'.sinceTime >= runtime.sinceTime

NeverBack == [][Forward]_vars

\* A cursor speaks of posts that exist and of the past.
Past(r) ==
  /\ r.sinceTime <= now
  /\ \A user \in r.user : r.sinceId <= Len(timeline[user]) /\ r.pendingId <= Len(timeline[user])

\* The start of the cold start window, while the runtime still holds it.
WindowKept ==
  /\ runtime.initial # 0 => from = runtime.initial
  /\ runtime.pendingStart # 0 => from = runtime.pendingStart

\* A process works for the username it loaded.
Owned(f) ==
  job[f].pc # "idle" => job[f].name \in Accounts /\ job[f].runtime.user \subseteq {job[f].name}

\* The originals of the window that n claims to have collected of user's
\* timeline are claimed by r too or are among the new items.
Carries(r, n, posts, new, user) ==
  \A i \in DOMAIN posts :
    /\ posts[i].original
    /\ posts[i].time >= r.pendingStart
    /\ posts[i].time >= r.initial
    /\ Collected(n, posts, i)
    => Collected(r, posts, i) \/ <<user, i>> \in new

\* A result is not behind its snapshot, and what it claims beyond it, it
\* carries along.
Carried(f) ==
  LET r == job[f].runtime
      n == job[f].next
  IN job[f].pc = "fetched" =>
       /\ Past(n)
       /\ \/ /\ n.initial # 0 /\ n.user = {job[f].name} /\ r.user = {}
             /\ n.sinceId = 0 /\ n.sinceTime = 0 /\ n.token = 0 /\ n.pendingStart = 0
          \/ /\ n.initial = 0 /\ n.user = r.user
             /\ n.sinceId >= r.sinceId
             /\ n.sinceId = 0 => n.sinceTime >= r.sinceTime
             /\ n.pendingStart \in {0, r.pendingStart, r.initial}
             /\ \A user \in r.user : Carries(r, n, timeline[user], job[f].items, user)

\* The inductive invariant behind NothingSkipped.
IInv ==
  /\ TypeOK /\ NothingSkipped /\ OwnIdentity /\ WindowKept
  /\ Past(runtime)
  /\ \A f \in Fetchers : Past(job[f].runtime) /\ Owned(f) /\ Carried(f)

\* A post of the cold start window or later is collected unless the source
\* gets another username, however often rounds fail, overlap or die.
EventuallyCollected ==
  \A a \in Accounts : \A i \in 1..MaxPosts :
    /\ i \in DOMAIN timeline[a]
    /\ timeline[a][i].original
    /\ timeline[a][i].time >= from
    /\ runtime.user = {a}
    ~> (<<a, i>> \in items \/ file # a)
=============================================================================
