--------------------------- MODULE AlertLifecycle ---------------------------
(***************************************************************************)
(* The lifecycle of one alert rule (src/src/airadar/admin/alerts.py): what *)
(* an evaluation does to the state file, when it speaks and when it is     *)
(* silent, under evaluators that overlap, die between two writes and talk  *)
(* to a transport whose answer may be lost.                                *)
(*                                                                         *)
(* An evaluation reads the signals (Observe), then holds the file lock     *)
(* from loading the state to its last write: Evaluate ends it or leaves a  *)
(* message prepared in the file, Send hands the message to im-notify and   *)
(* Finish writes what became of it.  Rules share the file but not the      *)
(* entries of it, so one rule is followed; which one is chosen at the      *)
(* start.  The lock is the one evaluator between Evaluate and Finish: the  *)
(* kernel frees it when that evaluator dies.                               *)
(*                                                                         *)
(* Left out: texts, evaluation_state and firing_basis of the entry, which  *)
(* decide nothing here, and the ledger rows of delivered messages, which   *)
(* are written after everything else and whose failure is ignored.         *)
(***************************************************************************)
EXTENDS Integers, FiniteSets, Sequences

CONSTANTS
  Evaluators,     \* processes that evaluate alerts
  Rules,          \* the rules followed, one per behaviour
  Evaluating,     \* Evaluating[r]: the processes that may evaluate rule r
  Sources,        \* the sources rule A7 watches
  Debounce,       \* Debounce[r][s]: minutes a severity must last, in ticks
  ResolveRounds,  \* ResolveRounds[r]: quiet evaluations owed before recovery
  Epoch,          \* the first instant, later than any debounce window
  MaxTime,        \* MaxTime[r]: bound on the clock
  MaxChange,      \* MaxChange[r]: bound on changes of what the signals say
  MaxCrash        \* bound on evaluators killed

Severities == {"page", "notice"}

ASSUME RulesAssumption == Rules \subseteq {"A2", "A4", "A7", "W1", "PERF"}

ASSUME EvaluatingAssumption == Evaluating \in [Rules -> SUBSET Evaluators]

ASSUME ThresholdsAssumption ==
  /\ Debounce \in [Rules -> [Severities -> Nat]]
  /\ ResolveRounds \in [Rules -> Nat]
  /\ Epoch \in Nat
  /\ \A r \in Rules, s \in Severities : Debounce[r][s] < Epoch

NoTime == 0      \* a field that is null; every instant is later

Other(s) == IF s = "page" THEN "notice" ELSE "page"

-----------------------------------------------------------------------------
(* Data *)

Message == [sev: Severities, type: {"firing", "resolved"}, nonce: Nat, since: Nat]

Pending == [type: {"firing", "resolved"}, nonce: Nat, since: Nat]
NoPending == [type |-> "firing", nonce |-> 0, since |-> NoTime]

Lifecycle ==
  [firing: BOOLEAN, since: Nat, announced: BOOLEAN, sequence: Nat,
   pending: Pending, quiet: Nat, sources: SUBSET Sources]

Fresh ==
  [firing |-> FALSE, since |-> NoTime, announced |-> FALSE, sequence |-> 0,
   pending |-> NoPending, quiet |-> 0, sources |-> {}]

\* What evaluate_rules can say: the fields the lifecycle looks at.
Result ==
  [firing: BOOLEAN, sev: Severities, suppressed: BOOLEAN,
   state: {"healthy", "in_progress", "degraded"},
   sources: SUBSET Sources, paused: SUBSET Sources, evaluated: SUBSET Sources]

\* A2 and A4 page or notify and lack evidence now and then; A2's page may be
\* carried by W1.  A7 names its sources: one is a notice, several a page; a
\* paused source is not evaluated.  W1 and PERF page.
Observable(r) ==
  {o \in Result :
     /\ o.firing => o.state = "healthy"
     /\ o.suppressed => o.firing /\ r = "A2" /\ o.sev = "page"
     /\ o.state = "in_progress" => r \in {"A2", "A4", "PERF"}
     /\ o.state = "degraded" => r = "A7"
     /\ r \in {"W1", "PERF"} \/ ~o.firing => o.sev = "page"
     /\ IF r = "A7"
        THEN /\ o.firing <=> o.sources # {}
             /\ o.firing => o.sev = IF Cardinality(o.sources) = 1 THEN "notice" ELSE "page"
             /\ o.sources \subseteq o.evaluated
             /\ o.paused \cap o.evaluated = {}
        ELSE o.sources \cup o.paused \cup o.evaluated = {}}

-----------------------------------------------------------------------------
VARIABLES
  rule,     \* the rule followed
  clock,
  world,    \* what an evaluation would read now
  lc,       \* the rule's lifecycles in the state file, one per severity
  ledger,   \* alert-events.jsonl: the rows of episodes closed by a pause
  ev,       \* the evaluators
  heard,    \* messages the operator has seen
  handed,   \* history: notifications handed to the transport
  calm,     \* history: quiet evaluations since a firing one was put on file
  spared,   \* history: quiet streak it found there and has not voided yet
  applied,  \* history: which world the last evaluation on file had read (PERF)
  changes, crashes

vars == <<rule, clock, world, lc, ledger, ev, heard, handed, calm, spared, applied,
          changes, crashes>>

\* seq is the reserved evaluation sequence less the entry's
\* last_evaluation_sequence: zero when a later evaluation is on file.  of is
\* the lifecycle whose notification msg is; saw numbers the world read.
Evaluator ==
  [pc: {"idle", "observed", "closed", "prepared", "sent"}, result: Result,
   at: Nat, seq: Nat, saw: Nat, of: Severities, msg: Message, delivered: BOOLEAN]

NoResult ==
  [firing |-> FALSE, sev |-> "page", suppressed |-> FALSE, state |-> "healthy",
   sources |-> {}, paused |-> {}, evaluated |-> {}]
NoMessage == [sev |-> "page", type |-> "firing", nonce |-> 0, since |-> NoTime]
Idle ==
  [pc |-> "idle", result |-> NoResult, at |-> NoTime, seq |-> 0, saw |-> 0,
   of |-> "page", msg |-> NoMessage, delivered |-> FALSE]

Holding == {e \in Evaluators : ev[e].pc \in {"closed", "prepared", "sent"}}

\* What is said of the lifecycle x of severity s: recoveries go to the notice channel.
Notification(x, s) ==
  [sev  |-> IF x.pending.type = "resolved" THEN "notice" ELSE s,
   type |-> x.pending.type, nonce |-> x.pending.nonce, since |-> x.since]

-----------------------------------------------------------------------------
(* What an evaluation makes of the lifecycles, l before and after *)

\* Mutant of Ok: the sequence starts again.
OkForgetful(x) == Fresh

\* A lifecycle that is over keeps its notification sequence only.
Ok(x) == [Fresh EXCEPT !.sequence = x.sequence]

\* The firing notification still owed, page first, or nothing.
Owed(l) == {s \in Severities : l[s].firing /\ l[s].pending.nonce > 0 /\ l[s].pending.type = "firing"}
Retried(l) == IF "page" \in Owed(l) THEN "page" ELSE "notice"

\* prepare_notification: the same intent keeps its nonce.
Prepared(l, s, type) ==
  LET x     == l[s]
      nonce == IF x.pending.nonce > 0 /\ x.pending.type = type /\ x.pending.since = x.since
                 THEN x.pending.nonce ELSE x.sequence + 1
  IN  [l EXCEPT ![s] = [x EXCEPT !.sequence = IF nonce > @ THEN nonce ELSE @,
                                 !.pending  = [type |-> type, nonce |-> nonce, since |-> x.since]]]

\* An announced episode handed over keeps its start when it outlasts the window.
TransitionSince(outgoing, at, debounce) ==
  IF outgoing <= at - debounce THEN outgoing ELSE at - debounce

Since(l, s, at) ==
  LET o == l[Other(s)] IN
  IF l[s].firing THEN l[s].since
  ELSE IF o.firing /\ o.announced THEN TransitionSince(o.since, at, Debounce[rule][s])
  ELSE IF o.firing THEN o.since
  ELSE at

\* The lifecycles before a firing evaluation decides whether to speak.
Opened(l, r, at) ==
  [s \in Severities |->
     IF s # r.sev THEN IF l[s].firing /\ ~l[s].announced THEN Ok(l[s]) ELSE l[s]
     ELSE [l[s] EXCEPT
             !.firing  = TRUE,
             !.since   = Since(l, s, at),
             !.pending = IF rule = "W1" /\ @.type = "resolved" THEN NoPending ELSE @,
             !.sources = IF rule = "A7" /\ ~l[s].firing THEN r.sources ELSE @]]

\* Mutant of Speaks: a notification is tried once.
SpeaksOnce(l, r, at) ==
  /\ ~r.suppressed
  /\ at - Since(l, r.sev, at) >= Debounce[rule][r.sev]
  /\ ~l[r.sev].announced /\ ~(l[r.sev].firing /\ l[r.sev].pending.nonce > 0)

Speaks(l, r, at) ==
  /\ ~r.suppressed
  /\ at - Since(l, r.sev, at) >= Debounce[rule][r.sev]
  /\ ~l[r.sev].announced

\* Mutant of Settled: what was sent counts as delivered.
SettledAtOnce(l, s, delivered) ==
  [x \in Severities |->
     IF x = s THEN [l[s] EXCEPT !.announced = TRUE, !.quiet = 0, !.pending = NoPending]
     ELSE IF l[x].announced THEN Ok(l[x]) ELSE l[x]]

\* Mutant of Settled: firing again leaves the quiet streaks alone.
SettledKeepingQuiet(l, s, delivered) ==
  LET announced == delivered \/ l[s].announced IN
  [x \in Severities |->
     IF x = s THEN [l[s] EXCEPT !.announced = announced,
                                !.pending = IF delivered THEN NoPending ELSE @]
     ELSE IF l[x].announced /\ announced THEN Ok(l[x]) ELSE l[x]]

\* ... and after: the outgoing severity is closed once this one is announced,
\* and its quiet streak is void in any case.
Settled(l, s, delivered) ==
  LET announced == delivered \/ l[s].announced IN
  [x \in Severities |->
     IF x = s THEN [l[s] EXCEPT !.announced = announced, !.quiet = 0,
                                !.pending = IF delivered THEN NoPending ELSE @]
     ELSE IF l[x].announced THEN IF announced THEN Ok(l[x]) ELSE [l[x] EXCEPT !.quiet = 0]
     ELSE l[x]]

\* Quiet evaluations owed: none when the subject could not be observed.
Rounds(r) == IF r.state = "degraded" THEN 0 ELSE ResolveRounds[rule]

\* A pause of some of the episode's sources proves nothing about the others.
Evidence(x, r) ==
  \/ rule # "A7" \/ x.sources \cap r.paused = {} \/ x.sources \subseteq r.paused
  \/ x.sources \ r.paused \subseteq r.evaluated

Waits(x, r) == Rounds(r) > 0 /\ x.quiet + 1 < Rounds(r)
Over(x, r) == x.firing /\ x.announced /\ ~Waits(x, r) /\ Evidence(x, r)

\* A lifecycle that a quiet evaluation passes without a message.
Quieted(x, r) ==
  IF ~x.firing THEN x
  ELSE IF ~x.announced THEN Ok(x)
  ELSE IF Waits(x, r) THEN [x EXCEPT !.quiet = @ + 1]
  ELSE x

Closed(l) == [s \in Severities |-> IF l[s].firing THEN Ok(l[s]) ELSE l[s]]

(* Rule A7 *)

Unidentified(l, r) ==
  rule = "A7" /\ r.paused # {} /\ \E s \in Severities : l[s].announced /\ l[s].sources = {}

PausedAway(l, r) ==
  {s \in Severities : rule = "A7" /\ l[s].announced /\ l[s].sources # {} /\ l[s].sources \subseteq r.paused}

\* While some source is silent, only a single episode may be closed by a pause.
Ambiguous(l, r) ==
  r.firing /\ PausedAway(l, r) # {} /\ Cardinality({s \in Severities : l[s].firing}) # 1

PauseRow(l, r) ==
  LET ss == PausedAway(l, r) IN
  [since   |-> l[IF "page" \in ss THEN "page" ELSE "notice"].since,
   sources |-> UNION {l[s].sources : s \in ss}]

Unpaused(l, r) == [s \in Severities |-> IF s \in PausedAway(l, r) THEN Ok(l[s]) ELSE l[s]]

\* The one active episode, when none of its sources is silent any more.
Replaced(l, r) ==
  LET active == {s \in Severities : l[s].firing} IN
  [s \in Severities |->
     IF /\ rule = "A7" /\ r.firing /\ active = {s}
        /\ l[s].sources # {} /\ l[s].sources \cap r.sources = {}
       THEN Ok(l[s]) ELSE l[s]]

-----------------------------------------------------------------------------
(* Steps of an evaluator *)

\* Mutant of Outdated: an older reservation is not told from a newer one.
OutdatedBelow(e) ==
  [x \in Evaluators |-> [ev[x] EXCEPT !.seq = IF x = e THEN 0 ELSE @ - ev[e].seq]]

\* What the other evaluators' reservations are worth once e is on file.
Outdated(e) ==
  [x \in Evaluators |->
     [ev[x] EXCEPT !.seq = IF x = e \/ @ <= ev[e].seq THEN 0 ELSE @ - ev[e].seq]]

\* ... and once e is gone without a trace.
Withdrawn(e) ==
  [x \in Evaluators |->
     IF x = e THEN Idle
     ELSE IF ev[e].seq > 0 /\ ev[x].seq > ev[e].seq THEN [ev[x] EXCEPT !.seq = @ - 1]
     ELSE ev[x]]

\* The entry is written with the lifecycles l; the evaluator goes on as v.
Save(e, l, v) ==
  /\ lc' = l
  /\ ev' = [Outdated(e) EXCEPT ![e] = v]
  /\ applied' = ev[e].saw

\* The sample lock makes reading and reserving, itself under the state lock, one
\* step for rule PERF; the other rules get their number with the state lock.
Observe(e) ==
  /\ ev[e].pc = "idle" /\ e \in Evaluating[rule]
  /\ rule = "PERF" => Holding = {}
  /\ \E n \in 0 .. Cardinality(Evaluators) :
       /\ IF rule = "PERF"
            THEN /\ n > 0 /\ \A x \in Evaluators : ev[x].seq < n
                 /\ n = 1 \/ \E x \in Evaluators : ev[x].seq = n - 1
            ELSE n = 0
       /\ ev' = [ev EXCEPT ![e] =
            [Idle EXCEPT !.pc = "observed", !.result = world, !.at = clock, !.seq = n,
                         !.saw = IF rule = "PERF" THEN changes ELSE 0]]
  /\ UNCHANGED <<rule, clock, world, lc, ledger, heard, handed, calm, spared, applied,
                 changes, crashes>>

\* Mutant of Stale: the sequence of the entry is not compared.
StaleNever(e) == FALSE

Stale(e) == rule = "PERF" /\ ev[e].seq = 0

\* The lock is free and the evaluation has something to say about the episode.
Proceeds(e) ==
  /\ ev[e].pc = "observed" /\ Holding = {}
  /\ ~Stale(e)
  /\ ~Unidentified(lc, ev[e].result) /\ ~Ambiguous(lc, ev[e].result)

\* A later evaluation is on file, or A7 cannot tell which episode a pause ended.
Skip(e) ==
  /\ ev[e].pc = "observed" /\ Holding = {}
  /\ Stale(e) \/ Unidentified(lc, ev[e].result) \/ Ambiguous(lc, ev[e].result)
  /\ ev' = [ev EXCEPT ![e] = Idle]
  /\ UNCHANGED <<rule, clock, world, lc, ledger, heard, handed, calm, spared, applied,
                 changes, crashes>>

\* Evidence is still to come: a firing notification that is owed is sent again
\* as it was, and nothing is written before.
Retry(e) ==
  /\ Proceeds(e) /\ ev[e].result.state = "in_progress" /\ Owed(lc) # {}
  /\ ev' = [ev EXCEPT ![e].pc = "prepared", ![e].of = Retried(lc),
                      ![e].msg = Notification(lc[Retried(lc)], Retried(lc))]
  /\ UNCHANGED <<rule, clock, world, lc, ledger, heard, handed, calm, spared, applied,
                 changes, crashes>>

Defer(e) ==
  /\ Proceeds(e) /\ ev[e].result.state = "in_progress" /\ Owed(lc) = {}
  /\ Save(e, lc, Idle)
  /\ UNCHANGED <<rule, clock, world, ledger, heard, handed, calm, spared, changes, crashes>>

\* Mutant of ClosePaused: a row that cannot be written is done without.
ClosePausedAnyway(e) ==
  /\ Proceeds(e) /\ PausedAway(lc, ev[e].result) # {}
  /\ ev' = [ev EXCEPT ![e].pc = "closed"]
  /\ UNCHANGED <<rule, clock, world, lc, ledger, heard, handed, calm, spared, applied, changes, crashes>>

\* The row of an episode whose sources are all paused is written before the
\* state and once; without it the episode stays open.
ClosePaused(e) ==
  LET row == PauseRow(lc, ev[e].result) IN
  /\ Proceeds(e) /\ PausedAway(lc, ev[e].result) # {}
  /\ \/ /\ ledger' = IF \E i \in DOMAIN ledger : ledger[i] = row THEN ledger ELSE Append(ledger, row)
        /\ ev' = [ev EXCEPT ![e].pc = "closed"]
     \/ /\ ledger' = ledger
        /\ ev' = [ev EXCEPT ![e] = Idle]
  /\ UNCHANGED <<rule, clock, world, lc, heard, handed, calm, spared, applied, changes, crashes>>

\* A quiet evaluation does no more than that for a paused episode.
RecordPaused(e) ==
  /\ ev[e].pc = "closed" /\ ~ev[e].result.firing
  /\ Save(e, Unpaused(lc, ev[e].result), Idle)
  /\ UNCHANGED <<rule, clock, world, ledger, heard, handed, calm, spared, changes, crashes>>

\* The lifecycles a firing evaluation starts from, and when it may start.
Base(e) ==
  Replaced(IF ev[e].pc = "closed" THEN Unpaused(lc, ev[e].result) ELSE lc, ev[e].result)

Fires(e) ==
  /\ ev[e].result.firing
  /\ ev[e].pc = "closed" \/ (Proceeds(e) /\ PausedAway(lc, ev[e].result) = {})

\* A notification is prepared in the file before it is sent.
Prepare(e, l, s, type) ==
  LET p == Prepared(l, s, type) IN
  Save(e, p, [ev[e] EXCEPT !.pc = "prepared", !.seq = 0, !.of = s, !.msg = Notification(p[s], s)])

Announce(e) ==
  LET r == ev[e].result IN
  /\ Fires(e) /\ Speaks(Base(e), r, ev[e].at)
  /\ Prepare(e, Opened(Base(e), r, ev[e].at), r.sev, "firing")
  /\ calm' = 0 /\ spared' = Base(e)[Other(r.sev)].quiet
  /\ UNCHANGED <<rule, clock, world, ledger, heard, handed, changes, crashes>>

KeepFiring(e) ==
  LET r == ev[e].result IN
  /\ Fires(e) /\ ~Speaks(Base(e), r, ev[e].at)
  /\ Save(e, Settled(Opened(Base(e), r, ev[e].at), r.sev, FALSE), Idle)
  /\ calm' = 0 /\ spared' = 0
  /\ UNCHANGED <<rule, clock, world, ledger, heard, handed, changes, crashes>>

Quiet(e) ==
  /\ ~ev[e].result.firing /\ ev[e].result.state # "in_progress"
  /\ Proceeds(e) /\ PausedAway(lc, ev[e].result) = {}

Calmer(e) ==
  IF ev[e].result.state = "healthy" /\ calm < ResolveRounds[rule] THEN calm + 1 ELSE calm

\* One recovery is announced for the rule: page, if it is due, else notice.
Recover(e) ==
  LET r == ev[e].result IN
  /\ Quiet(e)
  /\ IF Over(lc.page, r)
       THEN Prepare(e, lc, "page", "resolved")
       ELSE /\ Over(lc.notice, r)
            /\ Prepare(e, [lc EXCEPT !.page = Quieted(@, r)], "notice", "resolved")
  /\ calm' = Calmer(e)
  /\ UNCHANGED <<rule, clock, world, ledger, heard, handed, spared, changes, crashes>>

StayQuiet(e) ==
  LET r == ev[e].result IN
  /\ Quiet(e) /\ \A s \in Severities : ~Over(lc[s], r)
  /\ Save(e, [s \in Severities |-> Quieted(lc[s], r)], Idle)
  /\ calm' = Calmer(e)
  /\ UNCHANGED <<rule, clock, world, ledger, heard, handed, spared, changes, crashes>>

\* im-notify shows a signature once; its answer may be lost to a timeout.
Hand(e, shown, answered) ==
  /\ ev[e].pc = "prepared"
  /\ handed' = handed \cup {[of |-> ev[e].of, msg |-> ev[e].msg]}
  /\ heard' = IF shown THEN heard \cup {ev[e].msg} ELSE heard
  /\ ev' = [ev EXCEPT ![e].pc = "sent", ![e].delivered = answered]
  /\ UNCHANGED <<rule, clock, world, lc, ledger, calm, spared, applied, changes, crashes>>

Accepted(e) == Hand(e, TRUE, TRUE)
Refused(e) == Hand(e, FALSE, FALSE)
AnswerLost(e) == Hand(e, TRUE, FALSE)

\* What became of the message is written and the lock released.
Finish(e) ==
  LET s == ev[e].of  d == ev[e].delivered IN
  /\ ev[e].pc = "sent"
  /\ IF ev[e].msg.type = "resolved"
       THEN Save(e, IF d THEN Closed(lc) ELSE lc, Idle) /\ spared' = spared
     ELSE IF ev[e].result.state = "in_progress"
       THEN /\ Save(e, [lc EXCEPT ![s] = [lc[s] EXCEPT !.announced = d,
                                            !.pending = IF d THEN NoPending ELSE lc[s].pending]], Idle)
            /\ spared' = spared
     ELSE Save(e, Settled(lc, s, d), Idle) /\ spared' = 0
  /\ UNCHANGED <<rule, clock, world, ledger, heard, handed, calm, changes, crashes>>

\* STATE_LOCK_TIMEOUT_SECONDS pass while another evaluation holds the lock.
Abandon(e) ==
  /\ ev[e].pc = "observed" /\ Holding # {}
  /\ ev' = Withdrawn(e)
  /\ UNCHANGED <<rule, clock, world, lc, ledger, heard, handed, calm, spared, applied,
                 changes, crashes>>

Crash(e) ==
  /\ ev[e].pc # "idle" /\ crashes < MaxCrash
  /\ ev' = Withdrawn(e)
  /\ crashes' = crashes + 1
  /\ UNCHANGED <<rule, clock, world, lc, ledger, heard, handed, calm, spared, applied, changes>>

Tick ==
  /\ clock < MaxTime[rule]
  /\ clock' = clock + 1
  /\ UNCHANGED <<rule, world, lc, ledger, ev, heard, handed, calm, spared, applied, changes, crashes>>

\* The signals change.
Turn ==
  /\ changes < MaxChange[rule]
  /\ \E o \in Observable(rule) \ {world} : world' = o
  /\ changes' = changes + 1
  /\ UNCHANGED <<rule, clock, lc, ledger, ev, heard, handed, calm, spared, applied, crashes>>

-----------------------------------------------------------------------------
\* An A7 episode announced before its sources were recorded with it.
Legacy == [Fresh EXCEPT !.firing = TRUE, !.since = Epoch, !.announced = TRUE, !.sequence = 1]
LegacyMessage == [sev |-> "page", type |-> "firing", nonce |-> 1, since |-> Epoch]

Init ==
  /\ rule \in Rules
  /\ clock = Epoch
  /\ world \in Observable(rule)
  /\ \/ /\ lc = [s \in Severities |-> Fresh]
        /\ heard = {} /\ handed = {}
     \/ /\ rule = "A7"
        /\ lc = [s \in Severities |-> IF s = "page" THEN Legacy ELSE Fresh]
        /\ heard = {LegacyMessage}
        /\ handed = {[of |-> "page", msg |-> LegacyMessage]}
  /\ ledger = <<>>
  /\ ev = [e \in Evaluators |-> Idle]
  /\ calm = 0 /\ spared = 0 /\ applied = 0 /\ changes = 0 /\ crashes = 0

\* What an evaluator does once it has read the signals.
Step(e) ==
  \/ Skip(e) \/ Retry(e) \/ Defer(e) \/ ClosePaused(e) \/ RecordPaused(e)
  \/ Announce(e) \/ KeepFiring(e) \/ Recover(e) \/ StayQuiet(e)
  \/ Accepted(e) \/ Refused(e) \/ AnswerLost(e) \/ Finish(e)

Next ==
  \/ \E e \in Evaluators : Observe(e) \/ Step(e) \/ Abandon(e) \/ Crash(e)
  \/ Tick \/ Turn

Spec == Init /\ [][Next]_vars

\* launchd starts alert-check and the samplers start run_performance_alerts
\* again and again, no step of an evaluation waits for anything but the lock,
\* and im-notify does not refuse for ever.
Fairness ==
  /\ WF_vars(\E e \in Evaluators : Observe(e))
  /\ \A e \in Evaluators : WF_vars(Step(e)) /\ SF_vars(Accepted(e))

FairSpec == Spec /\ Fairness

-----------------------------------------------------------------------------
(* Properties *)

TypeOK ==
  /\ rule \in Rules /\ clock \in Nat /\ world \in Result
  /\ lc \in [Severities -> Lifecycle]
  /\ ledger \in Seq([since: Nat, sources: SUBSET Sources])
  /\ ev \in [Evaluators -> Evaluator]
  /\ heard \subseteq Message
  /\ handed \subseteq [of: Severities, msg: Message]
  /\ calm \in Nat /\ spared \in Nat /\ applied \in Nat /\ changes \in Nat /\ crashes \in Nat

\* One nonce of a lifecycle never stands for two things to say: im-notify
\* would show both, or, after a lost answer, the first instead of the second.
NonceNamesOneIntent ==
  \A m, n \in handed : m.of = n.of /\ m.msg.nonce = n.msg.nonce => m = n

\* An episode the file calls announced is one the operator was told of, under
\* its severity and with its start ...
AnnouncedWasHeard ==
  \A s \in Severities : lc[s].announced =>
    \E m \in heard : m.sev = s /\ m.type = "firing" /\ m.since = lc[s].since

\* ... and no recovery is told of an episode nobody was told about.
NoFakeRecovery ==
  \A m \in heard : m.type = "resolved" =>
    \E f \in heard : f.type = "firing" /\ f.since = m.since

\* No crash, refusal or lost answer makes the state file, or a recovery, claim
\* more than the operator has seen.
OperatorKnows == AnnouncedWasHeard /\ NoFakeRecovery

\* A recovery is announced only after the quiet evaluations the rule owes.  They
\* are all from after the rule last fired, but for one case: the streak of the
\* outgoing severity is voided with the record of the firing evaluation, so a
\* death between preparing its notification and recording it spares that streak,
\* and the recovery is served in part before the rule fired (against the comment
\* at alerts.py:2694, that a firing rule voids it on every outgoing severity).
RecoveryEarned ==
  \A e \in Holding :
    /\ ev[e].msg.type = "resolved" /\ ev[e].result.state # "degraded"
    => calm + spared >= ResolveRounds[rule]

\* An announced episode does not end in silence: a recovery was heard, the
\* other severity took it over, a ledger row says its sources are paused, or
\* none of its sources is among those of the episode that replaces it.
Accounted ==
  \A s \in Severities : lc[s].announced /\ lc'[s].since # lc[s].since =>
    \/ \E m \in heard', t \in Severities :
          m.type = "resolved" /\ lc[t].announced /\ m.since = lc[t].since
    \/ lc'[Other(s)].announced
    \/ \E i \in DOMAIN ledger : ledger[i].since = lc[s].since /\ lc[s].sources \subseteq ledger[i].sources
    \/ rule = "A7" /\ \E t \in Severities :
          lc'[t].firing /\ lc[s].sources \cap lc'[t].sources = {}

\* However often an evaluator dies between the row and the state, a paused
\* episode is closed by one row.
PausedOnce == \A i, j \in DOMAIN ledger : ledger[i] = ledger[j] => i = j

EpisodesEndAccounted == [][Accounted /\ PausedOnce']_vars

\* Rule PERF: an evaluation of older samples that comes late to the lock never
\* replaces what a later one has put on file.
NewerEvidenceStays == [][rule = "PERF" => applied' >= applied]_vars

\* For every rule but A7, whose worlds name sources and may pause them: what
\* keeps firing, unsuppressed and with no debounce window to wait for, is
\* announced ...
FiringIsAnnounced ==
  <>[](rule # "A7" /\ world.firing /\ ~world.suppressed /\ Debounce[rule][world.sev] = 0)
    => <>[]lc[world.sev].announced

\* ... and what stays quiet on healthy evidence is closed ...
ClearIsClosed ==
  <>[](rule # "A7" /\ ~world.firing /\ world.state = "healthy")
    => <>[](\A s \in Severities : ~lc[s].firing)

\* ... in the end, whatever crashes, refusals and lost answers come before.
ReportedInTheEnd == FiringIsAnnounced /\ ClearIsClosed
=============================================================================
