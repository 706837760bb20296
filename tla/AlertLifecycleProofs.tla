------------------------ MODULE AlertLifecycleProofs ------------------------
(***************************************************************************)
(* Safety of AlertLifecycle for any number of evaluators, any thresholds   *)
(* and any bounds.  The heart is Sound: what must hold between one entry   *)
(* of the state file, what was handed to the transport and what was heard, *)
(* after every write.  Each function of an evaluation is shown to keep it; *)
(* the steps then only have to be taken apart into those functions.        *)
(***************************************************************************)
EXTENDS AlertLifecycle, TLAPS

(* One entry *)

\* A pending notification belongs to the episode under way, is never a firing
\* one of an announced episode, and its nonce is the last one given out or older.
Kept(x) ==
  /\ x.announced => x.firing
  /\ x.pending.nonce > 0 =>
       /\ x.firing /\ x.pending.since = x.since /\ x.pending.nonce <= x.sequence
       /\ x.announced => x.pending.type = "resolved"
  /\ x.quiet > 0 => x.announced

\* What was handed out for severity s used nonces given out before, and the
\* pending nonce for what is pending only.
Told(x, s) ==
  \A h \in handed : h.of = s =>
    /\ h.msg.nonce > 0 /\ h.msg.nonce <= x.sequence
    /\ h.msg.nonce = x.pending.nonce => h.msg = Notification(x, s)

Witnessed(x, s) ==
  x.announced => \E m \in heard : m.sev = s /\ m.type = "firing" /\ m.since = x.since

SoundEntry(x, s) == x \in Lifecycle /\ Kept(x) /\ Told(x, s) /\ Witnessed(x, s)

Sound(l) == l \in [Severities -> Lifecycle] /\ \A s \in Severities : SoundEntry(l[s], s)

Streaks(l, n) == \A s \in Severities : l[s].quiet <= n

-----------------------------------------------------------------------------
(* The functions of an evaluation keep an entry sound *)

Recorded == handed \subseteq [of: Severities, msg: Message] /\ heard \subseteq Message

LEMMA LifecycleFields ==
  ASSUME NEW x \in Lifecycle
  PROVE  /\ x.firing \in BOOLEAN /\ x.announced \in BOOLEAN /\ x.since \in Nat
         /\ x.sequence \in Nat /\ x.pending \in Pending /\ x.quiet \in Nat
         /\ x.sources \in SUBSET Sources
         /\ x.pending.nonce \in Nat /\ x.pending.since \in Nat
         /\ x.pending.type \in {"firing", "resolved"}
BY DEF Lifecycle, Pending

LEMMA OkKeeps ==
  ASSUME NEW x, NEW s \in Severities, SoundEntry(x, s), Recorded
  PROVE  SoundEntry(Ok(x), s)
<1>1. x.sequence \in Nat
  BY LifecycleFields DEF SoundEntry
<1>2. Ok(x) \in Lifecycle
  BY <1>1 DEF Ok, Fresh, Lifecycle, Pending, NoPending, NoTime
<1>3. /\ Ok(x).firing = FALSE /\ Ok(x).announced = FALSE /\ Ok(x).quiet = 0
      /\ Ok(x).pending.nonce = 0 /\ Ok(x).sequence = x.sequence
  BY DEF Ok, Fresh, NoPending
<1>4. Kept(Ok(x)) /\ Witnessed(Ok(x), s)
  BY <1>3 DEF Kept, Witnessed
<1>5. Told(Ok(x), s)
  BY <1>3 DEF Told, SoundEntry
<1> QED
  BY <1>2, <1>4, <1>5 DEF SoundEntry

LEMMA Quieter ==
  ASSUME NEW x, NEW s \in Severities, SoundEntry(x, s), NEW q \in Nat,
         x.announced \/ q = 0
  PROVE  SoundEntry([x EXCEPT !.quiet = q], s)
<1> DEFINE y == [x EXCEPT !.quiet = q]
<1>1. y \in Lifecycle
  BY DEF SoundEntry, Lifecycle
<1>2. /\ y.firing = x.firing /\ y.since = x.since /\ y.announced = x.announced
      /\ y.sequence = x.sequence /\ y.pending = x.pending /\ y.quiet = q
  BY DEF SoundEntry, Lifecycle
<1>3. Kept(y)
  BY <1>2 DEF SoundEntry, Kept
<1>4. Told(y, s) /\ Witnessed(y, s)
  BY <1>2 DEF SoundEntry, Told, Witnessed, Notification
<1> QED
  BY <1>1, <1>3, <1>4 DEF SoundEntry

LEMMA QuietedKeeps ==
  ASSUME NEW x, NEW s \in Severities, NEW r, SoundEntry(x, s), Recorded
  PROVE  SoundEntry(Quieted(x, r), s)
<1>1. x.quiet \in Nat
  BY LifecycleFields DEF SoundEntry
<1>2. CASE ~x.announced
  BY <1>2, OkKeeps DEF Quieted
<1>3. CASE x.announced
  <2>1. SoundEntry([x EXCEPT !.quiet = @ + 1], s)
    BY <1>1, <1>3, Quieter
  <2> QED
    BY <1>3, <2>1 DEF Quieted
<1> QED
  BY <1>2, <1>3

\* A new or repeated intent: the nonce is given to it alone.
LEMMA PreparedKeeps ==
  ASSUME NEW l, Sound(l), Recorded, NEW s \in Severities,
         NEW type \in {"firing", "resolved"}, l[s].firing,
         type = "firing" => ~l[s].announced
  PROVE  /\ Sound(Prepared(l, s, type))
         /\ Prepared(l, s, type)[s].pending.type = type
         /\ Prepared(l, s, type)[s].pending.nonce > 0
         /\ \A t \in Severities :
              /\ Prepared(l, s, type)[t].announced = l[t].announced
              /\ Prepared(l, s, type)[t].firing = l[t].firing
              /\ Prepared(l, s, type)[t].since = l[t].since
              /\ Prepared(l, s, type)[t].quiet = l[t].quiet
<1> DEFINE x == l[s]
           nonce == IF x.pending.nonce > 0 /\ x.pending.type = type /\ x.pending.since = x.since
                      THEN x.pending.nonce ELSE x.sequence + 1
           y == [x EXCEPT !.sequence = IF nonce > x.sequence THEN nonce ELSE x.sequence,
                          !.pending  = [type |-> type, nonce |-> nonce, since |-> x.since]]
<1>1. Prepared(l, s, type) = [l EXCEPT ![s] = y]
  BY DEF Prepared
<1>2. SoundEntry(x, s) /\ x \in Lifecycle
  BY DEF Sound, SoundEntry
<1>3. x.sequence \in Nat /\ x.pending.nonce \in Nat /\ x.since \in Nat
  BY <1>2, LifecycleFields
<1>4. nonce \in Nat /\ nonce > 0
  BY <1>3
<1>5. y \in Lifecycle
  BY <1>2, <1>3, <1>4 DEF Lifecycle, Pending
<1>6. /\ y.firing = x.firing /\ y.since = x.since /\ y.announced = x.announced /\ y.quiet = x.quiet
      /\ y.sequence = (IF nonce > x.sequence THEN nonce ELSE x.sequence)
      /\ y.pending = [type |-> type, nonce |-> nonce, since |-> x.since]
  BY <1>2 DEF Lifecycle
<1>7. y.sequence \in Nat /\ nonce <= y.sequence /\ x.sequence <= y.sequence
  BY <1>3, <1>4, <1>6
<1>8. Kept(y)
  BY <1>2, <1>4, <1>6, <1>7 DEF SoundEntry, Kept
<1>9. Told(y, s)
  <2> SUFFICES ASSUME NEW h \in handed, h.of = s
               PROVE  /\ h.msg.nonce > 0 /\ h.msg.nonce <= y.sequence
                      /\ h.msg.nonce = nonce => h.msg = Notification(y, s)
    BY <1>6 DEF Told
  <2>1. /\ h.msg.nonce > 0 /\ h.msg.nonce <= x.sequence
        /\ h.msg.nonce = x.pending.nonce => h.msg = Notification(x, s)
    BY <1>2 DEF SoundEntry, Told
  <2>2. h.msg.nonce \in Nat
    BY DEF Recorded, Message
  <2>3. h.msg.nonce <= y.sequence
    BY <1>3, <1>7, <2>1, <2>2
  <2>4. ASSUME h.msg.nonce = nonce PROVE h.msg = Notification(y, s)
    <3>1. x.pending.nonce > 0 /\ x.pending.type = type /\ nonce = x.pending.nonce
      BY <1>3, <2>1, <2>2, <2>4
    <3>2. Notification(y, s) = Notification(x, s)
      BY <1>6, <3>1 DEF Notification
    <3> QED
      BY <2>1, <2>4, <3>1, <3>2
  <2> QED
    BY <2>1, <2>3, <2>4
<1>10. Witnessed(y, s)
  BY <1>2, <1>6 DEF SoundEntry, Witnessed
<1>11. [l EXCEPT ![s] = y] \in [Severities -> Lifecycle]
  BY <1>5 DEF Sound
<1>12. \A t \in Severities : Prepared(l, s, type)[t] = IF t = s THEN y ELSE l[t]
  BY <1>1 DEF Sound
<1>13. SoundEntry(y, s)
  BY <1>5, <1>8, <1>9, <1>10 DEF SoundEntry
<1>14. Sound(Prepared(l, s, type))
  BY <1>1, <1>11, <1>12, <1>13 DEF Sound
<1> HIDE DEF y, nonce
<1>15. Prepared(l, s, type)[s].pending.type = type /\ Prepared(l, s, type)[s].pending.nonce > 0
  <2>1. Prepared(l, s, type)[s] = y
    BY <1>12
  <2>2. y.pending.type = type /\ y.pending.nonce = nonce
    BY <1>6
  <2> QED
    BY <1>4, <2>1, <2>2
<1>16. ASSUME NEW t \in Severities
       PROVE  /\ Prepared(l, s, type)[t].announced = l[t].announced
              /\ Prepared(l, s, type)[t].firing = l[t].firing
              /\ Prepared(l, s, type)[t].since = l[t].since
              /\ Prepared(l, s, type)[t].quiet = l[t].quiet
  <2>1. CASE t = s
    BY <1>6, <1>12, <2>1
  <2>2. CASE t # s
    BY <1>12, <2>2
  <2> QED
    BY <2>1, <2>2
<1> QED
  BY <1>14, <1>15, <1>16

\* Closing some of the entries.
LEMMA ClosingKeeps ==
  ASSUME NEW l, NEW m, Sound(l), Recorded,
         m = [s \in Severities |-> m[s]],
         \A s \in Severities : m[s] = l[s] \/ m[s] = Ok(l[s])
  PROVE  Sound(m)
<1>1. \A s \in Severities : SoundEntry(m[s], s)
  BY OkKeeps DEF Sound
<1>2. \A s \in Severities : m[s] \in Lifecycle
  BY <1>1 DEF SoundEntry
<1> QED
  BY <1>1, <1>2 DEF Sound

LEMMA ClosingQuiet ==
  ASSUME NEW l, NEW m, NEW n \in Nat, Streaks(l, n),
         \A s \in Severities : m[s] = l[s] \/ m[s] = Ok(l[s])
  PROVE  Streaks(m, n)
<1>1. \A s \in Severities : Ok(l[s]).quiet = 0
  BY DEF Ok, Fresh
<1> QED
  BY <1>1 DEF Streaks

LEMMA ClosedShape ==
  ASSUME NEW l
  PROVE  /\ Closed(l) = [s \in Severities |-> Closed(l)[s]]
         /\ \A s \in Severities : Closed(l)[s] = l[s] \/ Closed(l)[s] = Ok(l[s])
BY DEF Closed

LEMMA UnpausedShape ==
  ASSUME NEW l, NEW r
  PROVE  /\ Unpaused(l, r) = [s \in Severities |-> Unpaused(l, r)[s]]
         /\ \A s \in Severities : Unpaused(l, r)[s] = l[s] \/ Unpaused(l, r)[s] = Ok(l[s])
BY DEF Unpaused

LEMMA ReplacedShape ==
  ASSUME NEW l, NEW r
  PROVE  /\ Replaced(l, r) = [s \in Severities |-> Replaced(l, r)[s]]
         /\ \A s \in Severities : Replaced(l, r)[s] = l[s] \/ Replaced(l, r)[s] = Ok(l[s])
<1>1. Replaced(l, r) = [s \in Severities |-> Replaced(l, r)[s]]
  BY DEF Replaced
<1>2. ASSUME NEW s \in Severities PROVE Replaced(l, r)[s] = l[s] \/ Replaced(l, r)[s] = Ok(l[s])
  BY DEF Replaced
<1> QED
  BY <1>1, <1>2

LEMMA SinceIsTime ==
  ASSUME NEW l, Sound(l), rule \in Rules, NEW s \in Severities, NEW at \in Nat, at >= Epoch
  PROVE  Since(l, s, at) \in Nat
<1>1. Other(s) \in Severities
  BY DEF Other, Severities
<1>2. l[s].since \in Nat /\ l[Other(s)].since \in Nat
  BY <1>1, LifecycleFields DEF Sound
<1>3. Debounce[rule][s] \in Nat /\ Debounce[rule][s] < Epoch /\ Epoch \in Nat
  BY ThresholdsAssumption
<1>4. at - Debounce[rule][s] \in Nat
  BY <1>3
<1> QED
  BY <1>2, <1>4 DEF Since, TransitionSince

\* An episode that begins, or goes on, under severity r.sev.
LEMMA OpenedKeeps ==
  ASSUME NEW l, Sound(l), Recorded, rule \in Rules, NEW r \in Result, NEW at \in Nat, at >= Epoch
  PROVE  /\ Sound(Opened(l, r, at))
         /\ Opened(l, r, at)[r.sev].firing
         /\ Opened(l, r, at)[r.sev].announced = l[r.sev].announced
         /\ \A s \in Severities : /\ Opened(l, r, at)[s].quiet = l[s].quiet \/ Opened(l, r, at)[s].quiet = 0
                                  /\ s # r.sev => Opened(l, r, at)[s].announced = l[s].announced
<1> DEFINE s == r.sev
           x == l[s]
           since == Since(l, s, at)
           pending == IF rule = "W1" /\ x.pending.type = "resolved" THEN NoPending ELSE x.pending
           sources == IF rule = "A7" /\ ~x.firing THEN r.sources ELSE x.sources
           y == [x EXCEPT !.firing = TRUE, !.since = since, !.pending = pending, !.sources = sources]
<1>1. s \in Severities /\ sources \in SUBSET Sources /\ r.sources \in SUBSET Sources
  BY LifecycleFields DEF Result, Sound
<1>2. SoundEntry(x, s) /\ x \in Lifecycle
  BY <1>1 DEF Sound, SoundEntry
<1>3. since \in Nat
  BY <1>1, SinceIsTime
<1>4. pending \in Pending
  BY <1>2, LifecycleFields DEF NoPending, NoTime, Pending
<1>5. y \in Lifecycle
  BY <1>1, <1>2, <1>3, <1>4 DEF Lifecycle
<1>6. /\ y.firing = TRUE /\ y.since = since /\ y.announced = x.announced /\ y.quiet = x.quiet
      /\ y.sequence = x.sequence /\ y.pending = pending
  BY <1>2 DEF Lifecycle
<1>7. x.firing => since = x.since
  BY DEF Since
<1>8. pending.nonce = 0 \/ (pending = x.pending /\ x.pending.nonce > 0)
  BY <1>2, LifecycleFields DEF NoPending
<1>9. Kept(y)
  BY <1>2, <1>6, <1>7, <1>8 DEF SoundEntry, Kept
<1>10. Told(y, s)
  <2> SUFFICES ASSUME NEW h \in handed, h.of = s
               PROVE  /\ h.msg.nonce > 0 /\ h.msg.nonce <= y.sequence
                      /\ h.msg.nonce = pending.nonce => h.msg = Notification(y, s)
    BY <1>6 DEF Told
  <2>1. /\ h.msg.nonce > 0 /\ h.msg.nonce <= x.sequence
        /\ h.msg.nonce = x.pending.nonce => h.msg = Notification(x, s)
    BY <1>2 DEF SoundEntry, Told
  <2>2. ASSUME h.msg.nonce = pending.nonce PROVE h.msg = Notification(y, s)
    <3>1. pending = x.pending /\ x.pending.nonce > 0
      BY <1>8, <2>1, <2>2
    <3>2. x.firing
      BY <1>2, <3>1 DEF SoundEntry, Kept
    <3>3. Notification(y, s) = Notification(x, s)
      BY <1>6, <1>7, <3>1, <3>2 DEF Notification
    <3> QED
      BY <2>1, <2>2, <3>1, <3>3
  <2> QED
    BY <1>6, <2>1, <2>2
<1>11. Witnessed(y, s)
  BY <1>2, <1>6, <1>7 DEF SoundEntry, Witnessed, Kept
<1>12. SoundEntry(y, s)
  BY <1>5, <1>9, <1>10, <1>11 DEF SoundEntry
<1>13. Opened(l, r, at) = [t \in Severities |-> Opened(l, r, at)[t]]
  BY DEF Opened
<1>14. Opened(l, r, at)[s] = y
  BY <1>1 DEF Opened
<1>15. \A t \in Severities : t # s =>
         \/ Opened(l, r, at)[t] = l[t]
         \/ Opened(l, r, at)[t] = Ok(l[t]) /\ ~l[t].announced
  BY DEF Opened
<1> HIDE DEF y, s, x, since, pending, sources
<1>16. \A t \in Severities : SoundEntry(Opened(l, r, at)[t], t)
  BY <1>12, <1>14, <1>15, OkKeeps DEF Sound
<1>17. Sound(Opened(l, r, at))
  <2>1. \A t \in Severities : Opened(l, r, at)[t] \in Lifecycle
    BY <1>16 DEF SoundEntry
  <2> QED
    BY <1>13, <1>16, <2>1 DEF Sound
<1>18. \A z : Ok(z).quiet = 0 /\ Ok(z).announced = FALSE
  BY DEF Ok, Fresh
<1>19. \A t \in Severities : l[t].announced \in BOOLEAN
  BY LifecycleFields DEF Sound
<1>20. \A t \in Severities : /\ Opened(l, r, at)[t].quiet = l[t].quiet \/ Opened(l, r, at)[t].quiet = 0
                             /\ t # s => Opened(l, r, at)[t].announced = l[t].announced
  BY <1>6, <1>14, <1>15, <1>18, <1>19 DEF x
<1> QED
  BY <1>6, <1>14, <1>17, <1>20 DEF s, x

\* A firing evaluation's last write: announced only what was delivered or was
\* announced before, and no quiet streak survives it.
LEMMA SettledKeeps ==
  ASSUME NEW l, Sound(l), Recorded, NEW s \in Severities, NEW d \in BOOLEAN, l[s].firing,
         d => \E m \in heard : m.sev = s /\ m.type = "firing" /\ m.since = l[s].since
  PROVE  Sound(Settled(l, s, d)) /\ Streaks(Settled(l, s, d), 0)
<1> DEFINE x == l[s]
           announced == d \/ x.announced
           pending == IF d THEN NoPending ELSE x.pending
           y == [x EXCEPT !.announced = announced, !.quiet = 0, !.pending = pending]
<1>1. SoundEntry(x, s) /\ x \in Lifecycle
  BY DEF Sound, SoundEntry
<1>2. announced \in BOOLEAN /\ pending \in Pending
  BY <1>1, LifecycleFields DEF NoPending, NoTime, Pending
<1>3. y \in Lifecycle
  BY <1>1, <1>2 DEF Lifecycle
<1>4. /\ y.firing = x.firing /\ y.since = x.since /\ y.announced = announced /\ y.quiet = 0
      /\ y.sequence = x.sequence /\ y.pending = pending
  BY <1>1 DEF Lifecycle
<1>5. d => pending.nonce = 0
  BY DEF NoPending
<1>6. Kept(y)
  BY <1>1, <1>4, <1>5 DEF SoundEntry, Kept
<1>7. Told(y, s)
  <2>1. CASE d
    BY <1>1, <1>4, <1>5, <2>1 DEF SoundEntry, Told
  <2>2. CASE ~d
    BY <1>1, <1>4, <2>2 DEF SoundEntry, Told, Notification
  <2> QED
    BY <2>1, <2>2
<1>8. Witnessed(y, s)
  BY <1>1, <1>4 DEF SoundEntry, Witnessed
<1>9. SoundEntry(y, s)
  BY <1>3, <1>6, <1>7, <1>8 DEF SoundEntry
<1>10. Settled(l, s, d) = [t \in Severities |-> Settled(l, s, d)[t]]
  BY DEF Settled
<1>11. Settled(l, s, d)[s] = y
  BY DEF Settled
<1>12. \A t \in Severities : t # s =>
         \/ Settled(l, s, d)[t] = l[t] /\ ~l[t].announced
         \/ Settled(l, s, d)[t] = Ok(l[t])
         \/ Settled(l, s, d)[t] = [l[t] EXCEPT !.quiet = 0]
  BY DEF Settled
<1> HIDE DEF y, x, announced, pending
<1>13. \A t \in Severities : SoundEntry(l[t], t) /\ l[t] \in Lifecycle
  BY DEF Sound, SoundEntry
<1>14. \A t \in Severities : SoundEntry([l[t] EXCEPT !.quiet = 0], t)
  BY <1>13, Quieter
<1>15. \A t \in Severities : SoundEntry(Settled(l, s, d)[t], t)
  <2> SUFFICES ASSUME NEW t \in Severities PROVE SoundEntry(Settled(l, s, d)[t], t)
    OBVIOUS
  <2>1. SoundEntry(Ok(l[t]), t)
    BY <1>13, OkKeeps
  <2>2. CASE t = s
    BY <1>9, <1>11, <2>2
  <2>3. CASE t # s
    <3>1. CASE Settled(l, s, d)[t] = l[t]
      BY <1>13, <3>1
    <3>2. CASE Settled(l, s, d)[t] = Ok(l[t])
      BY <2>1, <3>2
    <3>3. CASE Settled(l, s, d)[t] = [l[t] EXCEPT !.quiet = 0]
      BY <1>14, <3>3, Zenon
    <3> QED
      BY <1>12, <2>3, <3>1, <3>2, <3>3, Zenon
  <2> QED
    BY <2>2, <2>3
<1>16. \A t \in Severities : Settled(l, s, d)[t] \in Lifecycle
  BY <1>15 DEF SoundEntry
<1>17. Sound(Settled(l, s, d))
  BY <1>10, <1>15, <1>16 DEF Sound
<1>18. \A t \in Severities : Ok(l[t]).quiet = 0 /\ [l[t] EXCEPT !.quiet = 0].quiet = 0
  BY <1>13 DEF Ok, Fresh, Lifecycle
<1>19. \A t \in Severities : ~l[t].announced => l[t].quiet <= 0
  BY <1>13, LifecycleFields DEF SoundEntry, Kept
<1>20. \A t \in Severities : Settled(l, s, d)[t].quiet <= 0
  <2> SUFFICES ASSUME NEW t \in Severities PROVE Settled(l, s, d)[t].quiet <= 0
    OBVIOUS
  <2>1. CASE t = s
    BY <1>4, <1>11, <2>1
  <2>2. CASE t # s
    <3>1. CASE Settled(l, s, d)[t] = l[t] /\ ~l[t].announced
      BY <1>19, <3>1
    <3>2. CASE Settled(l, s, d)[t] = Ok(l[t])
      BY <1>18, <3>2
    <3>3. CASE Settled(l, s, d)[t] = [l[t] EXCEPT !.quiet = 0]
      BY <1>18, <3>3
    <3> QED
      BY <1>12, <2>2, <3>1, <3>2, <3>3, Zenon
  <2> QED
    BY <2>1, <2>2
<1> QED
  BY <1>17, <1>20 DEF Streaks

-----------------------------------------------------------------------------
(* The invariant *)

\* While a notification is under way the entry still says what it says.
InFlight(e) ==
  ev[e].pc \in {"prepared", "sent"} =>
    LET x == lc[ev[e].of] IN
    /\ x.firing /\ x.pending.nonce > 0
    /\ ev[e].msg = Notification(x, ev[e].of)
    /\ ev[e].msg.type = "resolved" => x.announced
    /\ ev[e].pc = "sent" /\ ev[e].delivered => ev[e].msg \in heard

Earned(e) ==
  e \in Holding /\ ev[e].msg.type = "resolved" /\ ev[e].result.state # "degraded"
    => calm + spared >= ResolveRounds[rule]

Unspoken(e) == ev[e].pc \in {"idle", "observed", "closed"} => ev[e].msg = NoMessage

Timed(e) == ev[e].pc # "idle" => ev[e].at >= Epoch

OneHolder == \A e, f \in Holding : e = f

IInv ==
  /\ TypeOK
  /\ OneHolder
  /\ Sound(lc)
  /\ Streaks(lc, calm + spared)
  /\ \A e \in Evaluators : InFlight(e) /\ Earned(e) /\ Unspoken(e) /\ Timed(e)
  /\ clock >= Epoch
  /\ NoFakeRecovery
  /\ NonceNamesOneIntent

\* An evaluator under the lock moves: the others are not in flight.
LEMMA LockedStep ==
  ASSUME IInv, NEW e \in Evaluators, Holding \subseteq {e},
         TypeOK', Sound(lc)', Streaks(lc, calm + spared)', clock' = clock,
         \A f \in Evaluators \ {e} : /\ ev'[f].pc = ev[f].pc /\ ev'[f].at = ev[f].at
                                     /\ ev'[f].msg = ev[f].msg,
         InFlight(e)', Earned(e)', Unspoken(e)', Timed(e)',
         NoFakeRecovery', NonceNamesOneIntent'
  PROVE  IInv'
<1>1. \A f \in Evaluators \ {e} : ev[f].pc \notin {"closed", "prepared", "sent"}
  BY DEF Holding
<1>2. Holding' \subseteq {e}
  BY <1>1 DEF Holding
<1>3. OneHolder'
  BY <1>2 DEF OneHolder
<1>4. \A f \in Evaluators \ {e} : InFlight(f)' /\ Earned(f)' /\ Unspoken(f)' /\ Timed(f)'
  BY <1>1, <1>2 DEF InFlight, Earned, Unspoken, Timed, IInv
<1> QED
  BY <1>3, <1>4 DEF IInv

\* Nothing is written, said or heard; some evaluators start or end.
LEMMA IdleStep ==
  ASSUME IInv, TypeOK', UNCHANGED <<rule, lc, heard, handed, calm, spared>>, clock' >= clock,
         \A f \in Evaluators :
           \/ /\ ev'[f].pc = ev[f].pc /\ ev'[f].at = ev[f].at /\ ev'[f].msg = ev[f].msg
              /\ ev'[f].of = ev[f].of /\ ev'[f].delivered = ev[f].delivered
              /\ ev'[f].result = ev[f].result
           \/ ev'[f].pc = "idle" /\ ev'[f].msg = NoMessage
           \/ ev'[f].pc = "observed" /\ ev'[f].msg = NoMessage /\ ev'[f].at >= Epoch
  PROVE  IInv'
<1>1. Sound(lc)' /\ Streaks(lc, calm + spared)'
  BY DEF IInv, Sound, SoundEntry, Told, Witnessed, Streaks
<1>2. NoFakeRecovery' /\ NonceNamesOneIntent'
  BY DEF IInv, NoFakeRecovery, NonceNamesOneIntent
<1>3. Holding' \subseteq Holding
  BY DEF Holding
<1>4. OneHolder'
  BY <1>3 DEF OneHolder, IInv
<1>5. clock' >= Epoch
  BY ThresholdsAssumption DEF IInv, TypeOK
<1>6. ASSUME NEW f \in Evaluators PROVE InFlight(f)' /\ Earned(f)' /\ Unspoken(f)' /\ Timed(f)'
  <2>1. InFlight(f) /\ Earned(f) /\ Unspoken(f) /\ Timed(f)
    BY DEF IInv
  <2>2. InFlight(f)'
    BY <2>1 DEF InFlight
  <2>3. Earned(f)'
    BY <2>1, <1>3 DEF Earned, Holding, NoMessage
  <2>4. Unspoken(f)' /\ Timed(f)'
    BY <2>1 DEF Unspoken, Timed
  <2> QED
    BY <2>2, <2>3, <2>4
<1> QED
  BY <1>1, <1>2, <1>4, <1>5, <1>6 DEF IInv

-----------------------------------------------------------------------------
(* The steps *)

LEMMA Constants ==
  /\ NoMessage \in Message /\ NoResult \in Result /\ Idle \in Evaluator
  /\ Idle.pc = "idle" /\ Idle.msg = NoMessage /\ NoMessage.type = "firing"
BY DEF NoMessage, NoResult, Idle, Message, Result, Evaluator, Severities, NoTime

LEMMA EvaluatorFields ==
  ASSUME NEW v \in Evaluator
  PROVE  /\ v.result \in Result /\ v.at \in Nat /\ v.seq \in Nat /\ v.saw \in Nat
         /\ v.of \in Severities /\ v.msg \in Message /\ v.delivered \in BOOLEAN
         /\ v.pc \in {"idle", "observed", "closed", "prepared", "sent"}
BY DEF Evaluator

LEMMA NotificationType ==
  ASSUME NEW x \in Lifecycle, NEW s \in Severities
  PROVE  Notification(x, s) \in Message
BY LifecycleFields DEF Notification, Message, Severities

LEMMA SaveFrame ==
  ASSUME ev \in [Evaluators -> Evaluator], NEW e \in Evaluators, NEW l, NEW v \in Evaluator,
         Save(e, l, v)
  PROVE  /\ ev' \in [Evaluators -> Evaluator] /\ ev'[e] = v /\ lc' = l
         /\ applied' = ev[e].saw /\ applied' \in Nat
         /\ \A f \in Evaluators \ {e} :
              /\ ev'[f].pc = ev[f].pc /\ ev'[f].at = ev[f].at /\ ev'[f].msg = ev[f].msg
              /\ ev'[f].of = ev[f].of /\ ev'[f].saw = ev[f].saw
              /\ ev'[f].seq = IF ev[f].seq <= ev[e].seq THEN 0 ELSE ev[f].seq - ev[e].seq
<1>1. \A f \in Evaluators : ev[f] \in Evaluator /\ ev[f].seq \in Nat /\ ev[f].saw \in Nat
  BY EvaluatorFields
<1>2. \A f \in Evaluators \ {e} :
        ev'[f] = [ev[f] EXCEPT !.seq = IF ev[f].seq <= ev[e].seq THEN 0 ELSE ev[f].seq - ev[e].seq]
  BY DEF Save, Outdated
<1>3. ev'[e] = v /\ ev' = [f \in Evaluators |-> ev'[f]]
  BY DEF Save, Outdated
<1>4. \A f \in Evaluators \ {e} :
        (IF ev[f].seq <= ev[e].seq THEN 0 ELSE ev[f].seq - ev[e].seq) \in Nat
  BY <1>1
<1>5. \A f \in Evaluators \ {e} :
        /\ ev'[f] \in Evaluator
        /\ ev'[f].pc = ev[f].pc /\ ev'[f].at = ev[f].at /\ ev'[f].msg = ev[f].msg
        /\ ev'[f].of = ev[f].of /\ ev'[f].saw = ev[f].saw
        /\ ev'[f].seq = IF ev[f].seq <= ev[e].seq THEN 0 ELSE ev[f].seq - ev[e].seq
  <2> SUFFICES ASSUME NEW f \in Evaluators \ {e},
                      NEW n \in Nat, n = IF ev[f].seq <= ev[e].seq THEN 0 ELSE ev[f].seq - ev[e].seq
               PROVE  /\ ev'[f] \in Evaluator
                      /\ ev'[f].pc = ev[f].pc /\ ev'[f].at = ev[f].at /\ ev'[f].msg = ev[f].msg
                      /\ ev'[f].of = ev[f].of /\ ev'[f].saw = ev[f].saw /\ ev'[f].seq = n
    BY <1>4
  <2>1. ev'[f] = [ev[f] EXCEPT !.seq = n]
    BY <1>2
  <2>2. ev[f] \in Evaluator
    BY <1>1
  <2> QED
    BY <2>1, <2>2 DEF Evaluator
<1>6. \A f \in Evaluators : ev'[f] \in Evaluator
  BY <1>3, <1>5
<1> QED
  BY <1>1, <1>3, <1>5, <1>6 DEF Save

LEMMA Types ==
  ASSUME TypeOK
  PROVE  /\ Recorded /\ rule \in Rules /\ ev \in [Evaluators -> Evaluator] /\ calm \in Nat /\ spared \in Nat
         /\ clock \in Nat /\ ResolveRounds[rule] \in Nat
         /\ \A e \in Evaluators : ev[e] \in Evaluator /\ ev[e].result \in Result /\ ev[e].at \in Nat
BY ThresholdsAssumption, EvaluatorFields DEF TypeOK, Recorded

\* The evaluation ends with this write.
LEMMA LastWrite ==
  ASSUME IInv, NEW e \in Evaluators, Holding \subseteq {e}, NEW l, Save(e, l, Idle),
         Sound(l), calm' \in Nat /\ spared' \in Nat, Streaks(l, calm' + spared'),
         UNCHANGED <<rule, clock, world, ledger, heard, handed, changes, crashes>>
  PROVE  IInv'
<1>1. TypeOK /\ ev \in [Evaluators -> Evaluator]
  BY DEF IInv, TypeOK
<1>2. /\ ev' \in [Evaluators -> Evaluator] /\ ev'[e] = Idle /\ lc' = l /\ applied' \in Nat
      /\ \A f \in Evaluators \ {e} : /\ ev'[f].pc = ev[f].pc /\ ev'[f].at = ev[f].at
                                     /\ ev'[f].msg = ev[f].msg
  BY <1>1, SaveFrame, Constants
<1>3. TypeOK'
  BY <1>1, <1>2 DEF TypeOK, Sound
<1>4. Sound(lc)' /\ Streaks(lc, calm + spared)'
  BY <1>2 DEF Sound, SoundEntry, Told, Witnessed, Streaks
<1>5. InFlight(e)' /\ Earned(e)' /\ Unspoken(e)' /\ Timed(e)'
  BY <1>2, Constants DEF InFlight, Earned, Unspoken, Timed, Holding
<1>6. NoFakeRecovery' /\ NonceNamesOneIntent'
  BY DEF IInv, NoFakeRecovery, NonceNamesOneIntent
<1> QED
  BY <1>2, <1>3, <1>4, <1>5, <1>6, LockedStep

\* The evaluation goes on with a notification in the file.
LEMMA FirstWrite ==
  ASSUME IInv, NEW e \in Evaluators, Holding \subseteq {e}, ev[e].pc # "idle",
         NEW l, NEW s \in Severities, NEW type \in {"firing", "resolved"},
         Prepare(e, l, s, type), Sound(l), l[s].firing,
         l[s].announced <=> type = "resolved",
         calm' \in Nat /\ spared' \in Nat, Streaks(l, calm' + spared'),
         type = "resolved" /\ ev[e].result.state # "degraded" => calm' + spared' >= ResolveRounds[rule],
         UNCHANGED <<rule, clock, world, ledger, heard, handed, changes, crashes>>
  PROVE  IInv'
<1> DEFINE p == Prepared(l, s, type)
           v == [ev[e] EXCEPT !.pc = "prepared", !.seq = 0, !.of = s, !.msg = Notification(p[s], s)]
<1>1. TypeOK /\ ev \in [Evaluators -> Evaluator] /\ ev[e] \in Evaluator /\ Recorded
  BY Types DEF IInv
<1>2. /\ Sound(p) /\ p[s].pending.type = type /\ p[s].pending.nonce > 0 /\ p[s].firing
      /\ p[s].announced <=> type = "resolved"
      /\ \A t \in Severities : p[t].quiet = l[t].quiet
  BY <1>1, PreparedKeeps
<1>3. Notification(p[s], s) \in Message
  BY <1>2, NotificationType DEF Sound
<1>4. v \in Evaluator
  BY <1>1, <1>3 DEF Evaluator
<1>5. /\ v.pc = "prepared" /\ v.of = s /\ v.msg = Notification(p[s], s) /\ v.at = ev[e].at
      /\ v.result = ev[e].result
  BY <1>1 DEF Evaluator
<1>6. Save(e, p, v)
  BY DEF Prepare
<1> HIDE DEF p, v
<1>7. /\ ev' \in [Evaluators -> Evaluator] /\ ev'[e] = v /\ lc' = p /\ applied' \in Nat
      /\ \A f \in Evaluators \ {e} : /\ ev'[f].pc = ev[f].pc /\ ev'[f].at = ev[f].at
                                     /\ ev'[f].msg = ev[f].msg
  BY <1>1, <1>4, <1>6, SaveFrame
<1>8. TypeOK'
  BY <1>1, <1>2, <1>7 DEF TypeOK, Sound
<1>9. Sound(lc)' /\ Streaks(lc, calm + spared)'
  BY <1>2, <1>7 DEF Sound, SoundEntry, Told, Witnessed, Streaks
<1>10. v.msg.type = type
  BY <1>2, <1>5 DEF Notification
<1>11. InFlight(e)'
  BY <1>2, <1>5, <1>7, <1>10 DEF InFlight
<1>12. Earned(e)' /\ Unspoken(e)' /\ Timed(e)'
  BY <1>5, <1>7, <1>10 DEF IInv, Earned, Unspoken, Timed, Holding
<1>13. NoFakeRecovery' /\ NonceNamesOneIntent'
  BY DEF IInv, NoFakeRecovery, NonceNamesOneIntent
<1> QED
  BY <1>7, <1>8, <1>9, <1>11, <1>12, <1>13, LockedStep

LEMMA Alone ==
  ASSUME IInv, NEW e \in Evaluators,
         Proceeds(e) \/ ev[e].pc \in {"closed", "prepared", "sent"}
  PROVE  Holding \subseteq {e} /\ ev[e].pc # "idle"
BY DEF IInv, OneHolder, Holding, Proceeds

LEMMA DeferStep ==
  ASSUME IInv, NEW e \in Evaluators, Defer(e) PROVE IInv'
<1>1. Sound(lc) /\ calm' \in Nat /\ spared' \in Nat /\ Streaks(lc, calm' + spared')
  BY Types DEF IInv, Defer
<1> QED
  BY <1>1, Alone, LastWrite DEF Defer

LEMMA RecordPausedStep ==
  ASSUME IInv, NEW e \in Evaluators, RecordPaused(e) PROVE IInv'
<1> DEFINE l == Unpaused(lc, ev[e].result)
<1>1. Sound(lc) /\ Recorded /\ calm \in Nat /\ spared \in Nat /\ Streaks(lc, calm + spared)
  BY Types DEF IInv
<1>2. Sound(l)
  BY <1>1, UnpausedShape, ClosingKeeps
<1>3. Streaks(l, calm + spared)
  BY <1>1, UnpausedShape, ClosingQuiet
<1>4. Holding \subseteq {e}
  BY Alone DEF RecordPaused
<1> QED
  BY <1>1, <1>2, <1>3, <1>4, LastWrite DEF RecordPaused

LEMMA BaseSound ==
  ASSUME IInv, NEW e \in Evaluators
  PROVE  Sound(Base(e)) /\ Streaks(Base(e), calm + spared)
<1> DEFINE r == ev[e].result
           l == IF ev[e].pc = "closed" THEN Unpaused(lc, r) ELSE lc
<1>1. Sound(lc) /\ Recorded /\ calm \in Nat /\ spared \in Nat /\ Streaks(lc, calm + spared)
  BY Types DEF IInv
<1>2. Sound(Unpaused(lc, r)) /\ Streaks(Unpaused(lc, r), calm + spared)
  BY <1>1, UnpausedShape, ClosingKeeps, ClosingQuiet
<1>3. Sound(l) /\ Streaks(l, calm + spared)
  BY <1>1, <1>2
<1> HIDE DEF l
<1>4. Sound(Replaced(l, r)) /\ Streaks(Replaced(l, r), calm + spared)
  BY <1>1, <1>3, ReplacedShape, ClosingKeeps, ClosingQuiet
<1> QED
  BY <1>4 DEF Base, l

LEMMA AnnounceStep ==
  ASSUME IInv, NEW e \in Evaluators, Announce(e) PROVE IInv'
<1> DEFINE r == ev[e].result
           o == Opened(Base(e), r, ev[e].at)
<1>1. Holding \subseteq {e} /\ ev[e].pc # "idle"
  BY Alone DEF Announce, Fires
<1>2. /\ Recorded /\ rule \in Rules /\ r \in Result /\ r.sev \in Severities /\ ev[e].at \in Nat
      /\ calm \in Nat /\ spared \in Nat
  BY Types DEF IInv, Result
<1>3. ev[e].at >= Epoch
  BY <1>1 DEF IInv, Timed
<1>4. Sound(Base(e)) /\ Streaks(Base(e), calm + spared)
  BY BaseSound
<1>5. /\ Sound(o) /\ o[r.sev].firing /\ o[r.sev].announced = Base(e)[r.sev].announced
      /\ \A s \in Severities : o[s].quiet = Base(e)[s].quiet \/ o[s].quiet = 0
  BY <1>2, <1>3, <1>4, OpenedKeeps
<1>6. ~o[r.sev].announced
  BY <1>5 DEF Announce, Speaks
<1>7. /\ calm' = 0 /\ spared' = Base(e)[Other(r.sev)].quiet
      /\ calm' \in Nat /\ spared' \in Nat /\ Streaks(o, calm' + spared')
  <2>1. calm' = 0 /\ spared' = Base(e)[Other(r.sev)].quiet
    BY DEF Announce
  <2>2. /\ Other(r.sev) \in Severities
        /\ \A s \in Severities : s = r.sev \/ s = Other(r.sev)
    BY <1>2 DEF Other, Severities
  <2>3. spared' \in Nat
    BY <1>4, <2>1, <2>2, LifecycleFields DEF Sound
  <2>4. o[r.sev].quiet = 0
    <3>1. o[r.sev] \in Lifecycle /\ Kept(o[r.sev])
      BY <1>2, <1>5 DEF Sound, SoundEntry
    <3> QED
      BY <1>6, <3>1, LifecycleFields DEF Kept
  <2>5. o[Other(r.sev)].quiet <= spared'
    BY <1>5, <2>1, <2>2, <2>3
  <2>6. \A s \in Severities : o[s].quiet <= 0 + spared'
    BY <2>2, <2>3, <2>4, <2>5
  <2> QED
    BY <2>1, <2>3, <2>6 DEF Streaks
<1>8. Prepare(e, o, r.sev, "firing")
  BY DEF Announce
<1>9. UNCHANGED <<rule, clock, world, ledger, heard, handed, changes, crashes>>
  BY DEF Announce
<1> HIDE DEF o, r
<1> QED
  BY <1>1, <1>2, <1>5, <1>6, <1>7, <1>8, <1>9, FirstWrite

LEMMA KeepFiringStep ==
  ASSUME IInv, NEW e \in Evaluators, KeepFiring(e) PROVE IInv'
<1> DEFINE r == ev[e].result
           o == Opened(Base(e), r, ev[e].at)
<1>1. Holding \subseteq {e} /\ ev[e].pc # "idle"
  BY Alone DEF KeepFiring, Fires
<1>2. Recorded /\ rule \in Rules /\ r \in Result /\ r.sev \in Severities /\ ev[e].at \in Nat
  BY Types DEF IInv, Result
<1>3. ev[e].at >= Epoch
  BY <1>1 DEF IInv, Timed
<1>4. Sound(o) /\ o[r.sev].firing
  BY <1>2, <1>3, BaseSound, OpenedKeeps
<1>5. /\ Save(e, Settled(o, r.sev, FALSE), Idle) /\ calm' = 0 /\ spared' = 0
      /\ UNCHANGED <<rule, clock, world, ledger, heard, handed, changes, crashes>>
  BY DEF KeepFiring
<1> HIDE DEF o, r
<1>6. Sound(Settled(o, r.sev, FALSE)) /\ Streaks(Settled(o, r.sev, FALSE), 0)
  BY <1>2, <1>4, SettledKeeps
<1>7. calm' \in Nat /\ spared' \in Nat /\ calm' + spared' = 0
  BY <1>5
<1>8. Streaks(Settled(o, r.sev, FALSE), calm' + spared')
  BY <1>6, <1>7
<1> QED
  BY <1>1, <1>5, <1>6, <1>7, <1>8, LastWrite

LEMMA Healthy ==
  ASSUME IInv, NEW e \in Evaluators, Quiet(e)
  PROVE  /\ ev[e].result \in Result /\ ev[e].result.state \in {"healthy", "degraded"}
         /\ calm \in Nat /\ spared \in Nat /\ Calmer(e) \in Nat /\ Calmer(e) >= calm
         /\ ResolveRounds[rule] \in Nat /\ Rounds(ev[e].result) \in Nat
         /\ \A s \in Severities : lc[s].quiet \in Nat /\ lc[s].quiet <= calm + spared
<1>1. ev[e].result \in Result /\ calm \in Nat /\ spared \in Nat /\ ResolveRounds[rule] \in Nat
  BY Types DEF IInv
<1>2. ev[e].result.state \in {"healthy", "degraded"}
  BY <1>1 DEF Result, Quiet
<1>3. Calmer(e) \in Nat /\ Calmer(e) >= calm
  BY <1>1 DEF Calmer
<1>4. Rounds(ev[e].result) \in Nat
  BY <1>1 DEF Rounds
<1>5. \A s \in Severities : lc[s].quiet \in Nat /\ lc[s].quiet <= calm + spared
  BY LifecycleFields DEF IInv, Sound, Streaks
<1> QED
  BY <1>1, <1>2, <1>3, <1>4, <1>5

LEMMA QuietedStreak ==
  ASSUME IInv, NEW e \in Evaluators, Quiet(e), NEW s \in Severities
  PROVE  Quieted(lc[s], ev[e].result).quiet <= Calmer(e) + spared
<1> DEFINE r == ev[e].result
           x == lc[s]
<1>1. x \in Lifecycle /\ x.quiet \in Nat /\ x.quiet <= calm + spared
  BY Healthy DEF IInv, Sound
<1>2. CASE x.firing /\ x.announced /\ Waits(x, r)
  <2>1. Quieted(x, r).quiet = x.quiet + 1
    BY <1>1, <1>2 DEF Quieted, Lifecycle
  <2>2. r.state = "healthy" /\ x.quiet + 1 < ResolveRounds[rule]
    BY <1>2, Healthy DEF Waits, Rounds
  <2>3. x.quiet + 1 <= Calmer(e) + spared
    BY <1>1, <2>2, Healthy DEF Calmer
  <2> QED
    BY <2>1, <2>3
<1>3. CASE ~(x.firing /\ x.announced /\ Waits(x, r))
  <2>1. Quieted(x, r).quiet = 0 \/ Quieted(x, r).quiet = x.quiet
    BY <1>3 DEF Quieted, Ok, Fresh
  <2> QED
    BY <1>1, <2>1, Healthy
<1> QED
  BY <1>2, <1>3

LEMMA OverEarns ==
  ASSUME IInv, NEW e \in Evaluators, Quiet(e), NEW s \in Severities, Over(lc[s], ev[e].result),
         ev[e].result.state # "degraded"
  PROVE  Calmer(e) + spared >= ResolveRounds[rule]
<1>1. ev[e].result.state = "healthy" /\ Rounds(ev[e].result) = ResolveRounds[rule]
  BY Healthy DEF Rounds
<1>2. ResolveRounds[rule] = 0 \/ lc[s].quiet + 1 >= ResolveRounds[rule]
  BY <1>1, Healthy DEF Over, Waits
<1> QED
  BY <1>1, <1>2, Healthy DEF Calmer

LEMMA StayQuietStep ==
  ASSUME IInv, NEW e \in Evaluators, StayQuiet(e) PROVE IInv'
<1> DEFINE r == ev[e].result
           l == [s \in Severities |-> Quieted(lc[s], r)]
<1>1. Holding \subseteq {e} /\ Quiet(e)
  BY Alone DEF StayQuiet, Quiet
<1>2. Recorded /\ Sound(lc)
  BY Types DEF IInv
<1>3. \A s \in Severities : SoundEntry(l[s], s)
  BY <1>2, QuietedKeeps DEF Sound
<1>4. \A s \in Severities : l[s] \in Lifecycle
  BY <1>3 DEF SoundEntry
<1>5. Sound(l)
  BY <1>3, <1>4 DEF Sound
<1>6. Streaks(l, Calmer(e) + spared) /\ Calmer(e) \in Nat /\ spared \in Nat
  BY <1>1, Healthy, QuietedStreak DEF Streaks
<1>7. /\ Save(e, l, Idle) /\ calm' = Calmer(e) /\ spared' = spared
      /\ UNCHANGED <<rule, clock, world, ledger, heard, handed, changes, crashes>>
  BY DEF StayQuiet
<1> HIDE DEF l, r
<1> QED
  BY <1>1, <1>5, <1>6, <1>7, LastWrite

LEMMA RecoverStep ==
  ASSUME IInv, NEW e \in Evaluators, Recover(e) PROVE IInv'
<1> DEFINE r == ev[e].result
           l == [lc EXCEPT !["page"] = Quieted(@, r)]
<1>1. Holding \subseteq {e} /\ Quiet(e) /\ ev[e].pc # "idle"
  BY Alone DEF Recover, Quiet
<1>2. Recorded /\ Sound(lc) /\ Streaks(lc, calm + spared) /\ "page" \in Severities /\ "notice" \in Severities
  BY Types DEF IInv, Severities
<1>3. /\ calm' = Calmer(e) /\ spared' = spared /\ calm' \in Nat /\ spared' \in Nat
      /\ Streaks(lc, calm' + spared')
      /\ UNCHANGED <<rule, clock, world, ledger, heard, handed, changes, crashes>>
  BY <1>1, <1>2, Healthy DEF Recover, Streaks
<1>4. ResolveRounds[rule] \in Nat
  BY <1>1, Healthy
<1>5. CASE Over(lc["page"], r)
  <2>1. Prepare(e, lc, "page", "resolved")
    BY <1>5 DEF Recover
  <2>2. lc["page"].firing /\ lc["page"].announced
    BY <1>5 DEF Over
  <2>3. ev[e].result.state # "degraded" => calm' + spared' >= ResolveRounds[rule]
    BY <1>1, <1>2, <1>3, <1>5, OverEarns
  <2> QED
    BY <1>1, <1>2, <1>3, <2>1, <2>2, <2>3, FirstWrite
<1>6. CASE ~Over(lc["page"], r)
  <2>1. Over(lc["notice"], r) /\ Prepare(e, l, "notice", "resolved")
    BY <1>6 DEF Recover
  <2>2. l["notice"] = lc["notice"] /\ l["page"] = Quieted(lc["page"], r)
    BY <1>2 DEF Sound
  <2>3. SoundEntry(Quieted(lc["page"], r), "page")
    BY <1>2, QuietedKeeps DEF Sound
  <2>4. Sound(l)
    <3>1. \A s \in Severities : SoundEntry(l[s], s)
      BY <1>2, <2>2, <2>3 DEF Sound, Severities
    <3>2. l \in [Severities -> Lifecycle]
      BY <1>2, <2>3 DEF Sound, SoundEntry
    <3> QED
      BY <3>1, <3>2 DEF Sound
  <2>5. Streaks(l, calm' + spared')
    BY <1>1, <1>2, <1>3, <2>2, QuietedStreak DEF Streaks, Severities
  <2>6. l["notice"].firing /\ l["notice"].announced
    BY <2>1, <2>2 DEF Over
  <2>7. ev[e].result.state # "degraded" => calm' + spared' >= ResolveRounds[rule]
    BY <1>1, <1>2, <1>3, <2>1, OverEarns
  <2> HIDE DEF l
  <2> QED
    BY <1>1, <1>2, <1>3, <2>1, <2>4, <2>5, <2>6, <2>7, FirstWrite
<1> QED
  BY <1>5, <1>6

LEMMA RetryStep ==
  ASSUME IInv, NEW e \in Evaluators, Retry(e) PROVE IInv'
<1> DEFINE s == Retried(lc)
           msg == Notification(lc[s], s)
<1>1. Holding \subseteq {e} /\ ev[e].pc # "idle"
  BY Alone DEF Retry
<1>2. TypeOK /\ ev \in [Evaluators -> Evaluator] /\ ev[e] \in Evaluator /\ Sound(lc)
  BY Types DEF IInv
<1>3. Owed(lc) # {} /\ Owed(lc) \subseteq {"page", "notice"}
  BY DEF Retry, Owed, Severities
<1>4. s \in Owed(lc) /\ s \in Severities
  BY <1>3 DEF Retried, Severities
<1>5. lc[s].firing /\ lc[s].pending.nonce > 0 /\ lc[s].pending.type = "firing"
  BY <1>4 DEF Owed
<1>6. msg \in Message /\ msg.type = "firing"
  BY <1>2, <1>4, <1>5, NotificationType DEF Sound, Notification
<1> HIDE DEF s, msg
<1>7. ev' = [ev EXCEPT ![e] = [ev[e] EXCEPT !.pc = "prepared", !.of = s, !.msg = msg]]
  BY <1>2 DEF Retry, s, msg
<1>8. /\ ev'[e] \in Evaluator /\ ev'[e].pc = "prepared" /\ ev'[e].of = s /\ ev'[e].msg = msg
      /\ ev'[e].at = ev[e].at
      /\ \A f \in Evaluators \ {e} : ev'[f] = ev[f]
  BY <1>2, <1>4, <1>6, <1>7 DEF Evaluator
<1>9. UNCHANGED <<rule, clock, world, lc, ledger, heard, handed, calm, spared, applied, changes, crashes>>
  BY DEF Retry
<1>10. ev' \in [Evaluators -> Evaluator]
  BY <1>2, <1>7, <1>8
<1>11. TypeOK'
  BY <1>2, <1>9, <1>10 DEF TypeOK
<1>12. Sound(lc)' /\ Streaks(lc, calm + spared)'
  BY <1>9 DEF IInv, Sound, SoundEntry, Told, Witnessed, Streaks
<1>13. InFlight(e)'
  BY <1>5, <1>6, <1>8, <1>9 DEF InFlight, msg
<1>14. Earned(e)' /\ Unspoken(e)' /\ Timed(e)'
  BY <1>1, <1>6, <1>8 DEF IInv, Earned, Unspoken, Timed
<1>15. NoFakeRecovery' /\ NonceNamesOneIntent'
  BY <1>9 DEF IInv, NoFakeRecovery, NonceNamesOneIntent
<1> QED
  BY <1>1, <1>8, <1>9, <1>11, <1>12, <1>13, <1>14, <1>15, LockedStep

LEMMA ClosePausedStep ==
  ASSUME IInv, NEW e \in Evaluators, ClosePaused(e) PROVE IInv'
<1> DEFINE r == ev[e].result
           row == PauseRow(lc, r)
<1>1. Holding \subseteq {e} /\ ev[e].pc = "observed"
  BY Alone DEF ClosePaused, Proceeds
<1>2. TypeOK /\ ev \in [Evaluators -> Evaluator] /\ ev[e] \in Evaluator /\ Sound(lc)
  BY Types DEF IInv
<1>3. row \in [since: Nat, sources: SUBSET Sources]
  <2>1. \A s \in Severities : lc[s].since \in Nat /\ lc[s].sources \subseteq Sources
    BY <1>2, LifecycleFields DEF Sound
  <2>2. PausedAway(lc, r) \subseteq Severities
    BY DEF PausedAway
  <2>3. UNION {lc[s].sources : s \in PausedAway(lc, r)} \in SUBSET Sources
    BY <2>1, <2>2
  <2>4. lc[IF "page" \in PausedAway(lc, r) THEN "page" ELSE "notice"].since \in Nat
    BY <2>1 DEF Severities
  <2> QED
    BY <2>3, <2>4 DEF PauseRow
<1>4. ledger \in Seq([since: Nat, sources: SUBSET Sources])
  BY <1>2 DEF TypeOK
<1>5. Append(ledger, row) \in Seq([since: Nat, sources: SUBSET Sources])
  BY <1>3, <1>4
<1>6. ledger' \in Seq([since: Nat, sources: SUBSET Sources])
  BY <1>4, <1>5 DEF ClosePaused
<1>7. UNCHANGED <<rule, clock, world, lc, heard, handed, calm, spared, applied, changes, crashes>>
  BY DEF ClosePaused
<1>8. ev[e].msg = NoMessage
  BY <1>1 DEF IInv, Unspoken
<1>9. /\ ev' \in [Evaluators -> Evaluator] /\ ev'[e].pc \in {"closed", "idle"} /\ ev'[e].msg = NoMessage
      /\ ev'[e].pc = "closed" => ev'[e].at = ev[e].at
      /\ \A f \in Evaluators \ {e} : ev'[f] = ev[f]
  <2>1. CASE ev' = [ev EXCEPT ![e].pc = "closed"]
    BY <1>2, <1>8, <2>1 DEF Evaluator
  <2>2. CASE ev' = [ev EXCEPT ![e] = Idle]
    BY <1>2, <2>2, Constants
  <2> QED
    BY <2>1, <2>2 DEF ClosePaused
<1>10. TypeOK'
  BY <1>2, <1>6, <1>7, <1>9 DEF TypeOK
<1>11. Sound(lc)' /\ Streaks(lc, calm + spared)'
  BY <1>7 DEF IInv, Sound, SoundEntry, Told, Witnessed, Streaks
<1>12. InFlight(e)' /\ Earned(e)' /\ Unspoken(e)'
  BY <1>9, Constants DEF InFlight, Earned, Unspoken
<1>13. Timed(e)'
  BY <1>1, <1>9 DEF IInv, Timed
<1>14. NoFakeRecovery' /\ NonceNamesOneIntent'
  BY <1>7 DEF IInv, NoFakeRecovery, NonceNamesOneIntent
<1> QED
  BY <1>1, <1>7, <1>9, <1>10, <1>11, <1>12, <1>13, <1>14, LockedStep

\* The message leaves with the nonce the entry keeps for it.
LEMMA HandStep ==
  ASSUME IInv, NEW e \in Evaluators, NEW shown \in BOOLEAN, NEW answered \in BOOLEAN,
         answered => shown, Hand(e, shown, answered)
  PROVE  IInv'
<1> DEFINE s == ev[e].of
           x == lc[s]
           msg == ev[e].msg
           h == [of |-> s, msg |-> msg]
<1>1. Holding \subseteq {e} /\ ev[e].pc = "prepared"
  BY Alone DEF Hand
<1>2. TypeOK /\ ev \in [Evaluators -> Evaluator] /\ ev[e] \in Evaluator /\ Sound(lc) /\ Recorded
  BY Types DEF IInv
<1>3. s \in Severities /\ msg \in Message
  BY <1>2, EvaluatorFields
<1>4. /\ x.firing /\ x.pending.nonce > 0 /\ msg = Notification(x, s)
      /\ msg.type = "resolved" => x.announced
  BY <1>1 DEF IInv, InFlight
<1>5. SoundEntry(x, s)
  BY <1>2, <1>3 DEF Sound
<1>6. msg.nonce = x.pending.nonce /\ msg.since = x.since
  BY <1>4 DEF Notification
<1>7. /\ handed' = handed \cup {h} /\ heard \subseteq heard' /\ heard' \subseteq heard \cup {msg}
      /\ shown => msg \in heard'
  BY DEF Hand
<1>8. /\ ev' \in [Evaluators -> Evaluator] /\ ev'[e].pc = "sent" /\ ev'[e].delivered = answered
      /\ ev'[e].of = s /\ ev'[e].msg = msg /\ ev'[e].at = ev[e].at /\ ev'[e].result = ev[e].result
      /\ \A f \in Evaluators \ {e} : ev'[f] = ev[f]
  <2>1. ev' = [ev EXCEPT ![e] = [ev[e] EXCEPT !.pc = "sent", !.delivered = answered]]
    BY <1>2 DEF Hand
  <2> QED
    BY <1>2, <2>1 DEF Evaluator
<1>9. UNCHANGED <<rule, clock, world, lc, ledger, calm, spared, applied, changes, crashes>>
  BY DEF Hand
<1>10. h \in [of: Severities, msg: Message] /\ h.of = s /\ h.msg = msg
  BY <1>3
<1> HIDE DEF h, msg, x, s
<1>11. TypeOK'
  BY <1>2, <1>3, <1>7, <1>8, <1>9, <1>10 DEF TypeOK
<1>12. ASSUME NEW t \in Severities PROVE Told(lc[t], t)' /\ Witnessed(lc[t], t)'
  <2>1. Told(lc[t], t) /\ Witnessed(lc[t], t)
    BY <1>2 DEF Sound, SoundEntry
  <2>2. t = s => msg.nonce > 0 /\ msg.nonce <= lc[t].sequence /\ msg = Notification(lc[t], t)
    BY <1>4, <1>5, <1>6 DEF x, SoundEntry, Kept
  <2>3. Told(lc[t], t)'
    BY <1>7, <1>9, <1>10, <2>1, <2>2 DEF Told, Notification
  <2>4. Witnessed(lc[t], t)'
    BY <1>7, <1>9, <2>1 DEF Witnessed
  <2> QED
    BY <2>3, <2>4
<1>13. Sound(lc)' /\ Streaks(lc, calm + spared)'
  BY <1>2, <1>9, <1>12 DEF IInv, Sound, SoundEntry, Streaks
<1>14. NonceNamesOneIntent'
  <2>1. \A n \in handed : n.of = s /\ n.msg.nonce = msg.nonce => n = h
    <3> SUFFICES ASSUME NEW n \in handed, n.of = s, n.msg.nonce = msg.nonce PROVE n = h
      OBVIOUS
    <3>1. n.msg = Notification(x, s)
      BY <1>5, <1>6 DEF SoundEntry, Told
    <3>2. n \in [of: Severities, msg: Message]
      BY <1>2 DEF Recorded
    <3> QED
      BY <1>4, <3>1, <3>2 DEF h
  <2> QED
    BY <1>7, <1>10, <2>1 DEF IInv, NonceNamesOneIntent
<1>15. NoFakeRecovery'
  <2>1. msg.type = "resolved" => \E f \in heard : f.type = "firing" /\ f.since = msg.since
    BY <1>4, <1>5, <1>6 DEF SoundEntry, Witnessed
  <2> QED
    BY <1>7, <2>1 DEF IInv, NoFakeRecovery
<1>16. InFlight(e)'
  <2>1. lc'[ev'[e].of] = x /\ ev'[e].msg = msg /\ ev'[e].of = s
    BY <1>8, <1>9 DEF x
  <2>2. ev'[e].delivered => ev'[e].msg \in heard'
    BY <1>7, <1>8
  <2> QED
    BY <1>4, <2>1, <2>2 DEF InFlight, Notification
<1>17. Earned(e)' /\ Unspoken(e)' /\ Timed(e)'
  BY <1>1, <1>8, <1>9 DEF IInv, Earned, Unspoken, Timed, Holding, msg
<1> QED
  BY <1>1, <1>8, <1>9, <1>11, <1>13, <1>14, <1>15, <1>16, <1>17, LockedStep

LEMMA FinishStep ==
  ASSUME IInv, NEW e \in Evaluators, Finish(e) PROVE IInv'
<1> DEFINE s == ev[e].of
           x == lc[s]
           d == ev[e].delivered
           pending == IF d THEN NoPending ELSE x.pending
           y == [x EXCEPT !.announced = d, !.pending = pending]
<1>1. Holding \subseteq {e} /\ ev[e].pc = "sent"
  BY Alone DEF Finish
<1>2. /\ TypeOK /\ ev[e] \in Evaluator /\ Sound(lc) /\ Recorded
      /\ calm \in Nat /\ spared \in Nat /\ Streaks(lc, calm + spared)
  BY Types DEF IInv
<1>3. s \in Severities /\ d \in BOOLEAN
  BY <1>2, EvaluatorFields
<1>4. /\ x.firing /\ x.pending.nonce > 0 /\ ev[e].msg = Notification(x, s)
      /\ d => ev[e].msg \in heard
  BY <1>1 DEF IInv, InFlight
<1>5. UNCHANGED <<rule, clock, world, ledger, heard, handed, changes, crashes>>
  BY DEF Finish
<1>6. SoundEntry(x, s) /\ x \in Lifecycle
  BY <1>2, <1>3 DEF Sound, SoundEntry
<1>7. CASE ev[e].msg.type = "resolved"
  <2>1. Save(e, IF d THEN Closed(lc) ELSE lc, Idle) /\ UNCHANGED <<calm, spared>>
    BY <1>7 DEF Finish
  <2>2. Sound(Closed(lc)) /\ Streaks(Closed(lc), calm + spared)
    BY <1>2, ClosedShape, ClosingKeeps, ClosingQuiet
  <2>3. Sound(IF d THEN Closed(lc) ELSE lc) /\ Streaks(IF d THEN Closed(lc) ELSE lc, calm + spared)
    BY <1>2, <2>2
  <2> QED
    BY <1>1, <1>2, <1>5, <2>1, <2>3, LastWrite
<1>8. CASE ev[e].msg.type # "resolved"
  <2>1. /\ x.pending.type = "firing" /\ ev[e].msg.sev = s /\ ev[e].msg.type = "firing"
        /\ ev[e].msg.since = x.since
    BY <1>4, <1>6, <1>8, LifecycleFields DEF Notification
  <2>2. ~x.announced
    BY <1>4, <1>6, <2>1 DEF SoundEntry, Kept
  <2>3. d => \E m \in heard : m.sev = s /\ m.type = "firing" /\ m.since = x.since
    BY <1>4, <2>1
  <2>4. CASE ev[e].result.state = "in_progress"
    <3> DEFINE l == [lc EXCEPT ![s] = y]
    <3>1. Save(e, l, Idle) /\ UNCHANGED <<calm, spared>>
      BY <1>8, <2>4, Zenon DEF Finish
    <3>2. pending \in Pending /\ (d => pending.nonce = 0)
      BY <1>6, LifecycleFields DEF NoPending, NoTime, Pending
    <3>3. y \in Lifecycle
      BY <1>3, <1>6, <3>2 DEF Lifecycle
    <3>4. /\ y.firing = x.firing /\ y.since = x.since /\ y.announced = d /\ y.quiet = x.quiet
          /\ y.sequence = x.sequence /\ y.pending = pending
      BY <1>6 DEF Lifecycle
    <3>5. Kept(y)
      BY <1>4, <1>6, <2>1, <2>2, <3>2, <3>4 DEF SoundEntry, Kept
    <3>6. Told(y, s)
      <4>1. CASE d
        BY <1>6, <3>2, <3>4, <4>1 DEF SoundEntry, Told
      <4>2. CASE ~d
        BY <1>6, <3>4, <4>2 DEF SoundEntry, Told, Notification
      <4> QED
        BY <4>1, <4>2
    <3>7. Witnessed(y, s)
      BY <2>3, <3>4 DEF Witnessed
    <3>8. SoundEntry(y, s)
      BY <3>3, <3>5, <3>6, <3>7 DEF SoundEntry
    <3>9. \A t \in Severities : l[t] = IF t = s THEN y ELSE lc[t]
      BY <1>2 DEF Sound
    <3>10. l \in [Severities -> Lifecycle]
      BY <1>2, <3>3 DEF Sound
    <3>11. x.quiet <= calm + spared
      BY <1>2, <1>3 DEF Streaks
    <3> HIDE DEF y
    <3>12. Sound(l)
      BY <1>2, <3>8, <3>9, <3>10 DEF Sound
    <3>13. Streaks(l, calm + spared)
      BY <1>2, <3>4, <3>9, <3>11 DEF Streaks
    <3> HIDE DEF l
    <3> QED
      BY <1>1, <1>2, <1>5, <3>1, <3>12, <3>13, LastWrite
  <2>5. CASE ev[e].result.state # "in_progress"
    <3>1. /\ Save(e, Settled(lc, s, d), Idle)
          /\ calm' = calm /\ spared' = 0
      BY <1>8, <2>5 DEF Finish
    <3>2. Sound(Settled(lc, s, d)) /\ Streaks(Settled(lc, s, d), 0)
      BY <1>2, <1>3, <1>4, <2>3, SettledKeeps
    <3>3. Streaks(Settled(lc, s, d), calm' + spared')
      <4>1. \A t \in Severities : Settled(lc, s, d)[t] \in Lifecycle
        BY <3>2 DEF Sound
      <4>2. \A t \in Severities : Settled(lc, s, d)[t].quiet \in Nat
        BY <4>1, LifecycleFields
      <4> HIDE DEF d
      <4> QED
        BY <1>2, <3>1, <3>2, <4>2 DEF Streaks
    <3> QED
      BY <1>1, <1>2, <1>5, <3>1, <3>2, <3>3, LastWrite
  <2> QED
    BY <2>4, <2>5
<1> QED
  BY <1>7, <1>8

\* Observing, giving up and dying: the lock is not held, or is let go.
LEMMA WithdrawnKeeps ==
  ASSUME ev \in [Evaluators -> Evaluator], NEW e \in Evaluators, ev' = Withdrawn(e)
  PROVE  /\ ev' \in [Evaluators -> Evaluator] /\ ev'[e] = Idle
         /\ \A f \in Evaluators \ {e} :
              /\ ev'[f].pc = ev[f].pc /\ ev'[f].at = ev[f].at /\ ev'[f].msg = ev[f].msg
              /\ ev'[f].of = ev[f].of /\ ev'[f].delivered = ev[f].delivered
              /\ ev'[f].result = ev[f].result
<1>1. ev' = [f \in Evaluators |-> ev'[f]] /\ ev'[e] = Idle
  BY DEF Withdrawn
<1>2. ASSUME NEW f \in Evaluators \ {e}
      PROVE  /\ ev'[f] \in Evaluator
             /\ ev'[f].pc = ev[f].pc /\ ev'[f].at = ev[f].at /\ ev'[f].msg = ev[f].msg
             /\ ev'[f].of = ev[f].of /\ ev'[f].delivered = ev[f].delivered
             /\ ev'[f].result = ev[f].result
  <2>1. ev[f] \in Evaluator /\ ev[f].seq \in Nat /\ ev[e].seq \in Nat
    BY EvaluatorFields
  <2>2. CASE ev[e].seq > 0 /\ ev[f].seq > ev[e].seq
    <3>1. ev'[f] = [ev[f] EXCEPT !.seq = ev[f].seq - 1]
      BY <2>2 DEF Withdrawn
    <3>2. PICK n \in Nat : n = ev[f].seq - 1
      BY <2>1, <2>2
    <3>3. ev'[f] = [ev[f] EXCEPT !.seq = n]
      BY <3>1, <3>2
    <3> QED
      BY <2>1, <3>3 DEF Evaluator
  <2>3. CASE ~(ev[e].seq > 0 /\ ev[f].seq > ev[e].seq)
    BY <2>1, <2>3 DEF Withdrawn
  <2> QED
    BY <2>2, <2>3
<1> QED
  BY <1>1, <1>2, Constants

LEMMA WithdrawStep ==
  ASSUME IInv, NEW e \in Evaluators, ev' = Withdrawn(e), crashes' \in Nat,
         UNCHANGED <<rule, clock, world, lc, ledger, heard, handed, calm, spared, applied, changes>>
  PROVE  IInv'
<1>1. TypeOK /\ clock \in Nat
  BY Types DEF IInv
<1>2. /\ ev' \in [Evaluators -> Evaluator] /\ ev'[e] = Idle
      /\ \A f \in Evaluators \ {e} :
           /\ ev'[f].pc = ev[f].pc /\ ev'[f].at = ev[f].at /\ ev'[f].msg = ev[f].msg
           /\ ev'[f].of = ev[f].of /\ ev'[f].delivered = ev[f].delivered
           /\ ev'[f].result = ev[f].result
  BY <1>1, WithdrawnKeeps DEF TypeOK
<1>3. TypeOK'
  BY <1>1, <1>2 DEF TypeOK
<1>4. ev'[e].pc = "idle" /\ ev'[e].msg = NoMessage
  BY <1>2, Constants
<1> QED
  BY <1>1, <1>2, <1>3, <1>4, IdleStep

LEMMA SkipStep ==
  ASSUME IInv, NEW e \in Evaluators, Skip(e) PROVE IInv'
<1>1. TypeOK /\ ev \in [Evaluators -> Evaluator] /\ clock \in Nat
  BY Types DEF IInv
<1>2. /\ ev' = [ev EXCEPT ![e] = Idle]
      /\ UNCHANGED <<rule, clock, world, lc, ledger, heard, handed, calm, spared, applied, changes, crashes>>
  BY DEF Skip
<1>3. ev' \in [Evaluators -> Evaluator] /\ ev'[e].pc = "idle" /\ ev'[e].msg = NoMessage
  BY <1>1, <1>2, Constants
<1>4. TypeOK'
  BY <1>1, <1>2, <1>3 DEF TypeOK
<1> QED
  BY <1>1, <1>2, <1>3, <1>4, IdleStep

LEMMA ObserveStep ==
  ASSUME IInv, NEW e \in Evaluators, Observe(e) PROVE IInv'
<1>1. /\ TypeOK /\ ev \in [Evaluators -> Evaluator] /\ clock \in Nat /\ clock >= Epoch
      /\ world \in Result /\ changes \in Nat
  BY Types DEF IInv, TypeOK
<1>2. UNCHANGED <<rule, clock, world, lc, ledger, heard, handed, calm, spared, applied, changes, crashes>>
  BY DEF Observe
<1>3. PICK n \in 0 .. Cardinality(Evaluators), saw \in Nat :
        ev' = [ev EXCEPT ![e] = [Idle EXCEPT !.pc = "observed", !.result = world, !.at = clock,
                                             !.seq = n, !.saw = saw]]
  <2>1. PICK n \in 0 .. Cardinality(Evaluators) :
          ev' = [ev EXCEPT ![e] =
            [Idle EXCEPT !.pc = "observed", !.result = world, !.at = clock, !.seq = n,
                         !.saw = IF rule = "PERF" THEN changes ELSE 0]]
    BY DEF Observe
  <2>2. PICK saw \in Nat : saw = IF rule = "PERF" THEN changes ELSE 0
    BY <1>1
  <2> QED
    BY <2>1, <2>2
<1>4. n \in Nat
  OBVIOUS
<1>5. /\ ev'[e] \in Evaluator /\ ev'[e].pc = "observed" /\ ev'[e].msg = NoMessage
      /\ ev'[e].at >= Epoch
      /\ \A f \in Evaluators \ {e} : ev'[f] = ev[f]
  BY <1>1, <1>3, <1>4, Constants DEF Evaluator
<1>6. ev' \in [Evaluators -> Evaluator]
  BY <1>1, <1>3, <1>5
<1>7. TypeOK'
  BY <1>1, <1>2, <1>6 DEF TypeOK
<1> QED
  BY <1>1, <1>2, <1>5, <1>7, IdleStep

LEMMA TickStep == ASSUME IInv, Tick PROVE IInv'
<1>1. TypeOK /\ clock \in Nat
  BY Types DEF IInv
<1>2. /\ clock' = clock + 1
      /\ UNCHANGED <<rule, world, lc, ledger, ev, heard, handed, calm, spared, applied, changes, crashes>>
  BY DEF Tick
<1>3. TypeOK'
  BY <1>1, <1>2 DEF TypeOK
<1> QED
  BY <1>1, <1>2, <1>3, IdleStep

LEMMA TurnStep == ASSUME IInv, Turn PROVE IInv'
<1>1. TypeOK /\ clock \in Nat
  BY Types DEF IInv
<1>2. /\ world' \in Result /\ changes' = changes + 1
      /\ UNCHANGED <<rule, clock, lc, ledger, ev, heard, handed, calm, spared, applied, crashes>>
  BY DEF Turn, Observable
<1>3. TypeOK'
  BY <1>1, <1>2 DEF TypeOK
<1> QED
  BY <1>1, <1>2, <1>3, IdleStep

-----------------------------------------------------------------------------
(* Theorems *)

\* Nothing announced, or the one A7 episode of an older version of the code.
LEMMA InitHolds == ASSUME Init PROVE IInv
<1>1. /\ rule \in Rules /\ clock = Epoch /\ world \in Observable(rule) /\ ledger = <<>>
      /\ ev = [e \in Evaluators |-> Idle]
      /\ calm = 0 /\ spared = 0 /\ applied = 0 /\ changes = 0 /\ crashes = 0
  BY DEF Init
<1>2. world \in Result /\ clock \in Nat /\ clock >= Epoch
  BY <1>1, ThresholdsAssumption DEF Observable
<1>3. ledger \in Seq([since: Nat, sources: SUBSET Sources])
  BY <1>1
<1>4. /\ ev \in [Evaluators -> Evaluator]
      /\ \A e \in Evaluators : ev[e].pc = "idle" /\ ev[e].msg = NoMessage
  BY <1>1, Constants
<1>5. Holding = {}
  BY <1>4 DEF Holding
<1>6. \A e \in Evaluators : InFlight(e) /\ Earned(e) /\ Unspoken(e) /\ Timed(e)
  BY <1>4, <1>5 DEF InFlight, Earned, Unspoken, Timed
<1>7. /\ Fresh \in Lifecycle /\ Fresh.announced = FALSE /\ Fresh.pending.nonce = 0 /\ Fresh.quiet = 0
  BY DEF Fresh, Lifecycle, Pending, NoPending, NoTime
<1>8. /\ Legacy \in Lifecycle /\ Legacy.firing = TRUE /\ Legacy.announced = TRUE
      /\ Legacy.pending.nonce = 0 /\ Legacy.quiet = 0 /\ Legacy.since = Epoch /\ Legacy.sequence = 1
  BY ThresholdsAssumption DEF Legacy, Fresh, Lifecycle, Pending, NoPending, NoTime
<1>9. /\ LegacyMessage \in Message /\ LegacyMessage.sev = "page" /\ LegacyMessage.type = "firing"
      /\ LegacyMessage.nonce = 1 /\ LegacyMessage.since = Epoch
  BY ThresholdsAssumption DEF LegacyMessage, Message, Severities
<1>10. CASE lc = [s \in Severities |-> Fresh] /\ heard = {} /\ handed = {}
  <2>1. \A s \in Severities : lc[s] = Fresh
    BY <1>10
  <2>2. \A s \in Severities : SoundEntry(lc[s], s) /\ lc[s].quiet <= calm + spared
    BY <1>1, <1>7, <1>10, <2>1 DEF SoundEntry, Kept, Told, Witnessed
  <2>3. lc \in [Severities -> Lifecycle]
    BY <1>7, <1>10
  <2>4. TypeOK /\ NoFakeRecovery /\ NonceNamesOneIntent
    BY <1>1, <1>2, <1>3, <1>4, <1>10, <2>3 DEF TypeOK, NoFakeRecovery, NonceNamesOneIntent
  <2> QED
    BY <1>2, <1>5, <1>6, <2>2, <2>3, <2>4 DEF IInv, OneHolder, Sound, Streaks
<1>11. CASE /\ lc = [s \in Severities |-> IF s = "page" THEN Legacy ELSE Fresh]
            /\ heard = {LegacyMessage}
            /\ handed = {[of |-> "page", msg |-> LegacyMessage]}
  <2>1. lc["page"] = Legacy /\ lc["notice"] = Fresh
    BY <1>11 DEF Severities
  <2>2. SoundEntry(lc["page"], "page") /\ lc["page"].quiet <= calm + spared
    BY <1>1, <1>8, <1>9, <1>11, <2>1 DEF SoundEntry, Kept, Told, Witnessed
  <2>3. SoundEntry(lc["notice"], "notice") /\ lc["notice"].quiet <= calm + spared
    BY <1>1, <1>7, <1>11, <2>1 DEF SoundEntry, Kept, Told, Witnessed
  <2>4. lc \in [Severities -> Lifecycle]
    BY <1>7, <1>8, <1>11
  <2>5. heard \subseteq Message /\ handed \subseteq [of: Severities, msg: Message]
    BY <1>9, <1>11 DEF Severities
  <2>6. NoFakeRecovery /\ NonceNamesOneIntent
    BY <1>9, <1>11 DEF NoFakeRecovery, NonceNamesOneIntent
  <2>7. TypeOK
    BY <1>1, <1>2, <1>3, <1>4, <2>4, <2>5 DEF TypeOK
  <2>8. \A s \in Severities : SoundEntry(lc[s], s) /\ lc[s].quiet <= calm + spared
    BY <2>2, <2>3 DEF Severities
  <2> QED
    BY <1>2, <1>5, <1>6, <2>4, <2>6, <2>7, <2>8 DEF IInv, OneHolder, Sound, Streaks
<1> QED
  BY <1>10, <1>11 DEF Init

\* The entry, what is in flight and what was heard agree after every step.
LEMMA Inductive == ASSUME IInv, [Next]_vars PROVE IInv'
<1>1. CASE UNCHANGED vars
  <2>1. TypeOK' /\ clock \in Nat
    BY <1>1, Types DEF IInv, vars, TypeOK
  <2> QED
    BY <1>1, <2>1, IdleStep DEF vars
<1>2. ASSUME NEW e \in Evaluators, Step(e) PROVE IInv'
  <2>1. CASE Accepted(e) \/ Refused(e) \/ AnswerLost(e)
    BY <2>1, HandStep DEF Accepted, Refused, AnswerLost
  <2> QED
    BY <1>2, <2>1, SkipStep, RetryStep, DeferStep, ClosePausedStep, RecordPausedStep, AnnounceStep,
       KeepFiringStep, RecoverStep, StayQuietStep, FinishStep DEF Step
<1>3. ASSUME NEW e \in Evaluators, Abandon(e) \/ Crash(e) PROVE IInv'
  <2>1. ev' = Withdrawn(e) /\ crashes' \in Nat
    BY <1>3 DEF Abandon, Crash, IInv, TypeOK
  <2> QED
    BY <1>3, <2>1, WithdrawStep DEF Abandon, Crash
<1> QED
  BY <1>1, <1>2, <1>3, ObserveStep, TickStep, TurnStep DEF Next

LEMMA Invariance == Spec => []IInv
BY InitHolds, Inductive, PTL DEF Spec

\* TypeOK for every instance.
THEOREM TypeCorrect == Spec => []TypeOK
<1>1. IInv => TypeOK
  BY DEF IInv
<1> QED
  BY <1>1, Invariance, PTL

\* A nonce of a lifecycle is never handed to im-notify with two meanings
\* (prepare_notification and _next_notification_nonce), whatever is retried,
\* lost or interrupted.
THEOREM NoncesAreUnique == Spec => []NonceNamesOneIntent
<1>1. IInv => NonceNamesOneIntent
  BY DEF IInv
<1> QED
  BY <1>1, Invariance, PTL

\* announced and a recovery never claim more than the operator has seen.
THEOREM OperatorIsTold == Spec => []OperatorKnows
<1>1. IInv => OperatorKnows
  BY DEF IInv, OperatorKnows, AnnouncedWasHeard, Sound, SoundEntry, Witnessed
<1> QED
  BY <1>1, Invariance, PTL

\* Every announced recovery has its quiet evaluations behind it.
THEOREM RecoveriesAreEarned == Spec => []RecoveryEarned
<1>1. IInv => RecoveryEarned
  <2> SUFFICES ASSUME IInv, NEW e \in Holding, ev[e].msg.type = "resolved",
                      ev[e].result.state # "degraded"
               PROVE  calm + spared >= ResolveRounds[rule]
    BY DEF RecoveryEarned
  <2>1. Earned(e)
    BY DEF IInv, Holding
  <2> QED
    BY <2>1 DEF Earned
<1> QED
  BY <1>1, Invariance, PTL

-----------------------------------------------------------------------------
(* The order of PERF's evaluations *)

\* Reservations are ordered as what they read, and none that still counts read
\* less than what is on file.
Ordered ==
  rule = "PERF" =>
    /\ applied <= changes
    /\ \A e \in Evaluators :
         /\ ev[e].saw <= changes
         /\ ev[e].seq > 0 => applied <= ev[e].saw
         /\ ev[e].pc \in {"prepared", "sent"} /\ ev[e].seq = 0 => ev[e].saw = applied
         /\ ev[e].pc # "closed"
    /\ \A e, f \in Evaluators : 0 < ev[e].seq /\ ev[e].seq < ev[f].seq => ev[e].saw <= ev[f].saw

LEMMA Numbers ==
  ASSUME IInv
  PROVE  /\ applied \in Nat /\ changes \in Nat /\ ev \in [Evaluators -> Evaluator]
         /\ \A e \in Evaluators : /\ ev[e] \in Evaluator /\ ev[e].seq \in Nat /\ ev[e].saw \in Nat
                                  /\ ev[e].pc \in {"idle", "observed", "closed", "prepared", "sent"}
BY EvaluatorFields DEF IInv, TypeOK

LEMMA IdleNumbers == Idle.seq = 0 /\ Idle.saw = 0 /\ Idle.pc = "idle"
BY DEF Idle

LEMMA SaveOrdered ==
  ASSUME IInv, Ordered, NEW e \in Evaluators, Holding \subseteq {e}, NEW l, NEW v \in Evaluator,
         Save(e, l, v), UNCHANGED <<rule, changes>>,
         v.seq = 0, (v.pc = "idle" /\ v.saw = 0) \/ (v.pc = "prepared" /\ v.saw = ev[e].saw),
         rule = "PERF" => ev[e].seq > 0 \/ ev[e].pc \in {"prepared", "sent"}
  PROVE  Ordered' /\ (rule = "PERF" => applied' >= applied)
<1> SUFFICES ASSUME rule = "PERF" PROVE Ordered' /\ applied' >= applied
  BY DEF Ordered
<1>1. /\ applied \in Nat /\ changes \in Nat /\ ev \in [Evaluators -> Evaluator]
      /\ \A f \in Evaluators : ev[f].seq \in Nat /\ ev[f].saw \in Nat
  BY Numbers
<1>2. /\ ev'[e] = v /\ applied' = ev[e].saw
      /\ \A f \in Evaluators \ {e} :
           /\ ev'[f].pc = ev[f].pc /\ ev'[f].saw = ev[f].saw
           /\ ev'[f].seq = IF ev[f].seq <= ev[e].seq THEN 0 ELSE ev[f].seq - ev[e].seq
  BY <1>1, SaveFrame
<1>3. applied <= ev[e].saw /\ ev[e].saw <= changes /\ (ev[e].seq = 0 => ev[e].saw = applied)
  BY <1>1 DEF Ordered
<1>4. ASSUME NEW f \in Evaluators \ {e}, ev'[f].seq > 0
      PROVE  ev[f].seq > ev[e].seq /\ ev'[f].seq = ev[f].seq - ev[e].seq /\ ev[e].saw <= ev[f].saw
  <2>1. ev[f].seq > ev[e].seq /\ ev'[f].seq = ev[f].seq - ev[e].seq
    BY <1>1, <1>2, <1>4
  <2>2. CASE ev[e].seq > 0
    BY <1>1, <2>1, <2>2 DEF Ordered
  <2>3. CASE ev[e].seq = 0
    BY <1>1, <1>3, <2>1, <2>3 DEF Ordered
  <2> QED
    BY <1>1, <2>1, <2>2, <2>3
<1>5. \A f \in Evaluators \ {e} : ev[f].pc \notin {"closed", "prepared", "sent"}
  BY DEF Holding
<1>6. ASSUME NEW f \in Evaluators
      PROVE  /\ ev'[f].saw <= changes
             /\ ev'[f].seq > 0 => applied' <= ev'[f].saw
             /\ ev'[f].pc \in {"prepared", "sent"} /\ ev'[f].seq = 0 => ev'[f].saw = applied'
             /\ ev'[f].pc # "closed"
  <2>1. CASE f = e
    BY <1>1, <1>2, <1>3, <2>1
  <2>2. CASE f # e
    BY <1>1, <1>2, <1>4, <1>5, <2>2 DEF Ordered
  <2> QED
    BY <2>1, <2>2
<1>7. ASSUME NEW f \in Evaluators, NEW g \in Evaluators, 0 < ev'[f].seq, ev'[f].seq < ev'[g].seq
      PROVE  ev'[f].saw <= ev'[g].saw
  <2>1. ev'[e].seq = 0
    BY <1>2
  <2>2. f # e
    BY <1>7, <2>1
  <2>3. ev'[f].seq = ev[f].seq - ev[e].seq /\ ev[f].seq > ev[e].seq
    BY <1>4, <1>7, <2>2
  <2>4. g # e
    BY <1>1, <1>7, <2>1, <2>3
  <2>5. ev'[g].seq = IF ev[g].seq <= ev[e].seq THEN 0 ELSE ev[g].seq - ev[e].seq
    BY <1>2, <2>4
  <2>6. ev[f].seq < ev[g].seq /\ 0 < ev[f].seq
    BY <1>1, <1>7, <2>3, <2>5
  <2> QED
    BY <1>2, <2>2, <2>4, <2>6 DEF Ordered
<1> QED
  BY <1>2, <1>3, <1>6, <1>7 DEF Ordered

\* Nothing is put on file; evaluators go on or end.
LEMMA FrameOrdered ==
  ASSUME IInv, Ordered, UNCHANGED <<rule, applied, changes>>,
         rule = "PERF" => \A f \in Evaluators :
           \/ /\ ev'[f].seq = ev[f].seq /\ ev'[f].saw = ev[f].saw /\ ev'[f].pc # "closed"
              /\ ev'[f].pc \in {"prepared", "sent"} => ev[f].pc \in {"prepared", "sent"} \/ ev[f].seq > 0
           \/ ev'[f].seq = 0 /\ ev'[f].saw = 0 /\ ev'[f].pc = "idle"
  PROVE  Ordered' /\ (rule = "PERF" => applied' >= applied)
<1> SUFFICES ASSUME rule = "PERF" PROVE Ordered' /\ applied' >= applied
  BY DEF Ordered
<1>1. /\ applied \in Nat /\ changes \in Nat
      /\ \A f \in Evaluators : ev[f].seq \in Nat /\ ev[f].saw \in Nat
  BY Numbers
<1>2. \A f \in Evaluators :
        /\ ev'[f].saw <= changes
        /\ ev'[f].seq > 0 => applied <= ev'[f].saw
        /\ ev'[f].pc \in {"prepared", "sent"} /\ ev'[f].seq = 0 => ev'[f].saw = applied
        /\ ev'[f].pc # "closed"
  BY <1>1 DEF Ordered
<1>3. \A f, g \in Evaluators : 0 < ev'[f].seq /\ ev'[f].seq < ev'[g].seq => ev'[f].saw <= ev'[g].saw
  BY <1>1 DEF Ordered
<1> QED
  BY <1>1, <1>2, <1>3 DEF Ordered

LEMMA WithdrawnOrdered ==
  ASSUME IInv, Ordered, NEW e \in Evaluators, ev' = Withdrawn(e), UNCHANGED <<rule, applied, changes>>
  PROVE  Ordered' /\ (rule = "PERF" => applied' >= applied)
<1> SUFFICES ASSUME rule = "PERF" PROVE Ordered' /\ applied' >= applied
  BY DEF Ordered
<1>1. /\ applied \in Nat /\ changes \in Nat /\ ev \in [Evaluators -> Evaluator]
      /\ \A f \in Evaluators : ev[f] \in Evaluator /\ ev[f].seq \in Nat /\ ev[f].saw \in Nat
  BY Numbers
<1>2. ev'[e].seq = 0 /\ ev'[e].saw = 0 /\ ev'[e].pc = "idle"
  BY IdleNumbers DEF Withdrawn
<1>3. ASSUME NEW f \in Evaluators \ {e}
      PROVE  /\ ev'[f].pc = ev[f].pc /\ ev'[f].saw = ev[f].saw
             /\ ev'[f].seq = IF ev[e].seq > 0 /\ ev[f].seq > ev[e].seq THEN ev[f].seq - 1 ELSE ev[f].seq
  <2>1. CASE ev[e].seq > 0 /\ ev[f].seq > ev[e].seq
    <3>1. PICK n \in Nat : n = ev[f].seq - 1
      BY <1>1, <2>1
    <3>2. ev'[f] = [ev[f] EXCEPT !.seq = n]
      BY <2>1, <3>1 DEF Withdrawn
    <3> QED
      BY <1>1, <2>1, <3>1, <3>2 DEF Evaluator
  <2>2. CASE ~(ev[e].seq > 0 /\ ev[f].seq > ev[e].seq)
    BY <2>2 DEF Withdrawn
  <2> QED
    BY <2>1, <2>2
<1>4. \A f \in Evaluators :
        /\ ev'[f].saw <= changes
        /\ ev'[f].seq > 0 => applied <= ev'[f].saw
        /\ ev'[f].pc \in {"prepared", "sent"} /\ ev'[f].seq = 0 => ev'[f].saw = applied
        /\ ev'[f].pc # "closed"
  <2> SUFFICES ASSUME NEW f \in Evaluators
               PROVE  /\ ev'[f].saw <= changes
                      /\ ev'[f].seq > 0 => applied <= ev'[f].saw
                      /\ ev'[f].pc \in {"prepared", "sent"} /\ ev'[f].seq = 0 => ev'[f].saw = applied
                      /\ ev'[f].pc # "closed"
    OBVIOUS
  <2>1. CASE f = e
    BY <1>1, <1>2, <2>1
  <2>2. CASE f # e
    <3>1. ev'[f].seq > 0 <=> ev[f].seq > 0
      BY <1>1, <1>3, <2>2
    <3>2. ev'[f].seq \in Nat
      BY <1>1, <1>3, <2>2
    <3> QED
      BY <1>1, <1>3, <2>2, <3>1, <3>2 DEF Ordered
  <2> QED
    BY <2>1, <2>2
<1>5. ASSUME NEW f \in Evaluators, NEW g \in Evaluators, 0 < ev'[f].seq, ev'[f].seq < ev'[g].seq
      PROVE  ev'[f].saw <= ev'[g].saw
  <2>1. f # e
    BY <1>2, <1>5
  <2>2. g # e
    BY <1>1, <1>2, <1>3, <1>5, <2>1
  <2>3. 0 < ev[f].seq /\ ev[f].seq < ev[g].seq
    BY <1>1, <1>3, <1>5, <2>1, <2>2
  <2> QED
    BY <1>3, <2>1, <2>2, <2>3 DEF Ordered
<1> QED
  BY <1>1, <1>4, <1>5 DEF Ordered

LEMMA ObserveOrdered ==
  ASSUME IInv, Ordered, NEW e \in Evaluators, Observe(e)
  PROVE  Ordered' /\ (rule = "PERF" => applied' >= applied)
<1> SUFFICES ASSUME rule = "PERF" PROVE Ordered' /\ applied' >= applied
  BY DEF Ordered, Observe
<1>1. /\ applied \in Nat /\ changes \in Nat /\ ev \in [Evaluators -> Evaluator]
      /\ \A f \in Evaluators : ev[f].seq \in Nat /\ ev[f].saw \in Nat
  BY Numbers
<1>2. PICK n \in 0 .. Cardinality(Evaluators) :
        /\ n > 0 /\ \A f \in Evaluators : ev[f].seq < n
        /\ ev' = [ev EXCEPT ![e] =
             [Idle EXCEPT !.pc = "observed", !.result = world, !.at = clock, !.seq = n,
                          !.saw = IF rule = "PERF" THEN changes ELSE 0]]
  BY DEF Observe
<1>3. n \in Nat
  OBVIOUS
<1>4. ev' = [ev EXCEPT ![e] = [Idle EXCEPT !.pc = "observed", !.result = world, !.at = clock,
                                           !.seq = n, !.saw = changes]]
  BY <1>2
<1>5. /\ ev'[e].pc = "observed" /\ ev'[e].seq = n /\ ev'[e].saw = changes
      /\ \A f \in Evaluators \ {e} : ev'[f] = ev[f]
  BY <1>1, <1>4, Constants DEF Evaluator
<1>6. UNCHANGED <<rule, applied, changes>>
  BY DEF Observe
<1>7. \A f \in Evaluators :
        /\ ev'[f].saw <= changes
        /\ ev'[f].seq > 0 => applied <= ev'[f].saw
        /\ ev'[f].pc \in {"prepared", "sent"} /\ ev'[f].seq = 0 => ev'[f].saw = applied
        /\ ev'[f].pc # "closed"
  BY <1>1, <1>5 DEF Ordered
<1>8. ASSUME NEW f \in Evaluators, NEW g \in Evaluators, 0 < ev'[f].seq, ev'[f].seq < ev'[g].seq
      PROVE  ev'[f].saw <= ev'[g].saw
  <2>1. f # e
    BY <1>1, <1>2, <1>3, <1>5, <1>8
  <2> QED
    BY <1>1, <1>5, <1>7, <1>8, <2>1 DEF Ordered
<1> QED
  BY <1>1, <1>6, <1>7, <1>8 DEF Ordered

LEMMA StepOrdered ==
  ASSUME IInv, Ordered, NEW e \in Evaluators, Step(e)
  PROVE  Ordered' /\ (rule = "PERF" => applied' >= applied)
<1>1. /\ ev \in [Evaluators -> Evaluator] /\ ev[e] \in Evaluator /\ ev[e].seq \in Nat
      /\ Idle \in Evaluator
  BY Numbers, Constants
<1>2. rule = "PERF" => ev[e].pc # "closed"
  BY DEF Ordered
<1>3. Proceeds(e) /\ rule = "PERF" => ev[e].seq > 0 /\ PausedAway(lc, ev[e].result) = {}
  BY <1>1 DEF Proceeds, Stale, PausedAway
<1>4. ASSUME NEW l, Save(e, l, Idle), UNCHANGED <<rule, changes>>, Holding \subseteq {e},
             rule = "PERF" => ev[e].seq > 0 \/ ev[e].pc = "sent"
      PROVE  Ordered' /\ (rule = "PERF" => applied' >= applied)
  <2>1. rule = "PERF" => ev[e].seq > 0 \/ ev[e].pc \in {"prepared", "sent"}
    BY <1>4
  <2>2. PICK v \in Evaluator : v = Idle
    BY <1>1
  <2>3. Save(e, l, v) /\ v.seq = 0 /\ v.pc = "idle" /\ v.saw = 0
    BY <1>4, <2>2, IdleNumbers
  <2> QED
    BY <1>4, <2>1, <2>3, SaveOrdered
<1>5. ASSUME NEW l, NEW s \in Severities, NEW type \in {"firing", "resolved"}, Prepare(e, l, s, type),
             UNCHANGED <<rule, changes>>, Holding \subseteq {e}, rule = "PERF" => ev[e].seq > 0,
             IInv'
      PROVE  Ordered' /\ (rule = "PERF" => applied' >= applied)
  <2> DEFINE p == Prepared(l, s, type)
             msg == Notification(p[s], s)
             v == [ev[e] EXCEPT !.pc = "prepared", !.seq = 0, !.of = s, !.msg = msg]
  <2>1. Save(e, p, v)
    BY <1>5 DEF Prepare
  <2> HIDE DEF p, msg
  <2>2. v.seq = 0 /\ v.pc = "prepared" /\ v.saw = ev[e].saw
    BY <1>1 DEF Evaluator
  <2> HIDE DEF v
  <2>3. ev'[e] = v
    BY <1>1, <2>1 DEF Save, Outdated
  <2>4. v \in Evaluator
    BY <1>5, <2>3, Numbers DEF IInv, TypeOK
  <2> QED
    BY <1>5, <2>1, <2>2, <2>4, SaveOrdered
<1>6. ASSUME Proceeds(e) \/ ev[e].pc \in {"closed", "prepared", "sent"} PROVE Holding \subseteq {e}
  BY <1>6, Alone
<1>7. CASE Skip(e) \/ ClosePaused(e)
  <2>1. /\ UNCHANGED <<rule, applied, changes>>
        /\ rule = "PERF" => ev' = [ev EXCEPT ![e] = Idle]
    BY <1>3, <1>7 DEF Skip, ClosePaused
  <2> QED
    BY <1>1, <2>1, IdleNumbers, FrameOrdered DEF Ordered
<1>8. CASE Retry(e)
  <2>1. UNCHANGED <<rule, applied, changes>>
    BY <1>8 DEF Retry
  <2>2. ev' = [ev EXCEPT ![e] = [ev[e] EXCEPT !.pc = "prepared", !.of = Retried(lc),
                                             !.msg = Notification(lc[Retried(lc)], Retried(lc))]]
    BY <1>1, <1>8 DEF Retry
  <2>3. /\ ev'[e].seq = ev[e].seq /\ ev'[e].saw = ev[e].saw /\ ev'[e].pc = "prepared"
        /\ \A f \in Evaluators \ {e} : ev'[f] = ev[f]
    BY <1>1, <2>2 DEF Evaluator
  <2> QED
    BY <1>3, <1>8, <2>1, <2>3, FrameOrdered DEF Ordered, Retry
<1>9. CASE Accepted(e) \/ Refused(e) \/ AnswerLost(e)
  <2>1. PICK d \in BOOLEAN : ev' = [ev EXCEPT ![e] = [ev[e] EXCEPT !.pc = "sent", !.delivered = d]]
    BY <1>1, <1>9 DEF Accepted, Refused, AnswerLost, Hand
  <2>2. UNCHANGED <<rule, applied, changes>> /\ ev[e].pc = "prepared"
    BY <1>9 DEF Accepted, Refused, AnswerLost, Hand
  <2>3. /\ ev'[e].seq = ev[e].seq /\ ev'[e].saw = ev[e].saw /\ ev'[e].pc = "sent"
        /\ \A f \in Evaluators \ {e} : ev'[f] = ev[f]
    BY <1>1, <2>1 DEF Evaluator
  <2> QED
    BY <2>2, <2>3, FrameOrdered DEF Ordered
<1>10. CASE Defer(e)
  BY <1>3, <1>4, <1>6, <1>10 DEF Defer
<1>11. CASE RecordPaused(e)
  BY <1>2, <1>4, <1>6, <1>11 DEF RecordPaused
<1>12. CASE KeepFiring(e)
  <2>1. PICK l : Save(e, l, Idle)
    BY <1>12 DEF KeepFiring
  <2> QED
    BY <1>2, <1>3, <1>4, <1>6, <1>12, <2>1 DEF KeepFiring, Fires
<1>13. CASE StayQuiet(e)
  <2>1. PICK l : Save(e, l, Idle)
    BY <1>13 DEF StayQuiet
  <2> QED
    BY <1>3, <1>4, <1>6, <1>13, <2>1 DEF StayQuiet, Quiet
<1>14. CASE Finish(e)
  <2>1. PICK l : Save(e, l, Idle)
    BY <1>14 DEF Finish
  <2> QED
    BY <1>4, <1>6, <1>14, <2>1 DEF Finish
<1>15. CASE Announce(e)
  <2>1. IInv'
    BY <1>15, AnnounceStep
  <2>2. ev[e].result.sev \in Severities
    BY Types DEF IInv, Result
  <2>3. PICK l : Prepare(e, l, ev[e].result.sev, "firing")
    BY <1>15 DEF Announce
  <2> QED
    BY <1>2, <1>3, <1>5, <1>6, <1>15, <2>1, <2>2, <2>3 DEF Announce, Fires
<1>16. CASE Recover(e)
  <2>1. IInv'
    BY <1>16, RecoverStep
  <2>2. PICK s \in Severities : \E l : Prepare(e, l, s, "resolved")
    BY <1>16, Zenon DEF Recover, Severities
  <2>3. PICK l : Prepare(e, l, s, "resolved")
    BY <2>2
  <2> QED
    BY <1>3, <1>5, <1>6, <1>16, <2>1, <2>3 DEF Recover, Quiet
<1> QED
  BY <1>7, <1>8, <1>9, <1>10, <1>11, <1>12, <1>13, <1>14, <1>15, <1>16 DEF Step

LEMMA NextOrdered ==
  ASSUME IInv, Ordered, [Next]_vars
  PROVE  Ordered' /\ (rule = "PERF" => applied' >= applied)
<1>1. CASE UNCHANGED vars \/ Tick
  <2>1. UNCHANGED <<rule, ev, applied, changes>>
    BY <1>1 DEF vars, Tick
  <2> QED
    BY <2>1, FrameOrdered DEF Ordered
<1>2. CASE Turn
  <2>1. UNCHANGED <<rule, ev, applied>> /\ changes' = changes + 1
    BY <1>2 DEF Turn
  <2> QED
    BY <2>1, Numbers DEF Ordered
<1>3. ASSUME NEW e \in Evaluators, Abandon(e) \/ Crash(e)
      PROVE  Ordered' /\ (rule = "PERF" => applied' >= applied)
  BY <1>3, WithdrawnOrdered DEF Abandon, Crash
<1> QED
  BY <1>1, <1>2, <1>3, ObserveOrdered, StepOrdered DEF Next

\* An older evaluation of PERF never replaces a later one: the reserved
\* sequence (reserve_alert_evaluation_sequence) orders them as their evidence.
THEOREM NewerEvidenceKept == Spec => NewerEvidenceStays
<1>1. Init => Ordered
  BY IdleNumbers DEF Init, Ordered
<1>2. IInv /\ Ordered /\ [Next]_vars => Ordered'
  BY NextOrdered
<1>3. IInv /\ Ordered /\ [Next]_vars => [rule = "PERF" => applied' >= applied]_vars
  BY NextOrdered
<1> QED
  BY <1>1, <1>2, <1>3, Invariance, PTL DEF Spec, NewerEvidenceStays

-----------------------------------------------------------------------------
(* Announced episodes of the rules: none ends in silence *)

\* A7 speaks of one episode at a time, and its signals are always there.
OneAnnounced == rule = "A7" => ~(lc["page"].announced /\ lc["notice"].announced)

Evidenced ==
  rule = "A7" =>
    /\ world.state # "in_progress"
    /\ \A e \in Evaluators : ev[e].result.state # "in_progress"

\* Between the row and the state, the row is there.
Rowed(e) ==
  ev[e].pc = "closed" => \E i \in DOMAIN ledger : ledger[i] = PauseRow(lc, ev[e].result)

EpisodesInv == OneAnnounced /\ Evidenced /\ PausedOnce /\ \A e \in Evaluators : Rowed(e)

LEMMA PreparedEpisode ==
  ASSUME NEW l \in [Severities -> Lifecycle], NEW s \in Severities, NEW type, NEW t \in Severities
  PROVE  /\ Prepared(l, s, type)[t].sources = l[t].sources
         /\ Prepared(l, s, type)[t].since = l[t].since
         /\ Prepared(l, s, type)[t].firing = l[t].firing
         /\ Prepared(l, s, type)[t].announced = l[t].announced
<1>1. PICK sequence, pending :
        Prepared(l, s, type) = [l EXCEPT ![s] = [l[s] EXCEPT !.sequence = sequence, !.pending = pending]]
  BY DEF Prepared
<1>2. l[t] \in Lifecycle
  OBVIOUS
<1> QED
  BY <1>1, <1>2 DEF Lifecycle

\* An announced episode goes on; one that begins has the sources that are silent.
LEMMA OpenedEpisode ==
  ASSUME NEW l, Sound(l), NEW r \in Result, NEW at
  PROVE  /\ \A s \in Severities : l[s].announced =>
              Opened(l, r, at)[s].since = l[s].since /\ Opened(l, r, at)[s].announced
         /\ \A s \in Severities : Opened(l, r, at)[s].announced => l[s].announced
         /\ Opened(l, r, at)[r.sev].firing
         /\ rule = "A7" /\ ~l[r.sev].firing => Opened(l, r, at)[r.sev].sources = r.sources
<1>1. r.sev \in Severities
  BY DEF Result
<1>2. \A s \in Severities : /\ l[s] \in Lifecycle
                            /\ l[s].announced => l[s].firing
                            /\ Ok(l[s]).announced = FALSE
  BY DEF Sound, SoundEntry, Kept, Ok, Fresh
<1>3. \A s \in Severities \ {r.sev} :
        \/ Opened(l, r, at)[s] = l[s]
        \/ ~l[s].announced /\ Opened(l, r, at)[s] = Ok(l[s])
  BY DEF Opened
<1>4. PICK pending :
        Opened(l, r, at)[r.sev] =
          [l[r.sev] EXCEPT !.firing = TRUE, !.since = Since(l, r.sev, at), !.pending = pending,
                           !.sources = IF rule = "A7" /\ ~l[r.sev].firing THEN r.sources
                                       ELSE l[r.sev].sources]
  BY <1>1 DEF Opened
<1>5. /\ Opened(l, r, at)[r.sev].firing = TRUE
      /\ Opened(l, r, at)[r.sev].since = Since(l, r.sev, at)
      /\ Opened(l, r, at)[r.sev].announced = l[r.sev].announced
      /\ rule = "A7" /\ ~l[r.sev].firing => Opened(l, r, at)[r.sev].sources = r.sources
  BY <1>1, <1>2, <1>4 DEF Lifecycle
<1>6. l[r.sev].firing => Since(l, r.sev, at) = l[r.sev].since
  BY DEF Since
<1> QED
  BY <1>1, <1>2, <1>3, <1>5, <1>6

\* A severity is closed only by the other's being announced.
LEMMA SettledEpisode ==
  ASSUME NEW l \in [Severities -> Lifecycle], NEW s \in Severities, NEW d \in BOOLEAN
  PROVE  /\ Settled(l, s, d)[s].since = l[s].since
         /\ Settled(l, s, d)[s].firing = l[s].firing
         /\ Settled(l, s, d)[s].sources = l[s].sources
         /\ Settled(l, s, d)[s].announced = (d \/ l[s].announced)
         /\ \A t \in Severities \ {s} :
              /\ Settled(l, s, d)[t].since = l[t].since \/ Settled(l, s, d)[s].announced
              /\ Settled(l, s, d)[t].announced => l[t].announced /\ ~Settled(l, s, d)[s].announced
<1>1. \A t \in Severities : l[t] \in Lifecycle
  OBVIOUS
<1>2. PICK pending :
        Settled(l, s, d)[s] = [l[s] EXCEPT !.announced = d \/ l[s].announced, !.quiet = 0,
                                           !.pending = pending]
  BY DEF Settled
<1>3. /\ Settled(l, s, d)[s].since = l[s].since
      /\ Settled(l, s, d)[s].firing = l[s].firing
      /\ Settled(l, s, d)[s].sources = l[s].sources
      /\ Settled(l, s, d)[s].announced = (d \/ l[s].announced)
  BY <1>1, <1>2 DEF Lifecycle
<1>4. ASSUME NEW t \in Severities \ {s}
      PROVE  /\ Settled(l, s, d)[t].since = l[t].since \/ Settled(l, s, d)[s].announced
             /\ Settled(l, s, d)[t].announced => l[t].announced /\ ~Settled(l, s, d)[s].announced
  <2>1. CASE ~l[t].announced
    BY <2>1 DEF Settled
  <2>2. CASE l[t].announced /\ (d \/ l[s].announced)
    <3>1. Settled(l, s, d)[t] = Ok(l[t])
      BY <2>2 DEF Settled
    <3> QED
      BY <1>3, <2>2, <3>1 DEF Ok, Fresh
  <2>3. CASE l[t].announced /\ ~(d \/ l[s].announced)
    <3>1. Settled(l, s, d)[t] = [l[t] EXCEPT !.quiet = 0]
      BY <2>3 DEF Settled
    <3> QED
      BY <1>1, <1>3, <2>3, <3>1 DEF Lifecycle
  <2> QED
    BY <2>1, <2>2, <2>3
<1> QED
  BY <1>3, <1>4

LEMMA QuietedEpisode ==
  ASSUME NEW x \in Lifecycle, NEW r
  PROVE  /\ x.announced => Quieted(x, r).since = x.since
         /\ Quieted(x, r).announced => x.announced
<1>1. \A q : /\ [x EXCEPT !.quiet = q].since = x.since
             /\ [x EXCEPT !.quiet = q].announced = x.announced
  BY DEF Lifecycle
<1>2. \/ Quieted(x, r) = x
      \/ ~x.announced /\ Quieted(x, r) = Ok(x)
      \/ Quieted(x, r) = [x EXCEPT !.quiet = x.quiet + 1]
  BY DEF Quieted
<1>3. Ok(x).announced = FALSE
  BY DEF Ok, Fresh
<1> QED
  BY <1>1, <1>2, <1>3

RowOf(s) ==
  \E i \in DOMAIN ledger : ledger[i].since = lc[s].since /\ lc[s].sources \subseteq ledger[i].sources

LEMMA PausedHasRow ==
  ASSUME EpisodesInv, NEW e \in Evaluators, ev[e].pc = "closed",
         NEW s \in PausedAway(lc, ev[e].result)
  PROVE  RowOf(s)
<1> DEFINE ss == PausedAway(lc, ev[e].result)
           first == IF "page" \in ss THEN "page" ELSE "notice"
           sources == UNION {lc[t].sources : t \in ss}
<1>1. PICK i \in DOMAIN ledger : ledger[i] = PauseRow(lc, ev[e].result)
  BY DEF EpisodesInv, Rowed
<1>2. ledger[i].since = lc[first].since /\ ledger[i].sources = sources
  BY <1>1 DEF PauseRow
<1>3. rule = "A7" /\ s \in {"page", "notice"} /\ \A t \in ss : lc[t].announced
  BY DEF PausedAway, Severities
<1>4. first = s
  BY <1>3 DEF EpisodesInv, OneAnnounced
<1>5. lc[s].sources \subseteq sources
  OBVIOUS
<1> QED
  BY <1>2, <1>4, <1>5 DEF RowOf

LEMMA UnpausedEpisode ==
  ASSUME EpisodesInv, NEW e \in Evaluators, ev[e].pc = "closed", NEW s \in Severities
  PROVE  \/ Unpaused(lc, ev[e].result)[s] = lc[s]
         \/ RowOf(s) /\ Unpaused(lc, ev[e].result)[s] = Ok(lc[s])
BY PausedHasRow DEF Unpaused

\* What the file held when a firing evaluation began is what it starts from, or
\* a pause or a new episode has ended it.
LEMMA BaseEpisode ==
  ASSUME EpisodesInv, NEW e \in Evaluators, NEW s \in Severities
  PROVE  \/ Base(e)[s] = lc[s]
         \/ /\ Base(e)[s] = Ok(lc[s])
            /\ \/ RowOf(s)
               \/ /\ rule = "A7" /\ lc[s].sources \cap ev[e].result.sources = {}
                  /\ \A t \in Severities : ~Base(e)[t].firing
<1> DEFINE r == ev[e].result
           l == IF ev[e].pc = "closed" THEN Unpaused(lc, r) ELSE lc
<1>1. l[s] = lc[s] \/ (RowOf(s) /\ l[s] = Ok(lc[s]))
  BY UnpausedEpisode
<1>2. Base(e) = Replaced(l, r)
  BY DEF Base
<1>3. \A x : Ok(x).firing = FALSE /\ Ok(Ok(x)) = Ok(x)
  BY DEF Ok, Fresh
<1> HIDE DEF l
<1>4. CASE Base(e)[s] = l[s]
  BY <1>1, <1>4
<1>5. CASE Base(e)[s] # l[s]
  <2>1. /\ rule = "A7" /\ {t \in Severities : l[t].firing} = {s} /\ l[s].sources \cap r.sources = {}
        /\ Base(e)[s] = Ok(l[s])
    BY <1>2, <1>5 DEF Replaced
  <2>2. \A t \in Severities : Base(e)[t] = l[t] \/ Base(e)[t] = Ok(l[t])
    BY <1>2, ReplacedShape
  <2>3. \A t \in Severities : ~Base(e)[t].firing
    BY <1>3, <2>1, <2>2
  <2> QED
    BY <1>1, <1>3, <2>1, <2>3
<1> QED
  BY <1>4, <1>5

\* A firing evaluation leaves the episodes it has opened, but for a severity
\* that the one it speaks of has taken over.
LEMMA FiringAccounted ==
  ASSUME IInv, EpisodesInv, NEW e \in Evaluators, NEW at,
         lc' \in [Severities -> Lifecycle],
         LET s == ev[e].result.sev
             o == Opened(Base(e), ev[e].result, at)
         IN  /\ lc'[s].since = o[s].since /\ lc'[s].firing = o[s].firing
             /\ lc'[s].sources = o[s].sources
             /\ \A t \in Severities \ {s} : lc'[t].since = o[t].since \/ lc'[s].announced
  PROVE  Accounted
<1> DEFINE r == ev[e].result
           o == Opened(Base(e), r, at)
<1>1. r \in Result /\ r.sev \in Severities
  BY Types DEF IInv, Result
<1>2. Sound(Base(e)) /\ Sound(lc)
  BY BaseSound DEF IInv
<1>3. /\ \A s \in Severities : Base(e)[s].announced => o[s].since = Base(e)[s].since
      /\ o[r.sev].firing
      /\ rule = "A7" /\ ~Base(e)[r.sev].firing => o[r.sev].sources = r.sources
  BY <1>1, <1>2, OpenedEpisode
<1> SUFFICES ASSUME NEW s \in Severities, lc[s].announced, lc'[s].since # lc[s].since
             PROVE  \/ lc'[Other(s)].announced
                    \/ RowOf(s)
                    \/ rule = "A7" /\ \E t \in Severities :
                         lc'[t].firing /\ lc[s].sources \cap lc'[t].sources = {}
  BY DEF Accounted, RowOf
<1> HIDE DEF o
<1>4. CASE Base(e)[s] = lc[s]
  <2>1. o[s].since = lc[s].since
    BY <1>3, <1>4
  <2>2. s # r.sev /\ lc'[r.sev].announced
    BY <1>1, <2>1 DEF o
  <2>3. r.sev = Other(s)
    BY <1>1, <2>2 DEF Other, Severities
  <2> QED
    BY <2>2, <2>3
<1>5. CASE rule = "A7" /\ lc[s].sources \cap r.sources = {} /\ ~Base(e)[r.sev].firing
  <2>1. lc'[r.sev].firing /\ lc'[r.sev].sources = r.sources
    BY <1>3, <1>5 DEF o
  <2> QED
    BY <1>1, <1>5, <2>1
<1> QED
  BY <1>1, <1>4, <1>5, BaseEpisode

\* Nothing is written to the file or the ledger.
LEMMA IdleEpisodes ==
  ASSUME EpisodesInv, UNCHANGED <<rule, lc, ledger>>, Evidenced',
         \A f \in Evaluators : \/ ev'[f].pc # "closed"
                               \/ ev'[f].pc = ev[f].pc /\ ev'[f].result = ev[f].result
  PROVE  EpisodesInv' /\ Accounted /\ PausedOnce'
<1>1. OneAnnounced' /\ PausedOnce'
  BY DEF EpisodesInv, OneAnnounced, PausedOnce
<1>2. ASSUME NEW f \in Evaluators PROVE Rowed(f)'
  <2> SUFFICES ASSUME ev'[f].pc = "closed"
               PROVE  \E i \in DOMAIN ledger : ledger[i] = PauseRow(lc, ev[f].result)'
    BY DEF Rowed
  <2>1. ev[f].pc = "closed" /\ ev'[f].result = ev[f].result
    OBVIOUS
  <2>2. PauseRow(lc, ev[f].result)' = PauseRow(lc, ev[f].result)
    BY <2>1 DEF PauseRow, PausedAway
  <2> QED
    BY <2>1, <2>2 DEF EpisodesInv, Rowed
<1> QED
  BY <1>1, <1>2 DEF EpisodesInv, Accounted

\* An evaluation under the lock writes the lifecycles l.
LEMMA SaveEpisodes ==
  ASSUME IInv, EpisodesInv, NEW e \in Evaluators, Holding \subseteq {e}, NEW l, NEW v \in Evaluator,
         Save(e, l, v), v.pc # "closed", v.result \in {ev[e].result, NoResult},
         rule = "A7" => ~(l["page"].announced /\ l["notice"].announced),
         UNCHANGED <<rule, world, ledger>>
  PROVE  EpisodesInv' /\ PausedOnce'
<1>1. ev \in [Evaluators -> Evaluator]
  BY Types DEF IInv
<1>2. /\ ev'[e] = v /\ lc' = l
      /\ \A f \in Evaluators \ {e} : ev'[f].pc = ev[f].pc
  BY <1>1, SaveFrame
<1>3. \A f \in Evaluators \ {e} : ev'[f].result = ev[f].result
  <2> SUFFICES ASSUME NEW f \in Evaluators \ {e} PROVE ev'[f].result = ev[f].result
    OBVIOUS
  <2>1. PICK n : ev'[f] = [ev[f] EXCEPT !.seq = n]
    BY DEF Save, Outdated
  <2>2. ev[f] \in Evaluator
    BY <1>1
  <2> QED
    BY <2>1, <2>2 DEF Evaluator
<1>4. OneAnnounced' /\ PausedOnce'
  BY <1>2 DEF EpisodesInv, OneAnnounced, PausedOnce
<1>5. Evidenced'
  BY <1>2, <1>3 DEF EpisodesInv, Evidenced, NoResult
<1>6. \A f \in Evaluators : ev'[f].pc # "closed"
  BY <1>2 DEF Holding
<1> QED
  BY <1>4, <1>5, <1>6 DEF EpisodesInv, Rowed

\* Every evaluation's last write, and its first when it prepares a message.
LEMMA LastEpisodes ==
  ASSUME IInv, EpisodesInv, NEW e \in Evaluators, Holding \subseteq {e}, NEW l, Save(e, l, Idle),
         rule = "A7" => ~(l["page"].announced /\ l["notice"].announced),
         UNCHANGED <<rule, world, ledger>>
  PROVE  EpisodesInv' /\ PausedOnce'
<1>1. Idle \in Evaluator /\ Idle.pc # "closed" /\ Idle.result = NoResult
  BY Constants DEF Idle
<1> QED
  BY <1>1, SaveEpisodes

LEMMA FirstEpisodes ==
  ASSUME IInv, IInv', EpisodesInv, NEW e \in Evaluators, Holding \subseteq {e},
         NEW l \in [Severities -> Lifecycle], NEW s \in Severities, NEW type, Prepare(e, l, s, type),
         rule = "A7" => ~(l["page"].announced /\ l["notice"].announced),
         UNCHANGED <<rule, world, ledger>>
  PROVE  /\ EpisodesInv' /\ PausedOnce'
         /\ lc' \in [Severities -> Lifecycle]
         /\ \A t \in Severities : /\ lc'[t].since = l[t].since /\ lc'[t].firing = l[t].firing
                                  /\ lc'[t].sources = l[t].sources
<1> DEFINE p == Prepared(l, s, type)
           msg == Notification(p[s], s)
           v == [ev[e] EXCEPT !.pc = "prepared", !.seq = 0, !.of = s, !.msg = msg]
<1>1. Save(e, p, v) /\ ev[e] \in Evaluator
  BY Types DEF Prepare, IInv
<1>2. \A t \in Severities : /\ p[t].since = l[t].since /\ p[t].firing = l[t].firing
                            /\ p[t].sources = l[t].sources /\ p[t].announced = l[t].announced
  BY PreparedEpisode
<1>3. rule = "A7" => ~(p["page"].announced /\ p["notice"].announced)
  BY <1>2 DEF Severities
<1> HIDE DEF p, msg
<1>4. v.pc # "closed" /\ v.result = ev[e].result
  BY <1>1 DEF Evaluator
<1> HIDE DEF v
<1>5. lc' = p /\ ev'[e] = v
  BY <1>1, Types DEF Save, Outdated, IInv
<1>6. lc' \in [Severities -> Lifecycle] /\ v \in Evaluator
  BY <1>5 DEF IInv, TypeOK
<1>7. EpisodesInv' /\ PausedOnce'
  BY <1>1, <1>3, <1>4, <1>6, SaveEpisodes
<1> QED
  BY <1>2, <1>5, <1>6, <1>7

LEMMA BaseAnnounced ==
  ASSUME IInv, EpisodesInv, NEW e \in Evaluators
  PROVE  rule = "A7" => ~(Base(e)["page"].announced /\ Base(e)["notice"].announced)
<1>1. \A s \in Severities : Base(e)[s] = lc[s] \/ Base(e)[s] = Ok(lc[s])
  BY BaseEpisode
<1>2. \A x : Ok(x).announced = FALSE
  BY DEF Ok, Fresh
<1>3. \A s \in Severities : Base(e)[s].announced => lc[s].announced
  BY <1>1, <1>2
<1> QED
  BY <1>3 DEF EpisodesInv, OneAnnounced, Severities

LEMMA OpenedAnnounced ==
  ASSUME IInv, EpisodesInv, NEW e \in Evaluators
  PROVE  LET o == Opened(Base(e), ev[e].result, ev[e].at)
         IN  rule = "A7" => ~(o["page"].announced /\ o["notice"].announced)
<1>1. Sound(Base(e)) /\ ev[e].result \in Result
  BY BaseSound, Types DEF IInv
<1>2. \A s \in Severities :
        Opened(Base(e), ev[e].result, ev[e].at)[s].announced => Base(e)[s].announced
  BY <1>1, OpenedEpisode
<1> QED
  BY <1>2, BaseAnnounced DEF Severities

\* What an evaluation starts from, when it fires.
LEMMA OpenedSound ==
  ASSUME IInv, NEW e \in Evaluators, ev[e].pc # "idle"
  PROVE  /\ Opened(Base(e), ev[e].result, ev[e].at) \in [Severities -> Lifecycle]
         /\ ev[e].result.sev \in Severities
<1>1. Recorded /\ rule \in Rules /\ ev[e].result \in Result /\ ev[e].at \in Nat
  BY Types DEF IInv
<1>2. ev[e].at >= Epoch
  BY DEF IInv, Timed
<1>3. Sound(Opened(Base(e), ev[e].result, ev[e].at))
  BY <1>1, <1>2, BaseSound, OpenedKeeps
<1> QED
  BY <1>1, <1>3 DEF Sound, Result

LEMMA AnnounceEpisodes ==
  ASSUME IInv, EpisodesInv, NEW e \in Evaluators, Announce(e)
  PROVE  EpisodesInv' /\ PausedOnce' /\ Accounted
<1> DEFINE o == Opened(Base(e), ev[e].result, ev[e].at)
<1>1. Holding \subseteq {e} /\ ev[e].pc # "idle" /\ IInv'
  BY Alone, AnnounceStep DEF Announce, Fires
<1>2. /\ Prepare(e, o, ev[e].result.sev, "firing")
      /\ UNCHANGED <<rule, world, ledger>>
  BY DEF Announce
<1>3. o \in [Severities -> Lifecycle] /\ ev[e].result.sev \in Severities
  BY <1>1, OpenedSound
<1>4. rule = "A7" => ~(o["page"].announced /\ o["notice"].announced)
  BY OpenedAnnounced
<1>5. /\ EpisodesInv' /\ PausedOnce' /\ lc' \in [Severities -> Lifecycle]
      /\ \A t \in Severities : /\ lc'[t].since = o[t].since /\ lc'[t].firing = o[t].firing
                               /\ lc'[t].sources = o[t].sources
  <2> HIDE DEF o
  <2> QED
    BY <1>1, <1>2, <1>3, <1>4, FirstEpisodes
<1> QED
  BY <1>3, <1>5, FiringAccounted

LEMMA KeepFiringEpisodes ==
  ASSUME IInv, EpisodesInv, NEW e \in Evaluators, KeepFiring(e)
  PROVE  EpisodesInv' /\ PausedOnce' /\ Accounted
<1> DEFINE s == ev[e].result.sev
           o == Opened(Base(e), ev[e].result, ev[e].at)
           l == Settled(o, s, FALSE)
<1>1. Holding \subseteq {e} /\ ev[e].pc # "idle" /\ IInv'
  BY Alone, KeepFiringStep DEF KeepFiring, Fires
<1>2. Save(e, l, Idle) /\ UNCHANGED <<rule, world, ledger>>
  BY DEF KeepFiring
<1>3. o \in [Severities -> Lifecycle] /\ s \in Severities
  BY <1>1, OpenedSound
<1>4. rule = "A7" => ~(o["page"].announced /\ o["notice"].announced)
  BY OpenedAnnounced
<1> HIDE DEF o, s
<1>5. /\ l[s].since = o[s].since /\ l[s].firing = o[s].firing /\ l[s].sources = o[s].sources
      /\ l[s].announced = o[s].announced
      /\ \A t \in Severities \ {s} : /\ l[t].since = o[t].since \/ l[s].announced
                                     /\ l[t].announced => o[t].announced
  <2>1. o[s].announced \in BOOLEAN
    BY <1>3 DEF Lifecycle
  <2> QED
    BY <1>3, <2>1, SettledEpisode
<1> HIDE DEF l
<1>6. rule = "A7" => ~(l["page"].announced /\ l["notice"].announced)
  BY <1>3, <1>4, <1>5 DEF Severities
<1>7. EpisodesInv' /\ PausedOnce'
  BY <1>1, <1>2, <1>6, LastEpisodes
<1>8. lc' = l /\ lc' \in [Severities -> Lifecycle]
  BY <1>1, <1>2 DEF Save, IInv, TypeOK
<1>9. /\ lc'[s].since = o[s].since /\ lc'[s].firing = o[s].firing /\ lc'[s].sources = o[s].sources
      /\ \A t \in Severities \ {s} : lc'[t].since = o[t].since \/ lc'[s].announced
  BY <1>5, <1>8
<1> USE DEF o, s
<1>10. Accounted
  BY <1>8, <1>9, FiringAccounted
<1> QED
  BY <1>7, <1>10

\* The row is written once, before the state.
LEMMA ClosePausedEpisodes ==
  ASSUME IInv, EpisodesInv, NEW e \in Evaluators, ClosePaused(e)
  PROVE  EpisodesInv' /\ PausedOnce' /\ Accounted
<1> DEFINE row == PauseRow(lc, ev[e].result)
<1>1. /\ Holding \subseteq {e} /\ ev[e].pc = "observed" /\ UNCHANGED <<rule, world, lc>>
      /\ ev \in [Evaluators -> Evaluator] /\ ev[e] \in Evaluator
      /\ ledger \in Seq([since: Nat, sources: SUBSET Sources])
  BY Alone, Types DEF ClosePaused, Proceeds, IInv, TypeOK
<1>2. CASE ledger' = ledger /\ ev' = [ev EXCEPT ![e] = Idle]
  <2>1. /\ ev'[e].pc = "idle" /\ ev'[e].result.state = "healthy"
        /\ \A f \in Evaluators \ {e} : ev'[f] = ev[f]
    BY <1>1, <1>2 DEF Idle, NoResult
  <2>2. Evidenced'
    BY <1>1, <2>1 DEF EpisodesInv, Evidenced
  <2> QED
    BY <1>1, <1>2, <2>1, <2>2, IdleEpisodes
<1>3. CASE /\ ledger' = IF \E i \in DOMAIN ledger : ledger[i] = row THEN ledger ELSE Append(ledger, row)
           /\ ev' = [ev EXCEPT ![e].pc = "closed"]
  <2>1. /\ ev'[e].pc = "closed" /\ ev'[e].result = ev[e].result
        /\ \A f \in Evaluators \ {e} : ev'[f] = ev[f]
    BY <1>1, <1>3 DEF Evaluator
  <2>2. OneAnnounced' /\ Evidenced'
    BY <1>1, <2>1 DEF EpisodesInv, OneAnnounced, Evidenced
  <2>3. PausedOnce' /\ \E i \in DOMAIN ledger' : ledger'[i] = row
    <3>1. CASE \E i \in DOMAIN ledger : ledger[i] = row
      BY <1>3, <3>1 DEF EpisodesInv, PausedOnce
    <3>2. CASE ~\E i \in DOMAIN ledger : ledger[i] = row
      <4> HIDE DEF row
      <4>1. ledger' = Append(ledger, row)
        BY <1>3, <3>2
      <4>2. /\ DOMAIN ledger = 1 .. Len(ledger) /\ DOMAIN ledger' = 1 .. Len(ledger) + 1
            /\ ledger'[Len(ledger) + 1] = row /\ Len(ledger) \in Nat
            /\ \A i \in 1 .. Len(ledger) : ledger'[i] = ledger[i]
        BY <1>1, <4>1
      <4>3. \A i, j \in DOMAIN ledger' : ledger'[i] = ledger'[j] => i = j
        BY <3>2, <4>2 DEF EpisodesInv, PausedOnce
      <4> QED
        BY <4>2, <4>3 DEF PausedOnce
    <3> QED
      BY <3>1, <3>2
  <2>4. PauseRow(lc, ev[e].result)' = row
    BY <1>1, <2>1 DEF PauseRow, PausedAway
  <2>5. \A f \in Evaluators \ {e} : ev'[f].pc # "closed"
    BY <1>1, <2>1 DEF Holding
  <2>6. \A f \in Evaluators : Rowed(f)'
    BY <2>3, <2>4, <2>5 DEF Rowed
  <2>7. Accounted
    BY <1>1 DEF Accounted
  <2> QED
    BY <2>2, <2>3, <2>6, <2>7 DEF EpisodesInv
<1> QED
  BY <1>2, <1>3 DEF ClosePaused

LEMMA RecordPausedEpisodes ==
  ASSUME IInv, EpisodesInv, NEW e \in Evaluators, RecordPaused(e)
  PROVE  EpisodesInv' /\ PausedOnce' /\ Accounted
<1> DEFINE l == Unpaused(lc, ev[e].result)
<1>1. /\ Holding \subseteq {e} /\ ev[e].pc = "closed"
      /\ Save(e, l, Idle) /\ UNCHANGED <<rule, world, ledger>>
  BY Alone DEF RecordPaused
<1>2. \A s \in Severities : l[s] = lc[s] \/ (RowOf(s) /\ l[s] = Ok(lc[s]))
  BY <1>1, UnpausedEpisode
<1> HIDE DEF l
<1>3. rule = "A7" => ~(l["page"].announced /\ l["notice"].announced)
  <2>1. \A s \in Severities : l[s].announced => lc[s].announced
    BY <1>2 DEF Ok, Fresh
  <2> QED
    BY <2>1 DEF EpisodesInv, OneAnnounced, Severities
<1>4. lc' = l
  BY <1>1 DEF Save
<1>5. Accounted
  BY <1>2, <1>4 DEF Accounted, RowOf
<1> QED
  BY <1>1, <1>3, <1>5, LastEpisodes

LEMMA StayQuietEpisodes ==
  ASSUME IInv, EpisodesInv, NEW e \in Evaluators, StayQuiet(e)
  PROVE  EpisodesInv' /\ PausedOnce' /\ Accounted
<1> DEFINE l == [s \in Severities |-> Quieted(lc[s], ev[e].result)]
<1>1. Holding \subseteq {e} /\ Save(e, l, Idle) /\ UNCHANGED <<rule, world, ledger>>
  BY Alone DEF StayQuiet, Quiet
<1>2. \A s \in Severities : /\ lc[s].announced => l[s].since = lc[s].since
                            /\ l[s].announced => lc[s].announced
  BY QuietedEpisode DEF IInv, Sound
<1> HIDE DEF l
<1>3. rule = "A7" => ~(l["page"].announced /\ l["notice"].announced)
  BY <1>2 DEF EpisodesInv, OneAnnounced, Severities
<1>4. Accounted
  BY <1>1, <1>2 DEF Accounted, Save
<1> QED
  BY <1>1, <1>3, <1>4, LastEpisodes

\* Preparing the recovery leaves the announced episodes as they are.
LEMMA RecoverEpisodes ==
  ASSUME IInv, EpisodesInv, NEW e \in Evaluators, Recover(e)
  PROVE  EpisodesInv' /\ PausedOnce' /\ Accounted
<1> DEFINE r == ev[e].result
           quieted == [lc EXCEPT !["page"] = Quieted(@, r)]
<1>1. /\ Holding \subseteq {e} /\ UNCHANGED <<rule, world, ledger>> /\ IInv'
      /\ lc \in [Severities -> Lifecycle] /\ "page" \in Severities /\ "notice" \in Severities
  BY Alone, RecoverStep DEF Recover, Quiet, IInv, TypeOK, Severities
<1>2. Quieted(lc["page"], r) \in Lifecycle
  BY <1>1, QuietedKeeps, Types DEF IInv, Sound, SoundEntry
<1>3. PICK l \in {lc, quieted}, s \in Severities : Prepare(e, l, s, "resolved")
  BY <1>1 DEF Recover
<1>4. /\ l \in [Severities -> Lifecycle]
      /\ \A t \in Severities : /\ lc[t].announced => l[t].since = lc[t].since
                               /\ l[t].announced => lc[t].announced
  <2>1. /\ Quieted(lc["page"], r).announced => lc["page"].announced
        /\ lc["page"].announced => Quieted(lc["page"], r).since = lc["page"].since
    BY <1>1, QuietedEpisode
  <2>2. /\ quieted \in [Severities -> Lifecycle]
        /\ \A t \in Severities : quieted[t] = IF t = "page" THEN Quieted(lc["page"], r) ELSE lc[t]
    BY <1>1, <1>2
  <2> HIDE DEF quieted
  <2> QED
    BY <1>1, <1>3, <2>1, <2>2
<1>5. rule = "A7" => ~(l["page"].announced /\ l["notice"].announced)
  BY <1>1, <1>4 DEF EpisodesInv, OneAnnounced
<1>6. /\ EpisodesInv' /\ PausedOnce'
      /\ \A t \in Severities : lc'[t].since = l[t].since
  BY <1>1, <1>3, <1>4, <1>5, FirstEpisodes
<1>7. Accounted
  BY <1>4, <1>6 DEF Accounted
<1> QED
  BY <1>6, <1>7

\* A delivered recovery closes what it was about, and all that was under way.
LEMMA FinishEpisodes ==
  ASSUME IInv, EpisodesInv, NEW e \in Evaluators, Finish(e)
  PROVE  EpisodesInv' /\ PausedOnce' /\ Accounted
<1> DEFINE s == ev[e].of
           d == ev[e].delivered
<1>1. /\ Holding \subseteq {e} /\ ev[e].pc = "sent"
      /\ UNCHANGED <<rule, world, ledger, heard>>
      /\ lc \in [Severities -> Lifecycle] /\ s \in Severities /\ d \in BOOLEAN
  BY Alone, Types, EvaluatorFields DEF Finish, IInv, TypeOK
<1>2. /\ ev[e].msg = Notification(lc[s], s)
      /\ ev[e].msg.type = "resolved" => lc[s].announced
      /\ d => ev[e].msg \in heard
  BY <1>1 DEF IInv, InFlight
<1>3. rule = "A7" => ~(lc["page"].announced /\ lc["notice"].announced)
  BY DEF EpisodesInv, OneAnnounced
<1>4. ASSUME NEW l, Save(e, l, Idle), rule = "A7" => ~(l["page"].announced /\ l["notice"].announced)
      PROVE  EpisodesInv' /\ PausedOnce' /\ lc' = l
  BY <1>1, <1>4, LastEpisodes DEF Save
<1>5. CASE ev[e].msg.type = "resolved" /\ d
  <2>1. Save(e, Closed(lc), Idle)
    BY <1>5 DEF Finish
  <2>2. \A t \in Severities : Closed(lc)[t].announced => lc[t].announced
    BY DEF Closed, Ok, Fresh
  <2>3. EpisodesInv' /\ PausedOnce'
    BY <1>3, <1>4, <2>1, <2>2 DEF Severities
  <2>4. Accounted
    <3>1. /\ ev[e].msg \in heard' /\ ev[e].msg.type = "resolved" /\ lc[s].announced
          /\ ev[e].msg.since = lc[s].since
      BY <1>1, <1>2, <1>5 DEF Notification
    <3> QED
      BY <1>1, <3>1 DEF Accounted
  <2> QED
    BY <2>3, <2>4
<1>6. CASE ev[e].msg.type = "resolved" /\ ~d
  <2>1. Save(e, lc, Idle)
    BY <1>6 DEF Finish
  <2> QED
    BY <1>3, <1>4, <2>1 DEF Accounted
<1>7. CASE ev[e].msg.type # "resolved" /\ ev[e].result.state = "in_progress"
  <2>1. PICK pending :
          Save(e, [lc EXCEPT ![s] = [lc[s] EXCEPT !.announced = d, !.pending = pending]], Idle)
    BY <1>7, Zenon DEF Finish
  <2> DEFINE l == [lc EXCEPT ![s] = [lc[s] EXCEPT !.announced = d, !.pending = pending]]
  <2>2. rule # "A7"
    BY <1>7 DEF EpisodesInv, Evidenced
  <2>3. \A t \in Severities : l[t].since = lc[t].since
    BY <1>1 DEF Lifecycle
  <2> HIDE DEF l
  <2>4. EpisodesInv' /\ PausedOnce' /\ lc' = l
    BY <1>4, <2>1, <2>2 DEF l
  <2> QED
    BY <2>3, <2>4 DEF Accounted
<1>8. CASE ev[e].msg.type # "resolved" /\ ev[e].result.state # "in_progress"
  <2> DEFINE l == Settled(lc, s, d)
  <2>1. Save(e, l, Idle)
    BY <1>8 DEF Finish
  <2>2. /\ l[s].since = lc[s].since
        /\ \A t \in Severities \ {s} :
             /\ l[t].since = lc[t].since \/ l[s].announced
             /\ l[t].announced => lc[t].announced /\ ~l[s].announced
    BY <1>1, SettledEpisode
  <2> HIDE DEF l, s
  <2>3. rule = "A7" => ~(l["page"].announced /\ l["notice"].announced)
    BY <1>1, <2>2 DEF Severities
  <2>4. EpisodesInv' /\ PausedOnce' /\ lc' = l
    BY <1>4, <2>1, <2>3
  <2>5. \A t \in Severities \ {s} : s = Other(t)
    BY <1>1 DEF Other, Severities
  <2>6. Accounted
    BY <2>2, <2>4, <2>5 DEF Accounted
  <2> QED
    BY <2>4, <2>6
<1> QED
  BY <1>5, <1>6, <1>7, <1>8

LEMMA EpisodesInit == ASSUME Init PROVE EpisodesInv
<1>1. /\ ev = [e \in Evaluators |-> Idle] /\ ledger = <<>> /\ world \in Observable(rule)
      /\ ~lc["notice"].announced
  BY DEF Init, Severities, Fresh
<1>2. Evidenced
  BY <1>1 DEF Evidenced, Observable, Idle, NoResult
<1>3. OneAnnounced
  BY <1>1 DEF OneAnnounced
<1>4. PausedOnce
  BY <1>1 DEF PausedOnce
<1>5. \A e \in Evaluators : Rowed(e)
  BY <1>1 DEF Rowed, Idle
<1> QED
  BY <1>2, <1>3, <1>4, <1>5 DEF EpisodesInv

LEMMA StepEpisodes ==
  ASSUME IInv, EpisodesInv, NEW e \in Evaluators, Step(e)
  PROVE  EpisodesInv' /\ PausedOnce' /\ Accounted
<1>1. ev \in [Evaluators -> Evaluator] /\ ev[e] \in Evaluator /\ Idle.result.state = "healthy"
  BY Types DEF IInv, Idle, NoResult
<1>2. CASE Skip(e)
  <2>1. /\ UNCHANGED <<rule, world, lc, ledger>> /\ ev'[e] = Idle
        /\ \A f \in Evaluators \ {e} : ev'[f] = ev[f]
    BY <1>1, <1>2 DEF Skip
  <2>2. Evidenced' /\ ev'[e].pc # "closed"
    BY <1>1, <2>1, Constants DEF EpisodesInv, Evidenced
  <2> QED
    BY <2>1, <2>2, IdleEpisodes
<1>3. CASE Retry(e) \/ Accepted(e) \/ Refused(e) \/ AnswerLost(e)
  <2>1. /\ UNCHANGED <<rule, world, lc, ledger>>
        /\ \A f \in Evaluators \ {e} : ev'[f] = ev[f]
    BY <1>1, <1>3 DEF Retry, Accepted, Refused, AnswerLost, Hand
  <2>2. ev'[e].pc # "closed" /\ ev'[e].result = ev[e].result
    <3>1. CASE Retry(e)
      BY <1>1, <3>1 DEF Retry, Evaluator
    <3>2. CASE Accepted(e) \/ Refused(e) \/ AnswerLost(e)
      BY <1>1, <3>2 DEF Accepted, Refused, AnswerLost, Hand, Evaluator
    <3> QED
      BY <1>3, <3>1, <3>2
  <2>3. Evidenced'
    BY <2>1, <2>2 DEF EpisodesInv, Evidenced
  <2> QED
    BY <2>1, <2>2, <2>3, IdleEpisodes
<1>4. CASE Defer(e)
  <2>1. Holding \subseteq {e} /\ Save(e, lc, Idle) /\ UNCHANGED <<rule, world, ledger>>
    BY <1>4, Alone DEF Defer
  <2>2. rule = "A7" => ~(lc["page"].announced /\ lc["notice"].announced)
    BY DEF EpisodesInv, OneAnnounced
  <2> QED
    BY <2>1, <2>2, LastEpisodes DEF Save, Accounted
<1> QED
  BY <1>2, <1>3, <1>4, ClosePausedEpisodes, RecordPausedEpisodes, AnnounceEpisodes,
     KeepFiringEpisodes, RecoverEpisodes, StayQuietEpisodes, FinishEpisodes DEF Step

LEMMA NextEpisodes ==
  ASSUME IInv, EpisodesInv, [Next]_vars
  PROVE  EpisodesInv' /\ PausedOnce' /\ Accounted
<1>1. ev \in [Evaluators -> Evaluator] /\ Idle.result.state = "healthy"
  BY Types DEF IInv, Idle, NoResult
<1>2. CASE UNCHANGED vars \/ Tick
  <2>1. UNCHANGED <<rule, world, lc, ledger, ev>>
    BY <1>2 DEF vars, Tick
  <2>2. Evidenced'
    BY <2>1 DEF EpisodesInv, Evidenced
  <2> QED
    BY <2>1, <2>2, IdleEpisodes
<1>3. CASE Turn
  <2>1. UNCHANGED <<rule, lc, ledger, ev>> /\ world' \in Observable(rule)
    BY <1>3 DEF Turn
  <2>2. Evidenced'
    BY <2>1 DEF EpisodesInv, Evidenced, Observable
  <2> QED
    BY <2>1, <2>2, IdleEpisodes
<1>4. ASSUME NEW e \in Evaluators, Abandon(e) \/ Crash(e)
      PROVE  EpisodesInv' /\ PausedOnce' /\ Accounted
  <2>1. ev' = Withdrawn(e) /\ UNCHANGED <<rule, world, lc, ledger>>
    BY <1>4 DEF Abandon, Crash
  <2>2. /\ ev'[e] = Idle
        /\ \A f \in Evaluators \ {e} : ev'[f].pc = ev[f].pc /\ ev'[f].result = ev[f].result
    BY <1>1, <2>1, WithdrawnKeeps
  <2>3. Evidenced' /\ ev'[e].pc # "closed"
    BY <1>1, <2>1, <2>2, Constants DEF EpisodesInv, Evidenced
  <2> QED
    BY <2>1, <2>2, <2>3, IdleEpisodes
<1>5. ASSUME NEW e \in Evaluators, Observe(e)
      PROVE  EpisodesInv' /\ PausedOnce' /\ Accounted
  <2>1. UNCHANGED <<rule, world, lc, ledger>>
    BY <1>5 DEF Observe
  <2>2. PICK n, saw : ev' = [ev EXCEPT ![e] =
          [Idle EXCEPT !.pc = "observed", !.result = world, !.at = clock, !.seq = n, !.saw = saw]]
    BY <1>5 DEF Observe
  <2>3. /\ ev'[e].pc = "observed" /\ ev'[e].result = world
        /\ \A f \in Evaluators \ {e} : ev'[f] = ev[f]
    BY <1>1, <2>2 DEF Idle
  <2>4. Evidenced'
    BY <2>1, <2>3 DEF EpisodesInv, Evidenced
  <2> QED
    BY <2>1, <2>3, <2>4, IdleEpisodes
<1> QED
  BY <1>2, <1>3, <1>4, <1>5, StepEpisodes DEF Next

\* Whatever evaluators overlap, die or lose an answer, an announced episode
\* (_apply_alert_results) ends with a recovery heard, with the
\* other severity announced, with a ledger row of the pause or with an episode
\* of other sources, and a pause leaves one row.
THEOREM EpisodesAccountedFor == Spec => EpisodesEndAccounted
<1>1. Init => EpisodesInv
  BY EpisodesInit
<1>2. IInv /\ EpisodesInv /\ [Next]_vars => EpisodesInv'
  BY NextEpisodes
<1>3. IInv /\ EpisodesInv /\ [Next]_vars => [Accounted /\ PausedOnce']_vars
  BY NextEpisodes
<1> QED
  BY <1>1, <1>2, <1>3, Invariance, PTL DEF Spec, EpisodesEndAccounted
=============================================================================
