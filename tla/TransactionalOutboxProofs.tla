---------------------- MODULE TransactionalOutboxProofs ----------------------
(***************************************************************************)
(* The outbox agrees with its attempts, settles each attempt once and by   *)
(* its holder, and never sends again what may have been delivered, for any *)
(* number of events and workers, any limits and any staleness of `now`.    *)
(***************************************************************************)
EXTENDS TransactionalOutbox, SequenceTheorems, FiniteSetTheorems, TLAPS

(***************************************************************************)
(* The inductive invariant, event by event.                                *)
(***************************************************************************)

\* What the latest attempt is, by the status of the event.
Fits(status, outcome) ==
  \/ status = "dispatching" /\ outcome = "prepared"
  \/ status = "reconciliation_required" /\ outcome = "outcome_unknown"
  \/ status = "reconciling" /\ outcome = "reconciling"
  \/ status \in {"retry_wait", "dead_letter"} /\ outcome \in NotDelivered

Agrees(e) ==
  IF attempts[e] = <<>> THEN events[e].status \in {"absent", "queued"}
  ELSE Fits(events[e].status, Latest(e).status)

\* Earlier attempts are known not to have delivered.
Earlier(e) ==
  \A n \in 1 .. Len(attempts[e]) - 1 : attempts[e][n].status \in NotDelivered

\* Fences only grow, and one is given to one worker for one attempt.
Fenced(e) ==
  /\ \A w \in Workers : held[w].event = e => held[w].fence <= events[e].version
  /\ events[e].status = "absent" => events[e].version = 0
  /\ events[e].status \in Open =>
       /\ Latest(e).fence = events[e].version
       /\ \A w \in Workers :
            held[w].event = e /\ held[w].fence = events[e].version
              => w = Latest(e).worker /\ held[w].attempt = Len(attempts[e])

\* Attempts stay within the limit, and only a retry is put off past the deadline.
Limited(e) ==
  /\ Len(attempts[e]) <= MaxAttempts
  /\ events[e].status = "retry_wait" => Len(attempts[e]) < MaxAttempts
  /\ events[e].status \notin {"absent", "retry_wait"} => Readable(e)

Good(e) == Agrees(e) /\ Earlier(e) /\ Fenced(e) /\ Limited(e)

IInv == TypeOK /\ \A e \in Events : Good(e)

-----------------------------------------------------------------------------
(* Sequences of attempts                                                   *)

LEMMA Appended ==
  ASSUME NEW s \in Seq(Attempt), NEW a \in Attempt
  PROVE  /\ Append(s, a) \in Seq(Attempt) /\ Len(Append(s, a)) = Len(s) + 1
         /\ Append(s, a)[Len(s) + 1] = a /\ Append(s, a) # <<>>
         /\ \A n \in 1 .. Len(s) : Append(s, a)[n] = s[n]
  OBVIOUS

LEMMA Replaced ==
  ASSUME NEW s \in Seq(Attempt), NEW a \in Attempt, NEW n \in 1 .. Len(s)
  PROVE  LET t == [s EXCEPT ![n] = a] IN
         /\ t \in Seq(Attempt) /\ Len(t) = Len(s) /\ t # <<>>
         /\ t[n] = a /\ \A m \in 1 .. Len(s) : m # n => t[m] = s[m]
<1>1. [s EXCEPT ![n] = a] \in Seq(Attempt) /\ Len([s EXCEPT ![n] = a]) = Len(s)
  BY ExceptSeq
<1> QED
  BY <1>1

LEMMA LatestExists ==
  ASSUME TypeOK, NEW e \in Events, attempts[e] # <<>>
  PROVE  /\ Len(attempts[e]) \in Nat \ {0} /\ Len(attempts[e]) \in 1 .. Len(attempts[e])
         /\ Latest(e) \in Attempt
<1>1. attempts[e] \in Seq(Attempt)
  BY DEF TypeOK
<1>2. Len(attempts[e]) \in Nat \ {0}
  BY <1>1
<1> QED
  BY <1>1, <1>2 DEF Latest

LEMMA EventTyped ==
  ASSUME TypeOK, NEW e \in Events
  PROVE  /\ attempts[e] \in Seq(Attempt) /\ Len(attempts[e]) \in Nat
         /\ events[e] \in Event /\ events[e].version \in Nat
         /\ events[e].deadline \in Nat /\ events[e].available \in Nat
  BY DEF TypeOK, Event

-----------------------------------------------------------------------------
(* What a step leaves alone stays good                                     *)

LEMMA Frame ==
  ASSUME NEW e \in Events, Good(e), events'[e] = events[e], attempts'[e] = attempts[e],
         \A w \in Workers : held'[w] = held[w] \/ held'[w].event # e
  PROVE  Good(e)'
  BY DEF Good, Agrees, Earlier, Fenced, Limited, Latest, Readable

\* An open attempt is settled, by its holder or because its lease is over.
LEMMA SettledStaysGood ==
  ASSUME TypeOK, NEW e \in Events, Good(e), attempts[e] # <<>>, Readable(e),
         NEW a \in Attempt, NEW next \in EventStatus \ Open,
         SetAttempt(e, Len(attempts[e]), a), Fits(next, a.status),
         events'[e].version = events[e].version + 1, events'[e].status = next,
         next = "retry_wait" => Len(attempts[e]) < MaxAttempts,
         next # "retry_wait" => events'[e].available = events[e].available,
         events'[e].deadline = events[e].deadline,
         UNCHANGED held
  PROVE  Good(e)'
<1> DEFINE s == attempts[e]
           t == [s EXCEPT ![Len(s)] = a]
<1>1. s \in Seq(Attempt) /\ Len(s) \in 1 .. Len(s) /\ Len(s) \in Nat /\ events[e].version \in Nat
  BY LatestExists, EventTyped
<1>2. attempts'[e] = t
  BY DEF SetAttempt, TypeOK
<1>3. /\ t \in Seq(Attempt) /\ Len(t) = Len(s) /\ t # <<>>
      /\ t[Len(s)] = a /\ \A m \in 1 .. Len(s) : m # Len(s) => t[m] = s[m]
  BY <1>1, Replaced
<1>4. Agrees(e)'
  BY <1>2, <1>3 DEF Agrees, Latest
<1>5. Earlier(e)'
  <2>1. \A m \in 1 .. Len(s) - 1 : t[m] = s[m]
    BY <1>1, <1>3
  <2> QED
    BY <1>1, <1>2, <1>3, <2>1 DEF Good, Earlier
<1>6. Fenced(e)'
  <2>1. held \in [Workers -> Held]
    BY DEF TypeOK
  <2>2. \A w \in Workers : held[w].fence \in Nat
    BY <2>1 DEF Held
  <2>3. next # "absent"
    BY DEF Fits
  <2> QED
    BY <1>1, <2>2, <2>3 DEF Good, Fenced
<1>7. Limited(e)'
  <2>1. next # "absent"
    BY DEF Fits
  <2> QED
    BY <1>1, <1>2, <1>3, <2>1 DEF Good, Limited, Readable
<1> QED
  BY <1>4, <1>5, <1>6, <1>7 DEF Good

\* A worker is given the event, for a new attempt or for the latest one.
LEMMA OpenedStaysGood ==
  ASSUME TypeOK, NEW e \in Events, Good(e), Readable(e), NEW w \in Workers,
         NEW t \in Seq(Attempt), t # <<>>, attempts'[e] = t, Len(t) <= MaxAttempts,
         \A n \in 1 .. Len(t) - 1 : t[n].status \in NotDelivered,
         t[Len(t)].worker = w, t[Len(t)].fence = events[e].version + 1,
         events'[e] = Moved(events[e], events'[e].status),
         events'[e].status \in Open, Fits(events'[e].status, t[Len(t)].status),
         Reply(w, e, Len(t), events[e].version + 1)
  PROVE  Good(e)'
<1>1. /\ events[e] \in Event /\ events[e].version \in Nat
      /\ events'[e].version = events[e].version + 1
      /\ events'[e].available = events[e].available /\ events'[e].deadline = events[e].deadline
  BY EventTyped DEF Moved, Event
<1>2. held \in [Workers -> Held] /\ \A v \in Workers : held[v].fence \in Nat
  BY DEF TypeOK, Held
<1>3. Agrees(e)'
  BY DEF Agrees, Latest
<1>4. Earlier(e)'
  BY DEF Earlier
<1>5. \A v \in Workers :
        \/ held'[v] = held[v]
        \/ v = w /\ held'[v] = [event |-> e, attempt |-> Len(t), fence |-> events[e].version + 1]
  BY <1>2 DEF Reply
<1>6. Fenced(e)'
  <2>1. ASSUME NEW v \in Workers, held'[v].event = e
        PROVE  /\ held'[v].fence <= events[e].version + 1
               /\ held'[v].fence = events[e].version + 1 => v = w /\ held'[v].attempt = Len(t)
    BY <1>1, <1>2, <1>5, <2>1 DEF Good, Fenced
  <2> QED
    BY <1>1, <2>1 DEF Fenced, Latest, Open
<1>7. Limited(e)'
  BY <1>1 DEF Limited, Readable, Open
<1> QED
  BY <1>3, <1>4, <1>6, <1>7 DEF Good

-----------------------------------------------------------------------------
(* Types                                                                   *)

\* A power of two counts the subsets of an interval.
LEMMA BackoffType == ASSUME NEW n \in Nat \ {0} PROVE Backoff(n) \in Nat
<1>1. IsFiniteSet(1 .. (n - 1)) /\ Cardinality(1 .. (n - 1)) = n - 1
  BY FS_Interval
<1>2. 2 ^ (n - 1) \in Nat
  BY <1>1, FS_SUBSET, FS_CardinalityType
<1> QED
  BY <1>2, OutboxAssumption DEF Backoff, Smaller

LEMMA SampledType == ASSUME TypeOK, NEW now \in Sampled PROVE now \in Nat
  BY DEF TypeOK, Sampled

LEMMA MovedType ==
  ASSUME NEW event \in Event, NEW next \in EventStatus
  PROVE  /\ Moved(event, next) \in Event
         /\ Moved(event, next).status = next /\ Moved(event, next).version = event.version + 1
         /\ Moved(event, next).available = event.available
         /\ Moved(event, next).deadline = event.deadline
<1>1. event.version + 1 \in Nat
  BY DEF Event
<1> DEFINE first == [event EXCEPT !.status = next]
<1>2. first \in Event /\ first.version = event.version
  BY DEF Event
<1>3. Moved(event, next) = [first EXCEPT !.version = event.version + 1]
  BY DEF Moved
<1> HIDE DEF first
<1>4. Moved(event, next) \in Event
  BY <1>1, <1>2, <1>3 DEF Event
<1> QED
  BY <1>4 DEF Moved, Event

LEMMA ReplyType ==
  ASSUME TypeOK, NEW w \in Workers, NEW e \in Events, NEW n \in Nat, NEW fence \in Nat,
         Reply(w, e, n, fence)
  PROVE  /\ held' \in [Workers -> Held]
         /\ \A v \in Workers : held'[v] = held[v] \/ held'[v].event = e
<1>1. CASE UNCHANGED held
  BY <1>1 DEF TypeOK
<1>2. CASE held' = [held EXCEPT ![w] = [event |-> e, attempt |-> n, fence |-> fence]]
  <2>1. [event |-> e, attempt |-> n, fence |-> fence] \in Held
    BY DEF Held
  <2> QED
    BY <1>2, <2>1 DEF TypeOK
<1> QED
  BY <1>1, <1>2 DEF Reply

\* The others are not affected by a step about one event that nobody else is given.
LEMMA OneEvent ==
  ASSUME IInv, TypeOK', NEW e \in Events, Good(e)',
         \A f \in Events \ {e} : events'[f] = events[f] /\ attempts'[f] = attempts[f],
         \A w \in Workers : held'[w] = held[w] \/ held'[w].event = e
  PROVE  IInv'
<1>1. ASSUME NEW f \in Events, f # e PROVE Good(f)'
  BY <1>1, Frame DEF IInv
<1> QED
  BY <1>1 DEF IInv

-----------------------------------------------------------------------------
(* The operations                                                          *)

LEMMA InitInv == Init => IInv
<1> SUFFICES ASSUME Init PROVE IInv
  OBVIOUS
<1>1. TypeOK
  BY OutboxAssumption DEF Init, TypeOK, Event, EventStatus, Held
<1>2. ASSUME NEW e \in Events PROVE Good(e)
  <2>1. e # NoEvent
    BY OutboxAssumption
  <2> QED
    BY <2>1, OutboxAssumption DEF Init, Good, Agrees, Earlier, Fenced, Limited, Open
<1> QED
  BY <1>1, <1>2 DEF IInv

LEMMA EnqueueInv == ASSUME IInv, NEW e \in Events, Enqueue(e) PROVE IInv'
<1>1. PICK now \in Sampled, life \in Lifetimes :
        /\ events[e].status = "absent"
        /\ events' = [events EXCEPT ![e] = [status |-> "queued", version |-> 1,
                                            available |-> now, deadline |-> now + life]]
        /\ UNCHANGED <<clock, attempts, held>>
  BY DEF Enqueue
<1>2. now \in Nat /\ life \in Nat \ {0} /\ TypeOK
  BY SampledType, OutboxAssumption DEF IInv
<1>3. TypeOK'
  BY <1>1, <1>2 DEF TypeOK, Event, EventStatus, Due
<1>4. Good(e)'
  <2>1. Good(e) /\ attempts[e] = <<>>
    BY <1>1 DEF IInv, Good, Agrees, Fits
  <2>2. \A w \in Workers : held[w].fence \in Nat
    BY <1>2 DEF TypeOK, Held
  <2> QED
    BY <1>1, <1>2, <2>1, <2>2 DEF Good, Agrees, Earlier, Fenced, Limited, Latest, Readable, Open, TypeOK
<1> QED
  BY <1>1, <1>3, <1>4, OneEvent DEF IInv, TypeOK

LEMMA PrepareInv ==
  ASSUME IInv, NEW e \in Events, NEW w \in Workers, Prepare(e, w) PROVE IInv'
<1> DEFINE n == Len(attempts[e]) + 1
           fence == events[e].version + 1
<1>1. PICK now \in Sampled :
        /\ Readable(e) /\ events[e].status \in Due /\ n <= MaxAttempts
        /\ attempts' = [attempts EXCEPT ![e] =
             Append(@, [status |-> "prepared", worker |-> w, fence |-> fence,
                        lease |-> Smaller(now + LeaseTime, events[e].deadline)])]
        /\ events' = [events EXCEPT ![e] = Moved(@, "dispatching")]
        /\ Reply(w, e, n, fence)
        /\ UNCHANGED clock
  BY DEF Prepare
<1> DEFINE a == [status |-> "prepared", worker |-> w, fence |-> fence,
                 lease |-> Smaller(now + LeaseTime, events[e].deadline)]
           t == Append(attempts[e], a)
<1>2. now \in Nat /\ TypeOK /\ Good(e)
  BY SampledType DEF IInv
<1>3. a \in Attempt /\ fence \in Nat /\ n \in Nat
  BY <1>2, EventTyped, OutboxAssumption DEF Attempt, AttemptStatus, Smaller
<1>4. /\ t \in Seq(Attempt) /\ Len(t) = n /\ t[n] = a /\ t # <<>>
      /\ \A m \in 1 .. Len(attempts[e]) : t[m] = attempts[e][m]
  BY <1>2, <1>3, EventTyped, Appended
<1>5. attempts'[e] = t /\ events'[e] = Moved(events[e], "dispatching")
  BY <1>1, <1>2 DEF TypeOK
<1>6. TypeOK'
  <2>1. Moved(events[e], "dispatching") \in Event
    BY <1>2, EventTyped, MovedType DEF EventStatus, Open
  <2>2. held' \in [Workers -> Held]
    BY <1>1, <1>2, <1>3, ReplyType
  <2> QED
    BY <1>1, <1>2, <1>4, <2>1, <2>2 DEF TypeOK
<1>7. events'[e].status = "dispatching"
  BY <1>2, <1>5, EventTyped DEF Moved, Event
<1>8. \A m \in 1 .. Len(t) - 1 : t[m].status \in NotDelivered
  <2>1. attempts[e] # <<>> => Latest(e).status \in NotDelivered
    BY <1>1, <1>2 DEF Good, Agrees, Fits, Due
  <2> QED
    BY <1>2, <1>4, <2>1, LatestExists, EventTyped DEF Good, Earlier, Latest
<1>9. Good(e)'
  <2>1. t[Len(t)] = a /\ a.worker = w /\ a.fence = events[e].version + 1
    BY <1>4
  <2>2. events'[e].status \in Open /\ Fits(events'[e].status, t[Len(t)].status)
    BY <1>7, <2>1 DEF Fits, Open
  <2>3. events'[e] = Moved(events[e], events'[e].status)
    BY <1>5, <1>7
  <2>4. Reply(w, e, Len(t), events[e].version + 1) /\ Readable(e) /\ Len(t) <= MaxAttempts
    BY <1>1, <1>4
  <2> QED
    BY <1>2, <1>4, <1>5, <1>8, <2>1, <2>2, <2>3, <2>4, OpenedStaysGood
<1> QED
  <2>1. \A v \in Workers : held'[v] = held[v] \/ held'[v].event = e
    BY <1>1, <1>2, <1>3, ReplyType
  <2> QED
    BY <1>1, <1>2, <1>6, <1>9, <2>1, OneEvent DEF TypeOK

LEMMA ClaimReconciliationInv ==
  ASSUME IInv, NEW e \in Events, NEW w \in Workers, ClaimReconciliation(e, w) PROVE IInv'
<1> DEFINE n == Len(attempts[e])
           fence == events[e].version + 1
<1>1. PICK now \in Sampled :
        /\ Readable(e) /\ events[e].status = "reconciliation_required" /\ n > 0
        /\ SetAttempt(e, n, [status |-> "reconciling", worker |-> w, fence |-> fence,
                             lease |-> now + ReconcileLease])
        /\ events' = [events EXCEPT ![e] = Moved(@, "reconciling")]
        /\ Reply(w, e, n, fence)
        /\ UNCHANGED clock
  BY DEF ClaimReconciliation
<1> DEFINE a == [status |-> "reconciling", worker |-> w, fence |-> fence,
                 lease |-> now + ReconcileLease]
           t == [attempts[e] EXCEPT ![n] = a]
<1>2. now \in Nat /\ TypeOK /\ Good(e)
  BY SampledType DEF IInv
<1>3. a \in Attempt /\ fence \in Nat /\ n \in 1 .. Len(attempts[e]) /\ n \in Nat
  BY <1>1, <1>2, EventTyped, OutboxAssumption DEF Attempt, AttemptStatus
<1>4. /\ t \in Seq(Attempt) /\ Len(t) = n /\ t[n] = a /\ t # <<>>
      /\ \A m \in 1 .. Len(attempts[e]) : m # n => t[m] = attempts[e][m]
  BY <1>2, <1>3, EventTyped, Replaced
<1>5. /\ attempts' = [attempts EXCEPT ![e] = t] /\ attempts'[e] = t
      /\ events'[e] = Moved(events[e], "reconciling")
  BY <1>1, <1>2 DEF TypeOK, SetAttempt
<1>6. TypeOK'
  <2>1. Moved(events[e], "reconciling") \in Event
    BY <1>2, EventTyped, MovedType DEF EventStatus, Open
  <2>2. held' \in [Workers -> Held]
    BY <1>1, <1>2, <1>3, ReplyType
  <2> QED
    BY <1>1, <1>2, <1>4, <1>5, <2>1, <2>2 DEF TypeOK
<1>7. events'[e].status = "reconciling"
  BY <1>2, <1>5, EventTyped DEF Moved, Event
<1>8. \A m \in 1 .. Len(t) - 1 : t[m].status \in NotDelivered
  BY <1>2, <1>3, <1>4 DEF Good, Earlier
<1>9. Len(t) <= MaxAttempts
  BY <1>2, <1>4 DEF Good, Limited
<1>10. Good(e)'
  <2>1. t[Len(t)] = a /\ a.worker = w /\ a.fence = events[e].version + 1
    BY <1>4
  <2>2. events'[e].status \in Open /\ Fits(events'[e].status, t[Len(t)].status)
    BY <1>7, <2>1 DEF Fits, Open
  <2>3. events'[e] = Moved(events[e], events'[e].status)
    BY <1>5, <1>7
  <2>4. Reply(w, e, Len(t), events[e].version + 1) /\ Readable(e) /\ Len(t) <= MaxAttempts
    BY <1>1, <1>4, <1>9
  <2> QED
    BY <1>2, <1>4, <1>5, <1>8, <2>1, <2>2, <2>3, <2>4, OpenedStaysGood
<1> QED
  <2>1. \A v \in Workers : held'[v] = held[v] \/ held'[v].event = e
    BY <1>1, <1>2, <1>3, ReplyType
  <2> QED
    BY <1>1, <1>2, <1>5, <1>6, <1>10, <2>1, OneEvent DEF TypeOK

\* What settling an attempt does to types and invariant.
LEMMA SettleInv ==
  ASSUME IInv, NEW e \in Events, attempts[e] # <<>>, Readable(e),
         NEW outcome \in AttemptStatus, NEW next \in EventStatus \ Open, Fits(next, outcome),
         NEW event \in Event,
         SetAttempt(e, Len(attempts[e]), Settled(Latest(e), outcome)),
         events' = [events EXCEPT ![e] = event],
         event.status = next, event.version = events[e].version + 1,
         event.deadline = events[e].deadline,
         next = "retry_wait" => Len(attempts[e]) < MaxAttempts,
         next # "retry_wait" => event.available = events[e].available,
         UNCHANGED <<clock, held>>
  PROVE  IInv'
<1> DEFINE n == Len(attempts[e])
           a == Settled(Latest(e), outcome)
           t == [attempts[e] EXCEPT ![n] = a]
<1>1. TypeOK /\ Good(e)
  BY DEF IInv
<1>2. n \in 1 .. Len(attempts[e]) /\ Latest(e) \in Attempt
  BY <1>1, LatestExists
<1>3. a \in Attempt /\ a.status = outcome
  BY <1>2 DEF Settled, Attempt
<1>4. t \in Seq(Attempt)
  BY <1>1, <1>2, <1>3, EventTyped, Replaced
<1>5. attempts' = [attempts EXCEPT ![e] = t] /\ events'[e] = event
  BY <1>1 DEF SetAttempt, TypeOK
<1>6. TypeOK'
  BY <1>1, <1>4, <1>5 DEF TypeOK
<1>7. Good(e)'
  BY <1>1, <1>3, <1>5, SettledStaysGood
<1> QED
  BY <1>5, <1>6, <1>7, <1>1, OneEvent DEF TypeOK

LEMMA BlockPreparedInv == ASSUME IInv, NEW w \in Workers, BlockPrepared(w) PROVE IInv'
<1> DEFINE e == held[w].event
           n == held[w].attempt
<1>1. PICK now \in Sampled, known \in BOOLEAN :
        LET next == AfterSettling(e, n, now, known) IN
        /\ e # NoEvent /\ Readable(e)
        /\ events[e].version = held[w].fence
        /\ events[e].status = "dispatching"
        /\ attempts[e][n].status = "prepared"
        /\ Controls(w, attempts[e][n])
        /\ SetAttempt(e, n, Settled(attempts[e][n],
             IF known THEN "blocked_disconnected" ELSE "outcome_unknown"))
        /\ events' = [events EXCEPT ![e] =
             IF next = "retry_wait"
               THEN [Moved(@, next) EXCEPT !.available = now + Backoff(n)]
               ELSE Moved(@, next)]
        /\ UNCHANGED <<clock, held>>
  BY DEF BlockPrepared
<1> DEFINE next == AfterSettling(e, n, now, known)
           outcome == IF known THEN "blocked_disconnected" ELSE "outcome_unknown"
           event == IF next = "retry_wait"
                      THEN [Moved(events[e], next) EXCEPT !.available = now + Backoff(n)]
                      ELSE Moved(events[e], next)
<1>2. TypeOK /\ e \in Events /\ now \in Nat
  BY <1>1, SampledType DEF IInv, TypeOK, Held
<1>3. Good(e)
  BY <1>2 DEF IInv
<1>4. attempts[e] # <<>> /\ Latest(e).status = "prepared"
  BY <1>1, <1>3 DEF Good, Agrees, Fits
<1>5. n = Len(attempts[e]) /\ attempts[e][n] = Latest(e)
  BY <1>1, <1>2, <1>3 DEF Good, Fenced, Open, Latest
<1>6. n \in Nat \ {0} /\ n <= MaxAttempts
  BY <1>2, <1>3, <1>4, <1>5, LatestExists DEF Good, Limited
<1>7. /\ next \in EventStatus \ Open
      /\ next = "retry_wait" => n < MaxAttempts
      /\ Fits(next, outcome) /\ outcome \in AttemptStatus
  BY <1>6, OutboxAssumption DEF AfterSettling, Exhausted, Fits, EventStatus, Due, Open, NotDelivered, AttemptStatus
<1>8. /\ Moved(events[e], next) \in Event
      /\ Moved(events[e], next).status = next
      /\ Moved(events[e], next).version = events[e].version + 1
      /\ Moved(events[e], next).available = events[e].available
      /\ Moved(events[e], next).deadline = events[e].deadline
  BY <1>2, <1>7, EventTyped, MovedType
<1>9. /\ event \in Event /\ event.status = next /\ event.version = events[e].version + 1
      /\ event.deadline = events[e].deadline
      /\ next # "retry_wait" => event.available = events[e].available
  <2>1. now + Backoff(n) \in Nat
    BY <1>2, <1>6, BackoffType
  <2> HIDE DEF next
  <2> QED
    BY <1>8, <2>1 DEF Event
<1>10. /\ SetAttempt(e, Len(attempts[e]), Settled(Latest(e), outcome))
       /\ events' = [events EXCEPT ![e] = event]
       /\ UNCHANGED <<clock, held>> /\ Readable(e)
  BY <1>1, <1>4, <1>5
<1> HIDE DEF next, outcome, event, e, n
<1> QED
  BY <1>2, <1>4, <1>5, <1>7, <1>9, <1>10, SettleInv

LEMMA ResolveReconciliationInv ==
  ASSUME IInv, NEW w \in Workers, ResolveReconciliation(w) PROVE IInv'
<1> DEFINE e == held[w].event
           n == Len(attempts[e])
<1>1. PICK now \in Sampled, known \in BOOLEAN :
        LET next == AfterSettling(e, n, now, known) IN
        /\ e # NoEvent /\ Readable(e)
        /\ events[e].status = "reconciling"
        /\ SetAttempt(e, n, Settled(Latest(e),
             IF known THEN "reconciled_not_delivered" ELSE "outcome_unknown"))
        /\ events' = [events EXCEPT ![e] =
             IF next = "retry_wait"
               THEN [Moved(@, next) EXCEPT !.available = now + BackoffBase]
               ELSE Moved(@, next)]
        /\ UNCHANGED <<clock, held>>
  BY DEF ResolveReconciliation
<1> DEFINE next == AfterSettling(e, n, now, known)
           outcome == IF known THEN "reconciled_not_delivered" ELSE "outcome_unknown"
           event == IF next = "retry_wait"
                      THEN [Moved(events[e], next) EXCEPT !.available = now + BackoffBase]
                      ELSE Moved(events[e], next)
<1>2. TypeOK /\ e \in Events /\ now \in Nat
  BY <1>1, SampledType DEF IInv, TypeOK, Held
<1>3. Good(e)
  BY <1>2 DEF IInv
<1>4. attempts[e] # <<>>
  BY <1>1, <1>3 DEF Good, Agrees
<1>6. n \in Nat \ {0} /\ n <= MaxAttempts
  BY <1>2, <1>3, <1>4, LatestExists DEF Good, Limited
<1>7. /\ next \in EventStatus \ Open
      /\ next = "retry_wait" => n < MaxAttempts
      /\ Fits(next, outcome) /\ outcome \in AttemptStatus
  BY <1>6, OutboxAssumption DEF AfterSettling, Exhausted, Fits, EventStatus, Due, Open, NotDelivered, AttemptStatus
<1>8. /\ Moved(events[e], next) \in Event
      /\ Moved(events[e], next).status = next
      /\ Moved(events[e], next).version = events[e].version + 1
      /\ Moved(events[e], next).available = events[e].available
      /\ Moved(events[e], next).deadline = events[e].deadline
  BY <1>2, <1>7, EventTyped, MovedType
<1>9. /\ event \in Event /\ event.status = next /\ event.version = events[e].version + 1
      /\ event.deadline = events[e].deadline
      /\ next # "retry_wait" => event.available = events[e].available
  <2>1. now + BackoffBase \in Nat
    BY <1>2, OutboxAssumption
  <2> HIDE DEF next
  <2> QED
    BY <1>8, <2>1 DEF Event
<1>10. /\ SetAttempt(e, Len(attempts[e]), Settled(Latest(e), outcome))
       /\ events' = [events EXCEPT ![e] = event]
       /\ UNCHANGED <<clock, held>> /\ Readable(e)
  BY <1>1
<1> HIDE DEF next, outcome, event, e
<1> QED
  BY <1>2, <1>4, <1>7, <1>9, <1>10, SettleInv

LEMMA RecoverExpiredInv == ASSUME IInv, NEW e \in Events, RecoverExpired(e) PROVE IInv'
<1>1. /\ Readable(e) /\ events[e].status \in Open
      /\ SetAttempt(e, Len(attempts[e]), Settled(Latest(e), "outcome_unknown"))
      /\ events' = [events EXCEPT ![e] = Moved(@, "reconciliation_required")]
      /\ UNCHANGED <<clock, held>>
  BY DEF RecoverExpired, Recoverable, ExpiredOutcome
<1>2. TypeOK /\ Good(e)
  BY DEF IInv
<1>3. attempts[e] # <<>>
  BY <1>1, <1>2 DEF Good, Agrees, Open
<1>4. /\ Moved(events[e], "reconciliation_required") \in Event
      /\ Moved(events[e], "reconciliation_required").status = "reconciliation_required"
      /\ Moved(events[e], "reconciliation_required").version = events[e].version + 1
      /\ Moved(events[e], "reconciliation_required").available = events[e].available
      /\ Moved(events[e], "reconciliation_required").deadline = events[e].deadline
  BY <1>2, EventTyped, MovedType DEF EventStatus
<1>5. /\ Fits("reconciliation_required", "outcome_unknown") /\ "outcome_unknown" \in AttemptStatus
      /\ "reconciliation_required" \in EventStatus \ Open
  BY DEF Fits, AttemptStatus, EventStatus, Open
<1> QED
  BY <1>1, <1>3, <1>4, <1>5, SettleInv

LEMMA StepInv == IInv /\ [Next]_vars => IInv'
<1> SUFFICES ASSUME IInv, [Next]_vars PROVE IInv'
  OBVIOUS
<1>1. CASE Tick
  <2>1. TypeOK'
    BY <1>1, OutboxAssumption DEF Tick, IInv, TypeOK
  <2>2. UNCHANGED <<events, attempts, held>>
    BY <1>1 DEF Tick
  <2> QED
    BY <2>1, <2>2, Frame DEF IInv
<1>2. CASE UNCHANGED vars
  <2>1. TypeOK'
    BY <1>2 DEF vars, IInv, TypeOK
  <2> QED
    BY <1>2, <2>1, Frame DEF IInv, vars
<1>3. ASSUME NEW e \in Events, Enqueue(e) \/ RecoverExpired(e) PROVE IInv'
  BY <1>3, EnqueueInv, RecoverExpiredInv
<1>4. ASSUME NEW w \in Workers, BlockPrepared(w) \/ ResolveReconciliation(w) PROVE IInv'
  BY <1>4, BlockPreparedInv, ResolveReconciliationInv
<1>5. ASSUME NEW e \in Events, NEW w \in Workers, Prepare(e, w) \/ ClaimReconciliation(e, w)
      PROVE  IInv'
  BY <1>5, PrepareInv, ClaimReconciliationInv
<1> QED
  BY <1>1, <1>2, <1>3, <1>4, <1>5 DEF Next

LEMMA Inductive == Spec => []IInv
  BY InitInv, StepInv, PTL DEF Spec

-----------------------------------------------------------------------------
(* What follows                                                            *)

\* Events, attempts and the callers' memory keep their types (the two tables'
\* status checks and the prepared delivery of transactionalOutbox.ts).
THEOREM TypesHold == Spec => []TypeOK
<1>1. IInv => TypeOK
  BY DEF IInv
<1> QED
  BY <1>1, Inductive, PTL

\* An event says what its latest attempt is waiting for.
THEOREM EventsAgree == Spec => []EventAgreesWithLatestAttempt
<1>1. IInv => EventAgreesWithLatestAttempt
  <2> SUFFICES ASSUME IInv, NEW e \in Events, attempts[e] # <<>>
               PROVE  Latest(e).status \in
                        CASE events[e].status = "dispatching" -> {"prepared"}
                          [] events[e].status = "reconciliation_required" -> {"outcome_unknown"}
                          [] events[e].status = "reconciling" -> {"reconciling"}
                          [] events[e].status \in {"retry_wait", "dead_letter"} -> NotDelivered
                          [] OTHER -> {}
    BY DEF IInv, Good, Agrees, EventAgreesWithLatestAttempt
  <2>1. Fits(events[e].status, Latest(e).status)
    BY DEF IInv, Good, Agrees
  <2> QED
    BY <2>1 DEF Fits
<1> QED
  BY <1>1, Inductive, PTL

LEMMA KnownWhenOver ==
  ASSUME IInv, NEW e \in Events, NEW n \in 1 .. Len(attempts[e]),
         n < Len(attempts[e]) \/ events[e].status \in Due \cup {"dead_letter"}
  PROVE  attempts[e][n].status \in NotDelivered
<1>1. TypeOK /\ Good(e)
  BY DEF IInv
<1>2. attempts[e] # <<>> /\ Len(attempts[e]) \in Nat \ {0}
  BY <1>1, EventTyped
<1>3. CASE n < Len(attempts[e])
  BY <1>1, <1>2, <1>3 DEF Good, Earlier
<1>4. CASE n = Len(attempts[e])
  BY <1>1, <1>2, <1>4 DEF Good, Agrees, Fits, Latest, Due
<1> QED
  BY <1>2, <1>3, <1>4

\* Nothing is sent again, and nothing given up, while a delivery is possible.
THEOREM NoSecondEffect == Spec => []NoAttemptWhileOutcomeUnknown
<1>1. IInv => NoAttemptWhileOutcomeUnknown
  BY KnownWhenOver DEF NoAttemptWhileOutcomeUnknown
<1> QED
  BY <1>1, Inductive, PTL

\* Only the worker that opened an attempt carries the fence that settles it.
THEOREM FencesAreExclusive == Spec => []OpenAttemptCarriesTheFence
<1>1. IInv => OpenAttemptCarriesTheFence
  BY DEF IInv, Good, Fenced, OpenAttemptCarriesTheFence
<1> QED
  BY <1>1, Inductive, PTL

\* An event that its backoff has carried past its deadline was not delivered.
THEOREM StrandedIsKnown == Spec => []StrandedEventsWereNotDelivered
<1>1. IInv => StrandedEventsWereNotDelivered
  <2> SUFFICES ASSUME IInv, NEW e \in Events, events[e].status # "absent", ~Readable(e)
               PROVE  /\ events[e].status = "retry_wait" /\ Len(attempts[e]) \in 1 .. MaxAttempts - 1
                      /\ \A n \in 1 .. Len(attempts[e]) : attempts[e][n].status \in NotDelivered
    BY DEF StrandedEventsWereNotDelivered
  <2>1. events[e].status = "retry_wait" /\ TypeOK
    BY DEF IInv, Good, Limited
  <2>2. attempts[e] # <<>> /\ Len(attempts[e]) < MaxAttempts
    BY <2>1 DEF IInv, Good, Limited, Agrees
  <2>3. Len(attempts[e]) \in 1 .. MaxAttempts - 1
    BY <2>1, <2>2, EventTyped, OutboxAssumption
  <2> QED
    BY <2>1, <2>3, KnownWhenOver DEF Due
<1> QED
  BY <1>1, Inductive, PTL

-----------------------------------------------------------------------------
(* Outcomes are final                                                      *)

\* The part of KnownOutcomesAreFinal about one event.
Final(e) ==
  /\ Len(attempts'[e]) >= Len(attempts[e])
  /\ \A n \in 1 .. Len(attempts[e]) :
       attempts[e][n].status \in NotDelivered => attempts'[e][n] = attempts[e][n]
  /\ events[e].status = "dead_letter" => events'[e] = events[e]

LEMMA SameIsFinal ==
  ASSUME TypeOK, NEW e \in Events, attempts'[e] = attempts[e],
         events[e].status = "dead_letter" => events'[e] = events[e]
  PROVE  Final(e)
  BY EventTyped DEF Final

LEMMA SettlingIsFinal ==
  ASSUME TypeOK, NEW e \in Events, attempts[e] # <<>>, NEW a \in Attempt,
         SetAttempt(e, Len(attempts[e]), a), Latest(e).status \notin NotDelivered,
         events[e].status # "dead_letter"
  PROVE  Final(e)
<1> DEFINE t == [attempts[e] EXCEPT ![Len(attempts[e])] = a]
<1>1. attempts'[e] = t
  BY DEF SetAttempt, TypeOK
<1>2. /\ Len(t) = Len(attempts[e])
      /\ \A m \in 1 .. Len(attempts[e]) : m # Len(attempts[e]) => t[m] = attempts[e][m]
  BY LatestExists, EventTyped, Replaced
<1> QED
  BY <1>1, <1>2, EventTyped DEF Final, Latest

LEMMA StepIsFinal == ASSUME IInv, Next, NEW e \in Events PROVE Final(e)
<1>1. TypeOK /\ Good(e)
  BY DEF IInv
<1>2. ASSUME attempts'[e] = attempts[e], events'[e] = events[e] PROVE Final(e)
  BY <1>1, <1>2, SameIsFinal
<1>3. ASSUME events[e].status \in Open PROVE attempts[e] # <<>> /\ Latest(e).status \notin NotDelivered
  BY <1>1, <1>3 DEF Good, Agrees, Fits, Open, NotDelivered
<1>4. CASE Tick
  BY <1>2, <1>4 DEF Tick
<1>5. ASSUME NEW f \in Events, Enqueue(f) PROVE Final(e)
  BY <1>1, <1>5, SameIsFinal DEF Enqueue, TypeOK
<1>6. ASSUME NEW f \in Events, RecoverExpired(f) PROVE Final(e)
  <2>1. CASE f = e
    <3>1. /\ events[e].status \in Open /\ events[e].status # "dead_letter"
          /\ SetAttempt(e, Len(attempts[e]), Settled(Latest(e), "outcome_unknown"))
      BY <1>6, <2>1 DEF RecoverExpired, Recoverable, ExpiredOutcome, Open
    <3>2. Settled(Latest(e), "outcome_unknown") \in Attempt
      BY <1>1, <1>3, <3>1, LatestExists DEF Settled, Attempt, AttemptStatus
    <3> QED
      BY <1>1, <1>3, <3>1, <3>2, SettlingIsFinal
  <2>2. CASE f # e
    BY <1>1, <1>2, <1>6, <2>2 DEF RecoverExpired, SetAttempt, TypeOK
  <2> QED
    BY <2>1, <2>2
<1>7. ASSUME NEW w \in Workers, BlockPrepared(w) PROVE Final(e)
  <2> DEFINE f == held[w].event
  <2>1. /\ f # NoEvent /\ events[f].status = "dispatching" /\ events[f].version = held[w].fence
        /\ \A g \in Events \ {f} : events'[g] = events[g]
    BY <1>1, <1>7 DEF BlockPrepared, TypeOK
  <2>2. f \in Events
    BY <1>1, <2>1 DEF TypeOK, Held
  <2>3. CASE f = e
    <3>1. held[w].attempt = Len(attempts[e])
      BY <1>1, <2>1, <2>3 DEF Good, Fenced, Open
    <3>2. attempts[e] # <<>> /\ Latest(e).status = "prepared" /\ events[e].status # "dead_letter"
      BY <1>1, <2>1, <2>3 DEF Good, Agrees, Fits
    <3>3. PICK known \in BOOLEAN :
            SetAttempt(e, Len(attempts[e]), Settled(Latest(e),
              IF known THEN "blocked_disconnected" ELSE "outcome_unknown"))
      BY <1>7, <2>3, <3>1, <3>2 DEF BlockPrepared, Latest
    <3>4. Settled(Latest(e), IF known THEN "blocked_disconnected" ELSE "outcome_unknown") \in Attempt
      BY <1>1, <3>2, LatestExists DEF Settled, Attempt, AttemptStatus, NotDelivered
    <3>5. Latest(e).status \notin NotDelivered
      BY <3>2 DEF NotDelivered
    <3> QED
      BY <1>1, <3>2, <3>3, <3>4, <3>5, SettlingIsFinal
  <2>4. CASE f # e
    <3>1. attempts'[e] = attempts[e]
      BY <1>1, <1>7, <2>4 DEF BlockPrepared, SetAttempt, TypeOK
    <3> QED
      BY <1>2, <2>1, <2>4, <3>1
  <2> QED
    BY <2>3, <2>4
<1>8. ASSUME NEW w \in Workers, ResolveReconciliation(w) PROVE Final(e)
  <2> DEFINE f == held[w].event
  <2>1. /\ f # NoEvent /\ events[f].status = "reconciling"
        /\ \A g \in Events \ {f} : events'[g] = events[g] /\ attempts'[g] = attempts[g]
    BY <1>1, <1>8 DEF ResolveReconciliation, SetAttempt, TypeOK
  <2>2. CASE f = e
    <3>1. events[e].status \in Open /\ events[e].status # "dead_letter"
      BY <2>1, <2>2 DEF Open
    <3>2. PICK known \in BOOLEAN :
            SetAttempt(e, Len(attempts[e]), Settled(Latest(e),
              IF known THEN "reconciled_not_delivered" ELSE "outcome_unknown"))
      BY <1>8, <2>2 DEF ResolveReconciliation
    <3>3. Settled(Latest(e), IF known THEN "reconciled_not_delivered" ELSE "outcome_unknown") \in Attempt
      BY <1>1, <1>3, <3>1, LatestExists DEF Settled, Attempt, AttemptStatus, NotDelivered
    <3> QED
      BY <1>1, <1>3, <3>1, <3>2, <3>3, SettlingIsFinal
  <2>3. CASE f # e
    BY <1>2, <2>1, <2>3
  <2> QED
    BY <2>2, <2>3
<1>9. ASSUME NEW f \in Events, NEW w \in Workers, Prepare(f, w) PROVE Final(e)
  <2>1. CASE f = e
    <3>1. PICK a : attempts'[e] = Append(attempts[e], a) /\ events[e].status \in Due
      BY <1>1, <1>9, <2>1 DEF Prepare, TypeOK
    <3>2. Len(attempts'[e]) = Len(attempts[e]) + 1 /\ \A n \in 1 .. Len(attempts[e]) : attempts'[e][n] = attempts[e][n]
      BY <1>1, <3>1, EventTyped
    <3> QED
      BY <1>1, <3>1, <3>2, EventTyped DEF Final, Due
  <2>2. CASE f # e
    BY <1>1, <1>2, <1>9, <2>2 DEF Prepare, TypeOK
  <2> QED
    BY <2>1, <2>2
<1>10. ASSUME NEW f \in Events, NEW w \in Workers, ClaimReconciliation(f, w) PROVE Final(e)
  <2>1. CASE f = e
    <3>1. PICK now \in Sampled :
            /\ events[e].status = "reconciliation_required" /\ Len(attempts[e]) > 0
            /\ Latest(e).status = "outcome_unknown"
            /\ SetAttempt(e, Len(attempts[e]), [status |-> "reconciling", worker |-> w,
                 fence |-> events[e].version + 1, lease |-> now + ReconcileLease])
      BY <1>10, <2>1 DEF ClaimReconciliation
    <3>2. [status |-> "reconciling", worker |-> w, fence |-> events[e].version + 1,
           lease |-> now + ReconcileLease] \in Attempt
      BY <1>1, EventTyped, SampledType, OutboxAssumption DEF Attempt, AttemptStatus
    <3>3. attempts[e] # <<>> /\ Latest(e).status \notin NotDelivered
      BY <1>1, <3>1, EventTyped DEF NotDelivered
    <3> QED
      BY <1>1, <3>1, <3>2, <3>3, SettlingIsFinal
  <2>2. CASE f # e
    BY <1>1, <1>2, <1>10, <2>2 DEF ClaimReconciliation, SetAttempt, TypeOK
  <2> QED
    BY <2>1, <2>2
<1> QED
  BY <1>4, <1>5, <1>6, <1>7, <1>8, <1>9, <1>10 DEF Next

\* What is known not to have been delivered stays known, and a dead letter closed.
THEOREM OutcomesStayKnown == Spec => KnownOutcomesAreFinal
<1>1. IInv /\ [Next]_vars =>
        [\A e \in Events :
           /\ Len(attempts'[e]) >= Len(attempts[e])
           /\ \A n \in 1 .. Len(attempts[e]) :
                attempts[e][n].status \in NotDelivered => attempts'[e][n] = attempts[e][n]
           /\ events[e].status = "dead_letter" => events'[e] = events[e]]_vars
  BY StepIsFinal DEF Final
<1> QED
  BY <1>1, Inductive, PTL DEF Spec, KnownOutcomesAreFinal
=============================================================================
