------------------------- MODULE TransactionalOutbox -------------------------
(***************************************************************************)
(* lib/transactionalOutbox.ts: outbox events (notification_events) and the *)
(* delivery attempts that are written before any effect could happen       *)
(* (notification_attempts).  Every operation is one transaction that locks *)
(* the event, then the attempt, and compares the caller's fence with the   *)
(* event's version; its `now` was sampled before it waited for the locks.  *)
(***************************************************************************)
EXTENDS Integers, Sequences

CONSTANTS
  Events,          \* deterministic event ids (outboxEventId)
  Workers,         \* worker identities
  MaxAttempts,     \* envelope.maxAttempts
  Lifetimes,       \* deadlineAt - availableAt of the intents
  LeaseTime,       \* prepare's leaseMs
  ReconcileLease,  \* RECONCILIATION_LEASE_MS
  BackoffBase, BackoffMax,   \* 5 s and 300 s in blockPrepared
  MaxLag,          \* how old a transaction's `now` may be
  MaxClock, MaxVersion       \* bounds on the clock and on reconciliation rounds

NoEvent == "no event"

ASSUME OutboxAssumption ==
  /\ NoEvent \notin Events
  /\ MaxAttempts \in Nat \ {0} /\ Lifetimes \subseteq Nat \ {0}
  /\ LeaseTime \in Nat \ {0} /\ ReconcileLease \in Nat \ {0}
  /\ BackoffBase \in Nat \ {0} /\ BackoffMax \in Nat
  /\ MaxLag \in Nat /\ MaxClock \in Nat /\ MaxVersion \in Nat

VARIABLES
  clock,
  events,    \* notification_events
  attempts,  \* notification_attempts of each event, by attempt number
  held       \* the delivery or reconciliation each worker believes it has

vars == <<clock, events, attempts, held>>

Due == {"queued", "retry_wait"}
Open == {"dispatching", "reconciling"}
EventStatus == {"absent", "reconciliation_required", "dead_letter"} \cup Due \cup Open
NotDelivered == {"blocked_disconnected", "reconciled_not_delivered"}
AttemptStatus == {"prepared", "outcome_unknown", "reconciling"} \cup NotDelivered

Event == [status : EventStatus, version : Nat, available : Nat, deadline : Nat]
Attempt == [status : AttemptStatus, worker : Workers, fence : Nat, lease : Nat]
Held == [event : Events \cup {NoEvent}, attempt : Nat, fence : Nat]

TypeOK ==
  /\ clock \in 0 .. MaxClock
  /\ events \in [Events -> Event]
  /\ attempts \in [Events -> Seq(Attempt)]
  /\ held \in [Workers -> Held]

Init ==
  /\ clock = 0
  /\ events = [e \in Events |->
                 [status |-> "absent", version |-> 0, available |-> 0, deadline |-> 0]]
  /\ attempts = [e \in Events |-> <<>>]
  /\ held = [w \in Workers |-> [event |-> NoEvent, attempt |-> 0, fence |-> 0]]

-----------------------------------------------------------------------------
(* Helpers *)

Smaller(a, b) == IF a <= b THEN a ELSE b
Sampled == {t \in 0 .. clock : clock <= t + MaxLag}
Latest(e) == attempts[e][Len(attempts[e])]

\* parseEnvelope: a stored event whose deadline is not after its availability
\* is "not an outbox record" to every operation.
Readable(e) == events[e].status # "absent" /\ events[e].available < events[e].deadline

Backoff(n) == Smaller(BackoffMax, BackoffBase * 2 ^ (n - 1))

Moved(event, next) == [event EXCEPT !.status = next, !.version = @ + 1]

\* A reconciled or blocked attempt is the last one, or the deadline has passed.
Exhausted(e, n, now) == n >= MaxAttempts \/ events[e].deadline <= now

SetAttempt_First(e, n, attempt) == attempts' = [attempts EXCEPT ![e][1] = attempt]
SetAttempt(e, n, attempt) == attempts' = [attempts EXCEPT ![e][n] = attempt]

\* Settling an attempt clears the control record that names its holder.
Settled(attempt, outcome) == [attempt EXCEPT !.status = outcome, !.fence = 0]

\* The reply carries the fence; it may never arrive.
Reply(w, e, n, fence) ==
  \/ held' = [held EXCEPT ![w] = [event |-> e, attempt |-> n, fence |-> fence]]
  \/ UNCHANGED held

-----------------------------------------------------------------------------
(* Operations *)

\* appendTransactionalOutboxTx for a new intent.  For an id that exists it
\* returns the stored event or throws, and writes nothing.
Enqueue(e) ==
  \E now \in Sampled, life \in Lifetimes :
    /\ events[e].status = "absent"
    /\ events' = [events EXCEPT ![e] = [status |-> "queued", version |-> 1,
                                        available |-> now, deadline |-> now + life]]
    /\ UNCHANGED <<clock, attempts, held>>

Prepare(e, w) ==
  \E now \in Sampled :
    LET n == Len(attempts[e]) + 1  fence == events[e].version + 1 IN
    /\ Readable(e)
    /\ events[e].status \in Due
    /\ events[e].available <= now /\ now < events[e].deadline
    /\ n <= MaxAttempts
    /\ attempts' = [attempts EXCEPT ![e] =
                      Append(@, [status |-> "prepared", worker |-> w, fence |-> fence,
                                 lease |-> Smaller(now + LeaseTime, events[e].deadline)])]
    /\ events' = [events EXCEPT ![e] = Moved(@, "dispatching")]
    /\ Reply(w, e, n, fence)
    /\ UNCHANGED clock

\* What both ways of settling an attempt check about the caller.
Controls(w, attempt) == attempt.worker = w /\ attempt.fence = held[w].fence

\* known: the worker knows that nothing was delivered.
AfterSettling_UnknownIsRetried(e, n, now, known) ==
  IF Exhausted(e, n, now) THEN "dead_letter" ELSE "retry_wait"
AfterSettling(e, n, now, known) ==
  CASE ~known -> "reconciliation_required"
    [] known /\ Exhausted(e, n, now) -> "dead_letter"
    [] OTHER -> "retry_wait"

BlockPrepared(w) ==
  \E now \in Sampled, known \in BOOLEAN :
    LET e == held[w].event
        n == held[w].attempt
        next == AfterSettling(e, n, now, known) IN
    /\ e # NoEvent /\ Readable(e)
    /\ events[e].version = held[w].fence
    /\ events[e].status = "dispatching"
    /\ attempts[e][n].status = "prepared"
    /\ Controls(w, attempts[e][n])
    /\ SetAttempt(e, n, Settled(attempts[e][n],
         IF known THEN "blocked_disconnected" ELSE "outcome_unknown"))
    /\ events' = [events EXCEPT ![e] =
         IF next = "retry_wait"
           THEN [Moved(@, next) EXCEPT !.available = now + Backoff(n)]
           ELSE Moved(@, next)]
    /\ UNCHANGED <<clock, held>>

ClaimReconciliation(e, w) ==
  \E now \in Sampled :
    LET n == Len(attempts[e])  fence == events[e].version + 1 IN
    /\ Readable(e)
    /\ events[e].status = "reconciliation_required"
    /\ events[e].version < MaxVersion
    /\ n > 0 /\ Latest(e).status = "outcome_unknown"
    /\ SetAttempt(e, n, [status |-> "reconciling", worker |-> w, fence |-> fence,
                         lease |-> now + ReconcileLease])
    /\ events' = [events EXCEPT ![e] = Moved(@, "reconciling")]
    /\ Reply(w, e, n, fence)
    /\ UNCHANGED clock

ResolveReconciliation(w) ==
  \E now \in Sampled, known \in BOOLEAN :
    LET e == held[w].event
        n == Len(attempts[e])
        next == AfterSettling(e, n, now, known) IN
    /\ e # NoEvent /\ Readable(e)
    /\ events[e].version = held[w].fence
    /\ events[e].status = "reconciling"
    /\ n > 0 /\ Latest(e).status = "reconciling"
    /\ Controls(w, Latest(e))
    /\ now < Latest(e).lease
    /\ SetAttempt(e, n, Settled(Latest(e),
         IF known THEN "reconciled_not_delivered" ELSE "outcome_unknown"))
    /\ events' = [events EXCEPT ![e] =
         IF next = "retry_wait"
           THEN [Moved(@, next) EXCEPT !.available = now + BackoffBase]
           ELSE Moved(@, next)]
    /\ UNCHANGED <<clock, held>>

\* A worker that stopped answering leaves an outcome nobody knows.
LeaseOver(e, now) == Latest(e).lease <= now

\* What an expired attempt is taken for.
ExpiredOutcome == "outcome_unknown"

Recoverable_DispatchOnly == {"dispatching"}
Recoverable == Open

RecoverExpired(e) ==
  \E now \in Sampled :
    LET n == Len(attempts[e]) IN
    /\ Readable(e)
    /\ events[e].status \in Recoverable
    /\ n > 0 /\ Latest(e).status \in {"prepared", "reconciling"}
    /\ LeaseOver(e, now)
    /\ SetAttempt(e, n, Settled(Latest(e), ExpiredOutcome))
    /\ events' = [events EXCEPT ![e] = Moved(@, "reconciliation_required")]
    /\ UNCHANGED <<clock, held>>

Tick ==
  /\ clock < MaxClock
  /\ clock' = clock + 1
  /\ UNCHANGED <<events, attempts, held>>

Next ==
  \/ Tick
  \/ \E e \in Events : Enqueue(e) \/ RecoverExpired(e)
  \/ \E w \in Workers : BlockPrepared(w) \/ ResolveReconciliation(w)
  \/ \E e \in Events, w \in Workers : Prepare(e, w) \/ ClaimReconciliation(e, w)

Spec == Init /\ [][Next]_vars

\* The fairness of an operator or dispatcher that keeps sweeping expired leases;
\* the code has none of its own.
SweptSpec == Spec /\ WF_vars(Tick) /\ \A e \in Events : WF_vars(RecoverExpired(e))

-----------------------------------------------------------------------------
(* Safety *)

\* The status of an event says what its latest attempt is waiting for, although
\* the two rows are written by different statements: the "no such attempt"
\* branches behind a matched fence never throw.
EventAgreesWithLatestAttempt ==
  \A e \in Events :
    LET status == events[e].status IN
    IF attempts[e] = <<>> THEN status \in {"absent", "queued"}
    ELSE Latest(e).status \in
           CASE status = "dispatching" -> {"prepared"}
             [] status = "reconciliation_required" -> {"outcome_unknown"}
             [] status = "reconciling" -> {"reconciling"}
             [] status \in {"retry_wait", "dead_letter"} -> NotDelivered
             [] OTHER -> {}

\* No second effect: a new attempt is only ever made, and an event only ever
\* given up, once every earlier attempt is known not to have delivered.
NoAttemptWhileOutcomeUnknown ==
  \A e \in Events : \A n \in 1 .. Len(attempts[e]) :
    n < Len(attempts[e]) \/ events[e].status \in Due \cup {"dead_letter"}
      => attempts[e][n].status \in NotDelivered

\* The fence recorded with an open attempt is the version of its event: of all
\* the workers that ever held the event, only the one that opened this attempt
\* can still settle it.
OpenAttemptCarriesTheFence ==
  \A e \in Events : events[e].status \in Open =>
    /\ Latest(e).fence = events[e].version
    /\ \A w \in Workers :
         held[w].event = e /\ held[w].fence = events[e].version
           => w = Latest(e).worker /\ held[w].attempt = Len(attempts[e])

\* The backoff may end after the deadline, and such an event can be read by no
\* operation any more.  What is lost is a retry that was due, never the knowledge
\* of a delivery: no open attempt and no unknown outcome is stranded with it.
StrandedEventsWereNotDelivered ==
  \A e \in Events : events[e].status # "absent" /\ ~Readable(e) =>
    /\ events[e].status = "retry_wait" /\ Len(attempts[e]) \in 1 .. MaxAttempts - 1
    /\ \A n \in 1 .. Len(attempts[e]) : attempts[e][n].status \in NotDelivered

-----------------------------------------------------------------------------
(* What a step may never do, and what must happen *)

\* What is known not to have been delivered stays known, no attempt row ever
\* disappears, and a dead letter is never reopened.
KnownOutcomesAreFinal ==
  [][\A e \in Events :
       /\ Len(attempts'[e]) >= Len(attempts[e])
       /\ \A n \in 1 .. Len(attempts[e]) :
            attempts[e][n].status \in NotDelivered => attempts'[e][n] = attempts[e][n]
       /\ events[e].status = "dead_letter" => events'[e] = events[e]]_vars

\* A worker that dies with a prepared or reconciling attempt does not pin the
\* event: the sweep hands it to reconciliation.  (Leases that end after the
\* model's clock stops are not asked about.)
AbandonedAttemptIsReleased ==
  \A e \in Events :
    events[e].status \in Open /\ Latest(e).lease <= MaxClock
      ~> events[e].status \notin Open
=============================================================================
