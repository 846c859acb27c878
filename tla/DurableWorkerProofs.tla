------------------------- MODULE DurableWorkerProofs -------------------------
(***************************************************************************)
(* Theorems about DurableWorker, for every set of jobs, workers and calls  *)
(* and every policy.                                                       *)
(***************************************************************************)
EXTENDS DurableWorker, FiniteSetTheorems, TLAPS

\* What the service layer has established about a call before its
\* transaction starts, whatever happened to the row since.
CallShape ==
  \A c \in Callers :
    LET call == calls[c] IN
    /\ call.op \notin {"idle", "claim"} => call.job \in Jobs
    /\ call.op \in WorkerOps => call.worker \in Workers /\ call.run \in Runs
    /\ call.op = "claim" => call.worker \in Workers
    /\ call.op = "fail" => call.next \in {"failed", "dead_letter", "retry_wait"}
    /\ call.op = "recover" => /\ call.next \in {"dead_letter", "retry_wait"}
                              /\ call.expected \in Waiting \cup {"running"}
    /\ call.op = "cancel" => call.expected \notin Uncancellable \cup {"absent"}

HeldShape == \A w \in Workers : held[w].job # NoJob => held[w].run \in Runs

Shape == TypeOK /\ CallShape /\ HeldShape

USE DEF NoJob, NoLease

-----------------------------------------------------------------------------
(* Operators *)

\* The smaller of two times is a time, no later than the second.
LEMMA SmallerType == ASSUME NEW a \in Nat, NEW b \in Nat
                     PROVE  Smaller(a, b) \in Nat /\ Smaller(a, b) <= b
  BY DEF Smaller

\* A retry is delayed by a natural number of ticks.
LEMMA RetryDelaysType == ASSUME NEW n PROVE RetryDelays(n) \subseteq Nat
  <1>1. RetryDelays(n) \subseteq 0 .. RetryMax
    BY Zenon DEF RetryDelays
  <1> QED BY <1>1

\* A job sent back to the queue becomes available at a time.
LEMMA AvailableAgainType ==
  ASSUME NEW j, NEW next, NEW now \in Nat
  PROVE  AvailableAgain(j, next, now) \subseteq Nat
  <1>1. RetryDelays(jobs[j].attempts) \subseteq Nat
    BY RetryDelaysType
  <1> QED BY <1>1 DEF AvailableAgain

\* A lease, however late the clock it is computed from, ends at a time by the deadline.
LEMMA LeaseFromType ==
  ASSUME TypeOK, NEW now \in Nat, NEW j \in Jobs
  PROVE  LeaseFrom(now, j) \in Nat /\ LeaseFrom(now, j) <= Deadline(j)
  BY PolicyAssumption DEF TypeOK, Job, LeaseFrom, Smaller, Deadline

\* What a call samples as its `now` is a time.
LEMMA SampledType == ASSUME TypeOK PROVE Sampled \subseteq Nat
  BY DEF TypeOK, Sampled

-----------------------------------------------------------------------------
(* Type correctness *)

\* At the start no call is in flight and no claim is remembered.
LEMMA ShapeInit == Init => Shape
  BY PolicyAssumption, InputAssumption
  DEF Init, Shape, TypeOK, CallShape, HeldShape, Job, Run, Call, Claim, JobStatus,
      RunStatus, Ops, WorkerOps, NoCall, NoClaim

\* A step that puts one well-shaped call in flight and touches nothing else.
LEMMA SendShape ==
  ASSUME Shape, NEW c \in Callers, NEW call \in Call,
         Send(c, call), lock' \in Callers \cup {NoCaller},
         UNCHANGED <<clock, jobs, runs, outbox, held>>,
         call.op \notin {"idle", "claim"} => call.job \in Jobs,
         call.op \in WorkerOps => call.worker \in Workers /\ call.run \in Runs,
         call.op = "claim" => call.worker \in Workers,
         call.op = "fail" => call.next \in {"failed", "dead_letter", "retry_wait"},
         call.op = "recover" => /\ call.next \in {"dead_letter", "retry_wait"}
                                /\ call.expected \in Waiting \cup {"running"},
         call.op = "cancel" => call.expected \notin Uncancellable \cup {"absent"}
  PROVE  Shape'
  <1>1. calls' = [calls EXCEPT ![c] = call]
    BY DEF Send
  <1>2. TypeOK'
    BY <1>1 DEF Shape, TypeOK
  <1>3. CallShape'
    BY <1>1 DEF Shape, TypeOK, CallShape, Uncancellable, Waiting, WorkerOps
  <1>4. HeldShape'
    BY DEF Shape, HeldShape
  <1> QED BY <1>2, <1>3, <1>4 DEF Shape

\* A step that ends a call: whatever it wrote, only the types are left to check.
LEMMA ReturnShape ==
  ASSUME Shape, NEW c \in Callers, Return(c), lock' \in Callers \cup {NoCaller},
         clock' = clock, outbox' \in SUBSET Jobs,
         jobs' \in [Jobs -> Job], runs' \in [Runs -> Run],
         held' \in [Workers -> Claim], HeldShape'
  PROVE  Shape'
  <1>1. calls' = [calls EXCEPT ![c] = NoCall]
    BY DEF Return
  <1>2. NoCall \in Call
    BY InputAssumption DEF NoCall, Call, Ops, JobStatus
  <1>3. TypeOK'
    BY <1>1, <1>2 DEF Shape, TypeOK
  <1>4. CallShape'
    BY <1>1 DEF Shape, TypeOK, CallShape, NoCall, WorkerOps
  <1> QED BY <1>3, <1>4 DEF Shape

\* The first half of a service call leaves a call record of the right shape.
LEMMA ReadShape ==
  ASSUME Shape, NEW c \in Callers,
         \/ \E j \in Jobs : EnqueueCount(c, j) \/ CancelRead(c, j) \/ RecoverRead(c, j)
         \/ \E w \in Workers : ClaimCount(c, w) \/ HeartbeatRead(c, w)
                                 \/ SucceedRead(c, w) \/ FailRead(c, w)
  PROVE  Shape'
  <1> USE DEF WorkerOps, Ops
  <1>1. /\ Sampled \subseteq Nat
        /\ NoCall \in Call
        /\ lock \in Callers \cup {NoCaller}
    BY SampledType, InputAssumption DEF Shape, TypeOK, NoCall, Call, JobStatus
  <1>2. ASSUME NEW j \in Jobs, EnqueueCount(c, j)
        PROVE  Shape'
    <2>1. PICK now \in Sampled, d \in StartDelays :
            Send(c, [NoCall EXCEPT !.op = "enqueue", !.job = j, !.now = now,
                                   !.at = now + d])
      BY <1>2 DEF EnqueueCount
    <2> DEFINE call == [NoCall EXCEPT !.op = "enqueue", !.job = j, !.now = now,
                                      !.at = now + d]
    <2>2. now \in Nat /\ now + d \in Nat
      BY <1>1, InputAssumption
    <2>3. /\ call \in Call
          /\ call.op = "enqueue" /\ call.job = j
      BY <1>1, <2>2 DEF NoCall, Call
    <2> HIDE DEF call
    <2> QED BY <1>2, <2>1, <2>3, SendShape DEF EnqueueCount, call
  <1>3. ASSUME NEW j \in Jobs, CancelRead(c, j)
        PROVE  Shape'
    <2> DEFINE call == [NoCall EXCEPT !.op = "cancel", !.job = j,
                                      !.fence = jobs[j].version,
                                      !.expected = jobs[j].status]
    <2>1. /\ call \in Call
          /\ call.op = "cancel" /\ call.job = j
          /\ call.expected \notin Uncancellable \cup {"absent"}
      BY <1>1, <1>3 DEF Shape, TypeOK, Job, NoCall, Call, CancelRead, Cancellable
    <2>2. Send(c, call)
      BY <1>3 DEF CancelRead
    <2> HIDE DEF call
    <2> QED BY <1>1, <1>3, <2>1, <2>2, SendShape DEF CancelRead
  <1>4. ASSUME NEW j \in Jobs, RecoverRead(c, j)
        PROVE  Shape'
    <2>0. PICK now \in Sampled :
            \E at \in AvailableAgain(j, AfterSweep(j, now), now) :
              Send(c, [NoCall EXCEPT !.op = "recover", !.job = j,
                                     !.fence = jobs[j].version, !.now = now,
                                     !.expected = jobs[j].status,
                                     !.next = AfterSweep(j, now), !.at = at,
                                     !.expired = Deadline(j) <= now])
      BY <1>4 DEF RecoverRead
    <2>1. PICK at \in AvailableAgain(j, AfterSweep(j, now), now) :
            Send(c, [NoCall EXCEPT !.op = "recover", !.job = j,
                                   !.fence = jobs[j].version, !.now = now,
                                   !.expected = jobs[j].status,
                                   !.next = AfterSweep(j, now), !.at = at,
                                   !.expired = Deadline(j) <= now])
      BY <2>0
    <2> DEFINE call == [NoCall EXCEPT !.op = "recover", !.job = j,
                                      !.fence = jobs[j].version, !.now = now,
                                      !.expected = jobs[j].status,
                                      !.next = AfterSweep(j, now), !.at = at,
                                      !.expired = Deadline(j) <= now]
    <2>2. at \in Nat
      BY <1>1, AvailableAgainType
    <2>3. AfterSweep(j, now) \in {"dead_letter", "retry_wait"}
      BY DEF AfterSweep
    <2>4. jobs[j].status \in Waiting \cup {"running"}
      BY <1>4 DEF RecoverRead, Sweepable
    <2>5. /\ now \in Nat /\ jobs[j].version \in Nat /\ (Deadline(j) <= now) \in BOOLEAN
          /\ AfterSweep(j, now) \in JobStatus /\ jobs[j].status \in JobStatus
      BY <1>1, <2>3 DEF Shape, TypeOK, Job, JobStatus, Settled, Uncancellable, Waiting
    <2>6. /\ call \in Call
          /\ call.op = "recover" /\ call.job = j
          /\ call.next \in {"dead_letter", "retry_wait"}
          /\ call.expected \in Waiting \cup {"running"}
      BY <1>1, <2>2, <2>3, <2>4, <2>5 DEF NoCall, Call
    <2> HIDE DEF call
    <2> QED BY <1>1, <1>4, <2>1, <2>6, SendShape DEF RecoverRead, call
  <1>5. ASSUME NEW w \in Workers, ClaimCount(c, w)
        PROVE  Shape'
    <2>1. PICK now \in Sampled :
            Send(c, [NoCall EXCEPT !.op = "claim", !.worker = w, !.now = now])
      BY <1>5 DEF ClaimCount
    <2> DEFINE call == [NoCall EXCEPT !.op = "claim", !.worker = w, !.now = now]
    <2>2. call \in Call /\ call.op = "claim" /\ call.worker = w
      BY <1>1 DEF NoCall, Call
    <2> HIDE DEF call
    <2> QED BY <1>5, <2>1, <2>2, SendShape DEF ClaimCount, call
  <1>6. ASSUME NEW w \in Workers, NEW now \in Sampled, NEW op \in WorkerOps,
               HoldsLease(w, now)
        PROVE  /\ WorkerCall(op, w, now) \in Call
               /\ WorkerCall(op, w, now).op = op
               /\ WorkerCall(op, w, now).job \in Jobs
               /\ WorkerCall(op, w, now).worker = w
               /\ WorkerCall(op, w, now).run \in Runs
    BY <1>1, <1>6 DEF Shape, TypeOK, HeldShape, HoldsLease, WorkerCall, NoCall, Call, Claim
  <1>7. ASSUME NEW w \in Workers, HeartbeatRead(c, w)
        PROVE  Shape'
    <2>1. PICK now \in Sampled, p \in Reportable :
            /\ HoldsLease(w, now)
            /\ Send(c, [WorkerCall("heartbeat", w, now) EXCEPT
                          !.at = LeaseFrom(now, held[w].job), !.progress = p])
      BY <1>7 DEF HeartbeatRead
    <2> DEFINE base == WorkerCall("heartbeat", w, now)
               call == [base EXCEPT !.at = LeaseFrom(now, held[w].job), !.progress = p]
    <2>2. held[w].job \in Jobs /\ LeaseFrom(now, held[w].job) \in Nat
      BY <1>1, <2>1, LeaseFromType DEF Shape, TypeOK, Claim, HoldsLease
    <2>3. /\ base \in Call /\ base.op = "heartbeat" /\ base.job \in Jobs
          /\ base.worker = w /\ base.run \in Runs
      BY <1>6, <2>1
    <2> HIDE DEF base
    <2>4. /\ call \in Call /\ call.op = "heartbeat" /\ call.job \in Jobs
          /\ call.worker = w /\ call.run \in Runs
      BY <2>2, <2>3 DEF Call, Reportable
    <2> HIDE DEF call
    <2> QED BY <1>1, <1>7, <2>1, <2>4, SendShape DEF HeartbeatRead, call, base
  <1>8. ASSUME NEW w \in Workers, SucceedRead(c, w)
        PROVE  Shape'
    <2>1. PICK now \in Sampled : /\ HoldsLease(w, now)
                                 /\ Send(c, WorkerCall("succeed", w, now))
      BY <1>8 DEF SucceedRead
    <2> QED BY <1>1, <1>6, <1>8, <2>1, SendShape DEF SucceedRead
  <1>9. ASSUME NEW w \in Workers, FailRead(c, w)
        PROVE  Shape'
    <2>0. PICK now \in Sampled, retryable \in BOOLEAN :
            /\ HoldsLease(w, now)
            /\ \E at \in AvailableAgain(held[w].job,
                           AfterFailure(held[w].job, now, retryable), now) :
                 Send(c, [WorkerCall("fail", w, now) EXCEPT
                            !.next = AfterFailure(held[w].job, now, retryable),
                            !.at = at])
      BY <1>9 DEF FailRead
    <2>1. PICK at \in AvailableAgain(held[w].job,
                       AfterFailure(held[w].job, now, retryable), now) :
            Send(c, [WorkerCall("fail", w, now) EXCEPT
                       !.next = AfterFailure(held[w].job, now, retryable),
                       !.at = at])
      BY <2>0
    <2> DEFINE base == WorkerCall("fail", w, now)
               call == [base EXCEPT !.next = AfterFailure(held[w].job, now, retryable),
                                    !.at = at]
    <2>2. at \in Nat
      BY <1>1, AvailableAgainType
    <2>3. AfterFailure(held[w].job, now, retryable)
            \in {"failed", "dead_letter", "retry_wait"}
      BY DEF AfterFailure
    <2>4. /\ base \in Call /\ base.op = "fail" /\ base.job \in Jobs
          /\ base.worker = w /\ base.run \in Runs
      BY <1>6, <2>0
    <2>5. AfterFailure(held[w].job, now, retryable) \in JobStatus
      BY <2>3 DEF JobStatus, Settled, Uncancellable, Waiting
    <2> HIDE DEF base
    <2>6. /\ call \in Call /\ call.op = "fail" /\ call.job \in Jobs
          /\ call.worker = w /\ call.run \in Runs
          /\ call.next \in {"failed", "dead_letter", "retry_wait"}
      BY <2>2, <2>3, <2>4, <2>5 DEF Call
    <2> HIDE DEF call
    <2> QED BY <1>1, <1>9, <2>1, <2>6, SendShape DEF FailRead, call, base
  <1> QED BY <1>2, <1>3, <1>4, <1>5, <1>7, <1>8, <1>9

\* A job row whose lease is taken away is a job row.
LEMMA ReleasedType ==
  ASSUME NEW row \in Job, NEW next \in JobStatus
  PROVE  Released(row, next) \in Job
  <1>1. row.version + 1 \in Nat
    BY DEF Job
  <1> QED BY <1>1 DEF Released, Job

\* A job row that is leased, on a new attempt, is a job row.
LEMMA LeasedType ==
  ASSUME NEW row \in Job, row.attempts < MaxAttempts,
         NEW w \in Workers, NEW until \in Nat
  PROVE  Leased(row, w, until) \in Job
  <1>1. row.version + 1 \in Nat /\ row.attempts + 1 \in 0 .. MaxAttempts
    BY PolicyAssumption DEF Job
  <1> QED BY <1>1 DEF Leased, Job, JobStatus

\* A job row whose lease is extended is a job row.
LEMMA ExtendedType ==
  ASSUME NEW row \in Job, NEW p \in 0 .. MaxProgress, NEW until \in Nat
  PROVE  Extended(row, p, until) \in Job
  <1>1. row.version + 1 \in Nat /\ p \in 0 .. MaxProgress + 1
    BY InputAssumption DEF Job
  <1> QED BY <1>1 DEF Extended, Job

\* Closing the running runs of a job keeps the run rows well typed.
LEMMA CloseRunsType ==
  ASSUME Shape, NEW j, NEW outcome \in RunStatus, CloseRuns(j, outcome)
  PROVE  runs' \in [Runs -> Run]
  BY DEF Shape, TypeOK, CloseRuns, Run

\* The second half of a service call keeps types and shapes.
LEMMA TransactionShape ==
  ASSUME Shape, NEW c \in Callers, Transaction(c)
  PROVE  Shape'
  <1> DEFINE call == calls[c]
  <1> USE DEF WorkerOps
  <1>1. call \in Call
    BY DEF Shape, TypeOK
  <1>2. CASE EnqueueInsert(c)
    <2>1. call.job \in Jobs /\ jobs[call.job] \in Job
      BY <1>2 DEF EnqueueInsert, Shape, TypeOK, CallShape
    <2>2. [jobs[call.job] EXCEPT !.status = "queued", !.version = 1,
                                 !.available = call.at, !.created = call.now] \in Job
      BY <1>1, <2>1 DEF Job, Call, JobStatus, Waiting
    <2>3. jobs' \in [Jobs -> Job]
      BY <1>2, <2>1, <2>2 DEF EnqueueInsert, Shape, TypeOK
    <2> QED BY <1>2, <2>3, ReturnShape DEF EnqueueInsert, Shape, TypeOK, HeldShape
  <1>3. CASE ClaimTake(c)
    <2>1. PICK j \in Jobs, r \in FreshRuns :
            /\ jobs[j].attempts < MaxAttempts
            /\ jobs' = [jobs EXCEPT ![j] =
                          Leased(@, call.worker, LeaseFrom(call.now, j))]
            /\ runs' = [runs EXCEPT ![r] = [job |-> j, status |-> "running"]]
            /\ \/ held' = [held EXCEPT ![call.worker] =
                             [job |-> j, run |-> r, fence |-> jobs[j].version + 1]]
               \/ UNCHANGED held
      BY <1>3 DEF ClaimTake
    <2>2. r \in Runs
      BY DEF FreshRuns
    <2>3. call.worker \in Workers /\ call.now \in Nat /\ jobs[j] \in Job
      BY <1>1, <1>3 DEF ClaimTake, Shape, TypeOK, CallShape, Call
    <2>4. LeaseFrom(call.now, j) \in Nat
      BY <2>3, LeaseFromType DEF Shape
    <2>5. Leased(jobs[j], call.worker, LeaseFrom(call.now, j)) \in Job
      BY <2>1, <2>3, <2>4, LeasedType
    <2>6. jobs' \in [Jobs -> Job]
      BY <2>1, <2>5 DEF Shape, TypeOK
    <2>7. runs' \in [Runs -> Run]
      BY <2>1, <2>2 DEF Shape, TypeOK, Run, RunStatus
    <2>8. jobs[j].version + 1 \in Nat
      BY <2>3 DEF Job
    <2>9. held' \in [Workers -> Claim] /\ HeldShape'
      BY <2>1, <2>2, <2>3, <2>8 DEF Shape, TypeOK, HeldShape, Claim
    <2> QED BY <1>3, <2>6, <2>7, <2>9, ReturnShape DEF ClaimTake, Shape, TypeOK
  <1>4. ASSUME call.job \in Jobs, NEW next \in JobStatus
        PROVE  /\ Released(jobs[call.job], next) \in Job
               /\ [Released(jobs[call.job], next) EXCEPT !.available = call.at] \in Job
    <2>1. jobs[call.job] \in Job
      BY <1>4 DEF Shape, TypeOK
    <2>2. Released(jobs[call.job], next) \in Job
      BY <2>1, ReleasedType
    <2> QED BY <1>1, <2>2 DEF Job, Call
  <1>5. CASE Heartbeat(c)
    <2>1. /\ call.job \in Jobs /\ call.worker \in Workers /\ jobs[call.job] \in Job
          /\ call.fence + 1 \in Nat
      BY <1>1, <1>5 DEF Heartbeat, Shape, TypeOK, CallShape, Call
    <2>2. Extended(jobs[call.job], call.progress, call.at) \in Job
      BY <1>1, <2>1, ExtendedType DEF Call
    <2>3. jobs' \in [Jobs -> Job]
      BY <1>5, <2>1, <2>2 DEF Heartbeat, Shape, TypeOK
    <2>4. held' \in [Workers -> Claim] /\ HeldShape'
      BY <1>5, <2>1 DEF Heartbeat, Shape, TypeOK, HeldShape, Claim
    <2> QED BY <1>5, <2>3, <2>4, ReturnShape DEF Heartbeat, Shape, TypeOK
  <1>6. CASE Succeed(c)
    <2>1. call.job \in Jobs /\ call.run \in Runs
      BY <1>6 DEF Succeed, Shape, CallShape
    <2>2. Released(jobs[call.job], "succeeded") \in Job
      BY <1>4, <2>1 DEF JobStatus, Settled, Uncancellable
    <2>3. [Released(jobs[call.job], "succeeded") EXCEPT !.progress = MaxProgress + 1] \in Job
      BY <2>2, InputAssumption DEF Job
    <2>4. jobs' \in [Jobs -> Job]
      BY <1>6, <2>1, <2>3 DEF Succeed, Shape, TypeOK
    <2>5. runs' \in [Runs -> Run]
      BY <1>6, <2>1 DEF Succeed, CloseRun, Shape, TypeOK, Run, RunStatus
    <2>6. outbox' \in SUBSET Jobs
      BY <1>6, <2>1 DEF Succeed, Shape, TypeOK
    <2> QED BY <1>6, <2>4, <2>5, <2>6, ReturnShape DEF Succeed, Shape, TypeOK, HeldShape
  <1>7. CASE Fail(c)
    <2>1. call.job \in Jobs /\ call.run \in Runs /\ call.next \in JobStatus
      BY <1>1, <1>7 DEF Fail, Shape, CallShape, Call
    <2>2. [Released(jobs[call.job], call.next) EXCEPT !.available = call.at] \in Job
      BY <1>4, <2>1
    <2>3. jobs' \in [Jobs -> Job]
      BY <1>7, <2>1, <2>2 DEF Fail, Shape, TypeOK
    <2>4. runs' \in [Runs -> Run]
      BY <1>7, <2>1 DEF Fail, CloseRun, Shape, TypeOK, Run, RunStatus
    <2> QED BY <1>7, <2>3, <2>4, ReturnShape DEF Fail, Shape, TypeOK, HeldShape
  <1>8. CASE Cancel(c)
    <2>1. call.job \in Jobs
      BY <1>8 DEF Cancel, Shape, CallShape
    <2>2. Released(jobs[call.job], "cancelled") \in Job
      BY <1>4, <2>1 DEF JobStatus, Settled, Uncancellable
    <2>3. jobs' \in [Jobs -> Job]
      BY <1>8, <2>1, <2>2 DEF Cancel, Shape, TypeOK
    <2>4. runs' \in [Runs -> Run]
      BY <1>8, CloseRunsType DEF Cancel, RunStatus
    <2> QED BY <1>8, <2>3, <2>4, ReturnShape DEF Cancel, Shape, TypeOK, HeldShape
  <1>9. CASE Recover(c)
    <2>1. call.job \in Jobs /\ call.next \in JobStatus
      BY <1>1, <1>9 DEF Recover, Shape, CallShape, Call
    <2>2. [Released(jobs[call.job], call.next) EXCEPT !.available = call.at] \in Job
      BY <1>4, <2>1
    <2>3. jobs' \in [Jobs -> Job]
      BY <1>9, <2>1, <2>2 DEF Recover, Shape, TypeOK
    <2>4. runs' \in [Runs -> Run]
      BY <1>9, CloseRunsType DEF Recover, RunStatus
    <2> QED BY <1>9, <2>3, <2>4, ReturnShape DEF Recover, Shape, TypeOK, HeldShape
  <1> QED BY <1>2, <1>3, <1>5, <1>6, <1>7, <1>8, <1>9 DEF Transaction

\* Every step keeps types and shapes.
LEMMA ShapeNext == Shape /\ [Next]_vars => Shape'
  <1> SUFFICES ASSUME Shape, [Next]_vars PROVE Shape'
    OBVIOUS
  <1>1. CASE Tick
    BY <1>1, InputAssumption
    DEF Tick, Shape, TypeOK, CallShape, HeldShape
  <1>2. ASSUME NEW c \in Callers, Rollback(c) PROVE Shape'
    BY <1>2, ReturnShape DEF Rollback, Shape, TypeOK, HeldShape
  <1>3. ASSUME NEW c \in Callers, Transaction(c) PROVE Shape'
    BY <1>3, TransactionShape
  <1>4. CASE UNCHANGED vars
    BY <1>4 DEF vars, Shape, TypeOK, CallShape, HeldShape
  <1> QED BY <1>1, <1>2, <1>3, <1>4, ReadShape DEF Next

\* Every variable keeps its type: in particular a job is never charged more
\* attempts than its policy allows and never reports more than 100 %.
THEOREM TypeCorrect == Spec => []TypeOK
  <1>1. Spec => []Shape
    BY ShapeInit, ShapeNext, PTL DEF Spec
  <1>2. Shape => TypeOK
    BY DEF Shape
  <1> QED BY <1>1, <1>2, PTL

-----------------------------------------------------------------------------
(* Fencing: what was decided on a row that has changed is never written *)

NotYetAdmitted ==
  \A j \in Jobs :
    jobs[j].status = "absent" => jobs[j].version = 0 /\ jobs[j].attempts = 0

FencingInv ==
  /\ Shape
  /\ NotYetAdmitted
  /\ DecisionsHoldOrAreFenced
  /\ WaitingJobHasAttemptLeft
  /\ LeaseEndsByDeadline

\* What every row a transaction may leave has in common.
SoundRow(row, before) ==
  /\ row \in Job
  /\ row.version = before.version + 1
  /\ row.status # "absent"
  /\ row.status \in Waiting => row.attempts < MaxAttempts
  /\ IF row.status = "running"
       THEN row.owner # NoWorker /\ row.lease \in 0 .. row.created + DeadlineTime
       ELSE row.owner = NoWorker /\ row.lease = NoLease

\* At the start there is no row and no decision.
LEMMA FencingInit == Init => FencingInv
  BY ShapeInit
  DEF Init, FencingInv, NotYetAdmitted, DecisionsHoldOrAreFenced,
      WaitingJobHasAttemptLeft, LeaseEndsByDeadline, InStatus, Waiting, NoCall, WorkerOps

\* A row released from its lease is sound if it is only queued with attempts left.
LEMMA ReleasedSound ==
  ASSUME NEW before \in Job, NEW next \in JobStatus, NEW at \in Nat,
         next \notin {"absent", "running"},
         next \in Waiting => before.attempts < MaxAttempts
  PROVE  /\ SoundRow(Released(before, next), before)
         /\ SoundRow([Released(before, next) EXCEPT !.available = at], before)
  <1>1. Released(before, next) \in Job
    BY ReleasedType
  <1>2. [Released(before, next) EXCEPT !.available = at] \in Job
    BY <1>1 DEF Job
  <1> QED BY <1>1, <1>2 DEF SoundRow, Released, Job

\* A transaction writes one job row, a sound one, with the next version.
LEMMA TransactionWrites ==
  ASSUME FencingInv, NEW c \in Callers, Transaction(c)
  PROVE  \E j \in Jobs, row \in Job :
           jobs' = [jobs EXCEPT ![j] = row] /\ SoundRow(row, jobs[j])
  <1> DEFINE call == calls[c]
  <1> USE DEF WorkerOps
  <1>1. /\ call \in Call
        /\ jobs \in [Jobs -> Job]
        /\ DeadlineTime \in Nat
    BY PolicyAssumption DEF FencingInv, Shape, TypeOK
  <1>2. CASE EnqueueInsert(c)
    <2> DEFINE row == [jobs[call.job] EXCEPT !.status = "queued", !.version = 1,
                                             !.available = call.at, !.created = call.now]
    <2>1. /\ call.job \in Jobs /\ jobs[call.job] \in Job
          /\ jobs[call.job].status = "absent"
          /\ jobs' = [jobs EXCEPT ![call.job] = row]
      BY <1>1, <1>2 DEF EnqueueInsert, FencingInv, Shape, CallShape
    <2>2. row \in Job
      BY <1>1, <2>1 DEF Job, Call, JobStatus, Waiting
    <2>3. /\ jobs[call.job].version = 0 /\ jobs[call.job].attempts = 0
          /\ jobs[call.job].owner = NoWorker /\ jobs[call.job].lease = NoLease
      BY <2>1 DEF FencingInv, NotYetAdmitted, LeaseEndsByDeadline
    <2>4. SoundRow(row, jobs[call.job])
      BY <2>1, <2>2, <2>3, PolicyAssumption DEF SoundRow, Job
    <2> QED BY <2>1, <2>2, <2>4
  <1>3. CASE ClaimTake(c)
    <2>1. PICK j \in Jobs :
            /\ jobs[j].attempts < MaxAttempts
            /\ jobs' = [jobs EXCEPT ![j] =
                          Leased(@, call.worker, LeaseFrom(call.now, j))]
      BY <1>3 DEF ClaimTake
    <2>2. /\ call.worker \in Workers /\ call.worker # NoWorker /\ call.now \in Nat
          /\ jobs[j] \in Job
      BY <1>1, <1>3, NullAssumption DEF ClaimTake, FencingInv, Shape, CallShape, Call
    <2>3. LeaseFrom(call.now, j) \in Nat /\ LeaseFrom(call.now, j) <= Deadline(j)
      BY <2>2, LeaseFromType DEF FencingInv, Shape
    <2> DEFINE row == Leased(jobs[j], call.worker, LeaseFrom(call.now, j))
    <2>4. row \in Job
      BY <2>1, <2>2, <2>3, LeasedType
    <2>5. SoundRow(row, jobs[j])
      BY <1>1, <2>2, <2>3, <2>4 DEF SoundRow, Leased, Job, Deadline, Waiting
    <2> QED BY <2>1, <2>4, <2>5
  <1>4. CASE Heartbeat(c)
    <2>1. /\ call.job \in Jobs /\ jobs[call.job] \in Job
          /\ jobs[call.job].status = "running"
          /\ call.fence = jobs[call.job].version
          /\ jobs' = [jobs EXCEPT ![call.job] = Extended(@, call.progress, call.at)]
      BY <1>1, <1>4 DEF Heartbeat, LeaseMatches, FencingInv, Shape, CallShape
    <2>2. call.at \in Nat /\ call.at <= Deadline(call.job)
      BY <1>1, <1>4, <2>1 DEF Heartbeat, FencingInv, DecisionsHoldOrAreFenced, Call
    <2> DEFINE row == Extended(jobs[call.job], call.progress, call.at)
    <2>3. row \in Job
      BY <1>1, <2>1, ExtendedType DEF Call
    <2>4. jobs[call.job].owner # NoWorker
      BY <2>1 DEF FencingInv, LeaseEndsByDeadline
    <2>5. SoundRow(row, jobs[call.job])
      BY <1>1, <2>1, <2>2, <2>3, <2>4 DEF SoundRow, Extended, Job, Deadline, Waiting
    <2> QED BY <2>1, <2>3, <2>5
  <1>5. CASE Succeed(c)
    <2>1. /\ call.job \in Jobs /\ jobs[call.job] \in Job
          /\ jobs' = [jobs EXCEPT ![call.job] =
                        [Released(@, "succeeded") EXCEPT !.progress = MaxProgress + 1]]
      BY <1>1, <1>5 DEF Succeed, FencingInv, Shape, CallShape
    <2>2. SoundRow(Released(jobs[call.job], "succeeded"), jobs[call.job])
      BY <2>1, ReleasedSound DEF JobStatus, Settled, Uncancellable, Waiting
    <2> DEFINE row == [Released(jobs[call.job], "succeeded") EXCEPT
                         !.progress = MaxProgress + 1]
    <2>3. row \in Job
      BY <2>2, InputAssumption DEF SoundRow, Job
    <2>4. SoundRow(row, jobs[call.job])
      BY <2>2, <2>3 DEF SoundRow, Job
    <2> QED BY <2>1, <2>3, <2>4
  <1>6. CASE Fail(c)
    <2>1. /\ call.job \in Jobs /\ jobs[call.job] \in Job
          /\ call.fence = jobs[call.job].version
          /\ call.next \in {"failed", "dead_letter", "retry_wait"}
          /\ call.next \in JobStatus /\ call.at \in Nat
          /\ jobs' = [jobs EXCEPT ![call.job] =
                        [Released(@, call.next) EXCEPT !.available = call.at]]
      BY <1>1, <1>6 DEF Fail, LeaseMatches, FencingInv, Shape, CallShape, Call
    <2>2. call.next \in Waiting => jobs[call.job].attempts < MaxAttempts
      BY <1>6, <2>1 DEF Fail, FencingInv, DecisionsHoldOrAreFenced, Waiting
    <2>3. SoundRow([Released(jobs[call.job], call.next) EXCEPT !.available = call.at],
                   jobs[call.job])
      BY <2>1, <2>2, ReleasedSound
    <2> QED BY <2>1, <2>3 DEF SoundRow
  <1>7. CASE Cancel(c)
    <2>1. /\ call.job \in Jobs /\ jobs[call.job] \in Job
          /\ jobs' = [jobs EXCEPT ![call.job] = Released(@, "cancelled")]
      BY <1>1, <1>7 DEF Cancel, FencingInv, Shape, CallShape
    <2>2. SoundRow(Released(jobs[call.job], "cancelled"), jobs[call.job])
      BY <2>1, ReleasedSound DEF JobStatus, Settled, Uncancellable, Waiting
    <2> QED BY <2>1, <2>2 DEF SoundRow
  <1>8. CASE Recover(c)
    <2>1. /\ call.job \in Jobs /\ jobs[call.job] \in Job
          /\ call.fence = jobs[call.job].version
          /\ call.next \in {"dead_letter", "retry_wait"}
          /\ call.next \in JobStatus /\ call.at \in Nat
          /\ jobs' = [jobs EXCEPT ![call.job] =
                        [Released(@, call.next) EXCEPT !.available = call.at]]
      BY <1>1, <1>8 DEF Recover, SeenMatches, FencingInv, Shape, CallShape, Call
    <2>2. call.next \in Waiting => jobs[call.job].attempts < MaxAttempts
      BY <1>8, <2>1 DEF Recover, FencingInv, DecisionsHoldOrAreFenced, Waiting
    <2>3. SoundRow([Released(jobs[call.job], call.next) EXCEPT !.available = call.at],
                   jobs[call.job])
      BY <2>1, <2>2, ReleasedSound
    <2> QED BY <2>1, <2>3 DEF SoundRow
  <1> QED BY <1>2, <1>3, <1>4, <1>5, <1>6, <1>7, <1>8 DEF Transaction

\* So it leaves every other call that had read the row with an old fence.
LEMMA TransactionFencing ==
  ASSUME FencingInv, NEW c \in Callers, Transaction(c)
  PROVE  FencingInv'
  <1>1. Shape'
    BY TransactionShape DEF FencingInv
  <1>2. PICK j \in Jobs, row \in Job :
          jobs' = [jobs EXCEPT ![j] = row] /\ SoundRow(row, jobs[j])
    BY TransactionWrites
  <1>3. /\ jobs \in [Jobs -> Job]
        /\ calls \in [Callers -> Call]
        /\ calls' = [calls EXCEPT ![c] = NoCall]
    BY DEF FencingInv, Shape, TypeOK, Transaction, EnqueueInsert, ClaimTake, Heartbeat,
           Succeed, Fail, Cancel, Recover, Return
  <1>4. /\ jobs'[j] = row
        /\ \A k \in Jobs \ {j} : jobs'[k] = jobs[k]
    BY <1>2, <1>3
  <1>5. NotYetAdmitted'
    BY <1>2, <1>4 DEF FencingInv, NotYetAdmitted, SoundRow
  <1>6. DecisionsHoldOrAreFenced'
    <2> SUFFICES ASSUME NEW d \in Callers,
                        calls'[d].op \in WorkerOps \cup {"cancel", "recover"}
                 PROVE  LET call == calls'[d]  job == jobs'[call.job] IN
                        /\ call.fence <= job.version
                        /\ call.fence = job.version =>
                             /\ call.op \in {"fail", "recover"} /\ call.next = "retry_wait"
                                  => job.attempts < MaxAttempts
                             /\ call.op = "heartbeat" => call.at <= job.created + DeadlineTime
      BY DEF DecisionsHoldOrAreFenced, Deadline
    <2>1. d # c /\ calls'[d] = calls[d]
      BY <1>3 DEF NoCall, WorkerOps
    <2>2. /\ calls[d].job \in Jobs /\ calls[d].fence \in Nat
          /\ calls[d].fence <= jobs[calls[d].job].version
      BY <1>3, <2>1 DEF FencingInv, Shape, CallShape, DecisionsHoldOrAreFenced, WorkerOps, Call
    <2>3. CASE calls[d].job = j
      <3>1. calls[d].fence < row.version
        BY <1>2, <1>3, <2>2, <2>3 DEF SoundRow, Job
      <3> QED BY <1>2, <1>4, <2>1, <2>2, <2>3, <3>1 DEF Job
    <2>4. CASE calls[d].job # j
      <3>1. jobs'[calls[d].job] = jobs[calls[d].job]
        BY <1>4, <2>2, <2>4
      <3> QED BY <1>3, <2>1, <2>2, <3>1
              DEF FencingInv, DecisionsHoldOrAreFenced, Deadline, WorkerOps
    <2> QED BY <2>3, <2>4
  <1>7. WaitingJobHasAttemptLeft'
    BY <1>2, <1>4 DEF FencingInv, WaitingJobHasAttemptLeft, InStatus, SoundRow
  <1>8. LeaseEndsByDeadline'
    BY <1>2, <1>4 DEF FencingInv, LeaseEndsByDeadline, SoundRow, Deadline
  <1> QED BY <1>1, <1>5, <1>6, <1>7, <1>8 DEF FencingInv

\* Putting a call in flight that was decided on the row as it is now.
LEMMA SendFencing ==
  ASSUME FencingInv, Shape', NEW c \in Callers, NEW call \in Call,
         calls' = [calls EXCEPT ![c] = call], jobs' = jobs,
         call.op \in WorkerOps \cup {"cancel", "recover"} =>
           /\ call.job \in Jobs
           /\ call.fence = jobs[call.job].version
           /\ call.op \in {"fail", "recover"} /\ call.next = "retry_wait"
                => jobs[call.job].attempts < MaxAttempts
           /\ call.op = "heartbeat" => call.at <= Deadline(call.job)
  PROVE  FencingInv'
  <1>1. DecisionsHoldOrAreFenced'
    <2> SUFFICES ASSUME NEW d \in Callers,
                        calls'[d].op \in WorkerOps \cup {"cancel", "recover"}
                 PROVE  LET dc == calls'[d]  job == jobs[dc.job] IN
                        /\ dc.fence <= job.version
                        /\ dc.fence = job.version =>
                             /\ dc.op \in {"fail", "recover"} /\ dc.next = "retry_wait"
                                  => job.attempts < MaxAttempts
                             /\ dc.op = "heartbeat" => dc.at <= Deadline(dc.job)
      BY DEF DecisionsHoldOrAreFenced, Deadline
    <2>1. CASE d = c
      BY <2>1 DEF FencingInv, Shape, TypeOK, Job
    <2>2. CASE d # c
      BY <2>2 DEF FencingInv, Shape, TypeOK, DecisionsHoldOrAreFenced
    <2> QED BY <2>1, <2>2
  <1> QED BY <1>1 DEF FencingInv, NotYetAdmitted, WaitingJobHasAttemptLeft, InStatus,
                      LeaseEndsByDeadline, Deadline

\* A call that reads a row decides by it, with the fence the row has then.
LEMMA ReadFencing ==
  ASSUME FencingInv, NEW c \in Callers,
         \/ \E j \in Jobs : EnqueueCount(c, j) \/ CancelRead(c, j) \/ RecoverRead(c, j)
         \/ \E w \in Workers : ClaimCount(c, w) \/ HeartbeatRead(c, w)
                                 \/ SucceedRead(c, w) \/ FailRead(c, w)
  PROVE  FencingInv'
  <1> USE DEF WorkerOps
  <1>1. Shape' /\ Shape
    BY ReadShape DEF FencingInv
  <1>2. jobs' = jobs
    BY DEF EnqueueCount, CancelRead, RecoverRead, ClaimCount, HeartbeatRead, SucceedRead,
           FailRead
  <1> DEFINE call == calls'[c]
  <1>3. /\ call \in Call
        /\ calls' = [calls EXCEPT ![c] = call]
        /\ call.op \notin {"idle", "claim"} => call.job \in Jobs
    <2>1. \E new : calls' = [calls EXCEPT ![c] = new]
      BY DEF Send, EnqueueCount, CancelRead, RecoverRead, ClaimCount, HeartbeatRead, SucceedRead,
             FailRead
    <2> QED BY <1>1, <2>1 DEF Shape, TypeOK, CallShape
  <1>4. Sampled \subseteq Nat
    BY <1>1, SampledType DEF Shape
  <1>5. \A j \in Jobs : jobs[j].attempts \in Nat /\ MaxAttempts \in Nat
    BY <1>1, PolicyAssumption DEF Shape, TypeOK, Job
  <1>6. call.op \in WorkerOps \cup {"cancel", "recover"} =>
          /\ call.job \in Jobs
          /\ call.fence = jobs[call.job].version
          /\ call.op \in {"fail", "recover"} /\ call.next = "retry_wait"
               => jobs[call.job].attempts < MaxAttempts
          /\ call.op = "heartbeat" => call.at <= Deadline(call.job)
    <2>1. calls \in [Callers -> Call]
      BY <1>1 DEF Shape, TypeOK
    <2>2. CASE \E j \in Jobs : EnqueueCount(c, j)
      <3>1. call.op = "enqueue"
        BY <2>1, <2>2 DEF EnqueueCount, Send, NoCall
      <3> QED BY <3>1
    <2>3. CASE \E w \in Workers : ClaimCount(c, w)
      <3>1. call.op = "claim"
        BY <2>1, <2>3 DEF ClaimCount, Send, NoCall
      <3> QED BY <3>1
    <2>4. CASE \E j \in Jobs : CancelRead(c, j)
      <3>1. PICK j \in Jobs :
              Send(c, [NoCall EXCEPT !.op = "cancel", !.job = j,
                                     !.fence = jobs[j].version,
                                     !.expected = jobs[j].status])
        BY <2>4 DEF CancelRead
      <3>2. call.op = "cancel" /\ call.job = j /\ call.fence = jobs[j].version
        BY <2>1, <3>1 DEF Send, NoCall
      <3> QED BY <3>2
    <2>5. CASE \E j \in Jobs : RecoverRead(c, j)
      <3>1. PICK j \in Jobs, now \in Sampled :
              \E at \in AvailableAgain(j, AfterSweep(j, now), now) :
                Send(c, [NoCall EXCEPT !.op = "recover", !.job = j,
                                       !.fence = jobs[j].version, !.now = now,
                                       !.expected = jobs[j].status,
                                       !.next = AfterSweep(j, now), !.at = at,
                                       !.expired = Deadline(j) <= now])
        BY <2>5 DEF RecoverRead
      <3>2. /\ call.op = "recover" /\ call.job = j
            /\ call.fence = jobs[j].version /\ call.next = AfterSweep(j, now)
        BY <2>1, <3>1 DEF Send, NoCall
      <3>3. call.next = "retry_wait" => jobs[j].attempts < MaxAttempts
        BY <1>5, <3>2 DEF AfterSweep
      <3> QED BY <3>2, <3>3
    <2>6. CASE \E w \in Workers : HeartbeatRead(c, w)
      <3>1. PICK w \in Workers, now \in Sampled :
              /\ HoldsLease(w, now)
              /\ \E p \in Reportable :
                   Send(c, [WorkerCall("heartbeat", w, now) EXCEPT
                              !.at = LeaseFrom(now, held[w].job), !.progress = p])
        BY <2>6 DEF HeartbeatRead
      <3>2. /\ call.op = "heartbeat" /\ call.job = held[w].job
            /\ call.fence = held[w].fence /\ call.at = LeaseFrom(now, held[w].job)
        BY <2>1, <3>1 DEF WorkerCall, Send, NoCall
      <3>3. call.at <= Deadline(call.job)
        BY <1>1, <1>3, <1>4, <3>2, LeaseFromType DEF Shape
      <3> QED BY <1>3, <3>1, <3>2, <3>3 DEF HoldsLease
    <2>7. CASE \E w \in Workers : SucceedRead(c, w)
      <3>1. PICK w \in Workers, now \in Sampled :
              HoldsLease(w, now) /\ Send(c, WorkerCall("succeed", w, now))
        BY <2>7 DEF SucceedRead
      <3>2. /\ call.op = "succeed" /\ call.job = held[w].job
            /\ call.fence = held[w].fence
        BY <2>1, <3>1 DEF WorkerCall, Send, NoCall
      <3> QED BY <1>3, <3>1, <3>2 DEF HoldsLease
    <2>8. CASE \E w \in Workers : FailRead(c, w)
      <3>1. PICK w \in Workers, now \in Sampled, retryable \in BOOLEAN :
              /\ HoldsLease(w, now)
              /\ \E at \in AvailableAgain(held[w].job,
                             AfterFailure(held[w].job, now, retryable), now) :
                   Send(c, [WorkerCall("fail", w, now) EXCEPT
                              !.next = AfterFailure(held[w].job, now, retryable),
                              !.at = at])
        BY <2>8 DEF FailRead
      <3>2. /\ call.op = "fail" /\ call.job = held[w].job /\ call.fence = held[w].fence
            /\ call.next = AfterFailure(held[w].job, now, retryable)
        BY <2>1, <3>1 DEF WorkerCall, Send, NoCall
      <3>3. call.next = "retry_wait" => jobs[call.job].attempts < MaxAttempts
        BY <1>3, <1>5, <3>2 DEF AfterFailure
      <3> QED BY <1>3, <3>1, <3>2, <3>3 DEF HoldsLease
    <2> QED BY <2>2, <2>3, <2>4, <2>5, <2>6, <2>7, <2>8
  <1> QED BY <1>1, <1>2, <1>3, <1>6, SendFencing

\* Every step keeps the fencing invariant.
LEMMA FencingNext == FencingInv /\ [Next]_vars => FencingInv'
  <1> SUFFICES ASSUME FencingInv, [Next]_vars PROVE FencingInv'
    OBVIOUS
  <1>1. Shape'
    BY ShapeNext DEF FencingInv
  <1>2. CASE Tick
    BY <1>1, <1>2
    DEF Tick, FencingInv, NotYetAdmitted, DecisionsHoldOrAreFenced,
        WaitingJobHasAttemptLeft, InStatus, LeaseEndsByDeadline, Deadline
  <1>3. ASSUME NEW c \in Callers, Rollback(c) PROVE FencingInv'
    <2>1. calls' = [calls EXCEPT ![c] = NoCall] /\ jobs' = jobs /\ NoCall \in Call
      BY <1>3, InputAssumption DEF Rollback, Return, NoCall, Call, Ops, JobStatus
    <2>2. NoCall.op = "idle"
      BY DEF NoCall
    <2> QED BY <1>1, <2>1, <2>2, SendFencing DEF WorkerOps
  <1>4. ASSUME NEW c \in Callers, Transaction(c) PROVE FencingInv'
    BY <1>4, TransactionFencing
  <1>5. CASE UNCHANGED vars
    BY <1>1, <1>5
    DEF vars, FencingInv, NotYetAdmitted, DecisionsHoldOrAreFenced,
        WaitingJobHasAttemptLeft, InStatus, LeaseEndsByDeadline, Deadline
  <1> QED BY <1>2, <1>3, <1>4, <1>5, ReadFencing DEF Next

\* The fencing invariant holds throughout.
LEMMA FencingAlways == Spec => []FencingInv
  BY FencingInit, FencingNext, PTL DEF Spec

\* Whatever is written was decided on the row it is written to: a call whose
\* row has moved on carries a fence that can never match again.
THEOREM DecisionsAreFenced == Spec => []DecisionsHoldOrAreFenced
  <1>1. FencingInv => DecisionsHoldOrAreFenced
    BY DEF FencingInv
  <1> QED BY <1>1, FencingAlways, PTL

\* No job with its attempts used up is ever back in the queue, where it would
\* block the jobs behind it.
THEOREM QueueIsClaimable == Spec => []WaitingJobHasAttemptLeft
  <1>1. FencingInv => WaitingJobHasAttemptLeft
    BY DEF FencingInv
  <1> QED BY <1>1, FencingAlways, PTL

\* A job is leased exactly while it runs, and no lease outlives the deadline.
THEOREM LeasesEndByDeadline == Spec => []LeaseEndsByDeadline
  <1>1. FencingInv => LeaseEndsByDeadline
    BY DEF FencingInv
  <1> QED BY <1>1, FencingAlways, PTL

-----------------------------------------------------------------------------
(* The job rows and the run rows agree *)

RunsInv == FencingInv /\ RunningJobHasOneRun

\* At the start there are neither jobs nor runs.
LEMMA RunsInit == Init => RunsInv
  BY FencingInit DEF RunsInv, Init, RunningJobHasOneRun, RunningRuns

\* Rows change in the second half of a call only.
LEMMA OnlyTransactionsWrite ==
  ASSUME [Next]_vars
  PROVE  \/ \E c \in Callers : Transaction(c)
         \/ UNCHANGED <<jobs, runs, outbox>>
  <1>1. CASE Tick
    BY <1>1 DEF Tick
  <1>2. ASSUME NEW c \in Callers, Rollback(c) PROVE UNCHANGED <<jobs, runs, outbox>>
    BY <1>2 DEF Rollback
  <1>3. ASSUME NEW c \in Callers, NEW j \in Jobs,
               EnqueueCount(c, j) \/ CancelRead(c, j) \/ RecoverRead(c, j)
        PROVE  UNCHANGED <<jobs, runs, outbox>>
    BY <1>3 DEF EnqueueCount, CancelRead, RecoverRead
  <1>4. ASSUME NEW c \in Callers, NEW w \in Workers,
               \/ ClaimCount(c, w) \/ HeartbeatRead(c, w)
               \/ SucceedRead(c, w) \/ FailRead(c, w)
        PROVE  UNCHANGED <<jobs, runs, outbox>>
    BY <1>4 DEF ClaimCount, HeartbeatRead, SucceedRead, FailRead
  <1>5. CASE UNCHANGED vars
    BY <1>5 DEF vars
  <1> QED BY <1>1, <1>2, <1>3, <1>4, <1>5 DEF Next

\* The id a claim gets for its run is unused.
LEMMA FreshRunsAreUnused ==
  ASSUME NEW r \in FreshRuns PROVE r \in Runs /\ runs[r].status = "none"
  <1> DEFINE unused == {x \in Runs : runs[x].status = "none"}
  <1>1. unused # {} /\ r = CHOOSE x \in unused : TRUE
    BY DEF FreshRuns
  <1>2. r \in unused
    BY <1>1
  <1> QED BY <1>2

\* Closing the one running run of a job leaves it none, and no other job is hit.
LEMMA ClosingOneRun ==
  ASSUME RunsInv, NEW call \in Call, NEW outcome \in RunStatus \ {"running"},
         call.job \in Jobs, call.run \in Runs, jobs[call.job].status = "running",
         RunMatches(call), CloseRun(call.run, outcome),
         NEW row, row.status # "running", jobs' = [jobs EXCEPT ![call.job] = row]
  PROVE  RunningJobHasOneRun'
  <1>1. runs \in [Runs -> Run] /\ jobs \in [Jobs -> Job]
    BY DEF RunsInv, FencingInv, Shape, TypeOK
  <1>2. RunningRuns(call.job) = {call.run}
    BY DEF RunsInv, RunningJobHasOneRun, RunMatches, RunningRuns
  <1>3. \A j \in Jobs : RunningRuns(j)' = RunningRuns(j) \ {call.run}
    BY <1>1 DEF RunningRuns, CloseRun, Run
  <1>4. \A j \in Jobs \ {call.job} : call.run \notin RunningRuns(j) /\ jobs'[j] = jobs[j]
    BY <1>1, <1>2 DEF RunningRuns
  <1>5. RunningRuns(call.job)' = {} /\ jobs'[call.job].status # "running"
    BY <1>1, <1>2, <1>3
  <1>6. ASSUME NEW j \in Jobs \ {call.job}
        PROVE  RunningRuns(j)' = RunningRuns(j) /\ jobs'[j] = jobs[j]
    <2>1. RunningRuns(j)' = RunningRuns(j) \ {call.run}
      BY <1>3
    <2>2. RunningRuns(j) \ {call.run} = RunningRuns(j)
      BY <1>4
    <2> QED BY <1>4, <2>1, <2>2
  <1> QED BY <1>5, <1>6 DEF RunsInv, RunningJobHasOneRun

\* Closing all running runs of a job leaves it none, and no other job is hit.
LEMMA ClosingAllRuns ==
  ASSUME RunsInv, NEW k \in Jobs, NEW outcome \in RunStatus \ {"running"},
         CloseRuns(k, outcome),
         NEW row, row.status # "running", jobs' = [jobs EXCEPT ![k] = row]
  PROVE  RunningJobHasOneRun'
  <1>1. runs \in [Runs -> Run] /\ jobs \in [Jobs -> Job]
    BY DEF RunsInv, FencingInv, Shape, TypeOK
  <1>2. RunningRuns(k)' = {} /\ jobs'[k].status # "running"
    BY <1>1 DEF RunningRuns, CloseRuns, Run
  <1>3. ASSUME NEW j \in Jobs \ {k}
        PROVE  RunningRuns(j)' = RunningRuns(j) /\ jobs'[j] = jobs[j]
    BY <1>1 DEF RunningRuns, CloseRuns, Run
  <1> QED BY <1>2, <1>3 DEF RunsInv, RunningJobHasOneRun

\* Every transaction leaves the job rows and the run rows in agreement.
LEMMA TransactionRuns ==
  ASSUME RunsInv, NEW c \in Callers, Transaction(c)
  PROVE  RunningJobHasOneRun'
  <1> DEFINE call == calls[c]
  <1> USE DEF WorkerOps
  <1>1. /\ call \in Call /\ jobs \in [Jobs -> Job] /\ runs \in [Runs -> Run]
        /\ call.op \notin {"idle", "claim"} => call.job \in Jobs
        /\ call.op \in WorkerOps => call.run \in Runs
    BY DEF RunsInv, FencingInv, Shape, TypeOK, CallShape
  <1>2. CASE EnqueueInsert(c)
    <2>1. /\ call.job \in Jobs /\ jobs[call.job].status = "absent" /\ runs' = runs
          /\ jobs'[call.job].status = "queued"
          /\ \A j \in Jobs \ {call.job} : jobs'[j] = jobs[j]
      BY <1>1, <1>2 DEF EnqueueInsert, Job
    <2>2. \A j \in Jobs : RunningRuns(j)' = RunningRuns(j)
      BY <2>1 DEF RunningRuns
    <2> QED BY <2>1, <2>2 DEF RunsInv, RunningJobHasOneRun
  <1>3. CASE ClaimTake(c)
    <2>1. PICK k \in Jobs, r \in FreshRuns :
            /\ Candidate(call.now, k)
            /\ jobs' = [jobs EXCEPT ![k] =
                          Leased(@, call.worker, LeaseFrom(call.now, k))]
            /\ runs' = [runs EXCEPT ![r] = [job |-> k, status |-> "running"]]
      BY <1>3 DEF ClaimTake
    <2>2. r \in Runs /\ runs[r].status = "none"
      BY FreshRunsAreUnused
    <2>3. RunningRuns(k) = {}
      BY <2>1 DEF Candidate, Eligible, InStatus, Waiting, RunsInv, RunningJobHasOneRun
    <2>4. jobs'[k].status = "running" /\ \A j \in Jobs \ {k} : jobs'[j] = jobs[j]
      BY <1>1, <2>1 DEF Leased, Job
    <2>5. RunningRuns(k)' = {r}
      BY <1>1, <2>1, <2>2, <2>3 DEF RunningRuns
    <2>6. \A j \in Jobs \ {k} : RunningRuns(j)' = RunningRuns(j)
      BY <1>1, <2>1, <2>2 DEF RunningRuns
    <2> QED BY <2>2, <2>4, <2>5, <2>6 DEF RunsInv, RunningJobHasOneRun
  <1>4. CASE Heartbeat(c)
    <2>1. /\ call.job \in Jobs /\ runs' = runs
          /\ \A j \in Jobs : jobs'[j].status = jobs[j].status
      BY <1>1, <1>4 DEF Heartbeat, Extended, Job
    <2>2. \A j \in Jobs : RunningRuns(j)' = RunningRuns(j)
      BY <2>1 DEF RunningRuns
    <2> QED BY <2>1, <2>2 DEF RunsInv, RunningJobHasOneRun
  <1>5. CASE Succeed(c)
    <2> DEFINE row == [Released(jobs[call.job], "succeeded") EXCEPT
                         !.progress = MaxProgress + 1]
    <2>1. /\ call.job \in Jobs /\ call.run \in Runs /\ jobs[call.job].status = "running"
          /\ RunMatches(call) /\ CloseRun(call.run, "succeeded")
          /\ jobs' = [jobs EXCEPT ![call.job] = row]
      BY <1>1, <1>5 DEF Succeed, LeaseMatches
    <2>2. row.status # "running"
      BY <1>1, <2>1 DEF Released, Job
    <2> HIDE DEF row
    <2> QED BY <1>1, <2>1, <2>2, ClosingOneRun DEF RunStatus
  <1>6. CASE Fail(c)
    <2> DEFINE row == [Released(jobs[call.job], call.next) EXCEPT !.available = call.at]
    <2>1. /\ call.job \in Jobs /\ call.run \in Runs /\ jobs[call.job].status = "running"
          /\ RunMatches(call) /\ CloseRun(call.run, "failed")
          /\ jobs' = [jobs EXCEPT ![call.job] = row]
      BY <1>1, <1>6 DEF Fail, LeaseMatches
    <2>2. call.next # "running"
      BY <1>6 DEF Fail, RunsInv, FencingInv, Shape, CallShape
    <2>3. row.status # "running"
      BY <1>1, <2>1, <2>2 DEF Released, Job
    <2> HIDE DEF row
    <2> QED BY <1>1, <2>1, <2>3, ClosingOneRun DEF RunStatus
  <1>7. CASE Cancel(c)
    <2> DEFINE row == Released(jobs[call.job], "cancelled")
    <2>1. /\ call.job \in Jobs /\ CloseRuns(call.job, "cancelled")
          /\ jobs' = [jobs EXCEPT ![call.job] = row]
      BY <1>1, <1>7 DEF Cancel
    <2>2. row.status # "running"
      BY <1>1, <2>1 DEF Released, Job
    <2> HIDE DEF row
    <2> QED BY <2>1, <2>2, ClosingAllRuns DEF RunStatus
  <1>8. CASE Recover(c)
    <2> DEFINE row == [Released(jobs[call.job], call.next) EXCEPT !.available = call.at]
    <2>1. /\ call.job \in Jobs /\ CloseRuns(call.job, "failed")
          /\ jobs' = [jobs EXCEPT ![call.job] = row]
      BY <1>1, <1>8 DEF Recover
    <2>2. call.next # "running"
      BY <1>8 DEF Recover, RunsInv, FencingInv, Shape, CallShape
    <2>3. row.status # "running"
      BY <1>1, <2>1, <2>2 DEF Released, Job
    <2> HIDE DEF row
    <2> QED BY <2>1, <2>3, ClosingAllRuns DEF RunStatus
  <1> QED BY <1>2, <1>3, <1>4, <1>5, <1>6, <1>7, <1>8 DEF Transaction

\* Every step keeps jobs and runs in agreement.
LEMMA RunsNext == RunsInv /\ [Next]_vars => RunsInv'
  <1> SUFFICES ASSUME RunsInv, [Next]_vars PROVE RunsInv'
    OBVIOUS
  <1>1. FencingInv'
    BY FencingNext DEF RunsInv
  <1>2. ASSUME NEW c \in Callers, Transaction(c) PROVE RunsInv'
    BY <1>1, <1>2, TransactionRuns DEF RunsInv
  <1>3. ASSUME UNCHANGED <<jobs, runs>> PROVE RunsInv'
    BY <1>1, <1>3 DEF RunsInv, RunningJobHasOneRun, RunningRuns
  <1> QED BY <1>2, <1>3, OnlyTransactionsWrite

\* Jobs and runs agree throughout.
LEMMA RunsAlways == Spec => []RunsInv
  BY RunsInit, RunsNext, PTL DEF Spec

\* A running job has exactly one running run, any other job none.
THEOREM JobsAndRunsAgree == Spec => []RunningJobHasOneRun
  <1>1. RunsInv => RunningJobHasOneRun
    BY DEF RunsInv
  <1> QED BY <1>1, RunsAlways, PTL

-----------------------------------------------------------------------------
(* Outcomes are final *)

OutcomeStep ==
  /\ \A r \in Runs : runs[r].status \in RunStatus \ {"none", "running"}
                       => runs'[r] = runs[r]
  /\ \A j \in Jobs : jobs[j].status \in Settled =>
       \/ jobs'[j] = jobs[j]
       \/ jobs[j].status = "failed" /\ jobs'[j].status = "cancelled"

\* No transaction writes to what is settled.
LEMMA TransactionKeepsOutcomes ==
  ASSUME RunsInv, NEW c \in Callers, Transaction(c)
  PROVE  OutcomeStep
  <1> DEFINE call == calls[c]
  <1> USE DEF WorkerOps
  <1>1. /\ call \in Call /\ jobs \in [Jobs -> Job] /\ runs \in [Runs -> Run]
        /\ call.op \notin {"idle", "claim"} => call.job \in Jobs
        /\ call.op \in WorkerOps => call.run \in Runs
        /\ call.op = "recover" => call.expected \in Waiting \cup {"running"}
        /\ call.op = "cancel" => call.expected \notin Uncancellable \cup {"absent"}
    BY DEF RunsInv, FencingInv, Shape, TypeOK, CallShape
  <1>2. CASE EnqueueInsert(c)
    BY <1>1, <1>2 DEF EnqueueInsert, OutcomeStep, Settled, Uncancellable
  <1>3. CASE ClaimTake(c)
    <2>1. PICK k \in Jobs, r \in FreshRuns :
            /\ Candidate(call.now, k)
            /\ jobs' = [jobs EXCEPT ![k] =
                          Leased(@, call.worker, LeaseFrom(call.now, k))]
            /\ runs' = [runs EXCEPT ![r] = [job |-> k, status |-> "running"]]
      BY <1>3 DEF ClaimTake
    <2>2. r \in Runs /\ runs[r].status = "none" /\ jobs[k].status \in Waiting
      BY <2>1, FreshRunsAreUnused DEF Candidate, Eligible, InStatus
    <2> QED BY <1>1, <2>1, <2>2 DEF OutcomeStep, Settled, Uncancellable, Waiting
  <1>4. CASE Heartbeat(c)
    BY <1>1, <1>4 DEF Heartbeat, LeaseMatches, OutcomeStep, Settled, Uncancellable
  <1>5. CASE Succeed(c)
    BY <1>1, <1>5
    DEF Succeed, LeaseMatches, RunMatches, CloseRun, OutcomeStep, Settled, Uncancellable
  <1>6. CASE Fail(c)
    BY <1>1, <1>6
    DEF Fail, LeaseMatches, RunMatches, CloseRun, OutcomeStep, Settled, Uncancellable
  <1>7. CASE Cancel(c)
    <2>1. \A r \in Runs : runs[r].status # "running" => runs'[r] = runs[r]
      BY <1>1, <1>7 DEF Cancel, CloseRuns, RunningRuns
    <2>2. /\ jobs[call.job].status \notin Uncancellable
          /\ jobs' = [jobs EXCEPT ![call.job] = Released(@, "cancelled")]
      BY <1>1, <1>7 DEF Cancel, SeenMatches
    <2>3. jobs'[call.job].status = "cancelled"
      BY <1>1, <1>7, <2>2 DEF Cancel, Released, Job
    <2> QED BY <1>1, <1>7, <2>1, <2>2, <2>3 DEF Cancel, OutcomeStep, Settled
  <1>8. CASE Recover(c)
    <2>1. \A r \in Runs : runs[r].status # "running" => runs'[r] = runs[r]
      BY <1>1, <1>8 DEF Recover, CloseRuns, RunningRuns
    <2>2. /\ jobs[call.job].status \in Waiting \cup {"running"}
          /\ \A j \in Jobs \ {call.job} : jobs'[j] = jobs[j]
      BY <1>1, <1>8 DEF Recover, SeenMatches
    <2> QED BY <2>1, <2>2 DEF OutcomeStep, Settled, Uncancellable, Waiting
  <1> QED BY <1>2, <1>3, <1>4, <1>5, <1>6, <1>7, <1>8 DEF Transaction

\* Once a run or a job is settled, no worker, sweep or cancel writes it again,
\* except to cancel a job that failed permanently.
THEOREM OutcomesStayFinal == Spec => OutcomesAreFinal
  <1>1. ASSUME RunsInv, [Next]_vars PROVE [OutcomeStep]_vars
    <2>1. ASSUME NEW c \in Callers, Transaction(c) PROVE OutcomeStep
      BY <1>1, <2>1, TransactionKeepsOutcomes
    <2>2. ASSUME UNCHANGED <<jobs, runs>> PROVE OutcomeStep
      BY <2>2 DEF OutcomeStep
    <2> QED BY <1>1, <2>1, <2>2, OnlyTransactionsWrite
  <1>2. Spec => [][OutcomeStep]_vars
    BY <1>1, RunsAlways, PTL DEF Spec
  <1> QED BY <1>2, PTL DEF OutcomesAreFinal, OutcomeStep
-----------------------------------------------------------------------------
(* A success is committed once *)

WonRuns(j) == {r \in RunsOf(j) : runs[r].status = "succeeded"}

OneWinner(j) ==
  IF jobs[j].status = "succeeded" THEN \E r \in Runs : WonRuns(j) = {r}
  ELSE WonRuns(j) = {}

SuccessInv ==
  /\ RunsInv
  /\ \A j \in Jobs : OneWinner(j)
  /\ \A j \in outbox : jobs[j].status = "succeeded"

\* At the start nothing has run and nothing was announced.
LEMMA SuccessInit == Init => SuccessInv
  BY RunsInit DEF Init, SuccessInv, OneWinner, WonRuns, RunsOf

\* A success adds its own run to the winners of its job, which had none.
LEMMA SucceedWins ==
  ASSUME SuccessInv, NEW c \in Callers, Succeed(c)
  PROVE  (\A j \in Jobs : OneWinner(j)') /\ (\A j \in outbox' : jobs'[j].status = "succeeded")
  <1>1. PICK k \in Jobs, run \in Runs : k = calls[c].job /\ run = calls[c].run
    BY DEF SuccessInv, RunsInv, FencingInv, Shape, CallShape, Succeed, WorkerOps
  <1>2. /\ jobs \in [Jobs -> Job] /\ runs \in [Runs -> Run]
        /\ outbox \subseteq Jobs
    BY DEF SuccessInv, RunsInv, FencingInv, Shape, TypeOK
  <1>3. /\ jobs[k].status = "running"
        /\ runs[run] = [job |-> k, status |-> "running"]
        /\ runs' = [runs EXCEPT ![run].status = "succeeded"]
        /\ outbox' \subseteq outbox \cup {k}
    BY <1>1 DEF Succeed, LeaseMatches, RunMatches, CloseRun
  <1>4. /\ jobs'[k].status = "succeeded"
        /\ \A j \in Jobs \ {k} : jobs'[j] = jobs[j]
    BY <1>1, <1>2 DEF Succeed, Released, Job
  <1>5. /\ runs'[run].job = k /\ runs'[run].status = "succeeded"
        /\ \A r \in Runs \ {run} : runs'[r] = runs[r]
    BY <1>2, <1>3 DEF Run
  <1>6. WonRuns(k) = {}
    BY <1>3 DEF SuccessInv, OneWinner
  <1>7. WonRuns(k)' = {run}
    <2>1. \A r \in Runs : ~(runs[r].job = k /\ runs[r].status = "succeeded")
      BY <1>6 DEF WonRuns, RunsOf
    <2> QED BY <1>5, <2>1 DEF WonRuns, RunsOf
  <1>8. \A j \in Jobs \ {k} : WonRuns(j)' = WonRuns(j)
    BY <1>3, <1>5 DEF WonRuns, RunsOf
  <1>9. ASSUME NEW j \in Jobs PROVE OneWinner(j)'
    <2>1. CASE j = k
      BY <1>4, <1>7, <2>1 DEF OneWinner
    <2>2. CASE j # k
      <3>1. OneWinner(j) /\ jobs'[j] = jobs[j] /\ WonRuns(j)' = WonRuns(j)
        BY <1>4, <1>8, <2>2 DEF SuccessInv
      <3> QED BY <3>1 DEF OneWinner
    <2> QED BY <2>1, <2>2
  <1>10. \A j \in outbox' : jobs'[j].status = "succeeded"
    BY <1>2, <1>3, <1>4 DEF SuccessInv
  <1> QED BY <1>9, <1>10

\* Whatever else commits makes no winner and unmakes none.
LEMMA OthersDoNotWin ==
  ASSUME SuccessInv, NEW c \in Callers, Transaction(c), ~Succeed(c)
  PROVE  /\ \A j \in Jobs : WonRuns(j)' = WonRuns(j)
         /\ \A j \in Jobs : jobs'[j].status = "succeeded" <=> jobs[j].status = "succeeded"
         /\ outbox' = outbox
  <1> DEFINE call == calls[c]
  <1> USE DEF WorkerOps
  <1>1. /\ call \in Call /\ jobs \in [Jobs -> Job] /\ runs \in [Runs -> Run]
        /\ call.op \notin {"idle", "claim"} => call.job \in Jobs
        /\ call.op \in WorkerOps => call.run \in Runs
        /\ call.op \in {"fail", "recover"} => call.next # "succeeded"
        /\ call.op = "recover" => call.expected # "succeeded"
        /\ call.op = "cancel" => call.expected # "succeeded"
    BY DEF SuccessInv, RunsInv, FencingInv, Shape, TypeOK, CallShape, Uncancellable, Waiting
  <1>2. RunsInv
    BY DEF SuccessInv
  <1>3. outbox' = outbox
    BY DEF Transaction, EnqueueInsert, ClaimTake, Heartbeat, Fail, Cancel, Recover
  <1>4. \A r \in Runs : runs[r].status = "succeeded" => runs'[r] = runs[r]
    BY <1>2, TransactionKeepsOutcomes DEF OutcomeStep, RunStatus
  <1>5. \A j \in Jobs : jobs[j].status = "succeeded" => jobs'[j] = jobs[j]
    BY <1>2, TransactionKeepsOutcomes DEF OutcomeStep, Settled, Uncancellable
  <1>6. /\ \A r \in Runs : runs'[r].status = "succeeded" => runs[r].status = "succeeded"
        /\ \A j \in Jobs : jobs'[j].status = "succeeded" => jobs[j].status = "succeeded"
    <2>1. CASE EnqueueInsert(c)
      BY <1>1, <2>1 DEF EnqueueInsert, Job
    <2>2. CASE ClaimTake(c)
      BY <1>1, <2>2 DEF ClaimTake, Leased, Job
    <2>3. CASE Heartbeat(c)
      BY <1>1, <2>3 DEF Heartbeat, Extended, Job
    <2>4. CASE Fail(c)
      <3>1. \A r \in Runs : runs'[r].status = "succeeded" => runs[r].status = "succeeded"
        BY <1>1, <2>4 DEF Fail, CloseRun, Run
      <3> QED BY <1>1, <2>4, <3>1 DEF Fail, Released, Job
    <2>5. CASE Cancel(c)
      <3>1. \A r \in Runs : runs'[r].status = "succeeded" => runs[r].status = "succeeded"
        BY <1>1, <2>5 DEF Cancel, CloseRuns, RunningRuns, Run
      <3> QED BY <1>1, <2>5, <3>1 DEF Cancel, Released, Job
    <2>6. CASE Recover(c)
      <3>1. \A r \in Runs : runs'[r].status = "succeeded" => runs[r].status = "succeeded"
        BY <1>1, <2>6 DEF Recover, CloseRuns, RunningRuns, Run
      <3> QED BY <1>1, <2>6, <3>1 DEF Recover, Released, Job
    <2> QED BY <2>1, <2>2, <2>3, <2>4, <2>5, <2>6 DEF Transaction
  <1>7. ASSUME NEW j \in Jobs PROVE WonRuns(j)' = WonRuns(j)
    <2>1. \A r \in Runs : runs'[r].job = j /\ runs'[r].status = "succeeded"
                            <=> runs[r].job = j /\ runs[r].status = "succeeded"
      BY <1>4, <1>6
    <2> QED BY <2>1 DEF WonRuns, RunsOf
  <1> QED BY <1>3, <1>5, <1>6, <1>7

\* Every step keeps one winner for a job that succeeded, and none for any other.
LEMMA SuccessNext == SuccessInv /\ [Next]_vars => SuccessInv'
  <1> SUFFICES ASSUME SuccessInv, [Next]_vars PROVE SuccessInv'
    OBVIOUS
  <1>1. RunsInv' /\ outbox' \subseteq Jobs
    BY RunsNext DEF SuccessInv, RunsInv, FencingInv, Shape, TypeOK
  <1>2. ASSUME NEW c \in Callers, Succeed(c) PROVE SuccessInv'
    BY <1>1, <1>2, SucceedWins DEF SuccessInv
  <1>3. ASSUME NEW c \in Callers, Transaction(c), ~Succeed(c) PROVE SuccessInv'
    BY <1>1, <1>3, OthersDoNotWin DEF SuccessInv, OneWinner
  <1>4. ASSUME UNCHANGED <<jobs, runs, outbox>> PROVE SuccessInv'
    BY <1>1, <1>4 DEF SuccessInv, OneWinner, WonRuns, RunsOf
  <1>5. CASE \E c \in Callers : Transaction(c)
    BY <1>2, <1>3, <1>5
  <1>6. CASE \A c \in Callers : ~Transaction(c)
    BY <1>4, <1>6, OnlyTransactionsWrite
  <1> QED BY <1>5, <1>6

\* One winner for every job that succeeded, throughout.
LEMMA SuccessAlways == Spec => []SuccessInv
  BY SuccessInit, SuccessNext, PTL DEF Spec

\* A job that counts as succeeded has exactly one run that did, any other job
\* has none, and only a succeeded job was announced in the outbox: a success
\* reported twice, or after the lease was lost, is not committed twice.
THEOREM SuccessesAreCommittedOnce == Spec => []SuccessIsCommittedOnce
  <1>1. SuccessInv => SuccessIsCommittedOnce
    <2> SUFFICES ASSUME SuccessInv, NEW j \in Jobs
                 PROVE  /\ Cardinality(WonRuns(j)) =
                             IF jobs[j].status = "succeeded" THEN 1 ELSE 0
                        /\ j \in outbox => jobs[j].status = "succeeded"
      BY DEF SuccessIsCommittedOnce, WonRuns
    <2>1. \A r \in Runs : Cardinality({r}) = 1
      BY FS_Singleton
    <2>2. Cardinality({}) = 0
      BY FS_EmptySet
    <2> QED BY <2>1, <2>2 DEF SuccessInv, OneWinner
  <1> QED BY <1>1, SuccessAlways, PTL
-----------------------------------------------------------------------------
(* What each read leaves in its call record *)

\* A cancel remembers the version and the status it saw.
LEMMA CancelReadCall ==
  ASSUME Shape, NEW c \in Callers, NEW j \in Jobs, CancelRead(c, j)
  PROVE  calls'[c].op = "cancel" /\ calls'[c].now = 0
  <1>1. PICK fence, seen :
          calls' = [calls EXCEPT ![c] = [NoCall EXCEPT !.op = "cancel", !.job = j,
                                           !.fence = fence, !.expected = seen]]
    BY DEF CancelRead, Send
  <1> QED BY <1>1 DEF Shape, TypeOK, NoCall

\* A sweep remembers the row it judged, by which clock, and why.
LEMMA RecoverReadCall ==
  ASSUME Shape, NEW c \in Callers, NEW j \in Jobs, RecoverRead(c, j)
  PROVE  \E now \in Sampled :
           /\ calls'[c].op = "recover" /\ calls'[c].job = j /\ calls'[c].now = now
           /\ calls'[c].fence = jobs[j].version /\ calls'[c].expected = jobs[j].status
           /\ calls'[c].next = AfterSweep(j, now)
           /\ calls'[c].expired = (Deadline(j) <= now)
           /\ Deadline(j) <= now \/ jobs[j].status = "running"
  <1>1. PICK now \in Sampled :
          /\ Deadline(j) <= now \/ jobs[j].status = "running"
          /\ \E at \in AvailableAgain(j, AfterSweep(j, now), now) :
               Send(c, [NoCall EXCEPT !.op = "recover", !.job = j,
                                      !.fence = jobs[j].version, !.now = now,
                                      !.expected = jobs[j].status,
                                      !.next = AfterSweep(j, now), !.at = at,
                                      !.expired = Deadline(j) <= now])
    BY DEF RecoverRead
  <1>2. calls \in [Callers -> Call]
    BY DEF Shape, TypeOK
  <1> QED BY <1>1, <1>2 DEF Send, NoCall

\* A worker's call carries its claim and the clock it sampled.
LEMMA WorkerReadCall ==
  ASSUME Shape, NEW c \in Callers, NEW w \in Workers,
         HeartbeatRead(c, w) \/ SucceedRead(c, w) \/ FailRead(c, w)
  PROVE  \E now \in Sampled :
           /\ HoldsLease(w, now)
           /\ calls'[c].op \in WorkerOps /\ calls'[c].job = held[w].job
           /\ calls'[c].now = now
           /\ calls'[c].fence = held[w].fence /\ calls'[c].worker = w
           /\ calls'[c].op = "fail" =>
                \E retryable \in BOOLEAN :
                  calls'[c].next = AfterFailure(held[w].job, now, retryable)
  <1>1. calls \in [Callers -> Call]
    BY DEF Shape, TypeOK
  <1>2. CASE HeartbeatRead(c, w)
    <2>1. PICK now \in Sampled :
            /\ HoldsLease(w, now)
            /\ \E p \in Reportable :
                 Send(c, [WorkerCall("heartbeat", w, now) EXCEPT
                            !.at = LeaseFrom(now, held[w].job), !.progress = p])
      BY <1>2 DEF HeartbeatRead
    <2> QED BY <1>1, <2>1 DEF WorkerCall, Send, NoCall, WorkerOps
  <1>3. CASE SucceedRead(c, w)
    <2>1. PICK now \in Sampled :
            HoldsLease(w, now) /\ Send(c, WorkerCall("succeed", w, now))
      BY <1>3 DEF SucceedRead
    <2> QED BY <1>1, <2>1 DEF WorkerCall, Send, NoCall, WorkerOps
  <1>4. CASE FailRead(c, w)
    <2>1. PICK now \in Sampled, retryable \in BOOLEAN :
            /\ HoldsLease(w, now)
            /\ \E at \in AvailableAgain(held[w].job,
                           AfterFailure(held[w].job, now, retryable), now) :
                 Send(c, [WorkerCall("fail", w, now) EXCEPT
                            !.next = AfterFailure(held[w].job, now, retryable),
                            !.at = at])
      BY <1>4 DEF FailRead
    <2>2. /\ calls'[c].op = "fail" /\ calls'[c].job = held[w].job
          /\ calls'[c].now = now /\ calls'[c].worker = w
          /\ calls'[c].fence = held[w].fence
          /\ calls'[c].next = AfterFailure(held[w].job, now, retryable)
      BY <1>1, <2>1 DEF WorkerCall, Send, NoCall
    <2> QED BY <2>1, <2>2 DEF WorkerOps
  <1> QED BY <1>2, <1>3, <1>4

-----------------------------------------------------------------------------
(* Admission: the counts were right when they were read, and still bound   *)
(* what is written under the lock                                          *)

Live == Waiting \cup {"running"}

\* A call that has counted holds the lock, and what it makes room for has not
\* been taken since: nothing but its own write adds to the count.
AdmissionInv ==
  /\ FencingInv
  /\ \A c \in Callers : calls[c].op \in {"enqueue", "claim"} => lock = c
  /\ RunningWithinLimit
  /\ LiveWorkWithinLimit
  /\ \A c \in Callers :
       /\ calls[c].op = "claim" => Cardinality(InStatus({"running"})) < MaxRunning
       /\ calls[c].op = "enqueue" =>
            Cardinality(InStatus(Live)) < MaxQueued + MaxRunning

\* Fewer jobs have a smaller count, and one job more adds at most one.
LEMMA JobCounts ==
  ASSUME NEW S \in SUBSET Jobs, NEW T \in SUBSET Jobs, NEW j
  PROVE  /\ Cardinality(S) \in Nat
         /\ S \subseteq T => Cardinality(S) <= Cardinality(T)
         /\ S \subseteq T \cup {j} => Cardinality(S) <= Cardinality(T) + 1
  <1>1. IsFiniteSet(S) /\ IsFiniteSet(T)
    BY JobsAssumption, FS_Subset
  <1>2. Cardinality(S) \in Nat /\ Cardinality(T) \in Nat
    BY <1>1, FS_CardinalityType
  <1>3. S \subseteq T => Cardinality(S) <= Cardinality(T)
    BY <1>1, FS_Subset
  <1>4. /\ IsFiniteSet(T \cup {j})
        /\ Cardinality(T \cup {j}) = IF j \in T THEN Cardinality(T) ELSE Cardinality(T) + 1
    BY <1>1, FS_AddElement
  <1>5. S \subseteq T \cup {j} => Cardinality(S) <= Cardinality(T \cup {j})
    BY <1>4, FS_Subset
  <1> QED BY <1>2, <1>3, <1>4, <1>5

\* The live jobs are those that wait and those that run.
LEMMA LiveCount ==
  Cardinality(InStatus(Live)) <=
    Cardinality(InStatus(Waiting)) + Cardinality(InStatus({"running"}))
  <1>1. /\ IsFiniteSet(InStatus(Waiting)) /\ IsFiniteSet(InStatus({"running"}))
        /\ InStatus(Waiting) \in SUBSET Jobs /\ InStatus({"running"}) \in SUBSET Jobs
    BY JobsAssumption, FS_Subset DEF InStatus
  <1>2. InStatus(Live) = InStatus(Waiting) \cup InStatus({"running"})
    BY DEF InStatus, Live
  <1>3. InStatus(Waiting) \cap InStatus({"running"}) = {}
    BY DEF InStatus, Waiting
  <1>4. Cardinality(InStatus(Waiting) \cup InStatus({"running"})) =
          Cardinality(InStatus(Waiting)) + Cardinality(InStatus({"running"}))
            - Cardinality(InStatus(Waiting) \cap InStatus({"running"}))
    BY <1>1, FS_Union
  <1>5. Cardinality({}) = 0
    BY FS_EmptySet
  <1>6. Cardinality(InStatus(Waiting)) \in Nat /\ Cardinality(InStatus({"running"})) \in Nat
    BY <1>1, FS_CardinalityType
  <1> DEFINE n == Cardinality(InStatus(Waiting))
             m == Cardinality(InStatus({"running"}))
  <1>7. Cardinality(InStatus(Live)) = n + m - 0
    BY <1>2, <1>3, <1>4, <1>5, Zenon
  <1>8. n \in Nat /\ m \in Nat
    BY <1>6
  <1> HIDE DEF n, m
  <1>9. n + m - 0 <= n + m
    BY <1>8
  <1> QED BY <1>7, <1>9 DEF n, m

\* Where a transaction takes the one job it writes: only an insert makes a
\* job live, and only a claim makes one run.
Moves(op, j) ==
  LET from == jobs[j].status  to == jobs'[j].status IN
  /\ \A k \in Jobs \ {j} : jobs'[k] = jobs[k]
  /\ \/ op = "enqueue" /\ from = "absent" /\ to = "queued"
     \/ op = "claim" /\ from \in Waiting /\ to = "running"
     \/ op = "heartbeat" /\ from = "running" /\ to = "running"
     \/ op \in {"fail", "recover"} /\ from \in Live /\ to = "retry_wait"
     \/ op \notin {"enqueue", "claim"} /\ to \in Settled

\* Every transaction is such a move.
LEMMA TransactionMoves ==
  ASSUME FencingInv, NEW c \in Callers, Transaction(c)
  PROVE  \E j \in Jobs : Moves(calls[c].op, j)
  <1> DEFINE call == calls[c]
  <1> USE DEF WorkerOps
  <1>1. /\ call \in Call /\ jobs \in [Jobs -> Job]
        /\ call.op \notin {"idle", "claim"} => call.job \in Jobs
        /\ call.op = "fail" => call.next \in {"failed", "dead_letter", "retry_wait"}
        /\ call.op = "recover" => /\ call.next \in {"dead_letter", "retry_wait"}
                                  /\ call.expected \in Waiting \cup {"running"}
    BY DEF FencingInv, Shape, TypeOK, CallShape
  <1>2. CASE EnqueueInsert(c)
    BY <1>1, <1>2 DEF EnqueueInsert, Moves, Job
  <1>3. CASE ClaimTake(c)
    <2>1. PICK k \in Jobs :
            /\ Candidate(call.now, k)
            /\ jobs' = [jobs EXCEPT ![k] =
                          Leased(@, call.worker, LeaseFrom(call.now, k))]
      BY <1>3 DEF ClaimTake
    <2>2. jobs[k].status \in Waiting /\ call.op = "claim"
      BY <1>3, <2>1 DEF ClaimTake, Candidate, Eligible, InStatus
    <2>3. jobs'[k].status = "running" /\ \A j \in Jobs \ {k} : jobs'[j] = jobs[j]
      BY <1>1, <2>1 DEF Leased, Job
    <2> QED BY <2>2, <2>3 DEF Moves
  <1>4. CASE Heartbeat(c)
    BY <1>1, <1>4 DEF Heartbeat, LeaseMatches, Extended, Moves, Job
  <1>5. CASE Succeed(c)
    BY <1>1, <1>5 DEF Succeed, LeaseMatches, Released, Moves, Job, Settled, Uncancellable
  <1>6. CASE Fail(c)
    BY <1>1, <1>6 DEF Fail, LeaseMatches, Released, Moves, Job, Settled, Uncancellable, Live
  <1>7. CASE Cancel(c)
    BY <1>1, <1>7 DEF Cancel, Released, Moves, Job, Settled, Uncancellable
  <1>8. CASE Recover(c)
    BY <1>1, <1>8 DEF Recover, SeenMatches, Released, Moves, Job, Settled, Uncancellable, Live
  <1> QED BY <1>2, <1>3, <1>4, <1>5, <1>6, <1>7, <1>8 DEF Transaction

\* The sets that are counted grow by a claim and by an insert alone.
LEMMA MovesCount ==
  ASSUME NEW op, NEW j \in Jobs, Moves(op, j)
  PROVE  /\ InStatus({"running"})' \subseteq InStatus({"running"}) \cup {j}
         /\ op # "claim" => InStatus({"running"})' \subseteq InStatus({"running"})
         /\ InStatus(Live)' \subseteq InStatus(Live) \cup {j}
         /\ op # "enqueue" => InStatus(Live)' \subseteq InStatus(Live)
  <1>1. \A k \in Jobs \ {j} : jobs'[k].status = jobs[k].status
    BY DEF Moves
  <1>2. op # "claim" /\ jobs'[j].status = "running" => jobs[j].status = "running"
    BY DEF Moves, Settled, Uncancellable
  <1>3. op # "enqueue" /\ jobs'[j].status \in Live => jobs[j].status \in Live
    BY DEF Moves, Live, Waiting, Settled, Uncancellable
  <1> QED BY <1>1, <1>2, <1>3 DEF InStatus

\* At the start nothing is live.
LEMMA AdmissionInit == Init => AdmissionInv
  <1> SUFFICES ASSUME Init PROVE AdmissionInv
    OBVIOUS
  <1>1. InStatus({"running"}) = {} /\ InStatus(Live) = {}
    BY DEF Init, InStatus, Live, Waiting
  <1>2. \A c \in Callers : calls[c].op = "idle"
    BY DEF Init, NoCall
  <1>3. Cardinality({}) = 0
    BY FS_EmptySet
  <1> QED BY <1>1, <1>2, <1>3, FencingInit, PolicyAssumption
          DEF AdmissionInv, RunningWithinLimit, LiveWorkWithinLimit, Live

\* A transaction uses the room its call has counted, and ends the call.
LEMMA TransactionAdmission ==
  ASSUME AdmissionInv, NEW c \in Callers, Transaction(c)
  PROVE  AdmissionInv'
  <1> DEFINE R == InStatus({"running"})
             L == InStatus(Live)
  <1>1. FencingInv'
    BY TransactionFencing DEF AdmissionInv
  <1>2. PICK j \in Jobs : Moves(calls[c].op, j)
    BY TransactionMoves DEF AdmissionInv
  <1>3. /\ calls \in [Callers -> Call]
        /\ calls' = [calls EXCEPT ![c] = NoCall]
        /\ lock' = IF calls[c].op \in {"enqueue", "claim"} THEN NoCaller ELSE lock
    BY DEF AdmissionInv, FencingInv, Shape, TypeOK, Transaction, EnqueueInsert, ClaimTake,
           Heartbeat, Succeed, Fail, Cancel, Recover, Return
  <1>4. \A d \in Callers : calls'[d].op \in {"enqueue", "claim"} =>
          d # c /\ calls'[d] = calls[d]
    BY <1>3 DEF NoCall
  <1>5. \A d \in Callers : calls'[d].op \in {"enqueue", "claim"} =>
          lock' = d /\ calls[c].op \notin {"enqueue", "claim"}
    BY <1>3, <1>4 DEF AdmissionInv
  <1>6. R \in SUBSET Jobs /\ R' \in SUBSET Jobs /\ L \in SUBSET Jobs /\ L' \in SUBSET Jobs
    BY DEF InStatus
  <1>7. /\ Cardinality(R) \in Nat /\ Cardinality(R') \in Nat
        /\ Cardinality(L) \in Nat /\ Cardinality(L') \in Nat
        /\ Cardinality(R') <= Cardinality(R) + 1
        /\ calls[c].op # "claim" => Cardinality(R') <= Cardinality(R)
        /\ Cardinality(L') <= Cardinality(L) + 1
        /\ calls[c].op # "enqueue" => Cardinality(L') <= Cardinality(L)
    <2>1. /\ R' \subseteq R \cup {j} /\ (calls[c].op # "claim" => R' \subseteq R)
          /\ L' \subseteq L \cup {j} /\ (calls[c].op # "enqueue" => L' \subseteq L)
      BY <1>2, MovesCount
    <2> HIDE DEF R, L
    <2> QED BY <1>6, <2>1, JobCounts
  <1>8. /\ Cardinality(R) <= MaxRunning
        /\ calls[c].op = "claim" => Cardinality(R) < MaxRunning
        /\ Cardinality(L) <= MaxQueued + MaxRunning
        /\ calls[c].op = "enqueue" => Cardinality(L) < MaxQueued + MaxRunning
        /\ MaxQueued \in Nat /\ MaxRunning \in Nat
    BY PolicyAssumption DEF AdmissionInv, RunningWithinLimit, LiveWorkWithinLimit, Live
  <1>9. \A d \in Callers :
          /\ calls'[d].op = "claim" => Cardinality(R) < MaxRunning
          /\ calls'[d].op = "enqueue" => Cardinality(L) < MaxQueued + MaxRunning
    BY <1>4 DEF AdmissionInv
  <1> HIDE DEF R, L
  <1>10. Cardinality(R') <= MaxRunning /\ Cardinality(L') <= MaxQueued + MaxRunning
    BY <1>7, <1>8
  <1>11. \A d \in Callers :
           /\ calls'[d].op = "claim" => Cardinality(R') < MaxRunning
           /\ calls'[d].op = "enqueue" => Cardinality(L') < MaxQueued + MaxRunning
    BY <1>5, <1>7, <1>8, <1>9
  <1> QED BY <1>1, <1>5, <1>10, <1>11
          DEF AdmissionInv, RunningWithinLimit, LiveWorkWithinLimit, Live, R, L
\* A call that starts counting takes the lock, which nobody holds, and sees
\* the counts as they are.
LEMMA CountAdmission ==
  ASSUME AdmissionInv, NEW c \in Callers,
         \/ \E j \in Jobs : EnqueueCount(c, j)
         \/ \E w \in Workers : ClaimCount(c, w)
  PROVE  AdmissionInv'
  <1>1. FencingInv'
    BY ReadFencing DEF AdmissionInv
  <1>2. /\ lock = NoCaller /\ lock' = c /\ NoCaller \notin Callers
        /\ jobs' = jobs /\ calls \in [Callers -> Call]
    BY NullAssumption
    DEF EnqueueCount, ClaimCount, LockIsFree, AdmissionInv, FencingInv, Shape, TypeOK
  <1>3. \A d \in Callers : calls[d].op \notin {"enqueue", "claim"}
    BY <1>2 DEF AdmissionInv
  <1>4. \A d \in Callers \ {c} : calls'[d] = calls[d]
    BY <1>2 DEF EnqueueCount, ClaimCount, Send
  <1>5. \/ calls'[c].op = "enqueue" /\ RoomInQueue
        \/ calls'[c].op = "claim" /\ Cardinality(InStatus({"running"})) < MaxRunning
    <2>1. CASE \E j \in Jobs : EnqueueCount(c, j)
      BY <1>2, <2>1 DEF EnqueueCount, Send, NoCall
    <2>2. CASE \E w \in Workers : ClaimCount(c, w)
      BY <1>2, <2>2 DEF ClaimCount, Send, NoCall
    <2> QED BY <2>1, <2>2
  <1>6. calls'[c].op = "enqueue" => Cardinality(InStatus(Live)) < MaxQueued + MaxRunning
    <2>1. /\ InStatus(Live) \in SUBSET Jobs /\ InStatus(Waiting) \in SUBSET Jobs
          /\ InStatus({"running"}) \in SUBSET Jobs
      BY DEF InStatus
    <2>2. /\ Cardinality(InStatus(Live)) \in Nat /\ Cardinality(InStatus(Waiting)) \in Nat
          /\ Cardinality(InStatus({"running"})) \in Nat
      BY <2>1, JobCounts
    <2>3. Cardinality(InStatus({"running"})) <= MaxRunning
      BY DEF AdmissionInv, RunningWithinLimit
    <2> QED BY <1>5, <2>2, <2>3, LiveCount, PolicyAssumption DEF RoomInQueue
  <1>7. InStatus({"running"})' = InStatus({"running"}) /\ InStatus(Live)' = InStatus(Live)
    BY <1>2 DEF InStatus
  <1> QED BY <1>1, <1>2, <1>3, <1>4, <1>5, <1>6, <1>7
          DEF AdmissionInv, RunningWithinLimit, LiveWorkWithinLimit, Live

\* No other step writes a job, takes the lock or counts.
LEMMA OtherAdmission ==
  ASSUME AdmissionInv, FencingInv', jobs' = jobs, NEW c \in Callers,
         calls'[c].op \notin {"enqueue", "claim"},
         lock' = lock \/ lock = c,
         \A d \in Callers \ {c} : calls'[d] = calls[d]
  PROVE  AdmissionInv'
  <1>1. InStatus({"running"})' = InStatus({"running"}) /\ InStatus(Live)' = InStatus(Live)
    BY DEF InStatus
  <1>2. \A d \in Callers : calls'[d].op \in {"enqueue", "claim"} =>
          d # c /\ calls'[d] = calls[d] /\ lock = d
    BY DEF AdmissionInv
  <1> QED BY <1>1, <1>2 DEF AdmissionInv, RunningWithinLimit, LiveWorkWithinLimit, Live

\* Every step keeps the admission invariant.
LEMMA AdmissionNext == AdmissionInv /\ [Next]_vars => AdmissionInv'
  <1> SUFFICES ASSUME AdmissionInv, [Next]_vars PROVE AdmissionInv'
    OBVIOUS
  <1>1. FencingInv' /\ calls \in [Callers -> Call]
    BY FencingNext DEF AdmissionInv, FencingInv, Shape, TypeOK
  <1>2. CASE UNCHANGED <<jobs, calls, lock>>
    BY <1>1, <1>2 DEF AdmissionInv, RunningWithinLimit, LiveWorkWithinLimit, InStatus, Live
  <1>3. ASSUME NEW c \in Callers, Rollback(c) PROVE AdmissionInv'
    <2>1. /\ jobs' = jobs /\ calls' = [calls EXCEPT ![c] = NoCall]
          /\ lock' = IF lock = c THEN NoCaller ELSE lock
      BY <1>3 DEF Rollback, Return
    <2>2. calls'[c].op = "idle"
      BY <1>1, <2>1 DEF NoCall
    <2>3. \A d \in Callers \ {c} : calls'[d] = calls[d]
      BY <1>1, <2>1
    <2> QED BY <1>1, <2>1, <2>2, <2>3, OtherAdmission
  <1>4. ASSUME NEW c \in Callers, Transaction(c) PROVE AdmissionInv'
    BY <1>4, TransactionAdmission
  <1>5. ASSUME NEW c \in Callers,
               \/ \E j \in Jobs : EnqueueCount(c, j)
               \/ \E w \in Workers : ClaimCount(c, w)
        PROVE  AdmissionInv'
    BY <1>5, CountAdmission
  <1>6. ASSUME NEW c \in Callers,
               \/ \E j \in Jobs : CancelRead(c, j) \/ RecoverRead(c, j)
               \/ \E w \in Workers : HeartbeatRead(c, w) \/ SucceedRead(c, w) \/ FailRead(c, w)
        PROVE  AdmissionInv'
    <2>1. /\ jobs' = jobs /\ lock' = lock
          /\ \E call : calls' = [calls EXCEPT ![c] = call]
      BY <1>6 DEF CancelRead, RecoverRead, HeartbeatRead, SucceedRead, FailRead, Send
    <2>2. calls'[c].op \notin {"enqueue", "claim"}
      BY <1>6, CancelReadCall, RecoverReadCall, WorkerReadCall
      DEF AdmissionInv, FencingInv, WorkerOps
    <2>3. \A d \in Callers \ {c} : calls'[d] = calls[d]
      BY <1>1, <2>1
    <2> QED BY <1>1, <2>1, <2>2, <2>3, OtherAdmission
  <1>7. CASE Tick \/ UNCHANGED vars
    BY <1>2, <1>7 DEF Tick, vars
  <1> QED BY <1>3, <1>4, <1>5, <1>6, <1>7 DEF Next

\* Admission is sound throughout.
LEMMA AdmissionAlways == Spec => []AdmissionInv
  BY AdmissionInit, AdmissionNext, PTL DEF Spec

\* No tenant ever runs more jobs than its policy allows, although fail, cancel
\* and recover change the count a claim has read without taking its lock.
THEOREM RunningIsLimited == Spec => []RunningWithinLimit
  <1>1. AdmissionInv => RunningWithinLimit
    BY DEF AdmissionInv
  <1> QED BY <1>1, AdmissionAlways, PTL

\* Failures and recoveries may fill the queue past its limit, but the work
\* that is live never exceeds the two limits together.
THEOREM LiveWorkIsLimited == Spec => []LiveWorkWithinLimit
  <1>1. AdmissionInv => LiveWorkWithinLimit
    BY DEF AdmissionInv
  <1> QED BY <1>1, AdmissionAlways, PTL
-----------------------------------------------------------------------------
(* Why a call decided what it did, and that a live lease is respected *)

\* No call's clock is ahead; a sweep sends back only what it saw running; and
\* as long as the row has not moved on, a dead letter is written for attempts
\* that are used up or for a deadline that has passed.
Reason(c) ==
  LET call == calls[c]  job == jobs[call.job] IN
  /\ call.now <= clock
  /\ call.op = "recover" /\ call.next = "retry_wait" => call.expected = "running"
  /\ call.op = "fail" /\ call.next = "dead_letter" /\ call.fence = job.version
       => job.attempts = MaxAttempts
  /\ call.op = "recover" /\ call.expired /\ call.fence = job.version
       => Deadline(call.job) <= call.now

ReasonsInv == FencingInv /\ \A c \in Callers : Reason(c)

\* At the start there is no call.
LEMMA ReasonsInit == Init => ReasonsInv
  BY FencingInit DEF Init, ReasonsInv, Reason, NoCall

\* A transaction leaves the other calls on its row with an old fence.
LEMMA TransactionReasons ==
  ASSUME ReasonsInv, NEW c \in Callers, Transaction(c)
  PROVE  ReasonsInv'
  <1>1. FencingInv'
    BY TransactionFencing DEF ReasonsInv
  <1>2. PICK j \in Jobs, row \in Job :
          jobs' = [jobs EXCEPT ![j] = row] /\ SoundRow(row, jobs[j])
    BY TransactionWrites DEF ReasonsInv
  <1>3. /\ jobs \in [Jobs -> Job] /\ calls \in [Callers -> Call] /\ clock \in Nat
        /\ calls' = [calls EXCEPT ![c] = NoCall]
        /\ clock' = clock
    BY DEF ReasonsInv, FencingInv, Shape, TypeOK, Transaction, EnqueueInsert, ClaimTake,
           Heartbeat, Succeed, Fail, Cancel, Recover, Return
  <1>4. /\ jobs'[j].version = jobs[j].version + 1 /\ jobs[j].version \in Nat
        /\ \A k \in Jobs \ {j} : jobs'[k] = jobs[k]
    BY <1>2, <1>3 DEF SoundRow, Job
  <1>5. ASSUME NEW d \in Callers PROVE Reason(d)'
    <2>1. CASE d = c
      BY <1>3, <2>1 DEF NoCall, Reason
    <2>2. CASE d # c
      <3>1. calls'[d] = calls[d] /\ Reason(d)
        BY <1>3, <2>2 DEF ReasonsInv
      <3>2. CASE calls[d].op \notin {"fail", "recover"}
        BY <1>3, <3>1, <3>2 DEF Reason
      <3>3. CASE calls[d].op \in {"fail", "recover"}
        <4>1. /\ calls[d].job \in Jobs /\ calls[d].fence \in Nat
              /\ calls[d].fence <= jobs[calls[d].job].version
          BY <1>3, <3>3
          DEF ReasonsInv, FencingInv, Shape, CallShape, DecisionsHoldOrAreFenced,
              WorkerOps, Call
        <4>2. CASE calls[d].job = j
          <5>1. calls[d].fence # jobs'[j].version
            BY <1>4, <4>1, <4>2
          <5> QED BY <1>3, <3>1, <4>2, <5>1 DEF Reason
        <4>3. CASE calls[d].job # j
          <5>1. jobs'[calls[d].job] = jobs[calls[d].job]
            BY <1>4, <4>1, <4>3
          <5> QED BY <1>3, <3>1, <5>1 DEF Reason, Deadline
        <4> QED BY <4>2, <4>3
      <3> QED BY <3>2, <3>3
    <2> QED BY <2>1, <2>2
  <1> QED BY <1>1, <1>5 DEF ReasonsInv

\* A read that gives its own call a reason leaves the others theirs.
LEMMA SendReasons ==
  ASSUME ReasonsInv, FencingInv', NEW c \in Callers, Reason(c)',
         jobs' = jobs, clock' = clock, \A d \in Callers \ {c} : calls'[d] = calls[d]
  PROVE  ReasonsInv'
  <1>1. ASSUME NEW d \in Callers \ {c} PROVE Reason(d)'
    BY <1>1 DEF ReasonsInv, Reason, Deadline
  <1> QED BY <1>1 DEF ReasonsInv

\* Every read has a reason for what it decides.
LEMMA ReadReasons ==
  ASSUME ReasonsInv, NEW c \in Callers,
         \/ \E j \in Jobs : EnqueueCount(c, j) \/ CancelRead(c, j) \/ RecoverRead(c, j)
         \/ \E w \in Workers : ClaimCount(c, w) \/ HeartbeatRead(c, w)
                                 \/ SucceedRead(c, w) \/ FailRead(c, w)
  PROVE  ReasonsInv'
  <1> USE DEF WorkerOps
  <1>1. /\ FencingInv' /\ Shape
        /\ jobs \in [Jobs -> Job] /\ calls \in [Callers -> Call] /\ clock \in Nat
        /\ MaxAttempts \in Nat /\ DeadlineTime \in Nat
    BY ReadFencing, PolicyAssumption DEF ReasonsInv, FencingInv, Shape, TypeOK
  <1>2. jobs' = jobs /\ clock' = clock
    BY DEF EnqueueCount, CancelRead, RecoverRead, ClaimCount, HeartbeatRead, SucceedRead,
           FailRead
  <1>3. \A d \in Callers \ {c} : calls'[d] = calls[d]
    <2>1. \E call : calls' = [calls EXCEPT ![c] = call]
      BY DEF EnqueueCount, CancelRead, RecoverRead, ClaimCount, HeartbeatRead, SucceedRead,
             FailRead, Send
    <2> QED BY <1>1, <2>1
  <1>4. \A now \in Sampled : now \in Nat /\ now <= clock
    BY <1>1 DEF Sampled
  <1>5. CASE (\E j \in Jobs : EnqueueCount(c, j)) \/ (\E w \in Workers : ClaimCount(c, w))
    <2>1. calls'[c].op \in {"enqueue", "claim"} /\ calls'[c].now \in Sampled
      <3>1. CASE \E j \in Jobs : EnqueueCount(c, j)
        BY <1>1, <3>1 DEF EnqueueCount, Send, NoCall
      <3>2. CASE \E w \in Workers : ClaimCount(c, w)
        BY <1>1, <3>2 DEF ClaimCount, Send, NoCall
      <3> QED BY <1>5, <3>1, <3>2
    <2>2. Reason(c)'
      BY <1>2, <1>4, <2>1 DEF Reason
    <2> QED BY <1>1, <1>2, <1>3, <2>2, SendReasons
  <1>6. CASE \E j \in Jobs : CancelRead(c, j)
    <2>1. calls'[c].op = "cancel" /\ calls'[c].now = 0
      BY <1>1, <1>6, CancelReadCall
    <2>2. Reason(c)'
      BY <1>1, <1>2, <2>1 DEF Reason
    <2> QED BY <1>1, <1>2, <1>3, <2>2, SendReasons
  <1>7. CASE \E j \in Jobs : RecoverRead(c, j)
    <2>1. PICK j \in Jobs, now \in Sampled :
            /\ calls'[c].op = "recover" /\ calls'[c].job = j /\ calls'[c].now = now
            /\ calls'[c].expected = jobs[j].status
            /\ calls'[c].next = AfterSweep(j, now)
            /\ calls'[c].expired = (Deadline(j) <= now)
            /\ Deadline(j) <= now \/ jobs[j].status = "running"
      BY <1>1, <1>7, RecoverReadCall
    <2>2. AfterSweep(j, now) = "retry_wait" => jobs[j].status = "running"
      BY <2>1 DEF AfterSweep
    <2>3. Deadline(j)' = Deadline(j)
      BY <1>2 DEF Deadline
    <2>4. Reason(c)'
      BY <1>2, <1>4, <2>1, <2>2, <2>3 DEF Reason
    <2> QED BY <1>1, <1>2, <1>3, <2>4, SendReasons
  <1>8. CASE \E w \in Workers : HeartbeatRead(c, w) \/ SucceedRead(c, w) \/ FailRead(c, w)
    <2>1. PICK w \in Workers, now \in Sampled :
            /\ HoldsLease(w, now)
            /\ calls'[c].op \in WorkerOps /\ calls'[c].job = held[w].job
            /\ calls'[c].now = now
            /\ calls'[c].op = "fail" =>
                 \E retryable \in BOOLEAN :
                   calls'[c].next = AfterFailure(held[w].job, now, retryable)
      BY <1>1, <1>8, WorkerReadCall
    <2>2. held[w].job \in Jobs
      BY <1>1, <2>1 DEF Shape, TypeOK, Claim, HoldsLease
    <2>3. now < Deadline(held[w].job) /\ Deadline(held[w].job) \in Nat
      BY <1>1, <1>4, <2>1, <2>2
      DEF HoldsLease, ReasonsInv, FencingInv, LeaseEndsByDeadline, Deadline, Job
    <2>4. jobs[held[w].job].attempts \in 0 .. MaxAttempts
      BY <1>1, <2>2 DEF Job
    <2>5. \A retryable \in BOOLEAN :
            AfterFailure(held[w].job, now, retryable) = "dead_letter"
              => jobs[held[w].job].attempts = MaxAttempts
      BY <1>1, <1>4, <2>1, <2>3, <2>4 DEF AfterFailure
    <2>6. Reason(c)'
      BY <1>2, <1>4, <2>1, <2>5 DEF Reason
    <2> QED BY <1>1, <1>2, <1>3, <2>6, SendReasons
  <1> QED BY <1>5, <1>6, <1>7, <1>8

\* Every step keeps the reasons.
LEMMA ReasonsNext == ReasonsInv /\ [Next]_vars => ReasonsInv'
  <1> SUFFICES ASSUME ReasonsInv, [Next]_vars PROVE ReasonsInv'
    OBVIOUS
  <1>1. /\ FencingInv' /\ clock \in Nat
        /\ calls \in [Callers -> Call]
    BY FencingNext DEF ReasonsInv, FencingInv, Shape, TypeOK
  <1>2. CASE Tick
    <2>1. ASSUME NEW c \in Callers PROVE Reason(c)'
      <3>1. calls[c].now \in Nat /\ Reason(c)
        BY <1>1 DEF Call, ReasonsInv
      <3> QED BY <1>1, <1>2, <3>1 DEF Tick, Reason, Deadline
    <2> QED BY <1>1, <2>1 DEF ReasonsInv
  <1>3. ASSUME NEW c \in Callers, Rollback(c) PROVE ReasonsInv'
    <2>1. /\ jobs' = jobs /\ clock' = clock
          /\ calls' = [calls EXCEPT ![c] = NoCall]
      BY <1>3 DEF Rollback, Return
    <2>2. Reason(c)'
      BY <1>1, <2>1 DEF Reason, NoCall
    <2> QED BY <1>1, <2>1, <2>2, SendReasons
  <1>4. ASSUME NEW c \in Callers, Transaction(c) PROVE ReasonsInv'
    BY <1>4, TransactionReasons
  <1>5. CASE UNCHANGED vars
    BY <1>1, <1>5 DEF vars, ReasonsInv, Reason, Deadline
  <1> QED BY <1>2, <1>3, <1>4, <1>5, ReadReasons DEF Next

\* Every decision has its reason throughout.
LEMMA ReasonsAlways == Spec => []ReasonsInv
  BY ReasonsInit, ReasonsNext, PTL DEF Spec

LiveLeaseStep ==
  \A j \in Jobs :
    /\ jobs[j].status = "running" /\ clock < jobs[j].lease
    /\ jobs'[j].status \in {"retry_wait", "dead_letter"}
    => /\ \E c \in Callers : /\ calls[c].op = "fail" /\ calls[c].job = j
                             /\ calls'[c].op = "idle"
       /\ jobs'[j].status = "dead_letter" => jobs[j].attempts = MaxAttempts

\* A sweep waits for the lease to end; only a failed worker gives its job back.
LEMMA TransactionRespectsLease ==
  ASSUME ReasonsInv, NEW c \in Callers, Transaction(c)
  PROVE  LiveLeaseStep
  <1> USE DEF WorkerOps
  <1>1. /\ jobs \in [Jobs -> Job] /\ calls \in [Callers -> Call] /\ clock \in Nat
        /\ calls[c].now \in Nat /\ calls[c].now <= clock /\ Reason(c)
        /\ calls[c].op \notin {"idle", "claim"} => calls[c].job \in Jobs
        /\ DeadlineTime \in Nat
    BY PolicyAssumption
    DEF ReasonsInv, FencingInv, Shape, TypeOK, CallShape, Reason, Call
  <1> SUFFICES ASSUME NEW j \in Jobs,
                      jobs[j].status = "running", clock < jobs[j].lease,
                      jobs'[j].status \in {"retry_wait", "dead_letter"}
               PROVE  /\ \E d \in Callers : /\ calls[d].op = "fail" /\ calls[d].job = j
                                            /\ calls'[d].op = "idle"
                      /\ jobs'[j].status = "dead_letter" => jobs[j].attempts = MaxAttempts
    BY DEF LiveLeaseStep
  <1>2. jobs[j].lease \in Nat /\ jobs[j].lease <= Deadline(j) /\ Deadline(j) \in Nat
    BY <1>1 DEF ReasonsInv, FencingInv, LeaseEndsByDeadline, Deadline, Job
  <1>3. CASE Fail(c)
    <2>1. /\ calls[c].job \in Jobs /\ calls[c].op = "fail"
          /\ calls[c].fence = jobs[calls[c].job].version
          /\ jobs' = [jobs EXCEPT ![calls[c].job] =
                        [Released(@, calls[c].next) EXCEPT !.available = calls[c].at]]
          /\ calls' = [calls EXCEPT ![c] = NoCall]
      BY <1>1, <1>3 DEF Fail, LeaseMatches, Return
    <2>2. calls[c].job = j
      BY <1>1, <2>1
    <2>3. jobs'[j].status = calls[c].next
      BY <1>1, <2>1, <2>2 DEF Released, Job
    <2>4. jobs'[j].status = "dead_letter" => jobs[j].attempts = MaxAttempts
      BY <1>1, <2>1, <2>2, <2>3 DEF Reason
    <2>5. calls'[c].op = "idle"
      BY <1>1, <2>1 DEF NoCall
    <2> QED BY <2>1, <2>2, <2>4, <2>5
  <1>4. CASE Recover(c)
    <2>1. /\ calls[c].job \in Jobs /\ calls[c].op = "recover"
          /\ calls[c].fence = jobs[calls[c].job].version
          /\ calls[c].expired \/ LeaseLapsed(calls[c].job, calls[c].now)
          /\ \A k \in Jobs \ {calls[c].job} : jobs'[k] = jobs[k]
      BY <1>1, <1>4 DEF Recover, SeenMatches
    <2>2. calls[c].job = j
      BY <2>1
    <2>3. ~LeaseLapsed(j, calls[c].now)
      BY <1>1, <1>2 DEF LeaseLapsed
    <2>4. ~calls[c].expired
      BY <1>1, <1>2, <2>1, <2>2 DEF Reason
    <2> QED BY <2>1, <2>2, <2>3, <2>4
  <1>5. CASE EnqueueInsert(c)
    BY <1>1, <1>5 DEF EnqueueInsert
  <1>6. CASE ClaimTake(c)
    BY <1>1, <1>6 DEF ClaimTake, Candidate, Eligible, InStatus, Waiting
  <1>7. CASE Heartbeat(c)
    BY <1>1, <1>7 DEF Heartbeat, Extended, Job
  <1>8. CASE Succeed(c)
    BY <1>1, <1>8 DEF Succeed, Released, Job
  <1>9. CASE Cancel(c)
    BY <1>1, <1>9 DEF Cancel, Released, Job
  <1> QED BY <1>3, <1>4, <1>5, <1>6, <1>7, <1>8, <1>9 DEF Transaction

\* While a lease is alive its job is given back by its own worker only, and
\* dead-lettered only with all its attempts used: whatever clock the sweep or
\* the worker sampled, and however late their transactions commit.
THEOREM LiveLeasesAreRespected == Spec => LiveLeaseIsRespected
  <1>1. ASSUME ReasonsInv, [Next]_vars PROVE [LiveLeaseStep]_vars
    <2>1. ASSUME NEW c \in Callers, Transaction(c) PROVE LiveLeaseStep
      BY <1>1, <2>1, TransactionRespectsLease
    <2>2. ASSUME UNCHANGED <<jobs, runs, outbox>> PROVE LiveLeaseStep
      BY <2>2 DEF LiveLeaseStep
    <2> QED BY <1>1, <2>1, <2>2, OnlyTransactionsWrite
  <1>2. Spec => [][LiveLeaseStep]_vars
    BY <1>1, ReasonsAlways, PTL DEF Spec
  <1> QED BY <1>2, PTL DEF LiveLeaseIsRespected, LiveLeaseStep
-----------------------------------------------------------------------------
(* Refinement: the worker follows the job policy *)

\* At the start the policy's jobs are absent too.
LEMMA PolicyInit == Init => Lifecycle!Init
  BY DEF Init, Lifecycle!Init

\* Writing one row is one assignment to each of the policy's variables.
LEMMA PolicyWrites ==
  ASSUME NEW j \in Jobs, NEW next, NEW holder,
         \A k \in Jobs \ {j} : jobs'[k] = jobs[k],
         jobs'[j].status = next, jobs'[j].owner = holder,
         jobs'[j].version = jobs[j].version + 1
  PROVE  /\ Lifecycle!Becomes(j, next, holder)
         /\ jobs'[j].attempts = jobs[j].attempts =>
              UNCHANGED [k \in Jobs |-> jobs[k].attempts]
         /\ jobs'[j].attempts = jobs[j].attempts + 1 =>
              [k \in Jobs |-> jobs[k].attempts]' =
                [[k \in Jobs |-> jobs[k].attempts] EXCEPT ![j] = @ + 1]
  BY DEF Lifecycle!Becomes

\* Every transaction is one transition of the policy.
LEMMA TransactionFollowsPolicy ==
  ASSUME ReasonsInv, NEW c \in Callers, Transaction(c)
  PROVE  Lifecycle!Next
  <1> USE DEF WorkerOps
  <1>0. PICK j, w, next :
          j = calls[c].job /\ w = calls[c].worker /\ next = calls[c].next
    OBVIOUS
  <1>1. /\ jobs \in [Jobs -> Job] /\ calls[c] \in Call /\ Reason(c) /\ FencingInv
        /\ MaxAttempts \in Nat
        /\ calls[c].op \notin {"idle", "claim"} => j \in Jobs
        /\ calls[c].op \in WorkerOps \cup {"claim"} => w \in Workers
        /\ calls[c].op = "fail" => next \in {"failed", "dead_letter", "retry_wait"}
        /\ calls[c].op = "recover" => /\ next \in {"dead_letter", "retry_wait"}
                                      /\ calls[c].expected \in Waiting \cup {"running"}
        /\ calls[c].op = "cancel" => calls[c].expected \notin Uncancellable \cup {"absent"}
    BY <1>0, PolicyAssumption DEF ReasonsInv, FencingInv, Shape, TypeOK, CallShape
  <1>2. ASSUME NEW k \in Jobs
        PROVE  /\ Lifecycle!OwnsLease(k, w) <=>
                    jobs[k].status = "running" /\ jobs[k].owner = w
               /\ [i \in Jobs |-> jobs[i].status][k] = jobs[k].status
               /\ [i \in Jobs |-> jobs[i].attempts][k] = jobs[k].attempts
    BY DEF Lifecycle!OwnsLease
  <1>3. CASE EnqueueInsert(c)
    <2>1. /\ j \in Jobs /\ jobs[j].status = "absent"
          /\ \A k \in Jobs \ {j} : jobs'[k] = jobs[k]
          /\ jobs'[j].status = "queued" /\ jobs'[j].version = 1
          /\ jobs'[j].owner = jobs[j].owner /\ jobs'[j].attempts = jobs[j].attempts
      BY <1>0, <1>1, <1>3 DEF EnqueueInsert, Job
    <2>2. jobs[j].version = 0 /\ jobs[j].owner = NoWorker
      BY <1>1, <2>1 DEF FencingInv, NotYetAdmitted, LeaseEndsByDeadline
    <2>3. jobs'[j].version = jobs[j].version + 1 /\ jobs'[j].owner = NoWorker
      BY <2>1, <2>2
    <2>4. Lifecycle!Admit(j)
      BY <1>2, <2>1, <2>3, PolicyWrites DEF Lifecycle!Admit
    <2> QED BY <2>1, <2>4 DEF Lifecycle!Next
  <1>4. CASE ClaimTake(c)
    <2>1. PICK k \in Jobs :
            /\ Candidate(calls[c].now, k)
            /\ jobs[k].attempts < MaxAttempts
            /\ jobs' = [jobs EXCEPT ![k] =
                          Leased(@, w, LeaseFrom(calls[c].now, k))]
      BY <1>0, <1>4 DEF ClaimTake
    <2>2. jobs[k].status \in Waiting /\ w \in Workers
      BY <1>0, <1>1, <1>4, <2>1 DEF ClaimTake, Candidate, Eligible, InStatus
    <2>3. /\ \A i \in Jobs \ {k} : jobs'[i] = jobs[i]
          /\ jobs'[k].status = "running" /\ jobs'[k].version = jobs[k].version + 1
          /\ jobs'[k].owner = w /\ jobs'[k].attempts = jobs[k].attempts + 1
      BY <1>1, <2>1 DEF Leased, Job
    <2>4. Lifecycle!Claim(k, w)
      BY <1>2, <2>1, <2>2, <2>3, PolicyWrites DEF Lifecycle!Claim, Lifecycle!Waiting, Waiting
    <2> QED BY <2>2, <2>4 DEF Lifecycle!Next
  <1>5. CASE Heartbeat(c)
    <2>1. /\ j \in Jobs /\ w \in Workers
          /\ jobs[j].status = "running" /\ jobs[j].owner = w
          /\ \A k \in Jobs \ {j} : jobs'[k] = jobs[k]
          /\ jobs'[j].status = "running" /\ jobs'[j].version = jobs[j].version + 1
          /\ jobs'[j].owner = w /\ jobs'[j].attempts = jobs[j].attempts
      BY <1>0, <1>1, <1>5 DEF Heartbeat, LeaseMatches, Extended, Job
    <2>2. Lifecycle!Heartbeat(j, w)
      BY <1>2, <2>1, PolicyWrites DEF Lifecycle!Heartbeat
    <2> QED BY <2>1, <2>2 DEF Lifecycle!Next
  <1>6. CASE Succeed(c)
    <2>1. /\ j \in Jobs /\ w \in Workers
          /\ jobs[j].status = "running" /\ jobs[j].owner = w
          /\ \A k \in Jobs \ {j} : jobs'[k] = jobs[k]
          /\ jobs'[j].status = "succeeded" /\ jobs'[j].version = jobs[j].version + 1
          /\ jobs'[j].owner = NoWorker /\ jobs'[j].attempts = jobs[j].attempts
      BY <1>0, <1>1, <1>6 DEF Succeed, LeaseMatches, Released, Job
    <2>2. Lifecycle!Succeed(j, w)
      BY <1>2, <2>1, PolicyWrites DEF Lifecycle!Succeed
    <2> QED BY <2>1, <2>2 DEF Lifecycle!Next
  <1>7. CASE Fail(c)
    <2>1. /\ j \in Jobs /\ w \in Workers
          /\ jobs[j].status = "running" /\ jobs[j].owner = w
          /\ calls[c].fence = jobs[j].version
          /\ \A k \in Jobs \ {j} : jobs'[k] = jobs[k]
          /\ jobs'[j].status = next /\ jobs'[j].version = jobs[j].version + 1
          /\ jobs'[j].owner = NoWorker /\ jobs'[j].attempts = jobs[j].attempts
      BY <1>0, <1>1, <1>7 DEF Fail, LeaseMatches, Released, Job
    <2>2. /\ Lifecycle!Becomes(j, next, NoWorker)
          /\ UNCHANGED [k \in Jobs |-> jobs[k].attempts]
          /\ Lifecycle!OwnsLease(j, w)
      BY <1>2, <2>1, PolicyWrites
    <2>3. CASE next = "failed"
      <3>1. Lifecycle!FailPermanent(j, w)
        BY <2>2, <2>3 DEF Lifecycle!FailPermanent
      <3> QED BY <2>1, <3>1 DEF Lifecycle!Next
    <2>4. CASE next \in {"dead_letter", "retry_wait"}
      <3>1. /\ next = "dead_letter" => jobs[j].attempts = MaxAttempts
            /\ next = "retry_wait" => jobs[j].attempts < MaxAttempts
        BY <1>0, <1>1, <1>7, <2>1 DEF Fail, Reason, FencingInv, DecisionsHoldOrAreFenced
      <3>2. jobs[j].attempts \in Nat
        BY <1>1, <2>1 DEF Job
      <3>3. next =
              IF [k \in Jobs |-> jobs[k].attempts][j] >= MaxAttempts
                THEN "dead_letter" ELSE "retry_wait"
        BY <1>1, <1>2, <2>1, <2>4, <3>1, <3>2
      <3>4. Lifecycle!FailRetryable(j, w)
        BY <2>2, <3>3 DEF Lifecycle!FailRetryable
      <3> QED BY <2>1, <3>4 DEF Lifecycle!Next
    <2> QED BY <1>0, <1>1, <1>7, <2>3, <2>4 DEF Fail
  <1>8. CASE Cancel(c)
    <2>1. /\ j \in Jobs /\ jobs[j].status \notin Uncancellable \cup {"absent"}
          /\ \A k \in Jobs \ {j} : jobs'[k] = jobs[k]
          /\ jobs'[j].status = "cancelled" /\ jobs'[j].version = jobs[j].version + 1
          /\ jobs'[j].owner = NoWorker /\ jobs'[j].attempts = jobs[j].attempts
      BY <1>0, <1>1, <1>8 DEF Cancel, SeenMatches, Released, Job
    <2>2. Lifecycle!Cancel(j)
      BY <1>2, <2>1, PolicyWrites
      DEF Lifecycle!Cancel, Lifecycle!Uncancellable, Uncancellable
    <2> QED BY <2>1, <2>2 DEF Lifecycle!Next
  <1>9. CASE Recover(c)
    <2>1. /\ j \in Jobs /\ jobs[j].status \in Waiting \cup {"running"}
          /\ calls[c].fence = jobs[j].version /\ jobs[j].status = calls[c].expected
          /\ \A k \in Jobs \ {j} : jobs'[k] = jobs[k]
          /\ jobs'[j].status = next /\ jobs'[j].version = jobs[j].version + 1
          /\ jobs'[j].owner = NoWorker /\ jobs'[j].attempts = jobs[j].attempts
      BY <1>0, <1>1, <1>9 DEF Recover, SeenMatches, Released, Job
    <2>2. /\ Lifecycle!Becomes(j, next, NoWorker)
          /\ UNCHANGED [k \in Jobs |-> jobs[k].attempts]
      BY <2>1, PolicyWrites
    <2>3. next = "retry_wait" =>
            jobs[j].status = "running" /\ jobs[j].attempts < MaxAttempts
      BY <1>0, <1>1, <1>9, <2>1 DEF Recover, Reason, FencingInv, DecisionsHoldOrAreFenced
    <2>4. Lifecycle!Recover(j)
      BY <1>0, <1>1, <1>2, <1>9, <2>1, <2>2, <2>3
      DEF Recover, Lifecycle!Recover, Lifecycle!Waiting, Waiting
    <2> QED BY <2>1, <2>4 DEF Lifecycle!Next
  <1> QED BY <1>3, <1>4, <1>5, <1>6, <1>7, <1>8, <1>9 DEF Transaction

\* The durable worker implements the job policy: every step is a transition of
\* the policy or changes nothing the policy knows of, although what it writes
\* was decided on a row read earlier.
THEOREM ImplementsJobPolicy == Spec => FollowsJobPolicy
  <1>1. ASSUME ReasonsInv, [Next]_vars PROVE [Lifecycle!Next]_(Lifecycle!vars)
    <2>1. ASSUME NEW c \in Callers, Transaction(c) PROVE Lifecycle!Next
      BY <1>1, <2>1, TransactionFollowsPolicy
    <2>2. ASSUME UNCHANGED <<jobs, runs, outbox>> PROVE UNCHANGED Lifecycle!vars
      BY <2>2 DEF Lifecycle!vars
    <2> QED BY <1>1, <2>1, <2>2, OnlyTransactionsWrite
  <1> QED BY <1>1, PolicyInit, ReasonsAlways, PTL DEF Spec, FollowsJobPolicy, Lifecycle!Spec
=============================================================================
