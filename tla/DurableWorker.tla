---------------------------- MODULE DurableWorker ----------------------------
(***************************************************************************)
(* lib/durableWorkerFoundation.ts: the durable execution plane of one      *)
(* (organisation, capability) scope, the scope of its admission lock, its  *)
(* counts and its policy.                                                  *)
(*                                                                         *)
(* A service call is two steps.  It samples its clock, reads the job       *)
(* (findJob), checks it and works out what the row should become; only     *)
(* then does the repository run one transaction whose UPDATE is guarded by *)
(* the version it read.  Everything can happen in between, so a call in    *)
(* flight is a record in `calls` and its transaction is an action of its   *)
(* own.  enqueue and claimNext instead hold an advisory lock across their  *)
(* count and their write; fail, cancel and recover never take that lock.   *)
(***************************************************************************)
EXTENDS Integers, FiniteSets

CONSTANTS
  Jobs,            \* idempotency keys, one row each; naturals: ORDER BY ends with the id
  Priority,        \* the priority each job is enqueued with
  Runs,            \* fresh ids for processing_runs
  Workers,         \* worker identities
  Callers,         \* service calls that can be in flight at once
  NoWorker, NoRun, NoCaller,
  MaxQueued, MaxRunning, MaxAttempts,        \* WorkerCapabilityPolicy
  LeaseTime, DeadlineTime, RetryBase, RetryMax,
  StartDelays,     \* availableAt - now of the enqueue requests
  MaxProgress,     \* stands for 99 %, the most a heartbeat may report
  MaxLag,          \* how old a call's `now` may be when it reads the job
  MaxClock, MaxVersion   \* bounds on the clock and on heartbeats

NoJob == -1
NoLease == -1

ASSUME JobsAssumption == Jobs \subseteq Nat /\ IsFiniteSet(Jobs)
ASSUME PriorityAssumption == Priority \in [Jobs -> Nat]
ASSUME NullAssumption ==
  NoWorker \notin Workers /\ NoRun \notin Runs /\ NoCaller \notin Callers
ASSUME PolicyAssumption ==
  /\ MaxQueued \in Nat \ {0} /\ MaxRunning \in Nat \ {0}
  /\ MaxAttempts \in Nat \ {0}
  /\ LeaseTime \in Nat \ {0} /\ DeadlineTime \in Nat /\ LeaseTime <= DeadlineTime
  /\ RetryBase \in Nat \ {0} /\ RetryMax \in Nat /\ RetryBase <= RetryMax
ASSUME InputAssumption ==
  /\ StartDelays \subseteq Nat /\ MaxProgress \in Nat /\ MaxLag \in Nat
  /\ MaxClock \in Nat /\ MaxVersion \in Nat

VARIABLES
  clock,   \* the time new Date() returns
  jobs,    \* processing_jobs
  runs,    \* processing_runs
  outbox,  \* the jobs whose success appended an outbox event
  lock,    \* the call that holds the scope's admission lock
  calls,   \* the service calls in flight
  held     \* the claim each worker believes it has

vars == <<clock, jobs, runs, outbox, lock, calls, held>>

Waiting == {"queued", "retry_wait"}
Uncancellable == {"succeeded", "dead_letter", "cancelled"}
Settled == Uncancellable \cup {"failed"}
JobStatus == {"absent", "running"} \cup Waiting \cup Settled
RunStatus == {"none", "running", "succeeded", "failed", "cancelled"}
WorkerOps == {"heartbeat", "succeed", "fail"}
Ops == {"idle", "enqueue", "claim", "cancel", "recover"} \cup WorkerOps

Job == [status : JobStatus, attempts : 0 .. MaxAttempts, version : Nat,
        owner : Workers \cup {NoWorker}, lease : Nat \cup {NoLease},
        available : Nat, created : Nat, progress : 0 .. MaxProgress + 1]
Run == [job : Jobs \cup {NoJob}, status : RunStatus]
Call == [op : Ops, job : Jobs \cup {NoJob}, worker : Workers \cup {NoWorker},
         run : Runs \cup {NoRun}, fence : Nat, now : Nat, expected : JobStatus,
         next : JobStatus, at : Nat, progress : 0 .. MaxProgress, expired : BOOLEAN]
Claim == [job : Jobs \cup {NoJob}, run : Runs \cup {NoRun}, fence : Nat]

TypeOK ==
  /\ clock \in 0 .. MaxClock
  /\ jobs \in [Jobs -> Job]
  /\ runs \in [Runs -> Run]
  /\ outbox \in SUBSET Jobs
  /\ lock \in Callers \cup {NoCaller}
  /\ calls \in [Callers -> Call]
  /\ held \in [Workers -> Claim]

NoCall == [op |-> "idle", job |-> NoJob, worker |-> NoWorker, run |-> NoRun,
           fence |-> 0, now |-> 0, expected |-> "absent", next |-> "absent",
           at |-> 0, progress |-> 0, expired |-> FALSE]
NoClaim == [job |-> NoJob, run |-> NoRun, fence |-> 0]

Init ==
  /\ clock = 0
  /\ jobs = [j \in Jobs |->
               [status |-> "absent", attempts |-> 0, version |-> 0,
                owner |-> NoWorker, lease |-> NoLease, available |-> 0,
                created |-> 0, progress |-> 0]]
  /\ runs = [r \in Runs |-> [job |-> NoJob, status |-> "none"]]
  /\ outbox = {}
  /\ lock = NoCaller
  /\ calls = [c \in Callers |-> NoCall]
  /\ held = [w \in Workers |-> NoClaim]

-----------------------------------------------------------------------------
(* Helpers *)

Smaller(a, b) == IF a <= b THEN a ELSE b
InStatus(S) == {j \in Jobs : jobs[j].status \in S}
Deadline(j) == jobs[j].created + DeadlineTime
LeaseFrom_PastDeadline(now, j) == now + LeaseTime
LeaseFrom(now, j) == Smaller(now + LeaseTime, Deadline(j))

\* The clock readings a call may still be using when it reads the job.
Sampled == {t \in 0 .. clock : clock <= t + MaxLag}

\* min(max, base * 2^(n-1)), plus less than a fifth of it in per-job jitter.
RetryDelays(n) ==
  LET grown == Smaller(RetryMax, RetryBase * 2 ^ (n - 1)) IN
  {d \in 0 .. RetryMax : grown <= d /\ ( d = grown \/ d - grown < grown \div 5)}

Idle(c) == calls[c].op = "idle"
Send(c, call) == calls' = [calls EXCEPT ![c] = call]
Return(c) == calls' = [calls EXCEPT ![c] = NoCall]

\* What fail, succeed, cancel and recover have in common: the row leaves
\* "running" (or never was), nobody holds a lease on it, the version moves on.
Released(row, next) ==
  [row EXCEPT !.status = next, !.owner = NoWorker, !.lease = NoLease,
              !.version = @ + 1]

Leased(row, worker, until) ==
  [row EXCEPT !.status = "running", !.attempts = @ + 1, !.owner = worker,
              !.lease = until, !.version = @ + 1]

Extended(row, progress, until) ==
  [row EXCEPT !.progress = progress, !.lease = until, !.version = @ + 1]

RunningRuns(j) == {r \in Runs : runs[r].job = j /\ runs[r].status = "running"}
CloseRun(r, outcome) == runs' = [runs EXCEPT ![r].status = outcome]
CloseRuns_Forgotten(j, outcome) == UNCHANGED runs
CloseRuns(j, outcome) ==
  runs' = [r \in Runs |-> IF r \in RunningRuns(j)
                            THEN [runs[r] EXCEPT !.status = outcome] ELSE runs[r]]

-----------------------------------------------------------------------------
(* enqueue: the idempotency lookup and the backlog count under the lock,   *)
(* then the insert.                                                        *)

LockIsFree_NotTaken == TRUE
LockIsFree == lock = NoCaller

RoomInQueue_FirstAttemptsOnly == Cardinality(InStatus({"queued"})) < MaxQueued
RoomInQueue == Cardinality(InStatus(Waiting)) < MaxQueued

EnqueueCount(c, j) ==
  /\ Idle(c)
  /\ LockIsFree
  /\ jobs[j].status = "absent"
  /\ RoomInQueue
  /\ lock' = c
  /\ \E now \in Sampled, d \in StartDelays :
       /\ d < DeadlineTime
       /\ Send(c, [NoCall EXCEPT !.op = "enqueue", !.job = j, !.now = now,
                                 !.at = now + d])
  /\ UNCHANGED <<clock, jobs, runs, outbox, held>>

EnqueueInsert(c) ==
  LET call == calls[c] IN
  /\ call.op = "enqueue"
  /\ jobs[call.job].status = "absent"
  /\ jobs' = [jobs EXCEPT ![call.job] =
                [@ EXCEPT !.status = "queued", !.version = 1,
                          !.available = call.at, !.created = call.now]]
  /\ lock' = NoCaller
  /\ Return(c)
  /\ UNCHANGED <<clock, runs, outbox, held>>

-----------------------------------------------------------------------------
(* claimNext: count the running jobs, then take the first due job whose    *)
(* row is not locked by another transaction (FOR UPDATE SKIP LOCKED).      *)

ClaimCount(c, w) ==
  /\ Idle(c)
  /\ LockIsFree
  /\ Cardinality(InStatus({"running"})) < MaxRunning
  /\ lock' = c
  /\ \E now \in Sampled :
       Send(c, [NoCall EXCEPT !.op = "claim", !.worker = w, !.now = now])
  /\ UNCHANGED <<clock, jobs, runs, outbox, held>>

Before(a, b) ==
  LET ja == jobs[a]  jb == jobs[b] IN
  \/ Priority[a] < Priority[b]
  \/ /\ Priority[a] = Priority[b]
     /\ \/ ja.available < jb.available
        \/ /\ ja.available = jb.available
           /\ \/ ja.created < jb.created
              \/ ja.created = jb.created /\ a < b

Eligible(now) ==
  {j \in InStatus(Waiting) : jobs[j].available <= now /\ now < Deadline(j)}

\* A cancel or a recover has updated the row and not committed yet.
RowLocked(j) == \E c \in Callers : calls[c].op \in {"cancel", "recover"} /\ calls[c].job = j

Candidate(now, j) ==
  /\ j \in Eligible(now)
  /\ \A k \in Eligible(now) : Before(k, j) => RowLocked(k)

\* The database makes up an unused id; which one does not matter.
FreshRuns ==
  LET unused == {r \in Runs : runs[r].status = "none"} IN
  IF unused = {} THEN {} ELSE {CHOOSE r \in unused : TRUE}

ClaimTake(c) ==
  LET call == calls[c] IN
  /\ call.op = "claim"
  /\ \E j \in Jobs, r \in FreshRuns :
       /\ Candidate(call.now, j)
       /\ jobs[j].attempts < MaxAttempts
       /\ jobs' = [jobs EXCEPT ![j] = Leased(@, call.worker, LeaseFrom(call.now, j))]
       /\ runs' = [runs EXCEPT ![r] = [job |-> j, status |-> "running"]]
       /\ \/ held' = [held EXCEPT ![call.worker] =
                        [job |-> j, run |-> r, fence |-> jobs[j].version + 1]]
          \/ UNCHANGED held          \* the reply is lost: nobody knows of the claim
  /\ lock' = NoCaller
  /\ Return(c)
  /\ UNCHANGED <<clock, outbox>>

-----------------------------------------------------------------------------
(* The calls of a worker on the claim it holds.  Each starts by reading    *)
(* the job: the fence must be its version (currentJob), and the lease must *)
(* be the worker's and alive at the time the call sampled.                 *)

HoldsLease(w, now) ==
  LET job == jobs[held[w].job] IN
  /\ held[w].job # NoJob
  /\ job.version = held[w].fence
  /\ job.status = "running" /\ job.owner = w
  /\ job.lease # NoLease /\ now < job.lease

WorkerCall(op, w, now) ==
  [NoCall EXCEPT !.op = op, !.job = held[w].job, !.worker = w, !.run = held[w].run,
                 !.fence = held[w].fence, !.now = now]

\* 0 .. 99: only success reports 100 %.
Reportable == 0 .. MaxProgress

HeartbeatRead(c, w) ==
  \E now \in Sampled, p \in Reportable :
    /\ Idle(c)
    /\ HoldsLease(w, now)
    /\ now < Deadline(held[w].job)
    /\ jobs[held[w].job].progress <= p
    /\ jobs[held[w].job].version < MaxVersion
    /\ Send(c, [WorkerCall("heartbeat", w, now) EXCEPT
                  !.at = LeaseFrom(now, held[w].job), !.progress = p])
    /\ UNCHANGED <<clock, jobs, runs, outbox, lock, held>>

SucceedRead(c, w) ==
  \E now \in Sampled :
    /\ Idle(c)
    /\ HoldsLease(w, now)
    /\ now < Deadline(held[w].job)
    /\ Send(c, WorkerCall("succeed", w, now))
    /\ UNCHANGED <<clock, jobs, runs, outbox, lock, held>>

\* retryable: the error code is on the policy's list.
AfterFailure_OneMore(j, now, retryable) ==
  CASE ~retryable -> "failed"
    [] retryable /\ (jobs[j].attempts > MaxAttempts \/ Deadline(j) <= now) -> "dead_letter"
    [] OTHER -> "retry_wait"
AfterFailure(j, now, retryable) ==
  CASE ~retryable -> "failed"
    [] retryable /\ (jobs[j].attempts >= MaxAttempts \/ Deadline(j) <= now) -> "dead_letter"
    [] OTHER -> "retry_wait"

\* When a job that is given back may be claimed again.
AvailableAgain(j, next, now) ==
  IF next = "retry_wait" THEN {now + d : d \in RetryDelays(jobs[j].attempts)} ELSE {now}

FailRead(c, w) ==
  \E now \in Sampled, retryable \in BOOLEAN :
    LET next == AfterFailure(held[w].job, now, retryable) IN
    /\ Idle(c)
    /\ HoldsLease(w, now)
    /\ \E at \in AvailableAgain(held[w].job, next, now) :
         Send(c, [WorkerCall("fail", w, now) EXCEPT !.next = next, !.at = at])
    /\ UNCHANGED <<clock, jobs, runs, outbox, lock, held>>

\* The WHERE clause the three UPDATEs share, and the run row they go on to.
LeaseMatches(call) ==
  LET job == jobs[call.job] IN
  /\ job.status = "running"
  /\ job.version = call.fence
  /\ job.owner = call.worker
  /\ job.lease # NoLease /\ call.now < job.lease

RunMatches(call) == runs[call.run] = [job |-> call.job, status |-> "running"]

\* The worker learns the new fence, unless the reply is lost or it has moved on.
Heartbeat(c) ==
  LET call == calls[c] IN
  /\ call.op = "heartbeat"
  /\ LeaseMatches(call) /\ RunMatches(call)
  /\ jobs[call.job].progress <= call.progress
  /\ jobs' = [jobs EXCEPT ![call.job] = Extended(@, call.progress, call.at)]
  /\ \/ /\ held[call.worker].run = call.run
        /\ held' = [held EXCEPT ![call.worker].fence = call.fence + 1]
     \/ UNCHANGED held
  /\ Return(c)
  /\ UNCHANGED <<clock, runs, outbox, lock>>

\* One transaction: the job, its run and the optional outbox event.
Succeed(c) ==
  LET call == calls[c] IN
  /\ call.op = "succeed"
  /\ LeaseMatches(call) /\ RunMatches(call)
  /\ jobs' = [jobs EXCEPT ![call.job] =
                [Released(@, "succeeded") EXCEPT !.progress = MaxProgress + 1]]
  /\ CloseRun(call.run, "succeeded")
  /\ outbox' \in {outbox, outbox \cup {call.job}}
  /\ Return(c)
  /\ UNCHANGED <<clock, lock, held>>

Fail(c) ==
  LET call == calls[c] IN
  /\ call.op = "fail"
  /\ LeaseMatches(call) /\ RunMatches(call)
  /\ jobs' = [jobs EXCEPT ![call.job] =
                [Released(@, call.next) EXCEPT !.available = call.at]]
  /\ CloseRun(call.run, "failed")
  /\ Return(c)
  /\ UNCHANGED <<clock, outbox, lock, held>>

-----------------------------------------------------------------------------
(* cancel and recover: any caller that has seen the job's version.         *)

Cancellable_Succeeded(j) == jobs[j].status \notin {"absent", "dead_letter", "cancelled"}
Cancellable(j) == jobs[j].status \notin Uncancellable \cup {"absent"}

CancelRead(c, j) ==
  /\ Idle(c)
  /\ Cancellable(j)
  /\ Send(c, [NoCall EXCEPT !.op = "cancel", !.job = j, !.fence = jobs[j].version,
                            !.expected = jobs[j].status])
  /\ UNCHANGED <<clock, jobs, runs, outbox, lock, held>>

Sweepable_RunningOnly(j) == jobs[j].status = "running"
Sweepable(j) == jobs[j].status \in Waiting \cup {"running"}

AfterSweep_Unlimited(j, now) == IF Deadline(j) <= now THEN "dead_letter" ELSE "retry_wait"
AfterSweep(j, now) ==
  IF Deadline(j) <= now \/ jobs[j].attempts >= MaxAttempts THEN "dead_letter"
  ELSE "retry_wait"

LeaseLapsed(j, now) == jobs[j].lease # NoLease /\ jobs[j].lease <= now

RecoverRead(c, j) ==
  \E now \in Sampled :
    LET next == AfterSweep(j, now) IN
    /\ Idle(c)
    /\ Sweepable(j)
    /\ Deadline(j) <= now \/ (jobs[j].status = "running" /\ LeaseLapsed(j, now))
    /\ \E at \in AvailableAgain(j, next, now) :
         Send(c, [NoCall EXCEPT !.op = "recover", !.job = j, !.fence = jobs[j].version,
                                !.now = now, !.expected = jobs[j].status, !.next = next,
                                !.at = at, !.expired = Deadline(j) <= now])
    /\ UNCHANGED <<clock, jobs, runs, outbox, lock, held>>

\* The UPDATE's WHERE clause, and the run row a running job must have.
SeenMatches_Blind(call) == jobs[call.job].status # "absent"
SeenMatches(call) ==
  /\ jobs[call.job].version = call.fence
  /\ jobs[call.job].status = call.expected
  /\ call.expected = "running" => RunningRuns(call.job) # {}

Cancel(c) ==
  LET call == calls[c] IN
  /\ call.op = "cancel"
  /\ SeenMatches(call)
  /\ jobs' = [jobs EXCEPT ![call.job] = Released(@, "cancelled")]
  /\ CloseRuns(call.job, "cancelled")
  /\ Return(c)
  /\ UNCHANGED <<clock, outbox, lock, held>>

Recover(c) ==
  LET call == calls[c] IN
  /\ call.op = "recover"
  /\ SeenMatches(call)
  /\ call.expired \/ LeaseLapsed(call.job, call.now)
  /\ jobs' = [jobs EXCEPT ![call.job] =
                [Released(@, call.next) EXCEPT !.available = call.at]]
  /\ CloseRuns(call.job, "failed")
  /\ Return(c)
  /\ UNCHANGED <<clock, outbox, lock, held>>

-----------------------------------------------------------------------------
(* A call ends without effect: its UPDATE matched no row, a check after it *)
(* threw, the audit lock timed out or the connection broke.  The           *)
(* transaction rolls back and its advisory lock goes with it.              *)
Rollback(c) ==
  /\ ~Idle(c)
  /\ Return(c)
  /\ lock' = IF lock = c THEN NoCaller ELSE lock
  /\ UNCHANGED <<clock, jobs, runs, outbox, held>>

Tick ==
  /\ clock < MaxClock
  /\ clock' = clock + 1
  /\ UNCHANGED <<jobs, runs, outbox, lock, calls, held>>

Transaction(c) ==
  \/ EnqueueInsert(c) \/ ClaimTake(c) \/ Heartbeat(c) \/ Succeed(c) \/ Fail(c)
  \/ Cancel(c) \/ Recover(c)

Next ==
  \/ Tick
  \/ \E c \in Callers :
       \/ Transaction(c) \/ Rollback(c)
       \/ \E j \in Jobs : EnqueueCount(c, j) \/ CancelRead(c, j) \/ RecoverRead(c, j)
       \/ \E w \in Workers : ClaimCount(c, w) \/ HeartbeatRead(c, w)
                               \/ SucceedRead(c, w) \/ FailRead(c, w)

Spec == Init /\ [][Next]_vars

-----------------------------------------------------------------------------
(* Liveness: somebody keeps sweeping.  The code has no sweeper of its own; *)
(* the fairness is what the activation of a dispatcher must provide.       *)

Sweeping ==
  /\ WF_vars(Tick)
  /\ \A c \in Callers : WF_vars(Transaction(c) \/ Rollback(c)) /\ SF_vars(Recover(c))
  /\ \A j \in Jobs : SF_vars(\E c \in Callers : RecoverRead(c, j))

SweptSpec == Spec /\ Sweeping

\* Workers may crash, lose replies or beat forever: a job that was admitted
\* still ends, at the latest some time after its deadline.  (The clock of the
\* model stops; jobs whose deadline lies behind that are not asked about.)
EveryJobSettles ==
  \A j \in Jobs :
    jobs[j].status # "absent" /\ Deadline(j) <= MaxClock ~> jobs[j].status \in Settled

-----------------------------------------------------------------------------
(* Safety *)

RunsOf(j) == {r \in Runs : runs[r].job = j}

\* The run rows and the job rows, written by different statements of seven
\* different transactions, never disagree: a running job has exactly one
\* running run and every other job has none.  (This is why the "no running
\* run" branches after a matched UPDATE never throw.)
RunningJobHasOneRun ==
  \A j \in Jobs :
    IF jobs[j].status = "running"
      THEN \E r \in Runs : RunningRuns(j) = {r}
      ELSE RunningRuns(j) = {}

\* A job waiting to be claimed still has an attempt left.  claimNext gives up
\* when the FIRST due job is exhausted, so one such row would block every job
\* queued behind it.
WaitingJobHasAttemptLeft ==
  \A j \in InStatus(Waiting) : jobs[j].attempts < MaxAttempts

\* maxRunningPerTenant holds although fail, cancel and recover change the
\* count the claim read without taking its lock.
RunningWithinLimit == Cardinality(InStatus({"running"})) <= MaxRunning

\* A failure or a recovery puts a job back in the queue without asking for
\* admission, so the queue alone may exceed maxQueuedPerTenant; what the
\* admission lock does bound is the live work as a whole.
LiveWorkWithinLimit ==
  Cardinality(InStatus(Waiting \cup {"running"})) <= MaxQueued + MaxRunning

\* No lease reaches past the deadline of its job, however late the clock
\* reading it was computed from.  So the deadline sweep, which does not look
\* at the lease, never takes a job whose lease is alive.
LeaseEndsByDeadline ==
  \A j \in Jobs :
    IF jobs[j].status = "running"
      THEN jobs[j].owner # NoWorker /\ jobs[j].lease \in 0 .. Deadline(j)
      ELSE jobs[j].owner = NoWorker /\ jobs[j].lease = NoLease

\* A job counts as succeeded iff one, and only one, of its runs did, and an
\* outbox event exists only for such a job.
SuccessIsCommittedOnce ==
  \A j \in Jobs :
    LET won == {r \in RunsOf(j) : runs[r].status = "succeeded"} IN
    /\ Cardinality(won) = IF jobs[j].status = "succeeded" THEN 1 ELSE 0
    /\ j \in outbox => jobs[j].status = "succeeded"

\* What a call worked out from the row it read is either still true of the row
\* when its transaction runs, or the fence keeps the transaction out: no fence
\* is ahead of its job, and one that is not behind sent the job back to the
\* queue only with attempts left, or extended the lease only up to the deadline.
DecisionsHoldOrAreFenced ==
  \A c \in Callers :
    LET call == calls[c]  job == jobs[call.job] IN
    call.op \in WorkerOps \cup {"cancel", "recover"} =>
      /\ call.fence <= job.version
      /\ call.fence = job.version =>
           /\ call.op \in {"fail", "recover"} /\ call.next = "retry_wait"
                => job.attempts < MaxAttempts
           /\ call.op = "heartbeat" => call.at <= Deadline(call.job)

-----------------------------------------------------------------------------
(* What a step may never do *)

\* A settled run is never written again, and a settled job only by cancelling
\* one that failed permanently: a worker that lost its lease, or a sweep that
\* decided before the worker answered, cannot overwrite the outcome.
OutcomesAreFinal ==
  [][/\ \A r \in Runs : runs[r].status \in RunStatus \ {"none", "running"}
                          => runs'[r] = runs[r]
     /\ \A j \in Jobs : jobs[j].status \in Settled =>
          \/ jobs'[j] = jobs[j]
          \/ jobs[j].status = "failed" /\ jobs'[j].status = "cancelled"]_vars

\* As long as its lease is alive, a job goes back to the queue or to the dead
\* letters only because its own worker reported a failure, and to the dead
\* letters only when its attempts are used up: neither a sweep (for the lease
\* or for the deadline) nor the "deadline expired" alternative in fail()
\* ever ends an attempt early.
LiveLeaseIsRespected ==
  [][\A j \in Jobs :
       /\ jobs[j].status = "running" /\ clock < jobs[j].lease
       /\ jobs'[j].status \in {"retry_wait", "dead_letter"}
       => /\ \E c \in Callers : /\ calls[c].op = "fail" /\ calls[c].job = j
                                /\ calls'[c].op = "idle"
          /\ jobs'[j].status = "dead_letter" => jobs[j].attempts = MaxAttempts]_vars

-----------------------------------------------------------------------------
(* Refinement *)

\* Seen without requests, clock, lease times or runs, every transaction is one
\* transition of the job policy, although what it writes was decided on a row
\* read earlier.
Lifecycle == INSTANCE JobLifecycle WITH
  status <- [j \in Jobs |-> jobs[j].status],
  version <- [j \in Jobs |-> jobs[j].version],
  attempts <- [j \in Jobs |-> jobs[j].attempts],
  owner <- [j \in Jobs |-> jobs[j].owner]

FollowsJobPolicy == Lifecycle!Spec
=============================================================================
