# Verification of the BidBox (Valo) API server

TLA+ models of the parts of this repository where correctness depends on the
order of steps: concurrent requests, transactions that span a request, leases,
retries, crashes, late answers, and the locks that order them. TLC checks the
models on small instances, TLAPS proves theorems about eight of them for every
value of their constants. Paths are relative to the repository; `lib/`,
`routes/` and `middlewares/` without a prefix are under
`artifacts/api-server/src/`.

Section 5 has the one finding and the observations. Everything else that was
checked holds.

## 1. Inventory

The system is an Express API over PostgreSQL (Drizzle) and an object store, a
React workbench, generated clients, and a few scheduled scripts. Nearly all
shared state is in the database; the hard behaviours come from how long
transactions are kept open, which locks order them, what happens between two of
them, and what the object store, which no transaction covers, does meanwhile.

### Components with state that can go wrong

| Component | State | Operations | Hard behaviour | Module |
| --- | --- | --- | --- | --- |
| Durable execution plane (`lib/durableWorkerFoundation.ts`, `lib/jobPolicy.ts`) | `processing_jobs` (status, attempts, version used as a fence, lease), `processing_runs`, an admission advisory lock | enqueue, claimNext, heartbeat, succeed, fail, cancel, recover | every call reads and decides before its transaction starts; counts under a lock that half of the writers do not take; worker crashes, late and repeated answers | `DurableWorker` |
| Transactional outbox (`lib/transactionalOutbox.ts`) | `notification_events` (status, version, deadline), `notification_attempts` | append, prepare, blockPrepared, claimReconciliation, resolveReconciliation, recoverExpired | an attempt is recorded before the effect; a crash leaves its outcome unknown; late settlements; backoff against deadline | `TransactionalOutbox` |
| Tenant request transaction (`middlewares/databaseTenancy.ts`) | one transaction per request, holds, the terminal event, the promise of an early commit | begin, finish/close events, hold, release, commit before response | response events, handler code, driver and continuations interleave; disconnects | `TenantRequest` |
| Runtime lifecycle (`lib/runtimeLifecycle.ts`, `index.ts`) | readiness, the HTTP server, the pool, one shutdown promise | signal, drain, close the pool, exit; server failure | two deadlines race held transactions | `GracefulShutdown` |
| Audit chain (`lib/audit.ts`, `lib/auditChain.ts`, `scripts/verify-audit-chain.ts`) | `audit_events` with position, previous hash and hash per tenant; one global advisory lock; the recorded head | writeAuditTx (in anybody's transaction, in savepoints), verify, record the head | lock scope against savepoints; two writers on one head; what tampering is visible | `AuditChain`, `AuditTampering` |
| Storage lifecycle (`lib/storageLifecycle/`, `lib/objectStorage.ts`, `lib/storageReferences.ts`, `routes/vault.ts`, `routes/documents.ts`) | upload sessions, deletion intents and attempts, documents and vault items that refer to a path, the provider's objects | issue a lease, PUT, finalize (inspect, quarantine or promote, register), delete a document, link and unlink a vault item, sweep, reconcile, replay, resolve, purge | provider calls inside a transaction; late PUTs; unacknowledged saves and deletions; crashes between provider and commit | `StorageLifecycle` |
| Storage deletion reconciler (`scripts/run-storage-deletion-reconciler.ts`, `lib/storageLifecycle/reconciler.ts`, `lib/durableCycleEvidence.ts`) | cursor, lease, dirty flag in `app_config`; a session lock | one bounded run: claim, page of tenants, finish | partial failure, crash, outlived lease, fairness among tenants, evidence over several runs | `StorageReconciler` |
| Report sign-off and export (`routes/reports.ts`, `lib/projectReviewerAuthority.ts`) | reports, project status and version, packages, export receipts | generate, sign off, export | inputs and authority change under the checks; idempotent export | `SignOff` |
| Tenancy boundary, advisory locks, membership (`middlewares/tenancy.ts`, `lib/compatibleAdvisoryLock.ts`, `lib/directMembershipAuthority.ts`) | project, membership and row locks; memberships and grants | lock, re-derive, revoke | lock order over all routes; two key names during a release | `SignOff` |
| Retention completion (`lib/retentionCompletion/`, `lib/db/migrations/0011_retention_completion.sql`) | retention requests, actions, bindings to deletion intents, certificates | detach (with the purge), reconcile, certify | the storage worker, the vault and the operators of dead letters take none of its locks and move between its statements; what is certified happened at the provider | `RetentionCompletion`; its locks in `SignOff` |
| Retention planning (`lib/retentionScan.ts`, `lib/retentionPlanning.ts`) | retention requests, legal holds | scan, plan | a savepoint per project | - |
| Schedule runner (`scripts/run-inprocess-schedules.mjs`) | running flag and last minute per process | tick, fire | missed and doubled minutes, several replicas | - |
| AI control plane (`lib/aiControlPlane.ts`) | pure run records with leases and budgets | claim, renew, settle, expire | illegal sequences of commands | - |
| Money and BOQ arithmetic (`lib/boqArithmetic.ts`, `lib/decimalMoney.ts`) | none | exact decimal operations | rounding and scale at boundaries | - |

The remaining parts (workbench, generated clients, schema and migrations,
renderers, the suites of record-keeping features, intelligence projections,
release tooling) are listed in `PROJECT.json` with the reason they are left out.

### How they interact

A request enters through authentication, rate limiting (a connection of its
own) and the tenancy middleware, which opens the request's transaction, sets the
tenant, and takes the locks of the projects the request names. Handlers run in
that transaction; `db.transaction` inside it is a savepoint. `writeAuditTx` takes
the one global chain lock inside it and keeps it until the request ends. The
request ends by the events of its response (`TenantRequest`), and only then are
its locks free (`AuditChain`, `SignOff`). A shutdown meets it at its socket, at
the pool and at the exit (`GracefulShutdown`). An upload's request calls the
object store between its statements (`StorageLifecycle`); what it leaves behind
is collected by scheduled scripts, which run as separate processes and exclude
each other by a session lock and a lease in the database (`StorageReconciler`).
The execution plane and the outbox are written to be called by a dispatcher; the
success of a job appends an outbox event in the same transaction.

### What makes each correct

* Execution plane: one holder per claim, counts within limits, outcomes final,
  every job settled, each transaction a transition of the job policy.
* Outbox: no second attempt while the outcome of an earlier one is unknown; only
  the fence's holder settles; what gets stuck was not delivered.
* Request and shutdown: commit and rollback mean what the client was told; held
  work is not cut short; the transaction ends; exit code 0 means nothing was
  lost.
* Audit: chains verify, whatever requests do; the unique index never fires;
  rows that verify have everything before an event that is kept, and everything up to a
  recorded head.
* Storage: a registered document is the bytes that were inspected; a copy at the staged,
  promoted or quarantine path is referred to or will be deleted, or the failure is on
  record. Two exceptions are in the code: a request that outlived its session, and a
  quarantined copy that a crash and a retry leave behind (section 5).
* Reconciler: a full cycle is signalled only if every tenant was processed; no
  tenant starves.
* Retention: a certificate is true; an action is blocked by an operator's decision
  only; the vault's files survive; no stored copy is forgotten.
* Sign-off and export: what is released was ready, authorised and under an NDA
  when it was committed; it stays frozen; one receipt per key; no deadlock.

## 2. Modules

| Module | Models | Notes |
| --- | --- | --- |
| `JobLifecycle` | `evaluateJobTransition` of `lib/jobPolicy.ts` | the abstract specification: status, version, attempts and owner of each job |
| `DurableWorker` | `lib/durableWorkerFoundation.ts` | implements `JobLifecycle` (`FollowsJobPolicy`) |
| `TransactionalOutbox` | `lib/transactionalOutbox.ts` | |
| `TenantRequest` | `middlewares/databaseTenancy.ts` | the request alone |
| `GracefulShutdown` | `lib/runtimeLifecycle.ts`, `index.ts` | composed with `TenantRequest`, which it implements (`ProcessRunsRequest`) |
| `AuditVerification` | the verifier: `lib/auditChain.ts`, `scripts/verify-audit-chain.ts` | pure operators, shared by the next two |
| `AuditTampering` | a stored chain that is edited | checks the verifier; its names differ from those of `AuditChain`, so that one proof module extends both |
| `AuditChain` | `lib/audit.ts` in concurrent transactions with savepoints | checks the writer |
| `StorageLifecycle` | one upload lease, its three objects, the rows that refer to them, sweep and deletion intents | |
| `StorageReconciler` | the reconciler's runs | |
| `SignOff` | sign-off, export and the requests they race with, lock by lock | |
| `RetentionCompletion` | one retention request over several files, with the storage worker, the vault and late PUTs | the worker's steps are those of `StorageLifecycle`, as far as a bound intent can meet them |
| `...Proofs` | - | theorems about the module they are named after |
| `MC...` | - | model values and symmetry for TLC |

### How state and actions correspond to the code

**DurableWorker.** One (organisation, capability) scope, the scope of the
admission lock and of every count. `jobs` and `runs` are the rows of
`processing_jobs` and `processing_runs`, `lock` the advisory lock, `calls` the
service calls in flight, `held` what each worker remembers of its claim. Service
methods take two steps: `HeartbeatRead`, `SucceedRead`, `FailRead`, `CancelRead`
and `RecoverRead` sample a clock that may be `MaxLag` old, read the row and
decide; `Heartbeat`, `Succeed`, `Fail`, `Cancel` and `Recover` are the
transactions, guarded by the fence as their `UPDATE ... WHERE` is. `EnqueueCount`
and `EnqueueInsert`, `ClaimCount` and `ClaimTake` are the two halves that an
advisory lock joins. `Rollback` is a connection lost before the commit; a reply
lost after it, and a worker that died, are workers whose `held` stays what it was
and whose calls come late, again or never. Retry delays are an interval between
base and maximum, because the code derives them from a hash.

**TransactionalOutbox.** `events` and `attempts` are the two tables, `held` the
delivery each worker believes it has. Each operation is one transaction, since
all of them lock the event and then the attempt; its `now` was sampled before.
`Readable` is the one condition of the parser that the outbox's own writes can
break.

**TenantRequest.** One request, since requests share none of the module's state.
`Begin`, `Respond`, `OnFinish`, `OnClose`, `Hold`, `Release`, `Commit`,
`TransactionEnds` (the database answers) and `Return` (the continuation after the
await) are the steps between which Node can run something else.

**GracefulShutdown.** The same request on a socket of a process. `socket`,
`pool` and `exit` are where they meet: `BeginOnPool` needs an open pool,
`CloseOnSocket` is the middleware's close handler together with what becomes of
the socket, `PoolEnds` waits for the checked-out client, and nothing runs after
`exit`. `Signal`, `Drained`, `DrainDeadline`, `DatabaseClosed` and
`DatabaseNotClosed` are `createGracefulShutdown`; `ServerFails` and
`FailedServerExits` the error handler in `index.ts`, which shares the pool's close
with it.

**AuditChain.** `tx[r]` is the transaction of a connection: the tenant, the
statement it is at, the head it has read, what it has inserted, its savepoints.
`Acquire`, `ReadHead` and `Insert` are the three statements of `writeAuditTx`,
each seeing what is committed when it runs (read committed, which the callers
pin). `TimeOut` is `SET LOCAL lock_timeout`. `Savepoint`, `ReleaseSavepoint` and
`RollbackToSavepoint` are nested `db.transaction` calls, as `runRetentionScan`
and `writeAudit` make them; rolling back gives back a lock taken since, as
PostgreSQL does. A hash is the tuple of what it covers, so equal hashes mean
equal contents: the collision resistance of SHA-256 is the abstraction.

**AuditTampering.** Rows of one tenant, which are then edited `MaxEdits` times:
deleted, overwritten in place (moved to another tenant or position included), or replaced and
added with a hash computed for them over that of any row (`Forge`). The hash has no
key, so a chain can be rewritten from some event on, row by row, and verify: forge
event 2, then forge event 3 over it. What verification promises all the same is
`KeptEventVouchesForItsPast` and, with a recorded head, `AnchorProtectsWhatItCovers`.

**StorageLifecycle.** One lease, because every path is derived from the lease's
id, so leases share nothing but the project lock. `objects` is the provider,
changed at once by every provider call; `session`, `registered`, `linked` and
`intents` are committed rows; `fin[f]` is how far a finalize request is inside
its transaction, `holder` whose transaction that is. `Admit`, `Download`,
`Discard`, `Quarantine`, `Move`, `Promote`, `DeleteSource`, `Register`, `Undo` and
`Commit` are finalize, each with every outcome the code distinguishes: refused,
confirmed, unconfirmed. `Rollback` is a crash or a failed commit at any of them:
the rows are as before, the objects are not. `LoseSession` is a database session
that PostgreSQL ends (idle in its transaction during a long provider call) while
the request goes on without locks. A path's advisory lock is `cleanup[p]` for a
reconciliation and the request's own for the staged path. `TakeUp` and
`FinishDeletion` are `reconcileStorageDeletionIntent` before and after the
provider's deletion.

**StorageReconciler.** `config` is the row in `app_config`, `lock` the session
lock, `run` the locals of a process, `clean` and `report` are history: who was
wholly processed since the cursor wrapped, and whether the last signal was true.
One tenant's sweep, purge and listing are one step that ends well, partially or
not at all.

**SignOff.** A request is a transaction that walks its `Route`: the order in which
one kind of request takes its locks and makes its decisions, one statement at a
time, each seeing what is committed then. `held` are the locks, with PostgreSQL's
four row lock modes; `saw` what a request has read and compares again; `End`
publishes its writes and gives its locks back, `Deny` rolls back a savepoint and
goes on to record the denial. Ten kinds: sign-off, export, generation, a writer of
release inputs through the boundary (`source`) and one past it (`direct`), the NDA
decision on a client, membership administration as three releases of the code
take its keys, a client upload, and the retention workflow (`complete`, which
purges, and `reconcile`). A project row carries one NDA-independent readiness
bit (`fatal`), its reports, its package version and its receipts. Some
denials of `RowAccepts` and `LockReport` are never taken: the project lock of the
boundary already excludes what they guard against. They are in the code and in
the model as second lines of defence.

**RetentionCompletion.** One request and its project. `action` is the status of the
retention action (its version is a function of it), `rows` the files that rows of
the live project name, `linked` those that a vault item names, `event[p]` the
deletion intent bound to the action for file `p`, with its latest attempt and how
many there were, `disposition` what the binding records, `objects` the provider.
Calls of one project exclude each other by its advisory lock, so there is one
`call`, with what it has read so far. `TakeInventory` and `CommitDetach` are detach before
and after the inventory: the purge (`purge_retention_project`, which detach calls)
takes its table locks only then and compares. `ReadEvents`, `ReadAttempts` and
`CommitReconciliation` are the two reads of reconcile and its decision; what it records is
judged again by the trigger of the binding (`RecordingIsAccepted`) and read back for
the answer. `Certify` decides on recorded dispositions only and is one step. Between any
two of them `DropRow`, `LinkVaultItem`, `UnlinkVaultItem`, `AttemptDeletion`,
`AttemptUnconfirmed`, `CrashAfterDeletion`, `ReplayDeadLetter` and
`ResolveDeadLetter` move: none takes the project lock once the project is gone.
`LatePut` uses a signed URL that outlives its session row. `Age` is the ninety days
after which the purge of old intents fails on a bound one and ends the tenant's
turns (`TenantHasItsTurn`).

## 3. Runs

Bounds are named constants; every one of them appears in the guard of an action
or the range of an input.

| Run | Instance | Shows |
| --- | --- | --- |
| `worker_fencing` | 1 job, 2 workers, 2 overlapping calls, 2 attempts, lease 2, deadline 3, clocks 1 late | decisions, leases, runs and outcomes agree; refinement of the job policy; with a sweeper every job settles |
| `worker_admission` | 3 jobs, 2 calls, 1 queue slot, 1 running slot | both limits hold although half of the writers take no lock |
| `outbox` | 1 event, 2 workers, 2 attempts, two lifetimes, sweeping | no effect while one is unknown, late settlements are refused, what is stranded was not delivered, an abandoned attempt is released |
| `shutdown` | 1 request with 2 holders in a process that is told to stop or whose server fails, fair | how a transaction ends, that it ends, that exit code 0 is honest |
| `audit_writers` | 2 requests, 2 tenants, 2 contents, 2 savepoints deep, 2 events | chains verify, no collision, the lock covers unseen events |
| `audit_verification` | 3 events, 2 edits, re-linking included | among rows that verify an event whose hash is kept has its past as written, and a recorded head everything up to it |
| `storage_lifecycle` | 2 finalize requests, 2 PUTs (clean, mismatched or suspect), 1 fault, 1 vault item, 1 replay | documents keep their bytes; copies at all three paths are tracked, with the two exceptions below |
| `storage_collected` | 1 request, 1 PUT (clean, mismatched or suspect), 1 fault, 2 attempts, sweep and reconciliation repeated | in the end no copy is left that nobody owns or has given up on record, with the same exceptions and if the tenant's turn reaches its intents |
| `reconciler_cycle` | 2 processes, 3 tenants in pages of 2, 2 mishaps, fair | the full-cycle signal is true, and every tenant is served again and again |
| `sign_off` | 3 requests of any kinds, 2 projects, 3 starting states, clock 0..1 | releases are ready, authorised, under one NDA and frozen; one receipt per key; circles of waits need the retention workflow |
| `retention` | 2 administrators, 2 files (one of an upload session), 2 attempts a cycle, 1 replay, 3 attempts of evidence per file | certificates are true, races do not block, the vault keeps its files, no copy is forgotten |
| `retention_replay` | 1 administrator, 1 file, the limits of the code (5 attempts, 3 replays, 6 attempts of evidence) | the finding |

*Why the bounds are enough.* Jobs of a scope meet only in the two counts and in
the order claims take them, so fencing needs one job and admission needs one more
than the limits allow. Two calls are what a race takes: a third would have to
carry information no row carries. A lease of 2, a deadline of 3 and two attempts
let a lease end before, at and after the deadline, and let the last attempt be
both the one that fails and the one that is swept. Outbox events are independent
rows. Two savepoints is the least depth at which a lock is taken between them;
for the lock and the unique index the theorems remove the bound. In storage two
requests are one that crashed and one that retries, two PUTs one that is inspected
and one that lands afterwards; the theorems remove these bounds too. Three
tenants in pages of two give a full page, a partial one, and a page that starts
after a failure. Three events are a first, an interior and a last one, and two
edits forge the interior one and link the last one to it again. Three
requests of a sign-off run are a sign-off or export, a writer it must be ordered with, and a third
to make that writer wait; two projects are what two boundaries in opposite order
need. Two files of a retention are one that blocks or proves while the other does
not, and two administrators the least a certificate needs; with two attempts a
cycle, one replay and three attempts of evidence, evidence can be too long, and the
theorems remove all four bounds.

*What the storage properties except.* `EveryCopyIsTracked` and `OrphansAreCollected` are
about the staged, promoted and quarantine paths, after a crash at any point too. They except the
promoted and quarantined copies of a request that outlived its database session
(`outlived`), and the quarantined copy of a session that was settled without it after a crash
(`QuarantineIsForgotten`): the code loses that one (section 5).

*Deadlock.* `AuditChain` and `StorageReconciler` are checked for deadlock. The
others really stop: every job settled and no call left, the event dead-lettered,
the process gone, the edits used up, the objects collected, every request ended, the
action certified or blocked;
their configurations say so. Circular waits of `SignOff`, which time out in the
code as they do in the model (`Fail`), are asked about by
`OnlyRetentionClosesACircle` instead. The clock is bounded by `MaxClock`, and
liveness only asks about jobs and leases that end before that.

*Fairness.* `FairShutdownSpec` assumes, as long as the process runs, that a
connection that is to close does, that the driver answers, handlers release in
their `finally` blocks, and Node fires its timers; no signal and no failure has to
come. `FairSpec` of `StorageReconciler` assumes the schedule (every fifteen
minutes) and that a tenant that is not broken succeeds in the end if it is tried
again and again. `FairSpec` of `StorageLifecycle` assumes that time passes,
requests and PUTs end, and that the scheduled sweep and reconciliation, which come
again and again, get the locks they ask for now and then (strong fairness: the
database grants a lock in the order it was asked for). For `TakeUp` that is also an assumption about
the tenant: its turn comes and reaches its intents. Two things in the code deny it to a tenant,
a purge that fails every time (`repository.ts:759`) and a cursor that stays before it
(`reconciler.ts:265`); `OrphansAreCollected` promises nothing to such a tenant. `SweptSpec` of the worker
and the outbox assumes a sweeper. The repository has none: `recover` and
`recoverExpired` are written for one, and ADR 0012 names its activation as a
separate step. `EveryJobSettles` and `AbandonedAttemptIsReleased` say what that
step will get; nothing else in those runs depends on fairness.

## 4. Proofs

Eight modules have theorems, for any number of jobs, workers, requests, events,
faults and so on, from the named assumptions on the constants alone.

`DurableWorkerProofs` (policy numbers positive, base at most maximum, nulls outside
the id sets):

| Theorem | Says |
| --- | --- |
| `TypeCorrect` | types of jobs, runs, calls, clock |
| `QueueIsClaimable` | a waiting job has an attempt left |
| `LeasesEndByDeadline` | no lease outlives the deadline |
| `DecisionsAreFenced` | a stale decision is refused, or still fits |
| `JobsAndRunsAgree` | exactly the running jobs have a running run, one each |
| `OutcomesStayFinal` | settled jobs stay settled (action property) |
| `LiveLeasesAreRespected` | before its lease ends a running job goes back or to dead letter only by a failure that was reported for it (action property) |
| `SuccessesAreCommittedOnce` | a succeeded job has one run that succeeded, any other job none; outbox events only for succeeded jobs |
| `RunningIsLimited`, `LiveWorkIsLimited` | the two admission limits, with claims and enqueues in flight |
| `ImplementsJobPolicy` | the refinement `FollowsJobPolicy`: every transaction is one transition of `JobLifecycle`, or none |

The invariant behind the first six is the type invariant with the shape of calls in
flight and of remembered claims; `WaitingJobHasAttemptLeft` (which `QueueIsClaimable` proves) and the lease bound
are not inductive without `DecisionsHoldOrAreFenced`, because the transaction
writes what was decided on an older row: only the fence connects the two.
Agreement of jobs and runs needs the types and that fresh run ids are unused.
The others each need one more layer. For the limits (`AdmissionInv`): whoever is between
its count and its write holds the advisory lock, and what it counted is still below the
limit; only such a writer adds to the counted jobs, and at most one. For single success
(`SuccessInv`): a job that has not succeeded has no run that did, and a run ends once. For
live leases (`ReasonsInv`): why each call in flight decided as it did, no clock of a call
being ahead, and a reason that a dead letter rests on being true of the row for as
long as the call's fence fits it. The refinement goes operation by operation: a call that only
reads, and a transaction that the fence keeps out, change nothing the policy knows of;
one that writes has decided, by `ReasonsInv` and the fence, what the policy decides on the
row as it is now.

`TransactionalOutboxProofs`:

| Theorem | Says |
| --- | --- |
| `EventsAgree`, `NoSecondEffect` | the status of an event fits its latest attempt; no attempt while an earlier one may have delivered |
| `FencesAreExclusive` | only the worker that opened the current attempt carries its fence |
| `StrandedIsKnown` | an event the parser refuses has not been delivered |
| `OutcomesStayKnown` | known outcomes, attempts and dead letters are final (action property) |

`IInv` says of each event what its status implies for its latest attempt, that all
earlier attempts are known not to have delivered, that the fence of an open attempt
is the event's version, and that whoever remembers that version is the worker that
opened it. The fence clause is what carries the rest: without it a late settlement
could be taken for the current one.

`GracefulShutdownProofs`:

| Theorem | Says |
| --- | --- |
| `ProcessRunsRequest` | the process with its shutdown implements `TenantRequest` |
| `AbandonedRollsBack`, `ErrorRollsBack`, `RollbackReasons` | when a transaction is rolled back, and only when |
| `HeldWorkGoesOn` | no step settles a held transaction but the handler's own commit (action property) |
| `CleanExit` | exit code 0 leaves nothing open and no success unwritten |

The refinement lets the inductive invariant of the request be proved without the
shutdown: `HoldsAreCounted` (the counter is the number of holders, as long as
nobody asked for a commit), `Progress` (what each phase of the response and of the
transaction excludes), `Decision` (a recorded terminal event and what it was judged
on) and `Verdict` (what a settled transaction says about the client). `CleanExit`
adds that the pool ends only once the transaction has.

`AuditChainProofs`, from `Nobody \notin Requests` alone, for both `AuditChain` and `AuditTampering`:

| Theorem | Says |
| --- | --- |
| `UnseenEventsAreLocked` | who has uncommitted events holds the lock |
| `InsertsNeverCollide` | the place a writer is about to take is free |
| `CommittedChainsAreValid` | every committed chain verifies, against any head recorded for it earlier too |
| `KeptEventsVouch` | rows that verify in place of a chain have every event before one whose hash they have, as written |
| `AnchorProtects` | rows that verify against a recorded head have every event up to it, as written |
| `CommittedEventsVouch` | the two systems together: the same of the committed events of every tenant, for any finite set of rows, and of the head last recorded for it |

`UnseenEventsHoldTheLock` is not inductive: rolling back may bring events back
into view whose lock was taken inside the savepoint. `LockInv` adds that a
savepoint with events was set with the lock held, that the lock flags of nested
savepoints only grow inwards, and that a writer past the lock statement has it.
`HeadInv` adds that what a request sees, now or after any rollback, is a chain for
every tenant (`Chained`: some numbering of the rows has each event at its position,
over the hash of its predecessor), and that the head it has read is the last event.
The one step that could spoil it for another request is a commit, and `LockInv`
excludes that the other one has read a head or inserted anything by then.
`CommittedChainsAreValid` then needs what verification computes: `ChainInOrder` says
that sorting the rows of a chain by position gives back the numbering, which is
unique because an increasing function from 1..n into itself is the identity
(`IncreasingIsIdentity`), and `AnchorInv` that a recorded head is that of an event
still there.

For tampering, `TamperInv` says only that a chain was written and that there are rows in the
table; how they came there does not matter, so re-linked chains, rows of other tenants and
whole replacements are included. In rows that verify each hash is right and over the hash of the row
before. A row with the hash of a written event is therefore that event, by injectivity
(`SameHashSameEvent`, the model of SHA-256), and so is over the same hash as it: the row before is
the event before. `SharedHashSharedPast` goes down from there (there is no last row, counted from
above, at which the two differ, by `LeastExists`). A recorded head puts the hash of an event
into the rows. An event can thus be altered unnoticed only if the hash of every later event is gone,
and not at all at or below a recorded head.
That rows can be sorted at all (`InOrderIsSorted`) is proved from the least element
of a finite set, by the well-foundedness of strict inclusion (`SmallestSet`).

`StorageLifecycleProofs`:

| Theorem | Says |
| --- | --- |
| `TypesHold` | types, and that a reconciliation's row in hand stays unsettled |
| `DataIsSafe` | a referenced document has the inspected bytes; only a request that outlived its session can lose them, and none can put other bytes there |
| `NothingLeaks` | a copy at any of the three paths is referred to, awaits a sweep, or is named by an intent that waits or was given up, with the exceptions of `EveryCopyIsTracked` |

`DataIsSafe` rests on custody of the promoted path: before the session is decided
only the request that holds the project lock has business with it
(`HolderFoundItOpen`, `PromotedPathIsPrivate`), afterwards only a reconciliation,
which found no reference under the path's lock (`DeletedUnreferenced`).
`NothingLeaks` adds that a PUT can land only before the sweep, and that a row is
only settled when its copy is referred to or gone. The quarantine path has a layer of its own
(`QuarantineSighted`): as long as nothing has failed, a copy in a session that is open, or was
settled without it, belongs to the request that holds the project lock and is still busy with it
(`WithoutFaults`), and no reconciliation comes to the path before the sweep
(`QuarantineIsLeftAlone`).

`StorageReconcilerProofs`:

| Theorem | Says |
| --- | --- |
| `OneSessionHasTheLock` | only the run with the session lock has a live session |
| `NobodyIsPassed` | whoever the cursor has passed without being wholly processed is remembered |
| `FullCyclesAreFull` | a reported full cycle covered every tenant |

The strengthening relates a run that outlived its lease to the row it can no longer
write: the owner knows what the row knew when it claimed it (`OwnerKnows`), and
whoever has lost ownership writes nothing.

`SignOffProofs`, for any number of requests, projects and idempotency keys:

| Theorem | Says |
| --- | --- |
| `LocksAreKept` | locks held are compatible, and a request keeps those of the steps it has passed |
| `JudgementsStay` | what a request has judged under a lock is still so when it commits |
| `SignedReady`, `OneNda`, `ReleasersHadAuthority` | readiness, NDA and authority hold at the commit (action properties) |
| `ReleasesAreFrozen` | no request changes what was released (action property) |
| `OneReceipt` | one receipt per idempotency key |
| `OnlyRetentionCloses` | a circle of waiting requests includes one of the retention workflow |

`Locked` has no content beyond the locks: where a request is in its route, and that
each passed `stable`, `renamed`, `client`, `row` or `boundary` step has left its lock.
`Sound` adds what each release has found out so far: `Authorised`, `UnderNda`,
`RowStays`, `Newest`, `Decided`. Whatever could make one of these false is a commit
of another request, which by its route has passed a lock that conflicts with the
one the release keeps; `Compatible` says the two cannot be. The steps that write
nothing are handled together (`Quiet`). For authority that needs both names of the
membership lock: a release holds the two, whoever revokes holds one of them.

`OnlyRetentionCloses` needs the converse of `Locked`: a request has *no* lock but those
of the steps behind it, and its projects' in ascending order (`Orderly`). In a circle
without the retention workflow, a request past its boundary can wait for another one
past it only if both have locked `Home`, which is impossible; it can wait for a direct
writer that has its source row or for an administrator that has the stable key, but
these wait in turn only for a request past its boundary, which would be the first
one, and that one has not taken what they wait for. So all of the circle would be
locking projects, each holding one and wanting a greater one, with `Home` among the
two: three such steps in a row are impossible (`ClimbsAtBoundary`).

`RetentionCompletionProofs`, for any administrators, files, limits of attempts and
replays, and whatever bound is put on the evidence:

| Theorem | Says |
| --- | --- |
| `CertificatesAreTrue` | no file bound to a certified action is stored, late PUTs excepted |
| `NoRaceBlocks` | a blocked action has a dead letter that an operator resolved |
| `VaultIsSafe` | a file that a vault item refers to is stored |
| `NothingIsForgotten` | after the detach every stored file has an owner, an intent or a record |
| `TypesAreKept` | types |

What the detach leaves is clean (`DetachIsClean`): no row of the project is left and
no bound file is the vault's, and neither can come back, because a vault item is made
from a document that lives. So no attempt on a bound intent finds a reference, and
none is cancelled (`CompletedIsGone`). A final intent never changes, so what a
call has read of one is still true when it decides (`ReadIsCurrent`); its attempts are
read after it and include the last one, which is why the order of the two reads is
safe and the opposite order would not be. `DispositionIsOutcome` and
`ProvenWhenReconciled` carry that to the certificate.

Only model-checked: what holds under fairness (`EveryJobSettles`,
`AbandonedAttemptIsReleased`, `EveryTenantIsServed`, `OrphansAreCollected`,
`TransactionComesToAnEnd`), because liveness and `ENABLED` are beyond the
installed provers; and the counterexample of `retention_replay`, which is one. Every other
invariant, action property and refinement that a run checks is stated by a theorem
above.

## 5. Findings and observations

**Finding** (`retention_replay`). A bound deletion intent may be attempted five times
a cycle and replayed three times (`storageLifecycle/contracts.ts:17-18`), but the
evidence of an action's intents is read under a limit of six attempts each, taken
over all of them together (`retentionCompletion/drizzleRepository.ts:644-655`). A single file
whose deletion fails five times, is replayed, fails once more and succeeds has
seven. Reconcile, certify and every reading of the action then throw, for ever,
although the deletion is proven. The comment at `retentionCompletion/policy.ts:42`
("Dead letters remain recoverable through the governed storage replay path") and
`docs/second-wave/IMPLEMENTATION.md:13` say otherwise.

Observed while modelling, without a run of their own:

* A process that dies between quarantining an upload and its commit leaves the session
  open and the staged object gone. The client's retry finds nothing staged and commits
  `rejected`; the sweep of a rejected session queues no intent for the quarantine
  path (`storageLifecycle/repository.ts:938-953`). The quarantined copy is then named by no
  row and no intent, contrary to `objectStorage.ts:438-439`. If nobody retries, the sweep
  of the open session does queue it. This is the exception `QuarantineIsForgotten` in
  `EveryCopyIsTracked` and `OrphansAreCollected`; `Tracked("quarantine")` as an invariant shows
  the trace.
* "Altering any event, deleting or reordering any INTERIOR event, breaks verification"
  (`auditChain.ts:8`) holds while the hashes are left as they were. They have no key: the last event can be
  altered together with its own hash, and an interior one together with its hash and
  everything after it, and `verifyAuditChain` without a head accepts the result. Only a recorded head
  finds that, which the comment claims for truncation alone. `stored \subseteq ToSet(written)` for rows
  that verify, as an invariant of `AuditTampering.cfg`, shows the trace.
* The purge of terminal deletion intents after ninety days (`storageLifecycle/repository.ts:759`)
  meets the foreign key of the retention bindings (`onDelete: "restrict"`) as soon as a
  bound intent is old enough. It throws in every run and the tenant is skipped
  from there (`reconciler.ts:247`), so none of that tenant's pending deletions is
  attempted any more.
* A signed URL (`uploadSignedUrlMaximumSeconds`) outlives the upload session that the detach removes: a PUT after
  the deletion stores the file again and nothing names it. This is the exception
  in `CertifiedFilesAreGone` and `NoCopyIsForgotten`.
* Resolving one dead letter of a bound intent blocks its action, and nothing leads out
  of `blocked`; `IMPLEMENTATION.md:13` says that an unresolved event does not destroy the replay
  path. A reconcile that blocks and whose answer is lost is answered
  `stale_version` when it is repeated, since a blocked action has no manifest to replay.
* `IMPLEMENTATION.md:12` describes the purge as a step of its own after the detach; the
  code calls it in the transaction of the detach (`drizzleRepository.ts:2593`).
* An outbox retry shortly before the deadline is not capped by it
  (`transactionalOutbox.ts:643`, `885`); the outbox's parser refuses such an event
  (`:329`), so it can neither be retried nor dead-lettered.
  `StrandedEventsWereNotDelivered` says what is not lost with it. An event that is due after its
  deadline stays queued: `prepare` refuses it and no sweep looks at it.
* "Pass an error to force rollback" (`databaseTenancy.ts:30`) does not hold if the
  release comes before the response's finish event: `onFinish` judges by the status
  alone (`:135-141`). A hold taken while an unheld disconnect is being rolled
  back is granted (`:197-199`); such work never commits.
* The head printed for a tenant without events (`verify-audit-chain.ts:212-217`) is
  refused once the tenant has one: `auditChain.ts:170` looks before the first row.
* A last tenant (or a whole page) that always fails keeps the reconciler's cursor
  before it for ever, and no other tenant is served (`reconciler.ts:263-273`), although
  `reconciler.ts:21` calls the scan tenant-fair. Set `Broken = {3}` in
  `StorageReconciler.cfg` to see it. And a failed tenant is retried in the next
  cycle, not the next run, when a later tenant of its page succeeds, unlike
  `reconciler.test.ts:152-153` says.
* Retention's reconcile and certify take the membership lock before the project
  lock (`drizzleRepository.ts:203`, `2187`), because `/retention-actions` names no project
  to the boundary; the order is documented as project first
  (`clientUploadRepository.ts:194`). Detach can wait in a circle with a source writer as well
  (`drizzleRepository.ts:308-316` says so and retries). These are the circles
  `OnlyRetentionClosesACircle` allows; a three-second lock timeout breaks them.
* Export takes project before client where `reports.ts:773-776` calls client before
  project the order of all; no circle comes of it.
* `generate-report` uploads both files before its transaction (`reports.ts:453-470`): a
  conflict or failure leaves two objects no intent names.
* A request whose database session has been ended goes on at the provider. It can then
  delete a promoted object that another finalize has registered meanwhile; this is
  the exception in `ReferencedDocumentIsIntact`.
* Re-extraction keeps the audit chain lock while a model reads the document
  (`documents.ts`, from line 1050), so all other writers time out for that long.

## 6. Plan

Done, in this order: `JobLifecycle`, `DurableWorker`, `TransactionalOutbox`,
`TenantRequest`, `AuditVerification`, `AuditTampering`, `AuditChain`,
`StorageReconciler`, `StorageLifecycle`, `GracefulShutdown`, `SignOff`,
`RetentionCompletion`, and the proofs of section 4.

Left, most important first:

1. `RetentionPurge`: the purge table by table with the blockers it checks again, and
   legal holds, under the step `CommitDetach` of `RetentionCompletion`.
2. The lock order with the snapshot series, digest and audit locks and the
   independent connections (`LockOrder`), over the routes `SignOff` does not have.
3. `WorkerOutbox`: the execution plane and the outbox composed over the event a
   success appends, refining "one delivery per succeeded job".
4. `AiRun`, `ScheduleRunner`, `BoqArithmetic` (pure operators against reference
   definitions over small inputs), document snapshots.

Proofs to add, with those modules: their types and safety invariants; that the steps
`RetentionCompletion` gives the storage worker are steps of `StorageLifecycle`; and the
state half of the liveness properties (what the next step is, and that its guard holds).

## 7. Not modelled, and why

Most of the repository's lines are generated clients and schemas, the React
workbench, migration tooling, and record keeping behind an optimistic version: many
routes of the same form, whose hard parts (transaction, audit, locks, idempotency)
are the ones modelled once here. The modules cover the code that coordinates,
which is a small share of the lines.

Parsing, hashing as computation, logging, metrics, HTTP wording, file formats,
and the external services (Clerk, the model provider, malware scanning) are left
out. PostgreSQL is assumed to do what it documents: atomic statements, row locks,
advisory locks that end with their transaction or savepoint, read committed, unique
keys. The object store is assumed to make one PUT, save or delete atomic.
Constraints of the schema are guards of the statements they constrain. Enqueueing
work whose `availableAt` lies up to a minute in the past is treated as available now. A
handler that goes on after its transaction has ended is outside `TenantRequest`, and so is a
`next()` that throws synchronously (`databaseTenancy.ts:161-167`), which Express's router does not. In
`StorageLifecycle` an upload's replay with the same key after completion, retry
delays, other upload routes and a shared path of two documents are left out. In
`SignOff` the archive is its package version, readiness is one NDA and one
fatal defect, and the organisation and payment checks made before the transaction
are left out. In `RetentionCompletion` a file belongs to one project (another project with a row for
the same path would keep it), the blockers other than vault lineage end a call
(`AbandonCall`), manifests and receipts are the facts they attest, and legal holds
are left out: no code in the repository places or releases one, and the privacy
operations centre only moves their version.
