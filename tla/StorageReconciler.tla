-------------------------- MODULE StorageReconciler --------------------------
(***************************************************************************)
(* scripts/run-storage-deletion-reconciler.ts and                          *)
(* lib/storageLifecycle/reconciler.ts: every scheduled run takes one       *)
(* bounded page of tenants after a durable cursor, under a session         *)
(* advisory lock and a durable lease, and reports a full cycle only when   *)
(* no tenant of it was left incomplete (lib/durableCycleEvidence.ts).      *)
(* What is done for one tenant is abstracted to how it ended.              *)
(***************************************************************************)
EXTENDS Integers, FiniteSets

CONSTANTS Runs,          \* scheduled processes
          Tenants,       \* in the order of their ids: 1 .. n
          Page,          \* ORGANISATION_PAGE
          Broken,        \* tenants whose sweep, purge or listing always throws
          MaxMishaps     \* bound: crashes, lost sessions and lease expiries

Nobody == "nobody"
Start == 0          \* the cursor that is null: before every tenant

ASSUME ReconcilerAssumption ==
  /\ Nobody \notin Runs
  /\ Tenants \subseteq Nat \ {0} /\ IsFiniteSet(Tenants)
  /\ Page \in Nat \ {0} /\ Broken \subseteq Tenants /\ MaxMishaps \in Nat

VARIABLES config,    \* the row of app_config: cursor, incomplete, lease
          lock,      \* the session that has STORAGE_LIFECYCLE_RUN_LOCK
          run,       \* the local state of every process
          clean,     \* tenants wholly processed since the cursor last wrapped
          served,    \* the tenant that was wholly processed last
          report,    \* the last full-cycle signal, and whether it was right
          mishaps

vars == <<config, lock, run, clean, served, report, mishaps>>

Idle == [pc |-> "idle", session |-> FALSE, cursor |-> Start, left |-> {},
         hasMore |-> FALSE, skipped |-> {}, carried |-> FALSE, dirty |-> FALSE]

Init ==
  /\ config = [cursor |-> Start, incomplete |-> FALSE, owner |-> Nobody, expired |-> FALSE]
  /\ lock = Nobody
  /\ run = [p \in Runs |-> Idle]
  /\ clean = {} /\ served = Start /\ mishaps = 0
  /\ report = [full |-> FALSE, all |-> FALSE]

Mishap == mishaps < MaxMishaps /\ mishaps' = mishaps + 1

-----------------------------------------------------------------------------
(* Exclusion *)

TryLock(p) ==
  /\ run[p].pc = "idle" /\ lock = Nobody
  /\ lock' = p
  /\ run' = [run EXCEPT ![p].pc = "locked", ![p].session = TRUE]
  /\ UNCHANGED <<config, clean, served, report, mishaps>>

LeaseIsFree_Released == config.owner = Nobody
LeaseIsFree == config.owner = Nobody \/ config.expired

After(cursor) == {t \in Tenants : t > cursor}
\* ORDER BY id LIMIT, without the row that only tells whether there are more.
PageAfter(cursor) ==
  {t \in After(cursor) : Cardinality({s \in After(cursor) : s < t}) < Page}

Claim(p) ==
  /\ run[p].pc = "locked" /\ run[p].session /\ LeaseIsFree
  /\ config' = [config EXCEPT !.owner = p, !.expired = FALSE]
  /\ run' = [run EXCEPT ![p].pc = "running", ![p].cursor = config.cursor,
                        ![p].left = PageAfter(config.cursor),
                        ![p].hasMore = Cardinality(After(config.cursor)) > Page,
                        ![p].carried = config.incomplete]
  /\ UNCHANGED <<lock, clean, served, report, mishaps>>

\* The process ends without having written anything.
Ends(p) ==
  /\ run' = [run EXCEPT ![p] = Idle]
  /\ lock' = IF lock = p THEN Nobody ELSE lock

Refused(p) ==
  /\ run[p].pc = "locked" /\ (~LeaseIsFree \/ ~run[p].session)
  /\ Ends(p)
  /\ UNCHANGED <<config, clean, served, report, mishaps>>

-----------------------------------------------------------------------------
(* One tenant after the other *)

Working(p) == run[p].pc = "running" /\ run[p].left # {}
IsCurrent(p, t) == Working(p) /\ t \in run[p].left /\ \A s \in run[p].left : t <= s

\* Sweep, purge, list and reconcile: all of it ("ok"), or with intents that
\* failed, pages left over or the budget used up ("partial").
Processed(p, t, outcome) ==
  /\ IsCurrent(p, t) /\ t \notin Broken
  /\ run' = [run EXCEPT ![p].left = @ \ {t}, ![p].cursor = t,
                        ![p].dirty = @ \/ outcome = "partial"]
  /\ clean' = IF outcome = "ok" THEN clean \cup {t} ELSE clean
  /\ served' = t
  /\ UNCHANGED <<config, lock, report, mishaps>>

\* The sweep, the purge or the listing throws: `continue`.
FailureIsDirty_Not == FALSE
FailureIsDirty == TRUE

Failed(p, t) ==
  /\ IsCurrent(p, t)
  /\ run' = [run EXCEPT ![p].left = @ \ {t}, ![p].skipped = @ \cup {t},
                        ![p].dirty = @ \/ FailureIsDirty]
  /\ UNCHANGED <<config, lock, clean, served, report, mishaps>>

\* RUN_BUDGET_MS is over before the next tenant; before the first one only if
\* it took that long to list them.
BudgetExhausted(p) ==
  /\ Working(p)
  /\ IF run[p].left = PageAfter(config.cursor) THEN Mishap ELSE UNCHANGED mishaps
  /\ run' = [run EXCEPT ![p].pc = "stopped", ![p].dirty = TRUE]
  /\ UNCHANGED <<config, lock, clean, served, report>>

-----------------------------------------------------------------------------
(* The end of a run *)

\* stoppedEarly: fewer tenants processed than the page has.
CycleComplete(p) == ~run[p].hasMore /\ run[p].left = {} /\ run[p].skipped = {}

\* advanceDurableCycleEvidence
Incomplete_NotCarried(p) == run[p].dirty
Incomplete(p) == run[p].carried \/ run[p].dirty

\* Cursor, bit and lease are written in one statement, which finds nothing if
\* the lease is another run's by now; the signal is logged afterwards.
Finish(p) ==
  /\ \/ run[p].pc = "stopped"
     \/ (run[p].pc = "running" /\ run[p].left = {})
  /\ Ends(p)
  /\ IF run[p].session /\ config.owner = p
       THEN /\ config' = [cursor |-> IF CycleComplete(p) THEN Start ELSE run[p].cursor,
                          incomplete |-> ~CycleComplete(p) /\ Incomplete(p),
                          owner |-> Nobody, expired |-> FALSE]
            /\ clean' = IF CycleComplete(p) THEN {} ELSE clean
            /\ report' = [full |-> CycleComplete(p) /\ ~Incomplete(p),
                          all |-> clean = Tenants]
       ELSE UNCHANGED <<config, clean, report>>
  /\ UNCHANGED <<served, mishaps>>

-----------------------------------------------------------------------------
(* What can go wrong around it *)

Crash(p) ==
  /\ Mishap /\ run[p].pc # "idle" /\ Ends(p)
  /\ UNCHANGED <<config, clean, served, report>>

\* The process goes on with other connections of its pool, but the lock went
\* with the session and the statements of this client fail from now on.
SessionLost(p) ==
  /\ Mishap /\ run[p].session
  /\ run' = [run EXCEPT ![p].session = FALSE]
  /\ lock' = Nobody
  /\ UNCHANGED <<config, clean, served, report>>

\* STORAGE_LIFECYCLE_LEASE_MINUTES are over: the lease of a run that ended
\* without giving it back, or of one that takes longer than that.
Outlived == config.owner # Nobody /\ run[config.owner].pc \in {"running", "stopped"}

LeaseExpires ==
  /\ config.owner # Nobody /\ ~config.expired
  /\ IF Outlived THEN Mishap ELSE UNCHANGED mishaps
  /\ config' = [config EXCEPT !.expired = TRUE]
  /\ UNCHANGED <<lock, run, clean, served, report>>

Next ==
  \/ \E p \in Runs :
       \/ TryLock(p) \/ Claim(p) \/ Refused(p) \/ BudgetExhausted(p) \/ Finish(p)
       \/ \E t \in Tenants, outcome \in {"ok", "partial"} : Processed(p, t, outcome)
       \/ \E t \in Tenants : Failed(p, t)
       \/ Crash(p) \/ SessionLost(p)
  \/ LeaseExpires

Spec == Init /\ [][Next]_vars

\* The schedule starts a run every fifteen minutes and lets it end, and a tenant
\* that is not broken is processed to the end again and again if it is tried
\* again and again; it may fail, or meet the end of the budget, in between.
FairSpec ==
  /\ Spec /\ WF_vars(LeaseExpires)
  /\ \A p \in Runs :
       /\ WF_vars(TryLock(p)) /\ WF_vars(Claim(p)) /\ WF_vars(Refused(p)) /\ WF_vars(Finish(p))
       /\ WF_vars(\E t \in Tenants : Processed(p, t, "ok") \/ Failed(p, t))
       /\ \A t \in Tenants \ Broken : SF_vars(Processed(p, t, "ok"))

-----------------------------------------------------------------------------
Config == [cursor : Tenants \cup {Start}, incomplete : BOOLEAN,
           owner : Runs \cup {Nobody}, expired : BOOLEAN]
Run == [pc : {"idle", "locked", "running", "stopped"}, session : BOOLEAN,
        cursor : Tenants \cup {Start}, left : SUBSET Tenants, hasMore : BOOLEAN,
        skipped : SUBSET Tenants, carried : BOOLEAN, dirty : BOOLEAN]

TypeOK ==
  /\ config \in Config
  /\ lock \in Runs \cup {Nobody}
  /\ run \in [Runs -> Run]
  /\ clean \subseteq Tenants /\ served \in Tenants \cup {Start}

\* "only a wholly new, clean cycle can produce the next full-cycle signal":
\* when it is given, every tenant has been wholly processed since the cursor
\* last wrapped, although runs crashed, failed, overlapped and lost their lease.
FullCycleCoversEveryTenant == report.full => report.all

\* The cursor never leaves a tenant behind unnoticed.
NobodyIsPassedUnnoticed ==
  \A t \in Tenants : t <= config.cursor /\ t \notin clean => config.incomplete

\* A tenant whose processing can succeed is processed again and again, whatever
\* happens to the others now and then.
EveryTenantIsServed == \A t \in Tenants \ Broken : []<>(served = t)
=============================================================================
