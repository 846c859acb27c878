---------------------------- MODULE JobLifecycle ----------------------------
(***************************************************************************)
(* What a durable job promises, whoever drives it: the pure transition     *)
(* policy of lib/jobPolicy.ts (evaluateJobTransition), plus the sweep that *)
(* takes a job back from a worker that stopped answering.  There is no     *)
(* clock, no run row, no request in flight here; a worker either holds the *)
(* lease of a job or does not.                                             *)
(***************************************************************************)
EXTENDS Integers

CONSTANTS Jobs,         \* the rows of processing_jobs
          Workers,      \* worker identities
          NoWorker,     \* "nobody holds the lease"
          MaxAttempts   \* policy.maxAttempts

VARIABLES status, version, attempts, owner

vars == <<status, version, attempts, owner>>

Waiting == {"queued", "retry_wait"}
Settled == {"succeeded", "failed", "dead_letter", "cancelled"}
\* A cancel is refused in these; a permanently failed job may still be
\* cancelled.
Uncancellable == {"succeeded", "dead_letter", "cancelled"}
JobStatus == {"absent", "running"} \cup Waiting \cup Settled

Init ==
  /\ status = [j \in Jobs |-> "absent"]
  /\ version = [j \in Jobs |-> 0]
  /\ attempts = [j \in Jobs |-> 0]
  /\ owner = [j \in Jobs |-> NoWorker]

\* Every allowed transition moves the version by exactly one.
Becomes(j, next, holder) ==
  /\ status' = [status EXCEPT ![j] = next]
  /\ owner' = [owner EXCEPT ![j] = holder]
  /\ version' = [version EXCEPT ![j] = @ + 1]

Admit(j) ==
  /\ status[j] = "absent"
  /\ Becomes(j, "queued", NoWorker)
  /\ UNCHANGED attempts

Claim(j, w) ==
  /\ status[j] \in Waiting
  /\ attempts[j] < MaxAttempts
  /\ Becomes(j, "running", w)
  /\ attempts' = [attempts EXCEPT ![j] = @ + 1]

OwnsLease(j, w) == status[j] = "running" /\ owner[j] = w

Heartbeat(j, w) ==
  /\ OwnsLease(j, w)
  /\ Becomes(j, "running", w)
  /\ UNCHANGED attempts

Succeed(j, w) ==
  /\ OwnsLease(j, w)
  /\ Becomes(j, "succeeded", NoWorker)
  /\ UNCHANGED attempts

FailPermanent(j, w) ==
  /\ OwnsLease(j, w)
  /\ Becomes(j, "failed", NoWorker)
  /\ UNCHANGED attempts

\* A retryable failure dead-letters a job for one reason only: its attempts
\* are used up.
FailRetryable(j, w) ==
  /\ OwnsLease(j, w)
  /\ Becomes(j, IF attempts[j] >= MaxAttempts THEN "dead_letter" ELSE "retry_wait",
             NoWorker)
  /\ UNCHANGED attempts

Cancel(j) ==
  /\ status[j] \notin Uncancellable \cup {"absent"}
  /\ Becomes(j, "cancelled", NoWorker)
  /\ UNCHANGED attempts

\* The sweep: the lease ran out (retry while attempts are left) or the
\* deadline passed (dead letter, from any live state).
Recover(j) ==
  /\ status[j] \in Waiting \cup {"running"}
  /\ \/ Becomes(j, "dead_letter", NoWorker)
     \/ /\ status[j] = "running"
        /\ attempts[j] < MaxAttempts
        /\ Becomes(j, "retry_wait", NoWorker)
  /\ UNCHANGED attempts

Next ==
  \E j \in Jobs :
    \/ Admit(j) \/ Cancel(j) \/ Recover(j)
    \/ \E w \in Workers :
         \/ Claim(j, w) \/ Heartbeat(j, w) \/ Succeed(j, w)
         \/ FailPermanent(j, w) \/ FailRetryable(j, w)

Spec == Init /\ [][Next]_vars
=============================================================================
