------------------------ MODULE RetentionCompletion ------------------------
(***************************************************************************)
(* Completing one retention request: an administrator detaches the project *)
(* (its rows go, a deletion intent is bound to the action for each of its  *)
(* stored files), the storage worker deletes the files, an administrator   *)
(* reconciles the action with what became of the intents, and another one  *)
(* certifies it.                                                           *)
(*                                                                         *)
(* Calls on one project exclude each other: each is one transaction that   *)
(* takes the project's advisory lock and then the rows of the action and   *)
(* the request.  The storage worker, the operators of the dead letters and *)
(* the certificate vault take neither, so they move between two statements *)
(* of a call.  The action's version (detached 3, reconciled or blocked 4,  *)
(* certified 5) and the request's status are functions of the action's     *)
(* status and are not kept; a stale or repeated command changes nothing.   *)
(* Sources, under src/: artifacts/api-server/src/lib/retentionCompletion   *)
(* (drizzleRepository.ts, policy.ts), artifacts/api-server/src/lib/        *)
(* storageLifecycle/repository.ts, lib/db/migrations/0011_*.sql.           *)
(***************************************************************************)
EXTENDS Naturals, FiniteSets, FiniteSetsExt

CONSTANTS
    Users,             \* administrators with the authority to complete retention
    Nobody,
    Paths,             \* stored files that are or were the project's
    Leased,            \* those whose path is derived from an upload session
    MaximumAttempts,   \* provider deletions in one cycle (5 in the code)
    MaxReplays,        \* replays of one dead letter (3 in the code)
    EvidencePerEvent   \* attempts read for each bound intent (6 in the code)

ASSUME RetentionAssumption ==
    /\ Nobody \notin Users
    /\ IsFiniteSet(Paths)
    /\ Leased \subseteq Paths
    /\ MaximumAttempts \in Nat \ {0}
    /\ {MaxReplays, EvidencePerEvent} \subseteq Nat

VARIABLES
    action,       \* status of the retention action; "none" until it is inserted
    preparer,     \* who reconciled the action
    checker,      \* who certified it
    rows,         \* files a row of the live project refers to
    linked,       \* files an item of the certificate vault refers to
    others,       \* files with an unsettled intent that is not the action's
    objects,      \* files the provider stores
    rewritten,    \* files a late PUT stored again after the detach
    event,        \* the intent bound to the action for each file
    aged,         \* files whose bound intent has been terminal for 90 days
    disposition,  \* the terminal disposition recorded in each binding
    call          \* the call in progress: what it has read so far

storage == <<rows, linked, others, objects, rewritten, event, aged>>
stamps == <<action, preparer, checker, disposition>>
vars == <<storage, stamps, call>>

Waiting == {"queued", "retry_wait"}
Final == {"completed", "cancelled", "resolved"}
EventStatus == {"unbound", "dead_letter"} \union Waiting \union Final
Gone == {"deleted", "already_absent"}
\* The latest attempt, by its response code when it completed and its status else.
Latest == {"none", "retry_wait", "dead_letter", "cancelled_referenced"} \union Gone
Event == [status : EventStatus, latest : Latest, cycle : 0 .. MaximumAttempts,
          replays : 0 .. MaxReplays, attempts : Nat]
Disposition == {"none", "cancelled_referenced", "accepted_unresolved"} \union Gone

Unbound == [status |-> "unbound", latest |-> "none", cycle |-> 0, replays |-> 0, attempts |-> 0]
Enqueued == [Unbound EXCEPT !.status = "queued"]
Bound == {p \in Paths : event[p].status # "unbound"}

Call == [at : {"idle", "detaching", "reading", "deciding"}, by : Users \union {Nobody},
         files : SUBSET Paths, status : [Paths -> EventStatus], latest : [Paths -> Latest]]
NoCall == [at |-> "idle", by |-> Nobody, files |-> {},
           status |-> [p \in Paths |-> "unbound"], latest |-> [p \in Paths |-> "none"]]

\* A vault item keeps the file whose document it was made from; every stored file
\* of the project is named by a row, derived from an upload session, or queued.
Init ==
    /\ action = "none" /\ preparer = Nobody /\ checker = Nobody
    /\ objects \in SUBSET Paths
    /\ rows \in SUBSET Paths
    /\ linked \in SUBSET objects
    /\ others = objects \ (rows \union Leased \union linked)
    /\ rewritten = {}
    /\ event = [p \in Paths |-> Unbound]
    /\ aged = {}
    /\ disposition = [p \in Paths |-> "none"]
    /\ call = NoCall

----------------------------------------------------------------------------
(* The rest of the tenant: the project's rows while it lives, the vault    *)

Referenced_RowsOnly(p) == p \in rows
Referenced(p) == p \in rows \/ p \in linked

\* A document is deleted (under the project's lock) or an upload lease is swept.
DropRow(p) ==
    /\ p \in rows
    /\ p \in Leased \/ call.at = "idle"
    /\ rows' = rows \ {p}
    /\ others' = IF p \in linked THEN others ELSE others \union {p}
    /\ UNCHANGED <<linked, objects, rewritten, event, aged, stamps, call>>

\* The document is read again under the path's lock, so the project still lives.
LinkVaultItem(p) ==
    /\ p \in rows \intersect objects /\ p \notin linked
    /\ linked' = linked \union {p}
    /\ UNCHANGED <<rows, others, objects, rewritten, event, aged, stamps, call>>

UnlinkVaultItem(p) ==
    /\ p \in linked
    /\ linked' = linked \ {p}
    /\ others' = others \union {p}
    /\ UNCHANGED <<rows, objects, rewritten, event, aged, stamps, call>>

\* A signed URL outlives the session row that the detach removes.
LatePut(p) ==
    /\ action # "none" /\ p \in Leased \ rewritten
    /\ objects' = objects \union {p}
    /\ rewritten' = rewritten \union {p}
    /\ UNCHANGED <<rows, linked, others, event, aged, stamps, call>>

----------------------------------------------------------------------------
(* The storage worker and the operators.  A tenant's turn begins with the  *)
(* purge of terminal intents; the foreign key of a binding makes it throw   *)
(* once a bound one has aged, and the tenant is skipped.                    *)

TenantHasItsTurn == aged = {}

SettleOther(p) ==
    /\ p \in others /\ TenantHasItsTurn
    /\ others' = others \ {p}
    /\ objects' = IF Referenced(p) THEN objects ELSE objects \ {p}
    /\ UNCHANGED <<rows, linked, rewritten, event, aged, stamps, call>>

Attempted(p, status, latest) ==
    event' = [event EXCEPT ![p] =
        [status |-> status, latest |-> latest, cycle |-> event[p].cycle + 1,
         replays |-> event[p].replays, attempts |-> event[p].attempts + 1]]

IsDue(p) ==
    event[p].status \in Waiting /\ event[p].cycle < MaximumAttempts /\ TenantHasItsTurn

\* The deletion the provider confirms, unless a row refers to the path.
AttemptDeletion(p) ==
    /\ IsDue(p)
    /\ IF Referenced(p)
       THEN Attempted(p, "cancelled", "cancelled_referenced") /\ UNCHANGED objects
       ELSE /\ Attempted(p, "completed", IF p \in objects THEN "deleted" ELSE "already_absent")
            /\ objects' = objects \ {p}
    /\ UNCHANGED <<rows, linked, others, rewritten, aged, stamps, call>>

\* The provider's answer is lost: the file may be gone all the same.
AttemptUnconfirmed_TakenForAbsence(p) ==
    /\ IsDue(p) /\ ~Referenced(p)
    /\ Attempted(p, "completed", "already_absent")
    /\ objects' \in {objects, objects \ {p}}
    /\ UNCHANGED <<rows, linked, others, rewritten, aged, stamps, call>>
AttemptUnconfirmed(p) ==
    LET outcome == IF event[p].cycle + 1 >= MaximumAttempts THEN "dead_letter" ELSE "retry_wait"
    IN  /\ IsDue(p) /\ ~Referenced(p)
        /\ Attempted(p, outcome, outcome)
        /\ objects' \in {objects, objects \ {p}}
        /\ UNCHANGED <<rows, linked, others, rewritten, aged, stamps, call>>

\* The provider deletes the file and the transaction that would record it rolls back.
CrashAfterDeletion(p) ==
    /\ IsDue(p) /\ ~Referenced(p) /\ p \in objects
    /\ objects' = objects \ {p}
    /\ UNCHANGED <<rows, linked, others, rewritten, event, aged, stamps, call>>

ReplayDeadLetter(p) ==
    /\ event[p].status = "dead_letter" /\ event[p].replays < MaxReplays
    /\ event' = [event EXCEPT ![p].status = "queued", ![p].cycle = 0, ![p].replays = @ + 1]
    /\ UNCHANGED <<rows, linked, others, objects, rewritten, aged, stamps, call>>

ResolveDeadLetter(p) ==
    /\ event[p].status = "dead_letter"
    /\ event' = [event EXCEPT ![p].status = "resolved"]
    /\ UNCHANGED <<rows, linked, others, objects, rewritten, aged, stamps, call>>

Age(p) ==
    /\ event[p].status \in {"completed", "cancelled"} /\ p \notin aged
    /\ aged' = aged \union {p}
    /\ UNCHANGED <<rows, linked, others, objects, rewritten, event, stamps, call>>

----------------------------------------------------------------------------
(* Detach                                                                  *)

\* Files the manifest claims; one that a vault item refers to is retained.
Files_NamedByRows == rows \ linked
Files == (rows \union Leased) \ linked

\* Holds, open orders and the like are blockers too: the call may end here.
TakeInventory(u) ==
    /\ call.at = "idle" /\ action = "none"
    /\ rows \intersect linked = {}   \* a vault item with a source document blocks
    /\ call' = [NoCall EXCEPT !.at = "detaching", !.by = u, !.files = Files]
    /\ UNCHANGED <<storage, stamps>>

\* The purge compares the manifest with the files under its table locks.
InventoryUnchanged_NotCompared == TRUE
InventoryUnchanged == call.files = Files

CommitDetach ==
    /\ call.at = "detaching" /\ InventoryUnchanged
    /\ action' = "detached"
    /\ event' = [p \in Paths |-> IF p \in call.files THEN Enqueued ELSE Unbound]
    /\ rows' = {}
    /\ call' = NoCall
    /\ UNCHANGED <<linked, others, objects, rewritten, aged, preparer, checker, disposition>>

\* A refusal, an error, a deadlock or a crash rolls the call back.
AbandonCall ==
    /\ call.at # "idle"
    /\ call' = NoCall
    /\ UNCHANGED <<storage, stamps>>

----------------------------------------------------------------------------
(* Reconcile                                                               *)

\* The attempts of all bound intents are read in one bounded statement.
EvidenceIsReadable ==
    MapThenSumSet(LAMBDA p : event[p].attempts, Bound) <= EvidencePerEvent * Cardinality(Bound)

\* Intents first and their attempts after: two statements, each with its snapshot.
ReadEvents(u) ==
    /\ call.at = "idle" /\ action = "detached"
    /\ call' = [NoCall EXCEPT !.at = "reading", !.by = u,
                              !.status = [p \in Paths |-> event[p].status]]
    /\ UNCHANGED <<storage, stamps>>

ReadAttempts ==
    /\ call.at = "reading" /\ EvidenceIsReadable
    /\ call' = [call EXCEPT !.at = "deciding", !.latest = [p \in Paths |-> event[p].latest]]
    /\ UNCHANGED <<storage, stamps>>

\* What a status and a latest attempt prove of the deletion.
Decision(status, latest) ==
    IF status \in Waiting THEN "pending"
    ELSE IF status = "dead_letter" THEN "dead_letter"
    ELSE IF status = "completed" /\ latest \in Gone THEN latest
    ELSE "untrusted"

\* The disposition to record: also of an untrusted outcome that is final.
Recorded(status, latest) ==
    IF Decision(status, latest) \in Gone THEN latest
    ELSE IF status = "cancelled" /\ latest = "cancelled_referenced" THEN "cancelled_referenced"
    ELSE IF status = "resolved" THEN "accepted_unresolved"
    ELSE "none"

\* The binding's trigger reads the intent and its latest attempt again.
Records(p) == p \in Bound /\ disposition[p] = "none"
RecordingIsAccepted ==
    \A p \in Paths :
        LET d == Recorded(call.status[p], call.latest[p])
        IN  Records(p) /\ d # "none" => d = Recorded(event[p].status, event[p].latest)

Untrusted(p) ==
    IF disposition[p] # "none" THEN disposition[p] \notin Gone
    ELSE Decision(call.status[p], call.latest[p]) = "untrusted"
Proven(p) ==
    IF disposition[p] # "none" THEN disposition[p] \in Gone
    ELSE Decision(call.status[p], call.latest[p]) \in Gone

Progress ==
    IF \E p \in Bound : Untrusted(p) THEN "blocked"
    ELSE IF \A p \in Bound : Proven(p) THEN "reconciled"
    ELSE "detached"

\* The answer reads the evidence once more before the commit.
CommitReconciliation ==
    /\ call.at = "deciding" /\ RecordingIsAccepted /\ EvidenceIsReadable
    /\ disposition' = [p \in Paths |-> IF Records(p) THEN Recorded(call.status[p], call.latest[p])
                                       ELSE disposition[p]]
    /\ action' = Progress
    /\ preparer' = IF Progress = "reconciled" THEN call.by ELSE preparer
    /\ call' = NoCall
    /\ UNCHANGED <<storage, checker>>

(* Certify *)

Certify(u) ==
    /\ call.at = "idle" /\ action = "reconciled" /\ u # preparer
    /\ EvidenceIsReadable
    /\ \A p \in Bound : disposition[p] \in Gone
    /\ action' = "certified"
    /\ checker' = u
    /\ UNCHANGED <<storage, preparer, disposition, call>>

Next ==
    \/ \E p \in Paths :
          \/ DropRow(p) \/ LinkVaultItem(p) \/ UnlinkVaultItem(p) \/ LatePut(p)
          \/ SettleOther(p) \/ AttemptDeletion(p) \/ AttemptUnconfirmed(p)
          \/ CrashAfterDeletion(p) \/ ReplayDeadLetter(p) \/ ResolveDeadLetter(p) \/ Age(p)
    \/ \E u \in Users : TakeInventory(u) \/ ReadEvents(u) \/ Certify(u)
    \/ CommitDetach \/ ReadAttempts \/ CommitReconciliation \/ AbandonCall

Spec == Init /\ [][Next]_vars

----------------------------------------------------------------------------
TypeOK ==
    /\ action \in {"none", "detached", "reconciled", "blocked", "certified"}
    /\ {preparer, checker} \subseteq Users \union {Nobody}
    /\ {rows, linked, others, objects, rewritten, aged} \subseteq SUBSET Paths
    /\ event \in [Paths -> Event]
    /\ disposition \in [Paths -> Disposition]
    /\ call \in Call

(* A certificate tells the truth: the provider stores none of the files    *)
(* bound to a certified action, whatever failed, crashed or was replayed   *)
(* before.  Only a file that a late PUT stored again is excepted           *)
(* (drizzleRepository.ts reconcile, certify; policy.ts).                   *)
CertifiedFilesAreGone ==
    action = "certified" => Bound \intersect objects \subseteq rewritten

(* "blocked" has no way out, so it must not come from a race: an action is *)
(* blocked only when an operator has resolved one of its dead letters,     *)
(* never because the worker, the vault or a replay moved between two       *)
(* statements of a call (drizzleRepository.ts loadBindingEvidence,         *)
(* reconcile; 0011 purge_retention_project).                               *)
BlockedOnlyByAnOperator ==
    action = "blocked" => \E p \in Bound : event[p].status = "resolved"

(* The files of the vault outlive the project: whatever was linked or      *)
(* unlinked while a detach was in progress, a file that a vault item       *)
(* refers to is stored (drizzleRepository.ts inspectInventory, 0011        *)
(* purge_retention_project, repository.ts reconcile).                      *)
VaultFileSurvives == linked \subseteq objects

(* No copy is forgotten: once the project's rows are gone, every stored    *)
(* file is referred to by the vault, still queued, or given up on record,  *)
(* late PUTs excepted (drizzleRepository.ts detach).                       *)
GivenUp == {"dead_letter", "resolved"}
NoCopyIsForgotten ==
    action # "none" =>
        \A p \in objects \ rewritten :
            p \in linked \union others \/ event[p].status \in Waiting \union GivenUp

(* The replay path of a dead letter is not destroyed (IMPLEMENTATION.md:   *)
(* 13, policy.ts:54): when every bound intent of a detached action has     *)
(* come to a trusted deletion, its evidence can be read and reconciled.    *)
TrustedEvidenceIsReadable ==
    action = "detached" /\ (\A p \in Bound : event[p].status = "completed")
        => EvidenceIsReadable
=============================================================================
