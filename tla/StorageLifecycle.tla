-------------------------- MODULE StorageLifecycle --------------------------
(***************************************************************************)
(* One client upload lease and every stored copy it can leave behind: the  *)
(* staged object the signed URL writes, the promoted document and the      *)
(* quarantined copy (all three paths are derived from the lease's id), the *)
(* rows that refer to them, and the queue of deletion intents.             *)
(*                                                                         *)
(* The object store is no part of any database transaction: a provider     *)
(* call takes effect at once, and a rollback or a crash undoes the rows    *)
(* and keeps the objects.  Sources, under src/artifacts/api-server/src:    *)
(* lib/storageLifecycle/{clientUploadRepository,repository}.ts,            *)
(* lib/objectStorage.ts, lib/storageReferences.ts, routes/vault.ts and     *)
(* routes/documents.ts.                                                    *)
(***************************************************************************)
EXTENDS Naturals, Sequences

CONSTANTS
    Requests,          \* finalize requests of the client
    NoRequest,         \* nobody holds the project lock
    Uploadable,        \* what the client may upload
    MaximumAttempts,   \* provider deletions in one cycle (5 in the code)
    MaxReplays,        \* replays of one dead letter (3 in the code)
    MaxUploads,        \* bound: signed PUTs the client starts
    MaxFaults,         \* bound: crashes, failed commits and lost database sessions
    MaxLinks           \* bound: vault items made from the document

Paths == {"staged", "document", "quarantine"}
\* As declared and harmless; not as declared; as declared, but not cleared by intake.
Contents == {"clean", "mismatched", "suspect"}
Absent == "absent"

ASSUME BoundsAssumption ==
    /\ Uploadable \subseteq Contents
    /\ NoRequest \notin Requests
    /\ MaximumAttempts \in Nat \ {0}
    /\ {MaxReplays, MaxUploads, MaxFaults, MaxLinks} \subseteq Nat

VARIABLES
    session,     \* committed status of the upload session
    phase,       \* time against the lease: see Phases
    objects,     \* what the provider stores at each path
    inflight,    \* the PUT that has started and not landed
    registered,  \* the document row (and its first version) is committed
    linked,      \* a vault item refers to the document's path
    intents,     \* deletion intents of each path, in the order they were queued
    fin,         \* each finalize request's progress
    holder,      \* the request whose database session is alive
    cleanup,     \* the reconciliation that holds each path's lock
    outlived,    \* a request has outlived its database session
    spent        \* how much of each bound is used

vars == <<session, phase, objects, inflight, registered, linked, intents,
          fin, holder, cleanup, outlived, spent>>

UrlOpen == 0      \* until 60 seconds before the lease expires
UrlClosed == 1    \* until the lease expires
InGrace == 2      \* until 300 seconds after that
Sweepable == 3
Phases == UrlOpen .. Sweepable

\* Statuses a sweep moves on; while in one, the session refers to its staged path.
SweptTo == [open |-> "expired",
            completed |-> "completed_cleanup_queued",
            rejected |-> "rejected_cleanup_queued",
            quarantined |-> "quarantined_cleanup_queued",
            cleanup_unconfirmed |-> "cleanup_unconfirmed_post_expiry_queued"]
Sources == DOMAIN SweptTo
SessionStatus == {"none"} \union Sources \union {SweptTo[s] : s \in Sources}

Waiting_QueuedOnly == {"queued"}
Waiting == {"queued", "retry_wait"}
IntentStatus == Waiting \union
    {"completed", "cancelled", "dead_letter", "resolved", "purged"}
Intent == [status : IntentStatus, attempts : 0 .. MaximumAttempts,
           replays : 0 .. MaxReplays]

Steps == {"idle", "waiting", "admitted", "discard", "quarantine", "moving",
          "promote", "source", "register", "undo", "decided"}
Finalize == [at : Steps, inTime : BOOLEAN, intake : Contents \union {Absent},
             verdict : Sources \union {"none"}]
Progress(at, inTime, intake, verdict) ==
    [at |-> at, inTime |-> inTime, intake |-> intake, verdict |-> verdict]
NotFinalizing == Progress("idle", FALSE, Absent, "none")

Cleanup == [at : {"idle", "deleting", "deleted", "unconfirmed"}, intent : Nat]
NoCleanup == [at |-> "idle", intent |-> 0]

Resources == {"uploads", "faults", "links", "replays"}
Limit == [uploads |-> MaxUploads, faults |-> MaxFaults, links |-> MaxLinks,
          replays |-> MaxReplays]

Init ==
    /\ session = "none"
    /\ phase = UrlOpen
    /\ objects = [p \in Paths |-> Absent]
    /\ inflight = Absent
    /\ registered = FALSE
    /\ linked = FALSE
    /\ intents = [p \in Paths |-> <<>>]
    /\ fin = [f \in Requests |-> NotFinalizing]
    /\ holder = NoRequest
    /\ cleanup = [p \in Paths |-> NoCleanup]
    /\ outlived = FALSE
    /\ spent = [r \in Resources |-> 0]

Spend(r) == spent[r] < Limit[r] /\ spent' = [spent EXCEPT ![r] = @ + 1]

\* Rows that refer to a path; nothing ever refers to the quarantined copy.
Referenced(p) ==
    \/ p = "staged" /\ session \in Sources
    \/ p = "document" /\ (registered \/ linked)

\* The advisory lock of a path, kept until its transaction ends.
LockedByRequest(p) ==
    p = "staged" /\ holder # NoRequest /\ fin[holder].at # "waiting"
LockIsFree(p) == cleanup[p].at = "idle" /\ ~LockedByRequest(p)

Row(status, attempts, replays) ==
    [status |-> status, attempts |-> attempts, replays |-> replays]
Queued == Row("queued", 0, 0)
Enqueue(P) ==
    intents' = [p \in Paths |-> IF p \in P THEN Append(intents[p], Queued) ELSE intents[p]]

----------------------------------------------------------------------------
(* The lease, the clock and the client's writes *)

\* The URL is answered after the session is committed; it dies before the lease.
Issue ==
    /\ session = "none"
    /\ session' = "open"
    /\ UNCHANGED <<phase, objects, inflight, registered, linked, intents, fin,
                   holder, cleanup, outlived, spent>>

\* The URL serves any number of PUTs, whatever became of the session since.
StartPut(c) ==
    /\ session # "none" /\ phase = UrlOpen /\ inflight = Absent
    /\ Spend("uploads")
    /\ inflight' = c
    /\ UNCHANGED <<session, phase, objects, registered, linked, intents, fin,
                   holder, cleanup, outlived>>

EndPut ==
    /\ inflight # Absent
    /\ inflight' = Absent
    /\ objects' \in {objects, [objects EXCEPT !["staged"] = inflight]}
    /\ UNCHANGED <<session, phase, registered, linked, intents, fin, holder,
                   cleanup, outlived, spent>>

\* A PUT begun while the URL was open ends within the grace after the lease.
Tick ==
    /\ session # "none" /\ phase < Sweepable
    /\ phase = InGrace => inflight = Absent
    /\ phase' = phase + 1
    /\ UNCHANGED <<session, objects, inflight, registered, linked, intents, fin,
                   holder, cleanup, outlived, spent>>

----------------------------------------------------------------------------
(* Finalizing an upload.  Every step is one provider call or one statement  *)
(* of the request's transaction.                                            *)

At(f, step) == fin[f].at = step
Goto(f, step) == fin' = [fin EXCEPT ![f] = Progress(step, FALSE, fin[f].intake, "none")]
\* The status the request will commit; "none" leaves the session as it is.
Decide(f, verdict) ==
    fin' = [fin EXCEPT ![f] = Progress("decided", FALSE, Absent, verdict)]

Store(p, content) == objects' = [objects EXCEPT ![p] = content]
\* Deletion the provider confirms, and one whose effect stays unknown.
Delete(p) == Store(p, Absent)
DeleteUnconfirmed(p) == objects' \in {objects, [objects EXCEPT ![p] = Absent]}

Rows == <<session, registered, linked, intents, holder, cleanup>>
Provider(f) == UNCHANGED <<phase, inflight, outlived, spent, Rows>>

\* The clock is read under the project lock, before the wait for the path's lock.
Begin(f) ==
    /\ At(f, "idle") /\ holder = NoRequest /\ session # "none"
    /\ holder' = f
    /\ fin' = [fin EXCEPT ![f] = Progress("waiting", phase < InGrace, Absent, "none")]
    /\ UNCHANGED <<session, phase, objects, inflight, registered, linked, intents,
                   cleanup, outlived, spent>>

Admissible(f) == session = "open" /\ fin[f].inTime

Admit(f) ==
    /\ At(f, "waiting") /\ holder = f /\ cleanup["staged"].at = "idle"
    /\ IF Admissible(f) THEN Goto(f, "admitted") ELSE Decide(f, "none")
    /\ UNCHANGED objects /\ Provider(f)

NextFor(content) == [clean |-> "promote", mismatched |-> "discard",
                     suspect |-> "quarantine"][content]

Download(f) ==
    /\ At(f, "admitted")
    /\ \/ objects["staged"] = Absent /\ Decide(f, "rejected")
       \/ /\ objects["staged"] # Absent
          /\ fin' = [fin EXCEPT ![f] = Progress(NextFor(objects["staged"]), FALSE,
                                                objects["staged"], "none")]
    /\ UNCHANGED objects /\ Provider(f)

Discard(f) ==
    /\ At(f, "discard")
    /\ \/ Delete("staged") /\ Decide(f, "rejected")
       \/ DeleteUnconfirmed("staged") /\ Decide(f, "cleanup_unconfirmed")
    /\ Provider(f)

\* Both copies are create-only.  A save that is refused or not acknowledged is
\* answered by deleting the destination and probing that it is gone.
CreateOnly_FromStaging(f, p) == objects[p] = Absent /\ Store(p, objects["staged"])
CreateOnly(f, p) == objects[p] = Absent /\ Store(p, fin[f].intake)
SaveFailed(p) == Delete(p)
SaveUnknown(f, p) ==
    objects' \in {objects, [objects EXCEPT ![p] = Absent]} \union
        (IF objects[p] = Absent THEN {[objects EXCEPT ![p] = fin[f].intake]} ELSE {})

Quarantine(f) ==
    /\ At(f, "quarantine")
    /\ \/ CreateOnly(f, "quarantine") /\ Goto(f, "moving")
       \/ /\ SaveFailed("quarantine") \/ SaveUnknown(f, "quarantine")
          /\ Decide(f, "cleanup_unconfirmed")
    /\ Provider(f)

Move(f) ==
    /\ At(f, "moving")
    /\ \/ Delete("staged") /\ Decide(f, "quarantined")
       \/ DeleteUnconfirmed("staged") /\ Decide(f, "cleanup_unconfirmed")
    /\ Provider(f)

Promote(f) ==
    /\ At(f, "promote")
    /\ \/ objects["staged"] = Absent /\ UNCHANGED objects /\ Decide(f, "none")
       \/ /\ objects["staged"] # Absent
          /\ \/ CreateOnly(f, "document") /\ Goto(f, "source")
             \/ SaveFailed("document") /\ Decide(f, "none")
             \/ SaveUnknown(f, "document") /\ Goto(f, "undo")
    /\ Provider(f)

\* A promotion that cannot revoke the writable staging path takes its copy back.
DeleteSource(f) ==
    /\ At(f, "source")
    /\ \/ Delete("staged") /\ Goto(f, "register")
       \/ /\ objects' \in {[objects EXCEPT !["document"] = Absent],
                           [objects EXCEPT !["document"] = Absent, !["staged"] = Absent]}
          /\ Decide(f, "none")
       \/ /\ objects' \in {objects, [objects EXCEPT !["staged"] = Absent]}
          /\ Goto(f, "undo")
    /\ Provider(f)

\* The savepoint that inserts the document, its version and the task's new state.
Register(f) ==
    /\ At(f, "register")
    /\ (holder = f /\ Decide(f, "completed")) \/ Goto(f, "undo")
    /\ UNCHANGED objects /\ Provider(f)

Undo(f) ==
    /\ At(f, "undo")
    /\ \/ Delete("document") /\ Decide(f, "none")
       \/ DeleteUnconfirmed("document") /\ Decide(f, "cleanup_unconfirmed")
    /\ Provider(f)

\* The route commits before it answers, governed refusals included.
Commit(f) ==
    /\ At(f, "decided") /\ holder = f
    /\ holder' = NoRequest
    /\ fin' = [fin EXCEPT ![f] = NotFinalizing]
    /\ session' = IF fin[f].verdict = "none" THEN session ELSE fin[f].verdict
    /\ registered' = (registered \/ fin[f].verdict = "completed")
    /\ UNCHANGED <<phase, objects, inflight, linked, intents, cleanup, outlived, spent>>

\* A crash, or a commit that fails: the rows are as before, the objects are not.
Rollback(f) ==
    /\ holder = f /\ Spend("faults")
    /\ holder' = NoRequest
    /\ fin' = [fin EXCEPT ![f] = NotFinalizing]
    /\ UNCHANGED <<session, phase, objects, inflight, registered, linked, intents,
                   cleanup, outlived>>

\* The database drops the session and its locks while the request runs on.
LoseSession(f) ==
    /\ holder = f /\ Spend("faults")
    /\ outlived' = TRUE
    /\ holder' = NoRequest
    /\ UNCHANGED <<session, phase, objects, inflight, registered, linked, intents,
                   fin, cleanup>>

\* Its next statement fails; only provider calls were still possible.
Strayed(f) ==
    /\ holder # f /\ fin[f].at \in {"waiting", "decided"}
    /\ fin' = [fin EXCEPT ![f] = NotFinalizing]
    /\ UNCHANGED objects /\ Provider(f)

FinalizeStep(f) ==
    \/ Admit(f) \/ Download(f) \/ Discard(f) \/ Quarantine(f) \/ Move(f)
    \/ Promote(f) \/ DeleteSource(f) \/ Register(f) \/ Undo(f) \/ Commit(f)
    \/ Strayed(f)

----------------------------------------------------------------------------
(* References that come and go *)

DeleteDocument ==
    /\ registered /\ LockIsFree("document")
    /\ registered' = FALSE
    /\ Enqueue(IF linked THEN {} ELSE {"document"})
    /\ UNCHANGED <<session, phase, objects, inflight, linked, fin, holder, cleanup, outlived, spent>>

LinkVaultItem ==
    /\ registered /\ ~linked /\ LockIsFree("document")
    /\ Spend("links")
    /\ linked' = TRUE
    /\ UNCHANGED <<session, phase, objects, inflight, registered, intents, fin, holder,
                   cleanup, outlived>>

\* Replacing the source of a vault item, or deleting it, always queues.
UnlinkVaultItem ==
    /\ linked /\ LockIsFree("document")
    /\ linked' = FALSE
    /\ Enqueue({"document"})
    /\ UNCHANGED <<session, phase, objects, inflight, registered, fin, holder, cleanup, outlived, spent>>

----------------------------------------------------------------------------
(* Sweeping the lease and settling the intents *)

\* Paths whose copies a session of this status may have left.
PathsToSweep_RejectedHasNoCopy(status) ==
    {"staged"} \union (IF status \in {"completed", "rejected"} THEN {} ELSE {"document", "quarantine"})
PathsToSweep(status) ==
    {"staged"}
    \union (IF status = "completed" THEN {} ELSE {"document"})
    \union (IF status \in {"completed", "rejected"} THEN {} ELSE {"quarantine"})

Sweep ==
    /\ phase = Sweepable /\ session \in Sources /\ LockIsFree("staged")
    /\ session' = SweptTo[session]
    /\ Enqueue(PathsToSweep(session))
    /\ UNCHANGED <<phase, objects, inflight, registered, linked, fin, holder, cleanup, outlived, spent>>

Exhausted(p, i) == intents[p][i].attempts >= MaximumAttempts
SetRow(p, i, row) == intents' = [intents EXCEPT ![p][i] = row]
SetStatus(p, i, s) == SetRow(p, i, Row(s, intents[p][i].attempts, intents[p][i].replays))
SetAttempted(p, i, s) ==
    SetRow(p, i, Row(s, intents[p][i].attempts + 1, intents[p][i].replays))
IntentsOnly ==
    UNCHANGED <<session, phase, objects, inflight, registered, linked, fin, holder, outlived, spent>>

\* Under the path's lock and the intent's row lock, without a provider call.
SettleUntouched(p, i) ==
    /\ intents[p][i].status \in Waiting /\ LockIsFree(p)
    /\ IF Exhausted(p, i) THEN SetStatus(p, i, "dead_letter")
       ELSE Referenced(p) /\ SetAttempted(p, i, "cancelled")
    /\ UNCHANGED cleanup /\ IntentsOnly

StartDeletion(p, i) ==
    /\ intents[p][i].status \in Waiting /\ LockIsFree(p)
    /\ ~Exhausted(p, i) /\ ~Referenced(p)
    /\ cleanup' = [cleanup EXCEPT ![p] = [at |-> "deleting", intent |-> i]]
    /\ UNCHANGED intents /\ IntentsOnly

Answer(p, at) == cleanup' = [cleanup EXCEPT ![p] = [at |-> at, intent |-> cleanup[p].intent]]
DeleteObject(p) ==
    /\ cleanup[p].at = "deleting"
    /\ \/ Delete(p) /\ Answer(p, "deleted")
       \/ DeleteUnconfirmed(p) /\ Answer(p, "unconfirmed")
    /\ UNCHANGED <<session, phase, inflight, registered, linked, intents, fin, holder, outlived, spent>>

AfterFailure(p, i) ==
    IF intents[p][i].attempts + 1 >= MaximumAttempts THEN "dead_letter" ELSE "retry_wait"

CommitDeletion(p) ==
    LET i == cleanup[p].intent
    IN  /\ cleanup[p].at \in {"deleted", "unconfirmed"}
        /\ SetAttempted(p, i, IF cleanup[p].at = "deleted" THEN "completed"
                              ELSE AfterFailure(p, i))
        /\ cleanup' = [cleanup EXCEPT ![p] = NoCleanup]
        /\ IntentsOnly

\* The object may be gone already; the intent is found as it was.
RollbackDeletion(p) ==
    /\ cleanup[p].at # "idle" /\ Spend("faults")
    /\ cleanup' = [cleanup EXCEPT ![p] = NoCleanup]
    /\ UNCHANGED <<session, phase, objects, inflight, registered, linked, intents, fin, holder,
                   outlived>>

ReplayDeadLetter(p, i) ==
    /\ intents[p][i].status = "dead_letter" /\ intents[p][i].replays < MaxReplays /\ Spend("replays")
    /\ SetRow(p, i, Row("queued", 0, intents[p][i].replays + 1))
    /\ UNCHANGED <<session, phase, objects, inflight, registered, linked, fin, holder,
                   cleanup, outlived>>

ResolveDeadLetter(p, i) ==
    /\ intents[p][i].status = "dead_letter"
    /\ SetStatus(p, i, "resolved")
    /\ UNCHANGED cleanup /\ IntentsOnly

\* After 90 days the row goes; dead letters and resolutions are kept for ever.
Purge(p, i) ==
    /\ intents[p][i].status \in {"completed", "cancelled"}
    /\ SetRow(p, i, Row("purged", 0, 0))
    /\ UNCHANGED cleanup /\ IntentsOnly

TakeUp(p) == \E i \in DOMAIN intents[p] : SettleUntouched(p, i) \/ StartDeletion(p, i)
FinishDeletion(p) == DeleteObject(p) \/ CommitDeletion(p)

Next ==
    \/ Issue \/ EndPut \/ Tick
    \/ \E c \in Uploadable : StartPut(c)
    \/ \E f \in Requests : Begin(f) \/ FinalizeStep(f) \/ Rollback(f) \/ LoseSession(f)
    \/ DeleteDocument \/ LinkVaultItem \/ UnlinkVaultItem
    \/ Sweep
    \/ \E p \in Paths : TakeUp(p) \/ FinishDeletion(p) \/ RollbackDeletion(p)
    \/ \E p \in Paths : \E i \in DOMAIN intents[p] :
          ReplayDeadLetter(p, i) \/ ResolveDeadLetter(p, i) \/ Purge(p, i)

Spec == Init /\ [][Next]_vars

\* Requests and uploads end and time passes.  The scheduler runs the sweep and the
\* reconciliation again and again, and the database grants a lock in the order it
\* was asked for, so a client that retries for ever cannot keep them out (SF).
\* TakeUp being fair is an assumption about this lease's tenant: its turn comes and
\* reaches its intents.  A tenant that always fails earlier in its turn (the purge at
\* repository.ts:759) or keeps the cursor before it (reconciler.ts:265) is outside it.
\* Nothing is assumed of clients and operators.
FairSpec ==
    /\ Spec
    /\ WF_vars(Tick) /\ WF_vars(EndPut)
    /\ \A f \in Requests : WF_vars(FinalizeStep(f))
    /\ SF_vars(Sweep)
    /\ \A p \in Paths : SF_vars(TakeUp(p)) /\ WF_vars(FinishDeletion(p))

----------------------------------------------------------------------------
TypeOK ==
    /\ session \in SessionStatus
    /\ phase \in Phases
    /\ objects \in [Paths -> Contents \union {Absent}]
    /\ inflight \in Contents \union {Absent}
    /\ {registered, linked, outlived} \subseteq BOOLEAN
    /\ intents \in [Paths -> Seq(Intent)]
    /\ fin \in [Requests -> Finalize]
    /\ holder \in Requests \union {NoRequest}
    /\ cleanup \in [Paths -> Cleanup]
    /\ spent \in [Resources -> Nat]

(* Data loss: as long as a document or a vault item refers to the promoted *)
(* path, the provider stores the very bytes that passed inspection: no     *)
(* late PUT, retry, sweep or deletion intent replaces or removes them      *)
(* (clientUploadRepository.ts finalize, repository.ts reconcile).  Only a  *)
(* request that outlives its database session can lose them, and even that *)
(* one cannot put other bytes in their place.                              *)
ReferencedDocumentIsIntact ==
    Referenced("document") =>
        objects["document"] = "clean" \/ (outlived /\ objects["document"] = Absent)

(* The one way a copy is forgotten: a request crashes after it has put the *)
(* object in quarantine, and a retry, which does not find it staged, ends   *)
(* the session as rejected (or completed, after another PUT); the sweep of  *)
(* such a session does not look at the quarantine path                      *)
(* (repository.ts:938, against objectStorage.ts:438).                       *)
SettledWithoutQuarantine ==
    session \in {"completed", "rejected", SweptTo["completed"], SweptTo["rejected"]}
QuarantineIsForgotten == spent["faults"] > 0 /\ SettledWithoutQuarantine

(* Leak: at every moment, so also after a crash there, a copy at any of the *)
(* three paths is referred to, in reach of a coming sweep, or named by an   *)
(* intent that is not settled (repository.ts sweepExpiredClientUploadLeases,*)
(* documents.ts delete, vault.ts).  Excepted are the promoted and the       *)
(* quarantined copy if a request outlived its database session, and the     *)
(* quarantined copy that is forgotten as said above.                        *)
HasIntent(p, S) == \E i \in DOMAIN intents[p] : intents[p][i].status \in S
AwaitsSweep(p) == session \in Sources /\ p \in PathsToSweep(session)
GivenUp == {"dead_letter", "resolved"}
Tracked(p) ==
    objects[p] # Absent =>
        Referenced(p) \/ AwaitsSweep(p) \/ HasIntent(p, Waiting \union GivenUp)
EveryCopyIsTracked ==
    /\ Tracked("staged")
    /\ ~outlived => Tracked("document")
    /\ ~outlived /\ ~QuarantineIsForgotten => Tracked("quarantine")

(* Nothing stays behind: in the end a copy at any of the three paths is     *)
(* referred to or its deletion has been given up on record (a dead letter   *)
(* or its resolution), with the exceptions of EveryCopyIsTracked.  This     *)
(* rests on FairSpec: it says nothing of a tenant whose turn always ends    *)
(* before its intents are reached.                                          *)
Unowned(p) ==
    objects[p] # Absent /\ ~Referenced(p) /\ ~HasIntent(p, GivenUp)
OrphansAreCollected ==
    <>[](/\ ~Unowned("staged")
         /\ ~outlived => ~Unowned("document")
         /\ ~outlived /\ ~QuarantineIsForgotten => ~Unowned("quarantine"))
=============================================================================
