---------------------- MODULE RetentionCompletionProofs ----------------------
(***************************************************************************)
(* Proofs about RetentionCompletion, for any administrators, files, limits *)
(* of attempts and replays, and whatever bound is put on the evidence.     *)
(*                                                                         *)
(* The argument: the detach leaves no row and binds no file of the vault,  *)
(* so no bound intent finds a reference and none is cancelled.  A final    *)
(* intent never changes, so what a call has read of one is still true when *)
(* it decides, and its attempts, read after it, include the last.          *)
(***************************************************************************)
EXTENDS RetentionCompletion, TLAPS

\* What the detach leaves: the files it binds have no owner but their intent.
DetachIsClean ==
    IF action = "none"
    THEN \A p \in Paths : event[p] = Unbound /\ disposition[p] = "none"
    ELSE rows = {} /\ \A p \in Paths : event[p].status # "unbound" => p \notin linked

\* A bound intent is never cancelled, and a completed one tells the truth.
CompletedIsGone ==
    \A p \in Paths :
        /\ event[p].status # "cancelled"
        /\ event[p].status = "completed" =>
               event[p].latest \in Gone /\ (p \in objects => p \in rewritten)

\* A recorded disposition is what became of the intent.
DispositionIsOutcome ==
    \A p \in Paths :
        /\ disposition[p] # "cancelled_referenced"
        /\ disposition[p] \in Gone => event[p].status = "completed"
        /\ disposition[p] = "accepted_unresolved" => event[p].status = "resolved"

\* What a call has read and still relies on.
ReadIsCurrent ==
    /\ call.at = "detaching" => action = "none"
    /\ call.at \in {"reading", "deciding"} =>
           /\ action = "detached"
           /\ \A p \in Paths :
                 /\ call.status[p] \in Final => event[p].status = call.status[p]
                 /\ call.status[p] = "unbound" => event[p].status = "unbound"
    /\ call.at = "deciding" =>
           \A p \in Paths : call.status[p] = "completed" => call.latest[p] \in Gone

ProvenWhenReconciled ==
    action \in {"reconciled", "certified"} =>
        \A p \in Paths : event[p].status # "unbound" => disposition[p] \in Gone

\* While the project lives, each stored file has an owner or a sweep to come.
OwnedBeforeDetach ==
    action = "none" => objects \subseteq rows \union Leased \union linked \union others

Evidence ==
    /\ DetachIsClean /\ CompletedIsGone /\ DispositionIsOutcome /\ ReadIsCurrent
    /\ ProvenWhenReconciled /\ BlockedOnlyByAnOperator
Storage == VaultFileSurvives /\ OwnedBeforeDetach /\ NoCopyIsForgotten
IInv == TypeOK /\ Evidence /\ Storage

USE DEF Gone, Final, Waiting

LEMMA EventTypes ==
    ASSUME TypeOK, NEW p \in Paths
    PROVE  event[p] \in Event
BY DEF TypeOK

(* The initial states *)
LEMMA InitIsGood == Init => IInv
<1> SUFFICES ASSUME Init PROVE IInv
    OBVIOUS
<1> USE RetentionAssumption DEF Init
<1>1. TypeOK
    <2>1. event \in [Paths -> Event]
        BY DEF Unbound, Event, EventStatus, Latest
    <2>2. call \in Call
        BY DEF NoCall, Call, EventStatus, Latest
    <2>3. disposition \in [Paths -> Disposition]
        BY DEF Disposition
    <2> QED BY <2>1, <2>2, <2>3 DEF TypeOK
<1>2. Evidence
    BY DEF Evidence, DetachIsClean, CompletedIsGone, DispositionIsOutcome, ReadIsCurrent,
           ProvenWhenReconciled, BlockedOnlyByAnOperator, Unbound, NoCall
<1>3. Storage
    BY DEF Storage, VaultFileSurvives, OwnedBeforeDetach, NoCopyIsForgotten
<1> QED BY <1>1, <1>2, <1>3 DEF IInv

(* Steps of the rest of the tenant keep the intents, the stamps and the call. *)
LEMMA TenantStep ==
    ASSUME IInv, NEW p \in Paths,
           DropRow(p) \/ LinkVaultItem(p) \/ UnlinkVaultItem(p) \/ LatePut(p) \/ SettleOther(p)
    PROVE  IInv'
<1> USE RetentionAssumption DEF IInv
<1>1. TypeOK'
    BY DEF TypeOK, DropRow, LinkVaultItem, UnlinkVaultItem, LatePut, SettleOther, stamps
<1>2. Evidence'
    <2>1. DetachIsClean'
        BY DEF Evidence, DetachIsClean, DropRow, LinkVaultItem, UnlinkVaultItem, LatePut,
               SettleOther, stamps
    <2>2. CompletedIsGone'
        BY DEF Evidence, CompletedIsGone, DropRow, LinkVaultItem, UnlinkVaultItem, LatePut,
               SettleOther, stamps
    <2>3. DispositionIsOutcome' /\ ReadIsCurrent' /\ ProvenWhenReconciled'
          /\ BlockedOnlyByAnOperator'
        BY DEF Evidence, DispositionIsOutcome, ReadIsCurrent, ProvenWhenReconciled,
               BlockedOnlyByAnOperator, Bound, DropRow, LinkVaultItem, UnlinkVaultItem, LatePut,
               SettleOther, stamps
    <2> QED BY <2>1, <2>2, <2>3 DEF Evidence
<1>3. VaultFileSurvives'
    BY DEF Storage, VaultFileSurvives, DropRow, LinkVaultItem, UnlinkVaultItem, LatePut,
           SettleOther, Referenced
<1>4. OwnedBeforeDetach'
    BY DEF Storage, OwnedBeforeDetach, DropRow, LinkVaultItem, UnlinkVaultItem, LatePut,
           SettleOther, stamps, Referenced
<1>5. NoCopyIsForgotten'
    <2>1. CASE DropRow(p)
        BY <2>1 DEF Storage, NoCopyIsForgotten, DropRow, stamps
    <2>2. CASE LinkVaultItem(p) \/ UnlinkVaultItem(p)
        BY <2>2 DEF Storage, NoCopyIsForgotten, LinkVaultItem, UnlinkVaultItem, stamps
    <2>3. CASE LatePut(p)
        BY <2>3 DEF Storage, NoCopyIsForgotten, LatePut, stamps
    <2>4. CASE SettleOther(p)
        BY <2>4 DEF Storage, NoCopyIsForgotten, SettleOther, stamps, Evidence, DetachIsClean,
                    Referenced
    <2> QED BY <2>1, <2>2, <2>3, <2>4
<1> QED BY <1>1, <1>2, <1>3, <1>4, <1>5 DEF Storage

(* A due intent is bound after the detach to a file nobody refers to.      *)
LEMMA DueIsUnreferenced ==
    ASSUME IInv, NEW p \in Paths, IsDue(p)
    PROVE  action # "none" /\ ~Referenced(p) /\ event[p].status \in {"queued", "retry_wait"}
BY DEF IInv, Evidence, DetachIsClean, IsDue, Referenced, Unbound

LEMMA AttemptTypes ==
    ASSUME TypeOK, NEW p \in Paths, IsDue(p),
           NEW status \in EventStatus, NEW latest \in Latest, Attempted(p, status, latest)
    PROVE  /\ event' \in [Paths -> Event]
           /\ event'[p].status = status /\ event'[p].latest = latest
           /\ \A q \in Paths \ {p} : event'[q] = event[q]
<1> USE RetentionAssumption
<1>1. event[p].cycle + 1 \in 0 .. MaximumAttempts
    BY EventTypes DEF IsDue, Event
<1>2. [status |-> status, latest |-> latest, cycle |-> event[p].cycle + 1,
       replays |-> event[p].replays, attempts |-> event[p].attempts + 1] \in Event
    BY <1>1, EventTypes DEF Event
<1> QED BY <1>2 DEF Attempted, TypeOK

(* An attempt settles one due intent or leaves it waiting or dead.         *)
LEMMA AttemptStep ==
    ASSUME IInv, NEW p \in Paths,
           AttemptDeletion(p) \/ AttemptUnconfirmed(p) \/ CrashAfterDeletion(p)
    PROVE  IInv'
<1> USE RetentionAssumption DEF IInv
<1>1. IsDue(p)
    BY DEF AttemptDeletion, AttemptUnconfirmed, CrashAfterDeletion
<1>2. action # "none" /\ ~Referenced(p) /\ event[p].status \in {"queued", "retry_wait"}
    BY <1>1, DueIsUnreferenced
<1>3. UNCHANGED <<rows, linked, others, rewritten, aged, stamps, call>>
    BY DEF AttemptDeletion, AttemptUnconfirmed, CrashAfterDeletion
<1>4. /\ event' \in [Paths -> Event]
      /\ \A q \in Paths \ {p} : event'[q] = event[q]
      /\ objects' \in {objects, objects \ {p}}
      /\ event'[p].status \in {"queued", "retry_wait", "dead_letter", "completed"}
      /\ event'[p].status = "completed" => event'[p].latest \in Gone /\ objects' = objects \ {p}
    <2>1. CASE AttemptDeletion(p)
        <3> DEFINE latest == IF p \in objects THEN "deleted" ELSE "already_absent"
        <3>1. Attempted(p, "completed", latest) /\ objects' = objects \ {p}
            BY <1>2, <2>1 DEF AttemptDeletion
        <3>2. latest \in Latest /\ latest \in Gone /\ "completed" \in EventStatus
            BY DEF Latest, EventStatus
        <3> HIDE DEF latest
        <3> QED BY <1>1, <3>1, <3>2, AttemptTypes
    <2>2. CASE AttemptUnconfirmed(p)
        <3> DEFINE outcome == IF event[p].cycle + 1 >= MaximumAttempts THEN "dead_letter"
                              ELSE "retry_wait"
        <3>1. Attempted(p, outcome, outcome) /\ objects' \in {objects, objects \ {p}}
            BY <2>2 DEF AttemptUnconfirmed
        <3>2. outcome \in {"dead_letter", "retry_wait"}
            OBVIOUS
        <3>3. outcome \in Latest /\ outcome \in EventStatus
            BY <3>2 DEF Latest, EventStatus
        <3> HIDE DEF outcome
        <3> QED BY <1>1, <3>1, <3>2, <3>3, AttemptTypes
    <2>3. CASE CrashAfterDeletion(p)
        BY <1>2, <2>3 DEF CrashAfterDeletion, TypeOK
    <2> QED BY <2>1, <2>2, <2>3
<1>5. TypeOK'
    BY <1>3, <1>4 DEF TypeOK, stamps
<1>6. Evidence'
    <2>1. DetachIsClean'
        BY <1>2, <1>3, <1>4 DEF Evidence, DetachIsClean, stamps
    <2>2. CompletedIsGone'
        BY <1>2, <1>3, <1>4 DEF Evidence, CompletedIsGone, stamps
    <2>3. DispositionIsOutcome'
        BY <1>2, <1>3, <1>4 DEF Evidence, DispositionIsOutcome, stamps
    <2>4. ReadIsCurrent'
        BY <1>2, <1>3, <1>4 DEF Evidence, ReadIsCurrent, stamps
    <2>5. ProvenWhenReconciled'
        BY <1>2, <1>3, <1>4 DEF Evidence, ProvenWhenReconciled, stamps
    <2>6. BlockedOnlyByAnOperator'
        BY <1>2, <1>3, <1>4 DEF Evidence, BlockedOnlyByAnOperator, Bound, stamps
    <2> QED BY <2>1, <2>2, <2>3, <2>4, <2>5, <2>6 DEF Evidence
<1>7. VaultFileSurvives' /\ OwnedBeforeDetach'
    BY <1>2, <1>3, <1>4 DEF Storage, VaultFileSurvives, OwnedBeforeDetach, Referenced, stamps
<1>8. NoCopyIsForgotten'
    <2> SUFFICES ASSUME NEW q \in objects' \ rewritten'
                 PROVE  q \in linked' \union others' \/ event'[q].status \in Waiting \union GivenUp
        BY DEF NoCopyIsForgotten
    <2>1. q \in objects \ rewritten /\ q \in Paths
        BY <1>3, <1>4 DEF TypeOK
    <2>2. q \in linked \union others \/ event[q].status \in Waiting \union GivenUp
        BY <1>2, <2>1 DEF Storage, NoCopyIsForgotten
    <2>3. CASE q = p
        BY <1>4, <2>3 DEF GivenUp
    <2>4. CASE q # p
        BY <1>3, <1>4, <2>1, <2>2, <2>4
    <2> QED BY <2>3, <2>4
<1> QED BY <1>5, <1>6, <1>7, <1>8 DEF Storage

(* An operator moves a dead letter; time passes over a terminal intent.    *)
LEMMA OperatorStep ==
    ASSUME IInv, NEW p \in Paths,
           ReplayDeadLetter(p) \/ ResolveDeadLetter(p) \/ Age(p)
    PROVE  IInv'
<1> USE RetentionAssumption DEF IInv
<1>1. UNCHANGED <<rows, linked, others, objects, rewritten, stamps, call>>
    BY DEF ReplayDeadLetter, ResolveDeadLetter, Age
<1>2. /\ event' \in [Paths -> Event]
      /\ \A q \in Paths \ {p} : event'[q] = event[q]
      /\ \/ event'[p] = event[p]
         \/ /\ event[p].status = "dead_letter"
            /\ event'[p].status \in {"queued", "resolved"}
    <2>1. CASE ReplayDeadLetter(p)
        <3>1. event[p].replays + 1 \in 0 .. MaxReplays
            BY <2>1, EventTypes DEF ReplayDeadLetter, Event
        <3> QED BY <2>1, <3>1, EventTypes DEF ReplayDeadLetter, TypeOK, Event, EventStatus
    <2>2. CASE ResolveDeadLetter(p)
        BY <2>2, EventTypes DEF ResolveDeadLetter, TypeOK, Event, EventStatus
    <2>3. CASE Age(p)
        BY <2>3 DEF Age, TypeOK
    <2> QED BY <2>1, <2>2, <2>3
<1>3. TypeOK'
    <2>1. aged' \in SUBSET Paths
        BY DEF ReplayDeadLetter, ResolveDeadLetter, Age, TypeOK
    <2> QED BY <1>1, <1>2, <2>1 DEF TypeOK, stamps
<1>4. Evidence'
    <2>1. DetachIsClean'
        BY <1>1, <1>2 DEF Evidence, DetachIsClean, Unbound, stamps
    <2>2. CompletedIsGone' /\ DispositionIsOutcome'
        BY <1>1, <1>2 DEF Evidence, CompletedIsGone, DispositionIsOutcome, stamps
    <2>3. ReadIsCurrent'
        BY <1>1, <1>2 DEF Evidence, ReadIsCurrent, stamps
    <2>4. ProvenWhenReconciled'
        BY <1>1, <1>2 DEF Evidence, ProvenWhenReconciled, stamps
    <2>5. BlockedOnlyByAnOperator'
        BY <1>1, <1>2 DEF Evidence, BlockedOnlyByAnOperator, Bound, stamps
    <2> QED BY <2>1, <2>2, <2>3, <2>4, <2>5 DEF Evidence
<1>5. VaultFileSurvives' /\ OwnedBeforeDetach'
    BY <1>1 DEF Storage, VaultFileSurvives, OwnedBeforeDetach, stamps
<1>6. NoCopyIsForgotten'
    <2> SUFFICES ASSUME action # "none", NEW q \in objects \ rewritten
                 PROVE  q \in linked \union others \/ event'[q].status \in Waiting \union GivenUp
        BY <1>1 DEF NoCopyIsForgotten, stamps
    <2>1. q \in Paths
        BY DEF TypeOK
    <2>2. q \in linked \union others \/ event[q].status \in Waiting \union GivenUp
        BY DEF Storage, NoCopyIsForgotten
    <2> QED BY <1>2, <2>1, <2>2 DEF GivenUp
<1> QED BY <1>3, <1>4, <1>5, <1>6 DEF Storage

(* Steps of a call that only move the call.                                *)
LEMMA ReadingStep ==
    ASSUME IInv,
           (\E u \in Users : TakeInventory(u) \/ ReadEvents(u)) \/ ReadAttempts \/ AbandonCall
    PROVE  IInv'
<1> USE RetentionAssumption DEF IInv
<1>1. UNCHANGED <<storage, stamps>>
    BY DEF TakeInventory, ReadEvents, ReadAttempts, AbandonCall
<1>2. call' \in Call
    <2>1. NoCall \in Call
        BY DEF NoCall, Call, EventStatus, Latest
    <2>2. \A q \in Paths : event[q].status \in EventStatus /\ event[q].latest \in Latest
        BY EventTypes DEF Event
    <2>3. Files \in SUBSET Paths
        BY DEF Files, TypeOK
    <2>4. CASE \E u \in Users : TakeInventory(u)
        <3>1. PICK u \in Users : call' = [at |-> "detaching", by |-> u, files |-> Files,
                                         status |-> NoCall.status, latest |-> NoCall.latest]
            BY <2>4 DEF TakeInventory, NoCall
        <3>2. NoCall.status \in [Paths -> EventStatus] /\ NoCall.latest \in [Paths -> Latest]
            BY DEF NoCall, EventStatus, Latest
        <3> QED BY <2>3, <3>1, <3>2 DEF Call
    <2>5. CASE \E u \in Users : ReadEvents(u)
        <3>1. [q \in Paths |-> event[q].status] \in [Paths -> EventStatus]
            BY <2>2
        <3>2. NoCall.files = {} /\ NoCall.latest \in [Paths -> Latest]
            BY DEF NoCall, Latest
        <3> DEFINE read == [q \in Paths |-> event[q].status]
        <3>3. PICK u \in Users : call' = [at |-> "reading", by |-> u, files |-> {},
                                         status |-> read, latest |-> NoCall.latest]
            BY <2>5 DEF ReadEvents, NoCall
        <3> HIDE DEF read
        <3> QED BY <3>1, <3>2, <3>3 DEF Call, read
    <2>6. CASE ReadAttempts
        <3>1. [q \in Paths |-> event[q].latest] \in [Paths -> Latest]
            BY <2>2
        <3>2. call \in Call
            BY DEF TypeOK
        <3> QED BY <2>6, <3>1, <3>2 DEF ReadAttempts, Call
    <2>7. CASE AbandonCall
        BY <2>1, <2>7 DEF AbandonCall
    <2> QED BY <2>4, <2>5, <2>6, <2>7
<1>3. TypeOK'
    BY <1>1, <1>2 DEF TypeOK, storage, stamps
<1>4. ReadIsCurrent'
    <2>1. CASE \E u \in Users : TakeInventory(u)
        <3>1. PICK u \in Users : call' = [at |-> "detaching", by |-> u, files |-> Files,
                                         status |-> NoCall.status, latest |-> NoCall.latest]
            BY <2>1 DEF TakeInventory, NoCall
        <3>2. call'.at = "detaching" /\ action = "none"
            BY <2>1, <3>1 DEF TakeInventory
        <3> QED BY <1>1, <3>2 DEF ReadIsCurrent, stamps
    <2>2. CASE AbandonCall
        BY <2>2 DEF AbandonCall, ReadIsCurrent, NoCall
    <2>3. CASE \E u \in Users : ReadEvents(u)
        <3>1. /\ call'.at = "reading" /\ action = "detached"
              /\ call'.status = [q \in Paths |-> event[q].status]
            BY <2>3 DEF ReadEvents, NoCall
        <3> QED BY <1>1, <3>1 DEF ReadIsCurrent, storage, stamps
    <2>4. CASE ReadAttempts
        <3>1. /\ call'.at = "deciding" /\ call'.status = call.status
              /\ call'.latest = [q \in Paths |-> event[q].latest]
              /\ call.at = "reading"
            BY <2>4 DEF ReadAttempts, TypeOK, Call
        <3> QED BY <1>1, <3>1 DEF Evidence, ReadIsCurrent, CompletedIsGone, storage, stamps
    <2> QED BY <2>1, <2>2, <2>3, <2>4
<1>5. Evidence'
    BY <1>1, <1>4 DEF Evidence, DetachIsClean, CompletedIsGone, DispositionIsOutcome,
                      ProvenWhenReconciled, BlockedOnlyByAnOperator, Bound, storage, stamps
<1>6. Storage'
    BY <1>1 DEF Storage, VaultFileSurvives, OwnedBeforeDetach, NoCopyIsForgotten, GivenUp,
                storage, stamps
<1> QED BY <1>3, <1>5, <1>6

(* The detach binds every file that its purge leaves without an owner.     *)
LEMMA DetachStep ==
    ASSUME IInv, CommitDetach
    PROVE  IInv'
<1> USE RetentionAssumption DEF IInv, CommitDetach, InventoryUnchanged
<1>1. action = "none"
    BY DEF Evidence, ReadIsCurrent
<1>2. /\ event' \in [Paths -> Event]
      /\ \A p \in Paths : event'[p] = IF p \in Files THEN Enqueued ELSE Unbound
    BY DEF Enqueued, Unbound, Event, EventStatus, Latest
<1>3. TypeOK'
    BY <1>2 DEF TypeOK, NoCall, Call, EventStatus, Latest
<1>4. \A p \in Paths : /\ event'[p].status \in {"queued", "unbound"}
                       /\ event'[p].status = "queued" <=> p \in Files
    BY <1>2 DEF Enqueued, Unbound
<1>5. Evidence'
    BY <1>1, <1>4 DEF Evidence, DetachIsClean, CompletedIsGone, DispositionIsOutcome,
                      ReadIsCurrent, ProvenWhenReconciled, BlockedOnlyByAnOperator, NoCall, Files
<1>6. Storage'
    BY <1>1, <1>4 DEF Storage, VaultFileSurvives, OwnedBeforeDetach, NoCopyIsForgotten, Files,
                      TypeOK
<1> QED BY <1>3, <1>5, <1>6

(* What a call decides from what it has read is true of the intents now.   *)
LEMMA DecisionIsSound ==
    ASSUME IInv, call.at = "deciding", NEW p \in Paths
    PROVE  LET d == Recorded(call.status[p], call.latest[p])
           IN  /\ d \in {"none", "accepted_unresolved"} \union Gone
               /\ d \in Gone => event[p].status = "completed"
               /\ d = "accepted_unresolved" => event[p].status = "resolved"
               /\ d \in Gone <=> Decision(call.status[p], call.latest[p]) \in Gone
               /\ Decision(call.status[p], call.latest[p]) = "untrusted"
                  /\ event[p].status # "unbound" => event[p].status = "resolved"
<1>1. /\ call.status[p] \in EventStatus
      /\ call.status[p] \in Final => event[p].status = call.status[p]
      /\ call.status[p] = "unbound" => event[p].status = "unbound"
      /\ call.status[p] = "completed" => call.latest[p] \in Gone
      /\ event[p].status # "cancelled"
    BY DEF IInv, Evidence, ReadIsCurrent, CompletedIsGone, TypeOK, Call
<1> QED BY <1>1 DEF Recorded, Decision, EventStatus

LEMMA ReconcileStep ==
    ASSUME IInv, CommitReconciliation
    PROVE  IInv'
<1> USE RetentionAssumption DEF IInv
<1> DEFINE d(p) == Recorded(call.status[p], call.latest[p])
<1>1. /\ call.at = "deciding" /\ action = "detached" /\ UNCHANGED <<storage, checker>>
      /\ disposition' = [p \in Paths |-> IF Records(p) THEN d(p) ELSE disposition[p]]
      /\ action' = Progress /\ call' = NoCall
      /\ preparer' = IF Progress = "reconciled" THEN call.by ELSE preparer
    BY DEF CommitReconciliation, Evidence, ReadIsCurrent
<1>2. \A p \in Paths :
          /\ d(p) \in {"none", "accepted_unresolved"} \union Gone
          /\ d(p) \in Gone => event[p].status = "completed"
          /\ d(p) = "accepted_unresolved" => event[p].status = "resolved"
          /\ d(p) \in Gone <=> Decision(call.status[p], call.latest[p]) \in Gone
          /\ Decision(call.status[p], call.latest[p]) = "untrusted"
             /\ event[p].status # "unbound" => event[p].status = "resolved"
    BY <1>1, DecisionIsSound
<1> HIDE DEF d
<1>3. Progress \in {"blocked", "reconciled", "detached"}
    BY DEF Progress
<1>4. TypeOK'
    <2>1. disposition' \in [Paths -> Disposition]
        BY <1>1, <1>2 DEF TypeOK, Disposition
    <2>2. preparer' \in Users \union {Nobody} /\ NoCall \in Call
        BY <1>1 DEF TypeOK, Call, NoCall, EventStatus, Latest
    <2> QED BY <1>1, <1>3, <2>1, <2>2 DEF TypeOK, storage
<1>5. DetachIsClean' /\ CompletedIsGone' /\ ReadIsCurrent'
    BY <1>1, <1>3 DEF Evidence, DetachIsClean, CompletedIsGone, ReadIsCurrent, NoCall, storage
<1>6. DispositionIsOutcome'
    BY <1>1, <1>2 DEF Evidence, DispositionIsOutcome, storage
<1>7. ProvenWhenReconciled'
    <2> SUFFICES ASSUME Progress = "reconciled", NEW p \in Paths, event[p].status # "unbound"
                 PROVE  disposition'[p] \in Gone
        BY <1>1, <1>3 DEF ProvenWhenReconciled, storage
    <2>1. p \in Bound /\ Proven(p)
        BY DEF Progress, Bound
    <2> QED BY <1>1, <1>2, <2>1 DEF Proven, Records
<1>8. BlockedOnlyByAnOperator'
    <2> SUFFICES ASSUME Progress = "blocked"
                 PROVE  \E p \in Bound : event[p].status = "resolved"
        BY <1>1 DEF BlockedOnlyByAnOperator, Bound, storage
    <2>1. PICK p \in Bound : Untrusted(p)
        BY DEF Progress
    <2>2. disposition[p] \in Disposition
        BY DEF TypeOK, Bound
    <2> QED BY <1>2, <2>1, <2>2
            DEF Untrusted, Bound, Evidence, DispositionIsOutcome, Disposition
<1>9. Storage'
    BY <1>1, <1>3 DEF Storage, VaultFileSurvives, OwnedBeforeDetach, NoCopyIsForgotten, GivenUp,
                      storage
<1> QED BY <1>4, <1>5, <1>6, <1>7, <1>8, <1>9 DEF Evidence

LEMMA CertifyStep ==
    ASSUME IInv, NEW u \in Users, Certify(u)
    PROVE  IInv'
<1> USE DEF IInv, Certify
<1>1. TypeOK'
    BY DEF TypeOK, storage
<1>2. Evidence'
    BY DEF Evidence, DetachIsClean, CompletedIsGone, DispositionIsOutcome, ReadIsCurrent,
           ProvenWhenReconciled, BlockedOnlyByAnOperator, storage
<1>3. Storage'
    BY DEF Storage, VaultFileSurvives, OwnedBeforeDetach, NoCopyIsForgotten, GivenUp, storage
<1> QED BY <1>1, <1>2, <1>3

LEMMA StepIsGood == IInv /\ [Next]_vars => IInv'
<1> SUFFICES ASSUME IInv, [Next]_vars PROVE IInv'
    OBVIOUS
<1>1. ASSUME NEW p \in Paths,
             DropRow(p) \/ LinkVaultItem(p) \/ UnlinkVaultItem(p) \/ LatePut(p) \/ SettleOther(p)
      PROVE  IInv'
    BY <1>1, TenantStep
<1>2. ASSUME NEW p \in Paths,
             AttemptDeletion(p) \/ AttemptUnconfirmed(p) \/ CrashAfterDeletion(p)
      PROVE  IInv'
    BY <1>2, AttemptStep
<1>3. ASSUME NEW p \in Paths, ReplayDeadLetter(p) \/ ResolveDeadLetter(p) \/ Age(p)
      PROVE  IInv'
    BY <1>3, OperatorStep
<1>4. CASE (\E u \in Users : TakeInventory(u) \/ ReadEvents(u)) \/ ReadAttempts \/ AbandonCall
    BY <1>4, ReadingStep
<1>5. CASE CommitDetach
    BY <1>5, DetachStep
<1>6. CASE CommitReconciliation
    BY <1>6, ReconcileStep
<1>7. ASSUME NEW u \in Users, Certify(u)
      PROVE  IInv'
    BY <1>7, CertifyStep
<1>8. CASE UNCHANGED vars
    <2>1. UNCHANGED <<storage, stamps, call>>
        BY <1>8 DEF vars
    <2>2. TypeOK'
        BY <2>1 DEF IInv, TypeOK, storage, stamps
    <2>3. Evidence'
        BY <2>1 DEF IInv, Evidence, DetachIsClean, CompletedIsGone, DispositionIsOutcome,
                    ReadIsCurrent, ProvenWhenReconciled, BlockedOnlyByAnOperator, Bound,
                    storage, stamps
    <2>4. Storage'
        BY <2>1 DEF IInv, Storage, VaultFileSurvives, OwnedBeforeDetach, NoCopyIsForgotten,
                    GivenUp, storage, stamps
    <2> QED BY <2>2, <2>3, <2>4 DEF IInv
<1> QED BY <1>1, <1>2, <1>3, <1>4, <1>5, <1>6, <1>7, <1>8 DEF Next

LEMMA Inductive == Spec => []IInv
BY InitIsGood, StepIsGood, PTL DEF Spec

(* The variables keep their types, for any limits.                         *)
THEOREM TypesAreKept == Spec => []TypeOK
<1>1. IInv => TypeOK
    BY DEF IInv
<1> QED BY Inductive, <1>1, PTL

(* A certificate tells the truth about every file bound to its action.     *)
THEOREM CertificatesAreTrue == Spec => []CertifiedFilesAreGone
<1>1. IInv => CertifiedFilesAreGone
    <2> SUFFICES ASSUME IInv, action = "certified", NEW p \in Bound \intersect objects
                 PROVE  p \in rewritten
        BY DEF CertifiedFilesAreGone
    <2>1. p \in Paths /\ disposition[p] \in Gone
        BY DEF IInv, Evidence, ProvenWhenReconciled, Bound
    <2>2. event[p].status = "completed"
        BY <2>1 DEF IInv, Evidence, DispositionIsOutcome
    <2> QED BY <2>1, <2>2 DEF IInv, Evidence, CompletedIsGone
<1> QED BY Inductive, <1>1, PTL

(* No race blocks an action: only an operator's resolution does.           *)
THEOREM NoRaceBlocks == Spec => []BlockedOnlyByAnOperator
<1>1. IInv => BlockedOnlyByAnOperator
    BY DEF IInv, Evidence
<1> QED BY Inductive, <1>1, PTL

(* What a vault item refers to stays stored.                               *)
THEOREM VaultIsSafe == Spec => []VaultFileSurvives
<1>1. IInv => VaultFileSurvives
    BY DEF IInv, Storage
<1> QED BY Inductive, <1>1, PTL

(* After the detach every stored file has an owner, an intent or a record. *)
THEOREM NothingIsForgotten == Spec => []NoCopyIsForgotten
<1>1. IInv => NoCopyIsForgotten
    BY DEF IInv, Storage
<1> QED BY Inductive, <1>1, PTL
=============================================================================
