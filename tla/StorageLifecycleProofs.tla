----------------------- MODULE StorageLifecycleProofs -----------------------
(***************************************************************************)
(* For any number of finalize requests, uploads, faults, retries and vault *)
(* items: a document or vault item that refers to the promoted path finds  *)
(* there the bytes that passed inspection, unless a request outlived its   *)
(* database session, and then never other bytes.                           *)
(*                                                                         *)
(* The argument rests on who may touch the promoted path.  Before the      *)
(* session leaves "open" nothing refers to it and no intent names it, so   *)
(* only the request that holds the project lock does; afterwards only a    *)
(* reconciliation does, and it holds the path's lock from the moment it    *)
(* found no reference.                                                     *)
(*                                                                         *)
(* And no copy gets out of sight: bytes come to the staged path only while *)
(* a sweep is still to come, and a row is closed only when its copy is     *)
(* referred to or gone.  A copy in quarantine is the holder's until the    *)
(* session says so, as long as nothing fails.                              *)
(***************************************************************************)
EXTENDS StorageLifecycle, TLAPS

\* The row a reconciliation has taken up is still to be settled.
RowInHand(p) ==
    LET i == cleanup[p].intent IN
    cleanup[p].at # "idle" =>
        /\ i \in DOMAIN intents[p]
        /\ intents[p][i].status \in Waiting
        /\ intents[p][i].attempts < MaximumAttempts

Typed == TypeOK /\ \A p \in Paths : RowInHand(p)

\* A request that may still change its session found it open and keeps it so.
Undecided(f) ==
    /\ fin[f].at \notin {"idle", "waiting"}
    /\ ~(At(f, "decided") /\ fin[f].verdict = "none")
HolderFoundItOpen == \A f \in Requests : holder = f /\ Undecided(f) => session = "open"

WorkersHoldTheLock == ~outlived => \A f \in Requests : ~At(f, "idle") => holder = f

\* Until the session is decided nobody else has business with the promoted path.
PromotedPathIsPrivate ==
    session \in {"none", "open"} =>
        /\ ~registered /\ ~linked
        /\ intents["document"] = <<>>
        /\ cleanup["document"].at = "idle"

OnlyCleanBytes ==
    /\ objects["document"] \in {"clean", Absent}
    /\ \A f \in Requests : At(f, "promote") => fin[f].intake = "clean"

HasPromoted(f) ==
    fin[f].at \in {"source", "register"} \/ (At(f, "decided") /\ fin[f].verdict = "completed")
PromotedIsStored ==
    ~outlived => \A f \in Requests : HasPromoted(f) => objects["document"] = "clean"

DeletedUnreferenced == cleanup["document"].at # "idle" => ~registered /\ ~linked

Custody ==
    /\ HolderFoundItOpen
    /\ WorkersHoldTheLock
    /\ PromotedPathIsPrivate
    /\ OnlyCleanBytes
    /\ PromotedIsStored
    /\ DeletedUnreferenced
    /\ ReferencedDocumentIsIntact
---------------------------------------------------------------------------
(* Types *)

\* The statuses by name.
LEMMA Statuses ==
  /\ Sources = {"open", "completed", "rejected", "quarantined", "cleanup_unconfirmed"}
  /\ \A s \in Sources : SweptTo[s] \in SessionStatus /\ SweptTo[s] \notin Sources \union {"none"}
  /\ Sources \subseteq SessionStatus /\ "none" \in SessionStatus
BY DEF Sources, SweptTo, SessionStatus

\* A step of one request leaves the others as they were.
LEMMA DecideTyped ==
  ASSUME Typed, NEW f \in Requests, NEW v \in Sources \union {"none"}, Decide(f, v)
  PROVE  fin' \in [Requests -> Finalize]
<1>1. Progress("decided", FALSE, Absent, v) \in Finalize
  BY DEF Progress, Finalize, Steps
<1> QED
  BY <1>1 DEF Decide, Typed, TypeOK

LEMMA GotoTyped ==
  ASSUME Typed, NEW f \in Requests, NEW step \in Steps, Goto(f, step)
  PROVE  fin' \in [Requests -> Finalize]
<1>1. Progress(step, FALSE, fin[f].intake, "none") \in Finalize
  BY DEF Progress, Finalize, Typed, TypeOK
<1> QED
  BY <1>1 DEF Goto, Typed, TypeOK

LEMMA SpendTyped ==
  ASSUME Typed, NEW r \in Resources, Spend(r)
  PROVE  spent' \in [Resources -> Nat]
BY DEF Spend, Typed, TypeOK

LEMMA EnqueueTyped ==
  ASSUME Typed, NEW P, Enqueue(P), UNCHANGED cleanup
  PROVE  intents' \in [Paths -> Seq(Intent)] /\ \A p \in Paths : RowInHand(p)'
<1>1. Queued \in Intent
  BY BoundsAssumption DEF Queued, Row, Intent, IntentStatus, Waiting
<1>2. ASSUME NEW p \in Paths
      PROVE  Append(intents[p], Queued) \in Seq(Intent)
  BY <1>1 DEF Typed, TypeOK
<1>3. intents' \in [Paths -> Seq(Intent)]
  BY <1>2 DEF Enqueue, Typed, TypeOK
<1>4. ASSUME NEW p \in Paths, NEW i \in DOMAIN intents[p]
      PROVE  i \in DOMAIN intents'[p] /\ intents'[p][i] = intents[p][i]
  <2>1. intents[p] \in Seq(Intent) /\ i \in 1 .. Len(intents[p])
    BY DEF Typed, TypeOK
  <2>2. /\ Len(Append(intents[p], Queued)) = Len(intents[p]) + 1
        /\ Append(intents[p], Queued)[i] = intents[p][i]
        /\ DOMAIN Append(intents[p], Queued) = 1 .. Len(intents[p]) + 1
    BY <2>1, <1>1, <1>2
  <2> QED
    BY <2>1, <2>2 DEF Enqueue
<1> QED
  BY <1>3, <1>4 DEF Typed, RowInHand

\* Settling one row keeps the rows' types and leaves every other row alone.
LEMMA RowTyped ==
  ASSUME Typed, NEW p \in Paths, NEW i \in DOMAIN intents[p], NEW row \in Intent,
         SetRow(p, i, row)
  PROVE  /\ intents' \in [Paths -> Seq(Intent)]
         /\ \A q \in Paths : DOMAIN intents'[q] = DOMAIN intents[q]
         /\ \A q \in Paths : \A j \in DOMAIN intents[q] :
              intents'[q][j] = IF q = p /\ j = i THEN row ELSE intents[q][j]
<1>1. intents[p] \in Seq(Intent) /\ intents \in [Paths -> Seq(Intent)]
  BY DEF Typed, TypeOK
<1>2. [intents[p] EXCEPT ![i] = row] \in Seq(Intent)
  BY <1>1
<1>3. intents' = [intents EXCEPT ![p] = [intents[p] EXCEPT ![i] = row]]
  BY <1>1 DEF SetRow
<1> QED
  BY <1>1, <1>2, <1>3

\* Statuses a row may take, and rows nobody has taken up.
LEMMA SettleTyped ==
  ASSUME Typed, NEW p \in Paths, NEW i \in DOMAIN intents[p], NEW row \in Intent,
         SetRow(p, i, row), UNCHANGED cleanup,
         cleanup[p].at = "idle" \/ intents[p][i].status \notin Waiting
  PROVE  intents' \in [Paths -> Seq(Intent)] /\ \A q \in Paths : RowInHand(q)'
<1>1. ASSUME NEW q \in Paths, cleanup[q].at # "idle"
      PROVE  ~(q = p /\ cleanup[q].intent = i)
  BY <1>1 DEF Typed, RowInHand
<1> QED
  BY <1>1, RowTyped DEF Typed, RowInHand

\* The fields of a stored row.
LEMMA RowFields ==
  ASSUME Typed, NEW p \in Paths, NEW i \in DOMAIN intents[p]
  PROVE  /\ intents[p][i].status \in IntentStatus
         /\ intents[p][i].attempts \in 0 .. MaximumAttempts
         /\ intents[p][i].replays \in 0 .. MaxReplays
<1>1. intents[p] \in Seq(Intent) /\ i \in 1 .. Len(intents[p])
  BY DEF Typed, TypeOK
<1>2. intents[p][i] \in Intent
  BY <1>1
<1> QED
  BY <1>2 DEF Intent

LEMMA ObjectsTyped ==
  ASSUME Typed, NEW p \in Paths, NEW c \in Contents \union {Absent}
  PROVE  [objects EXCEPT ![p] = c] \in [Paths -> Contents \union {Absent}]
BY DEF Typed, TypeOK

\* Steps of a finalize request that touch only the provider and its own progress.
LEMMA FinalizeTyped ==
  ASSUME Typed, NEW f \in Requests, fin' \in [Requests -> Finalize],
         objects' \in [Paths -> Contents \union {Absent}], Provider(f)
  PROVE  Typed'
BY DEF Provider, Rows, Typed, TypeOK, RowInHand

\* The initial state is typed.
LEMMA TypedInit == Init => Typed
<1> SUFFICES ASSUME Init PROVE Typed
  OBVIOUS
<1>1. NotFinalizing \in Finalize /\ NoCleanup \in Cleanup
  BY DEF NotFinalizing, Progress, Finalize, Steps, NoCleanup, Cleanup
<1>2. \A p \in Paths : cleanup[p].at = "idle"
  BY DEF Init, NoCleanup
<1>3. /\ session \in SessionStatus /\ phase \in Phases
      /\ objects \in [Paths -> Contents \union {Absent}] /\ inflight \in Contents \union {Absent}
      /\ intents \in [Paths -> Seq(Intent)]
  BY Statuses DEF Init, Phases, UrlOpen, Sweepable
<1>4. /\ {registered, linked, outlived} \subseteq BOOLEAN
      /\ holder \in Requests \union {NoRequest}
      /\ spent \in [Resources -> Nat]
  BY DEF Init
<1>5. fin \in [Requests -> Finalize] /\ cleanup \in [Paths -> Cleanup]
  BY <1>1 DEF Init
<1> QED
  BY <1>2, <1>3, <1>4, <1>5 DEF Typed, TypeOK, RowInHand

\* Every step keeps the types.
LEMMA TypedStep == Typed /\ [Next]_vars => Typed'
<1> SUFFICES ASSUME Typed, [Next]_vars PROVE Typed'
  OBVIOUS
<1> USE DEF Typed, TypeOK
<1> HIDE DEF Typed
<1>r. /\ {"uploads", "faults", "links", "replays"} \subseteq Resources
      /\ {"staged", "document", "quarantine"} = Paths
      /\ Contents \subseteq Contents \union {Absent}
  BY DEF Resources, Paths
<1>1. CASE Issue
  BY <1>1, Statuses DEF Issue, Typed, RowInHand
<1>2. CASE EndPut
  BY <1>2 DEF EndPut, Typed, RowInHand, Paths
<1>3. CASE Tick
  BY <1>3 DEF Tick, Typed, RowInHand, Phases, UrlOpen, Sweepable
<1>4. ASSUME NEW c \in Uploadable, StartPut(c) PROVE Typed'
  BY <1>4, <1>r, SpendTyped, BoundsAssumption DEF StartPut, Typed, RowInHand
<1>5. ASSUME NEW f \in Requests, Begin(f) PROVE Typed'
  <2>1. Progress("waiting", phase < InGrace, Absent, "none") \in Finalize
    BY DEF Progress, Finalize, Steps
  <2> QED
    BY <1>5, <2>1 DEF Begin, Typed, RowInHand
<1>6. ASSUME NEW f \in Requests, Admit(f) PROVE Typed'
  <2>1. fin' \in [Requests -> Finalize]
    BY <1>6, DecideTyped, GotoTyped DEF Admit, Steps
  <2> QED
    BY <1>6, <2>1, FinalizeTyped DEF Admit, Typed
<1>7. ASSUME NEW f \in Requests, Download(f) PROVE Typed'
  <2>1. CASE objects["staged"] = Absent /\ Decide(f, "rejected")
    BY <2>1, <1>7, Statuses, DecideTyped, FinalizeTyped DEF Download, Typed
  <2>2. CASE objects["staged"] # Absent
    <3>1. objects["staged"] \in Contents
      BY <2>2 DEF Typed, Paths
    <3>2. NextFor(objects["staged"]) \in Steps
      BY <3>1 DEF NextFor, Contents, Steps
    <3>3. Progress(NextFor(objects["staged"]), FALSE, objects["staged"], "none") \in Finalize
      BY <3>1, <3>2 DEF Progress, Finalize
    <3> QED
      BY <3>3, <2>2, <1>7, FinalizeTyped DEF Download, Typed
  <2> QED
    BY <1>7, <2>1, <2>2 DEF Download
<1>8. ASSUME NEW f \in Requests, Discard(f) PROVE Typed'
  <2>1. fin' \in [Requests -> Finalize]
    BY <1>8, Statuses, DecideTyped DEF Discard
  <2>2. objects' \in [Paths -> Contents \union {Absent}]
    BY <1>8, <1>r, ObjectsTyped DEF Discard, Delete, DeleteUnconfirmed, Store, Typed
  <2> QED
    BY <1>8, <2>1, <2>2, FinalizeTyped DEF Discard
<1>9. ASSUME NEW f \in Requests, NEW p \in Paths,
             \/ CreateOnly(f, p) \/ SaveFailed(p) \/ SaveUnknown(f, p)
      PROVE  objects' \in [Paths -> Contents \union {Absent}]
  <2>1. fin[f].intake \in Contents \union {Absent}
    BY DEF Typed, Finalize
  <2> QED
    BY <1>9, <2>1, ObjectsTyped DEF CreateOnly, SaveFailed, SaveUnknown, Delete, Store, Typed
<1>10. ASSUME NEW f \in Requests, Quarantine(f) PROVE Typed'
  <2>1. fin' \in [Requests -> Finalize]
    BY <1>10, Statuses, DecideTyped, GotoTyped DEF Quarantine, Steps
  <2>2. objects' \in [Paths -> Contents \union {Absent}]
    BY <1>10, <1>r, <1>9 DEF Quarantine
  <2> QED
    BY <1>10, <2>1, <2>2, FinalizeTyped DEF Quarantine
<1>11. ASSUME NEW f \in Requests, Move(f) PROVE Typed'
  <2>1. fin' \in [Requests -> Finalize]
    BY <1>11, Statuses, DecideTyped DEF Move
  <2>2. objects' \in [Paths -> Contents \union {Absent}]
    BY <1>11, <1>r, ObjectsTyped DEF Move, Delete, DeleteUnconfirmed, Store, Typed
  <2> QED
    BY <1>11, <2>1, <2>2, FinalizeTyped DEF Move
<1>12. ASSUME NEW f \in Requests, Promote(f) PROVE Typed'
  <2>1. fin' \in [Requests -> Finalize]
    BY <1>12, DecideTyped, GotoTyped DEF Promote, Steps
  <2>2. objects' \in [Paths -> Contents \union {Absent}]
    BY <1>12, <1>r, <1>9 DEF Promote, Typed
  <2> QED
    BY <1>12, <2>1, <2>2, FinalizeTyped DEF Promote
<1>13. ASSUME NEW f \in Requests, DeleteSource(f) PROVE Typed'
  <2>1. fin' \in [Requests -> Finalize]
    BY <1>13, DecideTyped, GotoTyped DEF DeleteSource, Steps
  <2>2. objects' \in [Paths -> Contents \union {Absent}]
    BY <1>13, <1>r DEF DeleteSource, Delete, Store, Typed
  <2> QED
    BY <1>13, <2>1, <2>2, FinalizeTyped DEF DeleteSource
<1>14. ASSUME NEW f \in Requests, Register(f) PROVE Typed'
  <2>1. fin' \in [Requests -> Finalize]
    BY <1>14, Statuses, DecideTyped, GotoTyped DEF Register, Steps
  <2> QED
    BY <1>14, <2>1, FinalizeTyped DEF Register, Typed
<1>15. ASSUME NEW f \in Requests, Undo(f) PROVE Typed'
  <2>1. fin' \in [Requests -> Finalize]
    BY <1>15, Statuses, DecideTyped DEF Undo
  <2>2. objects' \in [Paths -> Contents \union {Absent}]
    BY <1>15, <1>r, ObjectsTyped DEF Undo, Delete, DeleteUnconfirmed, Store, Typed
  <2> QED
    BY <1>15, <2>1, <2>2, FinalizeTyped DEF Undo
<1>16. NotFinalizing \in Finalize
  BY DEF NotFinalizing, Progress, Finalize, Steps
<1>17. ASSUME NEW f \in Requests, Commit(f) PROVE Typed'
  <2>1. fin[f].verdict \in Sources \union {"none"}
    BY DEF Typed, Finalize
  <2> QED
    BY <1>16, <1>17, <2>1, Statuses DEF Commit, Typed, RowInHand
<1>18. ASSUME NEW f \in Requests, Rollback(f) PROVE Typed'
  BY <1>16, <1>18, <1>r, SpendTyped DEF Rollback, Typed, RowInHand
<1>19. ASSUME NEW f \in Requests, LoseSession(f) PROVE Typed'
  BY <1>19, <1>r, SpendTyped DEF LoseSession, Typed, RowInHand
<1>20. ASSUME NEW f \in Requests, Strayed(f) PROVE Typed'
  BY <1>16, <1>20, FinalizeTyped DEF Strayed, Typed
<1>21. CASE DeleteDocument
  BY <1>21, EnqueueTyped DEF DeleteDocument, Typed
<1>22. CASE LinkVaultItem
  BY <1>22, <1>r, SpendTyped DEF LinkVaultItem, Typed, RowInHand
<1>23. CASE UnlinkVaultItem
  BY <1>23, EnqueueTyped DEF UnlinkVaultItem, Typed
<1>24. CASE Sweep
  BY <1>24, Statuses, EnqueueTyped DEF Sweep, Typed
<1>25. ASSUME NEW p \in Paths, NEW i \in DOMAIN intents[p], SettleUntouched(p, i) PROVE Typed'
  <2>1. cleanup[p].at = "idle"
    BY <1>25 DEF SettleUntouched, LockIsFree
  <2>2. /\ Row("dead_letter", intents[p][i].attempts, intents[p][i].replays) \in Intent
        /\ ~Exhausted(p, i) =>
             Row("cancelled", intents[p][i].attempts + 1, intents[p][i].replays) \in Intent
    BY RowFields, BoundsAssumption DEF Row, Intent, IntentStatus, Exhausted
  <2>3. PICK row \in Intent : SetRow(p, i, row)
    BY <1>25, <2>2 DEF SettleUntouched, SetStatus, SetAttempted
  <2> QED
    BY <1>25, <2>1, <2>3, SettleTyped DEF SettleUntouched, IntentsOnly, Typed
<1>26. ASSUME NEW p \in Paths, NEW i \in DOMAIN intents[p], StartDeletion(p, i) PROVE Typed'
  <2>1. intents[p][i].attempts < MaximumAttempts /\ i \in Nat
    <3>1. i \in 1 .. Len(intents[p]) /\ Len(intents[p]) \in Nat
      BY DEF Typed
    <3> QED
      BY <3>1, <1>26, RowFields, BoundsAssumption DEF StartDeletion, Exhausted
  <2>2. [at |-> "deleting", intent |-> i] \in Cleanup
    BY <2>1 DEF Cleanup
  <2> QED
    BY <1>26, <2>1, <2>2 DEF StartDeletion, IntentsOnly, Typed, RowInHand
<1>27. ASSUME NEW p \in Paths, DeleteObject(p) PROVE Typed'
  <2>1. objects' \in [Paths -> Contents \union {Absent}]
    BY <1>27, ObjectsTyped DEF DeleteObject, Delete, DeleteUnconfirmed, Store, Typed
  <2>2. PICK at \in {"deleted", "unconfirmed"} : Answer(p, at)
    BY <1>27 DEF DeleteObject
  <2>3. [at |-> at, intent |-> cleanup[p].intent] \in Cleanup
    BY DEF Cleanup, Typed
  <2>4. cleanup' \in [Paths -> Cleanup] /\ \A q \in Paths : RowInHand(q)'
    BY <1>27, <2>2, <2>3 DEF Answer, DeleteObject, Typed, RowInHand
  <2> QED
    BY <1>27, <2>1, <2>4 DEF DeleteObject, Typed
<1>28. ASSUME NEW p \in Paths, CommitDeletion(p) PROVE Typed'
  <2> DEFINE i == cleanup[p].intent
  <2>1. /\ i \in DOMAIN intents[p] /\ intents[p][i].attempts < MaximumAttempts
        /\ intents[p][i].attempts \in Nat
    BY <1>28, RowFields DEF CommitDeletion, Typed, RowInHand
  <2>2. PICK s \in {"completed", "dead_letter", "retry_wait"} : SetAttempted(p, i, s)
    BY <1>28 DEF CommitDeletion, AfterFailure
  <2>3. Row(s, intents[p][i].attempts + 1, intents[p][i].replays) \in Intent
    BY <2>1, RowFields, BoundsAssumption DEF Row, Intent, IntentStatus, Waiting
  <2> HIDE DEF i
  <2>4. /\ intents' \in [Paths -> Seq(Intent)]
        /\ \A q \in Paths : DOMAIN intents'[q] = DOMAIN intents[q]
        /\ \A q \in Paths : \A j \in DOMAIN intents[q] : q # p => intents'[q][j] = intents[q][j]
    BY <2>1, <2>2, <2>3, RowTyped DEF SetAttempted
  <2>5. NoCleanup \in Cleanup /\ NoCleanup.at = "idle"
    BY DEF NoCleanup, Cleanup
  <2> QED
    BY <1>28, <2>4, <2>5 DEF CommitDeletion, IntentsOnly, Typed, RowInHand
<1>29. ASSUME NEW p \in Paths, RollbackDeletion(p) PROVE Typed'
  <2>1. NoCleanup \in Cleanup /\ NoCleanup.at = "idle"
    BY DEF NoCleanup, Cleanup
  <2> QED
    BY <1>29, <2>1, <1>r, SpendTyped DEF RollbackDeletion, Typed, RowInHand
<1>30. ASSUME NEW p \in Paths, NEW i \in DOMAIN intents[p], ReplayDeadLetter(p, i) PROVE Typed'
  <2>1. Row("queued", 0, intents[p][i].replays + 1) \in Intent
    BY <1>30, RowFields, BoundsAssumption DEF ReplayDeadLetter, Row, Intent, IntentStatus, Waiting
  <2>2. intents[p][i].status \notin Waiting
    BY <1>30 DEF ReplayDeadLetter, Waiting
  <2> QED
    BY <1>30, <2>1, <2>2, <1>r, SettleTyped, SpendTyped DEF ReplayDeadLetter, Typed
<1>31. ASSUME NEW p \in Paths, NEW i \in DOMAIN intents[p], ResolveDeadLetter(p, i) PROVE Typed'
  <2>1. Row("resolved", intents[p][i].attempts, intents[p][i].replays) \in Intent
    BY RowFields DEF Row, Intent, IntentStatus
  <2>2. intents[p][i].status \notin Waiting
    BY <1>31 DEF ResolveDeadLetter, Waiting
  <2> QED
    BY <1>31, <2>1, <2>2, SettleTyped DEF ResolveDeadLetter, SetStatus, IntentsOnly, Typed
<1>32. ASSUME NEW p \in Paths, NEW i \in DOMAIN intents[p], Purge(p, i) PROVE Typed'
  <2>1. Row("purged", 0, 0) \in Intent
    BY BoundsAssumption DEF Row, Intent, IntentStatus
  <2>2. intents[p][i].status \notin Waiting
    BY <1>32 DEF Purge, Waiting
  <2> QED
    BY <1>32, <2>1, <2>2, SettleTyped DEF Purge, IntentsOnly, Typed
<1>33. CASE UNCHANGED vars
  BY <1>33 DEF vars, Typed, RowInHand
<1> QED
  BY <1>1, <1>2, <1>3, <1>4, <1>5, <1>6, <1>7, <1>8, <1>10, <1>11, <1>12, <1>13, <1>14,
     <1>15, <1>17, <1>18, <1>19, <1>20, <1>21, <1>22, <1>23, <1>24, <1>25, <1>26, <1>27,
     <1>28, <1>29, <1>30, <1>31, <1>32, <1>33
     DEF Next, FinalizeStep, TakeUp, FinishDeletion

\* Every variable keeps its type, and a row that a reconciliation has taken up
\* waits for its outcome with attempts to spare (repository.ts:980).
THEOREM TypesHold == Spec => []Typed
<1>1. Init => Typed
  BY TypedInit
<1>2. Typed /\ [Next]_vars => Typed'
  BY TypedStep
<1> QED
  BY <1>1, <1>2, PTL DEF Spec
---------------------------------------------------------------------------
(* Custody of the promoted path *)

\* Where the request stands after it decided, or went on to another step.
LEMMA DecideFields ==
  ASSUME Typed, NEW f \in Requests, NEW v, Decide(f, v)
  PROVE  /\ fin'[f].at = "decided" /\ fin'[f].verdict = v
         /\ \A g \in Requests : g # f => fin'[g] = fin[g]
BY DEF Decide, Progress, Typed, TypeOK

LEMMA GotoFields ==
  ASSUME Typed, NEW f \in Requests, NEW step, Goto(f, step)
  PROVE  /\ fin'[f].at = step
         /\ \A g \in Requests : g # f => fin'[g] = fin[g]
BY DEF Goto, Progress, Typed, TypeOK

\* A store that does not name the document leaves it; one that does sets it.
LEMMA StoreFields ==
  ASSUME Typed, NEW p \in Paths, NEW c, Store(p, c)
  PROVE  /\ p # "document" => objects'["document"] = objects["document"]
         /\ p = "document" => objects'["document"] = c
BY DEF Store, Typed, TypeOK, Paths

\* With its database session alive, a request at work is alone with the path.
LEMMA Alone ==
  ASSUME Typed, Custody, ~outlived, NEW f \in Requests, Undecided(f)
  PROVE  /\ holder = f /\ session = "open"
         /\ ~registered /\ ~linked
         /\ cleanup["document"].at = "idle"
         /\ \A g \in Requests : g # f => fin[g].at = "idle"
BY DEF Custody, HolderFoundItOpen, WorkersHoldTheLock, PromotedPathIsPrivate, Undecided, At

\* A step of a request at work keeps custody if it stores nothing but clean bytes
\* and goes on as promoted only when they are stored.
LEMMA WorkKeepsCustody ==
  ASSUME Typed, Custody, NEW f \in Requests, Undecided(f), Provider(f),
         \A g \in Requests : g # f => fin'[g] = fin[g],
         fin'[f].at \notin {"idle", "waiting"},
         fin'[f].at = "promote" => fin'[f].intake = "clean",
         objects'["document"] \in {"clean", Absent},
         ~outlived /\ HasPromoted(f)' => objects'["document"] = "clean"
  PROVE  Custody'
<1>1. UNCHANGED <<session, registered, linked, intents, holder, cleanup, outlived>>
  BY DEF Provider, Rows
<1>2. HolderFoundItOpen'
  BY <1>1 DEF Custody, HolderFoundItOpen, Undecided, At
<1>3. WorkersHoldTheLock'
  BY <1>1, Alone DEF Custody, WorkersHoldTheLock, At
<1>4. PromotedPathIsPrivate' /\ DeletedUnreferenced'
  BY <1>1 DEF Custody, PromotedPathIsPrivate, DeletedUnreferenced
<1>5. OnlyCleanBytes'
  BY DEF Custody, OnlyCleanBytes, At
<1>6. PromotedIsStored'
  BY <1>1, Alone DEF PromotedIsStored, HasPromoted, At
<1>7. ReferencedDocumentIsIntact'
  BY <1>1, Alone DEF ReferencedDocumentIsIntact, Referenced
<1> QED
  BY <1>2, <1>3, <1>4, <1>5, <1>6, <1>7 DEF Custody

\* A request that lets go, or is at its start, has nothing to keep.
LEMMA StartKeepsCustody ==
  ASSUME Typed, Custody, NEW f \in Requests,
         UNCHANGED <<session, objects, registered, linked, intents, cleanup>>,
         \A g \in Requests : g # f => fin'[g] = fin[g],
         ~(\E g \in Requests : holder' = g /\ g # f /\ holder # g),
         \/ fin'[f].at = "idle"
         \/ fin'[f].at = "waiting" /\ (~outlived' => holder' = f),
         outlived \/ outlived' \/ (\A g \in Requests : g # f => fin[g].at = "idle"),
         outlived => outlived'
  PROVE  Custody'
<1>1. fin'[f].at \in {"idle", "waiting"}
  OBVIOUS
<1>2. HolderFoundItOpen'
  BY <1>1 DEF Custody, HolderFoundItOpen, Undecided, At
<1>3. WorkersHoldTheLock'
  BY DEF Custody, WorkersHoldTheLock, At
<1>4. PromotedPathIsPrivate' /\ DeletedUnreferenced'
  BY DEF Custody, PromotedPathIsPrivate, DeletedUnreferenced
<1>5. OnlyCleanBytes'
  BY <1>1 DEF Custody, OnlyCleanBytes, At
<1>6. PromotedIsStored'
  BY <1>1 DEF Custody, PromotedIsStored, HasPromoted, At
<1>7. ReferencedDocumentIsIntact'
  BY DEF Custody, OnlyCleanBytes, ReferencedDocumentIsIntact, Referenced
<1> QED
  BY <1>2, <1>3, <1>4, <1>5, <1>6, <1>7 DEF Custody

\* A step outside a request keeps custody if it leaves requests and promoted bytes
\* alone, adds no reference without them, and moves no session a request works on.
LEMMA OthersKeepCustody ==
  ASSUME Typed, Custody, UNCHANGED <<fin, holder, outlived>>,
         objects'["document"] = objects["document"],
         session' # session => ~(\E f \in Requests : holder = f /\ Undecided(f)),
         session' \in {"none", "open"} => session \in {"none", "open"},
         PromotedPathIsPrivate',
         registered' \/ linked' => registered \/ linked,
         cleanup'["document"].at # "idle" /\ (registered' \/ linked')
            => cleanup["document"].at # "idle"
  PROVE  Custody'
<1>1. HolderFoundItOpen'
  BY DEF Custody, HolderFoundItOpen, Undecided, At
<1>2. WorkersHoldTheLock' /\ OnlyCleanBytes' /\ PromotedIsStored'
  BY DEF Custody, WorkersHoldTheLock, OnlyCleanBytes, PromotedIsStored, HasPromoted, At
<1>3. DeletedUnreferenced'
  BY DEF Custody, DeletedUnreferenced
<1>4. ReferencedDocumentIsIntact'
  BY DEF Custody, ReferencedDocumentIsIntact, Referenced
<1> QED
  BY <1>1, <1>2, <1>3, <1>4 DEF Custody

\* Initially there is nothing to keep.
LEMMA CustodyInit == Init => Custody
<1> SUFFICES ASSUME Init PROVE Custody
  OBVIOUS
<1>1. /\ session = "none" /\ ~registered /\ ~linked /\ holder = NoRequest
      /\ objects["document"] = Absent /\ intents["document"] = <<>>
      /\ cleanup["document"].at = "idle"
      /\ \A f \in Requests : fin[f].at = "idle"
  BY DEF Init, Paths, NoCleanup, NotFinalizing, Progress
<1> QED
  BY <1>1 DEF Custody, HolderFoundItOpen, Undecided, WorkersHoldTheLock, PromotedPathIsPrivate,
     OnlyCleanBytes, HasPromoted, PromotedIsStored, DeletedUnreferenced,
     ReferencedDocumentIsIntact, Referenced, At

\* Every step of a finalize request keeps custody.
LEMMA FinalizeKeepsCustody ==
  ASSUME Typed, Custody, NEW f \in Requests, FinalizeStep(f)
  PROVE  Custody'
<1>d. "document" \in Paths /\ "staged" \in Paths /\ "quarantine" \in Paths
  BY DEF Paths
<1>c. objects["document"] \in {"clean", Absent}
  BY DEF Custody, OnlyCleanBytes
<1>1. CASE Admit(f)
  <2>1. holder = f /\ fin[f].at = "waiting" /\ UNCHANGED objects /\ Provider(f)
    BY <1>1 DEF Admit, At
  <2>2. CASE Admissible(f) /\ Goto(f, "admitted")
    <3>1. session = "open" /\ fin'[f].at = "admitted" /\ \A g \in Requests : g # f => fin'[g] = fin[g]
      BY <2>2, GotoFields DEF Admissible
    <3> QED
      BY <2>1, <3>1 DEF Provider, Rows, Custody, HolderFoundItOpen, Undecided, WorkersHoldTheLock,
         PromotedPathIsPrivate, OnlyCleanBytes, HasPromoted, PromotedIsStored,
         DeletedUnreferenced, ReferencedDocumentIsIntact, Referenced, At
  <2>3. CASE Decide(f, "none")
    <3>1. /\ fin'[f].at = "decided" /\ fin'[f].verdict = "none"
          /\ \A g \in Requests : g # f => fin'[g] = fin[g]
      BY <2>3, DecideFields
    <3> QED
      BY <2>1, <3>1 DEF Provider, Rows, Custody, HolderFoundItOpen, Undecided, WorkersHoldTheLock,
         PromotedPathIsPrivate, OnlyCleanBytes, HasPromoted, PromotedIsStored,
         DeletedUnreferenced, ReferencedDocumentIsIntact, Referenced, At
  <2> QED
    BY <1>1, <2>2, <2>3 DEF Admit
<1>2. CASE Download(f)
  <2>1. Undecided(f) /\ UNCHANGED objects /\ Provider(f)
    BY <1>2 DEF Download, Undecided, At
  <2>2. CASE Decide(f, "rejected")
    BY <1>c, <2>1, <2>2, DecideFields, WorkKeepsCustody DEF HasPromoted, At
  <2>3. CASE /\ objects["staged"] # Absent
             /\ fin' = [fin EXCEPT ![f] = Progress(NextFor(objects["staged"]), FALSE,
                                                   objects["staged"], "none")]
    <3>1. objects["staged"] \in Contents
      BY <1>d, <2>3 DEF Typed, TypeOK
    <3>2. /\ NextFor(objects["staged"]) \in {"promote", "discard", "quarantine"}
          /\ NextFor(objects["staged"]) = "promote" => objects["staged"] = "clean"
      BY <3>1 DEF NextFor, Contents
    <3>3. /\ fin'[f].at = NextFor(objects["staged"]) /\ fin'[f].intake = objects["staged"]
          /\ \A g \in Requests : g # f => fin'[g] = fin[g]
      BY <2>3 DEF Progress, Typed, TypeOK
    <3> QED
      BY <1>c, <2>1, <3>2, <3>3, WorkKeepsCustody DEF HasPromoted, At
  <2> QED
    BY <1>2, <2>2, <2>3 DEF Download
<1>3. CASE Discard(f)
  <2>1. Undecided(f) /\ Provider(f)
    BY <1>3 DEF Discard, Undecided, At
  <2>2. objects'["document"] = objects["document"]
    BY <1>3, <1>d, StoreFields DEF Discard, Delete, DeleteUnconfirmed, Typed, TypeOK, Store
  <2>3. PICK v \in {"rejected", "cleanup_unconfirmed"} : Decide(f, v)
    BY <1>3 DEF Discard
  <2> QED
    BY <1>c, <2>1, <2>2, <2>3, DecideFields, WorkKeepsCustody DEF HasPromoted, At
<1>4. CASE Quarantine(f)
  <2>1. Undecided(f) /\ Provider(f)
    BY <1>4 DEF Quarantine, Undecided, At
  <2>2. objects'["document"] = objects["document"]
    BY <1>4, <1>d, StoreFields
       DEF Quarantine, CreateOnly, SaveFailed, SaveUnknown, Delete, Typed, TypeOK
  <2>3. Goto(f, "moving") \/ Decide(f, "cleanup_unconfirmed")
    BY <1>4 DEF Quarantine
  <2> QED
    BY <1>c, <2>1, <2>2, <2>3, DecideFields, GotoFields, WorkKeepsCustody DEF HasPromoted, At
<1>5. CASE Move(f)
  <2>1. Undecided(f) /\ Provider(f)
    BY <1>5 DEF Move, Undecided, At
  <2>2. objects'["document"] = objects["document"]
    BY <1>5, <1>d, StoreFields DEF Move, Delete, DeleteUnconfirmed, Typed, TypeOK, Store
  <2>3. PICK v \in {"quarantined", "cleanup_unconfirmed"} : Decide(f, v)
    BY <1>5 DEF Move
  <2> QED
    BY <1>c, <2>1, <2>2, <2>3, DecideFields, WorkKeepsCustody DEF HasPromoted, At
<1>6. CASE Promote(f)
  <2>1. Undecided(f) /\ Provider(f) /\ fin[f].intake = "clean"
    BY <1>6 DEF Promote, Undecided, At, Custody, OnlyCleanBytes
  <2>2. CASE UNCHANGED objects /\ Decide(f, "none")
    BY <1>c, <2>1, <2>2, DecideFields, WorkKeepsCustody DEF HasPromoted, At
  <2>3. CASE CreateOnly(f, "document") /\ Goto(f, "source")
    <3>1. objects'["document"] = "clean"
      BY <1>d, <2>1, <2>3, StoreFields DEF CreateOnly
    <3> QED
      BY <2>1, <2>3, <3>1, GotoFields, WorkKeepsCustody DEF HasPromoted, At
  <2>4. CASE SaveFailed("document") /\ Decide(f, "none")
    <3>1. objects'["document"] = Absent
      BY <1>d, <2>4, StoreFields DEF SaveFailed, Delete
    <3> QED
      BY <2>1, <2>4, <3>1, DecideFields, WorkKeepsCustody DEF HasPromoted, At
  <2>5. CASE SaveUnknown(f, "document") /\ Goto(f, "undo")
    <3>1. objects'["document"] \in {"clean", Absent}
      BY <1>d, <1>c, <2>1, <2>5 DEF SaveUnknown, Typed, TypeOK
    <3> QED
      BY <2>1, <2>5, <3>1, GotoFields, WorkKeepsCustody DEF HasPromoted, At
  <2> QED
    BY <1>6, <2>2, <2>3, <2>4, <2>5 DEF Promote
<1>7. CASE DeleteSource(f)
  <2>1. Undecided(f) /\ Provider(f) /\ HasPromoted(f)
    BY <1>7 DEF DeleteSource, Undecided, At, HasPromoted
  <2>2. ~outlived => objects["document"] = "clean"
    BY <2>1 DEF Custody, PromotedIsStored
  <2>3. CASE Delete("staged") /\ Goto(f, "register")
    <3>1. objects'["document"] = objects["document"]
      BY <1>d, <2>3, StoreFields DEF Delete
    <3> QED
      BY <1>c, <2>1, <2>2, <2>3, <3>1, GotoFields, WorkKeepsCustody DEF At
  <2>4. CASE /\ objects' \in {[objects EXCEPT !["document"] = Absent],
                              [objects EXCEPT !["document"] = Absent, !["staged"] = Absent]}
             /\ Decide(f, "none")
    <3>1. objects'["document"] = Absent
      BY <1>d, <2>4 DEF Typed, TypeOK
    <3> QED
      BY <2>1, <2>4, <3>1, DecideFields, WorkKeepsCustody DEF HasPromoted, At
  <2>5. CASE objects' \in {objects, [objects EXCEPT !["staged"] = Absent]} /\ Goto(f, "undo")
    <3>1. objects'["document"] = objects["document"]
      BY <1>d, <2>5 DEF Typed, TypeOK
    <3> QED
      BY <1>c, <2>1, <2>5, <3>1, GotoFields, WorkKeepsCustody DEF HasPromoted, At
  <2> QED
    BY <1>7, <2>3, <2>4, <2>5 DEF DeleteSource
<1>8. CASE Register(f)
  <2>1. Undecided(f) /\ Provider(f) /\ UNCHANGED objects /\ HasPromoted(f)
    BY <1>8 DEF Register, Undecided, At, HasPromoted
  <2>2. ~outlived => objects["document"] = "clean"
    BY <2>1 DEF Custody, PromotedIsStored
  <2>3. Decide(f, "completed") \/ Goto(f, "undo")
    BY <1>8 DEF Register
  <2> QED
    BY <1>c, <2>1, <2>2, <2>3, DecideFields, GotoFields, WorkKeepsCustody
<1>9. CASE Undo(f)
  <2>1. Undecided(f) /\ Provider(f)
    BY <1>9 DEF Undo, Undecided, At
  <2>2. objects'["document"] \in {"clean", Absent}
    BY <1>9, <1>c, <1>d, StoreFields DEF Undo, Delete, DeleteUnconfirmed, Typed, TypeOK
  <2>3. PICK v \in {"none", "cleanup_unconfirmed"} : Decide(f, v)
    BY <1>9 DEF Undo
  <2> QED
    BY <2>1, <2>2, <2>3, DecideFields, WorkKeepsCustody DEF HasPromoted, At
<1>10. CASE Commit(f)
  <2>1. /\ holder = f /\ holder' = NoRequest /\ fin[f].at = "decided"
        /\ UNCHANGED <<objects, linked, intents, cleanup, outlived>>
        /\ session' = (IF fin[f].verdict = "none" THEN session ELSE fin[f].verdict)
        /\ registered' = (registered \/ fin[f].verdict = "completed")
    BY <1>10 DEF Commit, At
  <2>2. fin'[f].at = "idle" /\ \A g \in Requests : g # f => fin'[g] = fin[g]
    BY <1>10 DEF Commit, NotFinalizing, Progress, Typed, TypeOK
  <2>3. ~outlived => \A g \in Requests : g # f => fin[g].at = "idle"
    BY <2>1 DEF Custody, WorkersHoldTheLock, At
  <2>4. CASE fin[f].verdict = "none"
    <3>1. session' = session /\ registered' = registered
      BY <2>1, <2>4 DEF Typed, TypeOK
    <3> QED
      BY <2>1, <2>2, <2>3, <3>1, BoundsAssumption, StartKeepsCustody
  <2>5. CASE fin[f].verdict # "none"
    <3>1. session = "open" /\ cleanup["document"].at = "idle"
      BY <2>1, <2>5 DEF Custody, HolderFoundItOpen, Undecided, At, PromotedPathIsPrivate
    <3>2. fin[f].verdict = "completed" /\ ~outlived => objects["document"] = "clean"
      BY <2>1 DEF Custody, PromotedIsStored, HasPromoted, At
    <3>3. session' = fin[f].verdict
      BY <2>1, <2>5
    <3>4. HolderFoundItOpen' /\ OnlyCleanBytes'
      BY <2>1, <2>2, BoundsAssumption DEF Custody, HolderFoundItOpen, OnlyCleanBytes, At
    <3>5. WorkersHoldTheLock' /\ PromotedIsStored'
      BY <2>1, <2>2, <2>3 DEF WorkersHoldTheLock, PromotedIsStored, HasPromoted, At
    <3>6. PromotedPathIsPrivate'
      BY <2>1, <3>1, <3>3 DEF Custody, PromotedPathIsPrivate
    <3>7. DeletedUnreferenced'
      BY <2>1, <3>1 DEF DeletedUnreferenced
    <3>8. ReferencedDocumentIsIntact'
      BY <2>1, <3>2 DEF Custody, OnlyCleanBytes, ReferencedDocumentIsIntact, Referenced
    <3> QED
      BY <3>4, <3>5, <3>6, <3>7, <3>8 DEF Custody
  <2> QED
    BY <2>4, <2>5
<1>11. CASE Strayed(f)
  <2>1. /\ UNCHANGED <<objects, session, registered, linked, intents, cleanup, holder, outlived>>
        /\ holder # f /\ fin[f].at \in {"waiting", "decided"}
    BY <1>11 DEF Strayed, Provider, Rows
  <2>2. fin'[f].at = "idle" /\ \A g \in Requests : g # f => fin'[g] = fin[g]
    BY <1>11 DEF Strayed, NotFinalizing, Progress, Typed, TypeOK
  <2>3. outlived
    BY <2>1 DEF Custody, WorkersHoldTheLock, At
  <2> QED
    BY <2>1, <2>2, <2>3, StartKeepsCustody
<1> QED
  BY <1>1, <1>2, <1>3, <1>4, <1>5, <1>6, <1>7, <1>8, <1>9, <1>10, <1>11 DEF FinalizeStep

\* Every step keeps custody of the promoted path.
LEMMA CustodyStep == Typed /\ Custody /\ [Next]_vars => Custody'
<1> SUFFICES ASSUME Typed, Custody, [Next]_vars PROVE Custody'
  OBVIOUS
<1>d. /\ "document" \in Paths /\ "staged" \in Paths
      /\ session \in {"none", "open"} => ~registered /\ ~linked
      /\ session \in {"none", "open"} => intents["document"] = <<>>
      /\ session \in {"none", "open"} => cleanup["document"].at = "idle"
  BY DEF Paths, Custody, PromotedPathIsPrivate
<1>1. CASE Issue
  <2>1. \A f \in Requests : ~(holder = f /\ Undecided(f))
    BY <1>1 DEF Issue, Custody, HolderFoundItOpen
  <2> QED
    BY <1>1, <1>d, <2>1, OthersKeepCustody DEF Issue, PromotedPathIsPrivate
<1>2. CASE EndPut
  <2>1. objects'["document"] = objects["document"]
    BY <1>2, <1>d DEF EndPut, Typed, TypeOK
  <2> QED
    BY <1>2, <1>d, <2>1, OthersKeepCustody DEF EndPut, PromotedPathIsPrivate
<1>3. CASE Tick \/ (\E c \in Uploadable : StartPut(c))
  BY <1>3, <1>d, OthersKeepCustody DEF Tick, StartPut, PromotedPathIsPrivate
<1>4. ASSUME NEW f \in Requests, Begin(f) PROVE Custody'
  <2>1. /\ holder = NoRequest /\ holder' = f
        /\ UNCHANGED <<session, objects, registered, linked, intents, cleanup, outlived>>
    BY <1>4 DEF Begin
  <2>2. fin'[f].at = "waiting" /\ \A g \in Requests : g # f => fin'[g] = fin[g]
    BY <1>4 DEF Begin, Progress, Typed, TypeOK
  <2>3. ~outlived => \A g \in Requests : fin[g].at = "idle"
    BY <2>1, BoundsAssumption DEF Custody, WorkersHoldTheLock, At
  <2> QED
    BY <2>1, <2>2, <2>3, StartKeepsCustody
<1>5. ASSUME NEW f \in Requests, FinalizeStep(f) PROVE Custody'
  BY <1>5, FinalizeKeepsCustody
<1>6. ASSUME NEW f \in Requests, Rollback(f) PROVE Custody'
  <2>1. /\ holder = f /\ holder' = NoRequest
        /\ UNCHANGED <<session, objects, registered, linked, intents, cleanup, outlived>>
    BY <1>6 DEF Rollback
  <2>2. fin'[f].at = "idle" /\ \A g \in Requests : g # f => fin'[g] = fin[g]
    BY <1>6 DEF Rollback, NotFinalizing, Progress, Typed, TypeOK
  <2>3. ~outlived => \A g \in Requests : g # f => fin[g].at = "idle"
    BY <2>1 DEF Custody, WorkersHoldTheLock, At
  <2> QED
    BY <2>1, <2>2, <2>3, BoundsAssumption, StartKeepsCustody
<1>7. ASSUME NEW f \in Requests, LoseSession(f) PROVE Custody'
  <2>1. /\ holder' = NoRequest /\ outlived'
        /\ UNCHANGED <<session, objects, registered, linked, intents, cleanup, fin>>
    BY <1>7 DEF LoseSession
  <2>2. HolderFoundItOpen' /\ WorkersHoldTheLock' /\ PromotedIsStored'
    BY <2>1, BoundsAssumption DEF HolderFoundItOpen, WorkersHoldTheLock, PromotedIsStored
  <2>3. PromotedPathIsPrivate' /\ OnlyCleanBytes' /\ DeletedUnreferenced'
    BY <2>1 DEF Custody, PromotedPathIsPrivate, OnlyCleanBytes, DeletedUnreferenced, At
  <2>4. ReferencedDocumentIsIntact'
    BY <2>1 DEF Custody, OnlyCleanBytes, ReferencedDocumentIsIntact, Referenced
  <2> QED
    BY <2>2, <2>3, <2>4 DEF Custody
<1>8. CASE DeleteDocument \/ LinkVaultItem \/ UnlinkVaultItem
  <2>1. session \notin {"none", "open"} /\ session' = session
    BY <1>8, <1>d DEF DeleteDocument, LinkVaultItem, UnlinkVaultItem
  <2>2. PromotedPathIsPrivate'
    BY <2>1 DEF PromotedPathIsPrivate
  <2> QED
    BY <1>8, <2>1, <2>2, OthersKeepCustody DEF DeleteDocument, LinkVaultItem, UnlinkVaultItem
<1>9. CASE Sweep
  <2>1. session' \notin {"none", "open"}
    BY <1>9, Statuses DEF Sweep
  <2>2. \A f \in Requests : holder = f => fin[f].at = "waiting"
    BY <1>9, BoundsAssumption DEF Sweep, LockIsFree, LockedByRequest
  <2>3. ~(\E f \in Requests : holder = f /\ Undecided(f))
    BY <2>2 DEF Undecided
  <2>4. PromotedPathIsPrivate'
    BY <2>1 DEF PromotedPathIsPrivate
  <2> QED
    BY <1>9, <2>1, <2>3, <2>4, OthersKeepCustody DEF Sweep
<1>10. ASSUME NEW p \in Paths, NEW i \in DOMAIN intents[p],
              \/ SettleUntouched(p, i) \/ ReplayDeadLetter(p, i)
              \/ ResolveDeadLetter(p, i) \/ Purge(p, i)
       PROVE  Custody'
  <2>1. PICK row : SetRow(p, i, row)
    BY <1>10 DEF SettleUntouched, SetStatus, SetAttempted, ReplayDeadLetter, ResolveDeadLetter, Purge
  <2>2. /\ UNCHANGED <<fin, holder, outlived, objects, session, registered, linked, cleanup>>
    BY <1>10 DEF SettleUntouched, ReplayDeadLetter, ResolveDeadLetter, Purge, IntentsOnly
  <2>3. PromotedPathIsPrivate'
    <3>1. p = "document" => session \notin {"none", "open"}
      BY <1>d
    <3>2. p # "document" => intents'["document"] = intents["document"]
      BY <2>1, <1>d DEF SetRow, Typed, TypeOK
    <3> QED
      BY <2>2, <3>1, <3>2, <1>d DEF PromotedPathIsPrivate
  <2> QED
    BY <2>2, <2>3, OthersKeepCustody
<1>11. ASSUME NEW p \in Paths, NEW i \in DOMAIN intents[p], StartDeletion(p, i) PROVE Custody'
  <2>1. /\ UNCHANGED <<fin, holder, outlived, objects, session, registered, linked, intents>>
        /\ ~Referenced(p)
    BY <1>11 DEF StartDeletion, IntentsOnly
  <2>2. /\ p = "document" => session \notin {"none", "open"} /\ ~registered /\ ~linked
        /\ p # "document" => cleanup'["document"] = cleanup["document"]
    BY <1>11, <1>d, <2>1 DEF StartDeletion, Referenced, Typed, TypeOK
  <2>3. PromotedPathIsPrivate'
    BY <2>1, <2>2, <1>d DEF PromotedPathIsPrivate
  <2> QED
    BY <2>1, <2>2, <2>3, OthersKeepCustody
<1>12. ASSUME NEW p \in Paths, DeleteObject(p) PROVE Custody'
  <2>1. /\ UNCHANGED <<fin, holder, outlived, session, registered, linked, intents>>
        /\ cleanup[p].at # "idle"
        /\ cleanup' = [cleanup EXCEPT ![p] = cleanup'[p]] /\ cleanup'[p].at # "idle"
    BY <1>12 DEF DeleteObject, Answer, Typed, TypeOK
  <2>2. /\ p # "document" => objects'["document"] = objects["document"]
        /\ objects'["document"] \in {objects["document"], Absent}
    BY <1>12, <1>d DEF DeleteObject, Delete, DeleteUnconfirmed, Store, Typed, TypeOK
  <2>3. CASE p # "document"
    BY <1>d, <2>1, <2>2, <2>3, OthersKeepCustody DEF PromotedPathIsPrivate, Typed, TypeOK
  <2>4. CASE p = "document"
    <3>1. session # "open" /\ session # "none" /\ ~registered /\ ~linked
      BY <1>d, <2>1, <2>4 DEF Custody, DeletedUnreferenced
    <3>2. ~outlived => \A f \in Requests : ~HasPromoted(f)
      BY <3>1, Alone DEF HasPromoted, Undecided, At
    <3>3. PromotedPathIsPrivate' /\ HolderFoundItOpen' /\ WorkersHoldTheLock' /\ DeletedUnreferenced'
      BY <2>1, <3>1 DEF Custody, PromotedPathIsPrivate, HolderFoundItOpen, Undecided,
         WorkersHoldTheLock, DeletedUnreferenced, At
    <3>4. OnlyCleanBytes' /\ PromotedIsStored'
      BY <2>1, <2>2, <3>2 DEF Custody, OnlyCleanBytes, PromotedIsStored, HasPromoted, At
    <3>5. ReferencedDocumentIsIntact'
      BY <2>1, <3>1 DEF ReferencedDocumentIsIntact, Referenced
    <3> QED
      BY <3>3, <3>4, <3>5 DEF Custody
  <2> QED
    BY <2>3, <2>4
<1>13. ASSUME NEW p \in Paths, CommitDeletion(p) \/ RollbackDeletion(p) PROVE Custody'
  <2>1. /\ UNCHANGED <<fin, holder, outlived, objects, session, registered, linked>>
        /\ cleanup[p].at # "idle"
        /\ cleanup' = [cleanup EXCEPT ![p] = NoCleanup]
    BY <1>13 DEF CommitDeletion, RollbackDeletion, IntentsOnly
  <2>2. p # "document" => intents'["document"] = intents["document"]
    BY <1>13, <1>d DEF CommitDeletion, RollbackDeletion, SetAttempted, SetRow, Typed, TypeOK
  <2>3. NoCleanup.at = "idle"
    BY DEF NoCleanup
  <2>4. cleanup'["document"].at # "idle" => cleanup["document"].at # "idle"
    BY <1>d, <2>1, <2>3 DEF Typed, TypeOK
  <2>5. PromotedPathIsPrivate'
    BY <1>d, <2>1, <2>2, <2>4 DEF PromotedPathIsPrivate
  <2> QED
    BY <2>1, <2>4, <2>5, OthersKeepCustody
<1>14. CASE UNCHANGED vars
  BY <1>14, <1>d, OthersKeepCustody DEF vars, PromotedPathIsPrivate
<1> QED
  BY <1>1, <1>2, <1>3, <1>4, <1>5, <1>6, <1>7, <1>8, <1>9, <1>10, <1>11, <1>12, <1>13, <1>14
     DEF Next, TakeUp, FinishDeletion

\* As long as a document or a vault item refers to the promoted path, the provider
\* stores there the very bytes that passed inspection (clientUploadRepository.ts
\* finalize, repository.ts reconcile); a request that outlived its database session
\* can lose them, and even that one cannot put others in their place.
THEOREM DataIsSafe == Spec => []ReferencedDocumentIsIntact
<1>1. Init => Typed /\ Custody
  BY TypedInit, CustodyInit
<1>2. Typed /\ Custody /\ [Next]_vars => (Typed /\ Custody)'
  BY TypedStep, CustodyStep
<1>3. Typed /\ Custody => ReferencedDocumentIsIntact
  BY DEF Custody
<1> QED
  BY <1>1, <1>2, <1>3, PTL DEF Spec
---------------------------------------------------------------------------
(* No copy is out of sight *)

\* Bytes come to the staged path while a sweep of the session is still to come.
UploadsBeforeTheSweep ==
  /\ session = "none" => objects["staged"] = Absent /\ inflight = Absent
  /\ phase = Sweepable => inflight = Absent
  /\ session \notin Sources \union {"none"} => phase = Sweepable
  /\ session \in Sources \union {"none"} => intents["staged"] = <<>>

\* What a reconciliation was told is deleted stays so until it settles its intent.
DeletedStaysDeleted ==
  \A p \in {"staged", "document"} :
     cleanup[p].at = "deleted" /\ (p = "document" => ~outlived) => objects[p] = Absent

\* The copies at the two paths a document moves between.
MovingCopiesAreTracked == Tracked("staged") /\ (~outlived => Tracked("document"))

Sighted == UploadsBeforeTheSweep /\ DeletedStaysDeleted /\ MovingCopiesAreTracked

Open == Waiting \union GivenUp

\* Queueing an intent keeps those there are.
LEMMA EnqueueKeeps ==
  ASSUME Typed, NEW P, Enqueue(P), NEW p \in Paths
  PROVE  /\ HasIntent(p, Open) => HasIntent(p, Open)'
         /\ p \in P => HasIntent(p, Open)'
         /\ p \notin P => intents'[p] = intents[p]
<1>0. Queued \in Intent
  BY BoundsAssumption DEF Queued, Row, Intent, IntentStatus, Waiting
<1>1. intents[p] \in Seq(Intent) /\ Queued \in Intent
  BY <1>0 DEF Typed, TypeOK
<1>2. /\ DOMAIN Append(intents[p], Queued) = 1 .. Len(intents[p]) + 1
      /\ DOMAIN intents[p] = 1 .. Len(intents[p]) /\ Len(intents[p]) \in Nat
      /\ \A i \in 1 .. Len(intents[p]) : Append(intents[p], Queued)[i] = intents[p][i]
      /\ Append(intents[p], Queued)[Len(intents[p]) + 1] = Queued
  BY <1>1
<1>3. intents'[p] = IF p \in P THEN Append(intents[p], Queued) ELSE intents[p]
  BY DEF Enqueue
<1>4. p \in P => HasIntent(p, Open)'
  <2>1. Queued.status \in Open
    BY DEF Queued, Row, Open, Waiting
  <2>2. Len(intents[p]) + 1 \in 1 .. Len(intents[p]) + 1
    BY <1>2
  <2> QED
    BY <1>2, <1>3, <2>1, <2>2 DEF HasIntent
<1> QED
  BY <1>3, <1>4 DEF HasIntent

\* Settling a row loses the path's open intents only if the row is closed by it.
LEMMA RowKeeps ==
  ASSUME Typed, NEW p \in Paths, NEW i \in DOMAIN intents[p], NEW row \in Intent,
         SetRow(p, i, row), NEW q \in Paths,
         q = p => row.status \in Open \/ intents[p][i].status \notin Open
  PROVE  HasIntent(q, Open) => HasIntent(q, Open)'
BY RowTyped DEF HasIntent

\* Initially nothing is stored.
LEMMA SightedInit == Init => Sighted
<1> SUFFICES ASSUME Init PROVE Sighted
  OBVIOUS
<1>1. \A p \in {"staged", "document"} :
         objects[p] = Absent /\ intents[p] = <<>> /\ cleanup[p].at = "idle"
  BY DEF Init, Paths, NoCleanup
<1>2. session = "none" /\ inflight = Absent /\ phase # Sweepable
  BY DEF Init, UrlOpen, Sweepable
<1> QED
  BY <1>1, <1>2 DEF Sighted, UploadsBeforeTheSweep, DeletedStaysDeleted, MovingCopiesAreTracked, Tracked

\* A request's step: bytes come to the promoted path only while the session is open.
LEMMA WorkKeepsSight ==
  ASSUME Typed, Custody, Sighted, NEW f \in Requests, Undecided(f), Provider(f),
         objects'["staged"] \in {objects["staged"], Absent}
  PROVE  Sighted'
<1>1. UNCHANGED <<session, phase, inflight, registered, linked, intents, cleanup, outlived>>
  BY DEF Provider, Rows
<1>2. UploadsBeforeTheSweep'
  BY <1>1 DEF Sighted, UploadsBeforeTheSweep
<1>3. ~outlived => session = "open" /\ cleanup["document"].at = "idle"
  BY Alone
<1>4. DeletedStaysDeleted'
  BY <1>1, <1>3 DEF Sighted, DeletedStaysDeleted
<1>5. Tracked("staged")'
  BY <1>1 DEF Sighted, MovingCopiesAreTracked, Tracked, Referenced, AwaitsSweep, HasIntent
<1>6. ~outlived => Tracked("document")'
  BY <1>1, <1>3, Statuses DEF Tracked, AwaitsSweep, PathsToSweep
<1> QED
  BY <1>1, <1>2, <1>4, <1>5, <1>6 DEF Sighted, MovingCopiesAreTracked

\* Settling a row: a copy whose intent is closed is referred to or gone.
LEMMA SettleKeepsSight ==
  ASSUME Typed, Sighted, NEW p \in Paths, NEW i \in DOMAIN intents[p], NEW row \in Intent,
         SetRow(p, i, row),
         UNCHANGED <<session, phase, objects, inflight, registered, linked, outlived>>,
         \A q \in Paths : cleanup'[q].at = "deleted" => cleanup[q].at = "deleted",
         \/ row.status \in Open
         \/ intents[p][i].status \notin Open
         \/ Referenced(p)
         \/ cleanup[p].at = "deleted"
  PROVE  Sighted'
<1>1. {"staged", "document"} \subseteq Paths
  BY DEF Paths
<1>2. session \in Sources \union {"none"} => intents'["staged"] = intents["staged"]
  <2>1. CASE p = "staged"
    BY <2>1 DEF Sighted, UploadsBeforeTheSweep
  <2>2. CASE p # "staged"
    BY <2>2, <1>1 DEF SetRow, Typed, TypeOK
  <2> QED
    BY <2>1, <2>2
<1>3. /\ \A q \in Paths : Referenced(q)' = Referenced(q)
      /\ \A q \in Paths : AwaitsSweep(q)' = AwaitsSweep(q)
  BY DEF Referenced, AwaitsSweep
<1>4. ASSUME NEW q \in {"staged", "document"}, q = "document" => ~outlived, Tracked(q)
      PROVE  Tracked(q)'
  <2>1. CASE Referenced(q) \/ AwaitsSweep(q)
    BY <2>1, <1>1, <1>3 DEF Tracked
  <2>2. CASE q = p /\ cleanup[p].at = "deleted"
    BY <2>2, <1>4 DEF Sighted, DeletedStaysDeleted, Tracked
  <2>3. CASE q = p => row.status \in Open \/ intents[p][i].status \notin Open
    <3>1. HasIntent(q, Open) => HasIntent(q, Open)'
      BY <1>1, <2>3, RowKeeps
    <3> QED
      BY <1>1, <1>3, <1>4, <3>1 DEF Tracked, Open
  <2> QED
    BY <2>1, <2>2, <2>3
<1>5. UploadsBeforeTheSweep'
  BY <1>2 DEF Sighted, UploadsBeforeTheSweep
<1>6. DeletedStaysDeleted'
  BY <1>1 DEF Sighted, DeletedStaysDeleted
<1> QED
  BY <1>4, <1>5, <1>6 DEF Sighted, MovingCopiesAreTracked

\* Every step keeps the copies in sight.
LEMMA SightedStep == Typed /\ Custody /\ Sighted /\ [Next]_vars => Sighted'
<1> SUFFICES ASSUME Typed, Custody, Sighted, [Next]_vars PROVE Sighted'
  OBVIOUS
<1>d. /\ {"document", "staged"} \subseteq Paths /\ "quarantine" \in Paths
      /\ "document" # "staged"
  BY DEF Paths
<1>a. \A p \in {"document", "staged"} : session = "open" => AwaitsSweep(p)
  BY Statuses DEF AwaitsSweep, PathsToSweep
<1>1. CASE Issue
  <2>1. session' = "open" /\ session = "none" /\ UNCHANGED <<phase, objects, inflight, intents, cleanup, outlived>>
    BY <1>1 DEF Issue
  <2>2. \A p \in {"document", "staged"} : Tracked(p)'
    BY <2>1, Statuses DEF Tracked, AwaitsSweep, PathsToSweep
  <2> QED
    BY <2>1, <2>2, Statuses DEF Sighted, UploadsBeforeTheSweep, DeletedStaysDeleted, MovingCopiesAreTracked
<1>2. CASE EndPut
  <2>1. /\ UNCHANGED <<session, phase, registered, linked, intents, cleanup, outlived>>
        /\ inflight # Absent /\ inflight' = Absent /\ objects'["document"] = objects["document"]
    BY <1>2, <1>d DEF EndPut, Typed, TypeOK
  <2>2. session \in Sources
    BY <2>1 DEF Sighted, UploadsBeforeTheSweep
  <2>3. cleanup["staged"].at = "idle"
    BY <1>d, <2>2 DEF Sighted, UploadsBeforeTheSweep, Typed, RowInHand
  <2>4. DeletedStaysDeleted' /\ UploadsBeforeTheSweep'
    BY <2>1, <2>2, <2>3, Statuses DEF Sighted, DeletedStaysDeleted, UploadsBeforeTheSweep
  <2>5. Tracked("staged")'
    BY <2>1, <2>2 DEF Tracked, Referenced
  <2>6. Tracked("document") => Tracked("document")'
    BY <2>1 DEF Tracked, Referenced, AwaitsSweep, HasIntent
  <2> QED
    BY <2>1, <2>4, <2>5, <2>6 DEF Sighted, MovingCopiesAreTracked
<1>3. CASE Tick \/ (\E c \in Uploadable : StartPut(c))
  <2>1. UNCHANGED <<session, objects, registered, linked, intents, cleanup, outlived>> /\ session # "none"
    BY <1>3 DEF Tick, StartPut
  <2>2. DeletedStaysDeleted' /\ MovingCopiesAreTracked'
    BY <2>1 DEF Sighted, DeletedStaysDeleted, MovingCopiesAreTracked, Tracked, Referenced, AwaitsSweep, HasIntent
  <2>3. UploadsBeforeTheSweep'
    <3>1. phase \in 0 .. 3
      BY DEF Typed, TypeOK, Phases, UrlOpen, Sweepable
    <3>2. CASE Tick
      BY <2>1, <3>1, <3>2 DEF Tick, Sighted, UploadsBeforeTheSweep, Sweepable, InGrace
    <3>3. ASSUME NEW c \in Uploadable, StartPut(c) PROVE UploadsBeforeTheSweep'
      BY <2>1, <3>3 DEF StartPut, Sighted, UploadsBeforeTheSweep, Sweepable, UrlOpen
    <3> QED
      BY <1>3, <3>2, <3>3
  <2> QED
    BY <2>2, <2>3 DEF Sighted
<1>4. ASSUME NEW f \in Requests, Begin(f) \/ Rollback(f) \/ Admit(f) \/ Strayed(f) PROVE Sighted'
  <2>1. UNCHANGED <<session, phase, objects, inflight, registered, linked, intents, cleanup, outlived>>
    BY <1>4 DEF Begin, Rollback, Admit, Strayed, Provider, Rows
  <2> QED
    BY <2>1 DEF Sighted, UploadsBeforeTheSweep, DeletedStaysDeleted, MovingCopiesAreTracked, Tracked,
       Referenced, AwaitsSweep, HasIntent
<1>5. ASSUME NEW f \in Requests, LoseSession(f) PROVE Sighted'
  <2>1. /\ UNCHANGED <<session, phase, objects, inflight, registered, linked, intents, cleanup>>
        /\ outlived'
    BY <1>5 DEF LoseSession
  <2> QED
    BY <2>1 DEF Sighted, UploadsBeforeTheSweep, DeletedStaysDeleted, MovingCopiesAreTracked, Tracked,
       Referenced, AwaitsSweep, HasIntent
<1>6. ASSUME NEW f \in Requests,
             \/ Download(f) \/ Discard(f) \/ Quarantine(f) \/ Move(f) \/ Promote(f)
             \/ DeleteSource(f) \/ Register(f) \/ Undo(f)
      PROVE  Sighted'
  <2>1. Undecided(f) /\ Provider(f)
    BY <1>6 DEF Download, Discard, Quarantine, Move, Promote, DeleteSource, Register, Undo,
       Undecided, At
  <2>2. ASSUME Download(f) \/ Register(f) PROVE objects'["staged"] \in {objects["staged"], Absent}
    BY <2>2 DEF Download, Register
  <2>3. ASSUME Discard(f) \/ Move(f) PROVE objects'["staged"] \in {objects["staged"], Absent}
    BY <2>3, <1>d DEF Discard, Move, Delete, DeleteUnconfirmed, Store, Typed, TypeOK
  <2>4. ASSUME Quarantine(f) \/ Promote(f) PROVE objects'["staged"] \in {objects["staged"], Absent}
    BY <2>4, <1>d DEF Quarantine, Promote, CreateOnly, SaveFailed, SaveUnknown, Delete, Store, Typed, TypeOK
  <2>5. ASSUME DeleteSource(f) \/ Undo(f) PROVE objects'["staged"] \in {objects["staged"], Absent}
    BY <2>5, <1>d DEF DeleteSource, Undo, Delete, DeleteUnconfirmed, Store, Typed, TypeOK
  <2>6. objects'["staged"] \in {objects["staged"], Absent}
    BY <1>6, <2>2, <2>3, <2>4, <2>5
  <2> QED
    BY <2>1, <2>6, WorkKeepsSight
<1>7. ASSUME NEW f \in Requests, Commit(f) PROVE Sighted'
  <2>1. /\ UNCHANGED <<phase, objects, inflight, linked, intents, cleanup, outlived>>
        /\ holder = f /\ fin[f].at = "decided"
        /\ session' = (IF fin[f].verdict = "none" THEN session ELSE fin[f].verdict)
        /\ registered' = (registered \/ fin[f].verdict = "completed")
    BY <1>7 DEF Commit, At
  <2>2. CASE fin[f].verdict = "none"
    <3>1. session' = session /\ (registered => registered')
      BY <2>1, <2>2
    <3> QED
      BY <2>1, <3>1 DEF Sighted, UploadsBeforeTheSweep, DeletedStaysDeleted, MovingCopiesAreTracked,
         Tracked, Referenced, AwaitsSweep, HasIntent
  <2>3. CASE fin[f].verdict # "none"
    <3>1. session = "open" /\ session' = fin[f].verdict /\ fin[f].verdict \in Sources
      BY <2>1, <2>3 DEF Custody, HolderFoundItOpen, Undecided, At, Typed, TypeOK, Finalize
    <3>2. UploadsBeforeTheSweep' /\ DeletedStaysDeleted'
      BY <2>1, <3>1, Statuses DEF Sighted, UploadsBeforeTheSweep, DeletedStaysDeleted
    <3>3. Tracked("staged")'
      BY <3>1 DEF Tracked, Referenced
    <3>4. Tracked("document")'
      BY <2>1, <3>1 DEF Tracked, Referenced, AwaitsSweep, PathsToSweep
    <3> QED
      BY <3>2, <3>3, <3>4 DEF Sighted, MovingCopiesAreTracked
  <2> QED
    BY <2>2, <2>3
<1>8. CASE DeleteDocument \/ UnlinkVaultItem \/ LinkVaultItem
  <2>1. UNCHANGED <<session, phase, objects, inflight, cleanup, outlived>>
    BY <1>8 DEF DeleteDocument, UnlinkVaultItem, LinkVaultItem
  <2>2. \/ Enqueue({"document"})
        \/ UNCHANGED intents /\ (registered \/ linked => registered' \/ linked')
        \/ Enqueue({}) /\ linked'
    BY <1>8 DEF DeleteDocument, UnlinkVaultItem, LinkVaultItem
  <2>3. \A p \in Paths : HasIntent(p, Open) => HasIntent(p, Open)'
    BY <2>2, EnqueueKeeps DEF HasIntent
  <2>4. intents'["staged"] = intents["staged"]
    BY <1>d, <2>2, EnqueueKeeps
  <2>5. Tracked("staged")'
    BY <2>1, <2>4 DEF Sighted, MovingCopiesAreTracked, Tracked, Referenced, AwaitsSweep, HasIntent
  <2>6. Tracked("document") => Tracked("document")'
    <3>1. CASE Enqueue({"document"})
      BY <1>d, <3>1, EnqueueKeeps DEF Tracked, Open
    <3>2. CASE registered \/ linked => registered' \/ linked'
      BY <1>d, <2>1, <2>3, <3>2 DEF Tracked, Referenced, AwaitsSweep, Open
    <3> QED
      BY <2>2, <3>1, <3>2
  <2>7. UploadsBeforeTheSweep' /\ DeletedStaysDeleted'
    BY <2>1, <2>4 DEF Sighted, UploadsBeforeTheSweep, DeletedStaysDeleted
  <2> QED
    BY <2>1, <2>5, <2>6, <2>7 DEF Sighted, MovingCopiesAreTracked
<1>9. CASE Sweep
  <2>1. /\ UNCHANGED <<phase, objects, inflight, registered, linked, cleanup, outlived>>
        /\ phase = Sweepable /\ session' \notin Sources \union {"none"}
        /\ Enqueue(PathsToSweep(session)) /\ session \in Sources
    BY <1>9, Statuses DEF Sweep
  <2>2. Tracked("staged")'
    BY <1>d, <2>1, EnqueueKeeps DEF Tracked, PathsToSweep, Open
  <2>3. Tracked("document") => Tracked("document")'
    BY <1>d, <2>1, EnqueueKeeps DEF Tracked, Referenced, AwaitsSweep, Open
  <2>4. UploadsBeforeTheSweep' /\ DeletedStaysDeleted'
    BY <2>1 DEF Sighted, UploadsBeforeTheSweep, DeletedStaysDeleted
  <2> QED
    BY <2>1, <2>2, <2>3, <2>4 DEF Sighted, MovingCopiesAreTracked
<1>10. ASSUME NEW p \in Paths, NEW i \in DOMAIN intents[p], SettleUntouched(p, i) PROVE Sighted'
  <2>1. /\ Row("dead_letter", intents[p][i].attempts, intents[p][i].replays) \in Intent
        /\ ~Exhausted(p, i) =>
             Row("cancelled", intents[p][i].attempts + 1, intents[p][i].replays) \in Intent
    BY RowFields, BoundsAssumption DEF Row, Intent, IntentStatus, Exhausted
  <2>2. PICK row \in Intent : SetRow(p, i, row) /\ (row.status \in Open \/ Referenced(p))
    BY <1>10, <2>1 DEF SettleUntouched, SetStatus, SetAttempted, Row, Open, GivenUp
  <2> QED
    BY <1>10, <2>2, SettleKeepsSight DEF SettleUntouched, IntentsOnly
<1>11. ASSUME NEW p \in Paths, NEW i \in DOMAIN intents[p], ReplayDeadLetter(p, i) PROVE Sighted'
  <2>1. Row("queued", 0, intents[p][i].replays + 1) \in Intent
    BY <1>11, RowFields, BoundsAssumption DEF ReplayDeadLetter, Row, Intent, IntentStatus, Waiting
  <2>2. Row("queued", 0, intents[p][i].replays + 1).status \in Open
    BY DEF Row, Open, Waiting
  <2> QED
    BY <1>11, <2>1, <2>2, SettleKeepsSight DEF ReplayDeadLetter
<1>12. ASSUME NEW p \in Paths, NEW i \in DOMAIN intents[p], ResolveDeadLetter(p, i) PROVE Sighted'
  <2>1. Row("resolved", intents[p][i].attempts, intents[p][i].replays) \in Intent
    BY RowFields DEF Row, Intent, IntentStatus
  <2>2. Row("resolved", intents[p][i].attempts, intents[p][i].replays).status \in Open
    BY DEF Row, Open, GivenUp
  <2> QED
    BY <1>12, <2>1, <2>2, SettleKeepsSight DEF ResolveDeadLetter, SetStatus, IntentsOnly
<1>13. ASSUME NEW p \in Paths, NEW i \in DOMAIN intents[p], Purge(p, i) PROVE Sighted'
  <2>1. Row("purged", 0, 0) \in Intent
    BY BoundsAssumption DEF Row, Intent, IntentStatus
  <2>2. intents[p][i].status \notin Open
    BY <1>13 DEF Purge, Open, Waiting, GivenUp
  <2> QED
    BY <1>13, <2>1, <2>2, SettleKeepsSight DEF Purge, IntentsOnly
<1>14. ASSUME NEW p \in Paths,
              DeleteObject(p) \/ RollbackDeletion(p) \/ \E i \in DOMAIN intents[p] : StartDeletion(p, i)
       PROVE Sighted'
  <2>1. /\ UNCHANGED <<session, phase, inflight, registered, linked, intents, outlived>>
        /\ \A q \in Paths : objects'[q] \in {objects[q], Absent}
    BY <1>14 DEF DeleteObject, RollbackDeletion, StartDeletion, IntentsOnly, Delete, DeleteUnconfirmed,
       Store, Typed, TypeOK
  <2>2. \A q \in Paths : cleanup'[q].at = "deleted" => cleanup[q].at = "deleted" \/ objects'[q] = Absent
    <3>1. CASE RollbackDeletion(p)
      BY <3>1 DEF RollbackDeletion, NoCleanup, Typed, TypeOK
    <3>0. ASSUME NEW i \in DOMAIN intents[p], StartDeletion(p, i)
          PROVE  \A q \in Paths : cleanup'[q].at = "deleted" => cleanup[q].at = "deleted"
      BY <3>0 DEF StartDeletion, Typed, TypeOK
    <3>2. CASE Delete(p) /\ Answer(p, "deleted")
      BY <3>2 DEF Delete, Store, Answer, Typed, TypeOK
    <3>3. CASE Answer(p, "unconfirmed")
      BY <3>3 DEF Answer, Typed, TypeOK
    <3> QED
      BY <1>14, <3>0, <3>1, <3>2, <3>3 DEF DeleteObject
  <2>3. \A q \in {"staged", "document"} : Tracked(q) => Tracked(q)'
    BY <1>d, <2>1 DEF Tracked, Referenced, AwaitsSweep, HasIntent
  <2> QED
    <3>1. UploadsBeforeTheSweep'
      BY <1>d, <2>1 DEF Sighted, UploadsBeforeTheSweep
    <3>2. DeletedStaysDeleted'
      BY <1>d, <2>1, <2>2 DEF Sighted, DeletedStaysDeleted
    <3> QED
      BY <2>1, <2>3, <3>1, <3>2 DEF Sighted, MovingCopiesAreTracked
<1>15. ASSUME NEW p \in Paths, CommitDeletion(p) PROVE Sighted'
  <2> DEFINE i == cleanup[p].intent
  <2>1. /\ i \in DOMAIN intents[p] /\ intents[p][i].attempts < MaximumAttempts
        /\ intents[p][i].attempts \in Nat
    BY <1>15, RowFields DEF CommitDeletion, Typed, RowInHand
  <2>2. PICK s \in {"completed", "dead_letter", "retry_wait"} :
           SetAttempted(p, i, s) /\ (s = "completed" => cleanup[p].at = "deleted")
    BY <1>15 DEF CommitDeletion, AfterFailure
  <2>3. Row(s, intents[p][i].attempts + 1, intents[p][i].replays) \in Intent
    BY <2>1, RowFields, BoundsAssumption DEF Row, Intent, IntentStatus, Waiting
  <2>4. \/ Row(s, intents[p][i].attempts + 1, intents[p][i].replays).status \in Open
        \/ cleanup[p].at = "deleted"
    BY <2>2 DEF Row, Open, Waiting, GivenUp
  <2>5. \A q \in Paths : cleanup'[q].at = "deleted" => cleanup[q].at = "deleted"
    BY <1>15 DEF CommitDeletion, NoCleanup, Typed, TypeOK
  <2> HIDE DEF i
  <2> QED
    BY <1>15, <2>1, <2>2, <2>3, <2>4, <2>5, SettleKeepsSight
       DEF SetAttempted, CommitDeletion, IntentsOnly
<1>16. CASE UNCHANGED vars
  BY <1>16 DEF vars, Sighted, UploadsBeforeTheSweep, DeletedStaysDeleted, MovingCopiesAreTracked,
     Tracked, Referenced, AwaitsSweep, HasIntent
<1> QED
  BY <1>1, <1>2, <1>3, <1>4, <1>5, <1>6, <1>7, <1>8, <1>9, <1>10, <1>11, <1>12, <1>13, <1>14,
     <1>15, <1>16 DEF Next, FinalizeStep, TakeUp, FinishDeletion

---------------------------------------------------------------------------
(* The quarantined copy *)

\* Without a fault only the request that made the copy, or a session settled by
\* such a request, knows a quarantined copy.
Quarantining(f) ==
  \/ At(f, "moving")
  \/ At(f, "decided") /\ fin[f].verdict \in {"quarantined", "cleanup_unconfirmed"}
CopyHasItsRequest ==
  objects["quarantine"] # Absent /\ (session \in {"none", "open"} \/ SettledWithoutQuarantine) =>
    session = "open" /\ \E f \in Requests : holder = f /\ Quarantining(f)
WithoutFaults == spent["faults"] = 0 => ~outlived /\ CopyHasItsRequest

\* No reconciliation looks at the path before the sweep, and what one was told
\* is deleted stays so until it settles its intent.
QuarantineIsLeftAlone ==
  /\ session \in Sources \union {"none"} => intents["quarantine"] = <<>>
  /\ cleanup["quarantine"].at = "deleted" /\ ~outlived => objects["quarantine"] = Absent

QuarantineSighted ==
  /\ WithoutFaults
  /\ QuarantineIsLeftAlone
  /\ ~outlived /\ ~QuarantineIsForgotten => Tracked("quarantine")

\* Initially nothing is stored.
LEMMA QuarantineInit == Init => QuarantineSighted
<1> SUFFICES ASSUME Init PROVE QuarantineSighted
  OBVIOUS
<1>1. /\ objects["quarantine"] = Absent /\ intents["quarantine"] = <<>>
      /\ cleanup["quarantine"].at = "idle" /\ ~outlived
  BY DEF Init, Paths, NoCleanup
<1> QED
  BY <1>1 DEF QuarantineSighted, WithoutFaults, CopyHasItsRequest, QuarantineIsLeftAlone, Tracked

\* Steps after which there is no other copy than before, and whoever knew of it still does.
LEMMA QuarantineUntouched ==
  ASSUME QuarantineSighted,
         objects'["quarantine"] \in {objects["quarantine"], Absent},
         cleanup'["quarantine"].at = "deleted" =>
           cleanup["quarantine"].at = "deleted" \/ objects'["quarantine"] = Absent,
         UNCHANGED session,
         intents'["quarantine"] = intents["quarantine"] \/ intents["quarantine"] # <<>>,
         HasIntent("quarantine", Open) /\ objects'["quarantine"] # Absent /\ ~outlived'
           => HasIntent("quarantine", Open)',
         outlived => outlived',
         spent'["faults"] # 0 \/ (spent'["faults"] = spent["faults"] /\ outlived' = outlived),
         spent["faults"] > 0 => spent'["faults"] > 0,
         spent'["faults"] = 0 => CopyHasItsRequest'
  PROVE  QuarantineSighted'
<1>1. WithoutFaults'
  BY DEF QuarantineSighted, WithoutFaults
<1>2. QuarantineIsLeftAlone'
  BY DEF QuarantineSighted, QuarantineIsLeftAlone
<1>3. ~outlived' /\ ~QuarantineIsForgotten' => Tracked("quarantine")'
  BY DEF QuarantineSighted, QuarantineIsForgotten, SettledWithoutQuarantine, Tracked, Referenced,
     AwaitsSweep, Open
<1> QED
  BY <1>1, <1>2, <1>3 DEF QuarantineSighted

\* A request at work, which is alone with the session if nobody outlived his, makes a
\* copy only to go on as the one that made it.
LEMMA WorkInQuarantine ==
  ASSUME Typed, Custody, QuarantineSighted, NEW f \in Requests, Undecided(f), Provider(f),
         \A g \in Requests : g # f => fin'[g] = fin[g],
         \/ objects'["quarantine"] = objects["quarantine"] /\ ~Quarantining(f)
         \/ Quarantining(f)'
  PROVE  QuarantineSighted'
<1>1. UNCHANGED <<session, registered, linked, intents, cleanup, holder, outlived, spent>>
  BY DEF Provider, Rows
<1>q. "quarantine" \in Paths
  BY DEF Paths
<1>2. CASE outlived
  <2>1. spent["faults"] # 0
    BY <1>2 DEF QuarantineSighted, WithoutFaults
  <2> QED
    BY <1>1, <1>2, <2>1 DEF QuarantineSighted, WithoutFaults, QuarantineIsLeftAlone
<1>3. CASE ~outlived
  <2>1. holder = f /\ session = "open"
    BY <1>3, Alone
  <2>2. intents["quarantine"] = <<>>
    BY <2>1, Statuses DEF QuarantineSighted, QuarantineIsLeftAlone
  <2>3. cleanup["quarantine"].at = "idle"
    BY <1>q, <2>2 DEF Typed, RowInHand
  <2>4. CopyHasItsRequest' \/ spent["faults"] # 0
    <3>1. CASE Quarantining(f)'
      BY <1>1, <2>1, <3>1 DEF CopyHasItsRequest
    <3>2. CASE objects'["quarantine"] = objects["quarantine"] /\ ~Quarantining(f)
      <4>1. spent["faults"] = 0 => objects["quarantine"] = Absent
        BY <2>1, <3>2 DEF QuarantineSighted, WithoutFaults, CopyHasItsRequest
      <4> QED
        BY <3>2, <4>1 DEF CopyHasItsRequest
    <3> QED
      BY <3>1, <3>2
  <2>5. Tracked("quarantine")'
    BY <1>1, <2>1, Statuses DEF Tracked, AwaitsSweep, PathsToSweep
  <2> QED
    BY <1>1, <1>3, <2>2, <2>3, <2>4, <2>5
       DEF QuarantineSighted, WithoutFaults, QuarantineIsLeftAlone
<1> QED
  BY <1>2, <1>3

\* A copy whose session and request stay as they are keeps them.
LEMMA RequestKeepsCopy ==
  ASSUME QuarantineSighted, objects'["quarantine"] \in {objects["quarantine"], Absent},
         UNCHANGED session, spent["faults"] = 0,
         \A f \in Requests : holder = f /\ Quarantining(f) => (holder = f /\ Quarantining(f))'
  PROVE  CopyHasItsRequest'
BY DEF QuarantineSighted, WithoutFaults, CopyHasItsRequest, SettledWithoutQuarantine

\* Settling a row loses sight of a copy only if it is gone.
LEMMA SettleKeepsQuarantine ==
  ASSUME Typed, QuarantineSighted, NEW p \in Paths, NEW i \in DOMAIN intents[p], NEW row \in Intent,
         SetRow(p, i, row),
         UNCHANGED <<session, objects, fin, holder, outlived>>, spent'["faults"] = spent["faults"],
         \A q \in Paths : cleanup'[q].at = "deleted" => cleanup[q].at = "deleted",
         \/ row.status \in Open
         \/ intents[p][i].status \notin Open
         \/ Referenced(p)
         \/ cleanup[p].at = "deleted"
  PROVE  QuarantineSighted'
<1>q. "quarantine" \in Paths
  BY DEF Paths
<1>1. intents'["quarantine"] = intents["quarantine"] \/ intents["quarantine"] # <<>>
  <2>1. p # "quarantine" => intents'["quarantine"] = intents["quarantine"]
    BY <1>q DEF SetRow, Typed, TypeOK
  <2> QED
    BY <2>1
<1>2. HasIntent("quarantine", Open) /\ objects'["quarantine"] # Absent /\ ~outlived'
        => HasIntent("quarantine", Open)'
  <2>1. CASE p = "quarantine" /\ cleanup[p].at = "deleted"
    BY <2>1 DEF QuarantineSighted, QuarantineIsLeftAlone
  <2>2. CASE p = "quarantine" => row.status \in Open \/ intents[p][i].status \notin Open
    BY <1>q, <2>2, RowKeeps
  <2>3. CASE p = "quarantine" /\ Referenced(p)
    BY <2>3 DEF Referenced
  <2> QED
    BY <2>1, <2>2, <2>3
<1>3. spent["faults"] = 0 => CopyHasItsRequest'
  BY RequestKeepsCopy DEF Quarantining, At
<1> QED
  BY <1>q, <1>1, <1>2, <1>3, QuarantineUntouched

\* Every step keeps the quarantined copy in sight, as far as the code does.
LEMMA QuarantineStep ==
  Typed /\ Custody /\ QuarantineSighted /\ [Next]_vars => QuarantineSighted'
<1> SUFFICES ASSUME Typed, Custody, QuarantineSighted, [Next]_vars PROVE QuarantineSighted'
  OBVIOUS
<1>q. /\ "quarantine" \in Paths /\ "staged" \in Paths /\ "document" \in Paths
      /\ Resources = {"uploads", "faults", "links", "replays"}
      /\ spent \in [Resources -> Nat]
  BY DEF Paths, Resources, Typed, TypeOK
<1>s. ASSUME NEW r \in Resources, Spend(r)
      PROVE  /\ r = "faults" => spent'["faults"] > 0
             /\ r # "faults" => spent'["faults"] = spent["faults"]
  BY <1>q, <1>s DEF Spend
<1>1. CASE Issue
  <2>1. session' = "open" /\ session = "none"
        /\ UNCHANGED <<objects, intents, fin, holder, cleanup, outlived, spent>>
    BY <1>1 DEF Issue
  <2>2. Tracked("quarantine")'
    BY <2>1, Statuses DEF Tracked, AwaitsSweep, PathsToSweep
  <2>3. spent["faults"] = 0 => objects["quarantine"] = Absent
    BY <2>1 DEF QuarantineSighted, WithoutFaults, CopyHasItsRequest
  <2> QED
    BY <2>1, <2>2, <2>3 DEF QuarantineSighted, WithoutFaults, CopyHasItsRequest, QuarantineIsLeftAlone
<1>2. CASE EndPut \/ Tick \/ (\E c \in Uploadable : StartPut(c)) \/ LinkVaultItem
  <2>1. /\ UNCHANGED <<session, intents, fin, holder, cleanup, outlived>>
        /\ objects'["quarantine"] = objects["quarantine"]
    BY <1>2, <1>q DEF EndPut, Tick, StartPut, LinkVaultItem, Typed, TypeOK
  <2>2. spent'["faults"] = spent["faults"]
    BY <1>2, <1>q, <1>s DEF EndPut, Tick, StartPut, LinkVaultItem
  <2>3. spent["faults"] = 0 => CopyHasItsRequest'
    BY <2>1, RequestKeepsCopy DEF Quarantining, At
  <2>4. HasIntent("quarantine", Open) => HasIntent("quarantine", Open)'
    BY <2>1 DEF HasIntent
  <2> QED
    BY <2>1, <2>2, <2>3, <2>4, QuarantineUntouched
<1>3. ASSUME NEW f \in Requests, Begin(f) \/ Admit(f) \/ Strayed(f) PROVE QuarantineSighted'
  <2>1. UNCHANGED <<session, objects, intents, cleanup, outlived, spent>>
    BY <1>3 DEF Begin, Admit, Strayed, Provider, Rows
  <2>2. ASSUME NEW g \in Requests, holder = g, Quarantining(g)
        PROVE  (holder = g /\ Quarantining(g))'
    <3>1. CASE Begin(f)
      BY <2>2, <3>1, BoundsAssumption DEF Begin
    <3>2. CASE Admit(f)
      BY <2>2, <3>2 DEF Admit, Quarantining, At
    <3>3. CASE Strayed(f)
      <4>1. holder' = holder /\ fin'[g] = fin[g]
        BY <2>2, <3>3 DEF Strayed, Provider, Rows, Typed, TypeOK
      <4> QED
        BY <2>2, <4>1 DEF Quarantining, At
    <3> QED
      BY <1>3, <3>1, <3>2, <3>3
  <2>3. spent["faults"] = 0 => CopyHasItsRequest'
    BY <2>1, <2>2, RequestKeepsCopy
  <2>4. HasIntent("quarantine", Open) => HasIntent("quarantine", Open)'
    BY <2>1 DEF HasIntent
  <2> QED
    BY <2>1, <2>3, <2>4, QuarantineUntouched
<1>4. ASSUME NEW f \in Requests, Rollback(f) \/ LoseSession(f) PROVE QuarantineSighted'
  <2>1. UNCHANGED <<session, objects, intents, cleanup>> /\ (outlived => outlived')
        /\ spent'["faults"] > 0
    BY <1>4, <1>q, <1>s DEF Rollback, LoseSession
  <2>2. HasIntent("quarantine", Open) => HasIntent("quarantine", Open)'
    BY <2>1 DEF HasIntent
  <2> QED
    BY <2>1, <2>2, QuarantineUntouched
<1>5. ASSUME NEW f \in Requests,
             Download(f) \/ Discard(f) \/ Promote(f) \/ DeleteSource(f) \/ Register(f) \/ Undo(f)
      PROVE  QuarantineSighted'
  <2>1. Undecided(f) /\ Provider(f) /\ ~Quarantining(f)
    BY <1>5 DEF Download, Discard, Promote, DeleteSource, Register, Undo, Undecided, Quarantining, At
  <2>2. ASSUME Download(f) \/ Register(f) PROVE objects' = objects
    BY <2>2 DEF Download, Register
  <2>3. ASSUME Discard(f) \/ DeleteSource(f) \/ Undo(f)
        PROVE  objects'["quarantine"] = objects["quarantine"]
    BY <2>3, <1>q DEF Discard, DeleteSource, Undo, Delete, DeleteUnconfirmed, Store, Typed, TypeOK
  <2>4. ASSUME Promote(f) PROVE objects'["quarantine"] = objects["quarantine"]
    BY <2>4, <1>q DEF Promote, CreateOnly, SaveFailed, SaveUnknown, Delete, Store, Typed, TypeOK
  <2>5. \A g \in Requests : g # f => fin'[g] = fin[g]
    BY <1>5 DEF Download, Discard, Promote, DeleteSource, Register, Undo, Decide, Goto, Typed, TypeOK
  <2> QED
    BY <1>5, <2>1, <2>2, <2>3, <2>4, <2>5, WorkInQuarantine
<1>6. ASSUME NEW f \in Requests, Quarantine(f) \/ Move(f) PROVE QuarantineSighted'
  <2>1. Undecided(f) /\ Provider(f)
    BY <1>6 DEF Quarantine, Move, Undecided, At
  <2>2. \/ Goto(f, "moving") \/ Decide(f, "cleanup_unconfirmed") \/ Decide(f, "quarantined")
    BY <1>6 DEF Quarantine, Move
  <2>3. Quarantining(f)' /\ \A g \in Requests : g # f => fin'[g] = fin[g]
    BY <2>2, DecideFields, GotoFields DEF Quarantining, At
  <2> QED
    BY <2>1, <2>3, WorkInQuarantine
<1>7. ASSUME NEW f \in Requests, Commit(f) PROVE QuarantineSighted'
  <2>1. /\ UNCHANGED <<objects, intents, cleanup, outlived, spent>>
        /\ holder = f /\ fin[f].at = "decided"
        /\ session' = (IF fin[f].verdict = "none" THEN session ELSE fin[f].verdict)
        /\ holder' = NoRequest
    BY <1>7 DEF Commit, At
  <2>2. HasIntent("quarantine", Open)' = HasIntent("quarantine", Open)
    BY <2>1 DEF HasIntent
  <2>3. CASE fin[f].verdict = "none"
    <3>1. ASSUME NEW g \in Requests, holder = g, Quarantining(g)
          PROVE  (holder = g /\ Quarantining(g))'
      BY <2>1, <2>3, <3>1 DEF Quarantining, At
    <3>2. session' = session
      BY <2>1, <2>3
    <3>3. spent["faults"] = 0 => CopyHasItsRequest'
      BY <2>1, <3>1, <3>2, RequestKeepsCopy
    <3> QED
      BY <2>1, <2>2, <3>2, <3>3, QuarantineUntouched
  <2>4. CASE fin[f].verdict # "none"
    <3>1. session = "open" /\ session' = fin[f].verdict /\ fin[f].verdict \in Sources
      BY <2>1, <2>4 DEF Custody, HolderFoundItOpen, Undecided, At, Typed, TypeOK, Finalize
    <3>2. session' \in Sources \union {"none"} /\ session \in Sources \union {"none"}
      BY <3>1, Statuses
    <3>3. QuarantineIsLeftAlone'
      BY <2>1, <3>2 DEF QuarantineSighted, QuarantineIsLeftAlone
    <3>4. CASE fin[f].verdict \in {"quarantined", "cleanup_unconfirmed"}
      <4>1. ~SettledWithoutQuarantine' /\ session' \notin {"none", "open"}
        BY <3>1, <3>4 DEF SettledWithoutQuarantine, SweptTo
      <4>2. Tracked("quarantine")'
        BY <3>1, <3>4 DEF Tracked, AwaitsSweep, PathsToSweep
      <4>3. WithoutFaults'
        BY <2>1, <4>1 DEF QuarantineSighted, WithoutFaults, CopyHasItsRequest
      <4> QED
        BY <3>3, <4>2, <4>3 DEF QuarantineSighted
    <3>5. CASE fin[f].verdict \notin {"quarantined", "cleanup_unconfirmed"}
      <4>1. ~Quarantining(f)
        BY <2>1, <3>5 DEF Quarantining, At
      <4>2. spent["faults"] = 0 => objects["quarantine"] = Absent
        BY <2>1, <3>1, <4>1 DEF QuarantineSighted, WithoutFaults, CopyHasItsRequest
      <4>3. WithoutFaults'
        BY <2>1, <4>2 DEF QuarantineSighted, WithoutFaults, CopyHasItsRequest
      <4>4. session' \in {"open"} \/ SettledWithoutQuarantine'
        BY <3>1, <3>5, Statuses DEF SettledWithoutQuarantine
      <4>5. ~outlived' /\ ~QuarantineIsForgotten' => Tracked("quarantine")'
        <5>1. CASE session' = "open"
          BY <5>1, Statuses DEF Tracked, AwaitsSweep, PathsToSweep
        <5>2. CASE SettledWithoutQuarantine'
          <6>1. spent["faults"] \in Nat
            BY <1>q
          <6> QED
            BY <2>1, <4>2, <5>2, <6>1 DEF QuarantineIsForgotten, Tracked
        <5> QED
          BY <4>4, <5>1, <5>2
      <4> QED
        BY <3>3, <4>3, <4>5 DEF QuarantineSighted
    <3> QED
      BY <3>4, <3>5
  <2> QED
    BY <2>3, <2>4
<1>8. CASE DeleteDocument \/ UnlinkVaultItem
  <2>1. UNCHANGED <<session, objects, fin, holder, cleanup, outlived, spent>>
    BY <1>8 DEF DeleteDocument, UnlinkVaultItem
  <2>2. Enqueue({"document"}) \/ Enqueue({})
    BY <1>8 DEF DeleteDocument, UnlinkVaultItem
  <2>3. intents'["quarantine"] = intents["quarantine"]
    BY <1>q, <2>2, EnqueueKeeps
  <2>4. HasIntent("quarantine", Open) => HasIntent("quarantine", Open)'
    BY <2>3 DEF HasIntent
  <2>5. spent["faults"] = 0 => CopyHasItsRequest'
    BY <2>1, RequestKeepsCopy DEF Quarantining, At
  <2> QED
    BY <2>1, <2>3, <2>4, <2>5, QuarantineUntouched
<1>9. CASE Sweep
  <2>1. /\ UNCHANGED <<objects, fin, holder, cleanup, outlived, spent>>
        /\ session \in Sources /\ session' = SweptTo[session]
        /\ session' \notin Sources \union {"none"}
        /\ Enqueue(PathsToSweep(session))
    BY <1>9, Statuses DEF Sweep
  <2>2. QuarantineIsLeftAlone'
    BY <2>1 DEF QuarantineSighted, QuarantineIsLeftAlone
  <2>3. CASE session \in {"completed", "rejected"}
    <3>1. spent["faults"] = 0 => objects["quarantine"] = Absent
      BY <2>3 DEF QuarantineSighted, WithoutFaults, CopyHasItsRequest, SettledWithoutQuarantine
    <3>2. SettledWithoutQuarantine'
      BY <2>1, <2>3 DEF SettledWithoutQuarantine
    <3>3. WithoutFaults'
      BY <2>1, <3>1 DEF QuarantineSighted, WithoutFaults, CopyHasItsRequest
    <3>4. ~QuarantineIsForgotten' => Tracked("quarantine")'
      <4>1. spent["faults"] \in Nat
        BY <1>q
      <4> QED
        BY <2>1, <3>1, <3>2, <4>1 DEF QuarantineIsForgotten, Tracked
    <3> QED
      BY <2>2, <3>3, <3>4 DEF QuarantineSighted
  <2>4. CASE session \notin {"completed", "rejected"}
    <3>1. Tracked("quarantine")'
      BY <1>q, <2>1, <2>4, EnqueueKeeps DEF Tracked, PathsToSweep, Open
    <3>2. ~SettledWithoutQuarantine' /\ session' \notin {"none", "open"}
      BY <2>1, <2>4, Statuses DEF SettledWithoutQuarantine, SweptTo
    <3>3. WithoutFaults'
      BY <2>1, <3>2 DEF QuarantineSighted, WithoutFaults, CopyHasItsRequest
    <3> QED
      BY <2>2, <3>1, <3>3 DEF QuarantineSighted
  <2> QED
    BY <2>3, <2>4
<1>10. ASSUME NEW p \in Paths, NEW i \in DOMAIN intents[p], SettleUntouched(p, i)
       PROVE  QuarantineSighted'
  <2>1. /\ Row("dead_letter", intents[p][i].attempts, intents[p][i].replays) \in Intent
        /\ ~Exhausted(p, i) =>
             Row("cancelled", intents[p][i].attempts + 1, intents[p][i].replays) \in Intent
    BY RowFields, BoundsAssumption DEF Row, Intent, IntentStatus, Exhausted
  <2>2. PICK row \in Intent : SetRow(p, i, row) /\ (row.status \in Open \/ Referenced(p))
    BY <1>10, <2>1 DEF SettleUntouched, SetStatus, SetAttempted, Row, Open, GivenUp
  <2> QED
    BY <1>10, <2>2, SettleKeepsQuarantine DEF SettleUntouched, IntentsOnly
<1>11. ASSUME NEW p \in Paths, NEW i \in DOMAIN intents[p], ReplayDeadLetter(p, i)
       PROVE  QuarantineSighted'
  <2>1. Row("queued", 0, intents[p][i].replays + 1) \in Intent
    BY <1>11, RowFields, BoundsAssumption DEF ReplayDeadLetter, Row, Intent, IntentStatus, Waiting
  <2>2. Row("queued", 0, intents[p][i].replays + 1).status \in Open
    BY DEF Row, Open, Waiting
  <2>3. spent'["faults"] = spent["faults"]
    BY <1>11, <1>q, <1>s DEF ReplayDeadLetter
  <2> QED
    BY <1>11, <2>1, <2>2, <2>3, SettleKeepsQuarantine DEF ReplayDeadLetter
<1>12. ASSUME NEW p \in Paths, NEW i \in DOMAIN intents[p], ResolveDeadLetter(p, i)
       PROVE  QuarantineSighted'
  <2>1. Row("resolved", intents[p][i].attempts, intents[p][i].replays) \in Intent
    BY RowFields DEF Row, Intent, IntentStatus
  <2>2. Row("resolved", intents[p][i].attempts, intents[p][i].replays).status \in Open
    BY DEF Row, Open, GivenUp
  <2> QED
    BY <1>12, <2>1, <2>2, SettleKeepsQuarantine DEF ResolveDeadLetter, SetStatus, IntentsOnly
<1>13. ASSUME NEW p \in Paths, NEW i \in DOMAIN intents[p], Purge(p, i) PROVE QuarantineSighted'
  <2>1. Row("purged", 0, 0) \in Intent
    BY BoundsAssumption DEF Row, Intent, IntentStatus
  <2>2. intents[p][i].status \notin Open
    BY <1>13 DEF Purge, Open, Waiting, GivenUp
  <2> QED
    BY <1>13, <2>1, <2>2, SettleKeepsQuarantine DEF Purge, IntentsOnly
<1>14. ASSUME NEW p \in Paths,
              DeleteObject(p) \/ RollbackDeletion(p) \/ \E i \in DOMAIN intents[p] : StartDeletion(p, i)
       PROVE QuarantineSighted'
  <2>1. /\ UNCHANGED <<session, intents, fin, holder, outlived>>
        /\ objects'["quarantine"] \in {objects["quarantine"], Absent}
    BY <1>14, <1>q DEF DeleteObject, RollbackDeletion, StartDeletion, IntentsOnly, Delete,
       DeleteUnconfirmed, Store, Typed, TypeOK
  <2>2. cleanup'["quarantine"].at = "deleted" =>
          cleanup["quarantine"].at = "deleted" \/ objects'["quarantine"] = Absent
    <3>1. CASE RollbackDeletion(p)
      BY <1>q, <3>1 DEF RollbackDeletion, NoCleanup, Typed, TypeOK
    <3>0. ASSUME NEW i \in DOMAIN intents[p], StartDeletion(p, i)
          PROVE  cleanup'["quarantine"].at = "deleted" => cleanup["quarantine"].at = "deleted"
      BY <1>q, <3>0 DEF StartDeletion, Typed, TypeOK
    <3>2. CASE Delete(p) /\ Answer(p, "deleted")
      BY <1>q, <3>2 DEF Delete, Store, Answer, Typed, TypeOK
    <3>3. CASE Answer(p, "unconfirmed")
      BY <1>q, <3>3 DEF Answer, Typed, TypeOK
    <3> QED
      BY <1>14, <3>0, <3>1, <3>2, <3>3 DEF DeleteObject
  <2>3. spent'["faults"] > 0 \/ spent'["faults"] = spent["faults"]
    BY <1>14, <1>q, <1>s DEF DeleteObject, RollbackDeletion, StartDeletion, IntentsOnly
  <2>4. spent["faults"] = 0 => CopyHasItsRequest'
    BY <2>1, RequestKeepsCopy DEF Quarantining, At
  <2>5. HasIntent("quarantine", Open) => HasIntent("quarantine", Open)'
    BY <2>1 DEF HasIntent
  <2>6. spent["faults"] > 0 => spent'["faults"] > 0
    BY <2>3
  <2>7. spent'["faults"] = 0 => spent["faults"] = 0
    BY <2>3
  <2> QED
    BY <2>1, <2>2, <2>3, <2>4, <2>5, <2>6, <2>7, QuarantineUntouched
<1>15. ASSUME NEW p \in Paths, CommitDeletion(p) PROVE QuarantineSighted'
  <2> DEFINE i == cleanup[p].intent
  <2>1. /\ i \in DOMAIN intents[p] /\ intents[p][i].attempts < MaximumAttempts
        /\ intents[p][i].attempts \in Nat
    BY <1>15, RowFields DEF CommitDeletion, Typed, RowInHand
  <2>2. PICK s \in {"completed", "dead_letter", "retry_wait"} :
           SetAttempted(p, i, s) /\ (s = "completed" => cleanup[p].at = "deleted")
    BY <1>15 DEF CommitDeletion, AfterFailure
  <2>3. Row(s, intents[p][i].attempts + 1, intents[p][i].replays) \in Intent
    BY <2>1, RowFields, BoundsAssumption DEF Row, Intent, IntentStatus, Waiting
  <2>4. \/ Row(s, intents[p][i].attempts + 1, intents[p][i].replays).status \in Open
        \/ cleanup[p].at = "deleted"
    BY <2>2 DEF Row, Open, Waiting, GivenUp
  <2>5. \A q \in Paths : cleanup'[q].at = "deleted" => cleanup[q].at = "deleted"
    BY <1>15 DEF CommitDeletion, NoCleanup, Typed, TypeOK
  <2> HIDE DEF i
  <2> QED
    BY <1>15, <2>1, <2>2, <2>3, <2>4, <2>5, SettleKeepsQuarantine
       DEF SetAttempted, CommitDeletion, IntentsOnly
<1>16. CASE UNCHANGED vars
  <2>1. UNCHANGED <<session, objects, intents, fin, holder, cleanup, outlived, spent>>
    BY <1>16 DEF vars
  <2> QED
    BY <2>1 DEF QuarantineSighted, WithoutFaults, CopyHasItsRequest, Quarantining, At,
       QuarantineIsLeftAlone, QuarantineIsForgotten, SettledWithoutQuarantine, Tracked, Referenced,
       AwaitsSweep, HasIntent
<1> QED
  BY <1>1, <1>2, <1>3, <1>4, <1>5, <1>6, <1>7, <1>8, <1>9, <1>10, <1>11, <1>12, <1>13, <1>14,
     <1>15, <1>16 DEF Next, FinalizeStep, TakeUp, FinishDeletion

\* Wherever a crash falls, each staged copy, each promoted one unless a request outlived
\* its database session, and each quarantined one unless besides a retry after a fault
\* settled the session without it, is referred to, in reach of a coming sweep, or named
\* by an intent that is not settled (repository.ts:791, documents.ts:1321, vault.ts:340).
THEOREM NothingLeaks == Spec => []EveryCopyIsTracked
<1>1. Init => Typed /\ Custody /\ Sighted /\ QuarantineSighted
  BY TypedInit, CustodyInit, SightedInit, QuarantineInit
<1>2. Typed /\ Custody /\ Sighted /\ QuarantineSighted /\ [Next]_vars => (Typed /\ Custody /\ Sighted /\ QuarantineSighted)'
  BY TypedStep, CustodyStep, SightedStep, QuarantineStep
<1>3. Typed /\ Custody /\ Sighted /\ QuarantineSighted => EveryCopyIsTracked
  BY DEF Sighted, MovingCopiesAreTracked, QuarantineSighted, EveryCopyIsTracked
<1> QED
  BY <1>1, <1>2, <1>3, PTL DEF Spec
=============================================================================
