----------------------- MODULE GracefulShutdownProofs -----------------------
(***************************************************************************)
(* A tenant request keeps its promises about its transaction whatever the  *)
(* shutdown does to its socket, its pool and its process: ShutdownSpec     *)
(* implements TenantRequest's Spec, so that what is proved of the request  *)
(* alone holds in the process.                                             *)
(***************************************************************************)
EXTENDS GracefulShutdown, FiniteSetTheorems, TLAPS

Held == {h \in Holders : work[h] = "held"}
SomeFailed == \E h \in Holders : work[h] = "failed"
Left == conn \in {"left_idle", "left_working", "left_late"}

-----------------------------------------------------------------------------
(* The inductive invariant of the request.                                 *)

\* The counter is the number of pieces of work that hold the transaction, until
\* the handler's own commit consumes them.
HoldsAreCounted == ~control.commitRequested => control.holds = Cardinality(Held)

\* How far the transaction is, by who has settled it.
Progress ==
  /\ tx = "none" => response = "none" /\ conn = "open" /\ settled = "no"
  /\ tx = "open" => attached
  /\ tx = "committed" => settled = "resolve"
  /\ attached => tx # "none" /\ (settled = "no" => tx = "open")
  /\ ~attached /\ settled = "no" =>
       /\ tx \in {"none", "rolled_back"}
       /\ control.holds = 0 /\ control.terminal = "none"
       /\ ~control.error /\ ~control.commitRequested
       /\ tx = "rolled_back" => response = "5xx" /\ conn \in {"open", "done", "left_idle"}
  /\ finished => response # "none"
  /\ conn = "done" => finished
  /\ control.commitRequested => settled # "no"

\* What decided the outcome, while nothing is settled yet ...
Decision ==
  settled = "no" /\ attached =>
    /\ control.terminal = "none" => conn = "open" /\ ~finished
    /\ control.terminal # "none" =>
         Left \/ (finished /\ (response = "5xx" => control.error))
    /\ control.error =>
         \/ response = "5xx" /\ finished /\ conn \in {"open", "done"}
         \/ SomeFailed
    /\ conn # "left_idle"

\* ... and afterwards.
Verdict ==
  /\ settled = "reject" =>
       \/ conn = "left_idle"
       \/ response = "5xx" /\ conn # "left_working"
       \/ SomeFailed
  /\ tx = "rolled_back" => settled # "resolve"
  /\ conn = "left_idle" => settled = "reject" \/ tx = "rolled_back"
  /\ settled = "resolve" /\ ~control.commitRequested =>
       Left \/ (finished /\ response # "5xx")

IInv == TypeOK /\ HoldsAreCounted /\ Progress /\ Decision /\ Verdict

-----------------------------------------------------------------------------
(* Steps                                                                   *)

LEMMA HeldIsFinite == IsFiniteSet(Held) /\ Held \subseteq Holders
<1>1. Held \subseteq Holders
  BY DEF Held
<1> QED
  BY <1>1, FS_Subset, HoldersAssumption

\* One more holder is one more in the counter.
LEMMA HoldCounts ==
  ASSUME TypeOK, NEW h \in Holders, work[h] = "none",
         work' = [work EXCEPT ![h] = "held"]
  PROVE  Cardinality(Held') = Cardinality(Held) + 1 /\ Cardinality(Held') <= Cardinality(Holders)
<1>1. Held' = Held \cup {h} /\ h \notin Held
  BY DEF TypeOK, Held
<1>2. IsFiniteSet(Held') /\ Held' \subseteq Holders
  BY <1>1, HeldIsFinite, FS_AddElement
<1> QED
  BY <1>1, <1>2, HeldIsFinite, FS_AddElement, FS_Subset, HoldersAssumption

\* A release is one less, and there was one.
LEMMA ReleaseCounts ==
  ASSUME TypeOK, NEW h \in Holders, work[h] = "held",
         NEW s \in {"failed", "released"}, work' = [work EXCEPT ![h] = s]
  PROVE  Cardinality(Held') = Cardinality(Held) - 1 /\ Cardinality(Held) # 0
<1>1. Held' = Held \ {h} /\ h \in Held
  BY DEF TypeOK, Held
<1>2. Cardinality(Held) # 0
  BY <1>1, HeldIsFinite, FS_EmptySet
<1> QED
  BY <1>1, <1>2, HeldIsFinite, FS_RemoveElement

LEMMA Counts == Cardinality(Holders) \in Nat /\ Cardinality(Held) \in 0 .. Cardinality(Holders)
<1> QED
  BY HeldIsFinite, FS_Subset, FS_CardinalityType, HoldersAssumption

LEMMA InitInv == Init => IInv
<1> SUFFICES ASSUME Init PROVE IInv
  OBVIOUS
<1>1. Held = {}
  BY DEF Init, Held
<1>2. Cardinality(Held) = 0
  BY <1>1, FS_EmptySet
<1>3. TypeOK
  <2>1. control \in Control
    <3>1. [holds |-> 0, terminal |-> "none", error |-> FALSE, commitRequested |-> FALSE] \in Control
      BY Counts DEF Control
    <3> QED
      BY <3>1 DEF Init
  <2> QED
    BY <2>1 DEF Init, TypeOK
<1>4. HoldsAreCounted
  BY <1>2 DEF Init, HoldsAreCounted
<1>5. Progress
  BY DEF Init, Progress
<1>6. Decision /\ Verdict
  BY DEF Init, Decision, Verdict, Left
<1> QED
  BY <1>3, <1>4, <1>5, <1>6 DEF IInv

\* The steps in which no work is taken or given back.
LEMMA SameHeld == ASSUME UNCHANGED work PROVE Held' = Held /\ SomeFailed' = SomeFailed
  BY DEF Held, SomeFailed

LEMMA BeginInv == IInv /\ Begin => IInv'
<1> SUFFICES ASSUME IInv, Begin PROVE IInv'
  OBVIOUS
<1> USE SameHeld DEF IInv, TypeOK, Control, HoldsAreCounted, Progress, Decision, Verdict, Left, Begin
<1>1. ~attached /\ ~finished /\ conn = "open" /\ response = "none" /\ settled = "no"
  OBVIOUS
<1>2. control.holds = 0 /\ control.terminal = "none" /\ ~control.error /\ ~control.commitRequested
  BY <1>1
<1>3. CASE tx' = "open" /\ attached' = TRUE /\ UNCHANGED response
  BY <1>1, <1>2, <1>3
<1>4. CASE tx' = "rolled_back" /\ response' = "5xx" /\ UNCHANGED attached
  BY <1>1, <1>2, <1>4
<1> QED
  BY <1>3, <1>4

LEMMA RespondInv ==
  ASSUME IInv, NEW status \in {"2xx", "4xx", "5xx"}, Respond(status) PROVE IInv'
  BY SameHeld DEF IInv, TypeOK, Control, HoldsAreCounted, Progress, Decision, Verdict, Left, Respond

LEMMA OnFinishInv == IInv /\ OnFinish => IInv'
<1> SUFFICES ASSUME IInv, OnFinish PROVE IInv'
  OBVIOUS
<1> USE SameHeld DEF IInv, TypeOK, Control, HoldsAreCounted, Progress, Decision, Verdict, Left,
     OnFinish, Decided, IsServerError, SettleIfUnheld, Settle, Outcome
<1>1. CASE ~(attached /\ settled = "no")
  BY <1>1
<1>2. CASE attached /\ settled = "no" /\ control.terminal # "none"
  BY <1>2
<1>3. CASE attached /\ settled = "no" /\ control.terminal = "none" /\ response = "5xx"
  <2>1. control' = [control EXCEPT !.terminal = "finish", !.error = TRUE]
    BY <1>3
  <2> QED
    BY <1>3, <2>1
<1>4. CASE attached /\ settled = "no" /\ control.terminal = "none" /\ response # "5xx"
  <2>1. control' = [control EXCEPT !.terminal = "finish", !.error = FALSE]
    BY <1>4
  <2> QED
    BY <1>4, <2>1
<1> QED
  BY <1>1, <1>2, <1>3, <1>4

LEMMA OnCloseInv == IInv /\ OnClose => IInv'
<1> SUFFICES ASSUME IInv, OnClose PROVE IInv'
  OBVIOUS
<1> USE SameHeld DEF IInv, TypeOK, Control, HoldsAreCounted, Progress, Decision, Verdict, Left,
     OnClose, Decided, ClosedEarlyIsError, SettleIfUnheld, Settle, Outcome
<1>0. conn' = IF finished THEN "done"
              ELSE IF settled # "no" THEN "left_late"
              ELSE IF control.holds = 0 THEN "left_idle" ELSE "left_working"
  OBVIOUS
<1>1. CASE ~(attached /\ settled = "no")
  BY <1>0, <1>1
<1>2. CASE attached /\ settled = "no" /\ control.terminal # "none"
  BY <1>0, <1>2
<1>3. CASE attached /\ settled = "no" /\ control.terminal = "none" /\ control.holds = 0
  <2>1. control' = [control EXCEPT !.terminal = "close", !.error = TRUE]
    BY <1>3
  <2> QED
    BY <1>0, <1>3, <2>1
<1>4. CASE attached /\ settled = "no" /\ control.terminal = "none" /\ control.holds # 0
  <2>1. control' = [control EXCEPT !.terminal = "close", !.error = FALSE]
    BY <1>4
  <2> QED
    BY <1>0, <1>4, <2>1
<1> QED
  BY <1>1, <1>2, <1>3, <1>4

LEMMA CommitInv == IInv /\ Commit => IInv'
  BY SameHeld, Counts DEF IInv, TypeOK, Control, HoldsAreCounted, Progress, Decision, Verdict, Left,
     Commit, Settle, Outcome

LEMMA TransactionEndsInv == IInv /\ TransactionEnds => IInv'
  BY SameHeld DEF IInv, TypeOK, Control, HoldsAreCounted, Progress, Decision, Verdict, Left,
     TransactionEnds

LEMMA ReturnInv == IInv /\ Return => IInv'
<1> SUFFICES ASSUME IInv, Return PROVE IInv'
  OBVIOUS
<1> USE SameHeld DEF IInv, TypeOK, Control, HoldsAreCounted, Progress, Decision, Verdict, Left,
     Return, TransactionIsOver, CommitOutcome
<1>1. settled # "no"
  OBVIOUS
<1>2. CASE control.commitRequested
  <2>1. response' = response /\ promise' \in {"resolved", "rejected"} /\ attached' \in BOOLEAN
    BY <1>2
  <2> QED
    BY <1>1, <1>2, <2>1
<1>3. CASE ~control.commitRequested
  <2>1. attached' = FALSE /\ promise' = promise
    BY <1>3
  <2>2. response' = IF tx # "committed" /\ response = "none" THEN "5xx" ELSE response
    BY <1>3
  <2> QED
    BY <1>1, <1>3, <2>1, <2>2
<1> QED
  BY <1>2, <1>3

LEMMA HoldInv ==
  ASSUME IInv, NEW h \in Holders, Hold(h) PROVE IInv'
<1> USE DEF IInv, TypeOK, Control, HoldsAreCounted, Progress, Decision, Verdict, Left, Hold
<1>1. Cardinality(Held') = Cardinality(Held) + 1 /\ Cardinality(Held') <= Cardinality(Holders)
  BY HoldCounts
<1>2. SomeFailed' = SomeFailed
  BY DEF SomeFailed
<1> QED
  BY <1>1, <1>2, Counts

LEMMA ReleaseInv ==
  ASSUME IInv, NEW h \in Holders, NEW error \in BOOLEAN, Release(h, error) PROVE IInv'
<1> USE DEF IInv, TypeOK, Control, HoldsAreCounted, Progress, Decision, Verdict, Left,
     Release, OneLess, ReleaseSettles, Settle, Outcome
<1>1. Cardinality(Held') = Cardinality(Held) - 1 /\ Cardinality(Held) # 0
  <2>1. work' = [work EXCEPT ![h] = IF error THEN "failed" ELSE "released"] /\ work[h] = "held"
    OBVIOUS
  <2>2. (IF error THEN "failed" ELSE "released") \in {"failed", "released"}
    OBVIOUS
  <2> QED
    BY <2>1, <2>2, ReleaseCounts
<1>2. attached \/ settled # "no"
  BY <1>1
<1>3. CASE error
  <2>1. SomeFailed'
    BY <1>3 DEF SomeFailed
  <2>2. control' = [control EXCEPT !.error = TRUE, !.holds = OneLess(control.holds)]
    BY <1>3
  <2>3. settled' = IF ReleaseSettles(control') /\ settled = "no" THEN "reject" ELSE settled
    BY <1>3, <2>2
  <2>4. TypeOK'
    <3>1. OneLess(control.holds) \in 0 .. Cardinality(Holders)
      BY Counts
    <3>2. control' \in Control
      BY <2>2, <3>1
    <3>3. work' \in [Holders -> {"none", "held", "released", "failed"}]
      OBVIOUS
    <3> QED
      BY <2>3, <3>2, <3>3
  <2>5. HoldsAreCounted'
    BY <1>1, <2>2, Counts
  <2>6. Progress'
    BY <1>1, <1>2, <2>2, <2>3
  <2>7. Decision'
    BY <1>1, <1>2, <2>1, <2>2, <2>3
  <2>8. Verdict'
    BY <1>1, <1>2, <2>1, <2>2, <2>3
  <2> QED
    BY <2>4, <2>5, <2>6, <2>7, <2>8
<1>4. CASE ~error
  <2>1. SomeFailed => SomeFailed'
    BY <1>4 DEF SomeFailed
  <2>2. control' = [control EXCEPT !.holds = OneLess(control.holds)]
    BY <1>4
  <2>3. settled' = IF ReleaseSettles(control') /\ settled = "no"
                     THEN IF control.error THEN "reject" ELSE "resolve"
                   ELSE settled
    BY <1>4, <2>2
  <2>4. TypeOK'
    <3>1. OneLess(control.holds) \in 0 .. Cardinality(Holders)
      BY Counts
    <3>2. control' \in Control
      BY <2>2, <3>1
    <3>3. work' \in [Holders -> {"none", "held", "released", "failed"}]
      OBVIOUS
    <3> QED
      BY <2>3, <3>2, <3>3
  <2>5. HoldsAreCounted'
    BY <1>1, <2>2, Counts
  <2>6. Progress'
    BY <1>1, <1>2, <2>2, <2>3
  <2>7. Decision'
    BY <1>1, <1>2, <2>1, <2>2, <2>3
  <2>8. Verdict'
    BY <1>1, <1>2, <2>1, <2>2, <2>3
  <2> QED
    BY <2>4, <2>5, <2>6, <2>7, <2>8
<1> QED
  BY <1>3, <1>4

LEMMA StepInv == IInv /\ [Next]_vars => IInv'
<1> SUFFICES ASSUME IInv, [Next]_vars PROVE IInv'
  OBVIOUS
<1>1. CASE Begin
  BY <1>1, BeginInv
<1>2. CASE OnFinish
  BY <1>2, OnFinishInv
<1>3. CASE OnClose
  BY <1>3, OnCloseInv
<1>4. CASE Commit
  BY <1>4, CommitInv
<1>5. CASE TransactionEnds
  BY <1>5, TransactionEndsInv
<1>6. CASE Return
  BY <1>6, ReturnInv
<1>7. ASSUME NEW status \in {"2xx", "4xx", "5xx"}, Respond(status) PROVE IInv'
  BY <1>7, RespondInv
<1>8. ASSUME NEW h \in Holders, Hold(h) PROVE IInv'
  BY <1>8, HoldInv
<1>9. ASSUME NEW h \in Holders, NEW error \in BOOLEAN, Release(h, error) PROVE IInv'
  BY <1>9, ReleaseInv
<1>10. CASE UNCHANGED vars
  BY <1>10, SameHeld DEF vars, IInv, TypeOK, HoldsAreCounted, Progress, Decision, Verdict, Left
<1> QED
  BY <1>1, <1>2, <1>3, <1>4, <1>5, <1>6, <1>7, <1>8, <1>9, <1>10 DEF Next

-----------------------------------------------------------------------------
(* The process                                                             *)

LEMMA ProcessSteps == [ShutdownNext]_allVars => [Next]_vars
<1> SUFFICES ASSUME [ShutdownNext]_allVars PROVE [Next]_vars
  OBVIOUS
<1>1. CASE BeginOnPool
  BY <1>1 DEF BeginOnPool, Next
<1>2. CASE CloseOnSocket
  BY <1>2 DEF CloseOnSocket, Next
<1>3. CASE RequestStep
  BY <1>3 DEF RequestStep, Next
<1>4. CASE MarkAccepting \/ Connect \/ Receive \/ HangUp
  BY <1>4 DEF MarkAccepting, Connect, Receive, HangUp
<1>5. CASE Shutdown
  BY <1>5 DEF Shutdown, Signal, Drained, DrainDeadline, PoolEnds, DatabaseClosed,
     DatabaseNotClosed, ServerFails, FailedServerExits
<1>6. CASE UNCHANGED allVars
  BY <1>6 DEF allVars
<1> QED
  BY <1>1, <1>2, <1>3, <1>4, <1>5, <1>6 DEF ShutdownNext

\* Whatever the shutdown does to it, the request behaves like a request
\* (databaseTenancy.ts): the process only stops it, it adds no behaviour.
THEOREM ProcessRunsRequest == ShutdownSpec => Spec
<1>1. ShutdownInit => Init
  BY DEF ShutdownInit
<1> QED
  BY <1>1, ProcessSteps, PTL DEF ShutdownSpec, Spec

THEOREM RequestInv == Spec => []IInv
  BY InitInv, StepInv, PTL DEF Spec

\* Nothing is left behind by a client that leaves while nothing is held.
THEOREM AbandonedRollsBack == ShutdownSpec => []AbandonedRequestRollsBack
<1>1. IInv => AbandonedRequestRollsBack
  BY DEF IInv, Progress, Verdict, AbandonedRequestRollsBack
<1> QED
  BY <1>1, ProcessRunsRequest, RequestInv, PTL

\* A client that was answered with a server error finds nothing written.
THEOREM ErrorRollsBack == ShutdownSpec => []ServerErrorRollsBack
<1>1. IInv => ServerErrorRollsBack
  BY DEF IInv, TypeOK, Progress, Verdict, Left, ServerErrorRollsBack
<1> QED
  BY <1>1, ProcessRunsRequest, RequestInv, PTL

LEMMA RollbackReason == IInv => RollbackHasAReason
  BY DEF IInv, TypeOK, Progress, Verdict, SomeFailed, RollbackHasAReason

\* A rollback has a reason of the request's own, none of the shutdown's.
THEOREM RollbackReasons == ShutdownSpec => []RollbackHasAReason
  BY RollbackReason, ProcessRunsRequest, RequestInv, PTL

\* While work holds the transaction, only the handler's commit settles it.
THEOREM HeldWorkGoesOn == ShutdownSpec => HeldWorkIsNotCutShort
<1>1. IInv /\ IInv' /\ [Next]_vars =>
        [settled = "no" /\ settled' # "no" =>
           control'.commitRequested \/ \A h \in Holders : work'[h] # "held"]_vars
  <2> SUFFICES ASSUME IInv, IInv', Next, settled = "no", settled' # "no",
                      ~control'.commitRequested
               PROVE  \A h \in Holders : work'[h] # "held"
    OBVIOUS
  <2>1. control'.holds = 0
    <3>1. CASE OnFinish
      BY <3>1 DEF OnFinish, SettleIfUnheld
    <3>2. CASE OnClose
      BY <3>2 DEF OnClose, SettleIfUnheld
    <3>3. CASE Commit
      BY <3>3 DEF Commit
    <3>4. ASSUME NEW h \in Holders, NEW error \in BOOLEAN, Release(h, error)
          PROVE  control'.holds = 0
      BY <3>4 DEF Release, ReleaseSettles
    <3> QED
      BY <3>1, <3>2, <3>3, <3>4 DEF Next, Begin, Respond, Hold, TransactionEnds, Return
  <2>2. Cardinality(Held') = 0
    BY <2>1 DEF IInv, HoldsAreCounted
  <2>3. IsFiniteSet(Held')
    <3>1. Held' \subseteq Holders
      BY DEF Held
    <3> QED
      BY <3>1, FS_Subset, HoldersAssumption
  <2> QED
    BY <2>2, <2>3, FS_EmptySet DEF Held
<1>2. Spec => HeldWorkIsNotCutShort
  BY <1>1, RequestInv, PTL DEF Spec, HeldWorkIsNotCutShort
<1> QED
  BY <1>2, ProcessRunsRequest, PTL

-----------------------------------------------------------------------------
(* The exit                                                                *)

\* A pool that has ended has no client checked out, and hands none out.
PoolInv ==
  /\ ShutdownTypeOK
  /\ pool = "ended" => tx # "open"
  /\ exit = "clean" => pool = "ended"

LEMMA PoolInit == ShutdownInit => PoolInv
  BY InitInv DEF ShutdownInit, PoolInv, ShutdownTypeOK, IInv, Init

LEMMA PoolStep == PoolInv /\ TypeOK' /\ [ShutdownNext]_allVars => PoolInv'
<1> SUFFICES ASSUME PoolInv, TypeOK', [ShutdownNext]_allVars PROVE PoolInv'
  OBVIOUS
<1> USE DEF PoolInv, ShutdownTypeOK
<1>1. CASE BeginOnPool
  BY <1>1 DEF BeginOnPool, shutdownVars
<1>2. CASE CloseOnSocket
  BY <1>2 DEF CloseOnSocket, OnClose
<1>3. CASE RequestStep
  <2>1. UNCHANGED shutdownVars /\ Running
    BY <1>3 DEF RequestStep
  <2>2. tx' = "open" => tx = "open"
    BY <1>3 DEF RequestStep, OnFinish, Commit, TransactionEnds, Return, Respond, Hold, Release
  <2> QED
    BY <2>1, <2>2 DEF shutdownVars
<1>4. CASE MarkAccepting \/ Connect \/ Receive \/ HangUp
  BY <1>4 DEF MarkAccepting, Connect, Receive, HangUp, vars
<1>5. CASE Shutdown
  <2>1. UNCHANGED tx
    BY <1>5 DEF Shutdown, Signal, Drained, DrainDeadline, PoolEnds, DatabaseClosed,
       DatabaseNotClosed, ServerFails, FailedServerExits, vars
  <2>2. CASE Signal \/ Drained \/ DrainDeadline
    BY <2>1, <2>2 DEF Signal, Drained, DrainDeadline, EndPool, Running, vars
  <2>3. CASE PoolEnds \/ DatabaseClosed
    BY <2>1, <2>3 DEF PoolEnds, DatabaseClosed, PoolIsIdle, ExitCode, Running, vars
  <2>4. CASE DatabaseNotClosed \/ ServerFails \/ FailedServerExits
    BY <2>1, <2>4 DEF DatabaseNotClosed, ServerFails, FailedServerExits, EndPool, ExitCode,
       Running, vars
  <2> QED
    BY <1>5, <2>2, <2>3, <2>4 DEF Shutdown
<1>6. CASE UNCHANGED allVars
  BY <1>6 DEF allVars, shutdownVars, vars
<1> QED
  BY <1>1, <1>2, <1>3, <1>4, <1>5, <1>6 DEF ShutdownNext

\* Process and request keep their types, and a pool that is done is empty.
THEOREM ShutdownTypesHold == ShutdownSpec => []PoolInv
<1>1. IInv => TypeOK
  BY DEF IInv
<1> QED
  BY <1>1, PoolInit, PoolStep, ProcessRunsRequest, RequestInv, PTL DEF ShutdownSpec

\* An exit code of 0 is earned: no transaction is left to be rolled back, and
\* what the client was told is written is written, or the database refused it.
THEOREM CleanExit == ShutdownSpec => []CleanExitLosesNothing
<1>1. IInv /\ PoolInv => CleanExitLosesNothing
  <2> SUFFICES ASSUME IInv, PoolInv, exit = "clean" PROVE CleanExitLosesNothing
    BY DEF CleanExitLosesNothing
  <2>1. tx # "open"
    BY DEF PoolInv
  <2>2. conn = "done" /\ response = "2xx" /\ (\A h \in Holders : work[h] # "failed")
           => tx \in {"committed", "failed"}
    BY <2>1, RollbackReason DEF RollbackHasAReason, IInv, TypeOK, Progress
  <2> QED
    BY <2>1, <2>2 DEF CleanExitLosesNothing
<1> QED
  BY <1>1, ShutdownTypesHold, ProcessRunsRequest, RequestInv, PTL
=============================================================================
