---------------------------- MODULE TenantRequest ----------------------------
(***************************************************************************)
(* middlewares/databaseTenancy.ts: the transaction that spans one Express  *)
(* request.  The middleware ends it when the response finishes or the      *)
(* connection closes; a handler may hold it open across a disconnect       *)
(* (holdTenantDatabaseUntilComplete) or have it committed before it        *)
(* answers (commitTenantDatabaseBeforeResponse).  The events of the        *)
(* response, the handler's calls, the database's answer and the            *)
(* continuation that waits for it interleave freely.                       *)
(***************************************************************************)
EXTENDS Integers, FiniteSets

CONSTANT Holders   \* the pieces of critical work of the request

ASSUME HoldersAssumption == IsFiniteSet(Holders)

VARIABLES
  tx,        \* the database transaction
  control,   \* TenantWorkControl, without its promises
  attached,  \* the control is on the request
  settled,   \* how the callback's promise was settled
  promise,   \* control.committed
  response,  \* the status class that was sent
  finished,  \* the response's "finish" event has been emitted
  conn,      \* the connection, and what its end interrupted
  work       \* what each holder has done

vars == <<tx, control, attached, settled, promise, response, finished, conn, work>>

Control == [holds : 0 .. Cardinality(Holders),
            terminal : {"none", "finish", "close", "commit"},
            error : BOOLEAN, commitRequested : BOOLEAN]

TypeOK ==
  /\ tx \in {"none", "open", "committed", "failed", "rolled_back"}
  /\ control \in Control
  /\ attached \in BOOLEAN
  /\ settled \in {"no", "resolve", "reject"}
  /\ promise \in {"pending", "resolved", "rejected"}
  /\ response \in {"none", "2xx", "4xx", "5xx"}
  /\ finished \in BOOLEAN
  /\ conn \in {"open", "done", "left_idle", "left_working", "left_late"}
  /\ work \in [Holders -> {"none", "held", "released", "failed"}]

Init ==
  /\ tx = "none"
  /\ control = [holds |-> 0, terminal |-> "none", error |-> FALSE,
                commitRequested |-> FALSE]
  /\ attached = FALSE
  /\ settled = "no"
  /\ promise = "pending"
  /\ response = "none"
  /\ finished = FALSE
  /\ conn = "open"
  /\ work = [h \in Holders |-> "none"]

-----------------------------------------------------------------------------
(* settle(): only its first call counts; it also removes the listeners.    *)

Outcome(error) == IF error THEN "reject" ELSE "resolve"

Settle(error) == settled' = IF settled = "no" THEN Outcome(error) ELSE settled

\* An event or a release ends the request when nothing holds it any more.
SettleIfUnheld_Always(c) == Settle(c.error)
SettleIfUnheld(c) == IF c.holds = 0 THEN Settle(c.error) ELSE UNCHANGED settled

\* The first event decides what the end of the transaction should be.
Decided(terminal, error) ==
  IF control.terminal = "none"
    THEN [control EXCEPT !.terminal = terminal, !.error = error]
    ELSE control

-----------------------------------------------------------------------------
(* The request *)

\* BEGIN, the tenant setting, and next(); or the pool has no connection.
Begin ==
  /\ tx = "none" /\ settled = "no"
  /\ \/ /\ tx' = "open" /\ attached' = TRUE
        /\ UNCHANGED response
     \/ /\ tx' = "rolled_back" /\ response' = "5xx"
        /\ UNCHANGED attached
  /\ UNCHANGED <<control, settled, promise, finished, conn, work>>

\* The handler sends its answer, after the commit if it asked for one; the
\* "finish" event comes later.
Respond(status) ==
  /\ tx # "none" /\ response = "none"
  /\ control.commitRequested => promise # "pending"
  /\ promise = "rejected" => status = "5xx"
  /\ response' = status
  /\ UNCHANGED <<tx, control, attached, settled, promise, finished, conn, work>>

IsServerError_Never(status) == FALSE
IsServerError(status) == status = "5xx"

OnFinish ==
  /\ response # "none" /\ ~finished
  /\ finished' = TRUE
  /\ LET decided == Decided("finish", IsServerError(response)) IN
     IF attached /\ settled = "no"
       THEN control' = decided /\ SettleIfUnheld(decided)
       ELSE UNCHANGED <<control, settled>>
  /\ UNCHANGED <<tx, attached, promise, response, conn, work>>

ClosedEarlyIsError_Never(holds) == FALSE
ClosedEarlyIsError_Always(holds) == TRUE
ClosedEarlyIsError(holds) == holds = 0

\* The client went away, or the response is complete and the socket is done.
OnClose ==
  /\ tx # "none" /\ conn = "open"
  /\ conn' = CASE finished -> "done"
               [] ~finished /\ settled # "no" -> "left_late"
               [] ~finished /\ settled = "no" /\ control.holds = 0 -> "left_idle"
               [] OTHER -> "left_working"
  /\ LET decided == Decided("close", ClosedEarlyIsError(control.holds)) IN
     IF attached /\ settled = "no"
       THEN control' = decided /\ SettleIfUnheld(decided)
       ELSE UNCHANGED <<control, settled>>
  /\ UNCHANGED <<tx, attached, promise, response, finished, work>>

-----------------------------------------------------------------------------
(* What a handler may do with the control *)

Hold(h) ==
  /\ attached /\ work[h] = "none" /\ response = "none"
  /\ ~control.commitRequested
  /\ work' = [work EXCEPT ![h] = "held"]
  /\ control' = [control EXCEPT !.holds = @ + 1]
  /\ UNCHANGED <<tx, attached, settled, promise, response, finished, conn>>

ReleaseSettles_Never(c) == FALSE
ReleaseSettles(c) == c.terminal # "none" /\ c.holds = 0

\* A release may come after the commit has consumed all holds.
OneLess(holds) == IF holds = 0 THEN 0 ELSE holds - 1

\* The release function a hold returned, called once with or without an error.
Release(h, error) ==
  LET c == [control EXCEPT !.error = @ \/ error,
                           !.holds = OneLess(@)] IN
  /\ work[h] = "held"
  /\ work' = [work EXCEPT ![h] = IF error THEN "failed" ELSE "released"]
  /\ control' = c
  /\ IF ReleaseSettles(c) THEN Settle(c.error) ELSE UNCHANGED settled
  /\ UNCHANGED <<tx, attached, promise, response, finished, conn>>

\* Asking again returns the same promise.
Commit ==
  /\ attached /\ response = "none"
  /\ ~control.commitRequested
  /\ control' = [holds |-> 0, terminal |-> "commit", error |-> FALSE,
                 commitRequested |-> TRUE]
  /\ Settle(FALSE)
  /\ UNCHANGED <<tx, attached, promise, response, finished, conn, work>>

-----------------------------------------------------------------------------
(* The database, and the code after `await runWithTenantDatabase` *)

TransactionEnds ==
  /\ tx = "open" /\ settled # "no"
  /\ tx' \in IF settled = "resolve" THEN {"committed", "failed"} ELSE {"rolled_back"}
  /\ UNCHANGED <<control, attached, settled, promise, response, finished, conn, work>>

TransactionIsOver == tx \in {"committed", "failed", "rolled_back"}

CommitOutcome == IF tx \in {"failed", "rolled_back"} THEN "rejected" ELSE "resolved"

\* After a commit the control stays until the response ends (it answers a
\* second request for the commit); in every other case it goes at once.
Return ==
  /\ TransactionIsOver
  /\ attached /\ promise = "pending"
  /\ IF control.commitRequested
       THEN /\ promise' = CommitOutcome
            /\ attached' = (promise' = "resolved")
            /\ UNCHANGED response
       ELSE /\ attached' = FALSE
            /\ response' = IF tx # "committed" /\ response = "none" THEN "5xx"
                           ELSE response
            /\ UNCHANGED promise
  /\ UNCHANGED <<tx, control, settled, finished, conn, work>>

Next ==
  \/ Begin \/ OnFinish \/ OnClose \/ Commit \/ TransactionEnds \/ Return
  \/ \E status \in {"2xx", "4xx", "5xx"} : Respond(status)
  \/ \E h \in Holders : Hold(h) \/ \E error \in BOOLEAN : Release(h, error)

Spec == Init /\ [][Next]_vars

-----------------------------------------------------------------------------
(* Safety *)

\* A client that leaves while nothing is held, before the response is done,
\* leaves nothing behind, whatever the handler goes on to do: not even a commit
\* it asks for between the disconnect and the rollback.
AbandonedRequestRollsBack == conn = "left_idle" => tx # "committed"

\* The client that has seen a server error can rely on nothing having been
\* written, even if work that was still running has ended well since.
ServerErrorRollsBack ==
  finished /\ conn \in {"open", "done"} /\ response = "5xx"
    /\ ~control.commitRequested => tx # "committed"

\* Neither the end of the response, nor a disconnect, nor another holder's
\* release ends the transaction under work that holds it; only the handler's
\* own request for the commit does.
HeldWorkIsNotCutShort ==
  [][settled = "no" /\ settled' # "no" =>
       control'.commitRequested \/ \A h \in Holders : work'[h] # "held"]_vars
=============================================================================
