-------------------------- MODULE GracefulShutdown --------------------------
(***************************************************************************)
(* lib/runtimeLifecycle.ts and index.ts: the process stops on a signal     *)
(* while a tenant request (TenantRequest) is anywhere in its life.  The    *)
(* shutdown stops admission, drains HTTP up to a deadline that destroys    *)
(* the sockets, then ends the pool, which waits for every client that is   *)
(* checked out, up to a second deadline, and exits.  It meets the request  *)
(* in three places: the socket, the pool and the exit.                     *)
(***************************************************************************)
EXTENDS TenantRequest

VARIABLES
  readiness,   \* RuntimeReadiness
  server,      \* the HTTP server: close() has been called, it has failed
  socket,      \* the connection the request comes on
  stage,       \* how far the shutdown is
  http,        \* its outcome of the drain
  pool,        \* the connection pool
  exit         \* the process, by its exit code

shutdownVars == <<readiness, server, socket, stage, http, pool, exit>>
allVars == <<vars, shutdownVars>>

ShutdownTypeOK ==
  /\ TypeOK
  /\ readiness \in {"starting", "accepting", "draining"}
  /\ server \in {"listening", "closed", "failed"}
  /\ socket \in {"none", "idle", "serving", "closed"}
  /\ stage \in {"up", "draining", "closing"}
  /\ http \in {"none", "drained", "forced"}
  /\ pool \in {"open", "ending", "ended"}
  /\ exit \in {"running", "clean", "unclean"}

ShutdownInit ==
  /\ Init
  /\ readiness = "starting" /\ server = "listening" /\ socket = "none"
  /\ stage = "up" /\ http = "none" /\ pool = "open" /\ exit = "running"

Running == exit = "running"

-----------------------------------------------------------------------------
(* The request, as far as the process lets it *)

MarkAccepting ==
  /\ Running /\ readiness = "starting"
  /\ readiness' = "accepting"
  /\ UNCHANGED <<vars, server, socket, stage, http, pool, exit>>

Connect ==
  /\ Running /\ socket = "none" /\ server = "listening"
  /\ socket' = "idle"
  /\ UNCHANGED <<vars, readiness, server, stage, http, pool, exit>>

Receive ==
  /\ Running /\ socket = "idle" /\ tx = "none" /\ response = "none"
  /\ socket' = "serving"
  /\ UNCHANGED <<vars, readiness, server, stage, http, pool, exit>>

\* A pool that is ending hands out no client any more.
BeginOnPool ==
  /\ Running /\ socket = "serving"
  /\ Begin /\ (tx' = "open" => pool = "open")
  /\ UNCHANGED shutdownVars

\* The end of the response leaves the socket to the next request; a client that
\* goes away, or a destroyed socket, ends it.
CloseOnSocket ==
  /\ Running /\ OnClose
  /\ socket' = IF finished /\ socket # "closed" THEN "idle" ELSE "closed"
  /\ UNCHANGED <<readiness, server, stage, http, pool, exit>>

\* The keep-alive timeout, or a client that is done.
HangUp ==
  /\ Running /\ socket = "idle"
  /\ socket' = "closed"
  /\ UNCHANGED <<vars, readiness, server, stage, http, pool, exit>>

RequestStep ==
  /\ Running
  /\ \/ OnFinish \/ Commit \/ TransactionEnds \/ Return
     \/ \E status \in {"2xx", "4xx", "5xx"} : Respond(status)
     \/ \E h \in Holders : Hold(h) \/ \E error \in BOOLEAN : Release(h, error)
  /\ UNCHANGED shutdownVars

-----------------------------------------------------------------------------
(* The shutdown *)

\* closeDatabasePool(): every caller shares one end of the pool.
EndPool == pool' = IF pool = "open" THEN "ending" ELSE pool

\* Stop admission and close the idle sockets; later signals change nothing.
Signal ==
  /\ Running /\ stage = "up"
  /\ stage' = "draining" /\ readiness' = "draining"
  /\ server' = IF server = "failed" THEN server ELSE "closed"
  /\ socket' = IF socket = "idle" THEN "closed" ELSE socket
  /\ UNCHANGED <<vars, http, pool, exit>>

\* server.close() calls back when the last socket is gone, or fails.
Drained ==
  /\ Running /\ stage = "draining" /\ socket \in {"none", "closed"}
  /\ stage' = "closing" /\ http' = "drained"
  /\ EndPool
  /\ UNCHANGED <<vars, readiness, server, socket, exit>>

DrainDeadline ==
  /\ Running /\ stage = "draining"
  /\ stage' = "closing" /\ http' = "forced" /\ socket' = "closed"
  /\ EndPool
  /\ UNCHANGED <<vars, readiness, server, exit>>

PoolIsIdle == tx # "open"

\* pool.end(): done when no client is checked out.
PoolEnds ==
  /\ Running /\ pool = "ending" /\ PoolIsIdle
  /\ pool' = "ended"
  /\ UNCHANGED <<vars, readiness, server, socket, stage, http, exit>>

ExitCode_AlwaysClean(closed) == "clean"
ExitCode(closed) == IF closed THEN "clean" ELSE "unclean"

\* The pool is closed, or its close fails, or the deadline comes first.  A server
\* that failed waits for the same close and is the first to be told of it.
DatabaseClosed ==
  /\ Running /\ stage = "closing" /\ pool = "ended" /\ server # "failed"
  /\ exit' = ExitCode(TRUE)
  /\ UNCHANGED <<vars, readiness, server, socket, stage, http, pool>>

DatabaseNotClosed ==
  /\ Running /\ stage = "closing"
  /\ exit' = ExitCode(FALSE)
  /\ UNCHANGED <<vars, readiness, server, socket, stage, http, pool>>

ServerFails ==
  /\ Running /\ server # "failed"
  /\ server' = "failed" /\ readiness' = "draining"
  /\ EndPool
  /\ UNCHANGED <<vars, socket, stage, http, exit>>

FailedServerExits ==
  /\ Running /\ server = "failed" /\ pool = "ended"
  /\ exit' = "unclean"
  /\ UNCHANGED <<vars, readiness, server, socket, stage, http, pool>>

Shutdown ==
  \/ Signal \/ Drained \/ DrainDeadline \/ PoolEnds \/ DatabaseClosed
  \/ DatabaseNotClosed \/ ServerFails \/ FailedServerExits

ShutdownNext ==
  \/ MarkAccepting \/ Connect \/ Receive \/ BeginOnPool \/ CloseOnSocket
  \/ HangUp \/ RequestStep \/ Shutdown

ShutdownSpec == ShutdownInit /\ [][ShutdownNext]_allVars

\* The request's fairness, as long as the process runs; Node's timers and callbacks,
\* and the pool's answer.  No signal and no failure has to come.
FairShutdownSpec ==
  /\ ShutdownSpec
  /\ WF_allVars(CloseOnSocket)
  /\ WF_allVars(Running /\ TransactionEnds /\ UNCHANGED shutdownVars)
  /\ WF_allVars(Running /\ Return /\ UNCHANGED shutdownVars)
  /\ \A h \in Holders :
        WF_allVars(Running /\ (Release(h, FALSE) \/ Release(h, TRUE)) /\ UNCHANGED shutdownVars)
  /\ WF_allVars(DrainDeadline) /\ WF_allVars(DatabaseNotClosed)
  /\ WF_allVars(PoolEnds) /\ WF_allVars(FailedServerExits)

-----------------------------------------------------------------------------
(* Exit code 0 means that nothing was cut off: no transaction is left to   *)
(* the database to roll back, and what the client was told is written is   *)
(* written, or refused by the database (runtimeLifecycle.ts:106).          *)
CleanExitLosesNothing ==
  exit = "clean" =>
    /\ tx # "open"
    /\ conn = "done" /\ response = "2xx" /\ (\A h \in Holders : work[h] # "failed")
         => tx \in {"committed", "failed"}

\* A drain that destroys sockets does not take the transaction from under the work
\* that holds it: whatever the shutdown does, a rollback has one of the reasons it
\* has without one, or the client or the deadline ended the connection while
\* nothing was held.
RollbackHasAReason ==
  tx = "rolled_back" =>
    \/ conn = "left_idle"
    \/ response = "5xx" /\ conn # "left_working"
    \/ \E h \in Holders : work[h] = "failed"

\* No request keeps its pooled connection and its advisory locks for ever.
TransactionComesToAnEnd == tx = "open" ~> tx # "open" \/ ~Running
=============================================================================
