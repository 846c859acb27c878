------------------------------ MODULE AuditChain ------------------------------
(***************************************************************************)
(* lib/audit.ts: tenants' audit chains written by concurrent requests.     *)
(* writeAuditTx runs inside whatever transaction its caller has open, so   *)
(* the chain lock it takes is held until that whole transaction ends, and  *)
(* nested transactions are savepoints whose rollback also gives back a     *)
(* lock taken since.                                                       *)
(*                                                                         *)
(* One step is one statement of one connection, under read committed (the  *)
(* level every caller pins).  Statements are atomic in the database.       *)
(***************************************************************************)
EXTENDS AuditVerification

CONSTANTS Requests,     \* connections with a transaction of their own
          Orgs,
          MaxDepth      \* bound: nested savepoints

VARIABLES committed,    \* the rows of audit_events other connections can see
          holder,       \* who holds AUDIT_CHAIN_LOCK_KEY
          tx,           \* the transaction of every connection
          anchor        \* the head of every chain last recorded elsewhere

vars == <<committed, holder, tx, anchor>>

Nobody == "nobody"
None == "none"

ASSUME RequestsAssumption == Nobody \notin Requests

\* The transaction of a connection: its tenant, the event it is writing, the
\* head of the chain it read for it, the rows it has inserted, and the
\* savepoints it is in, outermost first.
Tx(pc, org, content, head, inserted, saved) ==
  [pc |-> pc, org |-> org, content |-> content, head |-> head,
   inserted |-> inserted, saved |-> saved]

Idle == Tx("idle", None, None, EmptyHead, {}, <<>>)
Open(org, inserted, saved) == Tx("open", org, None, EmptyHead, inserted, saved)
Writing(t, pc, content, head) == Tx(pc, t.org, content, head, t.inserted, t.saved)

IsOpen(r) == tx[r].pc # "idle"

Init ==
  /\ committed = {} /\ holder = Nobody
  /\ tx = [r \in Requests |-> Idle]
  /\ anchor = [o \in Orgs |-> NoHead]

Begin(r, org) ==
  /\ ~IsOpen(r)
  /\ tx' = [tx EXCEPT ![r] = Open(org, {}, <<>>)]
  /\ UNCHANGED <<committed, holder, anchor>>

---------------------------------------------------------------------------
(* Writing an event: lock, read the head, insert. *)

Rows == committed \cup UNION {tx[r].inserted : r \in Requests}
OfTenant(rows, org) == {row \in rows : row.org = org}

\* What a statement of r sees: what is committed by now, and its own rows.
Visible_AllTenants(r) == committed \cup tx[r].inserted
Visible(r) == OfTenant(committed \cup tx[r].inserted, tx[r].org)

ChainHead(rows) ==
  IF rows = {} THEN EmptyHead
  ELSE LET last == CHOOSE row \in rows : \A other \in rows : other.seq <= row.seq
       IN [seq |-> last.seq, hash |-> last.hash]

AskForLock(r, content) ==
  /\ tx[r].pc = "open"
  /\ tx' = [tx EXCEPT ![r] = Writing(tx[r], "waiting", content, EmptyHead)]
  /\ UNCHANGED <<committed, holder, anchor>>

\* The lock is reentrant, and free to a connection that has it already.
LockIsFree_Unlocked(r) == TRUE
LockIsFree(r) == holder \in {Nobody, r}

Acquire(r) ==
  /\ tx[r].pc = "waiting" /\ LockIsFree(r)
  /\ holder' = r
  /\ tx' = [tx EXCEPT ![r] = Writing(tx[r], "locked", tx[r].content, EmptyHead)]
  /\ UNCHANGED <<committed, anchor>>

ReadHead(r) ==
  /\ tx[r].pc = "locked"
  /\ tx' = [tx EXCEPT ![r] = Writing(tx[r], "read", tx[r].content, ChainHead(Visible(r)))]
  /\ UNCHANGED <<committed, holder, anchor>>

NewRow(r) == Row(tx[r].head.hash, tx[r].head.seq + 1, tx[r].org, tx[r].content)

\* The unique index on tenant and position.
Collides(r) ==
  \E row \in Rows :
    row.org = NewRow(r).org /\ row.seq = NewRow(r).seq

Insert(r) ==
  /\ tx[r].pc = "read" /\ ~Collides(r) /\ tx[r].head.seq < MaxEvents
  /\ tx' = [tx EXCEPT ![r] = Open(tx[r].org, tx[r].inserted \cup {NewRow(r)}, tx[r].saved)]
  /\ UNCHANGED <<committed, holder, anchor>>

---------------------------------------------------------------------------
(* Transactions and savepoints. *)

Savepoint(r) ==
  /\ tx[r].pc = "open" /\ Len(tx[r].saved) < MaxDepth
  /\ LET point == [inserted |-> tx[r].inserted, locked |-> holder = r] IN
     tx' = [tx EXCEPT ![r] = Open(tx[r].org, tx[r].inserted, Append(tx[r].saved, point))]
  /\ UNCHANGED <<committed, holder, anchor>>

ReleaseSavepoint(r) ==
  /\ tx[r].pc = "open" /\ tx[r].saved # <<>>
  /\ tx' = [tx EXCEPT ![r] = Open(tx[r].org, tx[r].inserted, Front(tx[r].saved))]
  /\ UNCHANGED <<committed, holder, anchor>>

\* Rolling back to a savepoint keeps a lock that was taken before it.
KeepsLock_Never(point) == FALSE
KeepsLock(point) == point.locked

GivenBack(r) == IF holder = r THEN Nobody ELSE holder

\* The nested transaction fails (or a statement of it does, the wait for the
\* lock included) and its caller carries on after the savepoint.
RollbackToSavepoint(r) ==
  /\ IsOpen(r) /\ tx[r].saved # <<>>
  /\ LET point == Last(tx[r].saved) IN
     /\ tx' = [tx EXCEPT ![r] = Open(tx[r].org, point.inserted, Front(tx[r].saved))]
     /\ holder' = IF KeepsLock(point) THEN holder ELSE GivenBack(r)
  /\ UNCHANGED <<committed, anchor>>

Commit(r) ==
  /\ tx[r].pc = "open" /\ tx[r].saved = <<>>
  /\ committed' = committed \cup tx[r].inserted
  /\ holder' = GivenBack(r)
  /\ tx' = [tx EXCEPT ![r] = Idle]
  /\ UNCHANGED anchor

\* The request fails, its server dies or its connection is lost.
Rollback(r) ==
  /\ IsOpen(r)
  /\ holder' = GivenBack(r)
  /\ tx' = [tx EXCEPT ![r] = Idle]
  /\ UNCHANGED <<committed, anchor>>

\* SET LOCAL lock_timeout ends the wait; the error undoes the innermost
\* savepoint, or everything.
TimesOut(r) == tx[r].pc = "waiting" /\ ~LockIsFree(r)

TimeOut(r) ==
  /\ TimesOut(r)
  /\ IF tx[r].saved = <<>> THEN Rollback(r) ELSE RollbackToSavepoint(r)

\* An operator verifies a chain and keeps the head it prints.
RecordHead(org) ==
  /\ anchor' = [anchor EXCEPT ![org] = ChainHead(OfTenant(committed, org))]
  /\ UNCHANGED <<committed, holder, tx>>

Next ==
  \/ \E r \in Requests :
       \/ \E org \in Orgs : Begin(r, org)
       \/ \E content \in Contents : AskForLock(r, content)
       \/ Acquire(r) \/ ReadHead(r) \/ Insert(r) \/ TimeOut(r)
       \/ Savepoint(r) \/ ReleaseSavepoint(r) \/ RollbackToSavepoint(r)
       \/ Commit(r) \/ Rollback(r)
  \/ \E org \in Orgs : RecordHead(org)

Spec == Init /\ [][Next]_vars

---------------------------------------------------------------------------
\* lib/audit.ts "The chain requires each event to reference its predecessor's
\* hash, so concurrent writers must be ordered": whatever requests interleave,
\* nest and abandon, every committed chain verifies, and does so against the
\* head of any event recorded for it earlier.
CommittedChainsVerify ==
  \A org \in Orgs :
    LET head == IF anchor[org] = EmptyHead THEN NoHead ELSE anchor[org] IN
    VerifyAuditChain(OfTenant(committed, org), head).ok

\* The unique index is "a backstop": it never has to refuse an event, so no
\* request loses its work because another one audits something.
BackstopNeverFires == \A r \in Requests : tx[r].pc = "read" => ~Collides(r)

\* A request with events nobody else can see holds the lock, through every
\* savepoint it opens, releases or rolls back.
UnseenEventsHoldTheLock == \A r \in Requests : tx[r].inserted # {} => holder = r
=============================================================================
