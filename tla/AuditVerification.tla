-------------------------- MODULE AuditVerification --------------------------
(***************************************************************************)
(* lib/auditChain.ts: the hash of an audit event and the verification of a *)
(* tenant's chain.  SHA-256 is taken to be injective: a hash is the pair   *)
(* of what was hashed.                                                     *)
(***************************************************************************)
EXTENDS Integers, Sequences, FiniteSets, SequencesExt

CONSTANTS Contents,     \* what an event says
          MaxEvents     \* bound: events of a tenant

Genesis == <<>>

\* canonicalAuditPayload: the hash covers the position, the tenant and the
\* content (user, project, event, object, details and time) of the event.
Payload_NoTenant(seq, org, content) == <<seq, content>>
Payload(seq, org, content) == <<seq, org, content>>
HashOf(prev, seq, org, content) == <<prev, Payload(seq, org, content)>>

Row(prev, seq, org, content) ==
  [seq |-> seq, org |-> org, content |-> content, prev |-> prev,
   hash |-> HashOf(prev, seq, org, content)]

\* The rows are sorted by position; rows of one position in any order.
InOrder(rows) ==
  CHOOSE sorted \in SetToSeqs(rows) :
    \A i, j \in DOMAIN sorted : i < j => sorted[i].seq <= sorted[j].seq

HashBefore(sorted, i) == IF i = 1 THEN Genesis ELSE sorted[i - 1].hash

\* The checks on the row at position i, in the code's order; the version
\* check is left out, every row of an active chain is version 2.
Position(i) == i

RowHolds(sorted, i) ==
  /\ sorted[i].seq = Position(i)
  /\ sorted[i].prev = HashBefore(sorted, i)
  /\ sorted[i].hash =
       HashOf(HashBefore(sorted, i), sorted[i].seq, sorted[i].org, sorted[i].content)

\* No anchor is given; and the head that is printed for a chain without events.
NoHead == [seq |-> -1, hash |-> Genesis]
EmptyHead == [seq |-> 0, hash |-> Genesis]

HeadHolds_NoAnchor(sorted, head) == TRUE
HeadHolds(sorted, head) ==
  \/ head = NoHead
  \/ (head.seq \in 1 .. Len(sorted) /\ sorted[head.seq].hash = head.hash)

FirstOf(broken) == CHOOSE i \in broken : \A j \in broken : i <= j

\* verifyAuditChain: how many rows were checked before the first failure, and
\* whether there was none; head is an anchor recorded earlier, or NoHead.
VerifyAuditChain(rows, head) ==
  LET sorted == InOrder(rows)
      broken == {i \in 1 .. Len(sorted) : ~RowHolds(sorted, i)} IN
  IF broken # {}
    THEN [ok |-> FALSE, checked |-> FirstOf(broken) - 1]
    ELSE [ok |-> HeadHolds(sorted, head), checked |-> Len(sorted)]
=============================================================================
