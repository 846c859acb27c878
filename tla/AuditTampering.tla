---------------------------- MODULE AuditTampering ----------------------------
(***************************************************************************)
(* What lib/auditChain.ts says verification detects: a chain is written    *)
(* for one tenant, its head is recorded outside the database, and then     *)
(* rows are altered, removed, renumbered, replaced or added behind its     *)
(* back.  The hash has no key, so a row may come with a hash of its own    *)
(* over that of any other, and a chain be rewritten from some event on.    *)
(***************************************************************************)
EXTENDS AuditVerification

CONSTANTS Org, OtherOrg,
          MaxEdits      \* bound: rows changed afterwards

ASSUME TamperAssumption == Org # OtherOrg /\ MaxEvents \in Nat /\ MaxEdits \in Nat

VARIABLES written,   \* the chain as it was written, oldest first
          stored,    \* what is in the table
          kept,      \* the anchor outside the database
          edits

TamperVars == <<written, stored, kept, edits>>

TamperInit == written = <<>> /\ stored = {} /\ kept = NoHead /\ edits = 0

\* What writeAuditTx appends: the place after the last event.
NextPlace(n) == n + 1

Write(content) ==
  LET n == Len(written)
      row == Row(HashBefore(written, n + 1), NextPlace(n), Org, content) IN
  /\ n < MaxEvents /\ edits = 0
  /\ written' = Append(written, row)
  /\ stored' = stored \cup {row}
  /\ UNCHANGED <<kept, edits>>

\* verify-audit-chain prints the head for the operator to keep.
KeepHead ==
  /\ written # <<>> /\ edits = 0
  /\ kept' = [seq |-> Len(written), hash |-> Last(written).hash]
  /\ UNCHANGED <<written, stored, edits>>

Edited(changed) ==
  /\ edits < MaxEdits /\ edits' = edits + 1
  /\ stored' = changed
  /\ UNCHANGED <<written, kept>>

Delete == \E r \in stored : Edited(stored \ {r})

\* A row is overwritten field by field; its hash is not recomputed.
Alter ==
  \E r \in stored, seq \in 1 .. MaxEvents, content \in Contents, org \in {Org, OtherOrg} :
    Edited((stored \ {r}) \cup {[r EXCEPT !.seq = seq, !.content = content, !.org = org]})

\* A row comes into the table, in place of another or besides them, with a hash
\* computed for it over that of any row: event by event, the successors of a
\* forged event can be linked to it again.
Forge ==
  \E replaced \in {{}} \cup {{row} : row \in stored},
     prev \in {Genesis} \cup {row.hash : row \in stored},
     seq \in 1 .. MaxEvents, content \in Contents :
    Edited((stored \ replaced) \cup {Row(prev, seq, Org, content)})

TamperNext ==
  (\E content \in Contents : Write(content)) \/ KeepHead \/ Delete \/ Alter \/ Forge

TamperSpec == TamperInit /\ [][TamperNext]_TamperVars

\* The events of the chain up to position n.
Past(n) == ToSet(SubSeq(written, 1, n))

\* "deleting or reordering any INTERIOR event, breaks verification": a table
\* that verifies and has the hash of a written event in it has every event up
\* to that one as it was written.  An event is altered, removed or moved
\* unnoticed only if every later one is removed or rewritten with it.
KeptEventVouchesForItsPast ==
  VerifyAuditChain(stored, NoHead).ok =>
    \A i \in 1 .. Len(written) :
      written[i].hash \in {row.hash : row \in stored} => Past(i) \subseteq stored

\* Against the recorded head nothing at or below it can be removed or changed,
\* not even with everything after it.
AnchorProtectsWhatItCovers ==
  kept # NoHead /\ VerifyAuditChain(stored, kept).ok => Past(kept.seq) \subseteq stored
=============================================================================
