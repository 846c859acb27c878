--------------------------- MODULE AuditChainProofs ---------------------------
(***************************************************************************)
(* For any number of connections, tenants, events and nested savepoints:   *)
(* a request whose events nobody else can see holds the chain lock, the    *)
(* unique index never has to refuse an event, and every committed chain    *)
(* verifies.  And for any chain and any rows in its place: if they verify, *)
(* every event whose hash is still there has all the events before it      *)
(* still there with it, and a recorded head all the events up to it.       *)
(*                                                                         *)
(* The invariant has three layers.  LockInv says who holds the lock, in    *)
(* the savepoints to come back to as well; HeadInv, which rests on it,     *)
(* that what a request can see is a chain for every tenant, that its head  *)
(* is the last event until it has inserted, and that no other connection   *)
(* changes it; AnchorInv adds the heads recorded elsewhere.  TamperInv, of *)
(* the second system, says only that a chain was written and that the      *)
(* table has rows in it: which rows does not matter.  The last theorem     *)
(* puts the two together.                                                  *)
(***************************************************************************)
EXTENDS AuditChain, AuditTampering, FiniteSetTheorems, WellFoundedInduction, TLAPS

IsSequence(s) == \E S : s \in Seq(S)

\* What the lock means for the transaction t of r, if h is the holder.
OwnLock(t, r, h) ==
  /\ IsSequence(t.saved)
  /\ t.pc = "idle" => t.inserted = {} /\ t.saved = <<>>
  /\ t.inserted # {} => h = r
  /\ t.pc \in {"locked", "read"} => h = r
  /\ \A i \in 1 .. Len(t.saved) :
       /\ t.saved[i].inserted # {} => t.saved[i].locked
       /\ t.saved[i].locked => h = r
       /\ \A j \in i .. Len(t.saved) : t.saved[i].locked => t.saved[j].locked

LockInv ==
  /\ tx = [r \in Requests |-> tx[r]]
  /\ holder \in Requests \cup {Nobody}
  /\ \A r \in Requests : OwnLock(tx[r], r, holder)

---------------------------------------------------------------------------
(* Sequences of whatever *)

\* The empty sequence is a sequence, of nothing.
LEMMA EmptyIsSequence == IsSequence(<<>>) /\ Len(<<>>) = 0
<1>1. <<>> \in Seq({}) /\ Len(<<>>) = 0
  OBVIOUS
<1> QED
  BY <1>1 DEF IsSequence

\* Append keeps the elements and puts the new one last.
LEMMA AppendIsSequence ==
  ASSUME NEW s, IsSequence(s), NEW e
  PROVE  /\ IsSequence(Append(s, e))
         /\ Len(s) \in Nat /\ Len(Append(s, e)) = Len(s) + 1
         /\ \A i \in 1 .. Len(s) : Append(s, e)[i] = s[i]
         /\ Append(s, e)[Len(s) + 1] = e
<1>1. PICK S : s \in Seq(S)
  BY DEF IsSequence
<1>2. s \in Seq(S \cup {e}) /\ e \in S \cup {e}
  BY <1>1
<1>3. Append(s, e) \in Seq(S \cup {e})
  BY <1>2
<1> QED
  BY <1>2, <1>3 DEF IsSequence

\* Front drops the last element and keeps the others.
LEMMA FrontIsSequence ==
  ASSUME NEW s, IsSequence(s), s # <<>>
  PROVE  /\ IsSequence(Front(s))
         /\ Len(s) \in Nat \ {0} /\ Len(Front(s)) = Len(s) - 1
         /\ \A i \in 1 .. Len(s) - 1 : Front(s)[i] = s[i]
         /\ Last(s) = s[Len(s)]
<1>1. PICK S : s \in Seq(S)
  BY DEF IsSequence
<1>2. Len(s) \in Nat \ {0}
  BY <1>1
<1>3. Front(s) = SubSeq(s, 1, Len(s) - 1) /\ Last(s) = s[Len(s)]
  BY DEF Front, Last
<1>4. Front(s) \in Seq(S)
  BY <1>1, <1>2, <1>3
<1>5. Front(s) = [i \in 1 .. Len(s) - 1 |-> s[i]] /\ Len(s) - 1 \in Nat
  BY <1>1, <1>2, <1>3
<1>6. Len(Front(s)) = Len(s) - 1
  <2>1. Len(Front(s)) \in Nat /\ 1 .. Len(Front(s)) = 1 .. Len(s) - 1
    BY <1>4, <1>5
  <2>2. \A m, n \in Nat : 1 .. m = 1 .. n => m <= n
    <3>1. ASSUME NEW m \in Nat, NEW n \in Nat, 1 .. m = 1 .. n, m # 0 PROVE m <= n
      <4>1. m \in 1 .. m
        BY <3>1
      <4> QED
        BY <3>1, <4>1
    <3> QED
      BY <3>1
  <2> QED
    BY <1>5, <2>1, <2>2
<1>7. \A i \in 1 .. Len(s) - 1 : Front(s)[i] = s[i]
  BY <1>5
<1> QED
  BY <1>2, <1>3, <1>4, <1>6, <1>7 DEF IsSequence

---------------------------------------------------------------------------
(* The lock *)

\* A step of one request preserves the invariant if it leaves its own
\* transaction in order and takes the lock from nobody else.
LEMMA LockStep ==
  ASSUME LockInv, NEW r \in Requests, NEW t, tx' = [tx EXCEPT ![r] = t],
         holder' = holder \/ (holder \in {Nobody, r} /\ holder' \in {Nobody, r}),
         OwnLock(t, r, holder')
  PROVE  LockInv'
<1>1. tx' = [q \in Requests |-> IF q = r THEN t ELSE tx[q]]
  BY DEF LockInv
<1>2. holder' \in Requests \cup {Nobody}
  BY DEF LockInv
<1>3. ASSUME NEW q \in Requests PROVE OwnLock(tx'[q], q, holder')
  <2>1. CASE q = r
    BY <1>1, <2>1
  <2>2. CASE q # r
    <3>1. tx'[q] = tx[q] /\ OwnLock(tx[q], q, holder)
      BY <1>1, <2>2 DEF LockInv
    <3>2. holder = q => holder' = q
      BY <2>2, RequestsAssumption
    <3> QED
      BY <3>1, <3>2 DEF OwnLock
  <2> QED
    BY <2>1, <2>2
<1> QED
  BY <1>1, <1>2, <1>3 DEF LockInv

\* At the start the lock is free and no transaction is open.
LEMMA LockInit == Init => LockInv
<1> SUFFICES ASSUME Init PROVE LockInv
  OBVIOUS
<1>1. \A r \in Requests : OwnLock(Idle, r, Nobody)
  BY EmptyIsSequence DEF OwnLock, Idle, Tx
<1> QED
  BY <1>1 DEF Init, LockInv

\* A rollback to a savepoint gives the lock back only if it was taken since,
\* and then nothing inserted before the savepoint needs it.
LEMMA LockRollbackToSavepoint ==
  ASSUME LockInv, NEW r \in Requests, RollbackToSavepoint(r)
  PROVE  LockInv'
<1> DEFINE s == tx[r].saved
           point == Last(s)
           t == Open(tx[r].org, point.inserted, Front(s))
<1>1. s # <<>> /\ tx' = [tx EXCEPT ![r] = t]
      /\ holder' = IF point.locked THEN holder ELSE GivenBack(r)
  BY DEF RollbackToSavepoint, KeepsLock
<1>2. OwnLock(tx[r], r, holder) /\ IsSequence(s)
  BY DEF LockInv, OwnLock
<1>3. /\ IsSequence(Front(s)) /\ Len(s) \in Nat \ {0} /\ Len(Front(s)) = Len(s) - 1
      /\ \A i \in 1 .. Len(s) - 1 : Front(s)[i] = s[i]
      /\ point = s[Len(s)]
  BY <1>1, <1>2, FrontIsSequence
<1>4. /\ t.pc = "open" /\ t.inserted = point.inserted /\ t.saved = Front(s)
  BY DEF Open, Tx
<1>5. Len(s) \in 1 .. Len(s)
  BY <1>3
<1>6. point.inserted # {} => point.locked
  BY <1>2, <1>3, <1>5 DEF OwnLock
<1>7. point.locked => holder = r /\ holder' = r
  BY <1>1, <1>2, <1>3, <1>5 DEF OwnLock
<1>8. ASSUME NEW i \in 1 .. Len(Front(s))
      PROVE  /\ Front(s)[i].inserted # {} => Front(s)[i].locked
             /\ Front(s)[i].locked => holder' = r
             /\ \A j \in i .. Len(Front(s)) : Front(s)[i].locked => Front(s)[j].locked
  <2>1. i \in 1 .. Len(s) /\ Front(s)[i] = s[i] /\ Len(s) \in i .. Len(s)
    BY <1>3
  <2>2. \A j \in i .. Len(Front(s)) : j \in i .. Len(s) /\ Front(s)[j] = s[j]
    BY <1>3
  <2>3. s[i].locked => point.locked
    BY <1>2, <1>3, <2>1 DEF OwnLock
  <2> QED
    BY <1>2, <1>7, <2>1, <2>2, <2>3 DEF OwnLock
<1>9. OwnLock(t, r, holder')
  BY <1>3, <1>4, <1>6, <1>7, <1>8 DEF OwnLock
<1>10. holder' = holder \/ (holder \in {Nobody, r} /\ holder' \in {Nobody, r})
  BY <1>1 DEF GivenBack
<1> QED
  BY <1>1, <1>9, <1>10, LockStep

\* The end of a transaction gives the lock back and leaves nothing unseen.
LEMMA LockRollback ==
  ASSUME LockInv, NEW r \in Requests,
         tx' = [tx EXCEPT ![r] = Idle], holder' = GivenBack(r)
  PROVE  LockInv'
<1>1. OwnLock(Idle, r, holder')
  BY EmptyIsSequence DEF OwnLock, Idle, Tx
<1>2. holder' = holder \/ (holder \in {Nobody, r} /\ holder' \in {Nobody, r})
  BY DEF GivenBack
<1> QED
  BY <1>1, <1>2, LockStep

\* One step per action of a request.
LEMMA LockNext == LockInv /\ [Next]_vars => LockInv'
<1> SUFFICES ASSUME LockInv, [Next]_vars PROVE LockInv'
  OBVIOUS
<1>1. ASSUME NEW r \in Requests, NEW org \in Orgs, Begin(r, org) PROVE LockInv'
  <2>1. OwnLock(Open(org, {}, <<>>), r, holder')
    BY EmptyIsSequence DEF OwnLock, Open, Tx
  <2> QED
    BY <1>1, <2>1, LockStep DEF Begin
<1>2. ASSUME NEW r \in Requests, NEW content \in Contents, AskForLock(r, content) PROVE LockInv'
  <2>1. OwnLock(Writing(tx[r], "waiting", content, EmptyHead), r, holder')
    BY <1>2 DEF AskForLock, LockInv, OwnLock, Writing, Tx
  <2> QED
    BY <1>2, <2>1, LockStep DEF AskForLock
<1>3. ASSUME NEW r \in Requests, Acquire(r) PROVE LockInv'
  <2>1. OwnLock(Writing(tx[r], "locked", tx[r].content, EmptyHead), r, holder')
    BY <1>3 DEF Acquire, LockInv, OwnLock, Writing, Tx
  <2> QED
    BY <1>3, <2>1, LockStep DEF Acquire, LockIsFree
<1>4. ASSUME NEW r \in Requests, ReadHead(r) PROVE LockInv'
  <2>1. OwnLock(Writing(tx[r], "read", tx[r].content, ChainHead(Visible(r))), r, holder')
    BY <1>4 DEF ReadHead, LockInv, OwnLock, Writing, Tx
  <2> QED
    BY <1>4, <2>1, LockStep DEF ReadHead
<1>5. ASSUME NEW r \in Requests, Insert(r) PROVE LockInv'
  <2>1. OwnLock(Open(tx[r].org, tx[r].inserted \cup {NewRow(r)}, tx[r].saved), r, holder')
    BY <1>5 DEF Insert, LockInv, OwnLock, Open, Tx
  <2> QED
    BY <1>5, <2>1, LockStep DEF Insert
<1>6. ASSUME NEW r \in Requests, Savepoint(r) PROVE LockInv'
  <2> DEFINE s == tx[r].saved
             point == [inserted |-> tx[r].inserted, locked |-> holder = r]
             t == Open(tx[r].org, tx[r].inserted, Append(s, point))
  <2>1. OwnLock(tx[r], r, holder) /\ IsSequence(s)
    BY DEF LockInv, OwnLock
  <2>2. /\ IsSequence(Append(s, point))
        /\ Len(s) \in Nat /\ Len(Append(s, point)) = Len(s) + 1
        /\ \A i \in 1 .. Len(s) : Append(s, point)[i] = s[i]
        /\ Append(s, point)[Len(s) + 1] = point
    BY <2>1, AppendIsSequence
  <2>3. holder' = holder /\ tx' = [tx EXCEPT ![r] = t]
    BY <1>6 DEF Savepoint
  <2>4. /\ point.inserted # {} => point.locked
        /\ point.locked => holder' = r
        /\ holder = r => point.locked
    BY <2>1, <2>3 DEF OwnLock
  <2>5. t.pc = "open" /\ t.inserted = tx[r].inserted /\ t.saved = Append(s, point)
    BY DEF Open, Tx
  <2> HIDE DEF point, t
  <2>6. ASSUME NEW i \in 1 .. Len(s) + 1
        PROVE  /\ Append(s, point)[i].inserted # {} => Append(s, point)[i].locked
               /\ Append(s, point)[i].locked => holder' = r
               /\ \A j \in i .. Len(s) + 1 :
                    Append(s, point)[i].locked => Append(s, point)[j].locked
    <3>1. CASE i = Len(s) + 1
      <4>1. \A j \in i .. Len(s) + 1 : j = i
        BY <2>2, <3>1
      <4> QED
        BY <2>2, <2>4, <3>1, <4>1
    <3>2. CASE i # Len(s) + 1
      <4>1. i \in 1 .. Len(s) /\ Append(s, point)[i] = s[i]
        BY <2>2, <3>2
      <4>2. /\ s[i].inserted # {} => s[i].locked
            /\ s[i].locked => holder = r
            /\ \A j \in i .. Len(s) : s[i].locked => s[j].locked
        BY <2>1, <4>1 DEF OwnLock
      <4>3. ASSUME NEW j \in i .. Len(s) + 1, s[i].locked PROVE Append(s, point)[j].locked
        <5>1. CASE j = Len(s) + 1
          BY <2>2, <2>4, <4>2, <4>3, <5>1
        <5>2. CASE j # Len(s) + 1
          <6>1. j \in i .. Len(s) /\ Append(s, point)[j] = s[j]
            BY <2>2, <4>1, <5>2
          <6> QED
            BY <4>2, <4>3, <6>1
        <5> QED
          BY <5>1, <5>2
      <4> QED
        BY <2>3, <4>1, <4>2, <4>3
    <3> QED
      BY <3>1, <3>2
  <2>7. OwnLock(t, r, holder')
    BY <2>1, <2>2, <2>3, <2>5, <2>6 DEF OwnLock
  <2> QED
    BY <2>3, <2>7, LockStep
<1>7. ASSUME NEW r \in Requests, ReleaseSavepoint(r) PROVE LockInv'
  <2> DEFINE s == tx[r].saved
  <2>1. OwnLock(tx[r], r, holder) /\ IsSequence(s) /\ s # <<>>
    BY <1>7 DEF LockInv, OwnLock, ReleaseSavepoint
  <2>2. /\ IsSequence(Front(s)) /\ Len(s) \in Nat \ {0} /\ Len(Front(s)) = Len(s) - 1
        /\ \A i \in 1 .. Len(s) - 1 : Front(s)[i] = s[i]
    BY <2>1, FrontIsSequence
  <2>3. holder' = holder
    BY <1>7 DEF ReleaseSavepoint
  <2>4. ASSUME NEW i \in 1 .. Len(Front(s))
        PROVE  /\ i \in 1 .. Len(s) /\ Front(s)[i] = s[i]
               /\ \A j \in i .. Len(Front(s)) : j \in i .. Len(s) /\ Front(s)[j] = s[j]
    <3>1. \A j \in i .. Len(Front(s)) : j \in 1 .. Len(s) - 1 /\ j \in i .. Len(s)
      BY <2>2
    <3>2. i \in 1 .. Len(s) /\ i \in i .. Len(Front(s))
      BY <2>2
    <3> QED
      BY <2>2, <3>1, <3>2
  <2> DEFINE t == Open(tx[r].org, tx[r].inserted, Front(s))
  <2>5. t.pc = "open" /\ t.inserted = tx[r].inserted /\ t.saved = Front(s)
    BY DEF Open, Tx
  <2>6. tx' = [tx EXCEPT ![r] = t]
    BY <1>7 DEF ReleaseSavepoint
  <2> HIDE DEF t
  <2>7. ASSUME NEW i \in 1 .. Len(Front(s))
        PROVE  /\ Front(s)[i].inserted # {} => Front(s)[i].locked
               /\ Front(s)[i].locked => holder' = r
               /\ \A j \in i .. Len(Front(s)) : Front(s)[i].locked => Front(s)[j].locked
    BY <2>1, <2>3, <2>4 DEF OwnLock
  <2>8. OwnLock(t, r, holder')
    BY <2>1, <2>2, <2>3, <2>5, <2>7 DEF OwnLock
  <2> QED
    BY <2>3, <2>6, <2>8, LockStep
<1>8. ASSUME NEW r \in Requests, Commit(r) \/ Rollback(r) PROVE LockInv'
  BY <1>8, LockRollback DEF Commit, Rollback
<1>9. ASSUME NEW r \in Requests, TimeOut(r) PROVE LockInv'
  BY <1>9, LockRollback, LockRollbackToSavepoint DEF TimeOut, Rollback
<1>10. ASSUME NEW org \in Orgs, RecordHead(org) PROVE LockInv'
  BY <1>10 DEF RecordHead, LockInv
<1>11. CASE UNCHANGED vars
  BY <1>11 DEF vars, LockInv
<1> QED
  BY <1>1, <1>2, <1>3, <1>4, <1>5, <1>6, <1>7, <1>8, <1>9, <1>10, <1>11,
     LockRollbackToSavepoint DEF Next

\* Uncommitted events are never exposed to another writer: through every
\* savepoint of every request, whoever has some holds the chain lock.
THEOREM UnseenEventsAreLocked == Spec => []UnseenEventsHoldTheLock
<1>1. LockInv => UnseenEventsHoldTheLock
  BY DEF LockInv, OwnLock, UnseenEventsHoldTheLock
<1> QED
  BY <1>1, LockInit, LockNext, PTL DEF Spec

---------------------------------------------------------------------------
(* The head a request has read *)

\* f lists the rows as a chain of n events of the tenant: event i stands at
\* position i, over the hash of the event before it.
Lists(f, n, rows, org) ==
  /\ f \in [1 .. n -> rows]
  /\ \A row \in rows : \E i \in 1 .. n : f[i] = row
  /\ \A i \in 1 .. n : f[i] = Row(HashBefore(f, i), i, org, f[i].content)

IsChain(rows, org) == \E n \in Nat : \E f : Lists(f, n, rows, org)

\* The rows are a chain for every tenant.
Chained(rows) ==
  /\ \A row \in rows : row.org \in Orgs
  /\ \A org \in Orgs : IsChain(OfTenant(rows, org), org)

\* What the transaction t sees, now and in every savepoint it can go back to,
\* is chained; and the head it goes by is the one it sees.
OwnHead(t, rows) ==
  /\ t.pc # "idle" => t.org \in Orgs
  /\ Chained(rows \cup t.inserted)
  /\ \A i \in 1 .. Len(t.saved) : Chained(rows \cup t.saved[i].inserted)
  /\ t.pc = "read" => t.head = ChainHead(OfTenant(rows \cup t.inserted, t.org))

HeadInv ==
  /\ LockInv
  /\ Chained(committed)
  /\ \A r \in Requests : OwnHead(tx[r], committed)

\* What a row of a chain is made of.
LEMMA RowFields ==
  ASSUME NEW prev, NEW seq, NEW org, NEW content
  PROVE  LET row == Row(prev, seq, org, content) IN
         /\ row.seq = seq /\ row.org = org /\ row.content = content /\ row.prev = prev
         /\ row.hash = HashOf(prev, seq, org, content)
BY DEF Row

\* The event a chain lists at a position says so itself.
LEMMA ListedRow ==
  ASSUME NEW f, NEW n \in Nat, NEW rows, NEW org, Lists(f, n, rows, org), NEW i \in 1 .. n
  PROVE  /\ f[i] \in rows /\ f[i].seq = i /\ f[i].org = org
         /\ f[i].prev = HashBefore(f, i)
         /\ f[i].hash = HashOf(HashBefore(f, i), i, org, f[i].content)
<1>1. f[i] \in rows /\ f[i] = Row(HashBefore(f, i), i, org, f[i].content)
  BY DEF Lists
<1> QED
  BY <1>1, RowFields

\* The head writeAuditTx reads is the last event of the chain.
LEMMA ChainHeadIsLast ==
  ASSUME NEW f, NEW n \in Nat, NEW rows, NEW org, Lists(f, n, rows, org)
  PROVE  ChainHead(rows) = [seq |-> n, hash |-> HashBefore(f, n + 1)]
<1>1. CASE n = 0
  <2>1. rows = {} /\ HashBefore(f, n + 1) = Genesis
    BY <1>1 DEF Lists, HashBefore
  <2> QED
    BY <1>1, <2>1 DEF ChainHead, EmptyHead
<1>2. CASE n # 0
  <2> DEFINE last == CHOOSE row \in rows : \A other \in rows : other.seq <= row.seq
  <2>1. n \in 1 .. n
    BY <1>2
  <2>2. f[n] \in rows /\ \A other \in rows : other.seq <= f[n].seq
    <3>1. f[n] \in rows /\ f[n].seq = n
      BY <2>1, ListedRow
    <3>2. ASSUME NEW other \in rows PROVE other.seq <= n
      <4>1. PICK i \in 1 .. n : f[i] = other
        BY DEF Lists
      <4> QED
        BY <4>1, ListedRow
    <3> QED
      BY <3>1, <3>2
  <2>3. last \in rows /\ \A other \in rows : other.seq <= last.seq
    BY <2>2
  <2>4. PICK i \in 1 .. n : f[i] = last
    BY <2>3 DEF Lists
  <2>5. i = n
    BY <2>1, <2>2, <2>3, <2>4, ListedRow
  <2>6. last = f[n] /\ f[n].seq = n /\ rows # {}
    BY <2>1, <2>3, <2>4, <2>5, ListedRow
  <2>7. HashBefore(f, n + 1) = f[n].hash
    BY <1>2 DEF HashBefore
  <2> QED
    BY <2>6, <2>7 DEF ChainHead
<1> QED
  BY <1>1, <1>2

\* A row over the hash of the head, one position after it, extends the chain.
LEMMA NextEventIsListed ==
  ASSUME NEW f, NEW n \in Nat, NEW rows, NEW org, Lists(f, n, rows, org),
         NEW new, NEW content, new = Row(HashBefore(f, n + 1), n + 1, org, content)
  PROVE  IsChain(rows \cup {new}, org)
<1> DEFINE g == [i \in 1 .. n + 1 |-> IF i = n + 1 THEN new ELSE f[i]]
<1>1. \A i \in 1 .. n : g[i] = f[i]
  OBVIOUS
<1>2. g[n + 1] = new /\ new.content = content
  BY RowFields
<1>3. \A i \in 1 .. n + 1 : HashBefore(g, i) = HashBefore(f, i)
  <2>1. \A i \in 1 .. n + 1 : i = 1 \/ i - 1 \in 1 .. n
    OBVIOUS
  <2> QED
    BY <1>1, <2>1 DEF HashBefore
<1>4. g \in [1 .. n + 1 -> rows \cup {new}]
  BY DEF Lists
<1> HIDE DEF g
<1>5. \A row \in rows \cup {new} : \E i \in 1 .. n + 1 : g[i] = row
  BY <1>1, <1>2 DEF Lists
<1>6. ASSUME NEW i \in 1 .. n + 1 PROVE g[i] = Row(HashBefore(g, i), i, org, g[i].content)
  <2>1. CASE i = n + 1
    BY <1>2, <1>3, <2>1
  <2>2. CASE i # n + 1
    <3>1. i \in 1 .. n
      BY <2>2
    <3> QED
      BY <1>1, <1>3, <3>1 DEF Lists
  <2> QED
    BY <2>1, <2>2
<1>7. Lists(g, n + 1, rows \cup {new}, org)
  BY <1>4, <1>5, <1>6 DEF Lists
<1> QED
  BY <1>7 DEF IsChain

\* The row writeAuditTx inserts after the head it read keeps the tenant's rows
\* a chain, and the other tenants' rows as they were.
LEMMA NextEventIsChained ==
  ASSUME NEW rows, Chained(rows), NEW org \in Orgs, NEW head, NEW content, NEW new,
         head = ChainHead(OfTenant(rows, org)),
         new = Row(head.hash, head.seq + 1, org, content)
  PROVE  Chained(rows \cup {new})
<1>1. new.org = org
  BY RowFields
<1>2a. PICK n \in Nat : \E f : Lists(f, n, OfTenant(rows, org), org)
  BY DEF Chained, IsChain
<1>2. PICK f : Lists(f, n, OfTenant(rows, org), org)
  BY <1>2a
<1>3. new = Row(HashBefore(f, n + 1), n + 1, org, content)
  BY <1>2, ChainHeadIsLast
<1>4. IsChain(OfTenant(rows, org) \cup {new}, org)
  BY <1>2, <1>3, NextEventIsListed
<1>5. \A o : OfTenant(rows \cup {new}, o) =
               IF o = org THEN OfTenant(rows, org) \cup {new} ELSE OfTenant(rows, o)
  BY <1>1 DEF OfTenant
<1> QED
  BY <1>1, <1>4, <1>5 DEF Chained

\* A step that commits nothing leaves every other transaction's head alone.
LEMMA HeadStep ==
  ASSUME HeadInv, LockInv', NEW r \in Requests, NEW t, tx' = [tx EXCEPT ![r] = t],
         committed' = committed, OwnHead(t, committed)
  PROVE  HeadInv'
<1>1. \A q \in Requests : tx'[q] = IF q = r THEN t ELSE tx[q]
  BY DEF HeadInv, LockInv
<1> QED
  BY <1>1 DEF HeadInv

\* What becomes visible to everybody is what one request has inserted; it had
\* the lock for it, so no other request has read a head or inserted anything.
LEMMA HeadCommit ==
  ASSUME HeadInv, LockInv', NEW r \in Requests, Commit(r)
  PROVE  HeadInv'
<1>1. /\ committed' = committed \cup tx[r].inserted
      /\ \A q \in Requests : tx'[q] = IF q = r THEN Idle ELSE tx[q]
  BY DEF Commit, HeadInv, LockInv
<1>2. Chained(committed')
  BY <1>1 DEF HeadInv, OwnHead
<1>3. OwnHead(Idle, committed')
  <2>1. Idle.inserted = {} /\ Idle.saved = <<>> /\ Idle.pc = "idle"
    BY DEF Idle, Tx
  <2> QED
    BY <1>2, <2>1, EmptyIsSequence DEF OwnHead
<1>4. ASSUME NEW q \in Requests, q # r PROVE OwnHead(tx[q], committed')
  <2>1. OwnHead(tx[q], committed)
    BY DEF HeadInv
  <2>2. CASE tx[r].inserted = {}
    BY <1>1, <2>1, <2>2
  <2>3. CASE tx[r].inserted # {}
    <3>1. holder = r
      BY <2>3 DEF HeadInv, LockInv, OwnLock
    <3>2. tx[q].inserted = {} /\ tx[q].pc # "read"
      BY <1>4, <3>1 DEF HeadInv, LockInv, OwnLock
    <3>3. \A i \in 1 .. Len(tx[q].saved) : tx[q].saved[i].inserted = {}
      BY <1>4, <3>1 DEF HeadInv, LockInv, OwnLock
    <3>4. committed' \cup {} = committed'
      OBVIOUS
    <3> QED
      BY <1>2, <2>1, <3>2, <3>3, <3>4 DEF OwnHead
  <2> QED
    BY <2>2, <2>3
<1> QED
  BY <1>1, <1>2, <1>3, <1>4 DEF HeadInv

\* Going back to a savepoint goes back to what was chained then.
LEMMA HeadRollbackToSavepoint ==
  ASSUME HeadInv, LockInv', NEW r \in Requests, RollbackToSavepoint(r)
  PROVE  HeadInv'
<1> DEFINE s == tx[r].saved
           t == Open(tx[r].org, Last(s).inserted, Front(s))
<1>1. s # <<>> /\ tx' = [tx EXCEPT ![r] = t] /\ committed' = committed
  BY DEF RollbackToSavepoint
<1>2. IsSequence(s) /\ OwnHead(tx[r], committed)
  BY DEF HeadInv, LockInv, OwnLock
<1>3. /\ Len(s) \in Nat \ {0} /\ Len(Front(s)) = Len(s) - 1
      /\ \A i \in 1 .. Len(s) - 1 : Front(s)[i] = s[i]
      /\ Last(s) = s[Len(s)]
  BY <1>1, <1>2, FrontIsSequence
<1>4. /\ t.pc = "open" /\ t.inserted = Last(s).inserted /\ t.saved = Front(s)
      /\ t.org = tx[r].org
  BY DEF Open, Tx
<1>4a. tx[r].org \in Orgs
  BY <1>2 DEF RollbackToSavepoint, IsOpen, OwnHead
<1> HIDE DEF t
<1>5. Chained(committed \cup t.inserted)
  BY <1>2, <1>3, <1>4 DEF OwnHead
<1>6. \A i \in 1 .. Len(t.saved) : Chained(committed \cup t.saved[i].inserted)
  BY <1>2, <1>3, <1>4 DEF OwnHead
<1>7. OwnHead(t, committed)
  BY <1>4, <1>4a, <1>5, <1>6 DEF OwnHead
<1> QED
  BY <1>1, <1>7, HeadStep

\* Abandoning a transaction leaves nothing of it.
LEMMA HeadRollback ==
  ASSUME HeadInv, LockInv', NEW r \in Requests, Rollback(r)
  PROVE  HeadInv'
<1>1. Idle.inserted = {} /\ Idle.saved = <<>> /\ Idle.pc = "idle"
  BY DEF Idle, Tx
<1>2. OwnHead(Idle, committed)
  BY <1>1, EmptyIsSequence DEF OwnHead, HeadInv
<1> QED
  BY <1>2, HeadStep DEF Rollback

\* At the start nothing is committed and nothing is read.
LEMMA HeadInit == Init => HeadInv
<1> SUFFICES ASSUME Init PROVE HeadInv
  OBVIOUS
<1>1. Idle.inserted = {} /\ Idle.saved = <<>> /\ Idle.pc = "idle"
  BY DEF Idle, Tx
<1>2. committed = {} /\ Chained(committed)
  <2>1. \A org : Lists(<<>>, 0, {}, org) /\ OfTenant({}, org) = {}
    BY DEF Lists, OfTenant
  <2> QED
    BY <2>1 DEF Init, Chained, IsChain
<1>3. OwnHead(Idle, committed)
  BY <1>1, <1>2, EmptyIsSequence DEF OwnHead
<1> QED
  BY <1>2, <1>3, LockInit DEF Init, HeadInv

\* Every step keeps what its request sees chained.
LEMMA HeadNext == HeadInv /\ [Next]_vars => HeadInv'
<1> SUFFICES ASSUME HeadInv, [Next]_vars PROVE HeadInv'
  OBVIOUS
<1>0. LockInv /\ LockInv'
  BY LockNext DEF HeadInv
<1>1. ASSUME NEW r \in Requests, NEW org \in Orgs, Begin(r, org) PROVE HeadInv'
  <2> DEFINE t == Open(org, {}, <<>>)
  <2>1. t.inserted = {} /\ t.saved = <<>> /\ t.pc = "open" /\ t.org = org
    BY DEF Open, Tx
  <2>2. tx' = [tx EXCEPT ![r] = t] /\ committed' = committed
    BY <1>1 DEF Begin
  <2> HIDE DEF t
  <2>3. committed \cup t.inserted = committed /\ \A i \in 1 .. Len(t.saved) : FALSE
    BY <2>1, EmptyIsSequence
  <2>4. OwnHead(t, committed)
    BY <2>1, <2>3 DEF OwnHead, HeadInv
  <2> QED
    BY <1>0, <2>2, <2>4, HeadStep
<1>2. ASSUME NEW r \in Requests, NEW content \in Contents, AskForLock(r, content) PROVE HeadInv'
  <2>1. OwnHead(Writing(tx[r], "waiting", content, EmptyHead), committed)
    BY <1>2 DEF AskForLock, HeadInv, OwnHead, Writing, Tx
  <2> QED
    BY <1>0, <1>2, <2>1, HeadStep DEF AskForLock
<1>3. ASSUME NEW r \in Requests, Acquire(r) PROVE HeadInv'
  <2>1. OwnHead(Writing(tx[r], "locked", tx[r].content, EmptyHead), committed)
    BY <1>3 DEF Acquire, HeadInv, OwnHead, Writing, Tx
  <2> QED
    BY <1>0, <1>3, <2>1, HeadStep DEF Acquire
<1>4. ASSUME NEW r \in Requests, ReadHead(r) PROVE HeadInv'
  <2> DEFINE t == Writing(tx[r], "read", tx[r].content, ChainHead(Visible(r)))
  <2>1. /\ t.inserted = tx[r].inserted /\ t.saved = tx[r].saved /\ t.org = tx[r].org
        /\ t.head = ChainHead(OfTenant(committed \cup t.inserted, t.org))
    BY DEF Writing, Tx, Visible
  <2> HIDE DEF t
  <2>2. OwnHead(t, committed)
    BY <1>4, <2>1 DEF ReadHead, HeadInv, OwnHead
  <2>3. tx' = [tx EXCEPT ![r] = t] /\ committed' = committed
    BY <1>4 DEF ReadHead, t
  <2> QED
    BY <1>0, <2>2, <2>3, HeadStep
<1>5. ASSUME NEW r \in Requests, Insert(r) PROVE HeadInv'
  <2> DEFINE new == NewRow(r)
             t == Open(tx[r].org, tx[r].inserted \cup {new}, tx[r].saved)
             seen == committed \cup tx[r].inserted
  <2>1. /\ Chained(seen) /\ tx[r].head = ChainHead(OfTenant(seen, tx[r].org))
        /\ tx[r].org \in Orgs
    BY <1>5 DEF Insert, HeadInv, OwnHead
  <2>2. new = Row(tx[r].head.hash, tx[r].head.seq + 1, tx[r].org, tx[r].content)
    BY DEF NewRow
  <2>3. /\ t.inserted = tx[r].inserted \cup {new} /\ t.saved = tx[r].saved
        /\ t.pc = "open" /\ t.org = tx[r].org
    BY DEF Open, Tx
  <2>4. tx' = [tx EXCEPT ![r] = t] /\ committed' = committed
    BY <1>5 DEF Insert
  <2> HIDE DEF new, t
  <2>5. Chained(seen \cup {new})
    BY <2>1, <2>2, NextEventIsChained
  <2>6. seen \cup {new} = committed \cup t.inserted
    BY <2>3
  <2>7. OwnHead(t, committed)
    BY <2>1, <2>3, <2>5, <2>6 DEF HeadInv, OwnHead
  <2> QED
    BY <1>0, <2>4, <2>7, HeadStep
<1>6. ASSUME NEW r \in Requests, Savepoint(r) PROVE HeadInv'
  <2> DEFINE s == tx[r].saved
             point == [inserted |-> tx[r].inserted, locked |-> holder = r]
             t == Open(tx[r].org, tx[r].inserted, Append(s, point))
  <2>1. IsSequence(s) /\ OwnHead(tx[r], committed)
    BY DEF HeadInv, LockInv, OwnLock
  <2>2. /\ Len(s) \in Nat /\ Len(Append(s, point)) = Len(s) + 1
        /\ \A i \in 1 .. Len(s) : Append(s, point)[i] = s[i]
        /\ Append(s, point)[Len(s) + 1] = point
    BY <2>1, AppendIsSequence
  <2>3. point.inserted = tx[r].inserted
    OBVIOUS
  <2>4. /\ t.pc = "open" /\ t.inserted = tx[r].inserted /\ t.saved = Append(s, point)
        /\ t.org = tx[r].org
    BY DEF Open, Tx
  <2>5. tx' = [tx EXCEPT ![r] = t] /\ committed' = committed /\ tx[r].pc = "open"
    BY <1>6 DEF Savepoint
  <2> HIDE DEF point, t
  <2>6. ASSUME NEW i \in 1 .. Len(s) + 1 PROVE Chained(committed \cup Append(s, point)[i].inserted)
    <3>1. CASE i = Len(s) + 1
      BY <2>1, <2>2, <2>3, <3>1 DEF OwnHead
    <3>2. CASE i # Len(s) + 1
      <4>1. i \in 1 .. Len(s)
        BY <2>2, <3>2
      <4> QED
        BY <2>1, <2>2, <4>1 DEF OwnHead
    <3> QED
      BY <3>1, <3>2
  <2>7. OwnHead(t, committed)
    BY <2>1, <2>2, <2>4, <2>5, <2>6 DEF OwnHead
  <2> QED
    BY <1>0, <2>5, <2>7, HeadStep
<1>7. ASSUME NEW r \in Requests, ReleaseSavepoint(r) PROVE HeadInv'
  <2> DEFINE s == tx[r].saved
             t == Open(tx[r].org, tx[r].inserted, Front(s))
  <2>1. IsSequence(s) /\ s # <<>> /\ OwnHead(tx[r], committed)
    BY <1>7 DEF HeadInv, LockInv, OwnLock, ReleaseSavepoint
  <2>2. /\ Len(s) \in Nat \ {0} /\ Len(Front(s)) = Len(s) - 1
        /\ \A i \in 1 .. Len(s) - 1 : Front(s)[i] = s[i]
    BY <2>1, FrontIsSequence
  <2>3. /\ t.pc = "open" /\ t.inserted = tx[r].inserted /\ t.saved = Front(s)
        /\ t.org = tx[r].org
    BY DEF Open, Tx
  <2>4. tx' = [tx EXCEPT ![r] = t] /\ committed' = committed /\ tx[r].pc = "open"
    BY <1>7 DEF ReleaseSavepoint
  <2> HIDE DEF t
  <2>5. ASSUME NEW i \in 1 .. Len(t.saved) PROVE Chained(committed \cup t.saved[i].inserted)
    <3>1. i \in 1 .. Len(s) - 1 /\ i \in 1 .. Len(s) /\ t.saved[i] = s[i]
      BY <2>2, <2>3
    <3> QED
      BY <2>1, <3>1 DEF OwnHead
  <2>6. OwnHead(t, committed)
    BY <2>1, <2>3, <2>4, <2>5 DEF OwnHead
  <2> QED
    BY <1>0, <2>4, <2>6, HeadStep
<1>8. ASSUME NEW r \in Requests, TimeOut(r) PROVE HeadInv'
  BY <1>0, <1>8, HeadRollback, HeadRollbackToSavepoint DEF TimeOut
<1>9. ASSUME NEW org \in Orgs, RecordHead(org) PROVE HeadInv'
  BY <1>0, <1>9 DEF RecordHead, HeadInv
<1>10. CASE UNCHANGED vars
  BY <1>0, <1>10 DEF vars, HeadInv
<1> QED
  BY <1>0, <1>1, <1>2, <1>3, <1>4, <1>5, <1>6, <1>7, <1>8, <1>9, <1>10,
     HeadCommit, HeadRollback, HeadRollbackToSavepoint DEF Next

\* The unique index on tenant and position, the backstop of writeAuditTx,
\* never has to refuse an event: the place after the head a request has read
\* is still free when it inserts there.
THEOREM InsertsNeverCollide == Spec => []BackstopNeverFires
<1>1. HeadInv => BackstopNeverFires
  <2> SUFFICES ASSUME HeadInv, NEW r \in Requests, tx[r].pc = "read", NEW row \in Rows,
                      row.org = NewRow(r).org, row.seq = NewRow(r).seq
               PROVE  FALSE
    BY DEF BackstopNeverFires, Collides
  <2> DEFINE seen == committed \cup tx[r].inserted
  <2>1. NewRow(r).org = tx[r].org /\ NewRow(r).seq = tx[r].head.seq + 1
    BY DEF NewRow, Row
  <2>2. holder = r
    BY DEF HeadInv, LockInv, OwnLock
  <2>3. \A q \in Requests : q # r => tx[q].inserted = {}
    BY <2>2 DEF HeadInv, LockInv, OwnLock
  <2>4. row \in seen
    BY <2>3 DEF Rows
  <2>5. /\ Chained(seen) /\ tx[r].head = ChainHead(OfTenant(seen, tx[r].org))
        /\ tx[r].org \in Orgs
    BY DEF HeadInv, OwnHead
  <2>6a. PICK n \in Nat : \E f : Lists(f, n, OfTenant(seen, tx[r].org), tx[r].org)
    BY <2>5 DEF Chained, IsChain
  <2>6. PICK f : Lists(f, n, OfTenant(seen, tx[r].org), tx[r].org)
    BY <2>6a
  <2>7. tx[r].head.seq = n
    BY <2>5, <2>6, ChainHeadIsLast
  <2>8. row \in OfTenant(seen, tx[r].org)
    BY <2>1, <2>4 DEF OfTenant
  <2>9. PICK i \in 1 .. n : f[i] = row
    BY <2>6, <2>8 DEF Lists
  <2>10. row.seq = i
    BY <2>6, <2>9, ListedRow
  <2> QED
    BY <2>1, <2>7, <2>9, <2>10
<1> QED
  BY <1>1, HeadInit, HeadNext, PTL DEF Spec

---------------------------------------------------------------------------
(* Smallest sets and least numbers, in place of induction *)

\* A set of subsets of a finite set has one that contains no other of them.
LEMMA SmallestSet ==
  ASSUME NEW S, IsFiniteSet(S), NEW T, T \subseteq SUBSET S, T # {}
  PROVE  \E U \in T : \A V \in T : V \subseteq U => V = U
<1>1. IsWellFoundedOn(StrictSubsetOrdering(S), FiniteSubsetsOf(S))
  BY FS_StrictSubsetOrderingWellFounded
<1>2. T \subseteq FiniteSubsetsOf(S)
  BY FS_FiniteSubsetsOfFinite
<1>3. PICK U \in T : \A V \in T : <<V, U>> \notin StrictSubsetOrdering(S)
  BY <1>1, <1>2, WFMin, Zenon
<1>4. ASSUME NEW V \in T, V \subseteq U, V # U PROVE FALSE
  <2>1. <<V, U>> \in (SUBSET S) \X (SUBSET S)
    OBVIOUS
  <2>2. <<V, U>> \in StrictSubsetOrdering(S)
    BY <1>4, <2>1 DEF StrictSubsetOrdering
  <2> QED
    BY <1>3, <2>2
<1> QED
  BY <1>4

\* A set of natural numbers that is not empty has a least one.
LEMMA LeastExists ==
  ASSUME NEW S \in SUBSET Nat, S # {}
  PROVE  \E m \in S : \A k \in S : m <= k
<1>1. PICK n \in S : TRUE
  OBVIOUS
<1> DEFINE below == 0 .. n
           T == {0 .. k : k \in {j \in S : j <= n}}
<1>2. IsFiniteSet(below)
  BY <1>1, FS_Interval
<1>3. T \subseteq SUBSET below /\ T # {}
  BY <1>1
<1>4. \A m \in S : m <= n => 0 .. m \in T
  OBVIOUS
<1>5. \A U \in T : \E m \in S : m <= n /\ U = 0 .. m
  OBVIOUS
<1> HIDE DEF T, below
<1>6. PICK U \in T : \A V \in T : V \subseteq U => V = U
  BY <1>2, <1>3, SmallestSet
<1>7. PICK m \in S : m <= n /\ U = 0 .. m
  BY <1>5
<1>8. ASSUME NEW k \in S, k < m PROVE FALSE
  <2>1. 0 .. k \in T /\ 0 .. k \subseteq U
    BY <1>1, <1>4, <1>7, <1>8
  <2>2. 0 .. k = 0 .. m
    BY <1>6, <1>7, <2>1
  <2>3. m \in 0 .. m
    OBVIOUS
  <2> QED
    BY <1>8, <2>2, <2>3
<1> QED
  BY <1>8

\* The only increasing function from 1 .. n to 1 .. n is the identity.
LEMMA IncreasingIsIdentity ==
  ASSUME NEW n \in Nat, NEW s \in [1 .. n -> 1 .. n],
         \A i, j \in 1 .. n : i < j => s[i] < s[j]
  PROVE  \A i \in 1 .. n : s[i] = i
<1>1. ASSUME NEW low \in 1 .. n, s[low] < low PROVE FALSE
  <2> DEFINE S == {i \in 1 .. n : s[i] < i}
  <2>0. S \in SUBSET Nat /\ S # {}
    BY <1>1
  <2>1. PICK m \in S : \A k \in S : m <= k
    BY <2>0, LeastExists
  <2>2. m # 1 /\ m - 1 \in 1 .. n /\ m \in 1 .. n
    BY <2>1
  <2>3. m - 1 \notin S
    BY <2>1, <2>2
  <2>4. s[m - 1] >= m - 1 /\ s[m - 1] < s[m] /\ s[m] < m
    BY <2>1, <2>2, <2>3
  <2> QED
    BY <2>2, <2>4
<1>2. ASSUME NEW high \in 1 .. n, s[high] > high PROVE FALSE
  <2> DEFINE S == {k \in Nat : k < n /\ s[n - k] > n - k}
  <2>1. n - high \in S
    BY <1>2
  <2>2. PICK m \in S : \A k \in S : m <= k
    BY <2>1, LeastExists
  <2>3. n - m \in 1 .. n /\ s[n - m] > n - m
    BY <2>2
  <2>4. m # 0 /\ m \in Nat
    BY <2>2, <2>3
  <2>5. m - 1 \in Nat /\ m - 1 < n /\ n - (m - 1) = n - m + 1
    BY <2>2, <2>4
  <2>6. ~ s[n - m + 1] > n - m + 1
    <3>1. m - 1 \in S <=> s[n - (m - 1)] > n - (m - 1)
      BY <2>5
    <3>2. m - 1 \notin S
      <4> HIDE DEF S
      <4> QED
        BY <2>2, <2>4
    <3> QED
      BY <2>5, <3>1, <3>2
  <2>7. n - m + 1 \in 1 .. n /\ s[n - m + 1] <= n - m + 1
    BY <2>3, <2>4, <2>6
  <2>8. s[n - m] < s[n - m + 1]
    BY <2>3, <2>7
  <2> QED
    BY <2>3, <2>7, <2>8
<1> QED
  BY <1>1, <1>2

---------------------------------------------------------------------------
(* What verification makes of a chain *)

\* Sorting the rows of a chain by position gives back its events in order.
LEMMA ChainInOrder ==
  ASSUME NEW f, NEW n \in Nat, NEW rows, NEW org, Lists(f, n, rows, org)
  PROVE  InOrder(rows) = f
<1> DEFINE Sorted(s) == \A i, j \in DOMAIN s : i < j => s[i].seq <= s[j].seq
           sorted == InOrder(rows)
<1>1. f \in [1 .. n -> rows] /\ \A i \in 1 .. n : f[i].seq = i
  <2>1. \A i \in 1 .. n : f[i].seq = i
    BY ListedRow
  <2> QED
    BY <2>1 DEF Lists
<1>2. IsFiniteSet(rows) /\ Cardinality(rows) = n
  <2>1. f \in Bijection(1 .. n, rows)
    BY <1>1 DEF Lists, Bijection, Injection, Surjection, IsInjective
  <2>2. ExistsBijection(1 .. n, rows)
    BY <2>1 DEF ExistsBijection
  <2>3. IsFiniteSet(1 .. n) /\ Cardinality(1 .. n) = n
    BY FS_Interval
  <2> QED
    BY <2>2, <2>3, FS_Bijection
<1>3. SetToSeqs(rows) = {s \in [1 .. n -> rows] : \A i, j \in 1 .. n : i # j => s[i] # s[j]}
  BY <1>2 DEF SetToSeqs
<1>4. f \in SetToSeqs(rows) /\ Sorted(f)
  BY <1>1, <1>3
<1>5. sorted \in SetToSeqs(rows) /\ Sorted(sorted)
  BY <1>4 DEF InOrder
<1> HIDE DEF sorted
<1>6. sorted \in [1 .. n -> rows] /\ \A i, j \in 1 .. n : i # j => sorted[i] # sorted[j]
  BY <1>3, <1>5
<1> DEFINE at == [i \in 1 .. n |-> sorted[i].seq]
<1>7. \A i \in 1 .. n : sorted[i].seq \in 1 .. n /\ sorted[i] = f[sorted[i].seq]
  <2>1. ASSUME NEW i \in 1 .. n PROVE sorted[i].seq \in 1 .. n /\ sorted[i] = f[sorted[i].seq]
    <3>1. PICK k \in 1 .. n : f[k] = sorted[i]
      BY <1>6 DEF Lists
    <3> QED
      BY <1>1, <3>1
  <2> QED
    BY <2>1
<1>8. at \in [1 .. n -> 1 .. n] /\ \A i \in 1 .. n : at[i] = sorted[i].seq
  BY <1>7
<1>9. \A i, j \in 1 .. n : i < j => at[i] < at[j]
  <2>1. ASSUME NEW i \in 1 .. n, NEW j \in 1 .. n, i < j PROVE at[i] < at[j]
    <3>1. at[i] <= at[j]
      BY <1>5, <1>6, <1>8, <2>1
    <3>2. at[i] # at[j]
      BY <1>6, <1>7, <1>8, <2>1
    <3> QED
      BY <1>8, <3>1, <3>2
  <2> QED
    BY <2>1
<1> HIDE DEF at
<1>10. \A i \in 1 .. n : at[i] = i
  BY <1>8, <1>9, IncreasingIsIdentity
<1>11. \A i \in 1 .. n : sorted[i] = f[i]
  BY <1>7, <1>8, <1>10
<1>12. sorted = f
  BY <1>1, <1>6, <1>11
<1> QED
  BY <1>12 DEF sorted

\* A chain verifies, by itself and against the head of any event in it.
LEMMA ChainVerifies ==
  ASSUME NEW rows, NEW org, IsChain(rows, org), NEW head,
         head = NoHead \/ \E row \in rows : head.seq = row.seq /\ head.hash = row.hash
  PROVE  VerifyAuditChain(rows, head).ok
<1>1a. PICK n \in Nat : \E f : Lists(f, n, rows, org)
  BY DEF IsChain
<1>1. PICK f : Lists(f, n, rows, org)
  BY <1>1a
<1>2. InOrder(rows) = f /\ f \in [1 .. n -> rows]
  <2>1. InOrder(rows) = f
    BY <1>1, ChainInOrder
  <2> QED
    BY <1>1, <2>1 DEF Lists
<1>3. Len(f) = n
  BY <1>2
<1>4. \A i \in 1 .. Len(f) : RowHolds(f, i)
  <2>1. ASSUME NEW i \in 1 .. n PROVE RowHolds(f, i)
    <3>1. /\ f[i].seq = i /\ f[i].org = org /\ f[i].prev = HashBefore(f, i)
          /\ f[i].hash = HashOf(HashBefore(f, i), i, org, f[i].content)
      BY <1>1, ListedRow
    <3> QED
      BY <3>1 DEF RowHolds, Position
  <2> QED
    BY <1>3, <2>1
<1>5. HeadHolds(f, head)
  <2>1. CASE head = NoHead
    BY <2>1 DEF HeadHolds
  <2>2. CASE \E row \in rows : head.seq = row.seq /\ head.hash = row.hash
    <3>1. PICK row \in rows : head.seq = row.seq /\ head.hash = row.hash
      BY <2>2
    <3>2. PICK i \in 1 .. n : f[i] = row
      BY <1>1 DEF Lists
    <3>3. row.seq = i
      BY <1>1, <3>2, ListedRow
    <3> QED
      BY <1>3, <3>1, <3>2, <3>3 DEF HeadHolds
  <2> QED
    BY <2>1, <2>2
<1>6. {i \in 1 .. Len(f) : ~RowHolds(f, i)} = {}
  BY <1>4
<1>7. VerifyAuditChain(rows, head) = [ok |-> HeadHolds(f, head), checked |-> Len(f)]
  BY <1>2, <1>6, Zenon DEF VerifyAuditChain
<1> QED
  BY <1>5, <1>7

\* A head recorded for a chain is that of an event in it, unless it had none.
AnchorInv ==
  /\ HeadInv
  /\ anchor = [o \in Orgs |-> anchor[o]]
  /\ \A org \in Orgs :
       \/ anchor[org] \in {NoHead, EmptyHead}
       \/ \E row \in OfTenant(committed, org) :
            anchor[org].seq = row.seq /\ anchor[org].hash = row.hash

\* A recorded head is the last committed event's.
LEMMA RecordedHead ==
  ASSUME HeadInv, NEW org \in Orgs
  PROVE  LET head == ChainHead(OfTenant(committed, org)) IN
         \/ head = EmptyHead
         \/ \E row \in OfTenant(committed, org) : head.seq = row.seq /\ head.hash = row.hash
<1> DEFINE mine == OfTenant(committed, org)
           head == ChainHead(mine)
<1>1a. PICK n \in Nat : \E f : Lists(f, n, mine, org)
  BY DEF HeadInv, Chained, IsChain
<1>1. PICK f : Lists(f, n, mine, org)
  BY <1>1a
<1> HIDE DEF mine
<1>2. head = [seq |-> n, hash |-> HashBefore(f, n + 1)]
  BY <1>1, ChainHeadIsLast
<1> HIDE DEF head
<1>3. CASE n = 0
  BY <1>2, <1>3 DEF HashBefore, EmptyHead, head, mine
<1>4. CASE n # 0
  <2>1. n \in 1 .. n /\ HashBefore(f, n + 1) = f[n].hash
    BY <1>4 DEF HashBefore
  <2>2. f[n] \in mine /\ f[n].seq = n
    BY <1>1, <2>1, ListedRow
  <2> QED
    BY <1>2, <2>1, <2>2 DEF head, mine
<1> QED
  BY <1>3, <1>4

\* Recording a head keeps it; nothing that is committed ever goes.
LEMMA AnchorNext == AnchorInv /\ [Next]_vars => AnchorInv'
<1> SUFFICES ASSUME AnchorInv, [Next]_vars PROVE AnchorInv'
  OBVIOUS
<1>1. HeadInv'
  BY HeadNext DEF AnchorInv
<1>2. ASSUME NEW org \in Orgs, RecordHead(org) PROVE AnchorInv'
  <2>1. /\ committed' = committed
        /\ anchor' = [o \in Orgs |-> IF o = org THEN ChainHead(OfTenant(committed, org))
                                     ELSE anchor[o]]
    BY <1>2 DEF RecordHead, AnchorInv
  <2> QED
    BY <1>1, <2>1, RecordedHead DEF AnchorInv
<1>3. CASE anchor' = anchor /\ committed \subseteq committed'
  <2>1. \A org : OfTenant(committed, org) \subseteq OfTenant(committed', org)
    BY <1>3 DEF OfTenant
  <2> QED
    BY <1>1, <1>3, <2>1 DEF AnchorInv
<1>4. CASE \A org \in Orgs : ~RecordHead(org)
  <2>1. anchor' = anchor /\ committed \subseteq committed'
    BY <1>4 DEF Next, vars, Begin, AskForLock, Acquire, ReadHead, Insert, TimeOut, Savepoint,
                ReleaseSavepoint, RollbackToSavepoint, Commit, Rollback
  <2> QED
    BY <1>3, <2>1
<1> QED
  BY <1>2, <1>4

\* Whatever requests interleave, nest, time out and abandon, every committed
\* chain verifies, against any head recorded for it earlier too.
THEOREM CommittedChainsAreValid == Spec => []CommittedChainsVerify
<1>1. Init => AnchorInv
  <2> SUFFICES ASSUME Init PROVE AnchorInv
    OBVIOUS
  <2> QED
    BY HeadInit DEF Init, AnchorInv
<1>2. AnchorInv => CommittedChainsVerify
  <2> SUFFICES ASSUME AnchorInv, NEW org \in Orgs
               PROVE  VerifyAuditChain(OfTenant(committed, org),
                        IF anchor[org] = EmptyHead THEN NoHead ELSE anchor[org]).ok
    BY DEF CommittedChainsVerify
  <2>1. IsChain(OfTenant(committed, org), org)
    BY DEF AnchorInv, HeadInv, Chained
  <2> QED
    BY <2>1, ChainVerifies DEF AnchorInv
<1> QED
  BY <1>1, <1>2, AnchorNext, PTL DEF Spec

---------------------------------------------------------------------------
(* What verification makes of any rows *)

\* Finitely many rows have a last one.
LEMMA LastRowExists ==
  ASSUME NEW S, IsFiniteSet(S), S # {}, \A row \in S : row.seq \in Nat
  PROVE  \E last \in S : \A row \in S : row.seq <= last.seq
<1> DEFINE HasLast(U) == \E last \in U : \A row \in U : row.seq <= last.seq
           T == {U \in SUBSET S : U # {} /\ ~HasLast(U)}
<1> SUFFICES ASSUME ~HasLast(S) PROVE FALSE
  OBVIOUS
<1>1. T \subseteq SUBSET S /\ T # {}
  <2>1. S \in T
    OBVIOUS
  <2> QED
    BY <2>1
<1> HIDE DEF T
<1>2. PICK U \in T : \A V \in T : V \subseteq U => V = U
  BY <1>1, SmallestSet
<1>3. U \in SUBSET S /\ U # {} /\ ~HasLast(U)
  BY <1>2 DEF T
<1>4. PICK x \in U : TRUE
  BY <1>3
<1>5. U \ {x} \notin T
  BY <1>2, <1>4
<1>6. CASE U \ {x} = {}
  <2>1. \A row \in U : row = x
    BY <1>6
  <2> QED
    BY <1>3, <1>4, <2>1
<1>7. CASE HasLast(U \ {x})
  <2>1. PICK y \in U \ {x} : \A row \in U \ {x} : row.seq <= y.seq
    BY <1>7
  <2>2. x.seq \in Nat /\ y.seq \in Nat /\ \A row \in U : row.seq \in Nat
    BY <1>3, <1>4, <2>1
  <2>3. CASE x.seq <= y.seq
    BY <1>3, <2>1, <2>3
  <2>4. CASE y.seq <= x.seq
    <3>1. \A row \in U : row.seq <= x.seq
      BY <2>1, <2>2, <2>4
    <3> QED
      BY <1>3, <1>4, <3>1
  <2> QED
    BY <2>2, <2>3, <2>4
<1> QED
  BY <1>3, <1>5, <1>6, <1>7 DEF T

\* s lists the n rows of U by position, each once.
SortedList(s, n, U) ==
  /\ s \in [1 .. n -> U]
  /\ \A i, j \in 1 .. n : i # j => s[i] # s[j]
  /\ \A i, j \in 1 .. n : i < j => s[i].seq <= s[j].seq

\* A last row can be put at the end of the list of the others.
LEMMA SortedListAppend ==
  ASSUME NEW U, NEW x \in U, \A row \in U : row.seq <= x.seq,
         NEW n \in Nat, NEW s, SortedList(s, n, U \ {x})
  PROVE  \E t : SortedList(t, n + 1, U)
<1> DEFINE t == [i \in 1 .. n + 1 |-> IF i = n + 1 THEN x ELSE s[i]]
<1>1. \A i \in 1 .. n : t[i] = s[i] /\ s[i] \in U /\ s[i] # x
  BY DEF SortedList
<1>2. t[n + 1] = x
  OBVIOUS
<1>3. \A i \in 1 .. n + 1 : i = n + 1 \/ i \in 1 .. n
  OBVIOUS
<1>4. t \in [1 .. n + 1 -> U]
  <2>1. \A i \in 1 .. n + 1 : t[i] \in U
    BY <1>1, <1>2, <1>3
  <2> QED
    BY <2>1
<1> HIDE DEF t
<1>5. \A i, j \in 1 .. n + 1 : i # j => t[i] # t[j]
  BY <1>1, <1>2, <1>3 DEF SortedList
<1>6. ASSUME NEW i \in 1 .. n + 1, NEW j \in 1 .. n + 1, i < j PROVE t[i].seq <= t[j].seq
  <2>1. CASE j = n + 1
    BY <1>2, <1>4, <2>1
  <2>2. CASE j # n + 1
    <3>1. i \in 1 .. n /\ j \in 1 .. n
      BY <1>6, <2>2
    <3> QED
      BY <1>1, <1>6, <3>1 DEF SortedList
  <2> QED
    BY <2>1, <2>2
<1>7. SortedList(t, n + 1, U)
  BY <1>4, <1>5, <1>6 DEF SortedList
<1> QED
  BY <1>7

\* Finitely many rows can be listed by position.
LEMMA SortedListExists ==
  ASSUME NEW S, IsFiniteSet(S), \A row \in S : row.seq \in Nat
  PROVE  \E s : SortedList(s, Cardinality(S), S)
<1> DEFINE Listed(U) == \E s : SortedList(s, Cardinality(U), U)
           T == {U \in SUBSET S : ~Listed(U)}
<1> SUFFICES ASSUME ~Listed(S) PROVE FALSE
  OBVIOUS
<1>1. T \subseteq SUBSET S /\ T # {}
  <2>1. S \in T
    OBVIOUS
  <2> QED
    BY <2>1
<1> HIDE DEF T
<1>2. PICK U \in T : \A V \in T : V \subseteq U => V = U
  BY <1>1, SmallestSet
<1>3. U \in SUBSET S /\ ~Listed(U)
  BY <1>2 DEF T
<1>4. IsFiniteSet(U) /\ \A row \in U : row.seq \in Nat
  BY <1>3, FS_Subset
<1>5. U # {}
  <2>1. SortedList(<<>>, 0, {})
    BY DEF SortedList
  <2>2. Cardinality({}) = 0
    BY FS_EmptySet
  <2> QED
    BY <1>3, <2>1, <2>2
<1>6. PICK x \in U : \A row \in U : row.seq <= x.seq
  BY <1>4, <1>5, LastRowExists
<1>7. Listed(U \ {x})
  BY <1>2, <1>3, <1>6 DEF T
<1>8. PICK s : SortedList(s, Cardinality(U \ {x}), U \ {x})
  BY <1>7
<1>9. Cardinality(U \ {x}) \in Nat /\ Cardinality(U) = Cardinality(U \ {x}) + 1
  <2>1. Cardinality(U \ {x}) = Cardinality(U) - 1 /\ IsFiniteSet(U \ {x})
    BY <1>4, <1>6, FS_RemoveElement
  <2>2. Cardinality(U) \in Nat /\ Cardinality(U \ {x}) \in Nat
    BY <1>4, <2>1, FS_CardinalityType
  <2> QED
    BY <2>1, <2>2
<1> QED
  BY <1>3, <1>6, <1>8, <1>9, SortedListAppend

\* What verifyAuditChain goes through are the rows by position.
LEMMA InOrderIsSorted ==
  ASSUME NEW rows, IsFiniteSet(rows), \A row \in rows : row.seq \in Nat
  PROVE  /\ Cardinality(rows) \in Nat
         /\ SortedList(InOrder(rows), Cardinality(rows), rows)
<1> DEFINE n == Cardinality(rows)
           Sorted(s) == \A i, j \in DOMAIN s : i < j => s[i].seq <= s[j].seq
<1>1. n \in Nat
  BY FS_CardinalityType
<1>2. SetToSeqs(rows) = {s \in [1 .. n -> rows] : \A i, j \in 1 .. n : i # j => s[i] # s[j]}
  BY DEF SetToSeqs
<1>3. PICK s : SortedList(s, n, rows)
  BY SortedListExists
<1>4. s \in SetToSeqs(rows) /\ Sorted(s)
  BY <1>2, <1>3 DEF SortedList
<1>5. InOrder(rows) \in SetToSeqs(rows) /\ Sorted(InOrder(rows))
  BY <1>4 DEF InOrder
<1>6. InOrder(rows) \in [1 .. n -> rows]
  BY <1>2, <1>5
<1> QED
  BY <1>1, <1>2, <1>5, <1>6 DEF SortedList

\* Rows that verify stand at their positions, each over the hash of the one
\* before it, and hold the head.
LEMMA VerifiedRows ==
  ASSUME NEW rows, IsFiniteSet(rows), \A row \in rows : row.seq \in Nat, NEW head,
         VerifyAuditChain(rows, head).ok
  PROVE  LET sorted == InOrder(rows)
             n == Cardinality(rows) IN
         /\ n \in Nat /\ Len(sorted) = n /\ sorted \in [1 .. n -> rows]
         /\ \A i \in 1 .. n :
              /\ sorted[i].seq = i /\ sorted[i].prev = HashBefore(sorted, i)
              /\ sorted[i].hash = HashOf(sorted[i].prev, i, sorted[i].org, sorted[i].content)
         /\ HeadHolds(sorted, head)
<1> DEFINE sorted == InOrder(rows)
           n == Cardinality(rows)
           broken == {i \in 1 .. Len(sorted) : ~RowHolds(sorted, i)}
<1>1. n \in Nat /\ sorted \in [1 .. n -> rows]
  BY InOrderIsSorted DEF SortedList
<1>2. Len(sorted) = n
  BY <1>1
<1>3. VerifyAuditChain(rows, head) =
        IF broken # {} THEN [ok |-> FALSE, checked |-> FirstOf(broken) - 1]
        ELSE [ok |-> HeadHolds(sorted, head), checked |-> Len(sorted)]
  BY DEF VerifyAuditChain
<1> HIDE DEF sorted, n
<1>4. broken = {} /\ HeadHolds(sorted, head)
  <2> HIDE DEF broken
  <2> QED
    BY <1>3
<1>5. \A i \in 1 .. n : RowHolds(sorted, i)
  BY <1>2, <1>4
<1>6. \A i \in 1 .. n :
        /\ sorted[i].seq = i /\ sorted[i].prev = HashBefore(sorted, i)
        /\ sorted[i].hash = HashOf(sorted[i].prev, i, sorted[i].org, sorted[i].content)
  BY <1>5 DEF RowHolds, Position
<1> QED
  BY <1>1, <1>2, <1>4, <1>6 DEF sorted, n

---------------------------------------------------------------------------
(* Tampering with a written chain *)

IsRow(row) ==
  row = [seq |-> row.seq, org |-> row.org, content |-> row.content, prev |-> row.prev,
         hash |-> row.hash]

\* The chain as it was written.
WrittenBy(chain, org) ==
  /\ IsSequence(chain)
  /\ \A i \in 1 .. Len(chain) :
       chain[i] = Row(HashBefore(chain, i), i, org, chain[i].content)

\* Any rows at all, whoever put them there.
IsTable(table) ==
  IsFiniteSet(table) /\ \A row \in table : IsRow(row) /\ row.seq \in Nat

TamperInv ==
  /\ WrittenBy(written, Org)
  /\ IsTable(stored)
  /\ \/ kept = NoHead
     \/ kept.seq \in 1 .. Len(written) /\ kept.hash = written[kept.seq].hash

\* Writing an event extends the chain and leaves what it had alone.
LEMMA WriteExtends ==
  ASSUME NEW chain, WrittenBy(chain, Org), NEW content, NEW row,
         row = Row(HashBefore(chain, Len(chain) + 1), Len(chain) + 1, Org, content)
  PROVE  /\ WrittenBy(Append(chain, row), Org)
         /\ Len(chain) \in Nat /\ Len(Append(chain, row)) = Len(chain) + 1
         /\ \A i \in 1 .. Len(chain) : Append(chain, row)[i] = chain[i]
         /\ \A i \in 1 .. Len(chain) + 1 :
              HashBefore(Append(chain, row), i) = HashBefore(chain, i)
<1> DEFINE longer == Append(chain, row)
           n == Len(chain)
<1>1. /\ IsSequence(longer) /\ n \in Nat /\ Len(longer) = n + 1
      /\ \A i \in 1 .. n : longer[i] = chain[i]
      /\ longer[n + 1] = row
  BY AppendIsSequence DEF WrittenBy
<1> HIDE DEF longer
<1>2. \A i \in 1 .. n + 1 : HashBefore(longer, i) = HashBefore(chain, i)
  <2>1. \A i \in 1 .. n + 1 : i = 1 \/ i - 1 \in 1 .. n
    BY <1>1
  <2> QED
    BY <1>1, <2>1 DEF HashBefore
<1>3. row.content = content
  BY RowFields
<1>4. \A i \in 1 .. n + 1 : longer[i] = Row(HashBefore(longer, i), i, Org, longer[i].content)
  <2>1. \A i \in 1 .. n + 1 : i = n + 1 \/ i \in 1 .. n
    BY <1>1
  <2> QED
    BY <1>1, <1>2, <1>3, <2>1 DEF WrittenBy
<1> QED
  BY <1>1, <1>2, <1>4 DEF WrittenBy, longer

\* Overwriting fields of a row leaves a row.
LEMMA AlteredIsRow ==
  ASSUME NEW row, IsRow(row), NEW seq \in Nat, NEW content, NEW org
  PROVE  LET altered == [row EXCEPT !.seq = seq, !.content = content, !.org = org] IN
         IsRow(altered) /\ altered.seq \in Nat
<1> DEFINE altered == [row EXCEPT !.seq = seq, !.content = content, !.org = org]
<1>1. altered = [seq |-> seq, org |-> org, content |-> content, prev |-> row.prev,
                 hash |-> row.hash]
  <2>1. PICK q, o, c, p, h :
          row = [seq |-> q, org |-> o, content |-> c, prev |-> p, hash |-> h]
    BY DEF IsRow
  <2> DEFINE first == [row EXCEPT !.seq = seq]
             second == [first EXCEPT !.content = content]
  <2>2. first = [seq |-> seq, org |-> o, content |-> c, prev |-> p, hash |-> h]
    BY <2>1
  <2> HIDE DEF first
  <2>3. second = [seq |-> seq, org |-> o, content |-> content, prev |-> p, hash |-> h]
    BY <2>2
  <2> HIDE DEF second
  <2>4. [second EXCEPT !.org = org] =
          [seq |-> seq, org |-> org, content |-> content, prev |-> p, hash |-> h]
    BY <2>3
  <2>5. altered = [second EXCEPT !.org = org]
    BY DEF second, first
  <2> HIDE DEF altered
  <2> QED
    BY <2>1, <2>4, <2>5
<1>2. altered.seq = seq /\ altered.org = org /\ altered.content = content
      /\ altered.prev = row.prev /\ altered.hash = row.hash
  BY <1>1
<1> HIDE DEF altered
<1>3. IsRow(altered) /\ altered.seq \in Nat
  BY <1>1, <1>2 DEF IsRow
<1> QED
  BY <1>3 DEF altered

\* A row written over any hash is one.
LEMMA NewIsRow ==
  ASSUME NEW prev, NEW seq \in Nat, NEW org, NEW content
  PROVE  LET row == Row(prev, seq, org, content) IN IsRow(row) /\ row.seq \in Nat
<1> DEFINE row == Row(prev, seq, org, content)
<1>1. /\ row.seq = seq /\ row.org = org /\ row.content = content /\ row.prev = prev
      /\ row = [seq |-> seq, org |-> org, content |-> content, prev |-> prev, hash |-> row.hash]
  BY DEF Row
<1> HIDE DEF row
<1>2. IsRow(row) /\ row.seq \in Nat
  BY <1>1 DEF IsRow
<1> QED
  BY <1>2 DEF row

\* An edit takes rows away and puts in at most one.
LEMMA EditStep ==
  ASSUME TamperInv, NEW changed, Edited(changed),
         NEW edited, changed \subseteq stored \cup {edited},
         IsRow(edited) /\ edited.seq \in Nat
  PROVE  TamperInv'
<1>1. stored' = changed /\ written' = written /\ kept' = kept
  BY DEF Edited
<1>2. IsFiniteSet(changed)
  <2>1. IsFiniteSet(stored \cup {edited})
    BY FS_AddElement DEF TamperInv, IsTable
  <2> QED
    BY <2>1, FS_Subset
<1> QED
  BY <1>1, <1>2 DEF TamperInv, IsTable

LEMMA TamperStart == TamperInit => TamperInv
<1> SUFFICES ASSUME TamperInit PROVE TamperInv
  OBVIOUS
<1>1. written = <<>> /\ stored = {} /\ kept = NoHead
  BY DEF TamperInit
<1>2. WrittenBy(<<>>, Org) /\ IsFiniteSet({})
  BY EmptyIsSequence, FS_EmptySet DEF WrittenBy
<1> QED
  BY <1>1, <1>2 DEF TamperInv, IsTable

\* Writing, recording a head and every edit preserve the invariant.
LEMMA TamperStep == TamperInv /\ [TamperNext]_TamperVars => TamperInv'
<1> SUFFICES ASSUME TamperInv, [TamperNext]_TamperVars PROVE TamperInv'
  OBVIOUS
<1>1. ASSUME NEW content \in Contents, Write(content) PROVE TamperInv'
  <2> DEFINE n == Len(written)
             row == Row(HashBefore(written, n + 1), n + 1, Org, content)
  <2>1. written' = Append(written, row) /\ stored' = stored \cup {row} /\ kept' = kept
    BY <1>1 DEF Write, NextPlace
  <2>2. /\ WrittenBy(Append(written, row), Org) /\ n \in Nat /\ Len(Append(written, row)) = n + 1
        /\ \A i \in 1 .. n : Append(written, row)[i] = written[i]
        /\ \A i \in 1 .. n + 1 : HashBefore(Append(written, row), i) = HashBefore(written, i)
    BY WriteExtends DEF TamperInv
  <2>3. IsRow(row) /\ row.seq \in Nat
    <3>1. n + 1 \in Nat
      BY <2>2
    <3> QED
      BY <3>1, NewIsRow
  <2>4. IsFiniteSet(stored \cup {row})
    BY FS_AddElement DEF TamperInv, IsTable
  <2>5. \/ kept = NoHead
        \/ /\ kept.seq \in 1 .. Len(Append(written, row))
           /\ kept.hash = Append(written, row)[kept.seq].hash
    BY <2>2 DEF TamperInv
  <2> HIDE DEF row
  <2> QED
    BY <2>1, <2>2, <2>3, <2>4, <2>5 DEF TamperInv, IsTable
<1>2. ASSUME KeepHead PROVE TamperInv'
  <2>1. /\ written # <<>> /\ written' = written /\ stored' = stored
        /\ kept' = [seq |-> Len(written), hash |-> written[Len(written)].hash]
    BY <1>2 DEF KeepHead, Last
  <2>2. Len(written) \in 1 .. Len(written)
    <3>1. Len(written) \in Nat \ {0}
      BY <2>1, FrontIsSequence DEF TamperInv, WrittenBy
    <3> QED
      BY <3>1
  <2> QED
    BY <2>1, <2>2 DEF TamperInv
<1>3. ASSUME Delete PROVE TamperInv'
  <2>1. PICK r \in stored : Edited(stored \ {r})
    BY <1>3 DEF Delete
  <2>2. stored \ {r} \subseteq stored \cup {r} /\ IsRow(r) /\ r.seq \in Nat
    BY DEF TamperInv, IsTable
  <2> QED
    BY <2>1, <2>2, EditStep
<1>4. ASSUME Alter PROVE TamperInv'
  <2>1. PICK r \in stored, seq \in 1 .. MaxEvents, content \in Contents, org \in {Org, OtherOrg} :
          Edited((stored \ {r}) \cup
            {[r EXCEPT !.seq = seq, !.content = content, !.org = org]})
    BY <1>4 DEF Alter
  <2> DEFINE altered == [r EXCEPT !.seq = seq, !.content = content, !.org = org]
  <2>2. seq \in Nat /\ IsRow(r)
    BY DEF TamperInv, IsTable
  <2>3. IsRow(altered) /\ altered.seq \in Nat
    BY <2>2, AlteredIsRow
  <2> HIDE DEF altered
  <2>4. (stored \ {r}) \cup {altered} \subseteq stored \cup {altered}
    OBVIOUS
  <2>5. Edited((stored \ {r}) \cup {altered})
    BY <2>1 DEF altered
  <2> QED
    BY <2>3, <2>4, <2>5, EditStep
<1>5. ASSUME Forge PROVE TamperInv'
  <2>1. PICK replaced \in {{}} \cup {{row} : row \in stored},
             prev \in {Genesis} \cup {row.hash : row \in stored},
             seq \in 1 .. MaxEvents, content \in Contents :
          Edited((stored \ replaced) \cup {Row(prev, seq, Org, content)})
    BY <1>5 DEF Forge
  <2> DEFINE forged == Row(prev, seq, Org, content)
  <2>2. IsRow(forged) /\ forged.seq \in Nat
    BY NewIsRow
  <2> HIDE DEF forged
  <2>3. (stored \ replaced) \cup {forged} \subseteq stored \cup {forged}
    OBVIOUS
  <2>4. Edited((stored \ replaced) \cup {forged})
    BY <2>1 DEF forged
  <2> QED
    BY <2>2, <2>3, <2>4, EditStep
<1>6. CASE UNCHANGED TamperVars
  BY <1>6 DEF TamperVars, TamperInv
<1> QED
  BY <1>1, <1>2, <1>3, <1>4, <1>5, <1>6 DEF TamperNext

\* A row whose hash is right and that of a written event is that event.
LEMMA SameHashSameEvent ==
  ASSUME NEW chain, NEW org, WrittenBy(chain, org), NEW row, IsRow(row),
         NEW k \in 1 .. Len(chain),
         row.hash = HashOf(row.prev, row.seq, row.org, row.content),
         row.hash = chain[k].hash
  PROVE  row = chain[k] /\ row.seq = k /\ row.prev = HashBefore(chain, k)
<1>1. chain[k] = Row(HashBefore(chain, k), k, org, chain[k].content)
  BY DEF WrittenBy
<1>2. chain[k].hash = HashOf(HashBefore(chain, k), k, org, chain[k].content)
  BY <1>1, RowFields
<1>3. /\ row.prev = HashBefore(chain, k) /\ row.seq = k /\ row.org = org
      /\ row.content = chain[k].content
  <2>1. HashOf(row.prev, row.seq, row.org, row.content) =
          HashOf(HashBefore(chain, k), k, org, chain[k].content)
    BY <1>2
  <2> QED
    BY <2>1 DEF HashOf, Payload
<1>4. row = [seq |-> row.seq, org |-> row.org, content |-> row.content, prev |-> row.prev,
             hash |-> row.hash]
  BY DEF IsRow
<1>5. row = [seq |-> k, org |-> org, content |-> chain[k].content,
             prev |-> HashBefore(chain, k),
             hash |-> HashOf(HashBefore(chain, k), k, org, chain[k].content)]
  BY <1>2, <1>3, <1>4
<1> QED
  BY <1>1, <1>3, <1>5 DEF Row

\* Every row of a table has its place in the order it is verified in.
LEMMA EveryRowIsSorted ==
  ASSUME NEW table, IsTable(table), NEW row \in table
  PROVE  \E i \in 1 .. Cardinality(table) : InOrder(table)[i] = row
<1> DEFINE sorted == InOrder(table)
           n == Cardinality(table)
<1>1. IsFiniteSet(table) /\ \A other \in table : other.seq \in Nat
  BY DEF IsTable
<1>2. n \in Nat /\ SortedList(sorted, n, table)
  BY <1>1, InOrderIsSorted
<1>3. Cardinality(1 .. n) = n
  <2>1. \A m \in Nat : Cardinality(1 .. m) = m
    BY FS_Interval
  <2> QED
    BY <1>2, <2>1
<1>4. sorted \in Injection(1 .. n, table)
  <2> HIDE DEF sorted, n
  <2> QED
    BY <1>2 DEF SortedList, Injection, IsInjective
<1>5. sorted \in Surjection(1 .. n, table)
  BY <1>1, <1>3, <1>4, FS_Injection
<1> QED
  BY <1>5 DEF Surjection

\* The hash of a row is over the row before it, whose hash is over the one
\* before that: rows that verify and a chain that share a hash share all that
\* is up to it.
LEMMA SharedHashSharedPast ==
  ASSUME NEW chain, NEW org, WrittenBy(chain, org), NEW table, IsTable(table),
         NEW head, VerifyAuditChain(table, head).ok,
         NEW k \in 1 .. Cardinality(table), NEW m \in 1 .. Len(chain),
         InOrder(table)[k].hash = chain[m].hash
  PROVE  k = m /\ \A i \in 1 .. m : chain[i] \in table
<1> DEFINE sorted == InOrder(table)
           n == Cardinality(table)
<1>1. /\ n \in Nat /\ sorted \in [1 .. n -> table]
      /\ \A i \in 1 .. n :
           /\ sorted[i].seq = i /\ sorted[i].prev = HashBefore(sorted, i)
           /\ sorted[i].hash = HashOf(sorted[i].prev, i, sorted[i].org, sorted[i].content)
  <2>1. IsFiniteSet(table) /\ \A row \in table : row.seq \in Nat
    BY DEF IsTable
  <2> QED
    BY <2>1, VerifiedRows
<1>2. k \in 1 .. n /\ sorted[k].hash = chain[m].hash
  OBVIOUS
<1> HIDE DEF sorted, n
\* A row with the hash of an event is that event.
<1>3. ASSUME NEW i \in 1 .. n, NEW j \in 1 .. Len(chain), sorted[i].hash = chain[j].hash
      PROVE  /\ sorted[i] = chain[j] /\ i = j /\ chain[j] \in table
             /\ HashBefore(sorted, i) = HashBefore(chain, j)
  <2>1. PICK row \in table : row = sorted[i]
    BY <1>1
  <2>2. /\ IsRow(row) /\ row.seq = i /\ row.prev = HashBefore(sorted, i)
        /\ row.hash = HashOf(row.prev, row.seq, row.org, row.content)
        /\ row.hash = chain[j].hash
    BY <1>1, <1>3, <2>1 DEF IsTable
  <2>3. row = chain[j] /\ row.seq = j /\ row.prev = HashBefore(chain, j)
    BY <2>2, SameHashSameEvent
  <2> QED
    BY <2>1, <2>2, <2>3
<1>4. k = m
  BY <1>2, <1>3
\* Going down from there, no row is the first to differ.
<1> DEFINE differs == {d \in 0 .. m - 1 : sorted[m - d].hash # chain[m - d].hash}
<1>5. \A i \in 1 .. m : i \in 1 .. n /\ i \in 1 .. Len(chain)
  BY <1>1, <1>2, <1>4
<1>6. ASSUME differs # {} PROVE FALSE
  <2>1. differs \in SUBSET Nat
    OBVIOUS
  <2>2. PICK d \in differs : \A e \in differs : d <= e
    BY <1>6, <2>1, LeastExists
  <2>3. d \in 1 .. m - 1 /\ d - 1 \notin differs
    <3>1. d # 0 /\ m \in Nat /\ d \in 0 .. m - 1
      BY <1>1, <1>2, <1>4, <2>2
    <3>2. d - 1 \in differs => d <= d - 1
      BY <2>2
    <3> HIDE DEF differs
    <3> QED
      BY <3>1, <3>2
  <2> DEFINE i == m - (d - 1)
  <2>4. i \in 1 .. m /\ i # 1 /\ i - 1 = m - d /\ i - 1 \in 1 .. m /\ d - 1 \in 0 .. m - 1
    BY <1>1, <1>2, <1>4, <2>3
  <2>5. sorted[i].hash = chain[i].hash
    BY <2>3, <2>4
  <2> HIDE DEF i
  <2>6. HashBefore(sorted, i) = HashBefore(chain, i)
    BY <1>3, <1>5, <2>4, <2>5
  <2>7. sorted[i - 1].hash = chain[i - 1].hash
    BY <2>4, <2>6 DEF HashBefore
  <2> QED
    BY <2>2, <2>4, <2>7
<1>7. ASSUME NEW i \in 1 .. m PROVE chain[i] \in table
  <2>1. m - i \in 0 .. m - 1 /\ m - (m - i) = i
    OBVIOUS
  <2>2. sorted[i].hash = chain[i].hash
    BY <1>6, <2>1
  <2> QED
    BY <1>3, <1>5, <2>2
<1> QED
  BY <1>4, <1>7

\* The same of any row with the hash, and of the row a recorded head is of.
LEMMA KeptHashVouches ==
  ASSUME NEW chain, NEW org, WrittenBy(chain, org), NEW table, IsTable(table),
         NEW head, VerifyAuditChain(table, head).ok, NEW m \in 1 .. Len(chain),
         \/ chain[m].hash \in {row.hash : row \in table}
         \/ head # NoHead /\ head.hash = chain[m].hash
  PROVE  \A i \in 1 .. m : chain[i] \in table
<1>1. \E k \in 1 .. Cardinality(table) : InOrder(table)[k].hash = chain[m].hash
  <2>1. CASE chain[m].hash \in {row.hash : row \in table}
    BY <2>1, EveryRowIsSorted
  <2>2. CASE head # NoHead /\ head.hash = chain[m].hash
    <3>1. IsFiniteSet(table) /\ \A row \in table : row.seq \in Nat
      BY DEF IsTable
    <3>2. Len(InOrder(table)) = Cardinality(table) /\ HeadHolds(InOrder(table), head)
      BY <3>1, VerifiedRows
    <3> QED
      BY <2>2, <3>2 DEF HeadHolds
  <2> QED
    BY <2>1, <2>2
<1> QED
  BY <1>1, SharedHashSharedPast

\* What Past(n) is made of.
LEMMA PastIsListed ==
  ASSUME IsSequence(written), NEW n \in 1 .. Len(written)
  PROVE  Past(n) = {written[i] : i \in 1 .. n}
<1>1. PICK S : written \in Seq(S)
  BY DEF IsSequence
<1>2. SubSeq(written, 1, n) = [i \in 1 .. n |-> written[i]]
  BY <1>1
<1> QED
  BY <1>2 DEF Past, ToSet

\* Whatever was done to the table, if it verifies without an anchor then every
\* written event whose hash it still has comes with all the events before it.
THEOREM KeptEventsVouch == TamperSpec => []KeptEventVouchesForItsPast
<1>1. TamperInv => KeptEventVouchesForItsPast
  <2> SUFFICES ASSUME TamperInv, VerifyAuditChain(stored, NoHead).ok,
                      NEW m \in 1 .. Len(written),
                      written[m].hash \in {row.hash : row \in stored}
               PROVE  Past(m) \subseteq stored
    BY DEF KeptEventVouchesForItsPast
  <2>1. \A i \in 1 .. m : written[i] \in stored
    BY KeptHashVouches DEF TamperInv
  <2>2. Past(m) = {written[i] : i \in 1 .. m}
    BY PastIsListed DEF TamperInv, WrittenBy
  <2> QED
    BY <2>1, <2>2
<1> QED
  BY <1>1, TamperStart, TamperStep, PTL DEF TamperSpec

\* Against a head recorded outside the database, every event up to it is still
\* in the table as it was written if the table verifies.
THEOREM AnchorProtects == TamperSpec => []AnchorProtectsWhatItCovers
<1>1. TamperInv => AnchorProtectsWhatItCovers
  <2> SUFFICES ASSUME TamperInv, kept # NoHead, VerifyAuditChain(stored, kept).ok
               PROVE  Past(kept.seq) \subseteq stored
    BY DEF AnchorProtectsWhatItCovers
  <2>1. kept.seq \in 1 .. Len(written) /\ kept.hash = written[kept.seq].hash
    BY DEF TamperInv
  <2>2. \A i \in 1 .. kept.seq : written[i] \in stored
    BY <2>1, KeptHashVouches DEF TamperInv
  <2>3. Past(kept.seq) = {written[i] : i \in 1 .. kept.seq}
    BY <2>1, PastIsListed DEF TamperInv, WrittenBy
  <2> QED
    BY <2>2, <2>3
<1> QED
  BY <1>1, TamperStart, TamperStep, PTL DEF TamperSpec

\* The committed events of a tenant up to a position.
EventsUpTo(org, seq) == {row \in OfTenant(committed, org) : row.seq <= seq}

\* Rows that verify have every committed event that stands before one whose
\* hash they have, and those that verify against the recorded head every
\* committed event up to it.
VouchedFor(table, org) ==
  /\ VerifyAuditChain(table, NoHead).ok =>
       \A row \in OfTenant(committed, org) :
         row.hash \in {other.hash : other \in table} => EventsUpTo(org, row.seq) \subseteq table
  /\ anchor[org] # NoHead /\ VerifyAuditChain(table, anchor[org]).ok =>
       EventsUpTo(org, anchor[org].seq) \subseteq table

CommittedEventsAreVouchedFor ==
  \A org \in Orgs : \A table : IsTable(table) => VouchedFor(table, org)

\* The rows of a chain, by position.
LEMMA ListIsWritten ==
  ASSUME NEW f, NEW n \in Nat, NEW rows, NEW org, Lists(f, n, rows, org)
  PROVE  /\ WrittenBy(f, org) /\ Len(f) = n
         /\ \A row \in rows : row.seq \in 1 .. n /\ f[row.seq] = row
<1>1. f \in [1 .. n -> rows] /\ f \in Seq(rows) /\ Len(f) = n
  BY DEF Lists
<1>2. \A i \in 1 .. n : f[i] = Row(HashBefore(f, i), i, org, f[i].content)
  BY DEF Lists
<1>3. ASSUME NEW row \in rows PROVE row.seq \in 1 .. n /\ f[row.seq] = row
  <2>1. PICK i \in 1 .. n : f[i] = row
    BY DEF Lists
  <2>2. f[i].seq = i
    BY ListedRow
  <2> QED
    BY <2>1, <2>2
<1>4. WrittenBy(f, org)
  BY <1>1, <1>2 DEF WrittenBy, IsSequence
<1> QED
  BY <1>1, <1>3, <1>4

\* The two systems together: whatever requests wrote a tenant's committed
\* events, and whatever rows are put in their place.
THEOREM CommittedEventsVouch == Spec => []CommittedEventsAreVouchedFor
<1>1. AnchorInv => CommittedEventsAreVouchedFor
  <2> SUFFICES ASSUME AnchorInv, NEW org \in Orgs, NEW table, IsTable(table)
               PROVE  VouchedFor(table, org)
    BY DEF CommittedEventsAreVouchedFor
  <2> DEFINE mine == OfTenant(committed, org)
  <2>1. PICK n \in Nat : \E f : Lists(f, n, mine, org)
    BY DEF AnchorInv, HeadInv, Chained, IsChain
  <2>2. PICK f : Lists(f, n, mine, org)
    BY <2>1
  <2> HIDE DEF mine
  <2>3. /\ WrittenBy(f, org) /\ Len(f) = n
        /\ \A row \in mine : row.seq \in 1 .. n /\ f[row.seq] = row
    BY <2>2, ListIsWritten
  \* An event that is kept, or that a head is of, vouches for those up to it.
  <2>4. ASSUME NEW row \in mine, NEW head, VerifyAuditChain(table, head).ok,
               \/ row.hash \in {other.hash : other \in table}
               \/ head # NoHead /\ head.hash = row.hash
        PROVE  EventsUpTo(org, row.seq) \subseteq table
    <3>1. row.seq \in 1 .. Len(f) /\ f[row.seq].hash = row.hash
      BY <2>3
    <3>2. \A i \in 1 .. row.seq : f[i] \in table
      BY <2>3, <2>4, <3>1, KeptHashVouches
    <3>3. ASSUME NEW other \in mine, other.seq <= row.seq PROVE other \in table
      <4>1. other.seq \in 1 .. row.seq /\ f[other.seq] = other
        BY <2>3, <3>1, <3>3
      <4> QED
        BY <3>2, <4>1
    <3> QED
      BY <3>3 DEF EventsUpTo, mine
  <2>5. ASSUME VerifyAuditChain(table, NoHead).ok, NEW row \in mine,
               row.hash \in {other.hash : other \in table}
        PROVE  EventsUpTo(org, row.seq) \subseteq table
    BY <2>4, <2>5
  <2>6. ASSUME anchor[org] # NoHead, VerifyAuditChain(table, anchor[org]).ok
        PROVE  EventsUpTo(org, anchor[org].seq) \subseteq table
    <3>1. CASE anchor[org] = EmptyHead
      <4>1. anchor[org].seq = 0
        BY <3>1 DEF EmptyHead
      <4>2. EventsUpTo(org, 0) = {}
        BY <2>3 DEF EventsUpTo, mine
      <4> QED
        BY <4>1, <4>2
    <3>2. CASE anchor[org] # EmptyHead
      <4>1. PICK row \in mine : anchor[org].seq = row.seq /\ anchor[org].hash = row.hash
        BY <2>6, <3>2 DEF AnchorInv, mine
      <4>2. EventsUpTo(org, row.seq) \subseteq table
        BY <2>4, <2>6, <4>1
      <4> QED
        BY <4>1, <4>2
    <3> QED
      BY <3>1, <3>2
  <2> QED
    BY <2>5, <2>6 DEF VouchedFor, mine
<1>2. Init => AnchorInv
  <2> SUFFICES ASSUME Init PROVE AnchorInv
    OBVIOUS
  <2> QED
    BY HeadInit DEF Init, AnchorInv
<1> QED
  BY <1>1, <1>2, AnchorNext, PTL DEF Spec
=============================================================================
