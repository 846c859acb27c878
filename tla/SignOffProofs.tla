---------------------------- MODULE SignOffProofs ----------------------------
(***************************************************************************)
(* What a sign-off or an export publishes was true when it was published,  *)
(* for any number of requests, projects and instants: a request that has   *)
(* judged something keeps the lock that everybody who could change it      *)
(* needs, until its transaction ends.                                      *)
(*                                                                         *)
(* And no circle of waiting requests closes without the retention          *)
(* workflow: Orderly says that a request has no lock but those of the      *)
(* steps behind it, and its projects' in their order.                      *)
(***************************************************************************)
EXTENDS SignOff, SequenceTheorems, TLAPS

-----------------------------------------------------------------------------
(* What a request can be asked.                                            *)

Kinds == {"sign", "export", "generate", "source", "direct", "nda", "admin", "upload",
          "complete", "reconcile"}
Releases == {"sign", "export"}
NamesNone == {"nda", "admin"}

\* A request names projects unless it is about the client or a membership.
LEMMA AskedShape ==
  ASSUME NEW w \in Asked
  PROVE  /\ w.kind \in Kinds /\ w.value \in BOOLEAN
         /\ w.kind = "admin" => w.keys \in AdminKeys
         /\ w.kind \in NamesNone => w.named = <<>>
         /\ w.kind \notin NamesNone => w.named \in Seq(Projects) /\ w.named # <<>>
<1>1. \A k \in Kinds : \A n \in NamedBy(k) : n \in Seq(Projects) /\ n # <<>>
  <2> SUFFICES ASSUME NEW k \in Kinds, NEW n \in NamedBy(k)
               PROVE  n \in Seq(Projects) /\ n # <<>>
    OBVIOUS
  <2>1. \/ n = <<Home>>
        \/ \E p \in Projects : n = <<Home, p>> \/ n = <<p, Home>>
    BY DEF NamedBy
  <2>2. \A p \in Projects : <<p>> \in Seq(Projects) /\ <<p>> # <<>>
    BY SMT
  <2>3. \A p, q \in Projects : <<p, q>> \in Seq(Projects) /\ <<p, q>> # <<>>
    BY SMT
  <2> QED BY <2>1, <2>2, <2>3, SignOffAssumption, Zenon
<1>2. CASE w \in UNION {[kind: {k}, named: NamedBy(k), keys: {<<>>}, value: {FALSE}]
              : k \in {"sign", "generate", "upload", "complete", "reconcile"}}
  <2>1. PICK k \in {"sign", "generate", "upload", "complete", "reconcile"} :
            w \in [kind: {k}, named: NamedBy(k), keys: {<<>>}, value: {FALSE}]
    BY <1>2
  <2> QED BY <1>1, <2>1 DEF Kinds, NamesNone
<1>3. CASE w \in UNION {[kind: {k}, named: NamedBy(k), keys: {<<>>}, value: BOOLEAN]
              : k \in {"source", "direct", "export"}}
  <2>1. PICK k \in {"source", "direct", "export"} :
            w \in [kind: {k}, named: NamedBy(k), keys: {<<>>}, value: BOOLEAN]
    BY <1>3
  <2> QED BY <1>1, <2>1 DEF Kinds, NamesNone
<1>4. CASE w \in {[Idle EXCEPT !.kind = "nda", !.value = v] : v \in BOOLEAN}
  BY <1>4 DEF Idle, Kinds, NamesNone
<1>5. CASE w \in {[Idle EXCEPT !.kind = "admin", !.keys = ks] : ks \in AdminKeys}
  BY <1>5 DEF Idle, Kinds, NamesNone
<1> QED
  BY <1>2, <1>3, <1>4, <1>5 DEF Asked

LEMMA NamedShape ==
  ASSUME NEW w \in Asked
  PROVE  /\ Named(w) \subseteq Projects
         /\ w.kind \notin NamesNone => w.named[1] \in Named(w)
         /\ w.kind \in NamesNone => Named(w) = {}
<1>1. CASE w.kind \in NamesNone
  BY <1>1, AskedShape DEF Named
<1>2. CASE w.kind \notin NamesNone
  <2>1. w.named \in Seq(Projects) /\ w.named # <<>>
    BY <1>2, AskedShape
  <2>2. 1 \in DOMAIN w.named
    BY <2>1, EmptySeq, LenProperties
  <2> QED
    BY <1>2, <2>1, <2>2, ElementOfSeq DEF Named
<1> QED
  BY <1>1, <1>2

-----------------------------------------------------------------------------
(* The order of the steps of a route.                                      *)

\* s is a step of the route, once, and before every t.
Precedes(w, s, t) ==
  \E i \in 1..Len(Route(w)) :
      /\ Route(w)[i] = s
      /\ \A j \in 1..Len(Route(w)) : /\ Route(w)[j] = s => j = i
                                     /\ Route(w)[j] = t => i < j

CommitsLast(w) ==
  /\ Len(Route(w)) \in Nat \ {0}
  /\ \A i \in 1..Len(Route(w)) : Route(w)[i] = "commit" <=> i = Len(Route(w))

LEMMA SignOrder ==
  ASSUME NEW w, w.kind = "sign"
  PROVE  /\ CommitsLast(w)
         /\ \A t \in {"client", "row", "report", "decide", "commit"} :
                /\ Precedes(w, "preflight", t)
                /\ Precedes(w, "stable", t) /\ Precedes(w, "renamed", t)
         /\ \A t \in {"report", "decide", "commit"} :
                Precedes(w, "row", t) /\ Precedes(w, "client", t)
         /\ \A t \in {"decide", "commit"} : Precedes(w, "report", t)
         /\ Precedes(w, "decide", "commit")
<1>1. /\ Len(Route(w)) = 10
      /\ Route(w)[1] = "boundary" /\ Route(w)[2] = "preflight"
      /\ Route(w)[3] = "stable" /\ Route(w)[4] = "renamed" /\ Route(w)[5] = "authority"
      /\ Route(w)[6] = "client" /\ Route(w)[7] = "row" /\ Route(w)[8] = "report"
      /\ Route(w)[9] = "decide" /\ Route(w)[10] = "commit"
  BY SMT DEF Route, MembershipKeys
<1>2. CommitsLast(w)
  BY <1>1, SMT DEF CommitsLast
<1>3. \A t \in {"client", "row", "report", "decide", "commit"} :
          /\ Precedes(w, "preflight", t)
          /\ Precedes(w, "stable", t) /\ Precedes(w, "renamed", t)
  BY <1>1, SMT DEF Precedes
<1>4. \A t \in {"report", "decide", "commit"} :
          Precedes(w, "row", t) /\ Precedes(w, "client", t)
  BY <1>1, SMT DEF Precedes
<1>5. \A t \in {"decide", "commit"} : Precedes(w, "report", t)
  BY <1>1, SMT DEF Precedes
<1>6. Precedes(w, "decide", "commit")
  BY <1>1, SMT DEF Precedes
<1> QED
  BY <1>2, <1>3, <1>4, <1>5, <1>6

LEMMA ExportOrder ==
  ASSUME NEW w, w.kind = "export"
  PROVE  /\ CommitsLast(w)
         /\ \A t \in {"client", "row", "report", "decide", "commit"} :
                /\ Precedes(w, "boundary", t) /\ Precedes(w, "preflight", t)
                /\ Precedes(w, "stable", t) /\ Precedes(w, "renamed", t)
         /\ \A t \in {"client", "decide", "commit"} : Precedes(w, "row", t)
         /\ \A t \in {"decide", "commit"} : Precedes(w, "client", t)
         /\ Precedes(w, "decide", "commit")
<1>1. /\ Len(Route(w)) = 11
      /\ Route(w)[1] = "boundary" /\ Route(w)[2] = "preflight"
      /\ Route(w)[3] = "stable" /\ Route(w)[4] = "renamed" /\ Route(w)[5] = "authority"
      /\ Route(w)[6] = "row" /\ Route(w)[7] = "report" /\ Route(w)[8] = "client"
      /\ Route(w)[9] = "decide" /\ Route(w)[10] = "advance" /\ Route(w)[11] = "commit"
  BY SMT DEF Route, MembershipKeys
<1>2. CommitsLast(w)
  BY <1>1, SMT DEF CommitsLast
<1>3. \A t \in {"client", "row", "report", "decide", "commit"} :
          /\ Precedes(w, "boundary", t) /\ Precedes(w, "preflight", t)
          /\ Precedes(w, "stable", t) /\ Precedes(w, "renamed", t)
  BY <1>1, SMT DEF Precedes
<1>4. \A t \in {"client", "decide", "commit"} : Precedes(w, "row", t)
  BY <1>1, SMT DEF Precedes
<1>5. \A t \in {"decide", "commit"} : Precedes(w, "client", t)
  BY <1>1, SMT DEF Precedes
<1>6. Precedes(w, "decide", "commit")
  BY <1>1, SMT DEF Precedes
<1> QED
  BY <1>2, <1>3, <1>4, <1>5, <1>6

\* The others: a writer of the project row locks it, and an administrator of
\* memberships takes a membership key that a release takes too.
LEMMA OtherOrder ==
  ASSUME NEW w \in Asked, w.kind \notin Releases
  PROVE  /\ CommitsLast(w)
         /\ w.kind \in {"generate", "source", "direct", "complete"} =>
                Precedes(w, "row", "commit")
         /\ w.kind = "nda" => Precedes(w, "client", "commit")
         /\ w.kind = "admin" => \/ Precedes(w, "stable", "commit")
                                \/ Precedes(w, "renamed", "commit")
         /\ \A i \in 1..Len(Route(w)) :
                /\ Route(w)[i] \notin {"authority", "report", "decide"}
                /\ w.kind \in NamesNone => Route(w)[i] \notin {"preflight", "row"}
<1> USE DEF CommitsLast, Precedes, NamesNone
<1>1. CASE w.kind = "generate"
  <2>1. /\ Len(Route(w)) = 4 /\ Route(w)[1] = "boundary" /\ Route(w)[2] = "preflight"
        /\ Route(w)[3] = "row" /\ Route(w)[4] = "commit"
    BY <1>1, SMT DEF Route, MembershipKeys
  <2> QED BY <1>1, <2>1, SMT
<1>2. CASE w.kind = "source"
  <2>1. /\ Len(Route(w)) = 4 /\ Route(w)[1] = "boundary" /\ Route(w)[2] = "source"
        /\ Route(w)[3] = "row" /\ Route(w)[4] = "commit"
    BY <1>2, SMT DEF Route, MembershipKeys
  <2> QED BY <1>2, <2>1, SMT
<1>3. CASE w.kind = "direct"
  <2>1. /\ Len(Route(w)) = 3 /\ Route(w)[1] = "source" /\ Route(w)[2] = "row"
        /\ Route(w)[3] = "commit"
    BY <1>3, SMT DEF Route, MembershipKeys
  <2> QED BY <1>3, <2>1, SMT
<1>4. CASE w.kind = "nda"
  <2>1. Len(Route(w)) = 2 /\ Route(w)[1] = "client" /\ Route(w)[2] = "commit"
    BY <1>4, SMT DEF Route, MembershipKeys
  <2> QED BY <1>4, <2>1, SMT
<1>5. CASE w.kind = "admin"
  <2>1. Route(w) = w.keys \o <<"commit">>
    BY <1>5, SMT DEF Route
  <2>2. w.keys \in AdminKeys
    BY <1>5, AskedShape
  <2>3. CASE w.keys = MembershipKeys
    <3>1. /\ Len(Route(w)) = 3 /\ Route(w)[1] = "stable" /\ Route(w)[2] = "renamed"
          /\ Route(w)[3] = "commit"
      BY <2>1, <2>3, SMT DEF MembershipKeys
    <3> QED BY <1>5, <3>1, SMT
  <2>4. CASE w.keys = <<"stable">>
    <3>1. Len(Route(w)) = 2 /\ Route(w)[1] = "stable" /\ Route(w)[2] = "commit"
      BY <2>1, <2>4, SMT
    <3> QED BY <1>5, <3>1, SMT
  <2>5. CASE w.keys = <<"renamed">>
    <3>1. Len(Route(w)) = 2 /\ Route(w)[1] = "renamed" /\ Route(w)[2] = "commit"
      BY <2>1, <2>5, SMT
    <3> QED BY <1>5, <3>1, SMT
  <2> QED BY <2>2, <2>3, <2>4, <2>5 DEF AdminKeys
<1>6. CASE w.kind = "upload"
  <2>1. /\ Len(Route(w)) = 6 /\ Route(w)[1] = "boundary" /\ Route(w)[2] = "stable"
        /\ Route(w)[3] = "renamed" /\ Route(w)[4] = "row" /\ Route(w)[5] = "client"
        /\ Route(w)[6] = "commit"
    BY <1>6, SMT DEF Route, MembershipKeys
  <2> QED BY <1>6, <2>1, SMT
<1>7. CASE w.kind = "complete"
  <2>1. /\ Len(Route(w)) = 6 /\ Route(w)[1] = "boundary" /\ Route(w)[2] = "stable"
        /\ Route(w)[3] = "renamed" /\ Route(w)[4] = "row" /\ Route(w)[5] = "source"
        /\ Route(w)[6] = "commit"
    BY <1>7, SMT DEF Route, MembershipKeys
  <2> QED BY <1>7, <2>1, SMT
<1>8. CASE w.kind = "reconcile"
  <2>1. /\ Len(Route(w)) = 4 /\ Route(w)[1] = "stable" /\ Route(w)[2] = "renamed"
        /\ Route(w)[3] = "again" /\ Route(w)[4] = "commit"
    BY <1>8, SMT DEF Route, MembershipKeys
  <2> QED BY <1>8, <2>1, SMT
<1> QED
  BY <1>1, <1>2, <1>3, <1>4, <1>5, <1>6, <1>7, <1>8, AskedShape DEF Kinds, Releases

LEMMA EveryRouteCommitsLast == \A w \in Asked : CommitsLast(w)
  BY SignOrder, ExportOrder, OtherOrder DEF Releases

-----------------------------------------------------------------------------
(* Types, and where a request can be in its route.                         *)

Modes == {"keyShare", "share", "noKeyUpdate", "update"}
Statuses == {"review", "defects", "reporting", "signed_off", "exported", "archived", "purged"}
ReportStates == {"draft", "signed_off"}
RowType == [status: Statuses, version: Nat, fatal: BOOLEAN,
            reports: Seq(ReportStates), package: Nat, receipts: Seq([key: BOOLEAN, confirmed: Nat])]
SawType == [version: Nat, report: Nat, client: Nat, package: Nat, signedAt: Nat]

StoredTyped ==
  /\ clock \in Nat
  /\ client \in [nda: BOOLEAN, version: Nat]
  /\ granted \in BOOLEAN
  /\ project \in [Projects -> RowType]

RequestsTyped ==
  /\ held = [r \in Requests |-> held[r]]
  /\ \A r \in Requests : \A l \in held[r] : l[2] \in Modes
  /\ work \in [Requests -> Asked \cup {Idle}]
  /\ at \in [Requests -> Nat]
  /\ saw \in [Requests -> SawType]
  /\ verdict \in [Requests -> {"new", "going", "denied", "ended"}]

Typed == StoredTyped /\ RequestsTyped

InRoute ==
  \A r \in Requests :
      /\ verdict[r] \in {"new", "ended"} => at[r] = 0 /\ work[r] = Idle
      /\ verdict[r] \in {"going", "denied"} =>
             work[r] \in Asked /\ at[r] \in 1..Len(Route(work[r]))
      /\ verdict[r] = "denied" =>
             work[r].kind \in Releases /\ at[r] = Len(Route(work[r]))

\* The steps a request has behind it.
Past(r) == {Route(work[r])[i] : i \in 1..(at[r] - 1)}

\* Requests that hold locks on the same thing hold compatible ones.
Compatible ==
  \A q, r \in Requests : q # r =>
      \A l \in held[q], m \in held[r] : l[1] = m[1] => m[2] \notin Conflicts(l[2])

LockOf(r, s) ==
  CASE s \in {"stable", "renamed"} -> <<<<s, 0>>, "update">>
    [] s = "client" -> <<<<"client", 0>>, ClientMode(work[r])>>
    [] s = "row" -> <<<<"row", Target(r)>>, RowMode(work[r])>>

Kept == {"stable", "renamed", "client", "row"}

\* A request keeps the locks of the steps behind it until it ends.
Holding(r) ==
  verdict[r] = "going" =>
      /\ \A s \in Kept : s \in Past(r) => LockOf(r, s) \in held[r]
      /\ "boundary" \in Past(r) =>
             \A p \in Named(work[r]) : <<Boundary(p), "update">> \in held[r]

Locked == Typed /\ InRoute /\ Compatible /\ \A r \in Requests : Holding(r)

\* The steps of a request that publish nothing, after its arrival.
Quiet(r) ==
  \/ LockBoundary(r) \/ EnterHandler(r) \/ Preflight(r) \/ TakeLock(r) \/ ReadAuthority(r)
  \/ LockClient(r) \/ LockRow(r) \/ LockReport(r) \/ Decide(r) \/ Fail(r)

\* What such a step does when the request goes on.
Advances(r) ==
  /\ Step(r) \notin {"none", "commit"}
  /\ MoveOn(r)
  /\ held' = held \/ Take(r)
  /\ Step(r) \in Kept => Take(r)
  /\ Step(r) = "boundary" => Unlocked(r) = {}
  /\ \E s \in SawType : saw' = [saw EXCEPT ![r] = s]

Waits(r) ==
  /\ Step(r) = "boundary" /\ Unlocked(r) # {}
  /\ Take(r)
  /\ UNCHANGED <<work, at, saw, verdict>>

LEMMA WantedModes ==
  ASSUME NEW r \in Requests
  PROVE  \A l \in Wanted(r) : l[2] \in Modes
  BY DEF Wanted, Modes, ClientMode, RowMode, ReportMode

LEMMA ConflictsAreMutual ==
  \A l, m \in Modes : l \in Conflicts(m) <=> m \in Conflicts(l)
  BY DEF Conflicts, Modes

LEMMA SawStays ==
  ASSUME Typed, NEW r \in Requests, UNCHANGED saw
  PROVE  \E s \in SawType : saw' = [saw EXCEPT ![r] = s]
<1>1. saw[r] \in SawType /\ saw' = [saw EXCEPT ![r] = saw[r]]
  BY DEF Typed, StoredTyped, RequestsTyped
<1> QED
  BY <1>1

\* A request at a step has arrived, and the steps of a release are its own.
LEMMA AtStep ==
  ASSUME Typed, InRoute, NEW r \in Requests, Step(r) # "none"
  PROVE  /\ verdict[r] \in {"going", "denied"}
         /\ work[r] \in Asked
         /\ at[r] \in 1..Len(Route(work[r])) /\ Step(r) = Route(work[r])[at[r]]
         /\ Step(r) # "commit" => verdict[r] = "going"
         /\ Step(r) \in {"authority", "report", "decide"} => work[r].kind \in Releases
         /\ Step(r) \in {"preflight", "row", "report", "decide"} => Target(r) \in Projects
<1>1. at[r] # 0 /\ Step(r) = Route(work[r])[at[r]]
  BY DEF Step
<1>2. verdict[r] \in {"going", "denied"}
  BY <1>1 DEF Typed, StoredTyped, RequestsTyped, InRoute
<1>3. work[r] \in Asked /\ at[r] \in 1..Len(Route(work[r]))
  BY <1>2 DEF InRoute
<1>4. Step(r) # "commit" => verdict[r] = "going"
  BY <1>1, <1>2, <1>3, EveryRouteCommitsLast DEF InRoute, CommitsLast
<1>5. Step(r) \in {"authority", "report", "decide"} => work[r].kind \in Releases
  BY <1>1, <1>3, OtherOrder
<1>6. Step(r) \in {"preflight", "row", "report", "decide"} => work[r].kind \notin NamesNone
  <2>1. Releases \cap NamesNone = {}
    BY DEF Releases, NamesNone
  <2> QED
    BY <1>1, <1>3, <1>5, <2>1, OtherOrder
<1>7. work[r].kind \notin NamesNone => Target(r) \in Projects
  BY <1>3, NamedShape DEF Target
<1> QED
  BY <1>1, <1>2, <1>3, <1>4, <1>5, <1>6, <1>7

LEMMA RowTypes ==
  ASSUME Typed, NEW r \in Requests, Target(r) \in Projects
  PROVE  /\ Row(r) \in RowType
         /\ Row(r).version \in Nat /\ Row(r).package \in Nat
         /\ Row(r).reports \in Seq(ReportStates)
         /\ DOMAIN Row(r).reports = 1..Latest(Target(r)) /\ Latest(Target(r)) \in Nat
<1>1. Row(r) \in RowType
  BY DEF Typed, StoredTyped, RequestsTyped, Row
<1>2. Row(r).version \in Nat /\ Row(r).package \in Nat /\ Row(r).reports \in Seq(ReportStates)
  BY <1>1 DEF RowType
<1>3. Row(r).reports = project[Target(r)].reports
  BY DEF Row
<1> QED
  BY <1>1, <1>2, <1>3, LenProperties DEF Latest

LEMMA QuietShape ==
  ASSUME Typed, InRoute, NEW r \in Requests, Quiet(r)
  PROVE  /\ UNCHANGED Stored
         /\ \/ End(r) /\ Step(r) # "none"
            \/ Deny(r) /\ Step(r) \notin {"none", "commit"} /\ work[r].kind \in Releases
            \/ Advances(r)
            \/ Waits(r)
<1>1. CASE LockBoundary(r)
  BY <1>1 DEF LockBoundary, Waits
<1>2. CASE EnterHandler(r)
  BY <1>2, SawStays DEF EnterHandler, Advances, Kept
<1>3. CASE Preflight(r)
  <2>0. Step(r) = "preflight" /\ UNCHANGED Stored
    BY <1>3 DEF Preflight
  <2>1. CASE End(r)
    BY <2>0, <2>1
  <2>2. CASE Refuse(r)
    BY <2>0, <2>2 DEF Refuse, Releases
  <2>3. ASSUME NEW n \in DOMAIN Row(r).reports, MoveOn(r), UNCHANGED held,
               saw' = [saw EXCEPT ![r] = [@ EXCEPT !.version = Row(r).version, !.report = n,
                                                    !.client = client.version]]
        PROVE  Advances(r)
    <3>1. Row(r).reports \in Seq(ReportStates) /\ Row(r).version \in Nat
      BY <2>0, AtStep, RowTypes
    <3>2. n \in Nat /\ client.version \in Nat
      <4>1. n \in 1..Latest(Target(r)) /\ Latest(Target(r)) \in Nat
        BY <2>0, AtStep, RowTypes
      <4> QED BY <4>1 DEF Typed, StoredTyped, RequestsTyped
    <3> DEFINE seen == [saw[r] EXCEPT !.version = Row(r).version, !.report = n,
                                      !.client = client.version]
    <3>3. seen \in SawType
      <4>1. saw[r] \in SawType
        BY DEF Typed, StoredTyped, RequestsTyped
      <4>2. \A s \in SawType, v, k, c \in Nat :
                [s EXCEPT !.version = v, !.report = k, !.client = c] \in SawType
        BY DEF SawType
      <4> QED BY <3>1, <3>2, <4>1, <4>2
    <3>4. saw' = [saw EXCEPT ![r] = seen]
      BY <2>3
    <3> QED BY <2>0, <2>3, <3>3, <3>4 DEF Advances, Kept
  <2> QED
    BY <1>3, <2>0, <2>1, <2>2, <2>3 DEF Preflight
<1>4. CASE TakeLock(r)
  BY <1>4, SawStays DEF TakeLock, Advances
<1>5. CASE ReadAuthority(r)
  BY <1>5, SawStays, AtStep DEF ReadAuthority, Advances, Kept
<1>6. CASE LockClient(r)
  <2>0. Step(r) = "client" /\ UNCHANGED Stored
    BY <1>6 DEF LockClient
  <2>1. CASE Refuse(r)
    BY <2>0, <2>1 DEF Refuse, Releases
  <2>2. CASE /\ Take(r) /\ MoveOn(r)
             /\ saw' = [saw EXCEPT ![r] = [@ EXCEPT !.client = 0]]
    <3> DEFINE seen == [saw[r] EXCEPT !.client = 0]
    <3>1. seen \in SawType /\ saw' = [saw EXCEPT ![r] = seen]
      BY <2>2 DEF Typed, StoredTyped, RequestsTyped, SawType
    <3> QED BY <2>0, <2>2, <3>1 DEF Advances
  <2>3. CASE Take(r) /\ MoveOn(r) /\ saw' = saw
    BY <2>0, <2>3, SawStays DEF Advances
  <2> QED
    BY <1>6, <2>0, <2>1, <2>2, <2>3 DEF LockClient
<1>7. CASE LockRow(r)
  <2>0. Step(r) = "row" /\ UNCHANGED Stored
    BY <1>7 DEF LockRow
  <2>1. CASE Refuse(r)
    BY <2>0, <2>1 DEF Refuse, Releases
  <2> QED
    BY <1>7, <2>0, <2>1, SawStays DEF LockRow, Advances
<1>8. CASE LockReport(r)
  BY <1>8, SawStays, AtStep DEF LockReport, Advances, Kept
<1>9. CASE Decide(r)
  <2>0. Step(r) = "decide" /\ UNCHANGED Stored
    BY <1>9 DEF Decide
  <2>1. CASE /\ MoveOn(r) /\ UNCHANGED held
             /\ saw' = [saw EXCEPT ![r] = [@ EXCEPT !.signedAt = clock]]
    <3> DEFINE seen == [saw[r] EXCEPT !.signedAt = clock]
    <3>1. seen \in SawType /\ saw' = [saw EXCEPT ![r] = seen]
      BY <2>1 DEF Typed, StoredTyped, RequestsTyped, SawType
    <3> QED BY <2>0, <2>1, <3>1 DEF Advances, Kept
  <2> QED
    BY <1>9, <2>0, <2>1, AtStep DEF Decide
<1>10. CASE Fail(r)
  BY <1>10 DEF Fail
<1> QED
  BY <1>1, <1>2, <1>3, <1>4, <1>5, <1>6, <1>7, <1>8, <1>9, <1>10 DEF Quiet

-----------------------------------------------------------------------------
(* The locks of a request are kept by all steps of all requests.           *)

SameRequest(q) ==
  work'[q] = work[q] /\ at'[q] = at[q] /\ held'[q] = held[q] /\ verdict'[q] = verdict[q]

LEMMA SamePast ==
  ASSUME NEW q, work'[q] = work[q], at'[q] = at[q]
  PROVE  Past(q)' = Past(q) /\ Target(q)' = Target(q)
  BY DEF Past, Target

LEMMA SameHolding ==
  ASSUME NEW q, SameRequest(q), Holding(q)
  PROVE  Holding(q)'
<1>1. Past(q)' = Past(q) /\ Target(q)' = Target(q)
  BY SamePast DEF SameRequest
<1>2. \A s \in Kept : LockOf(q, s)' = LockOf(q, s)
  BY <1>1 DEF SameRequest, LockOf, Kept
<1>3. work'[q] = work[q] /\ held'[q] = held[q] /\ verdict'[q] = verdict[q]
  BY DEF SameRequest
<1> QED
  BY <1>1, <1>2, <1>3, Zenon DEF Holding, Kept

LEMMA MovedPast ==
  ASSUME Typed, InRoute, NEW r \in Requests, Step(r) # "none", MoveOn(r)
  PROVE  Past(r)' = Past(r) \cup {Step(r)} /\ Target(r)' = Target(r)
<1>1. at[r] \in 1..Len(Route(work[r])) /\ at[r] \in Nat /\ Step(r) = Route(work[r])[at[r]]
  BY AtStep DEF Typed, RequestsTyped
<1>2. at'[r] = at[r] + 1 /\ work' = work
  BY DEF MoveOn, Typed, RequestsTyped
<1>3. 1..(at[r] + 1 - 1) = 1..(at[r] - 1) \cup {at[r]}
  BY <1>1
<1>4. work'[r] = work[r] /\ at'[r] = at[r] + 1
  BY <1>1, <1>2
<1>5. \A x : x \in Past(r)' <=> \E i \in 1..(at[r] + 1 - 1) : x = Route(work[r])[i]
  BY <1>1, <1>4 DEF Past
<1>6. \A x : x \in Past(r) <=> \E i \in 1..(at[r] - 1) : x = Route(work[r])[i]
  BY DEF Past
<1>7. Past(r)' = Past(r) \cup {Step(r)}
  BY <1>1, <1>3, <1>5, <1>6
<1> QED
  BY <1>4, <1>7 DEF Target

LEMMA TakeIsCompatible ==
  ASSUME Typed, Compatible, NEW r \in Requests, Take(r)
  PROVE  /\ Compatible'
         /\ held' = [q \in Requests |-> held'[q]]
         /\ \A q \in Requests : \A l \in held'[q] : l[2] \in Modes
         /\ held'[r] = held[r] \cup Wanted(r)
         /\ \A q \in Requests \ {r} : held'[q] = held[q]
<1>1. /\ held' = [q \in Requests |-> held'[q]]
      /\ held'[r] = held[r] \cup Wanted(r)
      /\ \A q \in Requests \ {r} : held'[q] = held[q]
  BY DEF Take, Typed, RequestsTyped
<1>2. \A q \in Requests : \A l \in held'[q] : l[2] \in Modes
  BY <1>1, WantedModes DEF Typed, RequestsTyped
<1>3. ASSUME NEW q \in Requests \ {r}, NEW l \in held[q], NEW m \in Wanted(r), l[1] = m[1]
      PROVE  m[2] \notin Conflicts(l[2]) /\ l[2] \notin Conflicts(m[2])
  <2>1. l[2] \in Modes /\ m[2] \in Modes
    BY <1>3, WantedModes DEF Typed, RequestsTyped
  <2>2. l[2] \notin Conflicts(m[2])
    BY <1>3 DEF Take, Grantable, Blocks
  <2> QED
    BY <2>1, <2>2, ConflictsAreMutual
<1>4. Compatible'
  <2> SUFFICES ASSUME NEW p \in Requests, NEW q \in Requests, p # q,
                      NEW l \in held'[p], NEW m \in held'[q], l[1] = m[1]
               PROVE  m[2] \notin Conflicts(l[2])
    BY DEF Compatible
  <2>1. CASE l \in held[p] /\ m \in held[q]
    BY <2>1 DEF Compatible
  <2>2. CASE p = r /\ l \in Wanted(r)
    BY <1>1, <1>3, <2>2
  <2>3. CASE q = r /\ m \in Wanted(r)
    BY <1>1, <1>3, <2>3
  <2> QED
    BY <1>1, <2>1, <2>2, <2>3
<1> QED
  BY <1>1, <1>2, <1>4

\* Going on from a step adds its lock, and no other request sees any of it.
LEMMA AdvancesKeepsLocks ==
  ASSUME Locked, NEW r \in Requests, Advances(r), UNCHANGED Stored
  PROVE  Locked'
<1> USE DEF Locked
<1>1. Step(r) \notin {"none", "commit"} /\ MoveOn(r) /\ verdict[r] = "going" /\ work[r] \in Asked
  BY AtStep DEF Advances
<1>2. /\ Compatible'
      /\ held' = [q \in Requests |-> held'[q]]
      /\ \A q \in Requests : \A l \in held'[q] : l[2] \in Modes
      /\ held[r] \subseteq held'[r]
      /\ \A q \in Requests \ {r} : held'[q] = held[q]
  <2>1. CASE held' = held
    BY <2>1 DEF Compatible, Typed, RequestsTyped
  <2>2. CASE Take(r)
    BY <2>2, TakeIsCompatible
  <2> QED
    BY <2>1, <2>2 DEF Advances
<1>3. /\ at' = [at EXCEPT ![r] = @ + 1] /\ work' = work /\ verdict' = verdict
      /\ at' \in [Requests -> Nat]
  BY <1>1 DEF MoveOn, Typed, RequestsTyped
<1>4. saw' \in [Requests -> SawType]
  BY DEF Advances, Typed, RequestsTyped
<1>5. Typed'
  BY <1>2, <1>3, <1>4 DEF Typed, StoredTyped, RequestsTyped, Stored
<1>6. InRoute'
  <2>1. at[r] + 1 \in 1..Len(Route(work[r]))
    BY <1>1, AtStep, EveryRouteCommitsLast DEF CommitsLast
  <2> QED
    BY <1>1, <1>3, <2>1 DEF InRoute, Typed, RequestsTyped
<1>7. Holding(r)'
  <2>1. Past(r)' = Past(r) \cup {Step(r)} /\ Target(r)' = Target(r)
    BY <1>1, MovedPast
  <2>2. \A s \in Kept : LockOf(r, s)' = LockOf(r, s)
    BY <1>3, <2>1 DEF LockOf, Kept
  <2>3. Step(r) \in Kept => LockOf(r, Step(r)) \in held'[r]
    <3>1. SUFFICES ASSUME Step(r) \in Kept PROVE LockOf(r, Step(r)) \in held'[r]
      OBVIOUS
    <3>2. LockOf(r, Step(r)) \in Wanted(r)
      BY <3>1 DEF Kept, LockOf, Wanted
    <3> QED
      BY <3>1, <3>2, TakeIsCompatible DEF Advances
  <2>4. Step(r) = "boundary" => \A p \in Named(work[r]) : <<Boundary(p), "update">> \in held[r]
    BY DEF Advances, Unlocked
  <2>5. Holding(r)
    OBVIOUS
  <2> QED
    BY <1>1, <1>2, <1>3, <2>1, <2>2, <2>3, <2>4, <2>5 DEF Holding
<1>8. \A q \in Requests \ {r} : Holding(q)'
  BY <1>2, <1>3, SameHolding DEF SameRequest, Typed, RequestsTyped
<1> QED
  BY <1>2, <1>5, <1>6, <1>7, <1>8

\* A request that waits for its next project keeps what it has.
LEMMA WaitsKeepsLocks ==
  ASSUME Locked, NEW r \in Requests, Waits(r), UNCHANGED Stored
  PROVE  Locked'
<1> USE DEF Locked
<1>1. /\ Compatible'
      /\ held' = [q \in Requests |-> held'[q]]
      /\ \A q \in Requests : \A l \in held'[q] : l[2] \in Modes
      /\ \A q \in Requests : held[q] \subseteq held'[q]
  BY TakeIsCompatible DEF Waits
<1>2. UNCHANGED <<work, at, saw, verdict>>
  BY DEF Waits
<1>3. Typed'
  BY <1>1, <1>2 DEF Typed, StoredTyped, RequestsTyped, Stored
<1>4. InRoute'
  BY <1>2 DEF InRoute
<1>5. ASSUME NEW q \in Requests
      PROVE  Holding(q)'
  <2>1. Past(q)' = Past(q) /\ Target(q)' = Target(q)
    BY <1>2, SamePast
  <2>2. \A s \in Kept : LockOf(q, s)' = LockOf(q, s)
    BY <1>2, <2>1 DEF LockOf, Kept
  <2>3. Holding(q) /\ held[q] \subseteq held'[q]
    BY <1>1
  <2> QED
    BY <1>2, <2>1, <2>2, <2>3 DEF Holding
<1> QED
  BY <1>1, <1>3, <1>4, <1>5

\* The end of a request, whatever it publishes.
LEMMA EndKeepsLocks ==
  ASSUME Locked, NEW r \in Requests, End(r), StoredTyped'
  PROVE  Locked'
<1> USE DEF Locked
<1>1. Nothing \in SawType
  BY DEF Nothing, SawType
<1>2. /\ held'[r] = {} /\ at'[r] = 0 /\ work'[r] = Idle /\ verdict'[r] = "ended"
      /\ \A q \in Requests \ {r} : SameRequest(q)
      /\ held' = [q \in Requests |-> held'[q]]
      /\ at' \in [Requests -> Nat] /\ saw' \in [Requests -> SawType]
      /\ work' \in [Requests -> Asked \cup {Idle}]
      /\ verdict' \in [Requests -> {"new", "going", "denied", "ended"}]
  BY <1>1 DEF End, SameRequest, Typed, RequestsTyped
<1>3. Typed'
  BY <1>2 DEF Typed, RequestsTyped, SameRequest
<1>4. InRoute'
  BY <1>2 DEF InRoute, SameRequest
<1>5. Compatible'
  BY <1>2 DEF Compatible, SameRequest
<1>6. \A q \in Requests \ {r} : Holding(q)'
  BY <1>2, SameHolding
<1>7. Holding(r)'
  BY <1>2 DEF Holding
<1> QED
  BY <1>3, <1>4, <1>5, <1>6, <1>7

LEMMA DenyKeepsLocks ==
  ASSUME Locked, NEW r \in Requests, Deny(r), UNCHANGED Stored,
         Step(r) # "none", work[r].kind \in Releases
  PROVE  Locked'
<1> USE DEF Locked
<1>1. Nothing \in SawType
  BY DEF Nothing, SawType
<1>2. work[r] \in Asked /\ Len(Route(work[r])) \in Nat \ {0}
  BY AtStep, EveryRouteCommitsLast DEF CommitsLast
<1>3. /\ held'[r] \subseteq held[r] /\ at'[r] = Len(Route(work[r])) /\ work'[r] = work[r]
      /\ verdict'[r] = "denied"
      /\ \A q \in Requests \ {r} : SameRequest(q)
      /\ held' = [q \in Requests |-> held'[q]]
      /\ at' \in [Requests -> Nat] /\ saw' \in [Requests -> SawType]
      /\ work' = work
      /\ verdict' \in [Requests -> {"new", "going", "denied", "ended"}]
  BY <1>1, <1>2 DEF Deny, SameRequest, Typed, RequestsTyped
<1>4. Typed'
  BY <1>3 DEF Typed, StoredTyped, RequestsTyped, SameRequest, Stored
<1>5. InRoute'
  <2>1. work'[r].kind \in Releases /\ at'[r] \in 1..Len(Route(work'[r]))
        /\ at'[r] = Len(Route(work'[r])) /\ work'[r] \in Asked
    BY <1>2, <1>3
  <2> QED
    BY <1>3, <2>1 DEF InRoute, SameRequest
<1>6. Compatible'
  BY <1>3 DEF Compatible, SameRequest
<1>7. \A q \in Requests \ {r} : Holding(q)'
  BY <1>3, SameHolding
<1>8. Holding(r)'
  BY <1>3 DEF Holding
<1> QED
  BY <1>4, <1>5, <1>6, <1>7, <1>8

LEMMA QuietKeepsLocks ==
  ASSUME Locked, NEW r \in Requests, Quiet(r)
  PROVE  Locked'
<1>1. UNCHANGED Stored
  BY QuietShape DEF Locked
<1>2. StoredTyped'
  BY <1>1 DEF Locked, Typed, StoredTyped, Stored
<1> QED
  BY <1>1, <1>2, QuietShape, EndKeepsLocks, DenyKeepsLocks, AdvancesKeepsLocks,
     WaitsKeepsLocks DEF Locked

LEMMA ArriveKeepsLocks ==
  ASSUME Locked, NEW r \in Requests, Arrive(r)
  PROVE  Locked'
<1> USE DEF Locked
<1>1. PICK w \in Asked : Admitted(w) /\ work' = [work EXCEPT ![r] = w]
  BY DEF Arrive
<1>2. /\ verdict[r] = "new" /\ verdict' = [verdict EXCEPT ![r] = "going"]
      /\ at' = [at EXCEPT ![r] = 1] /\ held' = held /\ UNCHANGED Stored
  BY DEF Arrive
<1>3. saw' \in [Requests -> SawType]
  <2>1. project[Home].package \in Nat
    BY SignOffAssumption DEF Typed, StoredTyped, RowType
  <2>2. \A s \in SawType, v \in Nat : [s EXCEPT !.package = v] \in SawType
    BY DEF SawType
  <2>3. saw' = saw \/ saw' = [saw EXCEPT ![r] = [saw[r] EXCEPT !.package = project[Home].package]]
    BY DEF Arrive
  <2> QED
    BY <2>1, <2>2, <2>3 DEF Typed, RequestsTyped
<1>4. /\ work'[r] = w /\ at'[r] = 1 /\ verdict'[r] = "going"
      /\ \A q \in Requests \ {r} : SameRequest(q)
  BY <1>1, <1>2 DEF SameRequest, Typed, RequestsTyped
<1>5. Typed'
  BY <1>1, <1>2, <1>3 DEF Typed, StoredTyped, RequestsTyped, Stored
<1>6. InRoute'
  <2>1. 1 \in 1..Len(Route(w))
    BY EveryRouteCommitsLast DEF CommitsLast
  <2> QED
    BY <1>1, <1>4, <2>1 DEF InRoute, SameRequest
<1>7. Compatible'
  BY <1>2 DEF Compatible
<1>8. \A q \in Requests \ {r} : Holding(q)'
  BY <1>4, SameHolding
<1>9. Holding(r)'
  <2>1. Past(r)' = {}
    BY <1>4 DEF Past
  <2> QED
    BY <2>1 DEF Holding
<1> QED
  BY <1>5, <1>6, <1>7, <1>8, <1>9

-----------------------------------------------------------------------------
(* What a commit publishes.                                                *)

LEMMA WrittenTypes ==
  ASSUME Typed, InRoute, NEW r \in Requests, Step(r) = "commit", Target(r) \in Projects,
         NEW row \in Written(r)
  PROVE  row \in RowType
<1> DEFINE old == Row(r)
           next == [old EXCEPT !.version = @ + 1]
<1>1. old \in RowType /\ next \in RowType
  <2>1. \A o \in RowType : [o EXCEPT !.version = @ + 1] \in RowType
    BY DEF RowType
  <2> QED BY <2>1, RowTypes
<1>2. work[r] \in Asked /\ work[r].value \in BOOLEAN
  BY AtStep, AskedShape
<1>3. saw[r].package \in Nat
  BY DEF Typed, RequestsTyped, SawType
<1>4. \A o \in RowType, v \in BOOLEAN : [o EXCEPT !.fatal = v] \in RowType
  BY DEF RowType
<1>5. \A o \in RowType, v \in Statuses : [o EXCEPT !.status = v] \in RowType
  BY DEF RowType
<1>6. \A o \in RowType, q \in Seq(ReportStates) : [o EXCEPT !.reports = q] \in RowType
  BY DEF RowType
<1>s. /\ "signed_off" \in ReportStates /\ "draft" \in ReportStates
      /\ {"signed_off", "exported", "reporting", "purged"} \subseteq Statuses
  BY DEF ReportStates, Statuses
<1>7. CASE Is(r, "sign")
  <2> DEFINE reports == [old.reports EXCEPT ![saw[r].report] = "signed_off"]
  <2>1. reports \in Seq(ReportStates)
    <3>1. old.reports \in Seq(ReportStates)
      BY RowTypes
    <3>2. CASE saw[r].report \in 1..Len(old.reports)
      BY <1>s, <3>1, <3>2, ExceptSeq
    <3>3. CASE saw[r].report \notin 1..Len(old.reports)
      <4>1. old.reports \in [1..Len(old.reports) -> ReportStates]
        BY <3>1, LenProperties
      <4>2. reports = old.reports
        BY <3>3, <4>1
      <4> QED BY <3>1, <4>2
    <3> QED BY <3>2, <3>3
  <2>2. row = [[next EXCEPT !.status = "signed_off"] EXCEPT !.reports = reports]
    <3>1. next.reports = old.reports
      BY <1>1 DEF RowType
    <3>2. row = [next EXCEPT !.status = "signed_off", !.reports[saw[r].report] = "signed_off"]
      BY <1>7 DEF Written, Is
    <3> QED BY <1>1, <3>1, <3>2 DEF RowType
  <2>3. [next EXCEPT !.status = "signed_off"] \in RowType
    BY <1>1, <1>5, <1>s
  <2> HIDE DEF next, reports
  <2> QED BY <1>6, <2>1, <2>2, <2>3
<1>8. CASE Is(r, "export")
  <2> DEFINE receipt == [key |-> work[r].value, confirmed |-> saw[r].package]
             moved == IF old.status = "signed_off" THEN [next EXCEPT !.status = "exported"]
                      ELSE old
  <2>1. moved \in RowType
    <3>1. [next EXCEPT !.status = "exported"] \in RowType
      BY <1>1, <1>5, <1>s
    <3> QED BY <1>1, <3>1
  <2>2. PICK n \in {old.package, old.package + 1} \ {0} :
            row = [moved EXCEPT !.package = n, !.receipts = Append(@, receipt)]
    BY <1>8 DEF Written, Is
  <2>3. n \in Nat /\ receipt \in [key: BOOLEAN, confirmed: Nat]
    BY <1>1, <1>2, <1>3, <2>2 DEF RowType
  <2> HIDE DEF moved, receipt
  <2>4. Append(moved.receipts, receipt) \in Seq([key: BOOLEAN, confirmed: Nat])
    <3>1. moved.receipts \in Seq([key: BOOLEAN, confirmed: Nat])
      BY <2>1 DEF RowType
    <3> QED BY <2>3, <3>1, AppendProperties
  <2>5. \A q \in Seq([key: BOOLEAN, confirmed: Nat]) :
            [moved EXCEPT !.package = n, !.receipts = q] \in RowType
    BY <2>1, <2>3 DEF RowType
  <2> QED BY <2>2, <2>4, <2>5
<1>9. CASE Is(r, "generate")
  <2> DEFINE moved == IF old.status = "reporting" THEN old
                      ELSE [next EXCEPT !.status = "reporting"]
  <2>1. moved \in RowType
    <3>1. [next EXCEPT !.status = "reporting"] \in RowType
      BY <1>1, <1>5, <1>s
    <3> QED BY <1>1, <3>1
  <2>2. row = [moved EXCEPT !.reports = Append(@, "draft")]
    BY <1>9 DEF Written, Is
  <2> HIDE DEF moved
  <2>3. Append(moved.reports, "draft") \in Seq(ReportStates)
    <3>1. moved.reports \in Seq(ReportStates)
      BY <2>1 DEF RowType
    <3> QED BY <1>s, <3>1, AppendProperties
  <2> QED BY <1>6, <2>1, <2>2, <2>3
<1>10. CASE Is(r, "source") \/ Is(r, "direct")
  BY <1>1, <1>2, <1>4, <1>10 DEF Written, Is
<1>11. CASE Is(r, "complete")
  <2>1. <<>> \in Seq(ReportStates) /\ <<>> \in Seq([key: BOOLEAN, confirmed: Nat])
    BY EmptySeq
  <2>2. row = [old EXCEPT !.status = "purged", !.reports = <<>>, !.receipts = <<>>]
    BY <1>11 DEF Written, Is
  <2>3. \A o \in RowType, u \in Seq(ReportStates), v \in Seq([key: BOOLEAN, confirmed: Nat]) :
            [o EXCEPT !.status = "purged", !.reports = u, !.receipts = v] \in RowType
    BY <1>s DEF RowType
  <2> HIDE DEF old
  <2> QED BY <1>1, <2>1, <2>2, <2>3
<1>12. CASE work[r].kind \notin {"sign", "export", "generate", "source", "direct", "complete"}
  BY <1>1, <1>12 DEF Written
<1> QED
  BY <1>7, <1>8, <1>9, <1>10, <1>11, <1>12 DEF Is

\* Only a request that is going writes, and only the row of its own project.
LEMMA CommitShape ==
  ASSUME Typed, InRoute, NEW r \in Requests, Commit(r)
  PROVE  /\ End(r) /\ StoredTyped' /\ Step(r) = "commit" /\ work[r] \in Asked
         /\ \/ project' = project
            \/ /\ verdict[r] = "going" /\ Target(r) \in Projects
               /\ work[r].kind \notin NamesNone
               /\ \E row \in Written(r) : project' = [project EXCEPT ![Target(r)] = row]
<1>1. End(r) /\ Step(r) = "commit"
  BY DEF Commit
<1>2. work[r] \in Asked /\ verdict[r] \in {"going", "denied"}
  BY <1>1, AtStep
<1>3. \/ project' = project
      \/ /\ verdict[r] = "going" /\ work[r].named # <<>>
         /\ \E row \in Written(r) : project' = [project EXCEPT ![Target(r)] = row]
  BY <1>2 DEF Commit
<1>4. work[r].named # <<>> => Target(r) \in Projects /\ work[r].kind \notin NamesNone
  BY <1>2, AskedShape, NamedShape DEF Target
<1>5. project' \in [Projects -> RowType]
  <2>1. CASE project' = project
    BY <2>1 DEF Typed, StoredTyped
  <2>2. CASE /\ work[r].named # <<>>
             /\ \E row \in Written(r) : project' = [project EXCEPT ![Target(r)] = row]
    BY <1>1, <1>4, <2>2, WrittenTypes DEF Typed, StoredTyped
  <2> QED
    BY <1>3, <2>1, <2>2
<1>6. client' \in [nda: BOOLEAN, version: Nat]
  <2>1. CASE Is(r, "nda")
    <3>1. work[r].value \in BOOLEAN /\ client.version + 1 \in Nat
      BY <1>2, AskedShape DEF Typed, StoredTyped
    <3>2. client' = [nda |-> work[r].value, version |-> client.version + 1]
      BY <2>1 DEF Commit
    <3> QED BY <3>1, <3>2
  <2>2. CASE ~Is(r, "nda")
    BY <2>2 DEF Commit, Typed, StoredTyped
  <2> QED BY <2>1, <2>2
<1>7. granted' \in BOOLEAN /\ clock' \in Nat
  BY DEF Commit, Typed, StoredTyped
<1> QED
  BY <1>1, <1>2, <1>3, <1>4, <1>5, <1>6, <1>7 DEF StoredTyped

LEMMA LockedInit == Init => Locked
<1> SUFFICES ASSUME Init PROVE Locked
  OBVIOUS
<1>1. <<"draft">> \in Seq(ReportStates) /\ <<"signed_off">> \in Seq(ReportStates)
  BY DEF ReportStates
<1>2. <<>> \in Seq([key: BOOLEAN, confirmed: Nat])
  BY EmptySeq
<1>3. Draft \in RowType /\ FoundDefects \in RowType /\ SignedOff \in RowType
  BY <1>1, <1>2 DEF Draft, FoundDefects, SignedOff, RowType, Statuses
<1>4. project \in [Projects -> RowType]
  BY <1>3 DEF Init
<1>5. Nothing \in SawType
  BY DEF Nothing, SawType
<1>6. Typed
  BY <1>4, <1>5 DEF Init, Typed, StoredTyped, RequestsTyped
<1>7. InRoute
  BY DEF Init, InRoute
<1>8. Compatible
  BY DEF Init, Compatible
<1>9. \A r \in Requests : Holding(r)
  BY DEF Init, Holding
<1> QED
  BY <1>6, <1>7, <1>8, <1>9 DEF Locked

LEMMA LockedStep == Locked /\ [Next]_vars => Locked'
<1> SUFFICES ASSUME Locked, [Next]_vars PROVE Locked'
  OBVIOUS
<1>1. ASSUME NEW r \in Requests, Arrive(r) PROVE Locked'
  BY <1>1, ArriveKeepsLocks
<1>2. ASSUME NEW r \in Requests, Quiet(r) PROVE Locked'
  BY <1>2, QuietKeepsLocks
<1>3. ASSUME NEW r \in Requests, Commit(r) PROVE Locked'
  BY <1>3, CommitShape, EndKeepsLocks DEF Locked
<1>4. CASE clock' \in Nat /\ UNCHANGED <<client, granted, project, held, work, at, saw, verdict>>
  <2>1. Typed'
    BY <1>4 DEF Locked, Typed, StoredTyped, RequestsTyped
  <2>2. InRoute' /\ Compatible'
    BY <1>4 DEF Locked, InRoute, Compatible
  <2>3. \A r \in Requests : Holding(r)'
    BY <1>4, SameHolding DEF Locked, SameRequest
  <2> QED BY <2>1, <2>2, <2>3 DEF Locked
<1>5. CASE Tick
  BY <1>4, <1>5 DEF Tick, Locked, Typed, StoredTyped
<1>6. CASE UNCHANGED vars
  BY <1>4, <1>6 DEF vars, Locked, Typed, StoredTyped
<1> QED
  BY <1>1, <1>2, <1>3, <1>5, <1>6 DEF Next, Quiet

\* Requests never hold conflicting locks, and whoever has a step behind it holds
\* the lock of that step until it ends (tenancy.ts, compatibleAdvisoryLock.ts and
\* the row locks of reports.ts).
THEOREM LocksAreKept == Spec => []Locked
  BY LockedInit, LockedStep, PTL DEF Spec

-----------------------------------------------------------------------------
(* What a request has judged stays true until it ends.                     *)

\* Its user had access when it was dated, and still has.
Authorised(r) ==
  work[r].kind \in Releases /\ "decide" \in Past(r) =>
      granted /\ saw[r].signedAt < AccessExpiry

\* The client row it judged; a sign-off forgets a row without an NDA.
UnderNda(r) ==
  "client" \in Past(r) =>
      /\ Is(r, "export") => client.nda /\ client.version = saw[r].client
      /\ Is(r, "sign") => (saw[r].client # 0 => client.nda)

\* The project row it locked.
RowStays(r) ==
  "row" \in Past(r) =>
      /\ Is(r, "sign") => Row(r).status = "reporting"
      /\ Is(r, "generate") => CanGenerate(Target(r))
      /\ work[r].kind \in {"source", "direct"} => GuardAllows(Target(r))
      /\ Is(r, "export") => Row(r).status \in {"signed_off", "exported"} /\ ~KeyIsTaken(r)

\* The report it is about to sign.
Newest(r) ==
  Is(r, "sign") =>
      /\ "preflight" \in Past(r) => saw[r].report # 0
      /\ "report" \in Past(r) => saw[r].report = Latest(Target(r))

\* The inputs it has read for the last time.
Decided(r) ==
  "decide" \in Past(r) =>
      /\ Is(r, "sign") => ~Row(r).fatal /\ saw[r].client # 0
      /\ Is(r, "export") => ReceiptsOf(r) = {}

Judged(r) ==
  verdict[r] = "going" =>
      Authorised(r) /\ UnderNda(r) /\ RowStays(r) /\ Newest(r) /\ Decided(r)

Sound == Locked /\ \A r \in Requests : Judged(r)

\* Steps come in the order of the route.
LEMMA PastOrder ==
  ASSUME Typed, InRoute, NEW r \in Requests, verdict[r] = "going",
         NEW s, NEW t, Precedes(work[r], s, t)
  PROVE  /\ Step(r) = t \/ t \in Past(r) => s \in Past(r)
         /\ Step(r) = s => t \notin Past(r)
<1>1. at[r] \in 1..Len(Route(work[r])) /\ at[r] \in Nat /\ Step(r) = Route(work[r])[at[r]]
  BY DEF InRoute, Step, Typed, RequestsTyped
<1>2. Len(Route(work[r])) \in Nat
  BY EveryRouteCommitsLast DEF InRoute, CommitsLast
<1>3. PICK i \in 1..Len(Route(work[r])) :
          /\ Route(work[r])[i] = s
          /\ \A j \in 1..Len(Route(work[r])) : /\ Route(work[r])[j] = s => j = i
                                               /\ Route(work[r])[j] = t => i < j
  BY DEF Precedes
<1>4. i < at[r] => s \in Past(r)
  BY <1>1, <1>2, <1>3 DEF Past
<1>5. ASSUME t \in Past(r)
      PROVE  i < at[r]
  <2>1. PICK j \in 1..(at[r] - 1) : Route(work[r])[j] = t
    BY <1>5 DEF Past
  <2> QED BY <1>1, <1>2, <1>3, <2>1
<1>6. Step(r) = t => i < at[r]
  BY <1>1, <1>2, <1>3
<1>7. Step(r) = s => at[r] = i
  BY <1>1, <1>3
<1> QED
  BY <1>1, <1>2, <1>3, <1>4, <1>5, <1>6, <1>7

LEMMA SameView ==
  ASSUME NEW r, UNCHANGED Stored, work'[r] = work[r]
  PROVE  /\ Target(r)' = Target(r) /\ Row(r)' = Row(r)
         /\ CanGenerate(Target(r))' = CanGenerate(Target(r))
         /\ GuardAllows(Target(r))' = GuardAllows(Target(r))
         /\ Latest(Target(r))' = Latest(Target(r)) /\ Status(Target(r))' = Status(Target(r))
  BY DEF Stored, Target, Row, CanGenerate, GuardAllows, Latest, Status, Released

LEMMA SameReceipts ==
  ASSUME NEW r, Row(r)'.receipts = Row(r).receipts, work'[r] = work[r],
         saw'[r].package = saw[r].package
  PROVE  ReceiptsOf(r)' = ReceiptsOf(r) /\ KeyIsTaken(r)' = KeyIsTaken(r)
<1>1. ReceiptsOf(r)' = ReceiptsOf(r)
  BY DEF ReceiptsOf
<1> QED
  BY <1>1 DEF KeyIsTaken, Confirmed

LEMMA SameJudged ==
  ASSUME NEW r, UNCHANGED Stored, work'[r] = work[r], at'[r] = at[r], saw'[r] = saw[r],
         verdict'[r] = verdict[r], Judged(r)
  PROVE  Judged(r)'
<1>1. Past(r)' = Past(r)
  BY SamePast
<1>2. ReceiptsOf(r)' = ReceiptsOf(r) /\ KeyIsTaken(r)' = KeyIsTaken(r)
  BY SameView, SameReceipts
<1>3. client' = client /\ granted' = granted
  BY DEF Stored
<1>4. Authorised(r) => Authorised(r)'
  BY <1>1, <1>3 DEF Authorised
<1>5. UnderNda(r) => UnderNda(r)'
  BY <1>1, <1>3 DEF UnderNda, Is
<1>6. RowStays(r) => RowStays(r)'
  BY <1>1, <1>2, SameView DEF RowStays, Is
<1>7. Newest(r) => Newest(r)'
  BY <1>1, SameView DEF Newest, Is
<1>8. Decided(r) => Decided(r)'
  BY <1>1, <1>2, SameView DEF Decided, Is
<1> QED
  BY <1>4, <1>5, <1>6, <1>7, <1>8 DEF Judged

\* What going on from a step leaves to be shown: the facts of that very step.
LEMMA AdvanceFrame ==
  ASSUME Locked, NEW r \in Requests, Advances(r), UNCHANGED Stored
  PROVE  /\ verdict[r] = "going" /\ verdict'[r] = "going" /\ work[r] \in Asked
         /\ work'[r] = work[r] /\ Past(r)' = Past(r) \cup {Step(r)}
         /\ Target(r)' = Target(r) /\ Row(r)' = Row(r)
         /\ client' = client /\ granted' = granted
<1>1. Step(r) \notin {"none", "commit"} /\ MoveOn(r)
  BY DEF Advances
<1>2. verdict[r] = "going" /\ work[r] \in Asked /\ verdict' = verdict /\ work' = work
  BY <1>1, AtStep DEF Locked, MoveOn
<1> QED
  BY <1>1, <1>2, MovedPast, SameView DEF Locked, Stored

\* A step that neither decides nor remembers anything.
LEMMA PlainAdvance ==
  ASSUME Sound, NEW r \in Requests, Advances(r), UNCHANGED Stored, saw' = saw,
         Step(r) \notin {"preflight", "client", "row", "report", "decide"}
  PROVE  Judged(r)'
<1>1. Judged(r) /\ Locked
  BY DEF Sound
<1>2. /\ verdict[r] = "going" /\ work'[r] = work[r] /\ saw'[r] = saw[r]
      /\ Past(r)' = Past(r) \cup {Step(r)} /\ client' = client /\ granted' = granted
  BY <1>1, AdvanceFrame
<1>3. ReceiptsOf(r)' = ReceiptsOf(r) /\ KeyIsTaken(r)' = KeyIsTaken(r)
  BY <1>2, SameView, SameReceipts
<1>4. Authorised(r)'
  BY <1>1, <1>2 DEF Judged, Authorised
<1>5. UnderNda(r)'
  BY <1>1, <1>2 DEF Judged, UnderNda, Is
<1>6. RowStays(r)'
  BY <1>1, <1>2, <1>3, SameView DEF Judged, RowStays, Is
<1>7. Newest(r)'
  BY <1>1, <1>2, SameView DEF Judged, Newest, Is
<1>8. Decided(r)'
  BY <1>1, <1>2, <1>3, SameView DEF Judged, Decided, Is
<1> QED
  BY <1>4, <1>5, <1>6, <1>7, <1>8 DEF Judged

LEMMA PreflightJudges ==
  ASSUME Sound, NEW r \in Requests, Preflight(r), Advances(r), UNCHANGED Stored
  PROVE  Judged(r)'
<1>1. Judged(r) /\ Locked /\ Step(r) = "preflight"
  BY DEF Sound, Preflight
<1>2. /\ verdict[r] = "going" /\ work'[r] = work[r]
      /\ Past(r)' = Past(r) \cup {"preflight"} /\ client' = client /\ granted' = granted
  BY <1>1, AdvanceFrame
<1>3. work[r].kind \in Releases =>
          \A t \in {"client", "row", "report", "decide"} : t \notin Past(r)'
  <2>1. work[r].kind \in Releases =>
            \A t \in {"client", "row", "report", "decide"} : Precedes(work[r], "preflight", t)
    BY SignOrder, ExportOrder DEF Releases
  <2>2. work[r].kind \in Releases =>
            \A t \in {"client", "row", "report", "decide"} : t \notin Past(r)
    BY <1>1, <1>2, <2>1, PastOrder DEF Locked
  <2> QED BY <1>2, <2>2
<1>4. Is(r, "sign") => saw'[r].report # 0
  <2>1. verdict'[r] = "going"
    BY <1>1, AdvanceFrame
  <2>2. ~End(r) /\ ~Deny(r)
    BY <2>1 DEF End, Deny, Locked, Sound, Typed, RequestsTyped
  <2>3. PICK n \in DOMAIN Row(r).reports :
            saw' = [saw EXCEPT ![r] = [@ EXCEPT !.version = Row(r).version, !.report = n,
                                                !.client = client.version]]
    BY <2>2 DEF Preflight, Refuse
  <2>4. n # 0
    BY <1>1, AtStep, RowTypes DEF Locked
  <2>5. saw'[r].report = n
    BY <1>1, <2>3 DEF Locked, Typed, RequestsTyped, SawType
  <2> QED BY <2>4, <2>5
<1>5. Authorised(r)'
  BY <1>2, <1>3 DEF Authorised
<1>6. UnderNda(r)'
  BY <1>2, <1>3 DEF UnderNda, Is, Releases
<1>7. RowStays(r)'
  BY <1>1, <1>2, <1>3, SameView DEF Judged, RowStays, Is, Releases
<1>8. Newest(r)'
  BY <1>2, <1>3, <1>4 DEF Newest, Is, Releases
<1>9. Decided(r)'
  BY <1>2, <1>3 DEF Decided, Is, Releases
<1> QED
  BY <1>5, <1>6, <1>7, <1>8, <1>9 DEF Judged

LEMMA LockClientJudges ==
  ASSUME Sound, NEW r \in Requests, LockClient(r), Advances(r), UNCHANGED Stored
  PROVE  Judged(r)'
<1>1. Judged(r) /\ Locked /\ Step(r) = "client"
  BY DEF Sound, LockClient
<1>2. /\ verdict[r] = "going" /\ work'[r] = work[r] /\ verdict'[r] = "going"
      /\ Past(r)' = Past(r) \cup {"client"} /\ client' = client /\ granted' = granted
  BY <1>1, AdvanceFrame
<1>3. work[r].kind \in Releases => "decide" \notin Past(r)'
  <2>1. work[r].kind \in Releases => Precedes(work[r], "client", "decide")
    BY SignOrder, ExportOrder DEF Releases
  <2> QED BY <1>1, <1>2, <2>1, PastOrder DEF Locked
<1>4. /\ ClientAccepts(r)
      /\ saw' = IF Is(r, "sign") /\ ~client.nda
                THEN [saw EXCEPT ![r] = [@ EXCEPT !.client = 0]] ELSE saw
  <2>1. ~End(r) /\ ~Deny(r)
    BY <1>1, <1>2 DEF End, Deny, Locked, Typed, RequestsTyped
  <2> QED BY <2>1 DEF LockClient, Refuse
<1>5. /\ saw'[r].report = saw[r].report /\ saw'[r].package = saw[r].package
      /\ Is(r, "sign") => saw'[r].client = (IF client.nda THEN saw[r].client ELSE 0)
      /\ Is(r, "export") => saw'[r].client = saw[r].client
  BY <1>1, <1>4 DEF Locked, Typed, RequestsTyped, SawType, Is
<1>6. KeyIsTaken(r)' = KeyIsTaken(r)
  BY <1>2, <1>5, SameView, SameReceipts
<1>7. Authorised(r)'
  BY <1>2, <1>3 DEF Authorised
<1>8. UnderNda(r)'
  BY <1>2, <1>4, <1>5 DEF UnderNda, Is, ClientAccepts
<1>9. RowStays(r)'
  BY <1>1, <1>2, <1>6, SameView DEF Judged, RowStays, Is
<1>10. Newest(r)'
  BY <1>1, <1>2, <1>5, SameView DEF Judged, Newest, Is
<1>11. Decided(r)'
  BY <1>2, <1>3 DEF Decided, Is, Releases
<1> QED
  BY <1>7, <1>8, <1>9, <1>10, <1>11 DEF Judged

LEMMA LockRowJudges ==
  ASSUME Sound, NEW r \in Requests, LockRow(r), Advances(r), UNCHANGED Stored
  PROVE  Judged(r)'
<1>1. Judged(r) /\ Locked /\ Step(r) = "row"
  BY DEF Sound, LockRow
<1>2. /\ verdict[r] = "going" /\ work'[r] = work[r] /\ verdict'[r] = "going"
      /\ Past(r)' = Past(r) \cup {"row"} /\ client' = client /\ granted' = granted
  BY <1>1, AdvanceFrame
<1>3. RowAccepts(r) /\ saw' = saw
  <2>1. ~End(r) /\ ~Deny(r)
    BY <1>1, <1>2 DEF End, Deny, Locked, Typed, RequestsTyped
  <2> QED BY <2>1 DEF LockRow, Refuse
<1>4. ReceiptsOf(r)' = ReceiptsOf(r) /\ KeyIsTaken(r)' = KeyIsTaken(r)
  BY <1>2, <1>3, SameView, SameReceipts
<1>5. Status(Target(r)) = Row(r).status
  BY DEF Status, Row
<1>6. RowStays(r)'
  <2>1. Is(r, "sign") => Row(r).status = "reporting"
    BY <1>3, <1>5 DEF RowAccepts, Is
  <2>2. Is(r, "generate") => CanGenerate(Target(r))
    BY <1>3 DEF RowAccepts, Is
  <2>3. work[r].kind \in {"source", "direct"} => GuardAllows(Target(r))
    BY <1>3 DEF RowAccepts, Is
  <2>4. Is(r, "export") => Row(r).status \in {"signed_off", "exported"} /\ ~KeyIsTaken(r)
    BY <1>3, <1>5 DEF RowAccepts, Is
  <2> QED BY <1>2, <1>4, <2>1, <2>2, <2>3, <2>4, SameView DEF RowStays, Is
<1>7. Authorised(r)'
  BY <1>1, <1>2, <1>3 DEF Judged, Authorised
<1>8. UnderNda(r)'
  BY <1>1, <1>2, <1>3 DEF Judged, UnderNda, Is
<1>9. Newest(r)'
  BY <1>1, <1>2, <1>3, SameView DEF Judged, Newest, Is
<1>10. Decided(r)'
  BY <1>1, <1>2, <1>3, <1>4, SameView DEF Judged, Decided, Is
<1> QED
  BY <1>6, <1>7, <1>8, <1>9, <1>10 DEF Judged

LEMMA LockReportJudges ==
  ASSUME Sound, NEW r \in Requests, LockReport(r), Advances(r), UNCHANGED Stored
  PROVE  Judged(r)'
<1>1. Judged(r) /\ Locked /\ Step(r) = "report"
  BY DEF Sound, LockReport
<1>2. /\ verdict[r] = "going" /\ work'[r] = work[r] /\ verdict'[r] = "going"
      /\ Past(r)' = Past(r) \cup {"report"} /\ client' = client /\ granted' = granted
  BY <1>1, AdvanceFrame
<1>3. saw[r].report = Latest(Target(r)) /\ saw' = saw
  <2>1. ~Deny(r)
    BY <1>1, <1>2 DEF Deny, Locked, Typed, RequestsTyped
  <2> QED BY <2>1 DEF LockReport
<1>4. ReceiptsOf(r)' = ReceiptsOf(r) /\ KeyIsTaken(r)' = KeyIsTaken(r)
  BY <1>2, <1>3, SameView, SameReceipts
<1>5. RowStays(r)'
  BY <1>1, <1>2, <1>4, SameView DEF Judged, RowStays, Is
<1>6. Authorised(r)'
  BY <1>1, <1>2, <1>3 DEF Judged, Authorised
<1>7. UnderNda(r)'
  BY <1>1, <1>2, <1>3 DEF Judged, UnderNda, Is
<1>8. Newest(r)'
  BY <1>1, <1>2, <1>3, SameView DEF Judged, Newest, Is
<1>9. Decided(r)'
  BY <1>1, <1>2, <1>3, <1>4, SameView DEF Judged, Decided, Is
<1> QED
  BY <1>5, <1>6, <1>7, <1>8, <1>9 DEF Judged

LEMMA DecideJudges ==
  ASSUME Sound, NEW r \in Requests, Decide(r), Advances(r), UNCHANGED Stored
  PROVE  Judged(r)'
<1>1. Judged(r) /\ Locked /\ Step(r) = "decide"
  BY DEF Sound, Decide
<1>2. /\ verdict[r] = "going" /\ work'[r] = work[r] /\ verdict'[r] = "going"
      /\ Past(r)' = Past(r) \cup {"decide"} /\ client' = client /\ granted' = granted
      /\ work[r] \in Asked
  BY <1>1, AdvanceFrame
<1>3. /\ StillReady(r) /\ (Is(r, "export") => ~IsReplay(r))
      /\ saw' = [saw EXCEPT ![r] = [@ EXCEPT !.signedAt = clock]]
  <2>1. ~End(r) /\ ~Deny(r)
    BY <1>1, <1>2 DEF End, Deny, Locked, Typed, RequestsTyped
  <2> QED BY <2>1 DEF Decide
<1>4. /\ saw'[r].report = saw[r].report /\ saw'[r].package = saw[r].package
      /\ saw'[r].client = saw[r].client /\ saw'[r].signedAt = clock
  BY <1>1, <1>3 DEF Locked, Typed, RequestsTyped, SawType
<1>5. ReceiptsOf(r)' = ReceiptsOf(r) /\ KeyIsTaken(r)' = KeyIsTaken(r)
  BY <1>2, <1>4, SameView, SameReceipts
<1>6. RowStays(r)'
  BY <1>1, <1>2, <1>5, SameView DEF Judged, RowStays, Is
<1>7. Authorised(r)'
  BY <1>2, <1>3, <1>4 DEF StillReady, HasAuthority, Authorised
<1>8. UnderNda(r)'
  BY <1>1, <1>2, <1>4 DEF Judged, UnderNda, Is
<1>9. Newest(r)'
  BY <1>1, <1>2, <1>4, SameView DEF Judged, Newest, Is
<1>10. Decided(r)'
  <2>1. Is(r, "export") => ReceiptsOf(r) = {}
    <3>1. Is(r, "export") => "row" \in Past(r)
      <4>1. Is(r, "export") => Precedes(work[r], "row", "decide")
        BY ExportOrder DEF Is
      <4> QED BY <1>1, <1>2, <4>1, PastOrder DEF Locked
    <3> QED
      BY <1>1, <1>2, <1>3, <3>1 DEF Judged, RowStays, KeyIsTaken, IsReplay
  <2>2. Is(r, "sign") => ~Row(r).fatal /\ saw[r].client # 0
    BY <1>3 DEF StillReady
  <2> QED BY <1>2, <1>4, <1>5, <2>1, <2>2, SameView DEF Decided, Is
<1> QED
  BY <1>6, <1>7, <1>8, <1>9, <1>10 DEF Judged

\* A step that publishes nothing leaves every request's judgements true.
LEMMA QuietJudges ==
  ASSUME Sound, NEW r \in Requests, Quiet(r)
  PROVE  \A q \in Requests : Judged(q)'
<1>1. Locked /\ UNCHANGED Stored
  BY QuietShape DEF Sound, Locked
<1>2. \A q \in Requests \ {r} : SameRequest(q) /\ saw'[q] = saw[q]
  BY <1>1, QuietShape DEF Locked, Typed, RequestsTyped, SameRequest, End, Deny, Advances, Waits,
     MoveOn, Take
<1>3. \A q \in Requests \ {r} : Judged(q)'
  BY <1>1, <1>2, SameJudged DEF Sound, SameRequest
<1>4. Judged(r)'
  <2>1. CASE End(r) \/ Deny(r)
    BY <1>1, <2>1 DEF End, Deny, Judged, Locked, Typed, RequestsTyped
  <2>2. CASE Waits(r)
    BY <1>1, <2>2, SameJudged DEF Waits, Sound
  <2>3. CASE Advances(r)
    <3> USE <1>1, <2>3
    <3>1. CASE Preflight(r)
      BY <3>1, PreflightJudges
    <3>2. CASE LockClient(r)
      BY <3>2, LockClientJudges
    <3>3. CASE LockRow(r)
      BY <3>3, LockRowJudges
    <3>4. CASE LockReport(r)
      BY <3>4, LockReportJudges
    <3>5. CASE Decide(r)
      BY <3>5, DecideJudges
    <3>6. ASSUME saw' = saw,
                 Step(r) \notin {"preflight", "client", "row", "report", "decide"}
          PROVE  Judged(r)'
      BY <3>6, PlainAdvance
    <3>7. ~End(r) /\ ~Deny(r)
      <4>1. verdict[r] = "going" /\ verdict'[r] = "going"
        BY AdvanceFrame
      <4> QED BY <4>1 DEF End, Deny, Locked, Typed, RequestsTyped
    <3>8. CASE LockBoundary(r) \/ EnterHandler(r)
      BY <3>6, <3>7, <3>8 DEF LockBoundary, EnterHandler
    <3>9. CASE TakeLock(r) \/ ReadAuthority(r)
      BY <3>6, <3>7, <3>9 DEF TakeLock, ReadAuthority
    <3>10. CASE Fail(r)
      BY <3>7, <3>10 DEF Fail
    <3> QED
      BY <3>1, <3>2, <3>3, <3>4, <3>5, <3>8, <3>9, <3>10 DEF Quiet
  <2> QED
    BY <1>1, <2>1, <2>2, <2>3, QuietShape DEF Locked
<1> QED
  BY <1>3, <1>4

LEMMA ArriveJudges ==
  ASSUME Sound, NEW r \in Requests, Arrive(r)
  PROVE  \A q \in Requests : Judged(q)'
<1>1. /\ at' = [at EXCEPT ![r] = 1] /\ verdict' = [verdict EXCEPT ![r] = "going"]
      /\ UNCHANGED Stored
      /\ \E w \in Asked : work' = [work EXCEPT ![r] = w]
      /\ \A q \in Requests \ {r} : saw'[q] = saw[q]
  BY DEF Arrive, Sound, Locked, Typed, RequestsTyped
<1>2. \A q \in Requests \ {r} : Judged(q)'
  BY <1>1, SameJudged DEF Sound, Locked, Typed, RequestsTyped
<1>3. Judged(r)'
  <2>1. at'[r] = 1
    BY <1>1 DEF Sound, Locked, Typed, RequestsTyped
  <2>2. Past(r)' = {}
    BY <2>1 DEF Past
  <2> QED
    BY <2>2 DEF Judged, Authorised, UnderNda, RowStays, Newest, Decided
<1> QED
  BY <1>2, <1>3

-----------------------------------------------------------------------------
(* What one request publishes, against what the others have judged.        *)

LEMMA Conflict ==
  ASSUME Locked, NEW q \in Requests, NEW c \in Requests, q # c,
         NEW k, NEW l, NEW m, <<k, l>> \in held[q], <<k, m>> \in held[c]
  PROVE  m \notin Conflicts(l)
  BY DEF Locked, Compatible

\* Where a committing request is in its route.
LEMMA CommitPast ==
  ASSUME Locked, NEW c \in Requests, Commit(c), verdict[c] = "going"
  PROVE  /\ work[c].kind \in {"sign", "export", "generate", "source", "direct", "complete"} =>
                "row" \in Past(c)
         /\ Is(c, "export") => "boundary" \in Past(c)
         /\ Is(c, "nda") => "client" \in Past(c)
         /\ Is(c, "admin") => "stable" \in Past(c) \/ "renamed" \in Past(c)
         /\ Is(c, "sign") => {"client", "report", "decide"} \subseteq Past(c)
         /\ Is(c, "export") => {"client", "decide"} \subseteq Past(c)
<1>1. Step(c) = "commit" /\ work[c] \in Asked /\ Typed /\ InRoute
  BY CommitShape DEF Locked
<1>2. \A s : Precedes(work[c], s, "commit") => s \in Past(c)
  BY <1>1, PastOrder
<1>3. Is(c, "sign") => {"row", "client", "report", "decide"} \subseteq Past(c)
  BY <1>2, SignOrder DEF Is
<1>4. Is(c, "export") => {"boundary", "row", "client", "decide"} \subseteq Past(c)
  BY <1>2, ExportOrder DEF Is
<1>5. work[c].kind \in {"generate", "source", "direct", "complete"} => "row" \in Past(c)
  BY <1>1, <1>2, OtherOrder DEF Releases
<1>6. Is(c, "nda") => "client" \in Past(c)
  BY <1>1, <1>2, OtherOrder DEF Releases, Is
<1>7. Is(c, "admin") => "stable" \in Past(c) \/ "renamed" \in Past(c)
  BY <1>1, <1>2, OtherOrder DEF Releases, Is
<1> QED
  BY <1>3, <1>4, <1>5, <1>6, <1>7 DEF Is

\* No revocation while somebody relies on the authority it takes away.
LEMMA AuthorityKept ==
  ASSUME Locked, NEW q \in Requests, NEW c \in Requests, q # c, Commit(c),
         verdict[q] = "going", work[q].kind \in Releases, "decide" \in Past(q)
  PROVE  granted' = granted
<1>1. CASE ~Is(c, "admin")
  BY <1>1 DEF Commit, Locked, Typed, StoredTyped
<1>2. CASE Is(c, "admin")
  <2>1. verdict[c] = "going"
    BY <1>2, CommitShape, AtStep DEF Locked, InRoute, Releases, Is
  <2>2. PICK s \in {"stable", "renamed"} : s \in Past(c)
    BY <1>2, <2>1, CommitPast
  <2>3. \A t \in {"stable", "renamed"} : Precedes(work[q], t, "decide")
    BY SignOrder, ExportOrder DEF Releases
  <2>4. s \in Past(q)
    BY <2>3, PastOrder DEF Locked
  <2>5. LockOf(q, s) \in held[q] /\ LockOf(c, s) \in held[c]
    BY <2>1, <2>2, <2>4 DEF Locked, Holding, Kept
  <2>6. LockOf(q, s) = <<<<s, 0>>, "update">> /\ LockOf(c, s) = <<<<s, 0>>, "update">>
    BY <2>2 DEF LockOf
  <2>7. "update" \notin Conflicts("update")
    BY <2>5, <2>6, Conflict
  <2> QED BY <2>7 DEF Conflicts
<1> QED
  BY <1>1, <1>2

\* No NDA decision while somebody relies on the one before.
LEMMA ClientKept ==
  ASSUME Locked, NEW q \in Requests, NEW c \in Requests, q # c, Commit(c),
         verdict[q] = "going", work[q].kind \in Releases, "client" \in Past(q)
  PROVE  client' = client
<1>1. CASE ~Is(c, "nda")
  BY <1>1 DEF Commit
<1>2. CASE Is(c, "nda")
  <2>1. verdict[c] = "going"
    BY <1>2, CommitShape, AtStep DEF Locked, InRoute, Releases, Is
  <2>2. "client" \in Past(c)
    BY <1>2, <2>1, CommitPast
  <2>3. LockOf(q, "client") \in held[q] /\ LockOf(c, "client") \in held[c]
    BY <2>1, <2>2 DEF Locked, Holding, Kept
  <2>4. LockOf(q, "client") = <<<<"client", 0>>, "share">>
    BY DEF LockOf, ClientMode, Releases
  <2>5. LockOf(c, "client") = <<<<"client", 0>>, "noKeyUpdate">>
    BY <1>2 DEF LockOf, ClientMode, Is
  <2>6. "noKeyUpdate" \notin Conflicts("share")
    BY <2>3, <2>4, <2>5, Conflict
  <2> QED BY <2>6 DEF Conflicts
<1> QED
  BY <1>1, <1>2

\* The row of a project that two requests have locked changes under neither, except
\* that those that only share it may write their own part.
LEMMA RowKept ==
  ASSUME Locked, NEW q \in Requests, NEW c \in Requests, q # c, Commit(c),
         verdict[q] = "going", work[q].kind \notin NamesNone, "row" \in Past(q)
  PROVE  \/ Row(q)' = Row(q)
         \/ /\ Target(c) = Target(q) /\ verdict[c] = "going" /\ Target(c) \in Projects
            /\ "row" \in Past(c)
            /\ work[c].kind \in {"source", "direct", "export"}
            /\ work[q].kind \in {"source", "direct", "export"}
            /\ \E row \in Written(c) : project' = [project EXCEPT ![Target(c)] = row]
<1>1. work'[q] = work[q]
  BY CommitShape DEF End, Locked, Typed, RequestsTyped
<1>2. Target(q)' = Target(q)
  BY <1>1 DEF Target
<1>3. Row(q)' = project'[Target(q)]
  BY <1>2 DEF Row
<1>4. CASE project' = project
  BY <1>3, <1>4 DEF Row
<1>5. CASE /\ verdict[c] = "going" /\ Target(c) \in Projects
           /\ \E row \in Written(c) : project' = [project EXCEPT ![Target(c)] = row]
  <2>1. CASE Target(c) # Target(q)
    BY <1>3, <1>5, <2>1 DEF Row, Locked, Typed, StoredTyped
  <2>2. CASE /\ Target(c) = Target(q)
             /\ work[c].kind \notin {"sign", "export", "generate", "source", "direct", "complete"}
    <3>1. Written(c) = {Row(c)}
      BY <2>2 DEF Written
    <3>2. project' = [project EXCEPT ![Target(c)] = Row(c)]
      BY <1>5, <3>1
    <3> QED BY <1>3, <1>5, <2>2, <3>2 DEF Row, Locked, Typed, StoredTyped
  <2>3. CASE /\ Target(c) = Target(q)
             /\ work[c].kind \in {"sign", "export", "generate", "source", "direct", "complete"}
    <3>1. "row" \in Past(c)
      BY <1>5, <2>3, CommitPast
    <3>2. LockOf(q, "row") \in held[q] /\ LockOf(c, "row") \in held[c]
      BY <1>5, <3>1 DEF Locked, Holding, Kept
    <3>3. /\ LockOf(q, "row") = <<<<"row", Target(q)>>, RowMode(work[q])>>
          /\ LockOf(c, "row") = <<<<"row", Target(q)>>, RowMode(work[c])>>
      BY <2>3 DEF LockOf
    <3>4. RowMode(work[c]) \notin Conflicts(RowMode(work[q]))
      BY <3>2, <3>3, Conflict
    <3>5. /\ work[c].kind \in {"source", "direct", "export"}
          /\ work[q].kind \in {"source", "direct", "export"}
      BY <3>4 DEF Conflicts, RowMode
    <3> QED BY <1>5, <2>3, <3>1, <3>5
  <2> QED BY <2>1, <2>2, <2>3
<1> QED
  BY <1>4, <1>5, CommitShape DEF Locked

LEMMA CommitJudges ==
  ASSUME Sound, NEW c \in Requests, Commit(c)
  PROVE  \A q \in Requests : Judged(q)'
<1>1. Locked /\ Typed /\ InRoute /\ End(c)
  BY CommitShape DEF Sound, Locked
<1>2. Judged(c)'
  BY <1>1 DEF End, Judged, Typed, RequestsTyped
<1>3. ASSUME NEW q \in Requests \ {c}, verdict[q] = "going"
      PROVE  Judged(q)'
  <2>1. /\ work'[q] = work[q] /\ saw'[q] = saw[q] /\ at'[q] = at[q]
        /\ Past(q)' = Past(q) /\ Target(q)' = Target(q)
    BY <1>1, SamePast DEF End, Typed, RequestsTyped
  <2>2. Judged(q) /\ work[q] \in Asked
    BY <1>1, <1>3 DEF Sound, InRoute
  <2>3. Row(q)'.status = Status(Target(q))' /\ Row(q).status = Status(Target(q))
    BY DEF Row, Status
  <2>4. Authorised(q)'
    BY <1>1, <1>3, <2>1, <2>2, AuthorityKept DEF Judged, Authorised
  <2>5. UnderNda(q)'
    BY <1>1, <1>3, <2>1, <2>2, ClientKept DEF Judged, UnderNda, Is, Releases
  <2>6. \* What the row says to a request that has locked it.
        "row" \in Past(q) /\ work[q].kind \in {"sign", "generate", "source", "direct", "export"} =>
            /\ work[q].kind \in {"sign", "generate"} => Row(q)' = Row(q)
            /\ work[q].kind \in {"source", "direct", "export"} => Row(q)'.status = Row(q).status
            /\ Is(q, "export") => Row(q)'.receipts = Row(q).receipts
    <3> SUFFICES ASSUME "row" \in Past(q),
                        work[q].kind \in {"sign", "generate", "source", "direct", "export"}
                 PROVE  /\ work[q].kind \in {"sign", "generate"} => Row(q)' = Row(q)
                        /\ work[q].kind \in {"source", "direct", "export"} =>
                               Row(q)'.status = Row(q).status
                        /\ Is(q, "export") => Row(q)'.receipts = Row(q).receipts
      OBVIOUS
    <3>1. CASE Row(q)' = Row(q)
      BY <3>1
    <3>2. CASE Row(q)' # Row(q)
      <4>1. /\ Target(c) = Target(q) /\ verdict[c] = "going" /\ Target(c) \in Projects
            /\ "row" \in Past(c)
            /\ work[c].kind \in {"source", "direct", "export"}
            /\ work[q].kind \in {"source", "direct", "export"}
        BY <1>1, <1>3, <3>2, RowKept DEF NamesNone
      <4>2. PICK row \in Written(c) : project' = [project EXCEPT ![Target(c)] = row]
        BY <1>1, <1>3, <3>2, RowKept DEF NamesNone
      <4>3. Row(q)' = row /\ Row(q) = Row(c)
        BY <1>1, <2>1, <4>1, <4>2 DEF Row, Typed, StoredTyped
      <4>4. CASE work[c].kind \in {"source", "direct"}
        <5>1. row = [Row(c) EXCEPT !.fatal = work[c].value]
          BY <4>4 DEF Written
        <5>2. Row(c) \in RowType
          BY <1>1, <4>1, RowTypes
        <5>3. row.status = Row(c).status /\ row.receipts = Row(c).receipts
          BY <5>1, <5>2 DEF RowType
        <5> QED BY <4>1, <4>3, <5>3
      <4>5. CASE Is(c, "export")
        <5>1. Row(c).status \in {"signed_off", "exported"}
          BY <4>1, <4>5 DEF Sound, Judged, RowStays
        <5>2. CASE work[q].kind \in {"source", "direct"}
          <6>1. GuardAllows(Target(q))
            BY <1>3, <2>2, <5>2 DEF Judged, RowStays
          <6> QED BY <2>3, <4>3, <5>1, <6>1 DEF GuardAllows, Released
        <5>3. CASE Is(q, "export")
          <6>1. "boundary" \in Past(q) /\ "boundary" \in Past(c)
            <7>1. Precedes(work[q], "boundary", "row")
              BY <5>3, ExportOrder DEF Is
            <7>2. "boundary" \in Past(q)
              BY <1>1, <1>3, <7>1, PastOrder
            <7>3. "boundary" \in Past(c)
              BY <1>1, <4>1, <4>5, CommitPast
            <7> QED BY <7>2, <7>3
          <6>2. Target(q) \in Named(work[q]) /\ Target(q) \in Named(work[c])
            BY <1>1, <2>2, <4>1, <4>5, <5>3, CommitShape, NamedShape DEF Target, Is, NamesNone
          <6>3. /\ <<Boundary(Target(q)), "update">> \in held[q]
                /\ <<Boundary(Target(q)), "update">> \in held[c]
            BY <1>1, <1>3, <4>1, <6>1, <6>2 DEF Locked, Holding
          <6>4. "update" \notin Conflicts("update")
            BY <1>1, <6>3, Conflict
          <6> QED BY <6>4 DEF Conflicts
        <5> QED BY <4>1, <5>2, <5>3 DEF Is
      <4> QED BY <4>1, <4>4, <4>5 DEF Is
    <3> QED BY <3>1, <3>2
  <2>7. Is(q, "export") /\ "row" \in Past(q) =>
            ReceiptsOf(q)' = ReceiptsOf(q) /\ KeyIsTaken(q)' = KeyIsTaken(q)
    BY <2>1, <2>6, SameReceipts DEF Is
  <2>8. RowStays(q)'
    <3> SUFFICES ASSUME "row" \in Past(q) PROVE RowStays(q)'
      BY <2>1 DEF RowStays
    <3>1. RowStays(q)
      BY <1>3, <2>2 DEF Judged
    <3>2. Is(q, "sign") => Row(q)'.status = "reporting"
      BY <2>6, <3>1 DEF RowStays, Is
    <3>3. Is(q, "generate") => CanGenerate(Target(q))'
      BY <2>1, <2>3, <2>6, <3>1 DEF RowStays, Is, CanGenerate
    <3>4. work[q].kind \in {"source", "direct"} => GuardAllows(Target(q))'
      BY <2>1, <2>3, <2>6, <3>1 DEF RowStays, GuardAllows, Released
    <3>5. Is(q, "export") => Row(q)'.status \in {"signed_off", "exported"} /\ ~KeyIsTaken(q)'
      BY <2>6, <2>7, <3>1 DEF RowStays, Is
    <3> QED BY <2>1, <3>2, <3>3, <3>4, <3>5 DEF RowStays, Is
  <2>9. Newest(q)'
    <3>1. Is(q, "sign") /\ "report" \in Past(q) => "row" \in Past(q)
      <4>1. Is(q, "sign") => Precedes(work[q], "row", "report")
        BY SignOrder DEF Is
      <4> QED BY <1>1, <1>3, <4>1, PastOrder
    <3>2. Is(q, "sign") /\ "report" \in Past(q) => Latest(Target(q))' = Latest(Target(q))
      BY <2>1, <2>6, <3>1 DEF Is, Row, Latest
    <3> QED BY <1>3, <2>1, <2>2, <3>2 DEF Judged, Newest, Is
  <2>10. Decided(q)'
    <3>1. work[q].kind \in Releases /\ "decide" \in Past(q) => "row" \in Past(q)
      <4>1. work[q].kind \in Releases => Precedes(work[q], "row", "decide")
        BY SignOrder, ExportOrder DEF Releases
      <4> QED BY <1>1, <1>3, <4>1, PastOrder
    <3> QED BY <1>3, <2>1, <2>2, <2>6, <2>7, <3>1 DEF Judged, Decided, Is, Releases
  <2> QED BY <2>4, <2>5, <2>8, <2>9, <2>10 DEF Judged
<1>4. ASSUME NEW q \in Requests \ {c}, verdict[q] # "going"
      PROVE  Judged(q)'
  BY <1>1, <1>4 DEF End, Judged, Typed, RequestsTyped
<1> QED
  BY <1>2, <1>3, <1>4

LEMMA SoundInit == Init => Sound
<1>1. Init => \A r \in Requests : Judged(r)
  BY DEF Init, Judged
<1> QED
  BY <1>1, LockedInit DEF Sound

LEMMA SoundStep == Sound /\ [Next]_vars => Sound'
<1> SUFFICES ASSUME Sound, [Next]_vars PROVE Sound'
  OBVIOUS
<1>1. Locked'
  BY LockedStep DEF Sound
<1>2. ASSUME NEW r \in Requests, Arrive(r) \/ Quiet(r) \/ Commit(r)
      PROVE  \A q \in Requests : Judged(q)'
  BY <1>2, ArriveJudges, QuietJudges, CommitJudges
<1>3. CASE UNCHANGED <<client, granted, project, held, work, at, saw, verdict>>
  <2>1. ASSUME NEW q \in Requests, verdict[q] = "going" PROVE Judged(q)'
    <3>1. Past(q)' = Past(q)
      BY <1>3, SamePast
    <3>2. ReceiptsOf(q)' = ReceiptsOf(q) /\ KeyIsTaken(q)' = KeyIsTaken(q)
      BY <1>3 DEF ReceiptsOf, KeyIsTaken, Confirmed, Row, Target
    <3> QED
      BY <1>3, <2>1, <3>1, <3>2 DEF Sound, Judged, Authorised, UnderNda, RowStays, Newest,
         Decided, Is, Row, Target, CanGenerate, GuardAllows, Released, Status, Latest
  <2>2. \A q \in Requests : Judged(q)'
    BY <1>3, <2>1 DEF Judged
  <2> QED
    BY <1>1, <2>2 DEF Sound
<1>4. CASE Tick
  BY <1>3, <1>4 DEF Tick
<1>5. CASE UNCHANGED vars
  BY <1>3, <1>5 DEF vars
<1> QED
  BY <1>1, <1>2, <1>4, <1>5 DEF Next, Quiet, Sound

\* Whatever a request has judged holds until it ends (reports.ts).
THEOREM JudgementsStay == Spec => []Sound
  BY SoundInit, SoundStep, PTL DEF Spec

-----------------------------------------------------------------------------
(* The properties of the model.                                            *)

\* Only its own commit publishes anything for a request that ends.
LEMMA Publishes ==
  ASSUME Sound, Next, NEW r \in Requests, Ends(r), project' # project
  PROVE  /\ Commit(r) /\ verdict[r] = "going" /\ Target(r) \in Projects
         /\ work[r].kind \notin NamesNone
         /\ \E row \in Written(r) :
                project' = [project EXCEPT ![Target(r)] = row] /\ project'[Target(r)] = row
<1>1. PICK c \in Requests : Commit(c)
  <2>1. ASSUME NEW q \in Requests, Quiet(q) PROVE FALSE
    BY <2>1, QuietShape DEF Sound, Locked, Stored
  <2>2. ASSUME NEW q \in Requests, Arrive(q) PROVE FALSE
    BY <2>2 DEF Arrive, Stored
  <2>3. CASE Tick
    BY <2>3 DEF Tick
  <2> QED
    BY <2>1, <2>2, <2>3 DEF Next, Quiet
<1>2. c = r
  BY <1>1 DEF Commit, End, Ends, Sound, Locked, Typed, RequestsTyped
<1> QED
  BY <1>1, <1>2, CommitShape DEF Sound, Locked, Typed, StoredTyped

LEMMA SignsOnReadyInputs ==
  ASSUME Sound, Next, NEW r \in Requests, SignedBy(r)
  PROVE  /\ client.nda /\ ~Row(r).fatal /\ Row(r).status = "reporting"
         /\ project'[Target(r)].reports[Latest(Target(r))] = "signed_off"
<1>1. Is(r, "sign") /\ Ends(r) /\ project' # project
  BY DEF SignedBy, Row
<1>2. /\ Commit(r) /\ verdict[r] = "going" /\ Target(r) \in Projects
      /\ \E row \in Written(r) : project'[Target(r)] = row
  BY <1>1, Publishes
<1>3. /\ {"row", "client", "report", "decide"} \subseteq Past(r)
      /\ "preflight" \in Past(r)
  <2>1. {"row", "client", "report", "decide"} \subseteq Past(r)
    BY <1>1, <1>2, CommitPast DEF Sound, Is
  <2>2. Precedes(work[r], "preflight", "decide")
    BY <1>1, SignOrder DEF Is
  <2> QED BY <1>2, <2>1, <2>2, PastOrder DEF Sound, Locked
<1>4. client.nda /\ ~Row(r).fatal /\ Row(r).status = "reporting"
  BY <1>1, <1>2, <1>3 DEF Sound, Judged, UnderNda, RowStays, Decided
<1>5. saw[r].report = Latest(Target(r)) /\ saw[r].report # 0
  BY <1>1, <1>2, <1>3 DEF Sound, Judged, Newest
<1>6. project'[Target(r)].reports[Latest(Target(r))] = "signed_off"
  <2>1. Row(r) \in RowType /\ saw[r].report \in DOMAIN Row(r).reports
    BY <1>2, <1>5, RowTypes DEF Sound, Locked
  <2>2. project'[Target(r)] =
            [[Row(r) EXCEPT !.version = @ + 1]
                EXCEPT !.status = "signed_off", !.reports[saw[r].report] = "signed_off"]
    BY <1>1, <1>2 DEF Written, Is
  <2>3. project'[Target(r)].reports = [Row(r).reports EXCEPT ![saw[r].report] = "signed_off"]
    BY <2>1, <2>2 DEF RowType
  <2> QED BY <1>5, <2>1, <2>3
<1> QED
  BY <1>4, <1>6

\* What is committed when a sign-off is published is an approved NDA, no fatal
\* defect and a project in reporting, and the report it signs is the newest
\* (reports.ts, POST /reports/:id/sign-off).
THEOREM SignedReady == Spec => SignedOnReadyInputs
<1>1. Sound /\ [Next]_vars =>
          [\A r \in Requests : SignedBy(r) =>
              /\ client.nda /\ ~Row(r).fatal /\ Row(r).status = "reporting"
              /\ project'[Target(r)].reports[Latest(Target(r))] = "signed_off"]_vars
  BY SignsOnReadyInputs
<1> QED
  BY <1>1, JudgementsStay, PTL DEF Spec, SignedOnReadyInputs

LEMMA ExportedPublishes ==
  ASSUME Sound, Next, NEW r \in Requests, ExportedBy(r)
  PROVE  /\ Commit(r) /\ verdict[r] = "going" /\ Is(r, "export")
         /\ {"client", "decide"} \subseteq Past(r)
<1>1. Is(r, "export") /\ Ends(r) /\ project' # project
  <2>1. ASSUME project' = project PROVE FALSE
    <3>1. Len(Row(r).receipts) < Len(Row(r).receipts)
      BY <2>1 DEF ExportedBy, Row
    <3>2. Target(r) \in Projects
      <4>1. work[r] \in Asked
        BY DEF ExportedBy, Is, Sound, Locked, Typed, RequestsTyped, Idle
      <4> QED BY <4>1, NamedShape DEF ExportedBy, Is, Target, NamesNone
    <3>3. Len(Row(r).receipts) \in Nat
      <4>1. Row(r).receipts \in Seq([key: BOOLEAN, confirmed: Nat])
        BY <3>2, RowTypes DEF Sound, Locked, RowType
      <4> QED BY <4>1, LenProperties
    <3> QED BY <3>1, <3>3
  <2> QED BY <2>1 DEF ExportedBy
<1>2. Commit(r) /\ verdict[r] = "going"
  BY <1>1, Publishes
<1> QED
  BY <1>1, <1>2, CommitPast DEF Sound

\* The NDA under which an export is published has been approved without
\* interruption since its archive was prepared (reports.ts, POST
\* /projects/:id/export).
THEOREM OneNda == Spec => ExportedUnderOneNda
<1>1. Sound /\ [Next]_vars =>
          [\A r \in Requests : ExportedBy(r) => client.nda /\ client.version = saw[r].client]_vars
  BY ExportedPublishes DEF Sound, Judged, UnderNda
<1> QED
  BY <1>1, JudgementsStay, PTL DEF Spec, ExportedUnderOneNda

LEMMA SignedPublishes ==
  ASSUME Sound, Next, NEW r \in Requests, SignedBy(r)
  PROVE  verdict[r] = "going" /\ Is(r, "sign") /\ "decide" \in Past(r)
<1>1. Is(r, "sign") /\ Ends(r) /\ project' # project
  BY DEF SignedBy, Row
<1> QED
  BY <1>1, Publishes, CommitPast DEF Sound

\* A release is ordered before any revocation of its user's authority, and is
\* dated inside the access window (projectReviewerAuthority.ts,
\* compatibleAdvisoryLock.ts).
THEOREM ReleasersHadAuthority == Spec => ReleaserHadAuthority
<1>1. Sound /\ [Next]_vars =>
          [\A r \in Requests : SignedBy(r) \/ ExportedBy(r) =>
              granted /\ saw[r].signedAt < AccessExpiry]_vars
  BY SignedPublishes, ExportedPublishes DEF Sound, Judged, Authorised, Releases, Is
<1> QED
  BY <1>1, JudgementsStay, PTL DEF Spec, ReleaserHadAuthority

\* What any step publishes: at most one row, by a request that is going.
LEMMA OneWriter ==
  ASSUME Sound, Next, project' # project
  PROVE  \E c \in Requests :
             /\ verdict[c] = "going" /\ Target(c) \in Projects /\ Commit(c)
             /\ \E row \in Written(c) : project' = [project EXCEPT ![Target(c)] = row]
<1>1. ASSUME NEW q \in Requests, Quiet(q) PROVE FALSE
  BY <1>1, QuietShape DEF Sound, Locked, Stored
<1>2. ASSUME NEW q \in Requests, Arrive(q) PROVE FALSE
  BY <1>2 DEF Arrive, Stored
<1>3. CASE Tick
  BY <1>3 DEF Tick
<1> QED
  BY <1>1, <1>2, <1>3, CommitShape DEF Next, Quiet, Sound, Locked

LEMMA RowUpdates ==
  ASSUME NEW o \in RowType
  PROVE  /\ LET m == [o EXCEPT !.version = @ + 1]
            IN  /\ m \in RowType /\ m.fatal = o.fatal /\ m.reports = o.reports
                /\ m.receipts = o.receipts /\ m.status = o.status
         /\ \A v \in Statuses :
                LET m == [o EXCEPT !.status = v]
                IN  /\ m \in RowType /\ m.fatal = o.fatal /\ m.reports = o.reports
                    /\ m.receipts = o.receipts /\ m.status = v
         /\ \A q : LET m == [o EXCEPT !.reports = q]
                   IN  m.receipts = o.receipts /\ m.status = o.status
<1>1. LET m == [o EXCEPT !.version = @ + 1]
      IN  /\ m \in RowType /\ m.fatal = o.fatal /\ m.reports = o.reports
          /\ m.receipts = o.receipts /\ m.status = o.status
  <2>1. \A v \in Nat :
            LET m == [o EXCEPT !.version = v]
            IN  /\ m \in RowType /\ m.fatal = o.fatal /\ m.reports = o.reports
                /\ m.receipts = o.receipts /\ m.status = o.status
    BY DEF RowType
  <2>2. o.version + 1 \in Nat
    BY DEF RowType
  <2> QED BY <2>1, <2>2
<1>2. \A v \in Statuses :
          LET m == [o EXCEPT !.status = v]
          IN  /\ m \in RowType /\ m.fatal = o.fatal /\ m.reports = o.reports
              /\ m.receipts = o.receipts /\ m.status = v
  BY DEF RowType
<1>3. \A q : LET m == [o EXCEPT !.reports = q]
             IN  m.receipts = o.receipts /\ m.status = o.status
  BY DEF RowType
<1> QED
  BY <1>1, <1>2, <1>3

\* An export adds a receipt and moves the status on; what was released stays.
LEMMA ExportWrites ==
  ASSUME NEW c, Row(c) \in RowType, Is(c, "export"), NEW row \in Written(c)
  PROVE  /\ row.fatal = Row(c).fatal /\ row.reports = Row(c).reports
         /\ row.status \in {Row(c).status, "exported"}
         /\ row.receipts =
                Append(Row(c).receipts, [key |-> work[c].value, confirmed |-> saw[c].package])
<1> DEFINE old == Row(c)
           next == [old EXCEPT !.version = @ + 1]
           receipt == [key |-> work[c].value, confirmed |-> saw[c].package]
           moved == IF old.status = "signed_off" THEN [next EXCEPT !.status = "exported"]
                    ELSE old
<1>1. PICK n \in {old.package, old.package + 1} \ {0} :
          row = [moved EXCEPT !.package = n, !.receipts = Append(@, receipt)]
  BY DEF Written, Is
<1>2. "exported" \in Statuses
  BY DEF Statuses
<1>3. /\ moved \in RowType /\ moved.fatal = old.fatal /\ moved.reports = old.reports
      /\ moved.receipts = old.receipts /\ moved.status \in {old.status, "exported"}
  <2>1. /\ next \in RowType /\ next.fatal = old.fatal /\ next.reports = old.reports
        /\ next.receipts = old.receipts
    BY RowUpdates
  <2> DEFINE exported == [next EXCEPT !.status = "exported"]
  <2> HIDE DEF next, old
  <2>2. /\ exported \in RowType /\ exported.fatal = next.fatal
        /\ exported.reports = next.reports /\ exported.receipts = next.receipts
        /\ exported.status = "exported"
    BY <1>2, <2>1, RowUpdates
  <2>3. old \in RowType
    BY DEF old
  <2>4. moved = exported \/ moved = old
    OBVIOUS
  <2> HIDE DEF exported, moved
  <2> QED BY <2>1, <2>2, <2>3, <2>4
<1> HIDE DEF moved, receipt
<1>4. /\ row.fatal = moved.fatal /\ row.reports = moved.reports /\ row.status = moved.status
      /\ row.receipts = Append(moved.receipts, receipt)
  BY <1>1, <1>3 DEF RowType
<1> QED
  BY <1>3, <1>4 DEF receipt

LEMMA ReleasedStays ==
  ASSUME Sound, Next, NEW p \in Projects, Status(p) \in Released
  PROVE  \/ Status(p)' = "purged"
         \/ /\ Status(p)' \in Released
            /\ project'[p].fatal = project[p].fatal
            /\ project'[p].reports = project[p].reports
<1>1. CASE project'[p] = project[p]
  BY <1>1 DEF Status, Released
<1>2. CASE project'[p] # project[p]
  <2>1. PICK c \in Requests :
            /\ verdict[c] = "going" /\ Target(c) \in Projects /\ Commit(c)
            /\ \E row \in Written(c) : project' = [project EXCEPT ![Target(c)] = row]
    BY <1>2, OneWriter
  <2>2. PICK row \in Written(c) : project' = [project EXCEPT ![Target(c)] = row]
    BY <2>1
  <2>3. Target(c) = p /\ project'[p] = row /\ Row(c) = project[p] /\ row # Row(c)
    BY <1>2, <2>1, <2>2 DEF Row, Sound, Locked, Typed, StoredTyped
  <2>4. Row(c) \in RowType
    BY <2>1, RowTypes DEF Sound, Locked
  <2>5. "row" \in Past(c) => RowStays(c)
    BY <2>1 DEF Sound, Judged
  <2>6. work[c].kind \notin {"sign", "generate", "source", "direct"}
    <3>1. work[c].kind \in {"sign", "generate", "source", "direct"} => "row" \in Past(c)
      BY <2>1, CommitPast DEF Sound
    <3> QED
      BY <2>3, <2>5, <3>1 DEF RowStays, Is, Status, Released, CanGenerate, GuardAllows
  <2>7. CASE Is(c, "export")
    <3>1. /\ row.fatal = Row(c).fatal /\ row.reports = Row(c).reports
          /\ row.status \in {Row(c).status, "exported"}
      BY <2>4, <2>7, ExportWrites
    <3> QED BY <2>3, <3>1 DEF Status, Released
  <2>8. CASE Is(c, "complete")
    <3>1. row.status = "purged"
      BY <2>4, <2>8 DEF Written, Is, RowType
    <3> QED BY <2>3, <3>1 DEF Status
  <2>9. CASE work[c].kind \notin {"sign", "export", "generate", "source", "direct", "complete"}
    BY <2>3, <2>9 DEF Written
  <2> QED BY <2>6, <2>7, <2>8, <2>9 DEF Is
<1> QED
  BY <1>1, <1>2

\* The inputs and reports of a released project stay as they are until the
\* governed purge (tenancy.ts, valo_assert_delivery_project_mutable).
THEOREM ReleasesAreFrozen == Spec => ReleasedContentIsFrozen
<1>1. Sound /\ [Next]_vars =>
          [\A p \in Projects : Status(p) \in Released =>
              \/ Status(p)' = "purged"
              \/ /\ Status(p)' \in Released
                 /\ project'[p].fatal = project[p].fatal
                 /\ project'[p].reports = project[p].reports]_vars
  BY ReleasedStays
<1> QED
  BY <1>1, JudgementsStay, PTL DEF Spec, ReleasedContentIsFrozen

LEMMA OneReceiptStep == Sound /\ OneReceiptPerKey /\ [Next]_vars => OneReceiptPerKey'
<1> SUFFICES ASSUME Sound, OneReceiptPerKey, Next, project' # project
             PROVE  OneReceiptPerKey'
  BY DEF vars, OneReceiptPerKey
<1>1. PICK c \in Requests :
          /\ verdict[c] = "going" /\ Target(c) \in Projects /\ Commit(c)
          /\ \E row \in Written(c) : project' = [project EXCEPT ![Target(c)] = row]
  BY OneWriter
<1>2. PICK row \in Written(c) : project' = [project EXCEPT ![Target(c)] = row]
  BY <1>1
<1>3. /\ project'[Target(c)] = row /\ Row(c) = project[Target(c)]
      /\ \A p \in Projects \ {Target(c)} : project'[p] = project[p]
  BY <1>1, <1>2 DEF Row, Sound, Locked, Typed, StoredTyped
<1>4. Row(c) \in RowType /\ Row(c).receipts \in Seq([key: BOOLEAN, confirmed: Nat])
  BY <1>1, RowTypes DEF Sound, Locked, RowType
<1>5. SUFFICES \A i, j \in DOMAIN row.receipts :
                   row.receipts[i].key = row.receipts[j].key => i = j
  BY <1>1, <1>3 DEF OneReceiptPerKey
<1>6. CASE row.receipts = Row(c).receipts
  BY <1>1, <1>3, <1>6 DEF OneReceiptPerKey
<1>7. CASE Is(c, "export")
  <2> DEFINE receipt == [key |-> work[c].value, confirmed |-> saw[c].package]
             old == Row(c).receipts
  <2>3. receipt \in [key: BOOLEAN, confirmed: Nat] /\ receipt.key = work[c].value
    <3>1. work[c].value \in BOOLEAN
      BY <1>1, CommitShape, AskedShape DEF Sound, Locked
    <3> QED BY <3>1 DEF Sound, Locked, Typed, RequestsTyped, SawType
  <2>4. ReceiptsOf(c) = {}
    BY <1>1, <1>7, CommitPast DEF Sound, Judged, Decided
  <2>5. row.receipts = Append(old, receipt)
    BY <1>4, <1>7, ExportWrites
  <2> HIDE DEF receipt
  <2>6. \A i \in DOMAIN old : old[i].key # receipt.key
    BY <2>3, <2>4 DEF ReceiptsOf
  <2>7. \A i, j \in DOMAIN old : old[i].key = old[j].key => i = j
    BY <1>1, <1>3 DEF OneReceiptPerKey
  <2> HIDE DEF old
  <2>8. old \in Seq([key: BOOLEAN, confirmed: Nat])
    BY <1>4 DEF old
  <2>9. /\ Len(old) \in Nat /\ DOMAIN old = 1..Len(old)
        /\ DOMAIN Append(old, receipt) = 1..(Len(old) + 1)
        /\ \A i \in 1..Len(old) : Append(old, receipt)[i] = old[i]
        /\ Append(old, receipt)[Len(old) + 1] = receipt
    BY <2>3, <2>8, AppendProperties, LenProperties
  <2> QED BY <2>5, <2>6, <2>7, <2>9
<1>8. CASE Is(c, "complete")
  <2>1. row.receipts = <<>>
    BY <1>4, <1>8 DEF Written, Is, RowType
  <2> QED BY <2>1
<1>9. CASE work[c].kind \notin {"export", "complete"}
  <2> DEFINE next == [Row(c) EXCEPT !.version = @ + 1]
  <2>0. /\ next \in RowType /\ next.receipts = Row(c).receipts
        /\ {"signed_off", "reporting"} \subseteq Statuses
    BY <1>4, RowUpdates DEF Statuses
  <2>1. ASSUME Is(c, "sign") PROVE row.receipts = Row(c).receipts
    <3> DEFINE signed == [next EXCEPT !.status = "signed_off"]
    <3>1. signed \in RowType /\ signed.receipts = Row(c).receipts
      BY <2>0, RowUpdates
    <3>2. \E q : row = [signed EXCEPT !.reports = q]
      BY <1>4, <2>1 DEF Written, Is
    <3> HIDE DEF signed
    <3> QED BY <3>1, <3>2, RowUpdates
  <2>2. ASSUME Is(c, "generate") PROVE row.receipts = Row(c).receipts
    <3> DEFINE reporting == [next EXCEPT !.status = "reporting"]
    <3>1. reporting \in RowType /\ reporting.receipts = Row(c).receipts
      BY <2>0, RowUpdates
    <3>2. \/ \E q : row = [reporting EXCEPT !.reports = q]
          \/ \E q : row = [Row(c) EXCEPT !.reports = q]
      BY <2>2 DEF Written, Is
    <3> HIDE DEF next, reporting
    <3>3. \A q : [reporting EXCEPT !.reports = q].receipts = reporting.receipts
      BY <3>1, RowUpdates
    <3>4. \A q : [Row(c) EXCEPT !.reports = q].receipts = Row(c).receipts
      BY <1>4, RowUpdates
    <3> QED BY <3>1, <3>2, <3>3, <3>4
  <2>4. ASSUME ~Is(c, "sign"), ~Is(c, "generate") PROVE row.receipts = Row(c).receipts
    BY <1>4, <1>9, <2>4 DEF Written, Is, RowType
  <2>3. row.receipts = Row(c).receipts
    BY <2>1, <2>2, <2>4
  <2> QED BY <1>6, <2>3
<1> QED
  BY <1>7, <1>8, <1>9 DEF Is

\* An export key has one receipt, however often the export is retried (reports.ts).
THEOREM OneReceipt == Spec => []OneReceiptPerKey
<1>1. Init => OneReceiptPerKey
  <2>1. \A row \in {Draft, FoundDefects, SignedOff} : row.receipts = <<>>
    <3>1. Draft.receipts = <<>> /\ Draft = [status |-> "reporting", version |-> 1,
              fatal |-> FALSE, reports |-> <<"draft">>, package |-> 0, receipts |-> <<>>]
      BY DEF Draft
    <3>2. FoundDefects.receipts = <<>>
      BY <3>1 DEF FoundDefects
    <3>3. SignedOff.receipts = <<>>
      BY <3>1 DEF SignedOff
    <3> QED BY <3>1, <3>2, <3>3
  <2>2. Init => \A p \in Projects : project[p].receipts = <<>>
    BY <2>1 DEF Init
  <2> QED BY <2>2 DEF OneReceiptPerKey
<1> QED
  BY <1>1, OneReceiptStep, JudgementsStay, PTL DEF Spec

-----------------------------------------------------------------------------
(* Which requests can wait for one another.                                *)

Retention == {"complete", "reconcile"}
Bounded == {"sign", "export", "generate", "source", "upload"}

\* The lock a step of the route takes, other than those of the boundary.
LockAt(r, s) ==
  CASE s \in {"stable", "renamed"} -> {<<<<s, 0>>, "update">>}
    [] s = "again" -> {<<Boundary(Target(r)), "update">>}
    [] s = "client" -> {<<<<"client", 0>>, ClientMode(work[r])>>}
    [] s = "row" -> {<<<<"row", Target(r)>>, RowMode(work[r])>>}
    [] s = "report" -> {<<<<"report", Target(r)>>, ReportMode(work[r])>>}
    [] s = "source" -> {<<<<"source", Target(r)>>, "update">>}
    [] s = "advance" -> {<<<<"row", Target(r)>>, "noKeyUpdate">>}
    [] OTHER -> {}

\* What the lock of a step is on.
Thing(s) == IF s = "advance" THEN "row" ELSE IF s = "again" THEN "project" ELSE s

OfBoundary(r, l) ==
  \E p \in Named(work[r]) :
      /\ l = <<Boundary(p), "update">>
      /\ \A n \in Named(work[r]) : n < p => <<Boundary(n), "update">> \in held[r]

\* A request has no lock but those of the steps behind it, and those of its
\* projects in their order.
Earned(r) ==
  /\ verdict[r] = "new" => held[r] = {}
  /\ verdict[r] = "going" =>
         \A l \in held[r] :
             \/ \E s \in Past(r) : l \in LockAt(r, s)
             \/ "boundary" \in Past(r) \cup {Step(r)} /\ OfBoundary(r, l)

Orderly == Locked /\ \A r \in Requests : Earned(r)

\* A request names Home, and at most one other project.
LEMMA NamedHome ==
  ASSUME NEW w \in Asked
  PROVE  /\ \E p \in Projects : Named(w) \subseteq {Home, p}
         /\ w.kind \notin NamesNone => Home \in Named(w)
<1>1. \A k \in Kinds : \A n \in NamedBy(k) :
          \E p \in Projects : n \in {<<Home>>, <<Home, p>>, <<p, Home>>}
  BY SignOffAssumption DEF NamedBy
<1>2. \A p : \A n \in {<<Home>>, <<Home, p>>, <<p, Home>>} :
          LET named == {n[i] : i \in DOMAIN n} IN named \subseteq {Home, p} /\ Home \in named
  <2>1. \A p : {<<Home>>[i] : i \in DOMAIN <<Home>>} = {Home}
    BY SMT
  <2>2. \A p : {<<Home, p>>[i] : i \in DOMAIN <<Home, p>>} = {Home, p}
    BY SMT
  <2>3. \A p : {<<p, Home>>[i] : i \in DOMAIN <<p, Home>>} = {Home, p}
    BY SMT
  <2> QED
    BY <2>1, <2>2, <2>3
<1>3. ASSUME NEW k \in Kinds, w.named \in NamedBy(k)
      PROVE  Home \in Named(w) /\ \E p \in Projects : Named(w) \subseteq {Home, p}
  <2>1. PICK p \in Projects : w.named \in {<<Home>>, <<Home, p>>, <<p, Home>>}
    BY <1>1, <1>3
  <2> QED
    BY <1>2, <2>1 DEF Named
<1>4. CASE w \in UNION {[kind: {k}, named: NamedBy(k), keys: {<<>>}, value: {FALSE}]
              : k \in {"sign", "generate", "upload", "complete", "reconcile"}}
  <2>1. PICK k \in {"sign", "generate", "upload", "complete", "reconcile"} :
            w \in [kind: {k}, named: NamedBy(k), keys: {<<>>}, value: {FALSE}]
    BY <1>4
  <2> QED
    BY <1>3, <2>1 DEF Kinds
<1>5. CASE w \in UNION {[kind: {k}, named: NamedBy(k), keys: {<<>>}, value: BOOLEAN]
              : k \in {"source", "direct", "export"}}
  <2>1. PICK k \in {"source", "direct", "export"} :
            w \in [kind: {k}, named: NamedBy(k), keys: {<<>>}, value: BOOLEAN]
    BY <1>5
  <2> QED
    BY <1>3, <2>1 DEF Kinds
<1>6. CASE w.kind \in NamesNone
  BY <1>6, NamedShape, SignOffAssumption
<1>7. CASE w \in {[Idle EXCEPT !.kind = "nda", !.value = v] : v \in BOOLEAN}
  BY <1>6, <1>7 DEF Idle, NamesNone
<1>8. CASE w \in {[Idle EXCEPT !.kind = "admin", !.keys = ks] : ks \in AdminKeys}
  BY <1>6, <1>8 DEF Idle, NamesNone
<1> QED
  BY <1>4, <1>5, <1>7, <1>8 DEF Asked

\* The next project is the least that is not locked yet.
LEMMA NextProjectIsLeast ==
  ASSUME NEW r, work[r] \in Asked, Unlocked(r) # {}
  PROVE  /\ NextProject(r) \in Unlocked(r) /\ NextProject(r) \in Nat
         /\ \A p \in Unlocked(r) : p \in Nat /\ NextProject(r) <= p
<1>1. PICK p \in Projects : Named(work[r]) \subseteq {Home, p}
  BY NamedHome
<1>2. Unlocked(r) \subseteq {Home, p} /\ Home \in Nat /\ p \in Nat
  BY <1>1, SignOffAssumption DEF Unlocked
<1>3. \E m \in Unlocked(r) : \A q \in Unlocked(r) : m <= q
  <2>1. PICK m \in Unlocked(r) : TRUE
    OBVIOUS
  <2>2. CASE \A q \in Unlocked(r) : m <= q
    BY <2>2
  <2>3. CASE \E q \in Unlocked(r) : ~(m <= q)
    <3>1. PICK q \in Unlocked(r) : ~(m <= q)
      BY <2>3
    <3>2. {m, q} = {Home, p} /\ q <= m
      BY <1>2, <3>1
    <3> QED
      BY <1>2, <3>1, <3>2
  <2> QED
    BY <2>2, <2>3
<1> QED
  BY <1>2, <1>3 DEF NextProject

\* What the next statement of a request needs.
LEMMA WantedLocks ==
  ASSUME NEW r, NEW w \in Wanted(r)
  PROVE  \/ /\ Step(r) = "boundary" /\ Unlocked(r) # {}
            /\ w = <<Boundary(NextProject(r)), "update">>
         \/ Step(r) # "boundary" /\ w \in LockAt(r, Step(r))
  BY DEF Wanted, LockAt

\* Locks of different steps are on different things, but for the project row.
LEMMA LockThing ==
  ASSUME NEW r, NEW s, NEW l \in LockAt(r, s)
  PROVE  l[1][1] = Thing(s)
  BY DEF LockAt, Thing, Boundary

LEMMA SameEarned ==
  ASSUME NEW q, SameRequest(q), Earned(q)
  PROVE  Earned(q)'
<1>1. Past(q)' = Past(q) /\ Target(q)' = Target(q) /\ Step(q)' = Step(q)
  BY SamePast DEF SameRequest, Step
<1>2. \A s : LockAt(q, s)' = LockAt(q, s)
  BY <1>1 DEF SameRequest, LockAt
<1>3. \A l : OfBoundary(q, l)' = OfBoundary(q, l)
  BY DEF SameRequest, OfBoundary
<1> QED
  BY <1>1, <1>2, <1>3 DEF SameRequest, Earned

\* Going on earns the lock of the step.
LEMMA AdvancesEarns ==
  ASSUME Locked, NEW r \in Requests, Earned(r), Advances(r)
  PROVE  Earned(r)' /\ \A q \in Requests \ {r} : SameRequest(q)
<1> USE DEF Locked
<1>1. Step(r) \notin {"none", "commit"} /\ MoveOn(r) /\ verdict[r] = "going"
  BY AtStep DEF Advances
<1>2. /\ held[r] \subseteq held'[r] /\ held'[r] \subseteq held[r] \cup Wanted(r)
      /\ \A q \in Requests \ {r} : held'[q] = held[q]
  BY TakeIsCompatible DEF Advances
<1>3. /\ at' = [at EXCEPT ![r] = @ + 1] /\ work' = work /\ verdict' = verdict
  BY <1>1 DEF MoveOn
<1>4. Past(r)' = Past(r) \cup {Step(r)} /\ Target(r)' = Target(r)
  BY <1>1, MovedPast
<1>5. \A s : LockAt(r, s)' = LockAt(r, s)
  BY <1>3, <1>4 DEF LockAt
<1>6. \A l : OfBoundary(r, l) => OfBoundary(r, l)'
  BY <1>2, <1>3 DEF OfBoundary
<1>7. Wanted(r) \subseteq LockAt(r, Step(r))
  BY WantedLocks DEF Advances
<1>8. Earned(r)'
  <2>1. verdict'[r] = "going"
    BY <1>1, <1>3
  <2>2. ASSUME NEW l \in held'[r]
        PROVE  \/ \E s \in Past(r)' : l \in LockAt(r, s)'
               \/ "boundary" \in Past(r)' /\ OfBoundary(r, l)'
    <3>1. CASE l \in held[r]
      BY <1>1, <1>4, <1>5, <1>6, <3>1 DEF Earned
    <3>2. CASE l \in Wanted(r)
      BY <1>4, <1>5, <1>7, <3>2
    <3> QED
      BY <1>2, <3>1, <3>2
  <2> QED
    BY <2>1, <2>2 DEF Earned
<1>9. \A q \in Requests \ {r} : SameRequest(q)
  BY <1>2, <1>3 DEF SameRequest, Typed, RequestsTyped
<1> QED
  BY <1>8, <1>9

\* Waiting for the boundary earns the least project that is missing.
LEMMA WaitsEarns ==
  ASSUME Locked, NEW r \in Requests, Earned(r), Waits(r)
  PROVE  Earned(r)' /\ \A q \in Requests \ {r} : SameRequest(q)
<1> USE DEF Locked
<1>1. /\ Step(r) = "boundary" /\ Unlocked(r) # {} /\ UNCHANGED <<work, at, verdict>>
      /\ verdict[r] = "going" /\ work[r] \in Asked
  BY AtStep DEF Waits
<1>2. /\ held'[r] = held[r] \cup Wanted(r)
      /\ \A q \in Requests \ {r} : held'[q] = held[q]
  BY TakeIsCompatible DEF Waits
<1>3. Past(r)' = Past(r) /\ Target(r)' = Target(r) /\ Step(r)' = Step(r)
  BY <1>1, SamePast DEF Step
<1>4. \A s : LockAt(r, s)' = LockAt(r, s)
  BY <1>1, <1>3 DEF LockAt
<1>5. \A l : OfBoundary(r, l) => OfBoundary(r, l)'
  BY <1>1, <1>2 DEF OfBoundary
<1>6. ASSUME NEW l \in Wanted(r) PROVE OfBoundary(r, l)'
  <2>1. l = <<Boundary(NextProject(r)), "update">>
    BY <1>1, <1>6, WantedLocks
  <2>2. /\ NextProject(r) \in Unlocked(r) /\ NextProject(r) \in Nat
        /\ \A p \in Unlocked(r) : p \in Nat /\ NextProject(r) <= p
    BY <1>1, NextProjectIsLeast
  <2>3. NextProject(r) \in Named(work[r])
    BY <2>2 DEF Unlocked
  <2>4. ASSUME NEW n \in Named(work[r]), n < NextProject(r)
        PROVE  <<Boundary(n), "update">> \in held[r]
    <3>1. n \notin Unlocked(r)
      BY <2>2, <2>4
    <3> QED
      BY <2>4, <3>1 DEF Unlocked
  <2> QED
    BY <1>1, <1>2, <2>1, <2>3, <2>4 DEF OfBoundary
<1>7. Earned(r)'
  <2>1. \A l \in held'[r] :
            \/ \E s \in Past(r)' : l \in LockAt(r, s)'
            \/ "boundary" \in Past(r)' \cup {Step(r)'} /\ OfBoundary(r, l)'
    BY <1>1, <1>2, <1>3, <1>4, <1>5, <1>6 DEF Earned
  <2> QED
    BY <1>1, <2>1 DEF Earned
<1>8. \A q \in Requests \ {r} : SameRequest(q)
  BY <1>1, <1>2 DEF SameRequest
<1> QED
  BY <1>7, <1>8

\* Whatever else a request does ends its route or starts it.
LEMMA OrderlyStep == Orderly /\ [Next]_vars => Orderly'
<1> SUFFICES ASSUME Orderly, [Next]_vars PROVE Orderly'
  OBVIOUS
<1>0. Locked /\ Locked' /\ \A r \in Requests : Earned(r)
  BY LockedStep DEF Orderly
<1>1. ASSUME NEW r \in Requests, Earned(r)', \A q \in Requests \ {r} : SameRequest(q)
      PROVE  Orderly'
  <2>1. \A q \in Requests \ {r} : Earned(q)'
    BY <1>0, <1>1, SameEarned
  <2> QED
    BY <1>0, <1>1, <2>1 DEF Orderly
<1>2. ASSUME NEW r \in Requests, End(r) PROVE Orderly'
  <2>1. verdict'[r] = "ended" /\ \A q \in Requests \ {r} : SameRequest(q)
    BY <1>0, <1>2 DEF End, SameRequest, Locked, Typed, RequestsTyped
  <2> QED
    BY <1>1, <2>1 DEF Earned
<1>3. ASSUME NEW r \in Requests, Deny(r) PROVE Orderly'
  <2>1. verdict'[r] = "denied" /\ \A q \in Requests \ {r} : SameRequest(q)
    BY <1>0, <1>3 DEF Deny, SameRequest, Locked, Typed, RequestsTyped
  <2> QED
    BY <1>1, <2>1 DEF Earned
<1>4. ASSUME NEW r \in Requests, Quiet(r) PROVE Orderly'
  <2>1. End(r) \/ Deny(r) \/ Advances(r) \/ Waits(r)
    BY <1>0, <1>4, QuietShape DEF Locked
  <2> QED
    BY <1>0, <1>1, <1>2, <1>3, <2>1, AdvancesEarns, WaitsEarns
<1>5. ASSUME NEW r \in Requests, Commit(r) PROVE Orderly'
  BY <1>2, <1>5 DEF Commit
<1>6. ASSUME NEW r \in Requests, Arrive(r) PROVE Orderly'
  <2>1. /\ verdict[r] = "new" /\ verdict'[r] = "going" /\ held' = held
        /\ \A q \in Requests \ {r} : SameRequest(q)
    BY <1>0, <1>6 DEF Arrive, SameRequest, Locked, Typed, RequestsTyped
  <2>2. held'[r] = {}
    BY <1>0, <2>1 DEF Earned
  <2> QED
    BY <1>1, <2>1, <2>2 DEF Earned
<1>7. CASE UNCHANGED <<held, work, at, verdict>>
  <2>1. \A r \in Requests : SameRequest(r)
    BY <1>7 DEF SameRequest
  <2> QED
    BY <1>0, <2>1, SameEarned DEF Orderly
<1> QED
  BY <1>4, <1>5, <1>6, <1>7 DEF Next, Quiet, Tick, vars

LEMMA OrderlyInit == Init => Orderly
<1> SUFFICES ASSUME Init PROVE Orderly
  OBVIOUS
<1>1. Locked
  BY LockedInit
<1>2. \A r \in Requests : held[r] = {} /\ verdict[r] = "new"
  BY DEF Init
<1> QED
  BY <1>1, <1>2 DEF Orderly, Earned

\* The steps of a route before its i-th.
Before(w, i) == {Route(w)[k] : k \in 1..(i - 1)}

\* Where a request can wait for a lock.  Most do so under the locks of all
\* their projects, Home's among them, or on the way to those.
AtBoundary(w, s, past) == w.kind \in Bounded /\ s = "boundary" /\ past = {}
Homed(w, s, past) ==
  /\ w.kind \in Bounded /\ "boundary" \in past /\ s \notin {"boundary", "again"}
  /\ s = "source" => w.kind = "source"
  /\ s = "stable" => "renamed" \notin past
\* The others have at most one lock by then, and that of another kind.
Alone(w, s, past) ==
  \/ w.kind = "direct" /\ s = "source" /\ past = {}
  \/ w.kind = "direct" /\ s = "row" /\ past = {"source"}
  \/ w.kind = "nda" /\ s = "client" /\ past = {}
  \/ w.kind = "admin" /\ s \in {"stable", "renamed"} /\ past = {}
  \/ w.kind = "admin" /\ s = "renamed" /\ past = {"stable"}

Locking == {"boundary", "stable", "renamed", "client", "row", "report", "source", "advance",
            "again"}

LEMMA PlacesOfBounded ==
  ASSUME NEW w \in Asked, w.kind \in Bounded, NEW i \in 1..Len(Route(w))
  PROVE  \/ AtBoundary(w, Route(w)[i], Before(w, i))
         \/ Homed(w, Route(w)[i], Before(w, i))
<1> USE DEF Before, AtBoundary, Homed
<1>1. CASE w.kind = "sign"
  <2>1. /\ Len(Route(w)) = 10
        /\ Route(w)[1] = "boundary" /\ Route(w)[2] = "preflight"
        /\ Route(w)[3] = "stable" /\ Route(w)[4] = "renamed" /\ Route(w)[5] = "authority"
        /\ Route(w)[6] = "client" /\ Route(w)[7] = "row" /\ Route(w)[8] = "report"
        /\ Route(w)[9] = "decide" /\ Route(w)[10] = "commit"
    BY <1>1, SMT DEF Route, MembershipKeys
  <2> QED BY <1>1, <2>1, SMT DEF Bounded
<1>2. CASE w.kind = "export"
  <2>1. /\ Len(Route(w)) = 11
        /\ Route(w)[1] = "boundary" /\ Route(w)[2] = "preflight"
        /\ Route(w)[3] = "stable" /\ Route(w)[4] = "renamed" /\ Route(w)[5] = "authority"
        /\ Route(w)[6] = "row" /\ Route(w)[7] = "report" /\ Route(w)[8] = "client"
        /\ Route(w)[9] = "decide" /\ Route(w)[10] = "advance" /\ Route(w)[11] = "commit"
    BY <1>2, SMT DEF Route, MembershipKeys
  <2> QED BY <1>2, <2>1, SMT DEF Bounded
<1>3. CASE w.kind = "generate"
  <2>1. /\ Len(Route(w)) = 4 /\ Route(w)[1] = "boundary" /\ Route(w)[2] = "preflight"
        /\ Route(w)[3] = "row" /\ Route(w)[4] = "commit"
    BY <1>3, SMT DEF Route, MembershipKeys
  <2> QED BY <1>3, <2>1, SMT DEF Bounded
<1>4. CASE w.kind = "source"
  <2>1. /\ Len(Route(w)) = 4 /\ Route(w)[1] = "boundary" /\ Route(w)[2] = "source"
        /\ Route(w)[3] = "row" /\ Route(w)[4] = "commit"
    BY <1>4, SMT DEF Route, MembershipKeys
  <2> QED BY <1>4, <2>1, SMT DEF Bounded
<1>5. CASE w.kind = "upload"
  <2>1. /\ Len(Route(w)) = 6 /\ Route(w)[1] = "boundary" /\ Route(w)[2] = "stable"
        /\ Route(w)[3] = "renamed" /\ Route(w)[4] = "row" /\ Route(w)[5] = "client"
        /\ Route(w)[6] = "commit"
    BY <1>5, SMT DEF Route, MembershipKeys
  <2> QED BY <1>5, <2>1, SMT DEF Bounded
<1> QED
  BY <1>1, <1>2, <1>3, <1>4, <1>5 DEF Bounded

LEMMA PlacesOfOthers ==
  ASSUME NEW w \in Asked, w.kind \in {"direct", "nda", "admin"},
         NEW i \in 1..Len(Route(w)), Route(w)[i] \in Locking
  PROVE  Alone(w, Route(w)[i], Before(w, i))
<1> USE DEF Before, Alone, Locking
<1>1. CASE w.kind = "direct"
  <2>1. /\ Len(Route(w)) = 3 /\ Route(w)[1] = "source" /\ Route(w)[2] = "row"
        /\ Route(w)[3] = "commit"
    BY <1>1, SMT DEF Route, MembershipKeys
  <2>2. i \in 1..2
    BY <2>1
  <2>3. Before(w, 1) = {} /\ Before(w, 2) = {"source"}
    BY <2>1, SMT
  <2> QED BY <1>1, <2>1, <2>2, <2>3
<1>2. CASE w.kind = "nda"
  <2>1. Len(Route(w)) = 2 /\ Route(w)[1] = "client" /\ Route(w)[2] = "commit"
    BY <1>2, SMT DEF Route, MembershipKeys
  <2>2. i = 1 /\ Before(w, 1) = {}
    BY <2>1
  <2> QED BY <1>2, <2>1, <2>2
<1>3. CASE w.kind = "admin"
  <2>1. Route(w) = w.keys \o <<"commit">>
    BY <1>3, SMT DEF Route
  <2>2. w.keys \in AdminKeys
    BY <1>3, AskedShape
  <2>3. CASE w.keys = MembershipKeys
    <3>1. /\ Len(Route(w)) = 3 /\ Route(w)[1] = "stable" /\ Route(w)[2] = "renamed"
          /\ Route(w)[3] = "commit"
      BY <2>1, <2>3, SMT DEF MembershipKeys
    <3>2. i \in 1..2 /\ Before(w, 1) = {} /\ Before(w, 2) = {"stable"}
      BY <3>1, SMT
    <3> QED BY <1>3, <3>1, <3>2
  <2>4. CASE \E k \in {"stable", "renamed"} : w.keys = <<k>>
    <3>1. PICK k \in {"stable", "renamed"} : w.keys = <<k>>
      BY <2>4
    <3>2. Len(Route(w)) = 2 /\ Route(w)[1] = k /\ Route(w)[2] = "commit"
      BY <2>1, <3>1, SMT
    <3>3. i = 1 /\ Before(w, 1) = {}
      BY <3>2
    <3> QED BY <1>3, <3>1, <3>2, <3>3
  <2> QED BY <2>2, <2>3, <2>4 DEF AdminKeys
<1> QED
  BY <1>1, <1>2, <1>3

IsAtBoundary(r) == AtBoundary(work[r], Step(r), Past(r))
IsHomed(r) == Homed(work[r], Step(r), Past(r))
IsAlone(r) == Alone(work[r], Step(r), Past(r))

LEMMA WhereItWaits ==
  ASSUME Orderly, NEW r \in Requests, work[r].kind \notin Retention, Wanted(r) # {}
  PROVE  /\ verdict[r] = "going" /\ work[r] \in Asked
         /\ IsAtBoundary(r) \/ IsHomed(r) \/ IsAlone(r)
<1>1. Step(r) \in Locking
  BY DEF Wanted, Locking
<1>2. Typed /\ InRoute
  BY DEF Orderly, Locked
<1>3. /\ verdict[r] = "going" /\ work[r] \in Asked
      /\ at[r] \in 1..Len(Route(work[r])) /\ Step(r) = Route(work[r])[at[r]]
  BY <1>1, <1>2, AtStep DEF Locking
<1>4. Past(r) = Before(work[r], at[r])
  BY DEF Past, Before
<1>5. work[r].kind \in Bounded \/ work[r].kind \in {"direct", "nda", "admin"}
  BY <1>3, AskedShape DEF Kinds, Bounded, Retention
<1> QED
  BY <1>1, <1>3, <1>4, <1>5, PlacesOfBounded, PlacesOfOthers DEF IsAtBoundary, IsHomed, IsAlone

\* A lock that is held is of a project or of a step behind its holder.
LEMMA HeldFor ==
  ASSUME Orderly, NEW q \in Requests, verdict[q] = "going", NEW l \in held[q]
  PROVE  \/ OfBoundary(q, l) /\ l[1][1] = "project"
         \/ \E s \in Past(q) : l \in LockAt(q, s) /\ l[1][1] = Thing(s)
<1>1. CASE OfBoundary(q, l)
  BY <1>1 DEF OfBoundary, Boundary
<1>2. CASE \E s \in Past(q) : l \in LockAt(q, s)
  BY <1>2, LockThing
<1> QED
  BY <1>1, <1>2 DEF Orderly, Earned

\* Home's lock is held by one request.
LEMMA OneIsHomed ==
  ASSUME Orderly, NEW q \in Requests, NEW r \in Requests, IsHomed(q), IsHomed(r),
         verdict[q] = "going", verdict[r] = "going", work[q] \in Asked, work[r] \in Asked
  PROVE  q = r
<1>1. ASSUME NEW p \in {q, r} PROVE <<Boundary(Home), "update">> \in held[p]
  <2>1. work[p].kind \in Bounded /\ "boundary" \in Past(p)
    BY <1>1 DEF IsHomed, Homed
  <2>2. Home \in Named(work[p])
    BY <2>1, NamedHome DEF Bounded, NamesNone
  <2> QED
    BY <2>1, <2>2 DEF Orderly, Locked, Holding
<1>2. "update" \in Conflicts("update")
  BY DEF Conflicts
<1> QED
  BY <1>1, <1>2 DEF Orderly, Locked, Compatible

\* Whom a request waits for once its projects are locked, or if it locks none.
LEMMA WaitsBehind ==
  ASSUME Orderly, NEW q \in Requests, NEW r \in Requests,
         work[q].kind \notin Retention, work[r].kind \notin Retention,
         Wanted(q) # {}, Blocks(q, r), ~IsAtBoundary(r)
  PROVE  \/ /\ IsHomed(q)
            /\ Step(r) = "row" /\ work[r].kind = "direct" => work[q].kind # "source"
            /\ Step(r) = "renamed" => "renamed" \in Past(q)
         \/ IsAlone(q) /\ work[q].kind = "direct" /\ Step(q) = "row" /\ Step(r) = "source"
         \/ IsAlone(q) /\ work[q].kind = "admin" /\ Step(q) = "renamed" /\ Step(r) = "stable"
<1>1. PICK l \in held[q], w \in Wanted(r) : l[1] = w[1] /\ l[2] \in Conflicts(w[2])
  BY DEF Blocks
<1>2. IsHomed(r) \/ IsAlone(r)
  BY <1>1, WhereItWaits
<1>3. Step(r) \notin {"boundary", "again"}
  BY <1>2 DEF IsHomed, IsAlone, Homed, Alone
<1>4. w \in LockAt(r, Step(r)) /\ w[1][1] = Thing(Step(r))
  BY <1>3, WantedLocks, LockThing
<1>5. Step(r) \in Locking
  BY <1>1 DEF Wanted, Locking
<1>6. Thing(Step(r)) # "project"
  BY <1>3, <1>5 DEF Thing, Locking
<1>7. /\ verdict[q] = "going" /\ work[q] \in Asked
      /\ IsAtBoundary(q) \/ IsHomed(q) \/ IsAlone(q)
  BY WhereItWaits
<1>8. PICK s \in Past(q) : l \in LockAt(q, s) /\ Thing(s) = Thing(Step(r))
  BY <1>1, <1>4, <1>6, <1>7, HeldFor
<1>9. CASE IsHomed(q)
  <2>1. ASSUME Step(r) = "renamed" PROVE "renamed" \in Past(q)
    BY <1>8, <2>1 DEF Thing
  <2>2. ASSUME Step(r) = "row", work[r].kind = "direct" PROVE work[q].kind # "source"
    <3>1. w[2] = "keyShare" /\ l[2] = "update"
      BY <1>1, <1>4, <2>2 DEF LockAt, RowMode, Conflicts
    <3>2. s \in {"row", "advance"}
      BY <1>8, <2>2 DEF Thing
    <3>3. l[2] = IF s = "row" THEN RowMode(work[q]) ELSE "noKeyUpdate"
      BY <1>8, <3>2 DEF LockAt
    <3> QED
      BY <3>1, <3>3 DEF RowMode
  <2> QED
    BY <1>9, <2>1, <2>2
<1>10. CASE IsAlone(q)
  <2>1. Past(q) # {}
    BY <1>8
  <2>2. CASE work[q].kind = "direct" /\ Step(q) = "row" /\ Past(q) = {"source"}
    <3>1. Thing(Step(r)) = "source"
      BY <1>8, <2>2 DEF Thing
    <3> QED
      BY <1>10, <2>2, <3>1 DEF Thing
  <2>3. CASE work[q].kind = "admin" /\ Step(q) = "renamed" /\ Past(q) = {"stable"}
    <3>1. Thing(Step(r)) = "stable"
      BY <1>8, <2>3 DEF Thing
    <3> QED
      BY <1>10, <2>3, <3>1 DEF Thing
  <2> QED
    BY <1>10, <2>1, <2>2, <2>3 DEF IsAlone, Alone
<1>11. ~IsAtBoundary(q)
  BY <1>8 DEF IsAtBoundary, AtBoundary
<1> QED
  BY <1>7, <1>9, <1>10, <1>11

\* A request that waits for a project's lock waits for one with a lesser lock
\* than it wants, and Home is one of the two.
LEMMA ClimbsAtBoundary ==
  ASSUME Orderly, NEW q \in Requests, NEW r \in Requests,
         IsAtBoundary(q), IsAtBoundary(r), Wanted(q) # {}, Blocks(q, r),
         verdict[q] = "going", work[q] \in Asked, work[r] \in Asked
  PROVE  /\ NextProject(r) \in Nat /\ NextProject(q) \in Nat
         /\ NextProject(r) < NextProject(q)
         /\ Home \in {NextProject(r), NextProject(q)}
<1>1. PICK l \in held[q], w \in Wanted(r) : l[1] = w[1]
  BY DEF Blocks
<1>2. /\ Step(r) = "boundary" /\ Step(q) = "boundary" /\ Past(q) = {}
      /\ work[q].kind \in Bounded
  BY DEF IsAtBoundary, AtBoundary
<1>3. Unlocked(r) # {} /\ w = <<Boundary(NextProject(r)), "update">>
  BY <1>1, <1>2, WantedLocks
<1>4. Unlocked(q) # {}
  BY <1>2, WantedLocks
<1>5. /\ NextProject(r) \in Nat /\ NextProject(q) \in Nat /\ NextProject(q) \in Named(work[q])
      /\ <<Boundary(NextProject(q)), "update">> \notin held[q]
  BY <1>3, <1>4, NextProjectIsLeast DEF Unlocked
<1>6. OfBoundary(q, l)
  BY <1>1, <1>2 DEF Orderly, Earned
<1>7. /\ NextProject(r) \in Named(work[q]) /\ <<Boundary(NextProject(r)), "update">> \in held[q]
      /\ \A n \in Named(work[q]) :
             n < NextProject(r) => <<Boundary(n), "update">> \in held[q]
  <2>1. PICK p \in Named(work[q]) :
            /\ l = <<Boundary(p), "update">>
            /\ \A n \in Named(work[q]) : n < p => <<Boundary(n), "update">> \in held[q]
    BY <1>6 DEF OfBoundary
  <2>2. Boundary(p) = Boundary(NextProject(r))
    BY <1>1, <1>3, <2>1
  <2>3. p = NextProject(r)
    BY <2>2 DEF Boundary
  <2> QED
    BY <1>1, <2>1, <2>3
<1>8. NextProject(r) # NextProject(q) /\ ~(NextProject(q) < NextProject(r))
  BY <1>5, <1>7
<1>9. Home \in {NextProject(r), NextProject(q)}
  <2>1. PICK p \in Projects : Named(work[q]) \subseteq {Home, p}
    BY NamedHome
  <2> QED
    BY <1>5, <1>7, <1>8, <2>1
<1> QED
  BY <1>5, <1>8, <1>9

\* Locks are taken in one order by all but the retention workflow: a circle of
\* others could only be one of requests that lock their projects, and those
\* climb.
LEMMA OrderlyHasNoCircle == Orderly => OnlyRetentionClosesACircle
<1> SUFFICES ASSUME Orderly,
                    NEW S \in SUBSET {r \in Requests : work[r].kind \notin Retention},
                    S # {}, \A r \in S : \E q \in S : Blocks(q, r)
             PROVE  FALSE
  BY DEF OnlyRetentionClosesACircle, Retention
<1>1. ASSUME NEW r \in S
      PROVE  /\ r \in Requests /\ work[r].kind \notin Retention /\ Wanted(r) # {}
             /\ verdict[r] = "going" /\ work[r] \in Asked
             /\ IsAtBoundary(r) \/ IsHomed(r) \/ IsAlone(r)
  <2>1. r \in Requests /\ work[r].kind \notin Retention
    BY <1>1
  <2>2. Wanted(r) # {}
    BY <1>1 DEF Blocks
  <2> QED
    BY <2>1, <2>2, WhereItWaits
<1>2. ASSUME NEW r \in S, ~IsAtBoundary(r)
      PROVE  \E q \in S :
               /\ Blocks(q, r)
               /\ \/ /\ IsHomed(q)
                     /\ Step(r) = "row" /\ work[r].kind = "direct" => work[q].kind # "source"
                     /\ Step(r) = "renamed" => "renamed" \in Past(q)
                  \/ IsAlone(q) /\ work[q].kind = "direct" /\ Step(q) = "row" /\ Step(r) = "source"
                  \/ IsAlone(q) /\ work[q].kind = "admin" /\ Step(q) = "renamed"
                                /\ Step(r) = "stable"
  <2>1. PICK q \in S : Blocks(q, r)
    OBVIOUS
  <2> QED
    BY <1>1, <1>2, <2>1, WaitsBehind
<1>3. ASSUME NEW r \in S, IsHomed(r) \/ IsAlone(r) PROVE ~IsAtBoundary(r)
  BY <1>3 DEF IsHomed, IsAlone, IsAtBoundary, Homed, Alone, AtBoundary
<1>4. ASSUME NEW r \in S, NEW q \in S, IsHomed(r), IsHomed(q) PROVE q = r
  BY <1>1, <1>4, OneIsHomed
<1>5. ASSUME NEW r \in S PROVE ~IsHomed(r)
  <2> SUFFICES ASSUME IsHomed(r) PROVE FALSE
    OBVIOUS
  <2>1. /\ Step(r) = "source" => work[r].kind = "source"
        /\ Step(r) = "stable" => "renamed" \notin Past(r)
    BY DEF IsHomed, Homed
  <2>2. PICK q \in S :
          /\ Blocks(q, r) /\ ~IsHomed(q) /\ IsAlone(q)
          /\ \/ work[q].kind = "direct" /\ Step(q) = "row" /\ Step(r) = "source"
             \/ work[q].kind = "admin" /\ Step(q) = "renamed" /\ Step(r) = "stable"
    BY <1>2, <1>3, <1>4 DEF Blocks
  <2>3. PICK p \in S :
          /\ IsHomed(p)
          /\ Step(q) = "row" /\ work[q].kind = "direct" => work[p].kind # "source"
          /\ Step(q) = "renamed" => "renamed" \in Past(p)
    BY <1>2, <1>3, <2>2
  <2>4. p = r
    BY <1>4, <2>3
  <2> QED
    BY <2>1, <2>2, <2>3, <2>4
<1>6. ASSUME NEW r \in S PROVE ~IsAlone(r)
  <2> SUFFICES ASSUME IsAlone(r) PROVE FALSE
    OBVIOUS
  <2>1. PICK q \in S : IsAlone(q) /\ Step(q) \in {"row", "renamed"}
    BY <1>2, <1>3, <1>5
  <2>2. PICK p \in S : Step(q) \in {"source", "stable"}
    BY <1>2, <1>3, <1>5, <2>1
  <2> QED
    BY <2>1, <2>2
<1>7. ASSUME NEW r \in S
      PROVE  \E q \in S : /\ NextProject(r) \in Nat /\ NextProject(q) \in Nat
                          /\ NextProject(r) < NextProject(q)
                          /\ Home \in {NextProject(r), NextProject(q)}
  <2>1. PICK q \in S : Blocks(q, r)
    OBVIOUS
  <2>2. IsAtBoundary(r) /\ IsAtBoundary(q)
    BY <1>1, <1>5, <1>6
  <2> QED
    BY <1>1, <2>1, <2>2, ClimbsAtBoundary
<1>8. PICK r \in S : TRUE
  OBVIOUS
<1>9. PICK q \in S : /\ NextProject(r) \in Nat /\ NextProject(q) \in Nat
                     /\ NextProject(r) < NextProject(q)
                     /\ Home \in {NextProject(r), NextProject(q)}
  BY <1>7
<1>10. PICK p \in S : /\ NextProject(p) \in Nat /\ NextProject(q) < NextProject(p)
                      /\ Home \in {NextProject(q), NextProject(p)}
  BY <1>7
<1>11. PICK o \in S : /\ NextProject(o) \in Nat /\ NextProject(p) < NextProject(o)
                      /\ Home \in {NextProject(p), NextProject(o)}
  BY <1>7
<1> QED
  BY <1>9, <1>10, <1>11

\* Requests that wait for one another in a circle always include one of the
\* retention workflow: without it, sign-offs, exports, generations, source
\* writers, uploads, membership and client changes never deadlock.
THEOREM OnlyRetentionCloses == Spec => []OnlyRetentionClosesACircle
  BY OrderlyInit, OrderlyStep, OrderlyHasNoCircle, PTL DEF Spec
=============================================================================
