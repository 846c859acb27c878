------------------------------ MODULE SignOff ------------------------------
(***************************************************************************)
(* Report sign-off and package export among the requests they race with:   *)
(* every request is one READ COMMITTED transaction that takes PostgreSQL   *)
(* locks one statement at a time, reads what is committed at that          *)
(* statement, and publishes its writes when it commits.  A route (Route)   *)
(* is the order in which one kind of request takes its locks and makes its *)
(* decisions.  The audit chain lock, the last of every route and held to   *)
(* its end, is left to AuditChain.                                         *)
(***************************************************************************)
EXTENDS Integers, Sequences

CONSTANTS Requests, Projects, Home, MaxClock, AccessExpiry

ASSUME SignOffAssumption ==
    /\ Projects \subseteq Nat /\ Home \in Projects
    /\ MaxClock \in Nat /\ AccessExpiry \in Nat

VARIABLES
    clock,      \* the database clock
    client,     \* the client's row: nda (approved), version
    granted,    \* the acting user's membership and grant are active
    project,    \* project rows: status, version, fatal, reports, package, receipts
    held,       \* locks of each request: pairs of a key and a mode
    work,       \* what each request was asked to do, chosen on arrival
    at,         \* position of each request in its route
    saw,        \* what a request has read and still uses
    verdict     \* "new", "going", "denied" or "ended"

vars == <<clock, client, granted, project, held, work, at, saw, verdict>>
Stored == <<clock, client, granted, project>>

Released == {"signed_off", "exported", "archived"}

MembershipKeys_StableOnly == <<"stable">>

(* The two advisory keys of membership administration, in order: instances *)
(* of the previous release know the first key only, those of the first     *)
(* renamed release the second only.                                        *)
MembershipKeys == <<"stable", "renamed">>
AdminKeys == {MembershipKeys, <<"stable">>, <<"renamed">>}

Route(w) ==
    CASE w.kind = "sign" ->
             <<"boundary", "preflight">> \o MembershipKeys
             \o <<"authority", "client", "row", "report", "decide", "commit">>
      [] w.kind = "export" ->
             <<"boundary", "preflight">> \o MembershipKeys
             \o <<"authority", "row", "report", "client", "decide", "advance", "commit">>
      [] w.kind = "generate" -> <<"boundary", "preflight", "row", "commit">>
      [] w.kind = "source"   -> <<"boundary", "source", "row", "commit">>
      [] w.kind = "direct"   -> <<"source", "row", "commit">>
      [] w.kind = "nda"      -> <<"client", "commit">>
      [] w.kind = "admin"    -> w.keys \o <<"commit">>
      [] w.kind = "upload"   ->
             <<"boundary">> \o MembershipKeys \o <<"row", "client", "commit">>
      [] w.kind = "complete" -> <<"boundary">> \o MembershipKeys \o <<"row", "source", "commit">>
      [] w.kind = "reconcile" -> MembershipKeys \o <<"again", "commit">>

Named(w) == {w.named[i] : i \in DOMAIN w.named}
Target(r) == work[r].named[1]
Step(r) == IF at[r] = 0 THEN "none" ELSE Route(work[r])[at[r]]
Is(r, kind) == work[r].kind = kind

Row(r) == project[Target(r)]
Status(p) == project[p].status
Latest(p) == Len(project[p].reports)
HasAuthority == granted /\ clock < AccessExpiry
-----------------------------------------------------------------------------
(* Row locks conflict as in PostgreSQL; advisory locks are exclusive.  A   *)
(* request never waits for itself.                                         *)
Conflicts(m) ==
    CASE m = "keyShare"    -> {"update"}
      [] m = "share"       -> {"noKeyUpdate", "update"}
      [] m = "noKeyUpdate" -> {"share", "noKeyUpdate", "update"}
      [] m = "update"      -> {"keyShare", "share", "noKeyUpdate", "update"}

Boundary(p) == <<"project", p>>
Unlocked(r) == {p \in Named(work[r]) : <<Boundary(p), "update">> \notin held[r]}

NextProject_AsNamed(r) ==
    LET named == work[r].named
        i == CHOOSE n \in DOMAIN named :
                 /\ named[n] \in Unlocked(r)
                 /\ \A k \in 1..(n - 1) : named[k] \notin Unlocked(r)
    IN named[i]

(* Project ids are sorted before their locks are taken. *)
NextProject(r) == CHOOSE p \in Unlocked(r) : \A q \in Unlocked(r) : p <= q

ClientMode_KeyShared(w) == IF w.kind = "nda" THEN "noKeyUpdate" ELSE "keyShare"

ClientMode(w) == IF w.kind = "nda" THEN "noKeyUpdate" ELSE "share"
RowMode(w) == CASE w.kind \in {"source", "direct"} -> "keyShare"
                [] w.kind = "export" -> "share"
                [] OTHER -> "update"
ReportMode(w) == IF w.kind = "export" THEN "share" ELSE "update"

(* The lock a request's next statement needs: a set of at most one. *)
Wanted(r) ==
    CASE Step(r) = "boundary" /\ Unlocked(r) # {} -> {<<Boundary(NextProject(r)), "update">>}
      [] Step(r) = "again"  -> {<<Boundary(Target(r)), "update">>}
      [] Step(r) \in {"stable", "renamed"} -> {<<<<Step(r), 0>>, "update">>}
      [] Step(r) = "client" -> {<<<<"client", 0>>, ClientMode(work[r])>>}
      [] Step(r) = "row"    -> {<<<<"row", Target(r)>>, RowMode(work[r])>>}
      [] Step(r) = "report" -> {<<<<"report", Target(r)>>, ReportMode(work[r])>>}
      [] Step(r) = "source" -> {<<<<"source", Target(r)>>, "update">>}
      [] Step(r) = "advance" /\ Row(r).status = "signed_off" ->
             {<<<<"row", Target(r)>>, "noKeyUpdate">>}
      [] OTHER -> {}

Blocks(q, r) ==
    /\ q # r
    /\ \E l \in held[q], w \in Wanted(r) : l[1] = w[1] /\ l[2] \in Conflicts(w[2])

Grantable(r) == \A q \in Requests : ~Blocks(q, r)
Take(r) == Grantable(r) /\ held' = [held EXCEPT ![r] = @ \cup Wanted(r)]

Idle == [kind |-> "none", named |-> <<>>, keys |-> <<>>, value |-> FALSE]
Nothing == [version |-> 0, report |-> 0, client |-> 0, package |-> 0, signedAt |-> 0]

MoveOn(r) ==
    /\ at' = [at EXCEPT ![r] = @ + 1]
    /\ UNCHANGED <<work, verdict>>

End(r) ==
    /\ verdict' = [verdict EXCEPT ![r] = "ended"]
    /\ held' = [held EXCEPT ![r] = {}]
    /\ work' = [work EXCEPT ![r] = Idle]
    /\ saw' = [saw EXCEPT ![r] = Nothing]
    /\ at' = [at EXCEPT ![r] = 0]

(* A sign-off or an export that may not go on rolls back its savepoint,    *)
(* which releases the locks taken in it, and commits no more than a record *)
(* of the denial.                                                          *)
Deny(r) ==
    /\ verdict' = [verdict EXCEPT ![r] = "denied"]
    /\ held' = [held EXCEPT ![r] = {l \in @ : l[1][1] = "project"}]
    /\ saw' = [saw EXCEPT ![r] = Nothing]
    /\ at' = [at EXCEPT ![r] = Len(Route(work[r]))]
    /\ UNCHANGED work

Refuse(r) == IF work[r].kind \in {"sign", "export"} THEN Deny(r) ELSE End(r)
-----------------------------------------------------------------------------
(* A request is about one project; its body may name another one. *)
NamedBy(kind) ==
    IF kind = "source"
    THEN {<<Home>>} \cup UNION {{<<Home, p>>, <<p, Home>>} : p \in Projects \ {Home}}
    ELSE {<<Home>>}

(* "value" is the fatal defect a source writer records, the NDA decision   *)
(* of a client update, or the idempotency key of an export.                *)
Asked ==
    (UNION {[kind: {k}, named: NamedBy(k), keys: {<<>>}, value: {FALSE}]
               : k \in {"sign", "generate", "upload", "complete", "reconcile"}})
    \cup (UNION {[kind: {k}, named: NamedBy(k), keys: {<<>>}, value: BOOLEAN]
               : k \in {"source", "direct", "export"}})
    \cup {[Idle EXCEPT !.kind = "nda", !.value = v] : v \in BOOLEAN}
    \cup {[Idle EXCEPT !.kind = "admin", !.keys = ks] : ks \in AdminKeys}

(* The projects a request names exist, the user has authority, a retention *)
(* action is reconciled once its project has been purged.                  *)
Admitted(w) ==
    /\ \A p \in Named(w) : (Status(p) = "purged") = (w.kind = "reconcile")
    /\ w.kind \in {"sign", "export", "upload"} => HasAuthority

(* An export confirms the package version its user was shown. *)
Arrive(r) ==
    /\ verdict[r] = "new"
    /\ \E w \in Asked : Admitted(w) /\ work' = [work EXCEPT ![r] = w]
    /\ verdict' = [verdict EXCEPT ![r] = "going"]
    /\ at' = [at EXCEPT ![r] = 1]
    /\ saw' = IF work'[r].kind = "export"
              THEN [saw EXCEPT ![r] = [@ EXCEPT !.package = project[Home].package]] ELSE saw
    /\ UNCHANGED <<Stored, held>>

(* enforceTenantResourceBoundary: one project lock after the other ... *)
LockBoundary(r) ==
    /\ Step(r) = "boundary" /\ Unlocked(r) # {}
    /\ Take(r)
    /\ UNCHANGED <<Stored, work, at, saw, verdict>>

(* ... then mutations of released projects are refused, except an export   *)
(* and the retention workflow.  A project purged meanwhile has no status.  *)
Immutable(w) ==
    /\ w.kind # "complete"
    /\ \E p \in Named(w) : /\ Status(p) \in Released
                           /\ w.kind = "export" => Status(p) = "archived"

EnterHandler(r) ==
    /\ Step(r) = "boundary" /\ Unlocked(r) = {}
    /\ \/ Immutable(work[r]) /\ End(r)
       \/ ~Immutable(work[r]) /\ MoveOn(r) /\ UNCHANGED <<held, saw>>
    /\ UNCHANGED Stored

ReceiptsOf(r) == {i \in DOMAIN Row(r).receipts : Row(r).receipts[i].key = work[r].value}
Confirmed(r, i) == Row(r).receipts[i].confirmed = saw[r].package

IsReplay_Never(r) == FALSE

(* A receipt says which package version the user had confirmed. *)
IsReplay(r) == \E i \in ReceiptsOf(r) : Confirmed(r, i)
KeyIsTaken(r) == \E i \in ReceiptsOf(r) : ~Confirmed(r, i)

CanGenerate(p) == Status(p) \in {"review", "defects", "reporting"}

(* The reads before the final transaction, of report n for a sign-off.     *)
(* They are feedback: what is saved here is compared again under the locks.*)
Presentable(r, n) ==
    LET p == Target(r)
        ready == client.nda /\ ~Row(r).fatal
    IN CASE Is(r, "sign")   -> n = Latest(p) /\ Status(p) = "reporting" /\ ready
         [] Is(r, "export") -> Status(p) \in {"signed_off", "exported"} /\ n = Latest(p)
                               /\ Row(r).reports[n] = "signed_off" /\ ready
         [] Is(r, "generate") -> n = Latest(p) /\ CanGenerate(p)

Preflight(r) ==
    /\ Step(r) = "preflight"
    /\ \/ /\ Status(Target(r)) = "purged" \/ (Is(r, "export") /\ KeyIsTaken(r))
          /\ End(r)
       \/ \E n \in DOMAIN Row(r).reports :
          \/ Is(r, "sign") /\ Row(r).reports[n] # "draft" /\ End(r)
          \/ /\ Is(r, "sign") => Row(r).reports[n] = "draft"
             /\ ~Presentable(r, n) /\ (Is(r, "sign") \/ n = Latest(Target(r))) /\ Refuse(r)
          \/ /\ Is(r, "sign") => Row(r).reports[n] = "draft"
             /\ Presentable(r, n)
             /\ saw' = [saw EXCEPT ![r] = [@ EXCEPT !.version = Row(r).version, !.report = n,
                                                    !.client = client.version]]
             /\ MoveOn(r)
             /\ UNCHANGED held
    /\ UNCHANGED Stored

(* A statement that only takes a lock. *)
TakeLock(r) ==
    /\ Step(r) \in {"stable", "renamed", "again", "source", "advance"}
    /\ Take(r) /\ MoveOn(r)
    /\ UNCHANGED <<Stored, saw>>

(* The current membership and grants, read under both membership keys. *)
ReadAuthority(r) ==
    /\ Step(r) = "authority"
    /\ \/ HasAuthority /\ MoveOn(r) /\ UNCHANGED <<held, saw>>
       \/ ~HasAuthority /\ Deny(r)
    /\ UNCHANGED Stored

ClientAccepts_NdaOnly(r) == work[r].kind \in {"export", "upload"} => client.nda

(* What each kind requires of the client row it has just locked: a sign-   *)
(* off judges the NDA later, together with its other inputs.               *)
ClientAccepts(r) ==
    /\ work[r].kind \in {"export", "upload"} => client.nda
    /\ Is(r, "export") => client.version = saw[r].client

(* The client row: written by an NDA decision, shared by those who rely on *)
(* it.  A sign-off remembers whether the row it locked has an NDA.         *)
LockClient(r) ==
    /\ Step(r) = "client" /\ Grantable(r)
    /\ \/ /\ ClientAccepts(r) /\ Take(r) /\ MoveOn(r)
          /\ saw' = IF Is(r, "sign") /\ ~client.nda
                    THEN [saw EXCEPT ![r] = [@ EXCEPT !.client = 0]] ELSE saw
       \/ ~ClientAccepts(r) /\ Refuse(r)
    /\ UNCHANGED Stored

GuardAllows_KeyOnly(p) == Status(p) # "purged"

(* The trigger on every table that feeds a release: a writer shares the    *)
(* project's key and finds the project unreleased.                         *)
GuardAllows(p) == Status(p) \notin Released \cup {"purged"}

(* What each kind requires of the project row once it holds its lock. *)
RowAccepts(r) ==
    LET p == Target(r) IN
    CASE Is(r, "sign") -> Status(p) = "reporting" /\ Row(r).version = saw[r].version
      [] Is(r, "generate") -> /\ CanGenerate(p) /\ Row(r).version = saw[r].version
                              /\ Latest(p) = saw[r].report
      [] Is(r, "export") ->
             /\ Status(p) \in {"signed_off", "exported"}
             /\ ~KeyIsTaken(r)
             /\ IF IsReplay(r) THEN Status(p) = "exported" ELSE Row(r).package = saw[r].package
             /\ Row(r).version = saw[r].version
      [] work[r].kind \in {"source", "direct"} -> GuardAllows(p)
      [] Is(r, "upload") -> Status(p) \notin Released \cup {"purged"}
      [] Is(r, "complete") -> Status(p) \in {"signed_off", "exported"}

LockRow(r) ==
    /\ Step(r) = "row" /\ Grantable(r)
    /\ \/ RowAccepts(r) /\ Take(r) /\ MoveOn(r) /\ UNCHANGED saw
       \/ ~RowAccepts(r) /\ Refuse(r)
    /\ UNCHANGED Stored

(* The report is still in the state it was chosen in, and the newest. *)
LockReport(r) ==
    LET unchanged == /\ saw[r].report = Latest(Target(r))
                     /\ Row(r).reports[saw[r].report] =
                            IF Is(r, "sign") THEN "draft" ELSE "signed_off"
    IN /\ Step(r) = "report" /\ Grantable(r)
       /\ \/ unchanged /\ Take(r) /\ MoveOn(r) /\ UNCHANGED saw
          \/ ~unchanged /\ Deny(r)
       /\ UNCHANGED Stored

(* A sign-off reads every release input again under its locks, and judges  *)
(* the authority at the very instant it is dated; an export only the       *)
(* authority.                                                              *)
StillReady(r) ==
    /\ HasAuthority
    /\ Is(r, "sign") => ~Row(r).fatal /\ saw[r].client # 0

(* A replay changes nothing, and is denied if the archive it rebuilt is no *)
(* longer the one it has a receipt for.                                    *)
Decide(r) ==
    /\ Step(r) = "decide"
    /\ \/ /\ StillReady(r) /\ MoveOn(r) /\ UNCHANGED held
          /\ Is(r, "export") => ~IsReplay(r)
          /\ saw' = [saw EXCEPT ![r] = [@ EXCEPT !.signedAt = clock]]
       \/ StillReady(r) /\ Is(r, "export") /\ IsReplay(r) /\ End(r)
       \/ (StillReady(r) => Is(r, "export") /\ IsReplay(r)) /\ Deny(r)
    /\ UNCHANGED Stored

(* The writes of a transaction, published together.  An export whose       *)
(* archive equals that of the current package version reuses the version.  *)
Written(r) ==
    LET w == work[r]
        old == Row(r)
        next == [old EXCEPT !.version = @ + 1]
    IN CASE w.kind = "sign" ->
                {[next EXCEPT !.status = "signed_off", !.reports[saw[r].report] = "signed_off"]}
         [] w.kind = "export" ->
                LET receipt == [key |-> w.value, confirmed |-> saw[r].package]
                    moved == IF old.status = "signed_off"
                             THEN [next EXCEPT !.status = "exported"] ELSE old
                IN {[moved EXCEPT !.package = n, !.receipts = Append(@, receipt)]
                        : n \in {old.package, old.package + 1} \ {0}}
         [] w.kind = "generate" ->
                {[IF old.status = "reporting" THEN old ELSE [next EXCEPT !.status = "reporting"]
                    EXCEPT !.reports = Append(@, "draft")]}
         [] w.kind \in {"source", "direct"} -> {[old EXCEPT !.fatal = w.value]}
         [] w.kind = "complete" ->
                {[old EXCEPT !.status = "purged", !.reports = <<>>, !.receipts = <<>>]}
         [] OTHER -> {old}

Commit(r) ==
    /\ Step(r) = "commit"
    /\ End(r)
    /\ IF verdict[r] = "denied" \/ work[r].named = <<>> THEN UNCHANGED project
       ELSE \E row \in Written(r) : project' = [project EXCEPT ![Target(r)] = row]
    /\ client' = IF Is(r, "nda") THEN [nda |-> work[r].value, version |-> client.version + 1]
                 ELSE client
    /\ granted' = (granted /\ ~Is(r, "admin"))
    /\ UNCHANGED clock

(* A lock timeout, a deadlock victim or a lost session: nothing is kept. *)
Fail(r) ==
    /\ Step(r) # "none"
    /\ End(r)
    /\ UNCHANGED Stored

Tick ==
    /\ clock < MaxClock
    /\ clock' = clock + 1
    /\ UNCHANGED <<client, granted, project, held, work, at, saw, verdict>>
-----------------------------------------------------------------------------
Draft == [status |-> "reporting", version |-> 1, fatal |-> FALSE, reports |-> <<"draft">>,
          package |-> 0, receipts |-> <<>>]
FoundDefects == [Draft EXCEPT !.status = "defects", !.fatal = TRUE]
SignedOff == [Draft EXCEPT !.status = "signed_off", !.reports = <<"signed_off">>]

Init ==
    /\ clock = 0 /\ client = [nda |-> TRUE, version |-> 1] /\ granted = TRUE
    /\ \E row \in {Draft, FoundDefects, SignedOff} :
           project = [p \in Projects |-> IF p = Home THEN row ELSE Draft]
    /\ held = [r \in Requests |-> {}]
    /\ work = [r \in Requests |-> Idle]
    /\ at = [r \in Requests |-> 0]
    /\ saw = [r \in Requests |-> Nothing]
    /\ verdict = [r \in Requests |-> "new"]

Next ==
    \/ \E r \in Requests :
        \/ Arrive(r) \/ LockBoundary(r) \/ EnterHandler(r) \/ Preflight(r)
        \/ TakeLock(r) \/ ReadAuthority(r) \/ LockClient(r) \/ LockRow(r)
        \/ LockReport(r) \/ Decide(r) \/ Commit(r) \/ Fail(r)
    \/ Tick

Spec == Init /\ [][Next]_vars
-----------------------------------------------------------------------------
Ends(r) == verdict[r] # "ended" /\ verdict'[r] = "ended"
SignedBy(r) ==
    /\ Is(r, "sign") /\ Ends(r)
    /\ Row(r).status # "signed_off" /\ project'[Target(r)].status = "signed_off"
ExportedBy(r) ==
    Is(r, "export") /\ Ends(r) /\ Len(Row(r).receipts) < Len(project'[Target(r)].receipts)

(* When a sign-off is published, what is committed by then is what a       *)
(* release needs: an approved NDA, no fatal defect, a project in reporting *)
(* and its newest report, which is the one signed.                         *)
SignedOnReadyInputs ==
    [][\A r \in Requests : SignedBy(r) =>
            /\ client.nda /\ ~Row(r).fatal /\ Row(r).status = "reporting"
            /\ project'[Target(r)].reports[Latest(Target(r))] = "signed_off"]_vars

(* An export is published under an NDA approved without interruption since *)
(* its archive was prepared.                                               *)
ExportedUnderOneNda ==
    [][\A r \in Requests : ExportedBy(r) => client.nda /\ client.version = saw[r].client]_vars

(* A sign-off or an export is ordered before any revocation of its user's  *)
(* authority, and a sign-off is dated inside the access window.            *)
ReleaserHadAuthority ==
    [][\A r \in Requests : SignedBy(r) \/ ExportedBy(r) =>
            granted /\ saw[r].signedAt < AccessExpiry]_vars

(* A released project's inputs and reports stay as they are until the      *)
(* governed purge removes the project.                                     *)
ReleasedContentIsFrozen ==
    [][\A p \in Projects : Status(p) \in Released =>
            \/ Status(p)' = "purged"
            \/ /\ Status(p)' \in Released
               /\ project'[p].fatal = project[p].fatal
               /\ project'[p].reports = project[p].reports]_vars

(* However often an export is retried, its key has one receipt. *)
OneReceiptPerKey ==
    \A p \in Projects : \A i, j \in DOMAIN project[p].receipts :
        project[p].receipts[i].key = project[p].receipts[j].key => i = j

(* Requests that wait for one another in a circle always include one of    *)
(* the retention workflow.                                                 *)
OnlyRetentionClosesACircle ==
    \A S \in SUBSET {r \in Requests : work[r].kind \notin {"complete", "reconcile"}} :
        S # {} => \E r \in S : \A q \in S : ~Blocks(q, r)
=============================================================================
