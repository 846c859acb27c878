----------------------- MODULE StorageReconcilerProofs -----------------------
(***************************************************************************)
(* The evidence of a full cycle is never wrong, for any number of runs,    *)
(* tenants and mishaps and any size of a page: a run that owns the lease   *)
(* knows about every tenant up to its cursor, and only the owner of the    *)
(* lease writes cursor and evidence.                                       *)
(***************************************************************************)
EXTENDS StorageReconciler, FiniteSetTheorems, TLAPS

(***************************************************************************)
(* Pages                                                                   *)
(***************************************************************************)

LEMMA AfterIsFinite ==
  ASSUME NEW c
  PROVE  IsFiniteSet(After(c)) /\ After(c) \subseteq Tenants /\ Cardinality(After(c)) \in Nat
<1>1. After(c) \subseteq Tenants
  BY DEF After
<1> QED
  BY <1>1, ReconcilerAssumption, FS_Subset, FS_CardinalityType

\* A page has no gaps: it has every tenant between the cursor and its last one.
LEMMA PageIsPrefix ==
  ASSUME NEW c, NEW t \in PageAfter(c), NEW s \in After(c), s < t
  PROVE  s \in PageAfter(c)
<1> DEFINE Before(u) == {r \in After(c) : r < u}
<1>0. t \in Nat /\ s \in Nat /\ After(c) \subseteq Nat
  BY AfterIsFinite, ReconcilerAssumption DEF PageAfter
<1>1. Before(s) \subseteq Before(t)
  BY <1>0
<1>2. IsFiniteSet(Before(t))
  BY AfterIsFinite, FS_Subset
<1>3. Cardinality(Before(t)) < Page
  BY DEF PageAfter
<1>4. Cardinality(Before(s)) < Page => s \in PageAfter(c)
  BY DEF PageAfter
<1> HIDE DEF Before
<1>5. Cardinality(Before(s)) <= Cardinality(Before(t))
  BY <1>1, <1>2, FS_Subset
<1>6. Cardinality(Before(s)) \in Nat /\ Cardinality(Before(t)) \in Nat
  BY <1>1, <1>2, FS_Subset, FS_CardinalityType
<1> QED
  BY <1>3, <1>4, <1>5, <1>6, ReconcilerAssumption

\* A page that has no more after it has all there is.
LEMMA LastPageIsTheRest ==
  ASSUME NEW c, ~(Cardinality(After(c)) > Page) PROVE PageAfter(c) = After(c)
<1> SUFFICES ASSUME NEW t \in After(c) PROVE Cardinality({r \in After(c) : r < t}) < Page
  BY DEF PageAfter
<1> DEFINE Before == {r \in After(c) : r < t}
<1>0. t \in Nat /\ After(c) \subseteq Nat
  BY AfterIsFinite, ReconcilerAssumption
<1>1. Before \subseteq After(c) \ {t}
  BY <1>0
<1>2. IsFiniteSet(After(c) \ {t}) /\ Cardinality(After(c) \ {t}) = Cardinality(After(c)) - 1
  BY AfterIsFinite, FS_RemoveElement
<1> HIDE DEF Before
<1>3. Cardinality(Before) <= Cardinality(After(c)) - 1 /\ Cardinality(Before) \in Nat
  BY <1>1, <1>2, FS_Subset, FS_CardinalityType
<1>4. Cardinality(Before) < Page
  BY <1>3, AfterIsFinite, ReconcilerAssumption
<1> QED
  BY <1>4 DEF Before

-----------------------------------------------------------------------------
(* The inductive invariant                                                 *)

SessionsExclude == \A p \in Runs : run[p].session => lock = p

Active(p) == run[p].pc \in {"running", "stopped"}

\* What a run knows when it owns the lease: it works on the page after the stored
\* cursor, and whatever is behind its own cursor was done or is noted.
Knows(p) ==
  LET page == PageAfter(config.cursor) IN
  /\ config.cursor <= run[p].cursor
  /\ run[p].left \subseteq page
  /\ \A t \in run[p].left : run[p].cursor < t
  /\ \A t \in page : t \in run[p].left \/ t \in run[p].skipped \/ t <= run[p].cursor
  /\ run[p].skipped # {} => run[p].dirty
  /\ run[p].carried = config.incomplete
  /\ run[p].hasMore = (Cardinality(After(config.cursor)) > Page)
  /\ \A t \in Tenants : t <= run[p].cursor /\ t \notin clean => run[p].carried \/ run[p].dirty

OwnerKnows == \A p \in Runs : config.owner = p /\ Active(p) => Knows(p)

\* Before it claims the lease a run has nothing to remember.
Fresh == \A p \in Runs : ~Active(p) => run[p].skipped = {} /\ ~run[p].dirty

IInv ==
  /\ TypeOK /\ SessionsExclude /\ Fresh /\ OwnerKnows
  /\ NobodyIsPassedUnnoticed /\ FullCycleCoversEveryTenant

\* Tenants and cursors are numbers.
LEMMA Numbers == Tenants \cup {Start} \subseteq Nat /\ (\A t \in Tenants : Start < t)
  BY ReconcilerAssumption DEF Start

LEMMA IdleType == Idle \in Run
  BY DEF Idle, Run, Start

LEMMA InitInv == Init => IInv
<1> SUFFICES ASSUME Init PROVE IInv
  OBVIOUS
<1>1. TypeOK
  BY IdleType DEF Init, TypeOK, Config
<1>2. SessionsExclude /\ Fresh /\ OwnerKnows
  BY ReconcilerAssumption DEF Init, SessionsExclude, Fresh, OwnerKnows, Idle
<1>3. NobodyIsPassedUnnoticed /\ FullCycleCoversEveryTenant
  BY Numbers DEF Init, NobodyIsPassedUnnoticed, FullCycleCoversEveryTenant
<1> QED
  BY <1>1, <1>2, <1>3 DEF IInv

\* A step that changes neither the stored cursor and evidence nor what an owner
\* knows; more tenants may have become clean.
LEMMA Undisturbed ==
  ASSUME IInv, TypeOK', SessionsExclude', Fresh',
         config'.cursor = config.cursor, config'.incomplete = config.incomplete,
         clean \subseteq clean', UNCHANGED report,
         \A p \in Runs : config'.owner = p /\ Active(p)' =>
           \/ config.owner = p /\ Active(p) /\ \A f \in DOMAIN run[p] \ {"pc", "session"} : run'[p][f] = run[p][f]
           \/ Knows(p)'
  PROVE  IInv'
<1>1. After(config'.cursor) = After(config.cursor) /\ PageAfter(config'.cursor) = PageAfter(config.cursor)
  BY DEF After, PageAfter
<1>2. NobodyIsPassedUnnoticed' /\ FullCycleCoversEveryTenant'
  BY DEF IInv, NobodyIsPassedUnnoticed, FullCycleCoversEveryTenant
<1>3. ASSUME NEW p \in Runs, config'.owner = p, Active(p)' PROVE Knows(p)'
  <2>1. CASE /\ config.owner = p /\ Active(p)
             /\ \A f \in DOMAIN run[p] \ {"pc", "session"} : run'[p][f] = run[p][f]
    <3>1. run[p] \in Run
      BY DEF IInv, TypeOK
    <3>2. /\ run'[p].cursor = run[p].cursor /\ run'[p].left = run[p].left
          /\ run'[p].hasMore = run[p].hasMore /\ run'[p].skipped = run[p].skipped
          /\ run'[p].carried = run[p].carried /\ run'[p].dirty = run[p].dirty
      BY <2>1, <3>1 DEF Run
    <3>3. Knows(p)
      BY <2>1 DEF IInv, OwnerKnows
    <3> QED
      BY <1>1, <3>2, <3>3 DEF Knows
  <2> QED
    BY <1>3, <2>1
<1> QED
  BY <1>2, <1>3 DEF IInv, OwnerKnows

-----------------------------------------------------------------------------
(* The steps                                                               *)

LEMMA TryLockInv == ASSUME IInv, NEW p \in Runs, TryLock(p) PROVE IInv'
<1>1. TypeOK'
  <2>1. run[p] \in Run
    BY DEF IInv, TypeOK
  <2>2. [run[p] EXCEPT !.pc = "locked"] \in Run
    BY <2>1 DEF Run
  <2>3. [[run[p] EXCEPT !.pc = "locked"] EXCEPT !.session = TRUE] \in Run
    BY <2>2 DEF Run
  <2>4. run' = [run EXCEPT ![p] = [[run[p] EXCEPT !.pc = "locked"] EXCEPT !.session = TRUE]]
    BY DEF TryLock
  <2> QED
    BY <2>3, <2>4 DEF TryLock, IInv, TypeOK
<1>2. SessionsExclude'
  BY ReconcilerAssumption DEF TryLock, IInv, TypeOK, SessionsExclude
<1>3. Fresh'
  BY DEF TryLock, IInv, TypeOK, Fresh, Active, Run
<1> QED
  BY <1>1, <1>2, <1>3, Undisturbed DEF TryLock, IInv, TypeOK, Active, Run

LEMMA ClaimInv == ASSUME IInv, NEW p \in Runs, Claim(p) PROVE IInv'
<1>1. run[p] \in Run /\ config \in Config
  BY DEF IInv, TypeOK
<1>2. PageAfter(config.cursor) \subseteq After(config.cursor) /\ After(config.cursor) \subseteq Tenants
  BY DEF PageAfter, After
<1>3. TypeOK'
  <2> DEFINE more == Cardinality(After(config.cursor)) > Page
             first == [run[p] EXCEPT !.pc = "running", !.cursor = config.cursor,
                                     !.left = PageAfter(config.cursor)]
             claimed == [[first EXCEPT !.hasMore = more] EXCEPT !.carried = config.incomplete]
  <2>1. first \in Run
    BY <1>1, <1>2 DEF Run, Config
  <2>2. run' = [run EXCEPT ![p] = claimed]
    BY DEF Claim
  <2>3. more \in BOOLEAN /\ config.incomplete \in BOOLEAN
    BY <1>1 DEF Config
  <2> HIDE DEF more, first
  <2>4. [first EXCEPT !.hasMore = more] \in Run
    BY <2>1, <2>3 DEF Run
  <2>5. claimed \in Run
    BY <2>3, <2>4 DEF Run
  <2> HIDE DEF claimed
  <2>6. config' \in Config
    BY <1>1 DEF Claim, Config
  <2>7. UNCHANGED <<lock, clean, served>>
    BY DEF Claim
  <2> QED
    BY <2>2, <2>5, <2>6, <2>7 DEF IInv, TypeOK
<1>4. SessionsExclude' /\ Fresh'
  BY <1>1 DEF Claim, IInv, TypeOK, SessionsExclude, Fresh, Active, Run
<1>5. config'.owner = p /\ config'.cursor = config.cursor /\ config'.incomplete = config.incomplete
  BY <1>1 DEF Claim, Config
<1>6. Knows(p)'
  <2>1. After(config'.cursor) = After(config.cursor) /\ PageAfter(config'.cursor) = PageAfter(config.cursor)
    BY <1>5 DEF After, PageAfter
  <2>2. /\ run'[p].cursor = config.cursor /\ run'[p].left = PageAfter(config.cursor)
        /\ run'[p].hasMore = (Cardinality(After(config.cursor)) > Page)
        /\ run'[p].carried = config.incomplete
        /\ run'[p].skipped = run[p].skipped /\ run'[p].dirty = run[p].dirty
    BY <1>1 DEF Claim, IInv, TypeOK, Run
  <2>3. run[p].skipped = {} /\ config.cursor \in Nat
    BY <1>1, Numbers DEF Claim, IInv, Fresh, Active, Config
  <2>4. \A t \in Tenants : t <= config.cursor /\ t \notin clean' => config.incomplete
    BY DEF IInv, NobodyIsPassedUnnoticed, Claim
  <2>5. \A t \in PageAfter(config.cursor) : config.cursor < t
    BY <1>2, <2>3, Numbers DEF After
  <2> QED
    BY <1>5, <2>1, <2>2, <2>3, <2>4, <2>5 DEF Knows
<1> QED
  BY <1>3, <1>4, <1>5, <1>6, Undisturbed DEF Claim

\* A run that ends takes its session, and nothing else, with it.
LEMMA EndsTyped ==
  ASSUME IInv, NEW p \in Runs, Ends(p)
  PROVE  /\ run' \in [Runs -> Run] /\ lock' \in Runs \cup {Nobody}
         /\ SessionsExclude' /\ Fresh' /\ ~Active(p)'
         /\ \A q \in Runs \ {p} : run'[q] = run[q]
<1>1. run' = [run EXCEPT ![p] = Idle] /\ run \in [Runs -> Run]
  BY DEF Ends, IInv, TypeOK
<1>2. run' \in [Runs -> Run] /\ run'[p] = Idle /\ \A q \in Runs \ {p} : run'[q] = run[q]
  BY <1>1, IdleType
<1>3. lock' \in Runs \cup {Nobody}
  BY DEF Ends, IInv, TypeOK
<1>4. SessionsExclude'
  BY <1>2 DEF Ends, IInv, SessionsExclude, Idle
<1>5. Fresh' /\ ~Active(p)'
  BY <1>2 DEF IInv, Fresh, Active, Idle
<1> QED
  BY <1>2, <1>3, <1>4, <1>5

LEMMA EndsInv ==
  ASSUME IInv, NEW p \in Runs, Ends(p), UNCHANGED <<config, clean, served, report>> PROVE IInv'
<1>1. TypeOK'
  BY EndsTyped DEF IInv, TypeOK
<1> QED
  BY <1>1, EndsTyped, Undisturbed DEF Active

LEMMA SessionLostInv == ASSUME IInv, NEW p \in Runs, SessionLost(p) PROVE IInv'
<1>1. TypeOK'
  BY DEF SessionLost, IInv, TypeOK, Run
<1>2. SessionsExclude'
  BY DEF SessionLost, IInv, TypeOK, SessionsExclude, Run
<1>3. Fresh'
  BY DEF SessionLost, IInv, TypeOK, Fresh, Active, Run
<1> QED
  BY <1>1, <1>2, <1>3, Undisturbed DEF SessionLost, IInv, TypeOK, Active, Run

LEMMA LeaseExpiresInv == IInv /\ LeaseExpires => IInv'
<1> SUFFICES ASSUME IInv, LeaseExpires PROVE IInv'
  OBVIOUS
<1>1. TypeOK' /\ config'.owner = config.owner /\ config'.cursor = config.cursor
      /\ config'.incomplete = config.incomplete
  BY DEF LeaseExpires, IInv, TypeOK, Config
<1>2. SessionsExclude' /\ Fresh'
  BY DEF LeaseExpires, IInv, SessionsExclude, Fresh, Active
<1> QED
  BY <1>1, <1>2, Undisturbed DEF LeaseExpires, Active

LEMMA ProcessedInv ==
  ASSUME IInv, NEW p \in Runs, NEW t \in Tenants, NEW outcome \in {"ok", "partial"},
         Processed(p, t, outcome)
  PROVE  IInv'
<1>1. run[p] \in Run /\ config \in Config /\ run[p].pc = "running"
  BY DEF IInv, TypeOK, Processed, IsCurrent, Working
<1>2. /\ run'[p].cursor = t /\ run'[p].left = run[p].left \ {t}
      /\ run'[p].dirty = (run[p].dirty \/ outcome = "partial")
      /\ run'[p].pc = run[p].pc /\ run'[p].session = run[p].session
      /\ run'[p].hasMore = run[p].hasMore /\ run'[p].skipped = run[p].skipped
      /\ run'[p].carried = run[p].carried
      /\ \A q \in Runs \ {p} : run'[q] = run[q]
  BY <1>1 DEF Processed, IInv, TypeOK, Run
<1>3. TypeOK'
  <2>1. (run[p].dirty \/ outcome = "partial") \in BOOLEAN
    OBVIOUS
  <2> QED
    BY <1>1, <2>1 DEF Processed, IInv, TypeOK, Run
<1>4. SessionsExclude' /\ Fresh'
  BY <1>1, <1>2 DEF Processed, IInv, SessionsExclude, Fresh, Active
<1>5. clean \subseteq clean' /\ (outcome = "ok" => t \in clean') /\ UNCHANGED <<config, report>>
  BY DEF Processed
<1>6. ASSUME config.owner = p PROVE Knows(p)'
  <2>1. Knows(p)
    BY <1>1, <1>6 DEF IInv, OwnerKnows, Active
  <2>2. t \in run[p].left /\ \A s \in run[p].left : t <= s
    BY DEF Processed, IsCurrent
  <2>3. /\ t \in Nat /\ run[p].cursor \in Nat /\ config.cursor \in Nat
        /\ run[p].cursor < t /\ t \in PageAfter(config.cursor)
    BY <1>1, <2>1, <2>2, Numbers DEF Knows, Run, Config
  <2>4. \A s \in run[p].left \ {t} : t < s
    BY <1>1, <2>2, <2>3, Numbers DEF Run
  <2>5. ASSUME NEW s \in Tenants, s <= t, s \notin clean'
        PROVE  run'[p].carried \/ run'[p].dirty
    <3>1. CASE s = t
      BY <1>2, <1>5, <2>5, <3>1
    <3>2. CASE s <= run[p].cursor
      BY <1>2, <1>5, <2>1, <2>5, <3>2 DEF Knows
    <3>3. CASE s # t /\ ~(s <= run[p].cursor)
      <4>1. s \in Nat /\ s < t
        BY <2>3, <2>5, <3>3, Numbers
      <4>2. s \in After(config.cursor)
        BY <2>1, <2>3, <3>3, <4>1 DEF Knows, After
      <4>3. s \in PageAfter(config.cursor)
        BY <2>3, <4>1, <4>2, PageIsPrefix
      <4>4. s \notin run[p].left
        BY <2>2, <2>3, <4>1
      <4>5. s \in run[p].skipped
        BY <2>1, <3>3, <4>3, <4>4 DEF Knows
      <4> QED
        BY <1>2, <2>1, <4>5 DEF Knows
    <3> QED
      BY <3>1, <3>2, <3>3
  <2>6. \A s \in PageAfter(config.cursor) : s \in run'[p].left \/ s \in run'[p].skipped \/ s <= t
    <3> SUFFICES ASSUME NEW s \in PageAfter(config.cursor), s \notin run'[p].left,
                        s \notin run'[p].skipped
                 PROVE  s <= t
      OBVIOUS
    <3>1. s \in Nat
      BY Numbers, AfterIsFinite DEF PageAfter
    <3>2. CASE s = t
      BY <2>3, <3>2
    <3>3. CASE s # t
      BY <1>2, <2>1, <2>3, <3>1, <3>3 DEF Knows
    <3> QED
      BY <3>2, <3>3
  <2>7. /\ After(config'.cursor) = After(config.cursor)
        /\ PageAfter(config'.cursor) = PageAfter(config.cursor)
        /\ config' = config
    BY <1>5 DEF After, PageAfter
  <2>8. config.cursor <= t /\ run'[p].left \subseteq PageAfter(config.cursor)
    BY <1>2, <2>1, <2>3 DEF Knows
  <2>9. run'[p].skipped # {} => run'[p].dirty
    BY <1>2, <2>1 DEF Knows
  <2> QED
    BY <1>2, <2>1, <2>4, <2>5, <2>6, <2>7, <2>8, <2>9 DEF Knows
<1> QED
  BY <1>1, <1>2, <1>3, <1>4, <1>5, <1>6, Undisturbed DEF Active

LEMMA FailedInv == ASSUME IInv, NEW p \in Runs, NEW t \in Tenants, Failed(p, t) PROVE IInv'
<1>1. run[p] \in Run /\ config \in Config /\ run[p].pc = "running"
  BY DEF IInv, TypeOK, Failed, IsCurrent, Working
<1>2. run' = [run EXCEPT ![p] = [run[p] EXCEPT !.left = run[p].left \ {t},
                !.skipped = run[p].skipped \cup {t}, !.dirty = TRUE]]
  BY DEF Failed, FailureIsDirty
<1>3. [run[p] EXCEPT !.left = run[p].left \ {t}, !.skipped = run[p].skipped \cup {t},
                     !.dirty = TRUE] \in Run
  BY <1>1 DEF Run
<1>4. UNCHANGED <<config, lock, clean, served, report>>
  BY DEF Failed
<1>5. TypeOK'
  BY <1>2, <1>3, <1>4 DEF IInv, TypeOK
<1>6. /\ run'[p].cursor = run[p].cursor /\ run'[p].left = run[p].left \ {t}
      /\ run'[p].dirty /\ run'[p].skipped = run[p].skipped \cup {t}
      /\ run'[p].pc = run[p].pc /\ run'[p].session = run[p].session
      /\ run'[p].hasMore = run[p].hasMore /\ run'[p].carried = run[p].carried
      /\ \A q \in Runs \ {p} : run'[q] = run[q]
  BY <1>1, <1>2 DEF IInv, TypeOK, Run
<1>7. SessionsExclude' /\ Fresh'
  BY <1>1, <1>4, <1>6 DEF IInv, SessionsExclude, Fresh, Active
<1>8. ASSUME config.owner = p PROVE Knows(p)'
  <2>1. Knows(p)
    BY <1>1, <1>8 DEF IInv, OwnerKnows, Active
  <2>2. /\ After(config'.cursor) = After(config.cursor)
        /\ PageAfter(config'.cursor) = PageAfter(config.cursor)
    BY <1>4 DEF After, PageAfter
  <2> QED
    BY <1>4, <1>6, <2>1, <2>2 DEF Knows
<1> QED
  BY <1>1, <1>4, <1>5, <1>6, <1>7, <1>8, Undisturbed DEF Active

LEMMA BudgetExhaustedInv == ASSUME IInv, NEW p \in Runs, BudgetExhausted(p) PROVE IInv'
<1>1. run[p] \in Run /\ config \in Config /\ run[p].pc = "running"
  BY DEF IInv, TypeOK, BudgetExhausted, Working
<1>2. run' = [run EXCEPT ![p] = [run[p] EXCEPT !.pc = "stopped", !.dirty = TRUE]]
  BY DEF BudgetExhausted
<1>3. [run[p] EXCEPT !.pc = "stopped", !.dirty = TRUE] \in Run
  BY <1>1 DEF Run
<1>4. UNCHANGED <<config, lock, clean, served, report>>
  BY DEF BudgetExhausted
<1>5. TypeOK'
  BY <1>2, <1>3, <1>4 DEF IInv, TypeOK
<1>6. /\ run'[p].cursor = run[p].cursor /\ run'[p].left = run[p].left
      /\ run'[p].dirty /\ run'[p].skipped = run[p].skipped
      /\ run'[p].pc = "stopped" /\ run'[p].session = run[p].session
      /\ run'[p].hasMore = run[p].hasMore /\ run'[p].carried = run[p].carried
      /\ \A q \in Runs \ {p} : run'[q] = run[q]
  BY <1>1, <1>2 DEF IInv, TypeOK, Run
<1>7. SessionsExclude' /\ Fresh'
  BY <1>1, <1>4, <1>6 DEF IInv, SessionsExclude, Fresh, Active
<1>8. ASSUME config.owner = p PROVE Knows(p)'
  <2>1. Knows(p)
    BY <1>1, <1>8 DEF IInv, OwnerKnows, Active
  <2>2. /\ After(config'.cursor) = After(config.cursor)
        /\ PageAfter(config'.cursor) = PageAfter(config.cursor)
    BY <1>4 DEF After, PageAfter
  <2> QED
    BY <1>4, <1>6, <2>1, <2>2 DEF Knows
<1> QED
  BY <1>1, <1>4, <1>5, <1>6, <1>7, <1>8, Undisturbed DEF Active

\* A page that was the last one, done without a skip, leaves nobody out.
LEMMA CompleteCovers ==
  ASSUME IInv, NEW p \in Runs, Knows(p), CycleComplete(p), ~Incomplete(p) PROVE clean = Tenants
<1>1. /\ run[p] \in Run /\ config \in Config
      /\ run[p].cursor \in Nat /\ config.cursor \in Nat /\ clean \subseteq Tenants
  BY Numbers DEF IInv, TypeOK, Run, Config
<1>2. PageAfter(config.cursor) = After(config.cursor)
  BY LastPageIsTheRest DEF Knows, CycleComplete
<1>3. ASSUME NEW t \in Tenants PROVE t <= run[p].cursor
  <2>1. t \in Nat
    BY Numbers
  <2>2. CASE t > config.cursor
    BY <1>2, <2>2 DEF Knows, CycleComplete, After
  <2>3. CASE ~(t > config.cursor)
    BY <1>1, <2>1, <2>3 DEF Knows
  <2> QED
    BY <2>2, <2>3
<1> QED
  BY <1>1, <1>3 DEF Knows, Incomplete

LEMMA FinishInv == ASSUME IInv, NEW p \in Runs, Finish(p) PROVE IInv'
<1>1. Ends(p) /\ Active(p) /\ UNCHANGED served
  BY DEF Finish, Active
<1>2. CASE run[p].session /\ config.owner = p
  <2>1. Knows(p)
    BY <1>1, <1>2 DEF IInv, OwnerKnows
  <2>2. run[p] \in Run /\ config \in Config
    BY DEF IInv, TypeOK
  <2>3. CycleComplete(p) \in BOOLEAN /\ Incomplete(p) \in BOOLEAN
    BY <2>2 DEF CycleComplete, Incomplete, Run
  <2>4. /\ config'.cursor = IF CycleComplete(p) THEN Start ELSE run[p].cursor
        /\ config'.incomplete = (~CycleComplete(p) /\ Incomplete(p))
        /\ config'.owner = Nobody /\ config'.expired = FALSE
        /\ clean' = IF CycleComplete(p) THEN {} ELSE clean
        /\ report'.full = (CycleComplete(p) /\ ~Incomplete(p))
        /\ report'.all = (clean = Tenants)
    BY <1>2 DEF Finish
  <2>5. config' \in Config
    <3> DEFINE cursor == IF CycleComplete(p) THEN Start ELSE run[p].cursor
               incomplete == ~CycleComplete(p) /\ Incomplete(p)
    <3>1. config' = [cursor |-> cursor, incomplete |-> incomplete,
                     owner |-> Nobody, expired |-> FALSE]
      BY <1>2 DEF Finish
    <3>2. cursor \in Tenants \cup {Start} /\ incomplete \in BOOLEAN
      BY <2>2, <2>3 DEF Run
    <3> HIDE DEF cursor, incomplete
    <3> QED
      BY <3>1, <3>2 DEF Config
  <2>6. TypeOK'
    BY <1>1, <2>4, <2>5, EndsTyped DEF IInv, TypeOK
  <2>7. OwnerKnows'
    BY <2>4, ReconcilerAssumption DEF OwnerKnows
  <2>8. NobodyIsPassedUnnoticed'
    <3> SUFFICES ASSUME NEW t \in Tenants, t <= config'.cursor, t \notin clean'
                 PROVE  config'.incomplete
      BY DEF NobodyIsPassedUnnoticed
    <3>1. ~CycleComplete(p)
      BY <2>4, Numbers
    <3> QED
      BY <2>1, <2>4, <3>1 DEF Knows, Incomplete
  <2>9. FullCycleCoversEveryTenant'
    BY <2>1, <2>4, CompleteCovers DEF FullCycleCoversEveryTenant
  <2> QED
    BY <1>1, <2>6, <2>7, <2>8, <2>9, EndsTyped DEF IInv
<1>3. CASE ~(run[p].session /\ config.owner = p)
  BY <1>1, <1>3, EndsInv DEF Finish
<1> QED
  BY <1>2, <1>3

LEMMA StepInv == IInv /\ [Next]_vars => IInv'
<1> SUFFICES ASSUME IInv, [Next]_vars PROVE IInv'
  OBVIOUS
<1>1. ASSUME NEW p \in Runs, TryLock(p) \/ Claim(p) \/ BudgetExhausted(p) \/ Finish(p)
      PROVE  IInv'
  BY <1>1, TryLockInv, ClaimInv, BudgetExhaustedInv, FinishInv
<1>2. ASSUME NEW p \in Runs, Refused(p) \/ Crash(p) PROVE IInv'
  BY <1>2, EndsInv DEF Refused, Crash
<1>3. ASSUME NEW p \in Runs, NEW t \in Tenants, NEW outcome \in {"ok", "partial"},
             Processed(p, t, outcome)
      PROVE  IInv'
  BY <1>3, ProcessedInv
<1>4. ASSUME NEW p \in Runs, NEW t \in Tenants, Failed(p, t) PROVE IInv'
  BY <1>4, FailedInv
<1>5. ASSUME NEW p \in Runs, SessionLost(p) PROVE IInv'
  BY <1>5, SessionLostInv
<1>6. CASE LeaseExpires
  BY <1>6, LeaseExpiresInv
<1>7. CASE UNCHANGED vars
  <2>1. TypeOK' /\ SessionsExclude' /\ Fresh'
    BY <1>7 DEF vars, IInv, TypeOK, SessionsExclude, Fresh, Active
  <2> QED
    BY <1>7, <2>1, Undisturbed DEF vars, Active
<1> QED
  BY <1>1, <1>2, <1>3, <1>4, <1>5, <1>6, <1>7 DEF Next

LEMMA Inductive == Spec => []IInv
  BY InitInv, StepInv, PTL DEF Spec

-----------------------------------------------------------------------------
\* The row of app_config, the lock and every run keep their types.
THEOREM TypesHold == Spec => []TypeOK
<1>1. IInv => TypeOK
  BY DEF IInv
<1> QED
  BY <1>1, Inductive, PTL

\* No two runs have the session that holds the advisory lock
\* (run-storage-deletion-reconciler.ts).
THEOREM OneSessionHasTheLock == Spec => []SessionsExclude
<1>1. IInv => SessionsExclude
  BY DEF IInv
<1> QED
  BY <1>1, Inductive, PTL

\* The cursor leaves no tenant behind unnoticed.
THEOREM NobodyIsPassed == Spec => []NobodyIsPassedUnnoticed
<1>1. IInv => NobodyIsPassedUnnoticed
  BY DEF IInv
<1> QED
  BY <1>1, Inductive, PTL

\* A reported full cycle covered every tenant (durableCycleEvidence.ts).
THEOREM FullCyclesAreFull == Spec => []FullCycleCoversEveryTenant
<1>1. IInv => FullCycleCoversEveryTenant
  BY DEF IInv
<1> QED
  BY <1>1, Inductive, PTL
=============================================================================
