----------------------- MODULE SsdAutoIncreaseProofs -----------------------
(***************************************************************************)
(* Theorems about SsdAutoIncrease, for every bound and every timing that   *)
(* keeps the lease longer than the timeout.                                *)
(*   - IInv: types and the lock, for any number of overlapping             *)
(*     invocations;                                                        *)
(*   - SettledInv: whatever says that a request is over is right, for any  *)
(*     number of them too;                                                 *)
(*   - RecordInv: item, archive and invocations tell one story of it;      *)
(*   - DeliveredInv: report_sent stands for a delivered report.            *)
(* The last three need an operator who calls refused only what was refused *)
(* (~OperatorErrs); the last two also one invocation at a time, which the  *)
(* function's reserved concurrency guarantees (OneAtATime).                *)
(***************************************************************************)
EXTENDS SsdAutoIncrease, FiniteSetTheorems, TLAPS

\* A countdown stays a natural number.
LEMMA MinusType == ASSUME NEW n \in Nat, NEW k \in Nat PROVE Minus(n, k) \in Nat
  BY DEF Minus

\* Time that passes keeps an item an item.
LEMMA LaterType ==
  ASSUME NEW it \in Items, NEW k \in Nat
  PROVE  Later(it, k) \in Items
  BY MinusType DEF Later, Items

\* So does reading its deadlines from an earlier moment.
LEMMA EarlierType ==
  ASSUME NEW it \in Items, NEW k \in Nat
  PROVE  Earlier(it, k) \in Items
  <1> DEFINE l == IF it.lease = 0 THEN 0 ELSE it.lease + k
             r == IF it.window = 0 THEN 0 ELSE it.window + k
  <1>1. l \in Nat /\ r \in Nat BY DEF Items
  <1>2. Earlier(it, k) = [it EXCEPT !.lease = l, !.window = r] BY DEF Earlier
  <1> HIDE DEF l, r
  <1>3. QED BY <1>1, <1>2 DEF Items

\* So does forgetting the deadlines its state does not read.
LEMMA StoredType ==
  ASSUME NEW it \in Items
  PROVE  Stored(it) \in Items
  BY DEF Stored, Items

\* The absent item, the empty follow-up and the idle invocation are typed.
LEMMA NullTypes == NoItem \in Items /\ NoPlan \in Entry /\ Idle \in Locals
  <1>1. NoPlan \in Entry
    BY DEF NoPlan, FollowUp, Entry, Events, Outcomes, Posts, Reasons
  <1>2. NoItem \in Items
    BY DEF NoItem, Items, LockStates, Dispositions
  <1>3. Idle \in Locals
    BY <1>1, <1>2 DEF Idle, Locals, Pcs, Results
  <1>4. QED BY <1>1, <1>2, <1>3

\* LockStore.transition writes an item when it is given one.
LEMMA TransitionType ==
  ASSUME TypeOK, NEW w \in Workers, NEW owner, NEW st, NEW new \in Items,
         Transition(w, owner, st, new)
  PROVE  item' \in Items
  <1>1. run[w].age \in Nat BY DEF TypeOK, Locals
  <1>2. Later(Stored(new), run[w].age) \in Items BY <1>1, StoredType, LaterType
  <1>3. QED BY <1>2 DEF Transition, TypeOK

\* LockStore.release leaves an item, or none.
LEMMA ReleaseType ==
  ASSUME TypeOK, NEW owner, NEW st, ReleaseItem(owner, st)
  PROVE  item' \in Items
  BY NullTypes DEF ReleaseItem, TypeOK

\* Going on to another label keeps the locals typed.
LEMMA GotoType ==
  ASSUME TypeOK, NEW w \in Workers, NEW l \in Pcs, Goto(w, l)
  PROVE  run' \in [Workers -> Locals]
  BY DEF Goto, TypeOK, Locals

\* The end of an invocation keeps the locals typed.
LEMMA ReturnType ==
  ASSUME TypeOK, NEW w \in Workers, Return(w)
  PROVE  run' \in [Workers -> Locals]
  BY NullTypes DEF Return, TypeOK

\* An archive write adds an object of the archive's shape.
LEMMA PutType ==
  ASSUME TypeOK, NEW ok, NEW id \in Ids \cup {0}, NEW seq \in Nat,
         NEW ev \in Events, NEW out \in Outcomes, TryPut(ok, id, seq, ev, out)
  PROVE  archive' \subseteq ArchiveObject
  BY DEF TryPut, PutObject, TypeOK, ArchiveObject

\* A report adds a correlation ID with a reason.
LEMMA ReportType ==
  ASSUME TypeOK, NEW ok, NEW id \in Ids \cup {0}, NEW reason \in Reasons,
         TryReport(ok, id, reason)
  PROVE  reports' \subseteq (Ids \cup {0}) \X Reasons
  BY DEF TryReport, TypeOK

\* A failure leaves a natural number of failures to come.
LEMMA SpendType ==
  ASSUME TypeOK, NEW n \in Nat, Spend(n)
  PROVE  faults' \in Nat
  BY DEF Spend, TypeOK

-----------------------------------------------------------------------------
(* The inductive invariant.                                                *)

AfterAcquire == {"evaluate", "release", "latch", "recheck", "announce", "toCalling"}
Followers == {"flush", "flushReport", "keepPending", "flushWrite", "flushed",
              "clear", "handle", "archive", "pend", "report", "write"}

\* An invocation that has acquired the lock and not yet handed the item over.
Owner(w) == run[w].pc \in OwnerPcs

\* Correlation IDs in use are all below the next one, and no invocation is
\* older than the function timeout.
Bounded ==
  /\ item.owner < nextId
  /\ \A w \in Workers : /\ run[w].id < nextId
                         /\ run[w].seen.owner < nextId
                         /\ run[w].age <= FunctionTimeout

\* While its owner lives, the item is the owner's, in the state the owner put
\* it in, with nothing pending, and its lease outlasts the owner.
LeaseHeld ==
  \A w \in Workers : Owner(w) =>
    /\ item.owner = run[w].id
    /\ item.state = IF run[w].pc \in AfterAcquire THEN "evaluating" ELSE "calling"
    /\ item.lease + run[w].age >= LeaseTerm
    /\ item.pending = {}
    /\ item.releaseAfterFlush = FALSE

\* An invocation that follows an existing item never acts on a live owner's:
\* it may have read it, but only to find its lease valid.
LeavesOwnersAlone ==
  \A v, w \in Workers :
    Owner(w) /\ run[v].pc \in Followers /\ run[v].seen.owner = run[w].id =>
      /\ run[v].pc = "handle"
      /\ \/ run[v].seen.state = "evaluating"
         \/ run[v].seen.state = "calling" /\ run[v].seen.lease > 0

IInv == TypeOK /\ Bounded /\ LeaseHeld /\ LeavesOwnersAlone /\ SingleFlight

\* The inductive invariant holds initially.
LEMMA InitIInv == Init => IInv
  <1> SUFFICES ASSUME Init PROVE IInv OBVIOUS
  <1> USE ConstantsAssumption
  <1>1. \A w \in Workers : run[w] = Idle BY DEF Init
  <1>2. TypeOK
    BY NullTypes DEF Init, TypeOK, RequestRecord, NoRequest, ArchiveObject
  <1>3. Bounded BY <1>1 DEF Init, Bounded, NoItem, Idle
  <1>4. \A w \in Workers : ~Owner(w) BY <1>1 DEF Owner, OwnerPcs, Idle
  <1>5. LeaseHeld /\ LeavesOwnersAlone /\ SingleFlight
    BY <1>4 DEF LeaseHeld, LeavesOwnersAlone, SingleFlight, Owner
  <1>6. QED BY <1>2, <1>3, <1>5 DEF IInv

-----------------------------------------------------------------------------
(* Type correctness is preserved by every step.                            *)

\* What a follow-up and the write it ends in may hold.
LEMMA FollowUpType ==
  ASSUME NEW ev \in Events, NEW out \in Outcomes, NEW seq \in Nat,
         NEW post \in Posts, NEW rep \in Reasons
  PROVE  FollowUp(ev, out, seq, post, rep) \in Entry
  BY DEF FollowUp, Entry

\* Every handler of an existing state decides a well-formed follow-up.
LEMMA FollowUpOfType ==
  ASSUME NEW it \in Items
  PROVE  FollowUpOf(it) \in Entry
  <1>0. it.seq \in Nat /\ it.seq + 1 \in Nat /\ 0 \in Nat BY DEF Items
  <1> USE <1>0, NullTypes, FollowUpType DEF Events, Outcomes, RequestStates, Posts, Reasons
  <1>1. OnBlocked(it) \in Entry BY DEF OnBlocked
  <1>2. OnSubmitted(it) \in Entry BY DEF OnSubmitted
  <1>3. Reconciled(it) \in Entry BY DEF Reconciled
  <1>4. OnIndeterminate(it) \in Entry BY <1>3 DEF OnIndeterminate
  <1>5. OnManualDisposition(it) \in Entry BY <1>3 DEF OnManualDisposition
  <1>6. OnCalling(it) \in Entry BY DEF OnCalling
  <1>7. QED BY <1>1, <1>2, <1>4, <1>5, <1>6 DEF FollowUpOf

\* The state change of a follow-up's write yields an item.
LEMMA AdvanceType ==
  ASSUME NEW it \in Items, NEW p \in Entry, p.post # "release"
  PROVE  Advance(it, p) \in Items
  <1>1. p.post = "resent" \/ p.post \in LockStates
    BY DEF Entry, Posts, RequestStates, LockStates
  <1>2. p.seq \in Nat BY DEF Entry
  <1>3. QED BY <1>1, <1>2 DEF Advance, Items

\* An attempt costs no failure or one.
LEMMA CostType == \A ok \in BOOLEAN : Cost(ok) \in Nat
  BY DEF Cost

\* Steps of the fresh evaluation.
LEMMA FreshEvaluationType ==
  ASSUME TypeOK, NEW w \in Workers, Invoke(w) \/ FreshEvaluation(w)
  PROVE  TypeOK'
  <1> USE ConstantsAssumption
  <1>0. /\ run[w] \in Locals /\ run[w].id \in Ids \cup {0} /\ run[w].age \in Nat
        /\ 1 \in Nat /\ 2 \in Nat /\ run \in [Workers -> Locals]
    BY DEF TypeOK, Locals
  <1>1. CASE Invoke(w)
    <2>1. FirstStep(item) \in Pcs
      BY <1>1 DEF Invoke, FirstStep, Pcs, TypeOK, Items, LockStates
    <2>2. run' \in [Workers -> Locals]
      BY <1>0, <1>1, <2>1, NullTypes DEF Invoke, TypeOK, Locals
    <2>3. QED BY <1>1, <2>2 DEF Invoke, TypeOK, service, sinks, deployment
  <1>2. CASE Acquire(w)
    <2>1. CASE UNCHANGED <<item, nextId>> /\ Return(w)
      BY <1>2, <2>1, ReturnType DEF Acquire, TypeOK, service, sinks
    <2>2. CASE /\ nextId \in Ids /\ nextId' = nextId + 1
               /\ item' = Later([NoItem EXCEPT !.state = "evaluating", !.owner = nextId,
                                               !.lease = LeaseTerm], run[w].age)
               /\ run' = [run EXCEPT ![w].pc = "evaluate", ![w].id = nextId]
      <3>1. [NoItem EXCEPT !.state = "evaluating", !.owner = nextId,
                           !.lease = LeaseTerm] \in Items
        BY <2>2, NullTypes DEF Items, LockStates
      <3>2. item' \in Items BY <1>0, <2>2, <3>1, LaterType
      <3>3. run' \in [Workers -> Locals] BY <1>0, <2>2 DEF Locals, Pcs
      <3>4. nextId' \in Nat BY <2>2 DEF TypeOK
      <3>5. QED BY <1>2, <3>2, <3>3, <3>4 DEF Acquire, TypeOK, service, sinks
    <2>3. QED BY <1>2, <2>1, <2>2 DEF Acquire
  <1>3. CASE DecideNoCall(w)
    <2>1. PICK ok \in BOOLEAN, sent \in BOOLEAN :
            /\ Spend(Cost(ok) + Cost(sent))
            /\ TryPut(ok, run[w].id, 1, "decision", "no_call")
            /\ IF sent THEN Goto(w, "release") ELSE Return(w)
      BY <1>3 DEF DecideNoCall, Conclude
    <2>2. faults' \in Nat BY <2>1, SpendType, CostType
    <2>3. archive' \subseteq ArchiveObject
      BY <1>0, <2>1, PutType DEF Events, Outcomes
    <2>4. run' \in [Workers -> Locals] BY <2>1, GotoType, ReturnType DEF Pcs
    <2>5. QED BY <1>3, <2>2, <2>3, <2>4 DEF DecideNoCall, Conclude, TypeOK, service, deployment
  <1>4. CASE Refuse(w)
    <2>1. PICK ok \in BOOLEAN, sent \in BOOLEAN :
            /\ Spend(Cost(ok) + Cost(sent))
            /\ TryPut(ok, run[w].id, 1, "decision", "blocked")
            /\ TryReport(sent, run[w].id, "blocked")
            /\ run' = [run EXCEPT ![w].pc = "latch",
                 ![w].seen = [NoItem EXCEPT !.state = "blocked", !.owner = run[w].id,
                                !.seq = 1, !.sent = sent, !.fp = fingerprint]]
      BY <1>4 DEF Refuse
    <2>2. faults' \in Nat BY <2>1, SpendType, CostType
    <2>3. archive' \subseteq ArchiveObject
      BY <1>0, <2>1, PutType DEF Events, Outcomes, RequestStates
    <2>4. reports' \subseteq (Ids \cup {0}) \X Reasons
      BY <1>0, <2>1, ReportType DEF Reasons
    <2>5. [NoItem EXCEPT !.state = "blocked", !.owner = run[w].id, !.seq = 1,
                         !.sent = sent, !.fp = fingerprint] \in Items
      BY <1>0, NullTypes DEF Items, LockStates, TypeOK
    <2>6. run' \in [Workers -> Locals] BY <1>0, <2>1, <2>5 DEF Locals, Pcs
    <2>7. QED BY <1>4, <2>2, <2>3, <2>4, <2>6 DEF Refuse, TypeOK, service, deployment
  <1>5. CASE Latch(w)
    <2>1. item' \in Items BY <1>0, <1>5, TransitionType DEF Latch, Locals
    <2>2. QED
      BY <1>5, <2>1, ReturnType DEF Latch, TypeOK, service, sinks, deployment
  <1>6. CASE WriteIntent(w)
    <2>1. archive' \subseteq ArchiveObject
      <3>1. TryPut(FALSE, run[w].id, 1, "decision", "increase")
        BY <1>6 DEF WriteIntent, TryPut
      <3>2. QED BY <1>0, <3>1, PutType DEF Events, Outcomes
    <2>2. run' \in [Workers -> Locals] BY <1>6, GotoType, ReturnType DEF WriteIntent, Pcs
    <2>3. faults' \in Nat
      <3>1. CASE UNCHANGED faults BY <3>1 DEF TypeOK
      <3>2. CASE \E sent \in BOOLEAN : Spend(1 + Cost(sent))
        <4>1. PICK sent \in BOOLEAN : Spend(1 + Cost(sent)) BY <3>2
        <4>2. QED BY <4>1, SpendType, CostType
      <3>3. QED BY <1>6, <3>1, <3>2 DEF WriteIntent
    <2>4. QED BY <1>6, <2>1, <2>2, <2>3 DEF WriteIntent, TypeOK, service, deployment
  <1>7. CASE Recheck(w)
    <2>1. archive' \subseteq ArchiveObject
      BY <1>0, <1>7, PutType DEF Recheck, TypeOK, Events, Outcomes
    <2>2. run' \in [Workers -> Locals] BY <1>7, GotoType, ReturnType DEF Recheck, Pcs
    <2>3. faults' \in Nat BY <1>7, SpendType, CostType DEF Recheck, TypeOK
    <2>4. QED BY <1>7, <2>1, <2>2, <2>3 DEF Recheck, TypeOK, service, deployment
  <1>8. CASE Announce(w)
    <2>1. run' \in [Workers -> Locals] BY <1>8, GotoType, ReturnType DEF Announce, Pcs
    <2>2. faults' \in Nat BY <1>0, <1>8, SpendType DEF Announce, TypeOK
    <2>3. QED BY <1>8, <2>1, <2>2 DEF Announce, TypeOK, service, sinks, deployment
  <1>9. CASE ToCalling(w)
    <2>1. [NoItem EXCEPT !.state = "calling", !.owner = run[w].id, !.seq = 1,
                         !.lease = LeaseTerm, !.window = ReconcileTerm, !.sent = FALSE]
            \in Items
      BY <1>0, NullTypes DEF Items, LockStates
    <2>2. item' \in Items BY <1>9, <2>1, TransitionType DEF ToCalling
    <2>3. run' \in [Workers -> Locals] BY <1>9, GotoType, ReturnType DEF ToCalling, Pcs
    <2>4. QED BY <1>9, <2>2, <2>3 DEF ToCalling, TypeOK, service, sinks, deployment
  <1>10. CASE Release(w)
    BY <1>10, ReleaseType, ReturnType DEF Release, TypeOK, service, sinks, deployment
  <1>11. QED
    BY <1>1, <1>2, <1>3, <1>4, <1>5, <1>6, <1>7, <1>8, <1>9, <1>10 DEF FreshEvaluation

\* Steps around the request.  The sequence number of the post-call event counts
\* the pending events, of which a live owner's item has none.
LEMMA AfterCallType ==
  ASSUME TypeOK, LeaseHeld, NEW w \in Workers, AfterCall(w)
  PROVE  TypeOK'
  <1> USE ConstantsAssumption
  <1>0. /\ run[w] \in Locals /\ run[w].id \in Ids \cup {0} /\ run[w].age \in Nat
        /\ run[w].seen \in Items /\ run \in [Workers -> Locals] /\ 1 \in Nat
    BY DEF TypeOK, Locals
  <1>1. CASE Call(w)
    <2>1. PICK res \in Results \ {"none"}, accepted \in BOOLEAN :
            /\ request' = [request EXCEPT ![run[w].id] =
                 IF accepted
                 THEN [status |-> "accepted", phase |-> "in_progress",
                       visible |-> FALSE, cool |-> CooldownTerm]
                 ELSE [NoRequest EXCEPT !.status = "refused"]]
            /\ run' = [run EXCEPT ![w].pc = "postCall", ![w].result = res]
      BY <1>1 DEF Call
    <2>2. request' \in [Ids -> RequestRecord]
      BY <2>1 DEF TypeOK, RequestRecord, NoRequest
    <2>3. run' \in [Workers -> Locals] BY <1>0, <2>1 DEF Locals, Pcs
    <2>4. QED BY <1>1, <2>2, <2>3 DEF Call, TypeOK, sinks, deployment
  <1>2. CASE PostCall(w)
    <2> DEFINE carried == Earlier(item, run[w].age)
               ev == PostCallEvent(run[w].result)
               out == PostCallState(run[w].result)
               seq == carried.seq + Cardinality(carried.pending) + 1
    <2>1. carried \in Items BY <1>0, EarlierType DEF TypeOK
    <2>2. carried.pending = {}
      BY <1>2 DEF PostCall, LeaseHeld, Owner, OwnerPcs, Earlier, TypeOK, Items
    <2>3. seq \in Nat BY <2>1, <2>2, FS_EmptySet DEF Items
    <2>4. ev \in Events /\ out \in Outcomes
      BY <1>0 DEF PostCallEvent, PostCallState, Events, Outcomes, RequestStates
    <2>5. FollowUp(ev, out, seq, "none", "none") \in Entry
      BY <2>3, <2>4, FollowUpType DEF Posts, Reasons
    <2>6. \A ok \in BOOLEAN :
            [carried EXCEPT !.seq = seq, !.lease = LeaseTerm,
               !.pending = IF ok THEN @ ELSE @ \cup {FollowUp(ev, out, seq, "none", "none")}]
              \in Items
      <3> HIDE DEF carried, ev, out, seq
      <3>1. QED BY <2>1, <2>3, <2>5 DEF Items
    <2>7. PICK ok \in BOOLEAN :
            /\ Spend(Cost(ok))
            /\ TryPut(ok, run[w].id, seq, ev, out)
            /\ run' = [run EXCEPT ![w].pc = "settle",
                 ![w].seen = [carried EXCEPT !.seq = seq, !.lease = LeaseTerm,
                   !.pending = IF ok THEN @
                               ELSE @ \cup {FollowUp(ev, out, seq, "none", "none")}]]
      BY <1>2 DEF PostCall
    <2> HIDE DEF carried, ev, out, seq
    <2>8. run' \in [Workers -> Locals] BY <1>0, <2>6, <2>7 DEF Locals, Pcs
    <2>9. archive' \subseteq ArchiveObject BY <1>0, <2>3, <2>4, <2>7, PutType
    <2>10. faults' \in Nat BY <2>7, SpendType, CostType
    <2>11. QED BY <1>2, <2>8, <2>9, <2>10 DEF PostCall, TypeOK, service, deployment
  <1>3. CASE SettleSubmitted(w)
    <2>1. [run[w].seen EXCEPT !.state = "submitted", !.sent = FALSE] \in Items
      BY <1>0 DEF Items, LockStates
    <2>2. item' \in Items BY <1>3, <2>1, TransitionType DEF SettleSubmitted
    <2>3. run' \in [Workers -> Locals]
      BY <1>3, GotoType, ReturnType DEF SettleSubmitted, Pcs
    <2>4. QED BY <1>3, <2>2, <2>3 DEF SettleSubmitted, TypeOK, service, sinks, deployment
  <1>4. CASE ReportSubmitted(w)
    <2>1. reports' \subseteq (Ids \cup {0}) \X Reasons
      BY <1>0, <1>4, ReportType DEF ReportSubmitted, Reasons, TypeOK
    <2>2. run' \in [Workers -> Locals]
      BY <1>4, GotoType, ReturnType DEF ReportSubmitted, Pcs
    <2>3. faults' \in Nat BY <1>0, <1>4, SpendType DEF ReportSubmitted, TypeOK
    <2>4. QED BY <1>4, <2>1, <2>2, <2>3 DEF ReportSubmitted, TypeOK, service, deployment
  <1>5. CASE MarkSent(w)
    <2>1. [run[w].seen EXCEPT !.state = "submitted", !.sent = TRUE] \in Items
      BY <1>0 DEF Items, LockStates
    <2>2. item' \in Items BY <1>5, <2>1, TransitionType DEF MarkSent
    <2>3. QED
      BY <1>5, <2>2, ReturnType DEF MarkSent, TypeOK, service, sinks, deployment
  <1>6. CASE ReportRejected(w)
    <2>1. PICK sent \in BOOLEAN :
            /\ Spend(Cost(sent))
            /\ TryReport(sent /\ run[w].result = "deterministic", run[w].id, "blocked")
            /\ run' = [run EXCEPT ![w].pc = "settleRejected", ![w].seen.sent = sent]
      BY <1>6 DEF ReportRejected
    <2>2. reports' \subseteq (Ids \cup {0}) \X Reasons
      BY <1>0, <2>1, ReportType DEF Reasons
    <2>3. run' \in [Workers -> Locals]
      <3>1. [run[w].seen EXCEPT !.sent = sent] \in Items BY <1>0 DEF Items
      <3>2. run' = [run EXCEPT ![w] = [run[w] EXCEPT !.pc = "settleRejected",
                      !.seen = [run[w].seen EXCEPT !.sent = sent]]]
        BY <1>0, <2>1 DEF Locals
      <3>3. QED BY <1>0, <3>1, <3>2 DEF Locals, Pcs
    <2>4. faults' \in Nat BY <2>1, SpendType, CostType
    <2>5. QED BY <1>6, <2>2, <2>3, <2>4 DEF ReportRejected, TypeOK, service, deployment
  <1>7. CASE SettleRejected(w)
    <2>1. /\ [run[w].seen EXCEPT !.state = "blocked", !.fp = fingerprint] \in Items
          /\ [run[w].seen EXCEPT !.sent = FALSE, !.releaseAfterFlush = TRUE] \in Items
      BY <1>0 DEF Items, LockStates, TypeOK
    <2>2. item' \in Items
      BY <1>7, <2>1, TransitionType, ReleaseType DEF SettleRejected
    <2>3. QED
      BY <1>7, <2>2, ReturnType DEF SettleRejected, TypeOK, service, sinks, deployment
  <1>8. CASE SettleAmbiguous(w)
    <2>1. [run[w].seen EXCEPT !.state = "indeterminate"] \in Items
      BY <1>0 DEF Items, LockStates
    <2>2. item' \in Items BY <1>8, <2>1, TransitionType DEF SettleAmbiguous
    <2>3. run' \in [Workers -> Locals]
      BY <1>8, GotoType, ReturnType DEF SettleAmbiguous, Pcs
    <2>4. QED BY <1>8, <2>2, <2>3 DEF SettleAmbiguous, TypeOK, service, sinks, deployment
  <1>9. CASE ReportAmbiguous(w)
    <2>1. reports' \subseteq (Ids \cup {0}) \X Reasons
      BY <1>0, <1>9, ReportType DEF ReportAmbiguous, Reasons
    <2>2. faults' \in Nat BY <1>9, SpendType, CostType DEF ReportAmbiguous
    <2>3. QED
      BY <1>9, <2>1, <2>2, ReturnType DEF ReportAmbiguous, TypeOK, service, deployment
  <1>10. QED
    BY <1>1, <1>2, <1>3, <1>4, <1>5, <1>6, <1>7, <1>8, <1>9 DEF AfterCall

\* Steps of the flush and of the handlers of existing states.
LEMMA ExistingStateType ==
  ASSUME TypeOK, NEW w \in Workers, ExistingState(w)
  PROVE  TypeOK'
  <1>0. /\ run[w] \in Locals /\ run[w].age \in Nat /\ run[w].seen \in Items
        /\ run[w].plan \in Entry /\ run \in [Workers -> Locals]
        /\ run[w].seen.owner \in Ids \cup {0}
    BY DEF TypeOK, Locals, Items
  <1>1. CASE FlushArchive(w)
    <2>1. PICK e \in run[w].seen.pending, ok \in BOOLEAN :
            /\ Spend(Cost(ok))
            /\ TryPut(ok, run[w].seen.owner, e.seq, e.event, e.out)
            /\ run' = [run EXCEPT ![w].plan = e,
                 ![w].pc = IF ~ok THEN "keepPending"
                           ELSE IF e.report # "none" THEN "flushReport" ELSE "flushWrite"]
      BY <1>1 DEF FlushArchive
    <2>2. e \in Entry BY <1>0 DEF Items
    <2>3. archive' \subseteq ArchiveObject BY <1>0, <2>1, <2>2, PutType DEF Entry
    <2>4. run' \in [Workers -> Locals] BY <1>0, <2>1, <2>2 DEF Locals, Pcs
    <2>5. faults' \in Nat BY <2>1, SpendType, CostType
    <2>6. QED BY <1>1, <2>3, <2>4, <2>5 DEF FlushArchive, TypeOK, service, deployment
  <1>2. CASE FlushReport(w)
    <2>1. reports' \subseteq (Ids \cup {0}) \X Reasons
      BY <1>0, <1>2, ReportType DEF FlushReport, Entry
    <2>2. run' \in [Workers -> Locals] BY <1>2, GotoType DEF FlushReport, Pcs
    <2>3. faults' \in Nat BY <1>2, SpendType, CostType DEF FlushReport
    <2>4. QED BY <1>2, <2>1, <2>2, <2>3 DEF FlushReport, TypeOK, service, deployment
  <1>3. CASE KeepPending(w)
    <2>1. item' \in Items BY <1>0, <1>3, TransitionType DEF KeepPending
    <2>2. QED
      BY <1>3, <2>1, ReturnType DEF KeepPending, TypeOK, service, sinks, deployment
  <1>4. CASE FlushWrite(w)
    <2> DEFINE it == [run[w].seen EXCEPT !.pending = {}]
    <2>1. it \in Items BY <1>0 DEF Items
    <2>2. run[w].plan.post \notin {"none", "release"} => Advance(it, run[w].plan) \in Items
      BY <1>0, <2>1, AdvanceType
    <2>3. item' \in Items
      <3>1. CASE ReleaseItem(it.owner, it.state) BY <3>1, ReleaseType
      <3>2. CASE Transition(w, it.owner, it.state, it) BY <2>1, <3>2, TransitionType
      <3>3. CASE /\ run[w].plan.post \notin {"none", "release"}
                 /\ Transition(w, it.owner, it.state, Advance(it, run[w].plan))
        BY <2>2, <3>3, TransitionType
      <3>4. QED BY <1>4, <3>1, <3>2, <3>3 DEF FlushWrite
    <2>4. run' \in [Workers -> Locals] BY <1>4, GotoType, ReturnType DEF FlushWrite, Pcs
    <2>5. QED BY <1>4, <2>3, <2>4 DEF FlushWrite, TypeOK, service, sinks, deployment
  <1>5. CASE AfterFlush(w)
    <2> DEFINE it == IF item.state = "none" THEN run[w].seen ELSE Earlier(item, run[w].age)
    <2>1. it \in Items BY <1>0, EarlierType DEF TypeOK
    <2>2. run' = [run EXCEPT ![w].seen = it, ![w].plan = NoPlan,
                   ![w].pc = IF it.releaseAfterFlush THEN "clear" ELSE "handle"]
      BY <1>5 DEF AfterFlush
    <2> HIDE DEF it
    <2>3. run' \in [Workers -> Locals] BY <1>0, <2>1, <2>2, NullTypes DEF Locals, Pcs
    <2>4. QED BY <1>5, <2>3 DEF AfterFlush, TypeOK, service, sinks, deployment
  <1>6. CASE ClearRejected(w)
    BY <1>6, ReleaseType, ReturnType DEF ClearRejected, TypeOK, service, sinks, deployment
  <1>7. CASE Handle(w)
    <2>1. FollowUpOf(run[w].seen) \in Entry BY <1>0, FollowUpOfType
    <2>2. CASE Return(w)
      BY <1>7, <2>2, ReturnType DEF Handle, TypeOK, service, sinks, deployment
    <2>3. CASE run' = [run EXCEPT ![w].plan = FollowUpOf(run[w].seen),
                 ![w].pc = IF FollowUpOf(run[w].seen).event = "none" THEN "report"
                           ELSE "archive"]
      <3>1. run' \in [Workers -> Locals] BY <1>0, <2>1, <2>3 DEF Locals, Pcs
      <3>2. QED BY <1>7, <3>1 DEF Handle, TypeOK, service, sinks, deployment
    <2>4. QED BY <1>7, <2>2, <2>3 DEF Handle
  <1>8. CASE ArchiveFollowUp(w)
    <2>1. archive' \subseteq ArchiveObject
      BY <1>0, <1>8, PutType DEF ArchiveFollowUp, Entry
    <2>2. run' \in [Workers -> Locals] BY <1>8, GotoType DEF ArchiveFollowUp, Pcs
    <2>3. faults' \in Nat BY <1>8, SpendType, CostType DEF ArchiveFollowUp
    <2>4. QED BY <1>8, <2>1, <2>2, <2>3 DEF ArchiveFollowUp, TypeOK, service, deployment
  <1>9. CASE Pend(w)
    <2>1. [run[w].seen EXCEPT !.pending = @ \cup {run[w].plan}] \in Items
      BY <1>0 DEF Items
    <2>2. item' \in Items BY <1>9, <2>1, TransitionType DEF Pend
    <2>3. QED BY <1>9, <2>2, ReturnType DEF Pend, TypeOK, service, sinks, deployment
  <1>10. CASE Report(w)
    <2>1. reports' \subseteq (Ids \cup {0}) \X Reasons
      BY <1>0, <1>10, ReportType DEF Report, Entry
    <2>2. run' \in [Workers -> Locals] BY <1>10, GotoType, ReturnType DEF Report, Pcs
    <2>3. faults' \in Nat BY <1>10, SpendType, CostType DEF Report
    <2>4. QED BY <1>10, <2>1, <2>2, <2>3 DEF Report, TypeOK, service, deployment
  <1>11. CASE Write(w)
    <2> DEFINE it == run[w].seen
               p == run[w].plan
    <2>1. item' \in Items
      <3>1. CASE ReleaseItem(it.owner, it.state) BY <3>1, ReleaseType
      <3>2. CASE p.post # "release"
                 /\ Transition(w, it.owner, it.state, Advance(it, p))
        BY <1>0, <3>2, AdvanceType, TransitionType
      <3>3. QED BY <1>11, <3>1, <3>2 DEF Write
    <2>2. [Idle EXCEPT !.pc = "acquire", !.age = run[w].age] \in Locals
      BY <1>0, NullTypes DEF Locals, Pcs
    <2>3. run' \in [Workers -> Locals] BY <1>0, <1>11, <2>2, ReturnType DEF Write
    <2>4. QED BY <1>11, <2>1, <2>3 DEF Write, TypeOK, service, sinks, deployment
  <1>12. QED
    BY <1>1, <1>2, <1>3, <1>4, <1>5, <1>6, <1>7, <1>8, <1>9, <1>10, <1>11
    DEF ExistingState

\* Steps of the environment.
LEMMA EnvironmentType ==
  ASSUME TypeOK, Environment \/ \E w \in Workers : Crash(w)
  PROVE  TypeOK'
  <1> USE ConstantsAssumption DEF service, sinks, deployment
  <1>1. ASSUME NEW w \in Workers, Crash(w) PROVE TypeOK'
    <2>1. run' \in [Workers -> Locals] BY <1>1, ReturnType DEF Crash
    <2>2. faults' \in Nat BY <1>1, SpendType DEF Crash
    <2>3. QED BY <1>1, <2>1, <2>2 DEF Crash, TypeOK
  <1>2. ASSUME NEW id \in Ids, ActionListed(id) \/ ActionProgress(id) PROVE TypeOK'
    <2>0. request[id] \in RequestRecord /\ request \in [Ids -> RequestRecord]
      BY DEF TypeOK
    <2>1. request' \in [Ids -> RequestRecord]
      <3>1. CASE ActionListed(id) BY <2>0, <3>1 DEF ActionListed, RequestRecord
      <3>2. CASE ActionProgress(id)
        <4>1. PICK ph \in {"optimizing", "terminal"} :
                request' = [request EXCEPT ![id].phase = ph]
          BY <3>2 DEF ActionProgress
        <4>2. [request[id] EXCEPT !.phase = ph] \in RequestRecord
          BY <2>0 DEF RequestRecord
        <4>3. QED BY <2>0, <4>1, <4>2
      <3>3. QED BY <1>2, <3>1, <3>2
    <2>2. QED BY <1>2, <2>1 DEF ActionListed, ActionProgress, TypeOK
  <1>3. CASE ForeignStart \/ ForeignEnd
    BY <1>3 DEF ForeignStart, ForeignEnd, TypeOK
  <1>4. CASE Dispose
    <2>1. item' \in Items BY <1>4 DEF Dispose, TypeOK, Items
    <2>2. QED BY <1>4, <2>1 DEF Dispose, TypeOK
  <1>5. CASE Redeploy BY <1>5 DEF Redeploy, TypeOK
  <1>6. CASE Tick
    <2>1. item' \in Items BY <1>6, LaterType DEF Tick, TypeOK
    <2>2. run' \in [Workers -> Locals] BY <1>6 DEF Tick, TypeOK, Locals
    <2>3. request' \in [Ids -> RequestRecord]
      BY <1>6, MinusType DEF Tick, TypeOK, RequestRecord
    <2>4. foreign' \in [phase : {"none", "in_progress", "terminal"}, cool : Nat]
      BY <1>6, MinusType DEF Tick, TypeOK
    <2>5. QED BY <1>6, <2>1, <2>2, <2>3, <2>4 DEF Tick, TypeOK
  <1>7. QED BY <1>1, <1>2, <1>3, <1>4, <1>5, <1>6 DEF Environment

\* Every step keeps the type invariant.
LEMMA TypeStep ==
  ASSUME TypeOK, LeaseHeld, [Next]_vars
  PROVE  TypeOK'
  <1>1. CASE UNCHANGED vars BY <1>1 DEF vars, TypeOK
  <1>2. CASE Next
    BY <1>2, FreshEvaluationType, AfterCallType, ExistingStateType, EnvironmentType
    DEF Next, Step
  <1>3. QED BY <1>1, <1>2

-----------------------------------------------------------------------------
(* Mutual exclusion is preserved by every step.                            *)

LockInv == Bounded /\ LeaseHeld /\ LeavesOwnersAlone /\ SingleFlight

\* What the steps of one invocation leave alone.
LEMMA OthersUnchanged ==
  ASSUME TypeOK, NEW w \in Workers, Step(w) \/ Crash(w)
  PROVE  \A v \in Workers \ {w} : run'[v] = run[v]
  BY DEF TypeOK, Step, Crash, Invoke, FreshEvaluation, AfterCall, ExistingState,
         Goto, Return, Acquire, DecideNoCall, Conclude, Refuse, Latch, WriteIntent, Recheck,
         Announce, ToCalling, Release, Call, PostCall, SettleSubmitted,
         ReportSubmitted, MarkSent, ReportRejected, SettleRejected,
         SettleAmbiguous, ReportAmbiguous, FlushArchive, FlushReport, KeepPending,
         FlushWrite, AfterFlush, ClearRejected, Handle, ArchiveFollowUp, Pend,
         Report, Write

\* A live owner's lease has not run out.
LEMMA LeaseOutlastsOwner ==
  ASSUME TypeOK, Bounded, LeaseHeld, NEW w \in Workers, Owner(w)
  PROVE  item.lease > 0 /\ run[w].age \in Nat /\ item.lease \in Nat
  <1> USE ConstantsAssumption
  <1>1. item.lease \in Nat /\ run[w].age \in Nat BY DEF TypeOK, Items, Locals
  <1>2. run[w].age <= FunctionTimeout BY DEF Bounded
  <1>3. item.lease + run[w].age >= LeaseTerm BY DEF LeaseHeld
  <1>4. QED BY <1>1, <1>2, <1>3

\* A write changes the item only when it names its owner and state, and leaves
\* the owner of what it writes.
LEMMA TransitionEffect ==
  ASSUME TypeOK, NEW w \in Workers, NEW owner, NEW st, NEW new \in Items,
         Transition(w, owner, st, new)
  PROVE  \/ item' = item
         \/ Holds(owner, st) /\ item'.owner = new.owner
  <1>1. Stored(new).owner = new.owner BY DEF Stored, Items
  <1>2. Stored(new) \in Items BY StoredType
  <1>3. Later(Stored(new), run[w].age).owner = new.owner BY <1>1, <1>2 DEF Later, Items
  <1>4. QED BY <1>3 DEF Transition

\* A release leaves the item as it is or removes it.
LEMMA ReleaseEffect ==
  ASSUME NEW owner, NEW st, ReleaseItem(owner, st)
  PROVE  \/ item' = item
         \/ Holds(owner, st) /\ item'.owner = 0
  BY DEF ReleaseItem, NoItem

\* A step that leaves its invocation outside the owner's part keeps the lock's
\* invariant when it leaves the item of every other live owner alone.
LEMMA FrameLock ==
  ASSUME TypeOK, LockInv, NEW w \in Workers, nextId' = nextId,
         run' \in [Workers -> Locals],
         \A v \in Workers \ {w} : run'[v] = run[v],
         run'[w].pc \notin OwnerPcs,
         run'[w].id < nextId, run'[w].seen.owner < nextId,
         run'[w].age <= FunctionTimeout,
         item'.owner < nextId,
         \A x \in Workers \ {w} : Owner(x) => item' = item,
         \A x \in Workers \ {w} :
           Owner(x) /\ run'[w].pc \in Followers /\ run'[w].seen.owner = run[x].id =>
             /\ run'[w].pc = "handle"
             /\ \/ run'[w].seen.state = "evaluating"
                \/ run'[w].seen.state = "calling" /\ run'[w].seen.lease > 0
  PROVE  LockInv'
  <1>1. Bounded' BY DEF LockInv, Bounded
  <1>2. \A x \in Workers : Owner(x)' => x # w /\ Owner(x) /\ run'[x] = run[x]
    BY DEF Owner
  <1>3. SingleFlight' BY <1>2 DEF LockInv, SingleFlight, Owner
  <1>4. LeaseHeld'
    <2> SUFFICES ASSUME NEW x \in Workers, Owner(x)'
                 PROVE  /\ item'.owner = run'[x].id
                        /\ item'.state = IF run'[x].pc \in AfterAcquire
                                         THEN "evaluating" ELSE "calling"
                        /\ item'.lease + run'[x].age >= LeaseTerm
                        /\ item'.pending = {}
                        /\ item'.releaseAfterFlush = FALSE
      BY DEF LeaseHeld
    <2>1. Owner(x) /\ run'[x] = run[x] /\ item' = item BY <1>2
    <2>2. QED BY <2>1 DEF LockInv, LeaseHeld
  <1>5. LeavesOwnersAlone'
    <2> SUFFICES ASSUME NEW v \in Workers, NEW x \in Workers, Owner(x)',
                        run'[v].pc \in Followers, run'[v].seen.owner = run'[x].id
                 PROVE  /\ run'[v].pc = "handle"
                        /\ \/ run'[v].seen.state = "evaluating"
                           \/ run'[v].seen.state = "calling" /\ run'[v].seen.lease > 0
      BY DEF LeavesOwnersAlone
    <2>1. x # w /\ Owner(x) /\ run'[x] = run[x] BY <1>2
    <2>2. CASE v = w BY <2>1, <2>2
    <2>3. CASE v # w BY <2>1, <2>3 DEF LockInv, LeavesOwnersAlone
    <2>4. QED BY <2>2, <2>3
  <1>6. QED BY <1>1, <1>3, <1>4, <1>5 DEF LockInv

\* A step inside the owner's part keeps it when the item stays the owner's.
LEMMA OwnerLock ==
  ASSUME TypeOK, LockInv, NEW w \in Workers, Owner(w), nextId' = nextId,
         \A v \in Workers \ {w} : run'[v] = run[v],
         run'[w].pc \in OwnerPcs, run'[w].id = run[w].id, run'[w].age = run[w].age,
         run'[w].seen.owner < nextId,
         item'.owner = item.owner, item'.pending = {}, item'.releaseAfterFlush = FALSE,
         item'.lease + run[w].age >= LeaseTerm,
         item'.state = IF run'[w].pc \in AfterAcquire THEN "evaluating" ELSE "calling"
  PROVE  LockInv'
  <1>1. Bounded' BY DEF LockInv, Bounded
  <1>2. \A x \in Workers : Owner(x)' => x = w
    BY DEF Owner, LockInv, SingleFlight
  <1>3. SingleFlight' BY <1>2 DEF SingleFlight, Owner
  <1>4. LeaseHeld' BY <1>2 DEF LockInv, LeaseHeld
  <1>5. LeavesOwnersAlone'
    <2>1. run'[w].pc \notin Followers BY DEF OwnerPcs, Followers
    <2>2. QED BY <1>2, <2>1 DEF LockInv, LeavesOwnersAlone
  <1>6. QED BY <1>1, <1>3, <1>4, <1>5 DEF LockInv

\* The end of an invocation.
LEMMA ReturnLock ==
  ASSUME TypeOK, LockInv, NEW w \in Workers, Return(w), nextId' = nextId,
         item'.owner < nextId,
         \A x \in Workers \ {w} : Owner(x) => item' = item
  PROVE  LockInv'
  <1> USE ConstantsAssumption
  <1>1. run'[w] = Idle /\ \A v \in Workers \ {w} : run'[v] = run[v]
    BY DEF Return, TypeOK
  <1>2. 0 < nextId
    BY DEF LockInv, Bounded, TypeOK, Items, Ids
  <1>3. /\ run'[w].pc = "idle" /\ run'[w].id = 0 /\ run'[w].age = 0
        /\ run'[w].seen.owner = 0
    BY <1>1 DEF Idle, NoItem
  <1>4. run'[w].pc \notin OwnerPcs /\ run'[w].pc \notin Followers
    BY <1>3 DEF OwnerPcs, Followers
  <1>5. 0 <= FunctionTimeout OBVIOUS
  <1>6. run' \in [Workers -> Locals] BY ReturnType
  <1>7. QED BY <1>1, <1>2, <1>3, <1>4, <1>5, <1>6, FrameLock

\* A step from one label of the owner's part to the next, the item untouched.
LEMMA OwnerGotoLock ==
  ASSUME TypeOK, LockInv, NEW w \in Workers, Owner(w), NEW l \in OwnerPcs, Goto(w, l),
         UNCHANGED <<item, nextId>>,
         l \in AfterAcquire <=> run[w].pc \in AfterAcquire
  PROVE  LockInv'
  <1>1. /\ \A v \in Workers \ {w} : run'[v] = run[v]
        /\ run'[w].pc = l /\ run'[w].id = run[w].id /\ run'[w].age = run[w].age
        /\ run'[w].seen = run[w].seen
    BY DEF Goto, TypeOK, Locals
  <1>2. run[w].seen.owner < nextId BY DEF LockInv, Bounded
  <1>3. /\ item.pending = {} /\ item.releaseAfterFlush = FALSE
        /\ item.lease + run[w].age >= LeaseTerm
        /\ item.state = IF run[w].pc \in AfterAcquire THEN "evaluating" ELSE "calling"
    BY DEF LockInv, LeaseHeld
  <1>4. QED BY <1>1, <1>2, <1>3, OwnerLock

\* While one owner lives there is no other, so its own write disturbs nobody.
LEMMA OnlyOwner ==
  ASSUME LockInv, NEW w \in Workers, Owner(w)
  PROVE  \A x \in Workers \ {w} : ~Owner(x)
  BY DEF LockInv, SingleFlight, Owner

\* The branches of the fresh evaluation that end without a call.
LEMMA NoCallLock ==
  ASSUME TypeOK, LockInv, NEW w \in Workers,
         Latch(w) \/ Release(w) \/ DecideNoCall(w) \/ Refuse(w)
  PROVE  LockInv'
  <1>0. /\ run[w].seen \in Items /\ item.owner < nextId
        /\ run[w].seen.owner < nextId /\ run[w].id < nextId /\ 0 < nextId
        /\ run \in [Workers -> Locals] /\ run[w] \in Locals
    BY DEF TypeOK, Locals, Items, LockInv, Bounded, Ids
  <1>1. CASE Latch(w)
    <2>1. Owner(w) BY <1>1 DEF Latch, Owner, OwnerPcs
    <2>2. item' = item \/ item'.owner = run[w].seen.owner
      BY <1>0, <1>1, TransitionEffect DEF Latch
    <2>3. QED BY <1>0, <1>1, <2>1, <2>2, OnlyOwner, ReturnLock DEF Latch, deployment
  <1>2. CASE Release(w)
    <2>1. Owner(w) BY <1>2 DEF Release, Owner, OwnerPcs
    <2>2. item' = item \/ item'.owner = 0 BY <1>2, ReleaseEffect DEF Release
    <2>3. QED BY <1>0, <1>2, <2>1, <2>2, OnlyOwner, ReturnLock DEF Release, deployment
  <1>3. CASE DecideNoCall(w)
    <2>1. Owner(w) /\ run[w].pc \in AfterAcquire
      BY <1>3 DEF DecideNoCall, Conclude, Owner, OwnerPcs, AfterAcquire
    <2>2. CASE Goto(w, "release")
      BY <1>3, <2>1, <2>2, OwnerGotoLock DEF DecideNoCall, Conclude, OwnerPcs, AfterAcquire, deployment
    <2>3. CASE Return(w)
      BY <1>0, <1>3, <2>3, ReturnLock DEF DecideNoCall, Conclude, deployment
    <2>4. QED BY <1>3, <2>2, <2>3 DEF DecideNoCall, Conclude
  <1>4. CASE Refuse(w)
    <2>1. Owner(w) /\ run[w].pc \in AfterAcquire
      BY <1>4 DEF Refuse, Owner, OwnerPcs, AfterAcquire
    <2>2. PICK sent \in BOOLEAN :
            run' = [run EXCEPT ![w].pc = "latch",
              ![w].seen = [NoItem EXCEPT !.state = "blocked", !.owner = run[w].id,
                             !.seq = 1, !.sent = sent, !.fp = fingerprint]]
      BY <1>4 DEF Refuse
    <2>3. /\ \A v \in Workers \ {w} : run'[v] = run[v]
          /\ run'[w].pc = "latch" /\ run'[w].id = run[w].id
          /\ run'[w].age = run[w].age /\ run'[w].seen.owner = run[w].id
      BY <1>0, <2>2 DEF Locals, NoItem
    <2>4. item' = item /\ nextId' = nextId BY <1>4 DEF Refuse, deployment
    <2>5. /\ item.pending = {} /\ item.releaseAfterFlush = FALSE
          /\ item.lease + run[w].age >= LeaseTerm /\ item.state = "evaluating"
      BY <2>1 DEF LockInv, LeaseHeld
    <2>6. QED
      BY <1>0, <2>1, <2>3, <2>4, <2>5, OwnerLock DEF OwnerPcs, AfterAcquire
  <1>5. QED BY <1>1, <1>2, <1>3, <1>4

\* The branches that lead to the call.
LEMMA CallPathLock ==
  ASSUME TypeOK, LockInv, NEW w \in Workers,
         WriteIntent(w) \/ Recheck(w) \/ Announce(w) \/ ToCalling(w) \/ Call(w)
  PROVE  LockInv'
  <1> USE ConstantsAssumption
  <1>0. /\ item.owner < nextId /\ run[w].seen.owner < nextId /\ run[w].id < nextId
        /\ run \in [Workers -> Locals] /\ run[w] \in Locals
    BY DEF TypeOK, LockInv, Bounded
  <1>1. Owner(w)
    BY DEF WriteIntent, Recheck, Announce, ToCalling, Call, Owner, OwnerPcs
  <1>2. CASE WriteIntent(w) \/ Recheck(w) \/ Announce(w)
    <2>1. /\ run[w].pc \in AfterAcquire /\ item' = item /\ nextId' = nextId
          /\ \/ Return(w)
             \/ \E l \in AfterAcquire : Goto(w, l)
      BY <1>2 DEF WriteIntent, Recheck, Announce, AfterAcquire, deployment
    <2>2. CASE Return(w) BY <1>0, <2>1, <2>2, ReturnLock
    <2>3. ASSUME NEW l \in AfterAcquire, Goto(w, l) PROVE LockInv'
      <3>1. l \in OwnerPcs BY DEF AfterAcquire, OwnerPcs
      <3>2. QED BY <1>1, <2>1, <2>3, <3>1, OwnerGotoLock
    <2>4. QED BY <2>1, <2>2, <2>3
  <1>3. CASE ToCalling(w)
    <2> DEFINE new == [NoItem EXCEPT !.state = "calling", !.owner = run[w].id, !.seq = 1,
                         !.lease = LeaseTerm, !.window = ReconcileTerm, !.sent = FALSE]
    <2>1. Holds(run[w].id, "evaluating")
      BY <1>1, <1>3 DEF ToCalling, LockInv, LeaseHeld, Holds, AfterAcquire
    <2>2. item' = Later(Stored(new), run[w].age) /\ Goto(w, "call") /\ nextId' = nextId
      BY <1>3, <2>1 DEF ToCalling, Transition, deployment
    <2>3. Stored(new) = new BY DEF Stored, NoItem
    <2>4. /\ item'.owner = run[w].id /\ item'.state = "calling" /\ item'.pending = {}
          /\ item'.releaseAfterFlush = FALSE
          /\ item'.lease = Minus(LeaseTerm, run[w].age)
      BY <2>2, <2>3 DEF Later, NoItem
    <2>5. item'.lease + run[w].age >= LeaseTerm
      <3>1. run[w].age \in Nat /\ LeaseTerm \in Nat BY <1>0 DEF Locals
      <3>2. QED BY <2>4, <3>1 DEF Minus
    <2>6. /\ \A v \in Workers \ {w} : run'[v] = run[v]
          /\ run'[w].pc = "call" /\ run'[w].id = run[w].id
          /\ run'[w].age = run[w].age /\ run'[w].seen = run[w].seen
      BY <1>0, <2>2 DEF Goto, Locals
    <2>7. item.owner = run[w].id BY <2>1 DEF Holds
    <2> HIDE DEF new
    <2>8. QED
      BY <1>0, <1>1, <2>2, <2>4, <2>5, <2>6, <2>7, OwnerLock DEF OwnerPcs, AfterAcquire
  <1>4. CASE Call(w)
    <2>1. PICK res \in Results \ {"none"} :
            run' = [run EXCEPT ![w].pc = "postCall", ![w].result = res]
      BY <1>4 DEF Call
    <2>2. /\ \A v \in Workers \ {w} : run'[v] = run[v]
          /\ run'[w].pc = "postCall" /\ run'[w].id = run[w].id
          /\ run'[w].age = run[w].age /\ run'[w].seen = run[w].seen
      BY <1>0, <2>1 DEF Locals
    <2>3. /\ item' = item /\ nextId' = nextId /\ item.pending = {}
          /\ item.releaseAfterFlush = FALSE /\ item.state = "calling"
          /\ item.lease + run[w].age >= LeaseTerm
      BY <1>1, <1>4 DEF Call, LockInv, LeaseHeld, AfterAcquire, deployment
    <2>4. QED BY <1>0, <1>1, <2>2, <2>3, OwnerLock DEF OwnerPcs, AfterAcquire
  <1>5. QED BY <1>2, <1>3, <1>4

\* Every ID an invocation holds is a number below the next one.
LEMMA UsedIds ==
  ASSUME TypeOK, Bounded, NEW v \in Workers
  PROVE  /\ run[v].id \in Nat /\ run[v].id < nextId
         /\ run[v].seen.owner \in Nat /\ run[v].seen.owner < nextId
         /\ run[v].age <= FunctionTimeout
  <1> USE ConstantsAssumption
  <1>1. run[v] \in Locals BY DEF TypeOK
  <1>2. run[v].id \in Ids \cup {0} /\ run[v].seen \in Items BY <1>1 DEF Locals
  <1>3. run[v].seen.owner \in Ids \cup {0} BY <1>2 DEF Items
  <1>4. Ids \cup {0} \subseteq Nat BY DEF Ids
  <1>5. QED BY <1>2, <1>3, <1>4 DEF Bounded

\* Taking the lock: nobody holds it, or its owner's lease has run out, so no
\* owner lives; the new ID is one that no copy of the item names.
LEMMA AcquireLock ==
  ASSUME TypeOK, LockInv, NEW w \in Workers, Acquire(w)
  PROVE  LockInv'
  <1> USE ConstantsAssumption
  <1>0. /\ item.owner < nextId /\ run[w].seen.owner < nextId
        /\ run \in [Workers -> Locals] /\ run[w] \in Locals
        /\ run[w].age \in Nat /\ nextId \in Nat
    BY DEF TypeOK, LockInv, Bounded, Locals
  <1>1. CASE Return(w) /\ UNCHANGED <<item, nextId>>
    BY <1>0, <1>1, ReturnLock
  <1>2. CASE /\ \/ item.state = "none"
                \/ item.state = "evaluating" /\ item.lease = 0 /\ item.pending = {}
             /\ item' = Later([NoItem EXCEPT !.state = "evaluating", !.owner = nextId,
                                             !.lease = LeaseTerm], run[w].age)
             /\ run' = [run EXCEPT ![w].pc = "evaluate", ![w].id = nextId]
             /\ nextId' = nextId + 1
    <2>1. \A x \in Workers : ~Owner(x)
      <3> SUFFICES ASSUME NEW x \in Workers, Owner(x) PROVE FALSE OBVIOUS
      <3>1. item.lease > 0 /\ item.lease \in Nat
        BY LeaseOutlastsOwner DEF LockInv
      <3>2. item.state \in {"evaluating", "calling"} BY DEF LockInv, LeaseHeld
      <3>3. QED BY <1>2, <3>1, <3>2
    <2>2. /\ \A v \in Workers \ {w} : run'[v] = run[v]
          /\ run'[w].pc = "evaluate" /\ run'[w].id = nextId
          /\ run'[w].age = run[w].age /\ run'[w].seen = run[w].seen
      BY <1>0, <1>2 DEF Locals
    <2>3. /\ item'.owner = nextId /\ item'.state = "evaluating" /\ item'.pending = {}
          /\ item'.releaseAfterFlush = FALSE
          /\ item'.lease = Minus(LeaseTerm, run[w].age)
      BY <1>2 DEF Later, NoItem
    <2>4. item'.lease + run[w].age >= LeaseTerm BY <1>0, <2>3 DEF Minus
    <2>5. \A x \in Workers : Owner(x)' => x = w BY <2>1, <2>2 DEF Owner
    <2>6. Bounded'
      <3>1. \A v \in Workers : /\ run[v].id \in Nat /\ run[v].seen.owner \in Nat
                               /\ run[v].id < nextId /\ run[v].seen.owner < nextId
                               /\ run[v].age <= FunctionTimeout
        BY UsedIds DEF LockInv
      <3>2. QED BY <1>0, <1>2, <2>2, <2>3, <3>1 DEF Bounded
    <2>7. SingleFlight' BY <2>5 DEF SingleFlight, Owner
    <2>8. LeaseHeld' BY <2>2, <2>3, <2>4, <2>5 DEF LeaseHeld, AfterAcquire
    <2>9. LeavesOwnersAlone'
      <3>1. \A v \in Workers : run[v].seen.owner \in Nat /\ run[v].seen.owner < nextId
        BY UsedIds DEF LockInv
      <3>2. \A v \in Workers : run'[v].seen.owner # nextId BY <1>0, <2>2, <3>1
      <3>3. QED BY <2>2, <2>5, <3>2 DEF LeavesOwnersAlone
    <2>10. QED BY <2>6, <2>7, <2>8, <2>9 DEF LockInv
  <1>3. QED BY <1>1, <1>2 DEF Acquire

\* A step to a label that is neither the owner's nor a follower's.
LEMMA HandOverLock ==
  ASSUME TypeOK, LockInv, NEW w \in Workers, NEW l \in {"reportSubmitted", "markSent", "reportAmbiguous"},
         Goto(w, l), nextId' = nextId, item'.owner < nextId,
         \A x \in Workers \ {w} : Owner(x) => item' = item
  PROVE  LockInv'
  <1>1. /\ \A v \in Workers \ {w} : run'[v] = run[v]
        /\ run'[w].pc = l /\ run'[w].id = run[w].id /\ run'[w].age = run[w].age
        /\ run'[w].seen = run[w].seen
    BY DEF Goto, TypeOK, Locals
  <1>2. /\ run[w].seen.owner < nextId /\ run[w].id < nextId
        /\ run[w].age <= FunctionTimeout
    BY DEF LockInv, Bounded
  <1>3. l \notin OwnerPcs /\ l \notin Followers BY DEF OwnerPcs, Followers
  <1>4. run' \in [Workers -> Locals] BY GotoType DEF Pcs
  <1>5. QED BY <1>1, <1>2, <1>3, <1>4, FrameLock

\* From the response to the write that hands the item over.
LEMMA AfterCallLock ==
  ASSUME TypeOK, LockInv, NEW w \in Workers, AfterCall(w)
  PROVE  LockInv'
  <1>0. /\ item.owner < nextId /\ run[w].seen.owner < nextId /\ run[w].id < nextId
        /\ run \in [Workers -> Locals] /\ run[w] \in Locals /\ 0 < nextId
        /\ item \in Items /\ run[w].seen \in Items /\ run[w].age \in Nat
    BY DEF TypeOK, LockInv, Bounded, Locals, Items, Ids
  <1>1. CASE Call(w) BY <1>1, CallPathLock
  <1>2. CASE PostCall(w) \/ ReportRejected(w)
    <2>1. Owner(w) /\ run[w].pc \notin AfterAcquire
      BY <1>2 DEF PostCall, ReportRejected, Owner, OwnerPcs, AfterAcquire
    <2>2. /\ item' = item /\ nextId' = nextId /\ item.pending = {}
          /\ item.releaseAfterFlush = FALSE /\ item.state = "calling"
          /\ item.lease + run[w].age >= LeaseTerm
      BY <1>2, <2>1 DEF PostCall, ReportRejected, LockInv, LeaseHeld, deployment
    <2>3. /\ \A v \in Workers \ {w} : run'[v] = run[v]
          /\ run'[w].pc \in {"settle", "settleRejected"} /\ run'[w].id = run[w].id
          /\ run'[w].age = run[w].age
          /\ run'[w].seen.owner \in {item.owner, run[w].seen.owner}
      <3>1. CASE PostCall(w)
        <4> DEFINE carried == Earlier(item, run[w].age)
        <4>1. carried.owner = item.owner /\ carried \in Items
          BY <1>0, EarlierType DEF Earlier, Items
        <4>2. PICK s, p : run' = [run EXCEPT ![w].pc = "settle",
                ![w].seen = [carried EXCEPT !.seq = s, !.lease = LeaseTerm, !.pending = p]]
          BY <3>1 DEF PostCall
        <4> HIDE DEF carried
        <4>3. [carried EXCEPT !.seq = s, !.lease = LeaseTerm, !.pending = p].owner = item.owner
          BY <4>1 DEF Items
        <4>4. QED BY <1>0, <4>2, <4>3 DEF Locals
      <3>2. CASE ReportRejected(w)
        <4>1. PICK sent \in BOOLEAN :
                run' = [run EXCEPT ![w].pc = "settleRejected", ![w].seen.sent = sent]
          BY <3>2 DEF ReportRejected
        <4>2. run' = [run EXCEPT ![w] = [run[w] EXCEPT !.pc = "settleRejected",
                        !.seen = [run[w].seen EXCEPT !.sent = sent]]]
          BY <1>0, <4>1 DEF Locals
        <4>3. [run[w].seen EXCEPT !.sent = sent].owner = run[w].seen.owner
          BY <1>0 DEF Items
        <4>4. QED BY <1>0, <4>2, <4>3 DEF Locals
      <3>3. QED BY <1>2, <3>1, <3>2
    <2>4. QED BY <1>0, <2>1, <2>2, <2>3, OwnerLock DEF OwnerPcs, AfterAcquire
  <1>3. CASE SettleSubmitted(w) \/ SettleAmbiguous(w) \/ SettleRejected(w)
    <2>1. Owner(w)
      BY <1>3 DEF SettleSubmitted, SettleAmbiguous, SettleRejected, Owner, OwnerPcs
    <2>2. \A x \in Workers \ {w} : ~Owner(x) BY <2>1, OnlyOwner
    <2>3. nextId' = nextId
      BY <1>3 DEF SettleSubmitted, SettleAmbiguous, SettleRejected, deployment
    <2>4. item' = item \/ item'.owner = run[w].seen.owner \/ item'.owner = 0
      <3> DEFINE sub == [run[w].seen EXCEPT !.state = "submitted", !.sent = FALSE]
                 ind == [run[w].seen EXCEPT !.state = "indeterminate"]
                 blk == [run[w].seen EXCEPT !.state = "blocked", !.fp = fingerprint]
                 rel == [run[w].seen EXCEPT !.sent = FALSE, !.releaseAfterFlush = TRUE]
      <3>1. sub \in Items /\ ind \in Items /\ blk \in Items /\ rel \in Items
        BY <1>0 DEF Items, LockStates, TypeOK
      <3>2. /\ sub.owner = run[w].seen.owner /\ ind.owner = run[w].seen.owner
            /\ blk.owner = run[w].seen.owner /\ rel.owner = run[w].seen.owner
        BY <1>0 DEF Items
      <3>3. \/ \E new \in {sub, ind, blk, rel} : Transition(w, run[w].id, "calling", new)
            \/ ReleaseItem(run[w].id, "calling")
        BY <1>3 DEF SettleSubmitted, SettleAmbiguous, SettleRejected
      <3> HIDE DEF sub, ind, blk, rel
      <3>4. CASE ReleaseItem(run[w].id, "calling") BY <3>4, ReleaseEffect
      <3>5. ASSUME NEW new \in Items, new.owner = run[w].seen.owner,
                   Transition(w, run[w].id, "calling", new)
            PROVE  item' = item \/ item'.owner = run[w].seen.owner
        BY <3>5, TransitionEffect
      <3>6. QED BY <3>1, <3>2, <3>3, <3>4, <3>5
    <2>5. item'.owner < nextId BY <1>0, <2>4
    <2>6. Return(w) \/ Goto(w, "reportSubmitted") \/ Goto(w, "reportAmbiguous")
      BY <1>3 DEF SettleSubmitted, SettleAmbiguous, SettleRejected
    <2>7. QED BY <2>2, <2>3, <2>5, <2>6, ReturnLock, HandOverLock
  <1>4. CASE ReportSubmitted(w) \/ ReportAmbiguous(w)
    <2>1. item' = item /\ nextId' = nextId /\ (Return(w) \/ Goto(w, "markSent"))
      BY <1>4 DEF ReportSubmitted, ReportAmbiguous, deployment
    <2>2. QED BY <1>0, <2>1, ReturnLock, HandOverLock
  <1>5. CASE MarkSent(w)
    <2> DEFINE new == [run[w].seen EXCEPT !.state = "submitted", !.sent = TRUE]
    <2>1. new \in Items /\ new.owner = run[w].seen.owner BY <1>0 DEF Items, LockStates
    <2>2. \/ item' = item
          \/ item.state = "submitted" /\ item'.owner = run[w].seen.owner
      <3>1. Transition(w, run[w].id, "submitted", new) BY <1>5 DEF MarkSent
      <3>2. ASSUME NEW n \in Items, n.owner = run[w].seen.owner,
                   Transition(w, run[w].id, "submitted", n)
            PROVE  \/ item' = item
                   \/ Holds(run[w].id, "submitted") /\ item'.owner = run[w].seen.owner
        BY <3>2, TransitionEffect
      <3> HIDE DEF new
      <3>3. \/ item' = item
            \/ Holds(run[w].id, "submitted") /\ item'.owner = run[w].seen.owner
        BY <2>1, <3>1, <3>2
      <3>4. QED BY <3>3 DEF Holds
    <2>3. \A x \in Workers : Owner(x) => item.state \in {"evaluating", "calling"}
      BY DEF LockInv, LeaseHeld
    <2>4. QED BY <1>0, <1>5, <2>2, <2>3, ReturnLock DEF MarkSent, deployment
  <1>6. QED BY <1>1, <1>2, <1>3, <1>4, <1>5 DEF AfterCall

\* A follower's copy names a live owner only at "handle".
LEMMA FollowerWrites ==
  ASSUME TypeOK, LockInv, NEW w \in Workers, run[w].pc \in Followers \ {"handle"}
  PROVE  \A x \in Workers \ {w} : Owner(x) => run[w].seen.owner # item.owner
  BY DEF LockInv, LeavesOwnersAlone, LeaseHeld

\* A follower's step to another of its labels, with the same copy.
LEMMA FollowerGotoLock ==
  ASSUME TypeOK, LockInv, NEW w \in Workers, run[w].pc \in Followers \ {"handle"},
         run' \in [Workers -> Locals], \A v \in Workers \ {w} : run'[v] = run[v],
         run'[w].pc \in Followers, run'[w].id = run[w].id, run'[w].age = run[w].age,
         run'[w].seen = run[w].seen,
         nextId' = nextId, item'.owner < nextId,
         \A x \in Workers \ {w} : Owner(x) => item' = item
  PROVE  LockInv'
  <1>1. /\ run[w].seen.owner < nextId /\ run[w].id < nextId
        /\ run[w].age <= FunctionTimeout
    BY DEF LockInv, Bounded
  <1>2. run'[w].pc \notin OwnerPcs BY DEF Followers, OwnerPcs
  <1>3. \A x \in Workers \ {w} : Owner(x) => run'[w].seen.owner # run[x].id
    BY DEF LockInv, LeavesOwnersAlone
  <1>4. QED BY <1>1, <1>2, <1>3, FrameLock

\* The writes of a follower never touch a live owner's item.
LEMMA FollowerWriteEffect ==
  ASSUME TypeOK, LockInv, NEW w \in Workers, run[w].pc \in Followers \ {"handle"},
         NEW new \in Items, new.owner = run[w].seen.owner,
         \/ ReleaseItem(run[w].seen.owner, run[w].seen.state)
         \/ Transition(w, run[w].seen.owner, run[w].seen.state, new)
  PROVE  /\ item'.owner < nextId
         /\ \A x \in Workers \ {w} : Owner(x) => item' = item
  <1>1. /\ item.owner < nextId /\ run[w].seen.owner < nextId /\ 0 < nextId
    BY DEF LockInv, Bounded, TypeOK, Items, Ids
  <1>2. \A x \in Workers \ {w} : Owner(x) => run[w].seen.owner # item.owner
    BY FollowerWrites
  <1>3. \/ item' = item
        \/ /\ Holds(run[w].seen.owner, run[w].seen.state)
           /\ item'.owner = 0 \/ item'.owner = run[w].seen.owner
    BY TransitionEffect, ReleaseEffect
  <1>4. QED BY <1>1, <1>2, <1>3 DEF Holds

\* The write of a follow-up keeps the item's owner.
LEMMA AdvanceOwner ==
  ASSUME NEW it \in Items, NEW p
  PROVE  Advance(it, p).owner = it.owner
  BY DEF Advance, Items

\* A valid lease keeps the handler from acting on the item.
LEMMA LeaseValidNoPlan ==
  ASSUME NEW it \in Items,
         \/ it.state = "evaluating"
         \/ it.state = "calling" /\ it.lease > 0
  PROVE  FollowUpOf(it) = NoPlan
  BY DEF FollowUpOf, OnCalling, Items

\* An invocation starts as a follower or before its conditional put.
LEMMA InvokeLock ==
  ASSUME TypeOK, LockInv, NEW w \in Workers, Invoke(w)
  PROVE  LockInv'
  <1>0. /\ run \in [Workers -> Locals] /\ run[w] \in Locals /\ item \in Items
        /\ item.owner < nextId /\ run[w].id < nextId /\ 0 < nextId
        /\ run[w].age <= FunctionTimeout /\ item' = item /\ nextId' = nextId
    BY DEF Invoke, TypeOK, LockInv, Bounded, Items, Ids, deployment
  <1>1. run' \in [Workers -> Locals]
    BY FreshEvaluationType DEF TypeOK
  <1>2. /\ \A v \in Workers \ {w} : run'[v] = run[v]
        /\ run'[w].pc = FirstStep(item) /\ run'[w].id = run[w].id
        /\ run'[w].age = run[w].age
        /\ run'[w].seen = IF FirstStep(item) = "acquire" THEN NoItem ELSE item
    BY <1>0 DEF Invoke, Locals
  <1>3. run'[w].seen.owner < nextId BY <1>0, <1>2 DEF NoItem
  <1>4. FirstStep(item) \in {"acquire", "idle", "flush", "handle"}
    BY DEF FirstStep
  <1>5. run'[w].pc \notin OwnerPcs BY <1>2, <1>4 DEF OwnerPcs
  <1>6. ASSUME NEW x \in Workers \ {w}, Owner(x), run'[w].pc \in Followers
        PROVE  /\ run'[w].pc = "handle"
               /\ \/ run'[w].seen.state = "evaluating"
                  \/ run'[w].seen.state = "calling" /\ run'[w].seen.lease > 0
    <2>1. item.lease > 0 BY <1>6, LeaseOutlastsOwner DEF LockInv
    <2>2. item.pending = {} /\ item.state \in {"evaluating", "calling"}
      BY <1>6 DEF LockInv, LeaseHeld
    <2>3. FirstStep(item) # "acquire" BY <1>2, <1>6 DEF Followers
    <2>4. FirstStep(item) = "handle"
      BY <1>2, <1>6, <2>1, <2>2 DEF FirstStep, Followers
    <2>5. QED BY <1>2, <2>1, <2>2, <2>4
  <1>7. QED BY <1>0, <1>1, <1>2, <1>3, <1>5, <1>6, FrameLock

\* The flush and the handlers of existing states.
LEMMA ExistingStateLock ==
  ASSUME TypeOK, LockInv, NEW w \in Workers, ExistingState(w)
  PROVE  LockInv'
  <1>0. /\ run[w].seen \in Items /\ run[w].plan \in Entry /\ item \in Items
        /\ run \in [Workers -> Locals] /\ run[w] \in Locals /\ run[w].age \in Nat
        /\ item.owner < nextId /\ run[w].seen.owner < nextId /\ run[w].id < nextId
        /\ run[w].age <= FunctionTimeout /\ 0 < nextId
    BY DEF TypeOK, LockInv, Bounded, Locals, Items, Ids
  <1>1. run' \in [Workers -> Locals] BY ExistingStateType DEF TypeOK
  <1>2. \A v \in Workers \ {w} : run'[v] = run[v]
    BY OthersUnchanged DEF Step
  <1>3. CASE FlushArchive(w) \/ FlushReport(w) \/ ArchiveFollowUp(w) \/ Report(w)
    <2>1. item' = item /\ nextId' = nextId /\ run[w].pc \in Followers \ {"handle"}
      BY <1>3 DEF FlushArchive, FlushReport, ArchiveFollowUp, Report, deployment, Followers
    <2>2. \/ Return(w)
          \/ /\ run'[w].pc \in Followers /\ run'[w].id = run[w].id
             /\ run'[w].age = run[w].age /\ run'[w].seen = run[w].seen
      <3>1. CASE FlushArchive(w) BY <1>0, <3>1 DEF FlushArchive, Locals, Followers
      <3>2. CASE FlushReport(w) BY <1>0, <3>2 DEF FlushReport, Goto, Locals, Followers
      <3>3. CASE ArchiveFollowUp(w)
        BY <1>0, <3>3 DEF ArchiveFollowUp, Goto, Locals, Followers
      <3>4. CASE Report(w) BY <1>0, <3>4 DEF Report, Goto, Locals, Followers
      <3>5. QED BY <1>3, <3>1, <3>2, <3>3, <3>4
    <2>3. QED BY <1>0, <1>1, <1>2, <2>1, <2>2, ReturnLock, FollowerGotoLock
  <1>4. CASE KeepPending(w) \/ Pend(w) \/ ClearRejected(w)
    <2> DEFINE pended == [run[w].seen EXCEPT !.pending = @ \cup {run[w].plan}]
    <2>1. /\ pended \in Items /\ pended.owner = run[w].seen.owner
      BY <1>0 DEF Items
    <2>2. \E new \in {run[w].seen, pended} :
            \/ ReleaseItem(run[w].seen.owner, run[w].seen.state)
            \/ Transition(w, run[w].seen.owner, run[w].seen.state, new)
      BY <1>4 DEF KeepPending, Pend, ClearRejected
    <2>3. /\ run[w].pc \in Followers \ {"handle"} /\ Return(w) /\ nextId' = nextId
      BY <1>4 DEF KeepPending, Pend, ClearRejected, Followers, deployment
    <2> HIDE DEF pended
    <2>4. QED BY <1>0, <2>1, <2>2, <2>3, FollowerWriteEffect, ReturnLock
  <1>5. CASE FlushWrite(w)
    <2> DEFINE it == [run[w].seen EXCEPT !.pending = {}]
               adv == Advance(it, run[w].plan)
    <2>1. /\ it \in Items /\ it.owner = run[w].seen.owner
          /\ it.state = run[w].seen.state
      BY <1>0 DEF Items
    <2>2. /\ run[w].plan.post # "release" => adv \in Items
          /\ adv.owner = run[w].seen.owner
      BY <1>0, <2>1, AdvanceType, AdvanceOwner
    <2>3. \/ ReleaseItem(it.owner, it.state)
          \/ Transition(w, it.owner, it.state, it)
          \/ run[w].plan.post # "release" /\ Transition(w, it.owner, it.state, adv)
      BY <1>5 DEF FlushWrite
    <2>4. /\ run[w].pc \in Followers \ {"handle"} /\ nextId' = nextId
          /\ Goto(w, "flushed") \/ Return(w)
      BY <1>5 DEF FlushWrite, Followers, deployment
    <2> HIDE DEF it, adv
    <2>5. /\ item'.owner < nextId
          /\ \A x \in Workers \ {w} : Owner(x) => item' = item
      BY <2>1, <2>2, <2>3, <2>4, FollowerWriteEffect
    <2>6. CASE Goto(w, "flushed")
      <3>1. /\ run'[w].pc = "flushed" /\ run'[w].id = run[w].id
            /\ run'[w].age = run[w].age /\ run'[w].seen = run[w].seen
        BY <1>0, <2>6 DEF Goto, Locals
      <3>2. QED BY <1>1, <1>2, <2>4, <2>5, <3>1, FollowerGotoLock DEF Followers
    <2>7. QED BY <2>4, <2>5, <2>6, ReturnLock
  <1>6. CASE AfterFlush(w)
    <2> DEFINE it == IF item.state = "none" THEN run[w].seen ELSE Earlier(item, run[w].age)
    <2>1. run' = [run EXCEPT ![w].seen = it, ![w].plan = NoPlan,
                   ![w].pc = IF it.releaseAfterFlush THEN "clear" ELSE "handle"]
      BY <1>6 DEF AfterFlush
    <2>2. /\ item' = item /\ nextId' = nextId /\ run[w].pc = "flushed"
      BY <1>6 DEF AfterFlush, deployment
    <2>3. it.owner < nextId BY <1>0 DEF Earlier, Items
    <2>4. ASSUME NEW x \in Workers \ {w}, Owner(x), it.owner = run[x].id
          PROVE  /\ it.releaseAfterFlush = FALSE
                 /\ \/ it.state = "evaluating"
                    \/ it.state = "calling" /\ it.lease > 0
      <3>1. /\ item.lease > 0 /\ item.lease \in Nat
        BY <2>4, LeaseOutlastsOwner DEF LockInv
      <3>2. /\ item.releaseAfterFlush = FALSE /\ item.state \in {"evaluating", "calling"}
        BY <2>4 DEF LockInv, LeaseHeld
      <3>3. it = Earlier(item, run[w].age) BY <3>2
      <3>4. QED BY <1>0, <3>1, <3>2, <3>3 DEF Earlier, Items
    <2> HIDE DEF it
    <2>5. /\ run'[w].pc = IF it.releaseAfterFlush THEN "clear" ELSE "handle"
          /\ run'[w].seen = it /\ run'[w].id = run[w].id /\ run'[w].age = run[w].age
      BY <1>0, <2>1 DEF Locals
    <2>6. run'[w].pc \notin OwnerPcs BY <2>5 DEF OwnerPcs
    <2>7. QED BY <1>0, <1>1, <1>2, <2>2, <2>3, <2>4, <2>5, <2>6, FrameLock
  <1>7. CASE Handle(w)
    <2>1. item' = item /\ nextId' = nextId /\ run[w].pc = "handle"
      BY <1>7 DEF Handle, deployment
    <2>2. CASE Return(w) BY <1>0, <2>1, <2>2, ReturnLock
    <2>3. CASE ~Return(w)
      <3>1. /\ FollowUpOf(run[w].seen) # NoPlan
            /\ run' = [run EXCEPT ![w].plan = FollowUpOf(run[w].seen),
                 ![w].pc = IF FollowUpOf(run[w].seen).event = "none" THEN "report"
                           ELSE "archive"]
        BY <1>7, <2>3 DEF Handle
      <3>2. /\ run'[w].pc \in {"report", "archive"} /\ run'[w].id = run[w].id
            /\ run'[w].age = run[w].age /\ run'[w].seen = run[w].seen
        BY <1>0, <3>1 DEF Locals
      <3>3. \A x \in Workers \ {w} : Owner(x) => run[w].seen.owner # run[x].id
        BY <1>0, <2>1, <3>1, LeaseValidNoPlan DEF LockInv, LeavesOwnersAlone, Followers
      <3>4. run'[w].pc \notin OwnerPcs BY <3>2 DEF OwnerPcs
      <3>5. QED BY <1>0, <1>1, <1>2, <2>1, <3>2, <3>3, <3>4, FrameLock
    <2>4. QED BY <2>2, <2>3
  <1>8. CASE Write(w)
    <2> DEFINE adv == Advance(run[w].seen, run[w].plan)
    <2>1. /\ run[w].plan.post # "release" => adv \in Items
          /\ adv.owner = run[w].seen.owner
      BY <1>0, AdvanceType, AdvanceOwner
    <2>2. \/ ReleaseItem(run[w].seen.owner, run[w].seen.state)
          \/ /\ run[w].plan.post # "release"
             /\ Transition(w, run[w].seen.owner, run[w].seen.state, adv)
      BY <1>8 DEF Write
    <2>3. /\ run[w].pc \in Followers \ {"handle"} /\ nextId' = nextId
      BY <1>8 DEF Write, Followers, deployment
    <2> HIDE DEF adv
    <2>4. /\ item'.owner < nextId
          /\ \A x \in Workers \ {w} : Owner(x) => item' = item
      BY <1>0, <2>1, <2>2, <2>3, FollowerWriteEffect
    <2>5. CASE Return(w) BY <2>3, <2>4, <2>5, ReturnLock
    <2>6. CASE run' = [run EXCEPT ![w] = [Idle EXCEPT !.pc = "acquire", !.age = run[w].age]]
      <3>1. /\ run'[w].pc = "acquire" /\ run'[w].id = 0 /\ run'[w].age = run[w].age
            /\ run'[w].seen.owner = 0
        BY <1>0, <2>6 DEF Idle, NoItem
      <3>2. run'[w].pc \notin OwnerPcs /\ run'[w].pc \notin Followers
        BY <3>1 DEF OwnerPcs, Followers
      <3>3. QED BY <1>0, <1>1, <1>2, <2>3, <2>4, <3>1, <3>2, FrameLock
    <2>7. QED BY <1>8, <2>5, <2>6 DEF Write
  <1>9. QED
    BY <1>3, <1>4, <1>5, <1>6, <1>7, <1>8 DEF ExistingState

\* The environment touches neither who owns the item nor, but for a tick, its
\* lease; a tick takes as much from the lease as it adds to the owner's age.
LEMMA EnvironmentLock ==
  ASSUME TypeOK, LockInv, Environment
  PROVE  LockInv'
  <1> USE ConstantsAssumption
  <1>1. CASE UNCHANGED <<item, run, nextId>>
    BY <1>1 DEF LockInv, Bounded, LeaseHeld, LeavesOwnersAlone, SingleFlight, Owner
  <1>2. CASE Dispose
    <2>1. /\ run' = run /\ nextId' = nextId
          /\ item'.owner = item.owner /\ item'.state = item.state
          /\ item'.lease = item.lease /\ item'.pending = item.pending
          /\ item'.releaseAfterFlush = item.releaseAfterFlush
      BY <1>2 DEF Dispose, deployment, TypeOK, Items
    <2>2. QED
      BY <2>1 DEF LockInv, Bounded, LeaseHeld, LeavesOwnersAlone, SingleFlight, Owner
  <1>3. CASE Tick
    <2>1. /\ item'.owner = item.owner /\ item'.state = item.state
          /\ item'.pending = item.pending /\ item'.lease = Minus(item.lease, 1)
          /\ item'.releaseAfterFlush = item.releaseAfterFlush
          /\ nextId' = nextId /\ item.lease \in Nat
      BY <1>3 DEF Tick, Later, TypeOK, Items, deployment
    <2>2. \A w \in Workers :
            /\ run'[w].pc = run[w].pc /\ run'[w].id = run[w].id
            /\ run'[w].seen = run[w].seen
            /\ run[w].pc = "idle" => run'[w].age = run[w].age
            /\ run[w].pc # "idle" => /\ run'[w].age = run[w].age + 1
                                     /\ run[w].age < FunctionTimeout
            /\ run[w].age \in Nat
      BY <1>3 DEF Tick, TypeOK, Locals
    <2>3. Bounded'
      BY <2>1, <2>2 DEF LockInv, Bounded
    <2>4. SingleFlight' BY <2>2 DEF LockInv, SingleFlight
    <2>5. LeaseHeld'
      <3> SUFFICES ASSUME NEW w \in Workers, Owner(w)'
                   PROVE  /\ item'.owner = run'[w].id
                          /\ item'.state = IF run'[w].pc \in AfterAcquire
                                           THEN "evaluating" ELSE "calling"
                          /\ item'.lease + run'[w].age >= LeaseTerm
                          /\ item'.pending = {}
                          /\ item'.releaseAfterFlush = FALSE
        BY DEF LeaseHeld
      <3>1. Owner(w) /\ run[w].pc # "idle" BY <2>2 DEF Owner, OwnerPcs
      <3>2. item.lease + run[w].age >= LeaseTerm BY <3>1 DEF LockInv, LeaseHeld
      <3>3. item'.lease + run'[w].age >= LeaseTerm
        BY <2>1, <2>2, <3>1, <3>2 DEF Minus
      <3>4. QED BY <2>1, <2>2, <3>1, <3>3 DEF LockInv, LeaseHeld
    <2>6. LeavesOwnersAlone' BY <2>2 DEF LockInv, LeavesOwnersAlone, Owner
    <2>7. QED BY <2>3, <2>4, <2>5, <2>6 DEF LockInv
  <1>4. QED
    BY <1>1, <1>2, <1>3
    DEF Environment, ActionListed, ActionProgress, ForeignStart, ForeignEnd, Redeploy,
        deployment

\* A crash gives the owner's part up.
LEMMA CrashLock ==
  ASSUME TypeOK, LockInv, NEW w \in Workers, Crash(w)
  PROVE  LockInv'
  <1>1. item' = item /\ nextId' = nextId /\ Return(w) BY DEF Crash, deployment
  <1>2. item.owner < nextId BY DEF LockInv, Bounded
  <1>3. QED BY <1>1, <1>2, ReturnLock

\* The inductive step.
LEMMA NextIInv == IInv /\ [Next]_vars => IInv'
  <1> SUFFICES ASSUME IInv, [Next]_vars PROVE IInv' OBVIOUS
  <1>1. TypeOK /\ LockInv BY DEF IInv, LockInv
  <1>2. TypeOK' BY <1>1, TypeStep DEF LockInv
  <1>3. LockInv'
    <2>1. CASE UNCHANGED vars
      BY <1>1, <2>1 DEF vars, LockInv, Bounded, LeaseHeld, LeavesOwnersAlone,
                        SingleFlight, Owner
    <2>2. ASSUME NEW w \in Workers, Step(w) PROVE LockInv'
      <3>1. CASE Invoke(w) BY <1>1, <3>1, InvokeLock
      <3>2. CASE FreshEvaluation(w)
        BY <1>1, <3>2, AcquireLock, NoCallLock, CallPathLock DEF FreshEvaluation
      <3>3. CASE AfterCall(w) BY <1>1, <3>3, AfterCallLock
      <3>4. CASE ExistingState(w) BY <1>1, <3>4, ExistingStateLock
      <3>5. QED BY <2>2, <3>1, <3>2, <3>3, <3>4 DEF Step
    <2>3. ASSUME NEW w \in Workers, Crash(w) PROVE LockInv'
      BY <1>1, <2>3, CrashLock
    <2>4. CASE Environment BY <1>1, <2>4, EnvironmentLock
    <2>5. QED BY <2>1, <2>2, <2>3, <2>4 DEF Next
  <1>4. QED BY <1>2, <1>3 DEF IInv, LockInv

-----------------------------------------------------------------------------
(* The theorems.                                                           *)

\* The inductive invariant holds in every reachable state.
THEOREM Inductive == Spec => []IInv
  <1>1. Init => IInv BY InitIInv
  <1>2. IInv /\ [Next]_vars => IInv' BY NextIInv
  <1>3. QED BY <1>1, <1>2, PTL DEF Spec

\* Every variable keeps its type, for every number of invocations and every
\* bound (the shape of the lock item, lock.py, and of an invocation's locals).
THEOREM TypeCorrect == Spec => []TypeOK
  <1>1. IInv => TypeOK BY DEF IInv
  <1>2. QED BY <1>1, Inductive, PTL

\* The lock is single-flight for every number of concurrent invocations, every
\* function timeout and every lease longer than it, whatever crashes: the
\* conditional writes of lock.py never let two live owners in.
THEOREM LockIsSingleFlight == Spec => []SingleFlight
  <1>1. IInv => SingleFlight BY DEF IInv
  <1>2. QED BY <1>1, Inductive, PTL

\* An owner that lives still owns the item, in the state it left it in: no
\* take-over and no follower's write comes between the conditional put and the
\* owner's own hand-over.
THEOREM OwnerKeepsLock == Spec => []LeaseHeld
  <1>1. IInv => LeaseHeld BY DEF IInv
  <1>2. QED BY <1>1, Inductive, PTL

-----------------------------------------------------------------------------
(* Requests by what the service knows of them.                             *)

\* An invocation that holds the lock and has not called yet.
PreCall == AfterAcquire \cup {"call"}

Unasked == {id \in Ids : request[id].status = "none"}

\* Requests that are not accepted and never will be: the service refused them
\* or no live invocation is left that could make them.
Refused ==
  {id \in Ids :
     /\ id < nextId /\ request[id].status # "accepted"
     /\ request[id].status = "none" =>
          \A w \in Workers : run[w].pc \in PreCall => run[w].id # id}

Finished ==
  {id \in Ids : request[id].status = "accepted" /\ request[id].phase = "terminal"}

-----------------------------------------------------------------------------
(* The invariant: whatever says that a request is over is right.  R and F  *)
(* stand for Refused and Finished, U for Unasked.                          *)

Closes(e) == e.post = "release" \/ e.out \in {"released", "blocked"}

\* A follow-up that closes request id.
EntryFits(id, e, R, F) ==
  Closes(e) => IF e.event = "terminal" THEN id \in F ELSE id \in R

\* The latch, the deferred release, the operator's verdict, the pending events.
ItemFits(it, R, F) ==
  /\ \/ it.state = "blocked" \/ it.releaseAfterFlush = TRUE
     \/ it.disposition = "not_accepted"
     => it.owner \in R
  /\ \A e \in it.pending : EntryFits(it.owner, e, R, F)

Owned(it) == it.state # "none" /\ it.owner \in Ids

Rejections == {"deterministic", "retryable"}
AfterCallPcs == {"postCall", "settle", "settleRejected"}
CarryPcs == {"settle", "settleRejected", "reportSubmitted", "markSent"}

\* The locals r of an invocation.
LocalsFit(r, U, R, F) ==
  /\ r.pc \in PreCall => r.id \in U
  /\ r.pc \in AfterCallPcs => r.id \in Ids /\ (r.result \in Rejections => r.id \in R)
  /\ r.pc = "settleRejected" => r.result \in Rejections
  /\ r.pc = "latch" => Owned(r.seen) /\ r.seen.owner = r.id /\ r.seen.pending = {}
                       /\ r.seen.state = "blocked"
  /\ r.pc \in CarryPcs => r.seen.owner = r.id /\ r.seen.state = "calling"
  /\ r.pc \in CarryPcs \cup Followers => Owned(r.seen) /\ ItemFits(r.seen, R, F)
  /\ r.pc \in Followers => EntryFits(r.seen.owner, r.plan, R, F)
  /\ r.pc = "write" => r.plan.post # "none"
  /\ r.pc = "clear" => r.seen.releaseAfterFlush = TRUE
  /\ r.pc = "idle" => r = Idle

\* Only an accepted request shows at the service, and only a past ID is asked.
RequestShape ==
  \A id \in Ids :
    /\ request[id].status # "accepted" =>
         request[id].phase = "none" /\ request[id].visible = FALSE
    /\ request[id].status # "none" => id < nextId

\* A request the service works on is the one the item tracks.
OpenIsTracked == \A id \in Ids : Open(id) => item.owner = id

ItemInv ==
  /\ Owned(item) \/ (item.state = "none" /\ item.owner = 0)
  /\ item.state = "evaluating" => item.owner \in Unasked
  /\ ItemFits(item, Refused, Finished)

SettledInv ==
  /\ RequestShape
  /\ OpenIsTracked
  /\ ItemInv
  /\ \A w \in Workers : LocalsFit(run[w], Unasked, Refused, Finished)

-----------------------------------------------------------------------------
(* Copies and their verdicts.                                              *)

\* A verdict stays right as more requests end.
LEMMA EntryFitsMore ==
  ASSUME NEW id, NEW e, NEW R, NEW F, NEW R2, NEW F2, R \subseteq R2, F \subseteq F2,
         EntryFits(id, e, R, F)
  PROVE  EntryFits(id, e, R2, F2)
  BY DEF EntryFits

LEMMA ItemFitsMore ==
  ASSUME NEW it, NEW R, NEW F, NEW R2, NEW F2, R \subseteq R2, F \subseteq F2,
         ItemFits(it, R, F)
  PROVE  ItemFits(it, R2, F2)
  BY EntryFitsMore DEF ItemFits

LEMMA LocalsFitMore ==
  ASSUME NEW r, NEW U, NEW R, NEW F, NEW U2, NEW R2, NEW F2, R \subseteq R2, F \subseteq F2,
         LocalsFit(r, U, R, F), r.pc \in PreCall => r.id \in U2
  PROVE  LocalsFit(r, U2, R2, F2)
  BY ItemFitsMore, EntryFitsMore DEF LocalsFit

\* Deadlines have no part in it.
LEMMA LaterFits ==
  ASSUME NEW it \in Items, NEW k \in Nat
  PROVE  /\ Later(Stored(it), k).state = it.state /\ Later(Stored(it), k).owner = it.owner
         /\ Later(Stored(it), k).pending = it.pending
         /\ Later(Stored(it), k).disposition = it.disposition
         /\ Later(Stored(it), k).releaseAfterFlush = it.releaseAfterFlush
         /\ Later(Stored(it), k).sent = it.sent
  <1>1. /\ Stored(it) \in Items /\ Stored(it).state = it.state /\ Stored(it).owner = it.owner
        /\ Stored(it).pending = it.pending /\ Stored(it).disposition = it.disposition
        /\ Stored(it).releaseAfterFlush = it.releaseAfterFlush /\ Stored(it).sent = it.sent
    BY StoredType DEF Stored, Items
  <1> QED  BY <1>1 DEF Later, Items

LEMMA EarlierFits ==
  ASSUME NEW it \in Items, NEW k \in Nat
  PROVE  /\ Earlier(it, k).state = it.state /\ Earlier(it, k).owner = it.owner
         /\ Earlier(it, k).pending = it.pending
         /\ Earlier(it, k).disposition = it.disposition
         /\ Earlier(it, k).releaseAfterFlush = it.releaseAfterFlush
         /\ Earlier(it, k).sent = it.sent
  BY DEF Earlier, Items

LEMMA SameFits ==
  ASSUME NEW a, NEW b, NEW R, NEW F, ItemFits(a, R, F),
         b.state = "blocked" => a.state = "blocked",
         b.owner = a.owner, b.pending \subseteq a.pending, b.disposition = a.disposition,
         b.releaseAfterFlush = a.releaseAfterFlush
  PROVE  ItemFits(b, R, F)
  BY DEF ItemFits

-----------------------------------------------------------------------------
(* What the service decided stays decided.                                 *)

\* Steps that leave the service and the invocations that may call alone.
LEMMA QuietKept ==
  ASSUME UNCHANGED <<request, nextId>>,
         \A v \in Workers : run'[v].pc \in PreCall =>
           run[v].pc \in PreCall /\ run'[v].id = run[v].id
  PROVE  Refused \subseteq Refused' /\ Finished' = Finished /\ Unasked' = Unasked
  BY DEF Refused, Finished, Unasked

\* The item stays, or what is written fits and still tracks an open request.
ItemGoesOn ==
  \/ item' = item
  \/ ItemInv' /\ \A id \in Ids : Open(id) => item'.owner = id

\* A step of an invocation that leaves the service alone keeps the invariant
\* when the item and its own locals fit.
LEMMA FrameSettled ==
  ASSUME TypeOK, SettledInv, NEW w \in Workers, UNCHANGED <<request, nextId>>,
         \A v \in Workers \ {w} : run'[v] = run[v],
         run'[w].pc \in PreCall => run[w].pc \in PreCall /\ run'[w].id = run[w].id,
         ItemGoesOn,
         LocalsFit(run'[w], Unasked', Refused', Finished')
  PROVE  SettledInv'
<1>1. \A v \in Workers : run'[v].pc \in PreCall =>
        run[v].pc \in PreCall /\ run'[v].id = run[v].id
  OBVIOUS
<1>2. Refused \subseteq Refused' /\ Finished' = Finished /\ Unasked' = Unasked
  BY <1>1, QuietKept
<1>3. RequestShape'
  BY DEF SettledInv, RequestShape
<1>4. OpenIsTracked'
  BY DEF SettledInv, OpenIsTracked, Open, ItemGoesOn
<1>5. ItemInv'
  <2>1. CASE item' = item
    <3>1. ItemFits(item, Refused', Finished')
      BY <1>2, ItemFitsMore DEF SettledInv, ItemInv
    <3> QED  BY <1>2, <2>1, <3>1 DEF SettledInv, ItemInv, Owned
  <2> QED  BY <2>1 DEF ItemGoesOn
<1>6. ASSUME NEW v \in Workers \ {w} PROVE LocalsFit(run'[v], Unasked', Refused', Finished')
  <2>1. LocalsFit(run[v], Unasked, Refused, Finished)
    BY DEF SettledInv
  <2>2. run[v].pc \in PreCall => run[v].id \in Unasked'
    BY <1>2, <2>1 DEF LocalsFit
  <2> QED  BY <1>2, <1>6, <2>1, <2>2, LocalsFitMore
<1> QED  BY <1>3, <1>4, <1>5, <1>6 DEF SettledInv

\* A put under the item's own correlation ID goes on with what it tracks.
LEMMA PutGoesOn ==
  ASSUME TypeOK, SettledInv, NEW w \in Workers, NEW owner, NEW st, NEW new \in Items,
         Transition(w, owner, st, new), UNCHANGED <<request, nextId>>,
         Owned(new), new.owner = owner, ItemFits(new, Refused', Finished'),
         new.state = "evaluating" => st = "evaluating"
  PROVE  ItemGoesOn
<1>1. CASE Holds(owner, st)
  <2> DEFINE put == Later(Stored(new), run[w].age)
  <2>1. item' = put /\ run[w].age \in Nat
    BY <1>1 DEF Transition, TypeOK, Locals
  <2>2. /\ put.state = new.state /\ put.owner = new.owner /\ put.pending = new.pending
        /\ put.disposition = new.disposition
        /\ put.releaseAfterFlush = new.releaseAfterFlush
    BY <2>1, LaterFits
  <2> HIDE DEF put
  <2>3. ItemFits(put, Refused', Finished')
    BY <2>2, SameFits
  <2>4. put.state = "evaluating" => put.owner \in Unasked'
    BY <1>1, <2>2 DEF SettledInv, ItemInv, Holds, Unasked
  <2>5. ItemInv'
    BY <2>1, <2>2, <2>3, <2>4 DEF ItemInv, Owned
  <2>6. \A id \in Ids : Open(id) => item'.owner = id
    BY <1>1, <2>1, <2>2 DEF SettledInv, OpenIsTracked, Holds
  <2> QED  BY <2>5, <2>6 DEF ItemGoesOn
<1>2. CASE ~Holds(owner, st)
  BY <1>2 DEF Transition, ItemGoesOn
<1> QED  BY <1>1, <1>2

\* A release of what is not open loses nothing.
LEMMA DropGoesOn ==
  ASSUME TypeOK, SettledInv, NEW owner, NEW st, ReleaseItem(owner, st), ~Open(owner)
  PROVE  ItemGoesOn
<1>1. CASE Holds(owner, st)
  <2>1. item' = NoItem
    BY <1>1 DEF ReleaseItem
  <2>2. ItemInv'
    BY <2>1 DEF ItemInv, NoItem, ItemFits
  <2>3. \A id \in Ids : ~Open(id)
    BY <1>1 DEF SettledInv, OpenIsTracked, Holds
  <2> QED  BY <2>2, <2>3 DEF ItemGoesOn
<1>2. CASE ~Holds(owner, st)
  BY <1>2 DEF ReleaseItem, ItemGoesOn
<1> QED  BY <1>1, <1>2

\* What is over, or was never asked, is not open.
LEMMA OverIsNotOpen ==
  \A id : id \in Refused \cup Finished \cup Unasked => ~Open(id)
  BY DEF Refused, Finished, Unasked, Open, Active

\* The end of an invocation.
LEMMA ReturnSettled ==
  ASSUME TypeOK, SettledInv, NEW w \in Workers, Return(w), UNCHANGED <<request, nextId>>,
         ItemGoesOn
  PROVE  SettledInv'
<1>1. run'[w] = Idle /\ \A v \in Workers \ {w} : run'[v] = run[v]
  BY DEF Return, TypeOK
<1>2. LocalsFit(Idle, Unasked', Refused', Finished') /\ Idle.pc \notin PreCall
  BY DEF LocalsFit, Idle, PreCall, AfterAcquire, AfterCallPcs, CarryPcs, Followers
<1> QED  BY <1>1, <1>2, FrameSettled

\* An invocation that gives its evaluation up leaves a request nobody makes.
LEMMA GivenUp ==
  ASSUME TypeOK, IInv, SettledInv, NEW w \in Workers, run[w].pc \in PreCall,
         UNCHANGED <<request, nextId>>, \A v \in Workers \ {w} : run'[v] = run[v],
         run'[w].pc \notin PreCall
  PROVE  run[w].id \in Refused'
<1>1. run[w].id \in Unasked
  BY DEF SettledInv, LocalsFit
<1>2. run[w].id < nextId
  BY DEF IInv, Bounded
<1>3. \A v \in Workers : run'[v].pc \notin PreCall
  <2>1. PreCall \subseteq OwnerPcs
    BY DEF PreCall, AfterAcquire, OwnerPcs
  <2> QED  BY <2>1 DEF IInv, SingleFlight
<1> QED  BY <1>1, <1>2, <1>3 DEF Refused, Unasked

-----------------------------------------------------------------------------
(* The steps of an invocation.                                             *)

\* What the types say of one invocation's locals.
LEMMA OwnLocals ==
  ASSUME TypeOK, NEW w \in Workers
  PROVE  /\ run \in [Workers -> Locals] /\ run[w] \in Locals /\ item \in Items
         /\ run[w].seen \in Items /\ run[w].plan \in Entry /\ run[w].age \in Nat
         /\ run[w].id \in Ids \cup {0} /\ run[w].result \in Results
  BY DEF TypeOK, Locals

\* A step to another label with the same locals.
LEMMA GotoSettled ==
  ASSUME TypeOK, SettledInv, NEW w \in Workers, NEW l, Goto(w, l),
         UNCHANGED <<request, nextId>>, ItemGoesOn,
         l \in PreCall => run[w].pc \in PreCall,
         LocalsFit([run[w] EXCEPT !.pc = l], Unasked', Refused', Finished')
  PROVE  SettledInv'
<1>1. /\ run'[w] = [run[w] EXCEPT !.pc = l]
      /\ \A v \in Workers \ {w} : run'[v] = run[v]
  BY DEF Goto, TypeOK
<1>2. run'[w].pc = l /\ run'[w].id = run[w].id
  BY <1>1, OwnLocals DEF Locals
<1> QED  BY <1>1, <1>2, FrameSettled

\* A new invocation reads the item, or starts afresh.
LEMMA InvokeSettled ==
  ASSUME TypeOK, SettledInv, NEW w \in Workers, Invoke(w)
  PROVE  SettledInv'
<1>1. /\ item' = item /\ UNCHANGED <<request, nextId>>
      /\ FirstStep(item) \in {"acquire", "flush", "handle"}
  BY DEF Invoke, service, deployment, FirstStep
<1>2. /\ \A v \in Workers \ {w} : run'[v] = run[v]
      /\ run'[w].pc = FirstStep(item) /\ run'[w].plan = run[w].plan
      /\ run'[w].seen = IF FirstStep(item) = "acquire" THEN NoItem ELSE item
  BY OwnLocals DEF Invoke, Locals
<1>3. run[w].plan = NoPlan
  BY DEF SettledInv, LocalsFit, Invoke, Idle
<1>4. Refused' = Refused /\ Finished' = Finished /\ Unasked' = Unasked
  <2>1. \A v \in Workers : run'[v].pc \in PreCall <=> run[v].pc \in PreCall
    BY <1>1, <1>2 DEF PreCall, AfterAcquire, Invoke
  <2>2. \A v \in Workers : run'[v].id = run[v].id
    BY <1>2, OwnLocals DEF Invoke, Locals
  <2> QED  BY <1>1, <2>1, <2>2 DEF Refused, Finished, Unasked
<1>5. FirstStep(item) # "acquire" => Owned(item)
  BY DEF SettledInv, ItemInv, FirstStep
<1>6. LocalsFit(run'[w], Unasked, Refused, Finished)
  <2>1. EntryFits(run'[w].seen.owner, NoPlan, Refused, Finished)
    BY DEF EntryFits, Closes, NoPlan, FollowUp
  <2> QED  BY <1>1, <1>2, <1>3, <1>5, <2>1
           DEF LocalsFit, SettledInv, ItemInv, PreCall, AfterAcquire, AfterCallPcs, CarryPcs,
               Followers
<1> QED  BY <1>1, <1>2, <1>4, <1>6, FrameSettled DEF PreCall, AfterAcquire, ItemGoesOn

\* The branches of a fresh evaluation that only go on, or end.
LEMMA EvaluateSettled ==
  ASSUME TypeOK, IInv, SettledInv, NEW w \in Workers,
         DecideNoCall(w) \/ WriteIntent(w) \/ Recheck(w) \/ Announce(w)
  PROVE  SettledInv'
<1>1. /\ item' = item /\ UNCHANGED <<request, nextId>> /\ run[w].pc \in PreCall
      /\ Return(w) \/ \E l \in AfterAcquire \ {"latch"} : Goto(w, l)
  BY DEF DecideNoCall, Conclude, WriteIntent, Recheck, Announce, service, deployment,
         PreCall, AfterAcquire
<1>2. ItemGoesOn
  BY <1>1 DEF ItemGoesOn
<1>3. ASSUME NEW l \in AfterAcquire \ {"latch"}, Goto(w, l) PROVE SettledInv'
  <2> DEFINE r == [run[w] EXCEPT !.pc = l]
  <2>1. r.pc = l /\ r.id = run[w].id
    BY OwnLocals DEF Locals
  <2>2. run[w].id \in Unasked'
    BY <1>1 DEF SettledInv, LocalsFit, Unasked
  <2> HIDE DEF r
  <2>3. LocalsFit(r, Unasked', Refused', Finished')
    BY <2>1, <2>2 DEF LocalsFit, AfterAcquire, AfterCallPcs, CarryPcs, Followers
  <2> QED  BY <1>1, <1>2, <1>3, <2>3, GotoSettled DEF r, PreCall
<1> QED  BY <1>1, <1>2, <1>3, ReturnSettled

\* A refusal decided before any call: no request carries its ID, and none will.
LEMMA LatchSettled ==
  ASSUME TypeOK, IInv, SettledInv, NEW w \in Workers, Refuse(w) \/ Latch(w) \/ Release(w)
  PROVE  SettledInv'
<1>1. UNCHANGED <<request, nextId>> /\ run[w].pc \in PreCall /\ run[w].id \in Unasked
  BY DEF Refuse, Latch, Release, service, deployment, PreCall, AfterAcquire, SettledInv,
         LocalsFit
<1>2. CASE Refuse(w)
  <2> DEFINE latch(sent) == [NoItem EXCEPT !.state = "blocked", !.owner = run[w].id, !.seq = 1,
                               !.sent = sent, !.fp = fingerprint]
  <2>1. PICK sent \in BOOLEAN :
          run' = [run EXCEPT ![w].pc = "latch", ![w].seen = latch(sent)]
    BY <1>2 DEF Refuse
  <2>2. /\ latch(sent).state = "blocked" /\ latch(sent).owner = run[w].id
        /\ latch(sent).pending = {}
    BY DEF NoItem
  <2> HIDE DEF latch
  <2>3. /\ \A v \in Workers \ {w} : run'[v] = run[v]
        /\ run'[w].pc = "latch" /\ run'[w].id = run[w].id /\ run'[w].seen = latch(sent)
    BY <2>1, OwnLocals DEF Locals
  <2>4. LocalsFit(run'[w], Unasked', Refused', Finished')
    BY <1>1, <2>2, <2>3
    DEF LocalsFit, Owned, Unasked, PreCall, AfterAcquire, AfterCallPcs, CarryPcs, Followers
  <2> QED  BY <1>1, <1>2, <2>3, <2>4, FrameSettled DEF Refuse, ItemGoesOn
<1>3. CASE Latch(w)
  <2>1. /\ Owned(run[w].seen) /\ run[w].seen.owner = run[w].id /\ run[w].seen.pending = {}
        /\ run[w].seen.state = "blocked"
    BY <1>3 DEF Latch, SettledInv, LocalsFit
  <2>2. run'[w] = Idle /\ \A v \in Workers \ {w} : run'[v] = run[v]
    BY <1>3 DEF Latch, Return, TypeOK
  <2>3. run[w].id \in Refused'
    BY <1>1, <2>2, GivenUp DEF Idle, PreCall, AfterAcquire
  <2>4. ItemFits(run[w].seen, Refused', Finished')
    BY <2>1, <2>3 DEF ItemFits
  <2>5. ItemGoesOn
    BY <1>1, <1>3, <2>1, <2>4, OwnLocals, PutGoesOn DEF Latch
  <2> QED  BY <1>1, <1>3, <2>5, ReturnSettled DEF Latch
<1>4. CASE Release(w)
  <2>1. ItemGoesOn
    BY <1>1, <1>4, DropGoesOn, OverIsNotOpen DEF Release
  <2> QED  BY <1>1, <1>4, <2>1, ReturnSettled DEF Release
<1> QED  BY <1>2, <1>3, <1>4

\* The evaluation becomes the call it will make.
LEMMA ToCallingSettled ==
  ASSUME TypeOK, SettledInv, NEW w \in Workers, ToCalling(w)
  PROVE  SettledInv'
<1>1. UNCHANGED <<request, nextId>> /\ run[w].pc \in PreCall /\ run[w].id \in Unasked
  BY DEF ToCalling, service, deployment, PreCall, AfterAcquire, SettledInv, LocalsFit
<1> DEFINE new == [NoItem EXCEPT !.state = "calling", !.owner = run[w].id, !.seq = 1,
                     !.lease = LeaseTerm, !.window = ReconcileTerm, !.sent = FALSE]
<1>2. new \in Items
  BY OwnLocals, NullTypes, ConstantsAssumption DEF Items, LockStates
<1>3. Owned(new) /\ new.owner = run[w].id /\ ItemFits(new, Refused', Finished')
      /\ new.state = "calling"
  BY <1>1 DEF NoItem, Owned, ItemFits, Unasked
<1>4. Transition(w, run[w].id, "evaluating", new)
  BY DEF ToCalling
<1> HIDE DEF new
<1>5. ItemGoesOn
  BY <1>1, <1>2, <1>3, <1>4, PutGoesOn
<1>6. CASE Return(w)
  BY <1>1, <1>5, <1>6, ReturnSettled
<1>7. CASE Goto(w, "call")
  <2> DEFINE r == [run[w] EXCEPT !.pc = "call"]
  <2>1. r.pc = "call" /\ r.id = run[w].id
    BY OwnLocals DEF Locals
  <2> HIDE DEF r
  <2>2. LocalsFit(r, Unasked', Refused', Finished')
    BY <1>1, <2>1 DEF LocalsFit, AfterCallPcs, CarryPcs, Followers, Unasked
  <2> QED  BY <1>1, <1>5, <1>7, <2>2, GotoSettled DEF r
<1> QED  BY <1>6, <1>7 DEF ToCalling

\* A new ID is nobody's verdict.
LEMMA AcquireVerdicts ==
  ASSUME TypeOK, NEW w \in Workers, Acquire(w)
  PROVE  Refused \subseteq Refused' /\ Finished' = Finished
<1>1. UNCHANGED request /\ nextId \in Nat
  BY DEF Acquire, service, TypeOK
<1>2. /\ \A v \in Workers \ {w} : run'[v] = run[v]
      /\ run'[w].pc \in PreCall => run'[w].id = nextId
      /\ nextId' \in {nextId, nextId + 1}
  BY OwnLocals DEF Acquire, Return, Idle, Locals, PreCall, AfterAcquire
<1> SUFFICES ASSUME NEW id \in Refused PROVE id \in Refused'
  BY <1>1 DEF Finished
<1>3. id \in Ids /\ id \in Nat /\ id < nextId /\ request'[id] = request[id]
      /\ request[id].status # "accepted"
  BY <1>1 DEF Refused, Ids
<1>4. id < nextId' /\ id # nextId
  BY <1>1, <1>2, <1>3
<1>5. request[id].status = "none" =>
        \A v \in Workers : run'[v].pc \in PreCall => run'[v].id # id
  BY <1>2, <1>4 DEF Refused
<1> QED  BY <1>3, <1>4, <1>5 DEF Refused

\* Taking the lock over: the item is free, or its evaluation never asked, so
\* nothing is open; the new ID has not been asked for either.
LEMMA AcquireSettled ==
  ASSUME TypeOK, IInv, SettledInv, NEW w \in Workers, Acquire(w)
  PROVE  SettledInv'
<1>1. UNCHANGED request /\ run[w].pc = "acquire"
  BY DEF Acquire, service
<1>2. CASE Return(w) /\ UNCHANGED <<item, nextId>>
  BY <1>1, <1>2, ReturnSettled DEF ItemGoesOn
<1>3. CASE /\ \/ item.state = "none"
              \/ item.state = "evaluating" /\ item.lease = 0 /\ item.pending = {}
           /\ nextId \in Ids
           /\ item' = Later([NoItem EXCEPT !.state = "evaluating", !.owner = nextId,
                                           !.lease = LeaseTerm], run[w].age)
           /\ run' = [run EXCEPT ![w].pc = "evaluate", ![w].id = nextId]
           /\ nextId' = nextId + 1
  <2>1. /\ \A v \in Workers \ {w} : run'[v] = run[v]
        /\ run'[w].pc = "evaluate" /\ run'[w].id = nextId
    BY <1>3, OwnLocals DEF Locals
  <2>2. /\ item'.state = "evaluating" /\ item'.owner = nextId /\ item'.pending = {}
        /\ item'.disposition = "none" /\ item'.releaseAfterFlush = FALSE
    BY <1>3 DEF Later, NoItem
  <2>3. nextId \in Nat /\ nextId \in Unasked /\ Unasked' = Unasked /\ Finished' = Finished
    BY <1>1, <1>3 DEF SettledInv, RequestShape, Unasked, Finished, Ids
  <2>4. Refused \subseteq Refused'
    BY AcquireVerdicts
  <2>5. RequestShape'
    BY <1>1, <1>3, <2>3 DEF SettledInv, RequestShape, Ids
  <2>6. \A id \in Ids : ~Open(id)
    BY <1>3, OverIsNotOpen DEF SettledInv, OpenIsTracked, ItemInv, Owned, Ids
  <2>7. OpenIsTracked'
    BY <1>1, <2>6 DEF OpenIsTracked, Open
  <2>8. ItemInv'
    BY <1>3, <2>2, <2>3 DEF ItemInv, Owned, ItemFits
  <2>9. ASSUME NEW v \in Workers PROVE LocalsFit(run'[v], Unasked', Refused', Finished')
    <3>1. CASE v = w
      BY <2>1, <2>3, <3>1 DEF LocalsFit, AfterCallPcs, CarryPcs, Followers
    <3>2. CASE v # w
      <4>1. LocalsFit(run[v], Unasked, Refused, Finished)
        BY DEF SettledInv
      <4>2. run[v].pc \in PreCall => run[v].id \in Unasked'
        BY <2>3, <4>1 DEF LocalsFit
      <4> QED  BY <2>1, <2>3, <2>4, <3>2, <4>1, <4>2, LocalsFitMore
    <3> QED  BY <3>1, <3>2
  <2> QED  BY <2>5, <2>7, <2>8, <2>9 DEF SettledInv
<1> QED  BY <1>2, <1>3 DEF Acquire

\* The service's answer, and the request it answers.
LEMMA CallAnswer ==
  ASSUME TypeOK, IInv, SettledInv, NEW w \in Workers, Call(w)
  PROVE  /\ item' = item /\ nextId' = nextId /\ archive' = archive
         /\ item.owner = run[w].id /\ item.state = "calling"
         /\ run[w].id \in Unasked /\ run[w].id < nextId
         /\ \A i \in Ids \ {run[w].id} : request'[i] = request[i]
         /\ request'[run[w].id].status # "none"
         /\ request'[run[w].id].status # "accepted" =>
              request'[run[w].id].phase = "none" /\ request'[run[w].id].visible = FALSE
         /\ run'[w].result \in Rejections => request'[run[w].id].status = "refused"
         /\ \A v \in Workers \ {w} : run'[v] = run[v] /\ run[v].pc \notin PreCall
         /\ run'[w].pc = "postCall" /\ run'[w].id = run[w].id /\ run'[w].result # "none"
<1> DEFINE id == run[w].id
<1>1. PICK res \in Results \ {"none"}, accepted \in BOOLEAN :
        /\ res \in Rejections => ~accepted
        /\ request' = [request EXCEPT ![id] =
             IF accepted
             THEN [status |-> "accepted", phase |-> "in_progress",
                   visible |-> FALSE, cool |-> CooldownTerm]
             ELSE [NoRequest EXCEPT !.status = "refused"]]
        /\ run' = [run EXCEPT ![w].pc = "postCall", ![w].result = res]
  BY DEF Call, Rejections
<1>2. /\ item' = item /\ nextId' = nextId /\ archive' = archive /\ run[w].pc = "call"
      /\ item.owner = id /\ item.state = "calling" /\ id \in Unasked /\ id < nextId
  BY DEF Call, deployment, sinks, IInv, LeaseHeld, Owner, OwnerPcs, AfterAcquire, Bounded,
         SettledInv, LocalsFit, PreCall
<1>3. /\ id \in Ids /\ \A i \in Ids \ {id} : request'[i] = request[i]
      /\ request'[id] = IF accepted
             THEN [status |-> "accepted", phase |-> "in_progress",
                   visible |-> FALSE, cool |-> CooldownTerm]
             ELSE [NoRequest EXCEPT !.status = "refused"]
  BY <1>1, <1>2 DEF TypeOK, Unasked
<1>4. /\ \A v \in Workers \ {w} : run'[v] = run[v] /\ run[v].pc \notin PreCall
      /\ run'[w].pc = "postCall" /\ run'[w].id = id /\ run'[w].result = res
  <2>1. \A v \in Workers \ {w} : run[v].pc \notin PreCall
    BY <1>2 DEF IInv, SingleFlight, PreCall, AfterAcquire, OwnerPcs
  <2> QED  BY <1>1, <2>1, OwnLocals DEF Locals
<1>5. /\ request'[id].status # "none"
      /\ request'[id].status # "accepted" =>
           request'[id].phase = "none" /\ request'[id].visible = FALSE
      /\ accepted = FALSE => request'[id].status = "refused"
  BY <1>3 DEF NoRequest
<1> QED  BY <1>1, <1>2, <1>3, <1>4, <1>5

\* The request that is made is none of those already over.
LEMMA CallVerdicts ==
  ASSUME TypeOK, IInv, SettledInv, NEW w \in Workers, Call(w)
  PROVE  Refused \subseteq Refused' /\ Finished \subseteq Finished'
<1>1. run[w].id \notin Refused /\ run[w].id \notin Finished
  BY CallAnswer DEF Refused, Finished, Unasked, PreCall, Call
<1>2. \A i \in Ids \ {run[w].id} : request'[i] = request[i]
  BY CallAnswer
<1>3. nextId' = nextId /\ \A v \in Workers : run'[v].pc \notin PreCall
  BY CallAnswer DEF PreCall, AfterAcquire
<1> QED  BY <1>1, <1>2, <1>3 DEF Refused, Finished

\* The request is the item's, and the only one its owner made.
LEMMA CallSettled ==
  ASSUME TypeOK, IInv, SettledInv, NEW w \in Workers, Call(w)
  PROVE  SettledInv'
<1>1. run[w].id \in Ids
  BY CallAnswer DEF Unasked
<1>2. run'[w].result \in Rejections => run[w].id \in Refused'
  BY <1>1, CallAnswer DEF Refused
<1>3. RequestShape'
  BY CallAnswer DEF SettledInv, RequestShape
<1>4. OpenIsTracked'
  BY CallAnswer DEF SettledInv, OpenIsTracked, Open
<1>5. ItemInv'
  BY CallAnswer, CallVerdicts, ItemFitsMore DEF SettledInv, ItemInv, Owned
<1>6. ASSUME NEW v \in Workers PROVE LocalsFit(run'[v], Unasked', Refused', Finished')
  <2>1. CASE v = w
    BY <1>1, <1>2, <2>1, CallAnswer
    DEF LocalsFit, PreCall, AfterAcquire, AfterCallPcs, CarryPcs, Followers
  <2>2. CASE v # w
    <3>1. LocalsFit(run[v], Unasked, Refused, Finished)
      BY DEF SettledInv
    <3> QED  BY <2>2, <3>1, CallAnswer, CallVerdicts, LocalsFitMore
  <2> QED  BY <2>1, <2>2
<1> QED  BY <1>3, <1>4, <1>5, <1>6 DEF SettledInv

\* The outcome's event closes the request only when the service rejected it.
LEMMA PostCallSettled ==
  ASSUME TypeOK, IInv, SettledInv, NEW w \in Workers, PostCall(w)
  PROVE  SettledInv'
<1> DEFINE carried == Earlier(item, run[w].age)
           ev == PostCallEvent(run[w].result)
           out == PostCallState(run[w].result)
           seq == carried.seq + Cardinality(carried.pending) + 1
           e == FollowUp(ev, out, seq, "none", "none")
           put(p) == [carried EXCEPT !.seq = seq, !.lease = LeaseTerm, !.pending = p]
<1>1. PICK p \in {carried.pending, carried.pending \cup {e}} :
        run' = [run EXCEPT ![w].pc = "settle", ![w].seen = put(p)]
  BY DEF PostCall
<1>2. /\ item' = item /\ UNCHANGED <<request, nextId>> /\ run[w].pc = "postCall"
      /\ item.owner = run[w].id /\ item.state = "calling"
  BY DEF PostCall, service, deployment, IInv, LeaseHeld, Owner, OwnerPcs, AfterAcquire
<1>3. /\ carried \in Items /\ carried.state = item.state /\ carried.owner = item.owner
      /\ carried.pending = item.pending /\ carried.disposition = item.disposition
      /\ carried.releaseAfterFlush = item.releaseAfterFlush
  BY OwnLocals, EarlierFits, EarlierType
<1>4. run[w].id \in Ids /\ (run[w].result \in Rejections => run[w].id \in Refused)
  BY <1>2 DEF SettledInv, LocalsFit, AfterCallPcs
<1>5. EntryFits(run[w].id, e, Refused, Finished)
  <2>1. Closes(e) => run[w].result \in Rejections /\ ev # "terminal"
    BY DEF Closes, FollowUp, PostCallState, PostCallEvent, Rejections
  <2>2. e.event = ev
    BY DEF FollowUp
  <2> HIDE DEF e, ev
  <2> QED  BY <1>4, <2>1, <2>2 DEF EntryFits
<1> HIDE DEF carried, ev, out, seq, e
<1>6. /\ put(p).state = "calling" /\ put(p).owner = run[w].id /\ put(p).pending = p
      /\ put(p).disposition = item.disposition
      /\ put(p).releaseAfterFlush = item.releaseAfterFlush
  BY <1>2, <1>3 DEF Items
<1> HIDE DEF put
<1>7. ItemFits(put(p), Refused, Finished) /\ Owned(put(p))
  BY <1>2, <1>3, <1>4, <1>5, <1>6 DEF SettledInv, ItemInv, ItemFits, Owned
<1>8. /\ \A v \in Workers \ {w} : run'[v] = run[v]
      /\ run'[w].pc = "settle" /\ run'[w].id = run[w].id /\ run'[w].seen = put(p)
      /\ run'[w].result = run[w].result
  BY <1>1, OwnLocals DEF Locals
<1>9. Refused \subseteq Refused' /\ Finished' = Finished
  BY <1>2, <1>8, QuietKept DEF PreCall, AfterAcquire
<1>10. LocalsFit(run'[w], Unasked', Refused', Finished')
  <2>1. ItemFits(put(p), Refused', Finished')
    BY <1>7, <1>9, ItemFitsMore
  <2> QED  BY <1>4, <1>6, <1>7, <1>8, <1>9, <2>1
           DEF LocalsFit, PreCall, AfterAcquire, AfterCallPcs, CarryPcs, Followers
<1> QED  BY <1>2, <1>8, <1>10, FrameSettled DEF PreCall, AfterAcquire, ItemGoesOn

\* A put of a copy with the copy's own facts.
LEMMA CopyGoesOn ==
  ASSUME TypeOK, SettledInv, NEW w \in Workers, NEW st, NEW new \in Items,
         Transition(w, run[w].seen.owner, st, new), UNCHANGED <<request, nextId>>,
         \A v \in Workers \ {w} : run'[v] = run[v], run'[w].pc \notin PreCall,
         Owned(new), new.owner = run[w].seen.owner, ItemFits(new, Refused, Finished),
         new.state = "evaluating" => st = "evaluating"
  PROVE  ItemGoesOn
<1>1. Refused \subseteq Refused' /\ Finished' = Finished
  BY QuietKept
<1>2. ItemFits(new, Refused', Finished')
  BY <1>1, ItemFitsMore
<1> QED  BY <1>2, PutGoesOn

\* From the outcome to the write that hands the item over, and its report.
LEMMA HandOverSettled ==
  ASSUME TypeOK, SettledInv, NEW w \in Workers,
         \/ SettleSubmitted(w) \/ ReportSubmitted(w) \/ MarkSent(w) \/ ReportRejected(w)
         \/ SettleRejected(w) \/ SettleAmbiguous(w) \/ ReportAmbiguous(w)
  PROVE  SettledInv'
<1>0. UNCHANGED <<request, nextId>> /\ run[w].pc \notin PreCall
  BY DEF SettleSubmitted, ReportSubmitted, MarkSent, ReportRejected, SettleRejected,
         SettleAmbiguous, ReportAmbiguous, service, deployment, PreCall, AfterAcquire
<1> DEFINE it == run[w].seen
<1>1. CASE ReportAmbiguous(w)
  BY <1>0, <1>1, ReturnSettled DEF ReportAmbiguous, ItemGoesOn
<1>2. CASE ~ReportAmbiguous(w)
  <2>1. run[w].pc \in CarryPcs
    BY <1>2 DEF SettleSubmitted, ReportSubmitted, MarkSent, ReportRejected, SettleRejected,
                SettleAmbiguous, CarryPcs
  <2>2. /\ Owned(it) /\ it.owner = run[w].id /\ it.state = "calling" 
        /\ ItemFits(it, Refused, Finished) /\ it \in Items
        /\ run[w].pc \in AfterCallPcs /\ run[w].result \in Rejections => run[w].id \in Refused
        /\ run[w].pc = "settleRejected" => run[w].result \in Rejections
    BY <2>1, OwnLocals DEF SettledInv, LocalsFit
  <2>3. /\ Refused \subseteq Refused' /\ Finished' = Finished
        /\ \A v \in Workers \ {w} : run'[v] = run[v]
        /\ run'[w].pc \notin PreCall
    <3>1. \A v \in Workers \ {w} : run'[v] = run[v]
      BY OthersUnchanged DEF Step, AfterCall
    <3>2. run'[w].pc \notin PreCall
      <4>1. CASE ReportRejected(w)
        <5>1. PICK sent \in BOOLEAN :
                run' = [run EXCEPT ![w] = [run[w] EXCEPT !.pc = "settleRejected",
                          !.seen = [it EXCEPT !.sent = sent]]]
          BY <4>1, OwnLocals DEF ReportRejected, Locals
        <5> QED  BY <5>1, OwnLocals DEF Locals, PreCall, AfterAcquire
      <4>2. CASE Return(w)
        BY <4>2, OwnLocals DEF Return, Idle, PreCall, AfterAcquire
      <4>3. ASSUME NEW l \in {"reportSubmitted", "markSent", "reportAmbiguous"}, Goto(w, l)
            PROVE  run'[w].pc \notin PreCall
        BY <4>3, OwnLocals DEF Goto, Locals, PreCall, AfterAcquire
      <4> QED  BY <1>2, <4>1, <4>2, <4>3
               DEF SettleSubmitted, ReportSubmitted, MarkSent, SettleRejected, SettleAmbiguous
    <3> QED  BY <1>0, <3>1, <3>2, QuietKept
  <2>4. ItemFits(it, Refused', Finished')
    BY <2>2, <2>3, ItemFitsMore
  <2>5. CASE ReportSubmitted(w)
    <3>1. item' = item /\ (Return(w) \/ Goto(w, "markSent"))
      BY <2>5 DEF ReportSubmitted
    <3>2. LocalsFit([run[w] EXCEPT !.pc = "markSent"], Unasked', Refused', Finished')
      BY <2>2, <2>4, OwnLocals
      DEF LocalsFit, Locals, PreCall, AfterAcquire, AfterCallPcs, Followers
    <3> QED  BY <1>0, <3>1, <3>2, ReturnSettled, GotoSettled
             DEF ItemGoesOn, PreCall, AfterAcquire
  <2>6. CASE ReportRejected(w)
    <3>1. PICK sent \in BOOLEAN :
            run' = [run EXCEPT ![w] = [run[w] EXCEPT !.pc = "settleRejected",
                      !.seen = [it EXCEPT !.sent = sent]]]
      BY <2>6, OwnLocals DEF ReportRejected, Locals
    <3> DEFINE new == [it EXCEPT !.sent = sent]
    <3>2. /\ new.state = it.state /\ new.owner = it.owner /\ new.pending = it.pending
          /\ new.disposition = it.disposition
          /\ new.releaseAfterFlush = it.releaseAfterFlush
      BY <2>2 DEF Items
    <3> HIDE DEF new
    <3>3. ItemFits(new, Refused', Finished') /\ Owned(new)
      BY <2>2, <2>4, <3>2, SameFits DEF Owned
    <3>4. /\ run'[w].pc = "settleRejected" /\ run'[w].id = run[w].id /\ run'[w].seen = new
          /\ run'[w].result = run[w].result
      BY <3>1, OwnLocals DEF Locals, new
    <3>5. run[w].result \in Rejections /\ run[w].pc = "settle" /\ item' = item
      BY <2>6 DEF ReportRejected, Rejections
    <3>6. LocalsFit(run'[w], Unasked', Refused', Finished')
      BY <2>2, <2>3, <3>2, <3>3, <3>4, <3>5
      DEF LocalsFit, PreCall, AfterAcquire, AfterCallPcs, CarryPcs, Followers, Owned
    <3>7. ItemGoesOn
      BY <3>5 DEF ItemGoesOn
    <3> QED  BY <1>0, <2>3, <3>6, <3>7, FrameSettled
  <2>7. CASE SettleSubmitted(w) \/ SettleAmbiguous(w) \/ MarkSent(w)
    <3> DEFINE sub(b) == [it EXCEPT !.state = "submitted", !.sent = b]
               ind == [it EXCEPT !.state = "indeterminate"]
    <3>1. PICK new \in {sub(FALSE), sub(TRUE), ind}, st \in LockStates :
            Transition(w, it.owner, st, new)
      BY <2>2, <2>7 DEF SettleSubmitted, SettleAmbiguous, MarkSent, LockStates
    <3>2. /\ new \in Items /\ new.state \in {"submitted", "indeterminate"}
          /\ new.owner = it.owner /\ new.pending = it.pending
          /\ new.disposition = it.disposition
          /\ new.releaseAfterFlush = it.releaseAfterFlush
      <4>1. \A n \in {sub(FALSE), sub(TRUE), ind} :
              /\ n \in Items /\ n.state \in {"submitted", "indeterminate"}
              /\ n.owner = it.owner /\ n.pending = it.pending
              /\ n.disposition = it.disposition
              /\ n.releaseAfterFlush = it.releaseAfterFlush
        BY <2>2 DEF Items, LockStates
      <4> QED  BY <4>1
    <3> HIDE DEF sub, ind
    <3>3. ItemFits(new, Refused, Finished) /\ Owned(new)
      BY <2>2, <3>2, SameFits DEF Owned
    <3>4. ItemGoesOn
      <4>1. new.state # "evaluating"
        BY <3>2
      <4> QED  BY <1>0, <2>3, <3>1, <3>2, <3>3, <4>1, CopyGoesOn
    <3>5. Return(w) \/ Goto(w, "reportSubmitted") \/ Goto(w, "reportAmbiguous")
      BY <2>7 DEF SettleSubmitted, SettleAmbiguous, MarkSent
    <3>6. ASSUME NEW l \in {"reportSubmitted", "reportAmbiguous"}
          PROVE  LocalsFit([run[w] EXCEPT !.pc = l], Unasked', Refused', Finished')
      BY <2>2, <2>4, OwnLocals
      DEF LocalsFit, Locals, PreCall, AfterAcquire, AfterCallPcs, CarryPcs, Followers
    <3> QED  BY <1>0, <3>4, <3>5, <3>6, ReturnSettled, GotoSettled DEF PreCall, AfterAcquire
  <2>8. CASE SettleRejected(w)
    <3> DEFINE blk == [it EXCEPT !.state = "blocked", !.fp = fingerprint]
               rel == [it EXCEPT !.sent = FALSE, !.releaseAfterFlush = TRUE]
    <3>1. run[w].id \in Refused
      BY <2>2, <2>8 DEF SettleRejected, AfterCallPcs
    <3>2. CASE ReleaseItem(run[w].id, "calling")
      BY <1>0, <2>8, <3>1, <3>2, DropGoesOn, OverIsNotOpen, ReturnSettled DEF SettleRejected
    <3>3. CASE \E new \in {blk, rel} : Transition(w, run[w].id, "calling", new)
      <4>1. PICK new \in {blk, rel} : Transition(w, run[w].id, "calling", new)
        BY <3>3
      <4>2. /\ new \in Items /\ new.state \in {"blocked", it.state}
            /\ new.owner = it.owner /\ new.pending = it.pending
            /\ new.disposition = it.disposition
        <5>1. \A n \in {blk, rel} :
                /\ n \in Items /\ n.state \in {"blocked", it.state}
                /\ n.owner = it.owner /\ n.pending = it.pending
                /\ n.disposition = it.disposition
          BY <2>2 DEF Items, LockStates, TypeOK
        <5> QED  BY <5>1
      <4>3. ItemFits(new, Refused', Finished') /\ Owned(new)
        BY <2>2, <2>3, <2>4, <3>1, <4>2 DEF ItemFits, Owned
      <4>4. ItemGoesOn
        BY <1>0, <2>2, <4>1, <4>2, <4>3, PutGoesOn
      <4> QED  BY <1>0, <2>8, <4>4, ReturnSettled DEF SettleRejected
    <3> QED  BY <2>8, <3>2, <3>3 DEF SettleRejected
  <2> QED  BY <1>2, <2>5, <2>6, <2>7, <2>8
<1> QED  BY <1>1, <1>2

-----------------------------------------------------------------------------
(* Existing states: the flush and the handlers.                            *)

\* What a handler decides closes a request only when that is right: a latch
\* and an operator's refusal are of refused requests, and a listed action in
\* its last phase is of an accepted, finished one.
LEMMA FollowUpOfFits ==
  ASSUME SettledInv, NEW it \in Items, Owned(it), ItemFits(it, Refused, Finished)
  PROVE  EntryFits(it.owner, FollowUpOf(it), Refused, Finished)
<1> DEFINE Fits(p) == EntryFits(it.owner, p, Refused, Finished)
<1>1. Fits(NoPlan)
  BY DEF EntryFits, Closes, NoPlan, FollowUp
<1>2. it.state = "blocked" => Fits(OnBlocked(it))
  BY <1>1 DEF OnBlocked, EntryFits, Closes, FollowUp, ItemFits
<1>3. Fits(OnSubmitted(it))
  <2>1. Matched(it) /\ request[it.owner].phase = "terminal" => it.owner \in Finished
    BY DEF Matched, SettledInv, RequestShape, Finished
  <2> QED  BY <1>1, <2>1 DEF OnSubmitted, EntryFits, Closes, FollowUp
<1>4. Fits(Reconciled(it))
  BY DEF Reconciled, EntryFits, Closes, FollowUp
<1>5. Fits(OnIndeterminate(it))
  BY <1>1, <1>4 DEF OnIndeterminate, EntryFits, Closes, FollowUp
<1>6. Fits(OnManualDisposition(it))
  BY <1>4 DEF OnManualDisposition, EntryFits, Closes, FollowUp, ItemFits
<1>7. Fits(OnCalling(it))
  BY <1>1 DEF OnCalling, EntryFits, Closes, FollowUp
<1> HIDE DEF Fits
<1>8. Fits(FollowUpOf(it))
  BY <1>1, <1>2, <1>3, <1>5, <1>6, <1>7 DEF FollowUpOf
<1> QED  BY <1>8 DEF Fits

\* A follow-up's write keeps what the copy says of its request.
LEMMA AdvanceFits ==
  ASSUME NEW it \in Items, NEW p \in Entry, p.post \notin {"release", "none"},
         NEW R, NEW F, ItemFits(it, R, F), Owned(it)
  PROVE  /\ ItemFits(Advance(it, p), R, F) /\ Owned(Advance(it, p))
         /\ Advance(it, p).owner = it.owner
         /\ Advance(it, p).state = "evaluating" => it.state = "evaluating"
<1>1. /\ Advance(it, p).owner = it.owner /\ Advance(it, p).pending = it.pending
      /\ Advance(it, p).disposition = it.disposition
      /\ Advance(it, p).releaseAfterFlush = it.releaseAfterFlush
      /\ Advance(it, p).state = it.state \/ Advance(it, p).state \in RequestStates
  BY DEF Advance, Items, Entry, Posts
<1> QED  BY <1>1, SameFits DEF Owned, RequestStates

\* A follower's copy and what it knows.
LEMMA FollowerKnows ==
  ASSUME TypeOK, SettledInv, NEW w \in Workers, run[w].pc \in Followers
  PROVE  /\ Owned(run[w].seen) /\ ItemFits(run[w].seen, Refused, Finished)
         /\ EntryFits(run[w].seen.owner, run[w].plan, Refused, Finished)
         /\ run[w].pc = "write" => run[w].plan.post # "none"
         /\ run[w].pc = "clear" => run[w].seen.releaseAfterFlush = TRUE
         /\ run[w].pc \notin PreCall
  BY DEF SettledInv, LocalsFit, Followers, PreCall, AfterAcquire

\* A follower's step to another of its labels, with the same copy.
LEMMA FollowerGotoSettled ==
  ASSUME TypeOK, SettledInv, NEW w \in Workers, run[w].pc \in Followers,
         UNCHANGED <<request, nextId>>, ItemGoesOn,
         \A v \in Workers \ {w} : run'[v] = run[v], NEW it, NEW p,
         run'[w].pc \in Followers \ {"clear"},
         run'[w].seen = it, run'[w].plan = p,
         run'[w].pc = "write" => p.post # "none",
         Owned(it), ItemFits(it, Refused, Finished), EntryFits(it.owner, p, Refused, Finished)
  PROVE  SettledInv'
<1>1. run'[w].pc \notin PreCall
  BY DEF Followers, PreCall, AfterAcquire
<1>2. Refused \subseteq Refused' /\ Finished' = Finished
  BY <1>1, QuietKept
<1>3. ItemFits(it, Refused', Finished') /\ EntryFits(it.owner, p, Refused', Finished')
  BY <1>2, ItemFitsMore, EntryFitsMore
<1>4. LocalsFit(run'[w], Unasked', Refused', Finished')
  BY <1>1, <1>3 DEF LocalsFit, Followers, AfterCallPcs, CarryPcs
<1> QED  BY <1>1, <1>4, FrameSettled

\* The flush, the handlers and their follow-ups.
LEMMA ExistingStateSettled ==
  ASSUME TypeOK, SettledInv, NEW w \in Workers, ExistingState(w)
  PROVE  SettledInv'
<1> DEFINE it == run[w].seen
           p == run[w].plan
<1>0. /\ UNCHANGED <<request, nextId>> /\ run[w].pc \in Followers
      /\ it \in Items /\ p \in Entry
  BY OwnLocals
  DEF ExistingState, FlushArchive, FlushReport, KeepPending, FlushWrite, AfterFlush,
      ClearRejected, Handle, ArchiveFollowUp, Pend, Report, Write, service, deployment,
      Followers
<1>1. /\ Owned(it) /\ ItemFits(it, Refused, Finished)
      /\ EntryFits(it.owner, p, Refused, Finished)
      /\ run[w].pc = "write" => p.post # "none"
      /\ run[w].pc = "clear" => it.releaseAfterFlush = TRUE
      /\ run[w].pc \notin PreCall
  BY <1>0, FollowerKnows
<1>2. \A v \in Workers \ {w} : run'[v] = run[v]
  BY OthersUnchanged DEF Step
<1>3. ASSUME p.post = "release" \/ run[w].pc = "clear" PROVE ~Open(it.owner)
  BY <1>1, <1>3, OverIsNotOpen DEF EntryFits, Closes, ItemFits
<1>4. CASE FlushArchive(w)
  <2>1. PICK e \in it.pending, l \in {"keepPending", "flushReport", "flushWrite"} :
          run' = [run EXCEPT ![w].plan = e, ![w].pc = l]
    BY <1>4 DEF FlushArchive
  <2>2. run'[w].plan = e /\ run'[w].pc = l /\ run'[w].seen = it
    BY <2>1, OwnLocals DEF Locals
  <2>3. EntryFits(it.owner, e, Refused, Finished) /\ ItemGoesOn
    BY <1>1, <1>4 DEF ItemFits, FlushArchive, ItemGoesOn
  <2> QED  BY <1>0, <1>1, <1>2, <2>2, <2>3, FollowerGotoSettled DEF Followers
<1>5. CASE FlushReport(w) \/ ArchiveFollowUp(w) \/ Report(w)
  <2>1. item' = item
    BY <1>5 DEF FlushReport, ArchiveFollowUp, Report
  <2>2. \/ Return(w)
        \/ \E l \in {"flushWrite", "keepPending", "report", "pend"} : Goto(w, l)
        \/ Goto(w, "write") /\ p.post # "none"
    BY <1>5 DEF FlushReport, ArchiveFollowUp, Report
  <2>3. ItemGoesOn
    BY <2>1 DEF ItemGoesOn
  <2>4. ASSUME NEW l \in {"flushWrite", "keepPending", "report", "pend", "write"}, Goto(w, l),
               l = "write" => p.post # "none"
        PROVE  SettledInv'
    <3>1. run'[w].plan = p /\ run'[w].pc = l /\ run'[w].seen = it
      BY <2>4, OwnLocals DEF Goto, Locals
    <3> QED  BY <1>0, <1>1, <1>2, <2>3, <2>4, <3>1, FollowerGotoSettled DEF Followers
  <2> QED  BY <1>0, <2>2, <2>3, <2>4, ReturnSettled
<1>6. CASE KeepPending(w) \/ Pend(w)
  <2> DEFINE pended == [it EXCEPT !.pending = @ \cup {p}]
  <2>1. /\ pended \in Items /\ pended.owner = it.owner /\ pended.state = it.state
        /\ pended.pending = it.pending \cup {p} /\ pended.disposition = it.disposition
        /\ pended.releaseAfterFlush = it.releaseAfterFlush
    BY <1>0 DEF Items
  <2>2. PICK new \in {it, pended} : Transition(w, it.owner, it.state, new)
    BY <1>6 DEF KeepPending, Pend
  <2> HIDE DEF pended
  <2>3. ItemFits(pended, Refused, Finished)
    BY <1>1, <2>1 DEF ItemFits
  <2>4. /\ new \in Items /\ new.owner = it.owner /\ new.state = it.state
        /\ ItemFits(new, Refused, Finished) /\ Owned(new)
    BY <1>0, <1>1, <2>1, <2>2, <2>3 DEF Owned
  <2>5. Return(w) /\ run'[w].pc \notin PreCall
    BY <1>6, OwnLocals DEF KeepPending, Pend, Return, Idle, PreCall, AfterAcquire
  <2>6. ItemGoesOn
    BY <1>0, <1>2, <2>2, <2>4, <2>5, CopyGoesOn
  <2> QED  BY <1>0, <2>5, <2>6, ReturnSettled
<1>7. CASE FlushWrite(w)
  <2> DEFINE kept == [it EXCEPT !.pending = {}]
             adv == Advance(kept, p)
  <2>1. /\ kept \in Items /\ kept.owner = it.owner /\ kept.state = it.state
        /\ kept.pending = {} /\ kept.disposition = it.disposition
        /\ kept.releaseAfterFlush = it.releaseAfterFlush
    BY <1>0 DEF Items
  <2>2. /\ \/ p.post = "release" /\ ReleaseItem(it.owner, it.state)
           \/ p.post = "none" /\ Transition(w, it.owner, it.state, kept)
           \/ p.post \notin {"release", "none"} /\ Transition(w, it.owner, it.state, adv)
        /\ Return(w) \/ Goto(w, "flushed")
    BY <1>7, <2>1 DEF FlushWrite
  <2> HIDE DEF kept, adv
  <2>3. ItemFits(kept, Refused, Finished) /\ Owned(kept)
    BY <1>1, <2>1, SameFits DEF Owned
  <2>4. p.post \notin {"release", "none"} =>
          /\ adv \in Items /\ adv.owner = it.owner /\ Owned(adv)
          /\ ItemFits(adv, Refused, Finished)
          /\ adv.state = "evaluating" => it.state = "evaluating"
    BY <1>0, <2>1, <2>3, AdvanceFits, AdvanceType DEF adv
  <2>5. run'[w].pc \notin PreCall
    BY <2>2, OwnLocals DEF Return, Goto, Idle, Locals, PreCall, AfterAcquire
  <2>6. ItemGoesOn
    <3>1. CASE ReleaseItem(it.owner, it.state) /\ p.post = "release"
      BY <1>3, <3>1, DropGoesOn
    <3>2. CASE Transition(w, it.owner, it.state, kept)
      BY <1>0, <1>2, <2>1, <2>3, <2>5, <3>2, CopyGoesOn
    <3>3. CASE p.post \notin {"release", "none"} /\ Transition(w, it.owner, it.state, adv)
      BY <1>0, <1>2, <2>4, <2>5, <3>3, CopyGoesOn
    <3> QED  BY <2>2, <3>1, <3>2, <3>3
  <2>7. CASE Goto(w, "flushed")
    <3>1. run'[w].plan = p /\ run'[w].pc = "flushed" /\ run'[w].seen = it
      BY <2>7, OwnLocals DEF Goto, Locals
    <3> QED  BY <1>0, <1>1, <1>2, <2>6, <3>1, FollowerGotoSettled DEF Followers
  <2> QED  BY <1>0, <2>2, <2>6, <2>7, ReturnSettled
<1>8. CASE AfterFlush(w)
  <2> DEFINE new == IF item.state = "none" THEN it ELSE Earlier(item, run[w].age)
  <2>1. /\ item' = item /\ run[w].pc = "flushed"
        /\ run' = [run EXCEPT ![w].seen = new, ![w].plan = NoPlan,
                     ![w].pc = IF new.releaseAfterFlush THEN "clear" ELSE "handle"]
    BY <1>8 DEF AfterFlush
  <2>2. Owned(new) /\ ItemFits(new, Refused, Finished) /\ new \in Items
    <3>1. CASE item.state = "none"
      BY <1>0, <1>1, <3>1
    <3>2. CASE item.state # "none"
      <4>1. Owned(item) /\ ItemFits(item, Refused, Finished)
        BY <3>2 DEF SettledInv, ItemInv
      <4>2. new = Earlier(item, run[w].age)
        BY <3>2
      <4> HIDE DEF new
      <4> QED  BY <4>1, <4>2, OwnLocals, EarlierFits, EarlierType, SameFits DEF Owned
    <3> QED  BY <3>1, <3>2
  <2> HIDE DEF new
  <2>3. /\ run'[w].seen = new /\ run'[w].plan = NoPlan
        /\ run'[w].pc = IF new.releaseAfterFlush THEN "clear" ELSE "handle"
    BY <2>1, OwnLocals DEF Locals
  <2>4. run'[w].pc = "clear" => new.releaseAfterFlush = TRUE
    BY <2>2, <2>3 DEF Items
  <2>5. run'[w].pc \notin PreCall
    BY <2>3 DEF PreCall, AfterAcquire
  <2>6. Refused \subseteq Refused' /\ Finished' = Finished
    BY <1>0, <1>2, <2>5, QuietKept
  <2>7. ItemFits(new, Refused', Finished') /\ EntryFits(new.owner, NoPlan, Refused', Finished')
    BY <2>2, <2>6, ItemFitsMore DEF EntryFits, Closes, NoPlan, FollowUp
  <2>8. LocalsFit(run'[w], Unasked', Refused', Finished')
    BY <2>2, <2>3, <2>4, <2>5, <2>7 DEF LocalsFit, Followers, AfterCallPcs, CarryPcs
  <2>9. ItemGoesOn
    BY <2>1 DEF ItemGoesOn
  <2> QED  BY <1>0, <1>2, <2>5, <2>8, <2>9, FrameSettled
<1>9. CASE ClearRejected(w)
  <2>1. ItemGoesOn
    BY <1>3, <1>9, DropGoesOn DEF ClearRejected
  <2> QED  BY <1>0, <1>9, <2>1, ReturnSettled DEF ClearRejected
<1>10. CASE Handle(w)
  <2>1. ItemGoesOn
    BY <1>10 DEF Handle, ItemGoesOn
  <2>2. CASE ~Return(w)
    <3>1. PICK l \in {"report", "archive"} :
            run' = [run EXCEPT ![w].plan = FollowUpOf(it), ![w].pc = l]
      BY <1>10, <2>2 DEF Handle
    <3>2. run'[w].plan = FollowUpOf(it) /\ run'[w].pc = l /\ run'[w].seen = it
      BY <3>1, OwnLocals DEF Locals
    <3>3. EntryFits(it.owner, FollowUpOf(it), Refused, Finished)
      BY <1>0, <1>1, FollowUpOfFits
    <3> QED  BY <1>0, <1>1, <1>2, <2>1, <3>2, <3>3, FollowerGotoSettled DEF Followers
  <2> QED  BY <1>0, <2>1, <2>2, ReturnSettled
<1>11. CASE Write(w)
  <2> DEFINE adv == Advance(it, p)
  <2>1. /\ \/ p.post = "release" /\ ReleaseItem(it.owner, it.state)
           \/ p.post \notin {"release", "none"} /\ Transition(w, it.owner, it.state, adv)
        /\ \/ Return(w)
           \/ run' = [run EXCEPT ![w] = [Idle EXCEPT !.pc = "acquire", !.age = run[w].age]]
    BY <1>1, <1>11 DEF Write
  <2> HIDE DEF adv
  <2>2. p.post \notin {"release", "none"} =>
          /\ adv \in Items /\ adv.owner = it.owner /\ Owned(adv)
          /\ ItemFits(adv, Refused, Finished)
          /\ adv.state = "evaluating" => it.state = "evaluating"
    BY <1>0, <1>1, AdvanceFits, AdvanceType DEF adv
  <2>3. run'[w].pc \in {"idle", "acquire"}
    <3>1. CASE Return(w)
      BY <3>1, OwnLocals DEF Return, Idle
    <3>2. CASE run' = [run EXCEPT ![w] = [Idle EXCEPT !.pc = "acquire", !.age = run[w].age]]
      BY <3>2, OwnLocals DEF Idle
    <3> QED  BY <2>1, <3>1, <3>2
  <2>4. run'[w].pc \notin PreCall
    BY <2>3 DEF PreCall, AfterAcquire
  <2>5. ItemGoesOn
    <3>1. CASE ReleaseItem(it.owner, it.state) /\ p.post = "release"
      BY <1>3, <3>1, DropGoesOn
    <3>2. CASE p.post \notin {"release", "none"} /\ Transition(w, it.owner, it.state, adv)
      BY <1>0, <1>2, <2>2, <2>4, <3>2, CopyGoesOn
    <3> QED  BY <2>1, <3>1, <3>2
  <2>6. CASE run' = [run EXCEPT ![w] = [Idle EXCEPT !.pc = "acquire", !.age = run[w].age]]
    <3>1. run'[w].pc = "acquire"
      BY <2>6, OwnLocals DEF Idle
    <3>2. LocalsFit(run'[w], Unasked', Refused', Finished')
      BY <3>1 DEF LocalsFit, PreCall, AfterAcquire, Followers, AfterCallPcs, CarryPcs
    <3> QED  BY <1>0, <1>2, <2>4, <2>5, <3>2, FrameSettled
  <2> QED  BY <1>0, <2>1, <2>5, <2>6, ReturnSettled
<1> QED  BY <1>4, <1>5, <1>6, <1>7, <1>8, <1>9, <1>10, <1>11 DEF ExistingState

-----------------------------------------------------------------------------
(* The environment.                                                        *)

\* Time, the service's progress and other people's updates end requests, never
\* reopen one; an operator who does not err refuses only what was refused.
LEMMA EnvironmentSettled ==
  ASSUME TypeOK, IInv, SettledInv, ~OperatorErrs, Environment
  PROVE  SettledInv'
<1>1. ASSUME nextId' = nextId,
             \A v \in Workers : /\ run'[v].pc = run[v].pc /\ run'[v].id = run[v].id
                                /\ run'[v].seen = run[v].seen /\ run'[v].plan = run[v].plan
                                /\ run'[v].result = run[v].result
                                /\ run[v].pc = "idle" => run'[v] = run[v],
             \A id \in Ids : /\ request'[id].status = request[id].status
                             /\ Finished \subseteq Finished'
                             /\ Open(id)' => Open(id),
             RequestShape',
             item'.state = item.state, item'.owner = item.owner,
             item'.pending = item.pending,
             item'.releaseAfterFlush = item.releaseAfterFlush,
             \/ item'.disposition = item.disposition
             \/ item'.disposition = "not_accepted" => item.owner \in Refused
      PROVE  SettledInv'
  <2>1. Refused \subseteq Refused' /\ Unasked' = Unasked
    BY <1>1 DEF Refused, Unasked
  <2>2. Finished \subseteq Finished'
    BY <1>1 DEF Finished
  <2>3. OpenIsTracked'
    BY <1>1 DEF SettledInv, OpenIsTracked
  <2>4. ItemInv'
    <3>1. ItemFits(item, Refused', Finished')
      BY <2>1, <2>2, ItemFitsMore DEF SettledInv, ItemInv
    <3>2. ItemFits(item', Refused', Finished')
      BY <1>1, <2>1, <3>1 DEF ItemFits
    <3> QED  BY <1>1, <2>1, <3>2 DEF SettledInv, ItemInv, Owned
  <2>5. ASSUME NEW v \in Workers PROVE LocalsFit(run'[v], Unasked', Refused', Finished')
    <3>1. LocalsFit(run[v], Unasked, Refused, Finished)
      BY DEF SettledInv
    <3>2. LocalsFit(run[v], Unasked', Refused', Finished')
      <4>1. run[v].pc \in PreCall => run[v].id \in Unasked'
        BY <2>1, <3>1 DEF LocalsFit
      <4> QED  BY <2>1, <2>2, <3>1, <4>1, LocalsFitMore
    <3>3. CASE run[v].pc = "idle"
      BY <1>1, <3>2, <3>3
    <3>4. CASE run[v].pc # "idle"
      BY <1>1, <3>2, <3>4 DEF LocalsFit
    <3> QED  BY <3>3, <3>4
  <2> QED  BY <1>1, <2>3, <2>4, <2>5 DEF SettledInv
<1>2. CASE UNCHANGED <<item, run, request, nextId>>
  BY <1>2 DEF SettledInv, RequestShape, OpenIsTracked, Open, ItemInv, Refused, Finished, Unasked
<1>3. ASSUME NEW id \in Ids, ActionListed(id) \/ ActionProgress(id) PROVE SettledInv'
  <2>1. /\ UNCHANGED <<item, run, nextId>> /\ request[id].status = "accepted"
        /\ \A i \in Ids \ {id} : request'[i] = request[i]
        /\ request'[id].status = "accepted"
        /\ \/ request'[id].phase = request[id].phase
           \/ Active(request[id])
    BY <1>3 DEF ActionListed, ActionProgress, deployment, TypeOK, RequestRecord, SettledInv,
                RequestShape, Active
  <2>2. Finished \subseteq Finished' /\ \A i \in Ids : Open(i)' => Open(i)
    BY <2>1 DEF Finished, Open, Active, TypeOK, RequestRecord
  <2>3. RequestShape'
    BY <2>1 DEF SettledInv, RequestShape
  <2> QED  BY <1>1, <2>1, <2>2, <2>3
<1>4. CASE Tick
  <2>1. /\ nextId' = nextId
        /\ item'.state = item.state /\ item'.owner = item.owner
        /\ item'.pending = item.pending /\ item'.disposition = item.disposition
        /\ item'.releaseAfterFlush = item.releaseAfterFlush
    BY <1>4 DEF Tick, Later, TypeOK, Items, deployment
  <2>2. \A v \in Workers : /\ run'[v].pc = run[v].pc /\ run'[v].id = run[v].id
                           /\ run'[v].seen = run[v].seen /\ run'[v].plan = run[v].plan
                           /\ run'[v].result = run[v].result
                           /\ run[v].pc = "idle" => run'[v] = run[v]
    BY <1>4 DEF Tick, TypeOK, Locals
  <2>3. \A id \in Ids : /\ request'[id].status = request[id].status
                        /\ request'[id].phase = request[id].phase
                        /\ request'[id].visible = request[id].visible
    BY <1>4 DEF Tick, TypeOK, RequestRecord
  <2>4. Finished' = Finished /\ \A id \in Ids : Open(id)' = Open(id)
    BY <2>3 DEF Finished, Open, Active
  <2>5. RequestShape'
    BY <2>1, <2>3 DEF SettledInv, RequestShape
  <2> QED  BY <1>1, <2>1, <2>2, <2>3, <2>4, <2>5
<1>5. CASE Dispose
  <2>1. /\ UNCHANGED <<run, request, nextId>>
        /\ item'.state = item.state /\ item'.owner = item.owner
        /\ item'.pending = item.pending
        /\ item'.releaseAfterFlush = item.releaseAfterFlush
    BY <1>5 DEF Dispose, service, deployment, TypeOK, Items
  <2>2. ASSUME item'.disposition = "not_accepted", item'.disposition # item.disposition
        PROVE  item.owner \in Refused
    <3>1. /\ item.state = "manual_disposition_required"
          /\ request[item.owner].status # "accepted"
      BY <1>5, <2>2 DEF Dispose, TypeOK, Items
    <3>2. item.owner \in Ids /\ item.owner < nextId
      BY <3>1 DEF SettledInv, ItemInv, Owned, IInv, Bounded
    <3>3. \A v \in Workers : run[v].pc \notin PreCall
      BY <3>1 DEF IInv, LeaseHeld, Owner, OwnerPcs, PreCall, AfterAcquire
    <3> QED  BY <3>1, <3>2, <3>3 DEF Refused
  <2>3. Finished' = Finished /\ RequestShape' /\ \A id \in Ids : Open(id)' = Open(id)
    BY <2>1 DEF Finished, SettledInv, RequestShape, Open
  <2> QED  BY <1>1, <2>1, <2>2, <2>3
<1> QED  BY <1>2, <1>3, <1>4, <1>5
         DEF Environment, ForeignStart, ForeignEnd, Redeploy, deployment, service

\* Before the first invocation there is nothing to settle.
LEMMA InitSettled == Init => SettledInv
<1> SUFFICES ASSUME Init PROVE SettledInv
  OBVIOUS
<1>1. /\ \A w \in Workers : run[w] = Idle
      /\ \A id \in Ids : request[id] = NoRequest
      /\ item = NoItem
  BY DEF Init
<1>2. RequestShape /\ OpenIsTracked
  BY <1>1 DEF RequestShape, OpenIsTracked, Open, NoRequest
<1>3. ItemInv
  BY <1>1 DEF ItemInv, NoItem, ItemFits
<1>4. LocalsFit(Idle, Unasked, Refused, Finished)
  BY DEF LocalsFit, Idle, PreCall, AfterAcquire, AfterCallPcs, CarryPcs, Followers
<1> QED  BY <1>1, <1>2, <1>3, <1>4 DEF SettledInv

\* The inductive step.
LEMMA NextSettled ==
  ASSUME ~OperatorErrs, IInv, SettledInv, [Next]_vars
  PROVE  SettledInv'
<1>0. TypeOK
  BY DEF IInv
<1>1. CASE UNCHANGED vars
  BY <1>1 DEF vars, SettledInv, RequestShape, OpenIsTracked, Open, ItemInv, Refused, Finished,
              Unasked
<1>2. ASSUME NEW w \in Workers, Step(w) PROVE SettledInv'
  <2>1. CASE FreshEvaluation(w)
    BY <1>0, <2>1, AcquireSettled, EvaluateSettled, LatchSettled, ToCallingSettled
    DEF FreshEvaluation
  <2>2. CASE AfterCall(w)
    BY <1>0, <2>2, CallSettled, PostCallSettled, HandOverSettled DEF AfterCall
  <2> QED  BY <1>0, <1>2, <2>1, <2>2, InvokeSettled, ExistingStateSettled DEF Step
<1>3. ASSUME NEW w \in Workers, Crash(w) PROVE SettledInv'
  <2>1. Return(w) /\ UNCHANGED <<item, request, nextId>>
    BY <1>3 DEF Crash, service, deployment
  <2>2. ItemGoesOn
    BY <2>1 DEF ItemGoesOn
  <2> QED  BY <1>0, <2>1, <2>2, ReturnSettled
<1> QED  BY <1>0, <1>1, <1>2, <1>3, EnvironmentSettled DEF Next

-----------------------------------------------------------------------------
(* The theorems.                                                           *)

\* What the item, its copies and the pending events say of the requests is
\* right in every reachable state.
THEOREM WhatIsSaidIsSo ==
  ASSUME ~OperatorErrs
  PROVE  Spec => []SettledInv
<1>1. IInv /\ SettledInv /\ [Next]_vars => SettledInv'
  BY NextSettled
<1> QED  BY <1>1, Inductive, InitSettled, PTL DEF Spec

\* UpdateFileSystem is called only with no earlier request in flight, however
\* many invocations overlap, whatever crashes or expires, listed or not, as
\* long as the operator calls refused only what was.
THEOREM NoCallWhileUnsettled ==
  ASSUME ~OperatorErrs
  PROVE  Spec => []CallOnlyWhenSettled
<1>1. IInv /\ SettledInv => CallOnlyWhenSettled
  <2> SUFFICES ASSUME IInv, SettledInv, NEW w \in Workers, run[w].pc = "call",
                      NEW id \in Ids, Open(id)
               PROVE  FALSE
    BY DEF CallOnlyWhenSettled
  <2>1. item.owner = run[w].id
    BY DEF IInv, LeaseHeld, Owner, OwnerPcs
  <2>2. run[w].id \in Unasked
    BY DEF SettledInv, LocalsFit, PreCall
  <2> QED  BY <2>1, <2>2, OverIsNotOpen DEF SettledInv, OpenIsTracked
<1> QED  BY <1>1, Inductive, WhatIsSaidIsSo, PTL

-----------------------------------------------------------------------------
(* One invocation at a time, the function's reserved concurrency: then     *)
(* what the archive and the lock item tell of a request is one story.      *)

OneAtATime == \A v, w \in Workers : v = w

Accepted == {id \in Ids : request[id].status = "accepted"}
Asked == {id \in Ids : request[id].status # "none"}
Intended == {id \in Ids : \E o \in Archived(id, 1, "decision") : o.out = "increase"}

Ending == {"released", "blocked"}
Ends(o) == o.event # "decision" /\ o.out \in Ending
Closed == {id \in Ids : \E o \in archive : o.id = id /\ Ends(o)}

\* The outcome an event of request id is archived with; A stands for Accepted.
EventFits(id, ev, out, A) ==
  /\ ev \in {"rejected", "terminal"} => out \in Ending
  /\ ev = "reconciled" => out = "released" \/ id \in A

\* Where a follow-up leads from state st, and what it reports on the way.
EntryLeads(st, e) ==
  /\ e.event # "decision"
  /\ Closes(e) => e.event \in {"rejected", "reconciled", "terminal"}
  /\ e.post = "release" => <<st, "none">> \in Diagram
  /\ e.post \in RequestStates => <<st, e.post>> \in Diagram
  /\ e.post = "submitted" => e.report = "reconciled"
  /\ e.post = "resent" => IF st = "blocked" THEN e.report = "blocked"
                          ELSE st \in {"submitted", "optimizing"} /\ e.report = "submitted"

EntryStory(st, id, e, A) == EventFits(id, e.event, e.out, A) /\ EntryLeads(st, e)

\* The item, or a copy of it: at most one pending event, and a deferred
\* release only with the rejection on record or about to be.
ItemStory(it, A, C) ==
  /\ it.disposition = "accepted" => it.owner \in A
  /\ \A e \in it.pending : EntryStory(it.state, it.owner, e, A)
  /\ \A e, f \in it.pending : e = f
  /\ it.releaseAfterFlush = TRUE =>
       it.owner \in C \/ \E e \in it.pending : e.event = "rejected"

\* The archive X holds the event of follow-up e of request id.
OnArchive(id, e, X) ==
  e.event # "none" => \E o \in X : o.id = id /\ o.seq = e.seq /\ o.event = e.event

IntentPcs == {"recheck", "announce", "toCalling", "call"}
FlushPcs == {"keepPending", "flushReport", "flushWrite"}
HandlerPcs == {"clear", "handle", "archive", "pend", "report", "write"}
ArchivedPcs == {"flushReport", "flushWrite", "report", "write"}

\* The locals r of an invocation against the item and the archive X.
StoryFits(r, it, A, C, I, X) ==
  /\ r.pc = "evaluate" => \A o \in X : o.id # r.id
  /\ r.pc \in IntentPcs => r.id \in I
  /\ r.pc = "postCall" => r.result # "none"
  /\ r.pc \in CarryPcs =>
       /\ ItemStory(r.seen, A, C) /\ r.seen.releaseAfterFlush = FALSE
       /\ \A e \in r.seen.pending : e.post = "none"
  /\ r.pc = "latch" => ItemStory(r.seen, A, C)
  /\ r.pc \in {"settle", "settleRejected"} /\ r.result \in Rejections =>
       r.id \in C \/ \E e \in r.seen.pending : e.event = "rejected"
  /\ r.pc \in Followers =>
       /\ ItemStory(r.seen, A, C) /\ EntryStory(r.seen.state, r.seen.owner, r.plan, A)
       /\ r.seen.owner = it.owner /\ r.seen.state = it.state
       /\ r.seen.releaseAfterFlush = it.releaseAfterFlush
  /\ r.pc \in Followers \ {"flushed"} => r.seen.pending = it.pending
  /\ r.pc \in HandlerPcs \cup {"flushed"} => it.pending = {}
  /\ r.pc \in FlushPcs => r.plan \in it.pending
  /\ r.pc \in ArchivedPcs => OnArchive(it.owner, r.plan, X)

\* What an archived object says is right.
ObjectFits(o, n, A, R, F) ==
  /\ o.id < n
  /\ EventFits(o.id, o.event, o.out, A)
  /\ Ends(o) => o.id \in R \cup F

ArchiveFits == \A o \in archive : ObjectFits(o, nextId, Accepted, Refused, Finished)

\* A request the service saw was meant, and is tracked until it is closed.
OnRecord ==
  /\ Asked \subseteq Intended
  /\ \A id \in Asked : id = item.owner \/ id \in Closed

RecordInv ==
  /\ ArchiveFits
  /\ OnRecord
  /\ ItemStory(item, Accepted, Closed)
  /\ \A w \in Workers : StoryFits(run[w], item, Accepted, Closed, Intended, archive)

-----------------------------------------------------------------------------
(* The story of one item.                                                  *)

\* A story stays right as more requests are accepted and closed.
LEMMA StoryMore ==
  ASSUME NEW it, NEW A, NEW C, NEW A2, NEW C2, A \subseteq A2, C \subseteq C2,
         ItemStory(it, A, C)
  PROVE  ItemStory(it, A2, C2)
  BY DEF ItemStory, EntryStory, EventFits

\* Deadlines, sequence numbers and reports have no part in it.
LEMMA SameStory ==
  ASSUME NEW a, NEW b, NEW A, NEW C, ItemStory(a, A, C),
         b.owner = a.owner, b.pending = a.pending, b.disposition = a.disposition,
         b.releaseAfterFlush = a.releaseAfterFlush,
         b.state = a.state \/ \A e \in a.pending : e.post = "none"
  PROVE  ItemStory(b, A, C)
<1>1. ASSUME NEW e \in b.pending PROVE EntryStory(b.state, b.owner, e, A)
  <2>1. EntryStory(a.state, a.owner, e, A)
    BY DEF ItemStory
  <2>2. CASE b.state = a.state
    BY <2>1, <2>2
  <2>3. CASE e.post = "none"
    BY <2>1, <2>3 DEF EntryStory, EntryLeads, RequestStates
  <2> QED  BY <2>2, <2>3
<1> QED  BY <1>1 DEF ItemStory

\* An event the archive holds, of the kinds that close a request, closes it.
LEMMA RecordCloses ==
  ASSUME ArchiveFits, NEW id, NEW e, OnArchive(id, e, archive),
         e.event \in {"rejected", "reconciled", "terminal"},
         e.event = "reconciled" => id \notin Accepted
  PROVE  \E o \in archive : o.id = id /\ Ends(o)
<1>1. PICK o \in archive : o.id = id /\ o.event = e.event
  BY DEF OnArchive
<1>2. o.out \in Ending
  BY <1>1 DEF ArchiveFits, ObjectFits, EventFits, Ending
<1> QED  BY <1>1, <1>2 DEF Ends

-----------------------------------------------------------------------------
(* Steps.                                                                  *)

\* The archive only grows, by an object that is right.
ArchiveGrows ==
  \/ archive' = archive
  \/ \E o \in ArchiveObject :
       /\ archive' = archive \cup {o}
       /\ ObjectFits(o, nextId, Accepted, Refused, Finished)

\* How the item may change: its state follows the diagram, or it is taken over
\* or removed, and then with nothing pending that is not archived.
ItemMoves ==
  \/ item'.state = item.state /\ item'.owner = item.owner
  \/ /\ <<item.state, item'.state>> \in Diagram /\ item'.owner = item.owner
     /\ item'.state # "none"
  \/ item.state \in {"none", "evaluating"} /\ item'.state = "evaluating"
  \/ /\ item'.state = "none"
     /\ <<item.state, "none">> \in Diagram \/ item.releaseAfterFlush
     /\ \A e \in item.pending : Archived(item.owner, e.seq, e.event) # {}

\* It moves, and its story goes on or is over.
ItemKept ==
  /\ ItemMoves
  /\ \/ item' = item
     \/ /\ ItemStory(item', Accepted', Closed')
        /\ item'.owner = item.owner \/ (item.owner \in Asked => item.owner \in Closed')

\* A step that changes nothing at the service, and no verdict.
Quiet ==
  /\ UNCHANGED <<request, nextId>>
  /\ Refused \subseteq Refused' /\ Finished \subseteq Finished'

\* Records stay.
LEMMA RecordsStay ==
  ASSUME TypeOK, UNCHANGED request, ArchiveGrows
  PROVE  /\ archive \subseteq archive' /\ Closed \subseteq Closed'
         /\ Intended \subseteq Intended' /\ Accepted' = Accepted /\ Asked' = Asked
  BY DEF ArchiveGrows, Closed, Intended, Archived, Accepted, Asked

\* And stay right.
LEMMA ObjectsStayRight ==
  ASSUME TypeOK, RecordInv, Quiet, ArchiveGrows
  PROVE  ArchiveFits'
<1>1. ASSUME NEW o, ObjectFits(o, nextId, Accepted, Refused, Finished)
      PROVE  ObjectFits(o, nextId', Accepted', Refused', Finished')
  BY <1>1, RecordsStay DEF ObjectFits, Quiet
<1> QED  BY <1>1 DEF ArchiveGrows, RecordInv, ArchiveFits

\* A step of the one invocation keeps the story.
LEMMA FrameRecord ==
  ASSUME TypeOK, RecordInv, NEW w \in Workers, \A v \in Workers : v = w,
         Quiet, ArchiveGrows, ItemKept,
         StoryFits(run'[w], item', Accepted', Closed', Intended', archive')
  PROVE  RecordInv' /\ ItemMoves
<1>1. ArchiveFits'
  BY ObjectsStayRight
<1>0. UNCHANGED request
  BY DEF Quiet
<1>2. OnRecord'
  <2>1. Asked' \subseteq Intended'
    BY <1>0, RecordsStay DEF RecordInv, OnRecord
  <2>2. ASSUME NEW id \in Asked PROVE id = item'.owner \/ id \in Closed'
    BY <1>0, RecordsStay DEF RecordInv, OnRecord, ItemKept
  <2> QED  BY <2>1, <2>2, <1>0, RecordsStay DEF OnRecord
<1>3. ItemStory(item', Accepted', Closed')
  <2>1. ItemStory(item, Accepted', Closed')
    BY <1>0, RecordsStay, StoryMore DEF RecordInv
  <2> QED  BY <2>1 DEF ItemKept
<1>4. \A v \in Workers : StoryFits(run'[v], item', Accepted', Closed', Intended', archive')
  OBVIOUS
<1> QED  BY <1>1, <1>2, <1>3, <1>4 DEF RecordInv, ItemKept

\* A put under the item's own ID.
LEMMA PutKept ==
  ASSUME TypeOK, NEW w \in Workers, NEW owner, NEW st, NEW new \in Items,
         Transition(w, owner, st, new), new.owner = owner, new.state # "none",
         new.state = st \/ <<st, new.state>> \in Diagram,
         ItemStory(new, Accepted', Closed')
  PROVE  ItemKept
<1>1. CASE Holds(owner, st)
  <2> DEFINE put == Later(Stored(new), run[w].age)
  <2>1. item' = put /\ run[w].age \in Nat
    BY <1>1 DEF Transition, TypeOK, Locals
  <2>2. /\ put.state = new.state /\ put.owner = new.owner /\ put.pending = new.pending
        /\ put.disposition = new.disposition
        /\ put.releaseAfterFlush = new.releaseAfterFlush
    BY <2>1, LaterFits
  <2> HIDE DEF put
  <2>3. ItemStory(put, Accepted', Closed')
    BY <2>2, SameStory
  <2>4. item'.owner = item.owner /\ item'.state = new.state /\ item.state = st
    BY <1>1, <2>1, <2>2 DEF Holds
  <2> QED  BY <2>1, <2>3, <2>4 DEF ItemKept, ItemMoves
<1>2. CASE ~Holds(owner, st)
  BY <1>2 DEF Transition, ItemKept, ItemMoves
<1> QED  BY <1>1, <1>2

\* A removal.
LEMMA DropKept ==
  ASSUME TypeOK, NEW owner, NEW st, ReleaseItem(owner, st),
         Holds(owner, st) =>
           /\ owner \in Asked => owner \in Closed'
           /\ <<st, "none">> \in Diagram \/ item.releaseAfterFlush
           /\ \A e \in item.pending : Archived(owner, e.seq, e.event) # {}
  PROVE  ItemKept
<1>1. CASE Holds(owner, st)
  <2>1. item' = NoItem
    BY <1>1 DEF ReleaseItem
  <2>2. ItemStory(NoItem, Accepted', Closed') /\ NoItem.state = "none"
    BY DEF ItemStory, NoItem
  <2> QED  BY <1>1, <2>1, <2>2 DEF ItemKept, ItemMoves, Holds
<1>2. CASE ~Holds(owner, st)
  BY <1>2 DEF ReleaseItem, ItemKept, ItemMoves
<1> QED  BY <1>1, <1>2

\* An item left alone.
LEMMA SameKept ==
  ASSUME item' = item PROVE ItemKept
  BY DEF ItemKept, ItemMoves

\* An archive write.
LEMMA PutGrows ==
  ASSUME TypeOK, NEW ok, NEW id \in Ids \cup {0}, NEW seq \in Nat, NEW ev \in Events,
         NEW out \in Outcomes, TryPut(ok, id, seq, ev, out),
         id < nextId, EventFits(id, ev, out, Accepted),
         ev # "decision" /\ out \in Ending => id \in Refused \cup Finished
  PROVE  /\ ArchiveGrows
         /\ ok = TRUE => \E o \in archive' : o.id = id /\ o.seq = seq /\ o.event = ev
<1> DEFINE o == [id |-> id, seq |-> seq, event |-> ev, out |-> out]
<1>1. /\ o \in ArchiveObject /\ o.id = id /\ o.seq = seq /\ o.event = ev /\ o.out = out
  BY DEF ArchiveObject
<1>2. ObjectFits(o, nextId, Accepted, Refused, Finished)
  BY <1>1 DEF ObjectFits, Ends
<1>3. archive' = archive \/ archive' = archive \cup {o}
  BY DEF TryPut, PutObject
<1>4. ASSUME ok = TRUE PROVE \E x \in archive' : x.id = id /\ x.seq = seq /\ x.event = ev
  <2>1. \/ Archived(id, seq, ev) # {} /\ archive' = archive
        \/ archive' = archive \cup {o}
    BY <1>4 DEF TryPut, PutObject
  <2>2. CASE Archived(id, seq, ev) # {} /\ archive' = archive
    BY <2>2 DEF Archived
  <2>3. CASE archive' = archive \cup {o}
    BY <1>1, <2>3
  <2> QED  BY <2>1, <2>2, <2>3
<1> QED  BY <1>1, <1>2, <1>3, <1>4 DEF ArchiveGrows

\* The end of the invocation.
LEMMA ReturnRecord ==
  ASSUME TypeOK, RecordInv, NEW w \in Workers, \A v \in Workers : v = w,
         Quiet, ArchiveGrows, ItemKept, Return(w)
  PROVE  RecordInv' /\ ItemMoves
<1>1. run'[w] = Idle
  BY DEF Return, TypeOK
<1>2. StoryFits(Idle, item', Accepted', Closed', Intended', archive')
  BY DEF StoryFits, Idle, IntentPcs, CarryPcs, Followers, HandlerPcs, FlushPcs, ArchivedPcs
<1> QED  BY <1>1, <1>2, FrameRecord

\* A step other than the conditional put and the call lets nobody in who may
\* still call.
LEMMA NoNewCaller ==
  ASSUME TypeOK, NEW w \in Workers, Step(w), ~Acquire(w), ~Call(w)
  PROVE  /\ UNCHANGED <<request, nextId>>
         /\ \A v \in Workers : run'[v].pc \in PreCall =>
              run[v].pc \in PreCall /\ run'[v].id = run[v].id
<1>1. UNCHANGED <<request, nextId>>
  BY DEF Step, FreshEvaluation, AfterCall, ExistingState, Invoke, DecideNoCall, Refuse, Latch,
         WriteIntent, Recheck, Announce, ToCalling, Release, PostCall, SettleSubmitted,
         ReportSubmitted, MarkSent, ReportRejected, SettleRejected, SettleAmbiguous,
         ReportAmbiguous, FlushArchive, FlushReport, KeepPending, FlushWrite, AfterFlush,
         ClearRejected, Handle, ArchiveFollowUp, Pend, Report, Write, service, deployment
<1>2. \A v \in Workers \ {w} : run'[v] = run[v]
  BY OthersUnchanged
<1>3. ASSUME run'[w].pc \in PreCall PROVE run[w].pc \in PreCall /\ run'[w].id = run[w].id
  <2>1. CASE Return(w)
    BY <1>3, <2>1, OwnLocals DEF Return, Idle, PreCall, AfterAcquire
  <2>2. ASSUME run[w].pc \in PreCall, NEW l, Goto(w, l)
        PROVE  run[w].pc \in PreCall /\ run'[w].id = run[w].id
    BY <2>2, OwnLocals DEF Goto, Locals
  <2>3. ASSUME NEW l \in Pcs \ PreCall, Goto(w, l) PROVE FALSE
    BY <1>3, <2>3, OwnLocals DEF Goto, Locals
  <2>4. CASE \/ DecideNoCall(w) \/ Latch(w) \/ WriteIntent(w) \/ Recheck(w) \/ Announce(w)
             \/ ToCalling(w) \/ Release(w)
    <3>1. run[w].pc \in PreCall /\ (Return(w) \/ \E l : Goto(w, l))
      BY <2>4 DEF DecideNoCall, Conclude, Latch, WriteIntent, Recheck, Announce, ToCalling,
                  Release, PreCall, AfterAcquire
    <3> QED  BY <2>1, <2>2, <3>1
  <2>5. CASE \/ SettleSubmitted(w) \/ ReportSubmitted(w) \/ MarkSent(w) \/ SettleRejected(w)
             \/ SettleAmbiguous(w) \/ ReportAmbiguous(w) \/ FlushReport(w) \/ KeepPending(w)
             \/ FlushWrite(w) \/ ClearRejected(w) \/ ArchiveFollowUp(w) \/ Pend(w) \/ Report(w)
    <3>1. \/ Return(w)
          \/ \E l \in {"reportSubmitted", "markSent", "reportAmbiguous", "flushWrite",
                       "keepPending", "flushed", "report", "pend", "write"} : Goto(w, l)
      BY <2>5 DEF SettleSubmitted, ReportSubmitted, MarkSent, SettleRejected, SettleAmbiguous,
                  ReportAmbiguous, FlushReport, KeepPending, FlushWrite, ClearRejected,
                  ArchiveFollowUp, Pend, Report
    <3> QED  BY <2>1, <2>3, <3>1 DEF PreCall, AfterAcquire, Pcs
  <2>6. CASE Invoke(w)
    <3>1. FirstStep(item) \in {"acquire", "flush", "handle", "idle"}
      BY DEF FirstStep
    <3>2. run'[w].pc = FirstStep(item)
      BY <2>6, OwnLocals DEF Invoke, Locals
    <3> QED  BY <1>3, <3>1, <3>2 DEF PreCall, AfterAcquire
  <2>7. CASE Refuse(w)
    <3>1. run[w].pc \in PreCall
      BY <2>7 DEF Refuse, PreCall, AfterAcquire
    <3>2. PICK s : run' = [run EXCEPT ![w].pc = "latch", ![w].seen = s]
      BY <2>7 DEF Refuse
    <3> QED  BY <3>1, <3>2, OwnLocals DEF Locals
  <2>8. CASE PostCall(w) \/ AfterFlush(w) \/ FlushArchive(w) \/ Handle(w)
    <3>1. CASE PostCall(w)
      <4>1. PICK s : run' = [run EXCEPT ![w].pc = "settle", ![w].seen = s]
        BY <3>1 DEF PostCall
      <4> QED  BY <1>3, <4>1, OwnLocals DEF Locals, PreCall, AfterAcquire
    <3>2. CASE AfterFlush(w)
      <4> DEFINE new == IF item.state = "none" THEN run[w].seen ELSE Earlier(item, run[w].age)
                 l == IF new.releaseAfterFlush THEN "clear" ELSE "handle"
      <4>1. run' = [run EXCEPT ![w].seen = new, ![w].plan = NoPlan, ![w].pc = l]
        BY <3>2 DEF AfterFlush
      <4>2. l \in {"clear", "handle"}
        OBVIOUS
      <4> HIDE DEF new, l
      <4>3. run'[w].pc = l
        BY <4>1, OwnLocals DEF Locals
      <4> QED  BY <1>3, <4>2, <4>3 DEF PreCall, AfterAcquire
    <3>3. CASE FlushArchive(w) \/ Handle(w)
      <4>1. \/ Return(w)
            \/ \E p \in Entry, l \in {"keepPending", "flushReport", "flushWrite", "report",
                                     "archive"} :
                 run' = [run EXCEPT ![w].plan = p, ![w].pc = l]
        BY <3>3, FollowUpOfType, OwnLocals DEF FlushArchive, Handle, Items
      <4>2. ASSUME NEW p, NEW l, run' = [run EXCEPT ![w].plan = p, ![w].pc = l]
            PROVE  run'[w].pc = l
        BY <4>2, OwnLocals DEF Locals
      <4> QED  BY <1>3, <2>1, <4>1, <4>2 DEF PreCall, AfterAcquire
    <3> QED  BY <2>8, <3>1, <3>2, <3>3
  <2>9. CASE ReportRejected(w)
    <3>1. PICK s \in BOOLEAN :
            run' = [run EXCEPT ![w] = [run[w] EXCEPT !.pc = "settleRejected",
                      !.seen = [run[w].seen EXCEPT !.sent = s]]]
      BY <2>9, OwnLocals DEF ReportRejected, Locals
    <3> QED  BY <1>3, <3>1, OwnLocals DEF Locals, PreCall, AfterAcquire
  <2>10. CASE Write(w)
    <3>1. CASE run' = [run EXCEPT ![w] = [Idle EXCEPT !.pc = "acquire", !.age = run[w].age]]
      BY <1>3, <3>1, OwnLocals DEF Idle, PreCall, AfterAcquire
    <3> QED  BY <2>1, <2>10, <3>1 DEF Write
  <2> QED  BY <2>4, <2>5, <2>6, <2>7, <2>8, <2>9, <2>10
           DEF Step, FreshEvaluation, AfterCall, ExistingState
<1> QED  BY <1>1, <1>2, <1>3

\* Verdicts stay, whatever an invocation does.
LEMMA StepVerdicts ==
  ASSUME TypeOK, IInv, SettledInv, NEW w \in Workers, Step(w)
  PROVE  Refused \subseteq Refused' /\ Finished \subseteq Finished'
<1>1. CASE Acquire(w)
  BY <1>1, AcquireVerdicts
<1>2. CASE Call(w)
  BY <1>2, CallVerdicts
<1>3. CASE ~Acquire(w) /\ ~Call(w)
  BY <1>3, NoNewCaller, QuietKept
<1> QED  BY <1>1, <1>2, <1>3

\* So does every step but the conditional put and the call.
LEMMA StepQuiet ==
  ASSUME TypeOK, IInv, SettledInv, NEW w \in Workers, Step(w),
         run[w].pc \notin {"acquire", "call"}
  PROVE  Quiet
<1>1. ~Acquire(w) /\ ~Call(w)
  BY DEF Acquire, Call
<1> QED  BY <1>1, NoNewCaller, StepVerdicts DEF Quiet

\* A step of the one invocation to another label with the same locals.
LEMMA GotoRecord ==
  ASSUME TypeOK, RecordInv, NEW w \in Workers, \A v \in Workers : v = w,
         Quiet, ArchiveGrows, ItemKept, NEW l, Goto(w, l),
         StoryFits([run[w] EXCEPT !.pc = l], item', Accepted', Closed', Intended', archive')
  PROVE  RecordInv' /\ ItemMoves
<1>1. run'[w] = [run[w] EXCEPT !.pc = l]
  BY DEF Goto, TypeOK
<1> QED  BY <1>1, FrameRecord

-----------------------------------------------------------------------------
(* The steps of an invocation.                                             *)

\* A new invocation reads the item.
LEMMA InvokeRecord ==
  ASSUME TypeOK, IInv, SettledInv, RecordInv, NEW w \in Workers, \A v \in Workers : v = w,
         Invoke(w)
  PROVE  RecordInv' /\ ItemMoves
<1>1. item' = item /\ archive' = archive /\ run[w].pc = "idle"
      /\ FirstStep(item) \in {"acquire", "flush", "handle"}
  BY DEF Invoke, sinks, FirstStep
<1>2. Quiet
  BY <1>1, StepQuiet DEF Step
<1>3. /\ run'[w].pc = FirstStep(item) /\ run'[w].plan = NoPlan
      /\ run'[w].seen = IF FirstStep(item) = "acquire" THEN NoItem ELSE item
  BY OwnLocals DEF Invoke, Locals, SettledInv, LocalsFit, Idle
<1>4. ItemStory(item, Accepted', Closed')
  BY <1>1, <1>2, RecordsStay, StoryMore DEF RecordInv, ArchiveGrows, Quiet
<1>5. EntryStory(item.state, item.owner, NoPlan, Accepted')
  BY DEF EntryStory, EventFits, EntryLeads, NoPlan, FollowUp, Closes, RequestStates
<1>6. FirstStep(item) = "handle" => item.pending = {}
  BY DEF FirstStep
<1>7. StoryFits(run'[w], item', Accepted', Closed', Intended', archive')
  BY <1>1, <1>3, <1>4, <1>5, <1>6
  DEF StoryFits, IntentPcs, CarryPcs, Followers, HandlerPcs, FlushPcs, ArchivedPcs
<1> QED  BY <1>1, <1>2, <1>7, FrameRecord, SameKept DEF ArchiveGrows

\* The branches of a fresh evaluation that only go on, or end.
LEMMA EvaluateRecord ==
  ASSUME TypeOK, IInv, SettledInv, RecordInv, NEW w \in Workers, \A v \in Workers : v = w,
         DecideNoCall(w) \/ WriteIntent(w) \/ Recheck(w) \/ Announce(w)
  PROVE  RecordInv' /\ ItemMoves
<1>1. Quiet
  BY StepQuiet DEF Step, FreshEvaluation, DecideNoCall, Conclude, WriteIntent, Recheck, Announce
<1>2. ItemKept
  BY SameKept DEF DecideNoCall, WriteIntent, Recheck, Announce
<1>3. run[w].id \in Ids /\ run[w].id < nextId /\ StoryFits(run[w], item, Accepted, Closed, Intended, archive)
  BY DEF IInv, Bounded, RecordInv, SettledInv, LocalsFit, Unasked, PreCall, AfterAcquire,
         DecideNoCall, WriteIntent, Recheck, Announce
<1>4. ArchiveGrows
  <2>1. \/ archive' = archive
        \/ \E ok \in BOOLEAN, seq \in {1, 2}, out \in {"no_call", "increase"} :
             TryPut(ok, run[w].id, seq, "decision", out)
    BY DEF DecideNoCall, Conclude, WriteIntent, Recheck, Announce, TryPut, sinks
  <2>2. ASSUME NEW ok \in BOOLEAN, NEW seq \in {1, 2}, NEW out \in {"no_call", "increase"},
               TryPut(ok, run[w].id, seq, "decision", out)
        PROVE  ArchiveGrows
    <3>1. EventFits(run[w].id, "decision", out, Accepted)
      BY DEF EventFits
    <3>2. seq \in Nat /\ out \in Outcomes /\ "decision" \in Events
      BY DEF Outcomes, Events
    <3> QED  BY <1>3, <2>2, <3>1, <3>2, PutGrows
  <2> QED  BY <2>1, <2>2 DEF ArchiveGrows
<1>5. Intended \subseteq Intended'
  BY <1>1, <1>4, RecordsStay DEF Quiet
<1>6. ASSUME NEW l \in {"recheck", "announce", "toCalling"}, Goto(w, l)
      PROVE  run[w].id \in Intended'
  <2>1. CASE run[w].pc \in IntentPcs
    BY <1>3, <1>5, <2>1 DEF StoryFits
  <2>2. CASE run[w].pc \notin IntentPcs
    <3>1. run[w].pc = "evaluate"
      BY <2>2 DEF DecideNoCall, WriteIntent, Recheck, Announce, IntentPcs
    <3>2. run'[w].pc = l
      BY <1>6, OwnLocals DEF Goto, Locals
    <3>3. PutObject(run[w].id, 1, "decision", "increase")
      <4>1. CASE WriteIntent(w)
        <5>1. \/ PutObject(run[w].id, 1, "decision", "increase")
              \/ Goto(w, "release") \/ Return(w)
          BY <4>1 DEF WriteIntent
        <5>2. ~Return(w) /\ ~Goto(w, "release")
          BY <3>2, OwnLocals DEF Return, Goto, Idle, Locals
        <5> QED  BY <5>1, <5>2
      <4>2. CASE DecideNoCall(w)
        BY <3>2, <4>2, OwnLocals DEF DecideNoCall, Conclude, Return, Goto, Idle, Locals
      <4> QED  BY <3>1, <4>1, <4>2 DEF Recheck, Announce
    <3>4. Archived(run[w].id, 1, "decision") = {}
      BY <1>3, <3>1 DEF StoryFits, Archived
    <3>5. [id |-> run[w].id, seq |-> 1, event |-> "decision", out |-> "increase"] \in archive'
      BY <3>3, <3>4 DEF PutObject
    <3> QED  BY <1>3, <3>5 DEF Intended, Archived
  <2> QED  BY <2>1, <2>2
<1>7. ASSUME NEW l \in {"release", "recheck", "announce", "toCalling"}, Goto(w, l)
      PROVE  RecordInv' /\ ItemMoves
  <2> DEFINE r == [run[w] EXCEPT !.pc = l]
  <2>1. r.pc = l /\ r.id = run[w].id
    BY OwnLocals DEF Locals
  <2> HIDE DEF r
  <2>2. StoryFits(r, item', Accepted', Closed', Intended', archive')
    BY <1>6, <1>7, <2>1
    DEF StoryFits, IntentPcs, CarryPcs, Followers, HandlerPcs, FlushPcs, ArchivedPcs
  <2> QED  BY <1>1, <1>2, <1>4, <1>7, <2>2, GotoRecord DEF r
<1>8. Return(w) \/ \E l \in {"release", "recheck", "announce", "toCalling"} : Goto(w, l)
  BY DEF DecideNoCall, Conclude, WriteIntent, Recheck, Announce
<1> QED  BY <1>1, <1>2, <1>4, <1>7, <1>8, ReturnRecord

\* A refusal, its latch, and a release without a call: nothing was asked.
LEMMA RefusalRecord ==
  ASSUME TypeOK, IInv, SettledInv, RecordInv, NEW w \in Workers, \A v \in Workers : v = w,
         Refuse(w) \/ Latch(w) \/ Release(w)
  PROVE  RecordInv' /\ ItemMoves
<1>1. Quiet
  BY StepQuiet DEF Step, FreshEvaluation, Refuse, Latch, Release
<1>2. /\ run[w].id \in Ids /\ run[w].id < nextId /\ run[w].id \notin Asked
      /\ StoryFits(run[w], item, Accepted, Closed, Intended, archive)
  BY DEF IInv, Bounded, RecordInv, SettledInv, LocalsFit, Unasked, Asked, PreCall, AfterAcquire,
         Refuse, Latch, Release
<1>3. CASE Refuse(w)
  <2> DEFINE latch(sent) == [NoItem EXCEPT !.state = "blocked", !.owner = run[w].id, !.seq = 1,
                               !.sent = sent, !.fp = fingerprint]
  <2>1. PICK ok \in BOOLEAN, sent \in BOOLEAN :
          /\ TryPut(ok, run[w].id, 1, "decision", "blocked")
          /\ run' = [run EXCEPT ![w].pc = "latch", ![w].seen = latch(sent)]
    BY <1>3 DEF Refuse
  <2>2. /\ latch(sent).disposition = "none" /\ latch(sent).pending = {}
        /\ latch(sent).releaseAfterFlush = FALSE
    BY DEF NoItem
  <2> HIDE DEF latch
  <2>3. run'[w].pc = "latch" /\ run'[w].seen = latch(sent)
    BY <2>1, OwnLocals DEF Locals
  <2>4. ItemStory(latch(sent), Accepted', Closed')
    BY <2>2 DEF ItemStory
  <2>5. StoryFits(run'[w], item', Accepted', Closed', Intended', archive')
    BY <2>3, <2>4
    DEF StoryFits, IntentPcs, CarryPcs, Followers, HandlerPcs, FlushPcs, ArchivedPcs
  <2>6. ArchiveGrows
    <3>1. EventFits(run[w].id, "decision", "blocked", Accepted)
      BY DEF EventFits
    <3>2. 1 \in Nat /\ "blocked" \in Outcomes /\ "decision" \in Events
      BY DEF Outcomes, Events
    <3> QED  BY <1>2, <2>1, <3>1, <3>2, PutGrows
  <2> QED  BY <1>1, <1>3, <2>5, <2>6, FrameRecord, SameKept DEF Refuse
<1>4. CASE Latch(w)
  <2>1. /\ run[w].seen.owner = run[w].id /\ run[w].seen.state = "blocked"
        /\ run[w].seen \in Items
    BY <1>4, OwnLocals DEF Latch, SettledInv, LocalsFit
  <2>2. ArchiveGrows /\ archive' = archive
    BY <1>4 DEF Latch, sinks, ArchiveGrows
  <2>3. ItemStory(run[w].seen, Accepted', Closed')
    BY <1>1, <1>2, <1>4, <2>2, StoryMore, RecordsStay DEF Latch, StoryFits, Quiet
  <2>4. Transition(w, run[w].id, "evaluating", run[w].seen) /\ Return(w)
    BY <1>4 DEF Latch
  <2>5. ItemKept
    BY <2>1, <2>3, <2>4, PutKept DEF Diagram
  <2> QED  BY <1>1, <2>2, <2>4, <2>5, ReturnRecord
<1>5. CASE Release(w)
  <2>1. ArchiveGrows /\ archive' = archive
    BY <1>5 DEF Release, sinks, ArchiveGrows
  <2>2. item.pending = {}
    BY <1>5 DEF Release, IInv, LeaseHeld, Owner, OwnerPcs
  <2>3. ReleaseItem(run[w].id, "evaluating") /\ Return(w)
    BY <1>5 DEF Release
  <2>4. ItemKept
    BY <1>2, <2>2, <2>3, DropKept DEF Diagram
  <2> QED  BY <1>1, <2>1, <2>3, <2>4, ReturnRecord
<1> QED  BY <1>3, <1>4, <1>5

\* The evaluation becomes the call it will make.
LEMMA ToCallingRecord ==
  ASSUME TypeOK, IInv, SettledInv, RecordInv, NEW w \in Workers, \A v \in Workers : v = w,
         ToCalling(w)
  PROVE  RecordInv' /\ ItemMoves
<1>1. Quiet
  BY StepQuiet DEF Step, FreshEvaluation, ToCalling
<1>2. ArchiveGrows /\ archive' = archive
  BY DEF ToCalling, sinks, ArchiveGrows
<1>3. /\ run[w].id \in Ids
      /\ StoryFits(run[w], item, Accepted, Closed, Intended, archive) /\ run[w].pc = "toCalling"
  BY DEF RecordInv, SettledInv, LocalsFit, Unasked, PreCall, AfterAcquire, ToCalling
<1> DEFINE new == [NoItem EXCEPT !.state = "calling", !.owner = run[w].id, !.seq = 1,
                     !.lease = LeaseTerm, !.window = ReconcileTerm, !.sent = FALSE]
<1>4. /\ new \in Items /\ new.owner = run[w].id /\ new.state = "calling" /\ new.pending = {}
      /\ new.disposition = "none" /\ new.releaseAfterFlush = FALSE
  BY <1>3, ConstantsAssumption DEF NoItem, Items, LockStates, Dispositions
<1>5. Transition(w, run[w].id, "evaluating", new)
  BY DEF ToCalling
<1> HIDE DEF new
<1>6. ItemKept
  <2>1. ItemStory(new, Accepted', Closed')
    BY <1>4 DEF ItemStory
  <2> QED  BY <1>4, <1>5, <2>1, PutKept DEF Diagram
<1>7. CASE Return(w)
  BY <1>1, <1>2, <1>6, <1>7, ReturnRecord
<1>8. CASE Goto(w, "call")
  <2> DEFINE r == [run[w] EXCEPT !.pc = "call"]
  <2>1. r.pc = "call" /\ r.id = run[w].id
    BY OwnLocals DEF Locals
  <2> HIDE DEF r
  <2>2. run[w].id \in Intended'
    BY <1>1, <1>2, <1>3, RecordsStay DEF StoryFits, IntentPcs, Quiet
  <2>3. StoryFits(r, item', Accepted', Closed', Intended', archive')
    BY <2>1, <2>2
    DEF StoryFits, IntentPcs, CarryPcs, Followers, HandlerPcs, FlushPcs, ArchivedPcs
  <2> QED  BY <1>1, <1>2, <1>6, <1>8, <2>3, GotoRecord DEF r
<1> QED  BY <1>7, <1>8 DEF ToCalling

\* Taking the lock over: nothing was asked for the evaluation that expired.
LEMMA AcquireRecord ==
  ASSUME TypeOK, IInv, SettledInv, RecordInv, NEW w \in Workers, \A v \in Workers : v = w,
         Acquire(w)
  PROVE  RecordInv' /\ ItemMoves
<1>1. /\ UNCHANGED request /\ archive' = archive /\ run[w].pc = "acquire" /\ ArchiveGrows
      /\ Refused \subseteq Refused' /\ Finished \subseteq Finished'
  BY AcquireVerdicts DEF Acquire, service, sinks, ArchiveGrows
<1>2. CASE Return(w) /\ UNCHANGED <<item, nextId>>
  BY <1>1, <1>2, ReturnRecord, SameKept DEF Quiet
<1>3. CASE /\ \/ item.state = "none"
              \/ item.state = "evaluating" /\ item.lease = 0 /\ item.pending = {}
           /\ item' = Later([NoItem EXCEPT !.state = "evaluating", !.owner = nextId,
                                           !.lease = LeaseTerm], run[w].age)
           /\ run' = [run EXCEPT ![w].pc = "evaluate", ![w].id = nextId]
           /\ nextId' = nextId + 1
  <2>1. run'[w].pc = "evaluate" /\ run'[w].id = nextId
    BY <1>3, OwnLocals DEF Locals
  <2>2. /\ item'.state = "evaluating" /\ item'.owner = nextId /\ item'.pending = {}
        /\ item'.disposition = "none" /\ item'.releaseAfterFlush = FALSE
    BY <1>3 DEF Later, NoItem
  <2>3. nextId \in Nat /\ nextId' \in Nat /\ nextId < nextId'
    BY <1>3 DEF TypeOK
  <2>4. Accepted' = Accepted /\ Asked' = Asked /\ Intended' = Intended /\ Closed' = Closed
    BY <1>1 DEF Accepted, Asked, Intended, Archived, Closed
  <2>5. ArchiveFits'
    <3>1. ASSUME NEW o \in archive
          PROVE  ObjectFits(o, nextId', Accepted', Refused', Finished')
      <4>1. ObjectFits(o, nextId, Accepted, Refused, Finished) /\ o.id \in Nat
        BY DEF RecordInv, ArchiveFits, TypeOK, ArchiveObject, Ids
      <4>2. o.id < nextId'
        BY <2>3, <4>1 DEF ObjectFits
      <4> QED  BY <1>1, <2>4, <4>1, <4>2 DEF ObjectFits
    <3> QED  BY <1>1, <3>1 DEF ArchiveFits
  <2>6. OnRecord'
    <3>1. item.owner \notin Asked
      BY <1>3 DEF SettledInv, ItemInv, Owned, Unasked, Asked, Ids
    <3> QED  BY <2>4, <3>1 DEF OnRecord, RecordInv
  <2>7. ItemStory(item', Accepted', Closed')
    BY <2>2 DEF ItemStory
  <2>8. StoryFits(run'[w], item', Accepted', Closed', Intended', archive')
    <3>1. \A o \in archive : o.id # nextId
      BY <2>3 DEF RecordInv, ArchiveFits, ObjectFits, TypeOK, ArchiveObject, Ids
    <3> QED  BY <1>1, <2>1, <3>1
             DEF StoryFits, IntentPcs, CarryPcs, Followers, HandlerPcs, FlushPcs, ArchivedPcs
  <2>9. ItemMoves
    BY <1>3, <2>2 DEF ItemMoves
  <2>10. \A v \in Workers : StoryFits(run'[v], item', Accepted', Closed', Intended', archive')
    BY <2>8
  <2> QED  BY <2>5, <2>6, <2>7, <2>9, <2>10 DEF RecordInv
<1> QED  BY <1>2, <1>3 DEF Acquire

\* The request is made with its intent on record.
LEMMA CallRecord ==
  ASSUME TypeOK, IInv, SettledInv, RecordInv, NEW w \in Workers, \A v \in Workers : v = w,
         Call(w)
  PROVE  RecordInv' /\ ItemMoves
<1>1. /\ item' = item /\ nextId' = nextId /\ archive' = archive
      /\ item.owner = run[w].id /\ run[w].id \in Unasked
      /\ \A i \in Ids \ {run[w].id} : request'[i] = request[i]
      /\ run'[w].pc = "postCall" /\ run'[w].result # "none"
      /\ Refused \subseteq Refused' /\ Finished \subseteq Finished'
  BY CallAnswer, CallVerdicts
<1>2. /\ Accepted \subseteq Accepted' /\ Accepted' \subseteq Accepted \cup {run[w].id}
      /\ Asked' \subseteq Asked \cup {run[w].id} /\ Intended' = Intended /\ Closed' = Closed
  BY <1>1 DEF Accepted, Asked, Intended, Archived, Closed, Unasked
<1>3. run[w].id \in Intended
  BY DEF RecordInv, StoryFits, IntentPcs, Call
<1>4. ArchiveFits'
  <2>1. ASSUME NEW o \in archive
        PROVE  ObjectFits(o, nextId', Accepted', Refused', Finished')
    <3>1. ObjectFits(o, nextId, Accepted, Refused, Finished)
      BY DEF RecordInv, ArchiveFits
    <3> QED  BY <1>1, <1>2, <3>1 DEF ObjectFits, EventFits
  <2> QED  BY <1>1, <2>1 DEF ArchiveFits
<1>5. OnRecord'
  BY <1>1, <1>2, <1>3 DEF OnRecord, RecordInv
<1>6. ItemStory(item', Accepted', Closed')
  BY <1>1, <1>2, StoryMore DEF RecordInv
<1>7. StoryFits(run'[w], item', Accepted', Closed', Intended', archive')
  BY <1>1
  DEF StoryFits, IntentPcs, CarryPcs, Followers, HandlerPcs, FlushPcs, ArchivedPcs
<1>8. ItemMoves
  BY <1>1 DEF ItemMoves
<1>9. \A v \in Workers : StoryFits(run'[v], item', Accepted', Closed', Intended', archive')
  BY <1>7
<1> QED  BY <1>4, <1>5, <1>6, <1>8, <1>9 DEF RecordInv

\* The outcome is archived, or pending in what the next put carries.
LEMMA PostCallRecord ==
  ASSUME TypeOK, IInv, SettledInv, RecordInv, NEW w \in Workers, \A v \in Workers : v = w,
         PostCall(w)
  PROVE  RecordInv' /\ ItemMoves
<1> DEFINE carried == Earlier(item, run[w].age)
           ev == PostCallEvent(run[w].result)
           out == PostCallState(run[w].result)
           seq == carried.seq + Cardinality(carried.pending) + 1
           e == FollowUp(ev, out, seq, "none", "none")
           put(p) == [carried EXCEPT !.seq = seq, !.lease = LeaseTerm, !.pending = p]
<1>1. Quiet
  BY StepQuiet DEF Step, AfterCall, PostCall
<1>2. /\ run[w].pc = "postCall" /\ item' = item /\ item.pending = {}
      /\ item.owner = run[w].id /\ item.state = "calling" /\ item.releaseAfterFlush = FALSE
      /\ run[w].id \in Ids /\ run[w].id < nextId
      /\ run[w].result \in Rejections => run[w].id \in Refused
  BY DEF PostCall, IInv, Bounded, LeaseHeld, Owner, OwnerPcs, AfterAcquire, SettledInv,
         LocalsFit, AfterCallPcs
<1>3. run[w].result \in Results \ {"none"}
  BY <1>2, OwnLocals DEF RecordInv, StoryFits
<1>4. /\ carried \in Items /\ carried.pending = {} /\ carried.owner = run[w].id
      /\ carried.state = "calling" /\ carried.releaseAfterFlush = FALSE
      /\ carried.disposition = item.disposition
  BY <1>2, OwnLocals, EarlierFits, EarlierType
<1>5. seq \in Nat
  <2>1. Cardinality(carried.pending) = 0 /\ carried.seq \in Nat
    BY <1>4, FS_EmptySet DEF Items
  <2> QED  BY <2>1
<1>6. /\ ev \in Events \ {"decision", "reconciled", "terminal"} /\ out \in Outcomes
      /\ out \in Ending => run[w].result \in Rejections
      /\ run[w].result \in Rejections => ev = "rejected"
      /\ ev = "rejected" => out \in Ending
  BY <1>3 DEF PostCallEvent, PostCallState, Results, Events, Outcomes, RequestStates, Ending,
              Rejections
<1>7. PICK ok \in BOOLEAN :
        /\ TryPut(ok, run[w].id, seq, ev, out)
        /\ run' = [run EXCEPT ![w].pc = "settle",
                     ![w].seen = put(IF ok THEN carried.pending ELSE carried.pending \cup {e})]
  BY DEF PostCall
<1> DEFINE p == IF ok THEN {} ELSE {e}
<1>8. run'[w].pc = "settle" /\ run'[w].seen = put(p) /\ run'[w].result = run[w].result
      /\ run'[w].id = run[w].id
  BY <1>4, <1>7, OwnLocals DEF Locals
<1>9. /\ e.event = ev /\ e.out = out /\ e.post = "none"
  BY DEF FollowUp
<1> HIDE DEF carried, ev, out, seq, e
<1>10. /\ put(p).state = "calling" /\ put(p).owner = run[w].id /\ put(p).pending = p
       /\ put(p).disposition = item.disposition /\ put(p).releaseAfterFlush = FALSE
  BY <1>4 DEF Items
<1> HIDE DEF put
<1>11. /\ ArchiveGrows
       /\ ok = TRUE => \E o \in archive' : o.id = run[w].id /\ o.seq = seq /\ o.event = ev
  <2>1. EventFits(run[w].id, ev, out, Accepted)
    BY <1>6 DEF EventFits
  <2>2. run[w].id \in Ids \cup {0} /\ (ev # "decision" /\ out \in Ending =>
                                         run[w].id \in Refused \cup Finished)
    BY <1>2, <1>6
  <2> QED  BY <1>2, <1>5, <1>6, <1>7, <2>1, <2>2, PutGrows
<1>12. Accepted' = Accepted
  BY <1>1 DEF Accepted, Quiet
<1>13. EntryStory("calling", run[w].id, e, Accepted')
  BY <1>6, <1>9 DEF EntryStory, EventFits, EntryLeads, Closes, Ending, RequestStates
<1>14. ItemStory(put(p), Accepted', Closed')
  <2>1. item.disposition = "accepted" => item.owner \in Accepted
    BY DEF RecordInv, ItemStory
  <2> QED  BY <1>2, <1>10, <1>12, <1>13, <2>1 DEF ItemStory
<1>15. ASSUME run[w].result \in Rejections, ok = TRUE PROVE run[w].id \in Closed'
  <2>1. \A o \in archive' : ObjectFits(o, nextId', Accepted', Refused', Finished')
    BY <1>1, <1>11, ObjectsStayRight DEF ArchiveFits
  <2>2. PICK o \in archive' : o.id = run[w].id /\ o.event = "rejected"
    BY <1>6, <1>11, <1>15
  <2>3. Ends(o)
    BY <2>1, <2>2 DEF ObjectFits, EventFits, Ends, Ending
  <2> QED  BY <1>2, <2>2, <2>3 DEF Closed
<1>16. ASSUME run[w].result \in Rejections, ok = FALSE PROVE \E f \in p : f.event = "rejected"
  BY <1>6, <1>9, <1>16
<1>17. StoryFits(run'[w], item', Accepted', Closed', Intended', archive')
  <2>1. \A f \in p : f.post = "none"
    BY <1>9
  <2> HIDE DEF p
  <2> QED  BY <1>7, <1>8, <1>10, <1>14, <1>15, <1>16, <2>1
           DEF StoryFits, IntentPcs, CarryPcs, Followers, HandlerPcs, FlushPcs, ArchivedPcs
<1> QED  BY <1>1, <1>2, <1>11, <1>17, FrameRecord, SameKept

\* From the outcome to the write that hands the item over, and its report.
LEMMA HandOverRecord ==
  ASSUME TypeOK, IInv, SettledInv, RecordInv, NEW w \in Workers, \A v \in Workers : v = w,
         \/ SettleSubmitted(w) \/ ReportSubmitted(w) \/ MarkSent(w) \/ ReportRejected(w)
         \/ SettleRejected(w) \/ SettleAmbiguous(w) \/ ReportAmbiguous(w)
  PROVE  RecordInv' /\ ItemMoves
<1> DEFINE it == run[w].seen
<1>1. Quiet
  BY StepQuiet
  DEF Step, AfterCall, SettleSubmitted, ReportSubmitted, MarkSent, ReportRejected,
      SettleRejected, SettleAmbiguous, ReportAmbiguous
<1>2. archive' = archive /\ ArchiveGrows
  BY DEF SettleSubmitted, ReportSubmitted, MarkSent, ReportRejected, SettleRejected,
         SettleAmbiguous, ReportAmbiguous, sinks, ArchiveGrows
<1>3. Accepted' = Accepted /\ Closed' = Closed
  BY <1>1, <1>2 DEF Accepted, Closed, Quiet
<1>4. CASE ReportAmbiguous(w)
  BY <1>1, <1>2, <1>4, ReturnRecord, SameKept DEF ReportAmbiguous
<1>5. CASE ~ReportAmbiguous(w)
  <2>1. run[w].pc \in CarryPcs /\ (run[w].pc \notin {"settle", "settleRejected"} =>
                                     ReportSubmitted(w) \/ MarkSent(w))
    BY <1>5 DEF SettleSubmitted, ReportSubmitted, MarkSent, ReportRejected, SettleRejected,
                SettleAmbiguous, CarryPcs
  <2>2. /\ it.owner = run[w].id /\ it.state = "calling" /\ it \in Items
        /\ ItemStory(it, Accepted', Closed') /\ it.releaseAfterFlush = FALSE
        /\ \A e \in it.pending : e.post = "none"
    BY <1>3, <2>1, OwnLocals DEF SettledInv, LocalsFit, RecordInv, StoryFits
  <2>3. ASSUME NEW r, r.pc \in {"reportSubmitted", "markSent", "reportAmbiguous"}, r.seen = it
        PROVE  StoryFits(r, item', Accepted', Closed', Intended', archive')
    BY <2>2, <2>3
    DEF StoryFits, IntentPcs, CarryPcs, Followers, HandlerPcs, FlushPcs, ArchivedPcs
  <2>4. ASSUME NEW l \in {"reportSubmitted", "markSent", "reportAmbiguous"}, Goto(w, l), ItemKept
        PROVE  RecordInv' /\ ItemMoves
    <3> DEFINE r == [run[w] EXCEPT !.pc = l]
    <3>1. r.pc = l /\ r.seen = it
      BY OwnLocals DEF Locals
    <3> HIDE DEF r
    <3>2. StoryFits(r, item', Accepted', Closed', Intended', archive')
      BY <2>3, <3>1
    <3> QED  BY <1>1, <1>2, <2>4, <3>2, GotoRecord DEF r
  <2>5. CASE ReportSubmitted(w)
    <3>1. ItemKept /\ (Return(w) \/ Goto(w, "markSent"))
      BY <2>5, SameKept DEF ReportSubmitted
    <3> QED  BY <1>1, <1>2, <2>4, <3>1, ReturnRecord
  <2>6. CASE ReportRejected(w)
    <3>1. PICK sent \in BOOLEAN :
            run' = [run EXCEPT ![w] = [run[w] EXCEPT !.pc = "settleRejected",
                      !.seen = [it EXCEPT !.sent = sent]]]
      BY <2>6, OwnLocals DEF ReportRejected, Locals
    <3> DEFINE new == [it EXCEPT !.sent = sent]
    <3>2. /\ new.state = it.state /\ new.owner = it.owner /\ new.pending = it.pending
          /\ new.disposition = it.disposition
          /\ new.releaseAfterFlush = it.releaseAfterFlush
      BY <2>2 DEF Items
    <3> HIDE DEF new
    <3>3. ItemStory(new, Accepted', Closed')
      BY <2>2, <3>2, SameStory
    <3>4. /\ run'[w].pc = "settleRejected" /\ run'[w].id = run[w].id /\ run'[w].seen = new
          /\ run'[w].result = run[w].result
      BY <3>1, OwnLocals DEF new, Locals
    <3>5. run[w].result \in Rejections =>
            run[w].id \in Closed \/ \E e \in it.pending : e.event = "rejected"
      BY <2>6 DEF ReportRejected, RecordInv, StoryFits
    <3>6. StoryFits(run'[w], item', Accepted', Closed', Intended', archive')
      BY <1>3, <2>2, <3>2, <3>3, <3>4, <3>5
      DEF StoryFits, IntentPcs, CarryPcs, Followers, HandlerPcs, FlushPcs, ArchivedPcs
    <3> QED  BY <1>1, <1>2, <2>6, <3>6, FrameRecord, SameKept DEF ReportRejected
  <2>7. CASE SettleSubmitted(w) \/ SettleAmbiguous(w) \/ MarkSent(w)
    <3> DEFINE sub(b) == [it EXCEPT !.state = "submitted", !.sent = b]
               ind == [it EXCEPT !.state = "indeterminate"]
    <3>1. PICK new \in {sub(FALSE), sub(TRUE), ind}, st \in {"calling", "submitted"} :
            /\ Transition(w, run[w].id, st, new)
            /\ st = "submitted" => new = sub(TRUE)
      BY <2>7 DEF SettleSubmitted, SettleAmbiguous, MarkSent
    <3>2. /\ new \in Items /\ new.state \in {"submitted", "indeterminate"}
          /\ new.owner = it.owner /\ new.pending = it.pending
          /\ new.disposition = it.disposition
          /\ new.releaseAfterFlush = it.releaseAfterFlush
          /\ st = "submitted" => new.state = "submitted"
      BY <2>2, <3>1 DEF Items, LockStates
    <3>3. ItemStory(new, Accepted', Closed')
      BY <2>2, <3>2, SameStory
    <3>4. ItemKept
      <4>1. new.state = st \/ <<st, new.state>> \in Diagram
        BY <3>1, <3>2 DEF Diagram
      <4>2. new.state # "none" /\ new.owner = run[w].id
        BY <2>2, <3>2
      <4> HIDE DEF sub, ind
      <4> QED  BY <3>1, <3>2, <3>3, <4>1, <4>2, PutKept
    <3>5. Return(w) \/ \E l \in {"reportSubmitted", "reportAmbiguous"} : Goto(w, l)
      BY <2>7 DEF SettleSubmitted, SettleAmbiguous, MarkSent
    <3> QED  BY <1>1, <1>2, <2>4, <3>4, <3>5, ReturnRecord
  <2>8. CASE SettleRejected(w)
    <3> DEFINE blk == [it EXCEPT !.state = "blocked", !.fp = fingerprint]
               rel == [it EXCEPT !.sent = FALSE, !.releaseAfterFlush = TRUE]
    <3>1. /\ run[w].pc = "settleRejected" /\ run[w].result \in Rejections
          /\ item.pending = {} /\ Return(w)
      BY <2>8 DEF SettleRejected, SettledInv, LocalsFit, IInv, LeaseHeld, Owner, OwnerPcs
    <3>2. run[w].id \in Closed \/ \E e \in it.pending : e.event = "rejected"
      BY <3>1 DEF RecordInv, StoryFits
    <3>3. \/ Transition(w, run[w].id, "calling", blk)
          \/ Transition(w, run[w].id, "calling", rel)
          \/ it.pending = {} /\ ReleaseItem(run[w].id, "calling")
      BY <2>8 DEF SettleRejected
    <3>4. /\ blk \in Items /\ blk.state = "blocked" /\ blk.owner = it.owner
          /\ blk.pending = it.pending /\ blk.disposition = it.disposition
          /\ blk.releaseAfterFlush = it.releaseAfterFlush
      BY <2>2 DEF Items, LockStates, TypeOK
    <3>5. /\ rel \in Items /\ rel.state = "calling" /\ rel.owner = it.owner
          /\ rel.pending = it.pending /\ rel.disposition = it.disposition
      BY <2>2 DEF Items
    <3> HIDE DEF blk, rel
    <3>6. ItemStory(blk, Accepted', Closed')
      BY <2>2, <3>4, SameStory
    <3>7. ItemStory(rel, Accepted', Closed')
      BY <1>3, <2>2, <3>2, <3>5 DEF ItemStory
    <3>8. ItemKept
      <4>1. CASE Transition(w, run[w].id, "calling", blk)
        BY <2>2, <3>4, <3>6, <4>1, PutKept DEF Diagram
      <4>2. CASE Transition(w, run[w].id, "calling", rel)
        BY <2>2, <3>5, <3>7, <4>2, PutKept
      <4>3. CASE it.pending = {} /\ ReleaseItem(run[w].id, "calling")
        BY <1>3, <3>1, <3>2, <4>3, DropKept DEF Diagram
      <4> QED  BY <3>3, <4>1, <4>2, <4>3
    <3> QED  BY <1>1, <1>2, <3>1, <3>8, ReturnRecord
  <2> QED  BY <1>5, <2>5, <2>6, <2>7, <2>8
<1> QED  BY <1>4, <1>5

-----------------------------------------------------------------------------
(* Followers of an existing item.                                          *)

\* The handlers' follow-ups fit the item they are decided for.
LEMMA FollowUpOfStory ==
  ASSUME TypeOK, SettledInv, NEW it \in Items, Owned(it), ItemStory(it, Accepted, Closed)
  PROVE  EntryStory(it.state, it.owner, FollowUpOf(it), Accepted)
<1> DEFINE story(e) == EntryStory(it.state, it.owner, e, Accepted)
<1>1. Matched(it) \/ it.disposition = "accepted" => it.owner \in Accepted
  BY DEF Matched, SettledInv, RequestShape, Accepted, ItemStory, Owned, TypeOK, RequestRecord
<1> USE DEF EntryStory, EventFits, EntryLeads, Closes, FollowUp, Ending, RequestStates, Diagram
<1>2. story(NoPlan)
  BY DEF NoPlan
<1>3. it.state = "blocked" => story(OnBlocked(it))
  BY <1>2 DEF OnBlocked
<1>4. it.state \in {"submitted", "optimizing"} => story(OnSubmitted(it))
  BY <1>2 DEF OnSubmitted
<1>5. /\ it.state \in {"indeterminate", "manual_disposition_required"}
      /\ Matched(it) \/ it.disposition = "accepted"
      => story(Reconciled(it))
  <2>1. /\ Reconciled(it).event = "reconciled" /\ Reconciled(it).out = "submitted"
        /\ Reconciled(it).post = "submitted" /\ Reconciled(it).report = "reconciled"
    BY DEF Reconciled
  <2> QED  BY <1>1, <2>1
<1>6. it.state = "indeterminate" => story(OnIndeterminate(it))
  BY <1>2, <1>5 DEF OnIndeterminate
<1>7. it.state = "manual_disposition_required" => story(OnManualDisposition(it))
  BY <1>2, <1>5 DEF OnManualDisposition
<1>8. it.state = "calling" => story(OnCalling(it))
  BY <1>2 DEF OnCalling
<1> HIDE DEF story
<1>9. story(FollowUpOf(it))
  BY <1>2, <1>3, <1>4, <1>6, <1>7, <1>8 DEF FollowUpOf
<1> QED  BY <1>9 DEF story

\* What a follower and its copy know of the item.
LEMMA FollowerTells ==
  ASSUME TypeOK, IInv, SettledInv, RecordInv, NEW w \in Workers, run[w].pc \in Followers
  PROVE  LET it == run[w].seen
             p == run[w].plan
         IN /\ it \in Items /\ p \in Entry /\ it.owner \in Ids /\ it.owner < nextId
            /\ it.state # "none" /\ Owned(it)
            /\ it.owner = item.owner /\ it.state = item.state
            /\ it.releaseAfterFlush = item.releaseAfterFlush
            /\ ItemStory(it, Accepted, Closed) /\ ItemFits(it, Refused, Finished)
            /\ EntryStory(it.state, it.owner, p, Accepted)
            /\ EntryFits(it.owner, p, Refused, Finished)
            /\ StoryFits(run[w], item, Accepted, Closed, Intended, archive)
            /\ run[w].pc # "flushed" => it.pending = item.pending
  BY OwnLocals DEF IInv, Bounded, SettledInv, LocalsFit, Owned, RecordInv, StoryFits

\* Archiving a follow-up.
LEMMA FollowUpGrows ==
  ASSUME TypeOK, NEW ok \in BOOLEAN, NEW id \in Ids, id < nextId, NEW e \in Entry, NEW st,
         TryPut(ok, id, e.seq, e.event, e.out),
         EntryStory(st, id, e, Accepted), EntryFits(id, e, Refused, Finished)
  PROVE  ArchiveGrows /\ (ok = TRUE => OnArchive(id, e, archive'))
<1>1. /\ e.seq \in Nat /\ e.event \in Events /\ e.out \in Outcomes /\ id \in Ids \cup {0}
      /\ EventFits(id, e.event, e.out, Accepted)
  BY DEF Entry, EntryStory
<1>2. e.event # "decision" /\ e.out \in Ending => id \in Refused \cup Finished
  BY DEF EntryFits, Closes, Ending
<1>3. /\ ArchiveGrows
      /\ ok = TRUE => \E o \in archive' : o.id = id /\ o.seq = e.seq /\ o.event = e.event
  BY <1>1, <1>2, PutGrows
<1> QED  BY <1>3 DEF OnArchive

\* A removal the follow-up asks for.
LEMMA FollowUpDrops ==
  ASSUME TypeOK, RecordInv, NEW id \in Ids, NEW st, NEW e, e.post = "release",
         archive' = archive, OnArchive(id, e, archive), ReleaseItem(id, st),
         EntryStory(st, id, e, Accepted), EntryFits(id, e, Refused, Finished),
         \A f \in item.pending : f = e
  PROVE  ItemKept
<1>1. /\ e.event \in {"rejected", "reconciled", "terminal"} /\ <<st, "none">> \in Diagram
      /\ e.event # "terminal" => id \notin Accepted
  BY DEF EntryStory, EntryLeads, EntryFits, Closes, Refused, Accepted
<1>2. \E o \in archive : o.id = id /\ Ends(o)
  <2>1. e.event = "reconciled" => id \notin Accepted
    BY <1>1
  <2> QED  BY <1>1, <2>1, RecordCloses DEF RecordInv
<1>3. Archived(id, e.seq, e.event) # {}
  BY <1>1 DEF OnArchive, Archived
<1> QED  BY <1>1, <1>2, <1>3, DropKept DEF Closed

\* The state change it asks for, with nothing pending any more.
LEMMA FollowUpAdvances ==
  ASSUME TypeOK, NEW w \in Workers, NEW it \in Items, it.pending = {}, it.state # "none",
         ItemStory(it, Accepted', Closed'), NEW e \in Entry, e.post \notin {"release", "none"},
         EntryLeads(it.state, e), Transition(w, it.owner, it.state, Advance(it, e))
  PROVE  ItemKept
<1> DEFINE adv == Advance(it, e)
<1>1. adv \in Items
  BY AdvanceType
<1>2. e.post \in RequestStates \cup {"resent"} /\ "none" \notin RequestStates
  BY DEF Entry, Posts, RequestStates
<1>3. /\ adv.owner = it.owner /\ adv.pending = it.pending /\ adv.disposition = it.disposition
      /\ adv.releaseAfterFlush = it.releaseAfterFlush
      /\ adv.state = IF e.post = "resent" THEN it.state ELSE e.post
  BY <1>2 DEF Advance, Items
<1> HIDE DEF adv
<1>4. ItemStory(adv, Accepted', Closed')
  BY <1>3, SameStory
<1>5. adv.state # "none" /\ (adv.state = it.state \/ <<it.state, adv.state>> \in Diagram)
  BY <1>2, <1>3 DEF EntryLeads
<1> QED  BY <1>1, <1>3, <1>4, <1>5, PutKept DEF adv

\* The flush, the handlers and their follow-ups.
LEMMA ExistingStateRecord ==
  ASSUME TypeOK, IInv, SettledInv, RecordInv, NEW w \in Workers, \A v \in Workers : v = w,
         ExistingState(w)
  PROVE  RecordInv' /\ ItemMoves
<1> DEFINE it == run[w].seen
           p == run[w].plan
<1>1. /\ Quiet /\ run[w].pc \in Followers
  BY StepQuiet
  DEF Step, ExistingState, FlushArchive, FlushReport, KeepPending, FlushWrite, AfterFlush,
      ClearRejected, Handle, ArchiveFollowUp, Pend, Report, Write, Followers
<1>2. /\ it \in Items /\ p \in Entry /\ it.owner \in Ids /\ it.owner < nextId
      /\ it.state # "none" /\ Owned(it)
      /\ it.owner = item.owner /\ it.state = item.state
      /\ it.releaseAfterFlush = item.releaseAfterFlush
      /\ ItemStory(it, Accepted, Closed) /\ ItemFits(it, Refused, Finished)
      /\ EntryStory(it.state, it.owner, p, Accepted)
      /\ EntryFits(it.owner, p, Refused, Finished)
      /\ StoryFits(run[w], item, Accepted, Closed, Intended, archive)
      /\ run[w].pc # "flushed" => it.pending = item.pending
  BY <1>1, FollowerTells
<1>3. Accepted' = Accepted
  BY <1>1 DEF Accepted, Quiet
<1>4. ArchiveGrows => Closed \subseteq Closed' /\ ItemStory(it, Accepted', Closed')
  BY <1>1, <1>2, RecordsStay, StoryMore DEF Quiet
\* Going on with the same copy and an unchanged item.
<1>5. ASSUME item' = item, ArchiveGrows, run[w].pc # "flushed",
             run'[w].pc \in Followers \ {"flushed"}, run'[w].seen = it,
             EntryStory(it.state, it.owner, run'[w].plan, Accepted),
             run'[w].pc \in HandlerPcs => it.pending = {},
             run'[w].pc \in FlushPcs => run'[w].plan \in it.pending,
             run'[w].pc \in ArchivedPcs => OnArchive(it.owner, run'[w].plan, archive')
      PROVE  RecordInv' /\ ItemMoves
  <2>1. StoryFits(run'[w], item', Accepted', Closed', Intended', archive')
    BY <1>2, <1>3, <1>4, <1>5
    DEF StoryFits, IntentPcs, CarryPcs, Followers
  <2> QED  BY <1>1, <1>5, <2>1, FrameRecord, SameKept
<1>6. ASSUME item' = item, ArchiveGrows, run[w].pc # "flushed",
             NEW l \in Followers \ {"flushed"}, Goto(w, l),
             l \in HandlerPcs => run[w].pc \in HandlerPcs,
             l \in FlushPcs => run[w].pc \in FlushPcs,
             l \in ArchivedPcs => OnArchive(it.owner, p, archive')
      PROVE  RecordInv' /\ ItemMoves
  <2>1. run'[w].pc = l /\ run'[w].seen = it /\ run'[w].plan = p
    BY <1>6, OwnLocals DEF Goto, Locals
  <2> QED  BY <1>2, <1>5, <1>6, <2>1 DEF StoryFits
<1>7. CASE FlushArchive(w)
  <2>1. PICK e \in it.pending, ok \in BOOLEAN :
          /\ TryPut(ok, it.owner, e.seq, e.event, e.out)
          /\ run' = [run EXCEPT ![w].plan = e,
               ![w].pc = IF ~ok THEN "keepPending"
                         ELSE IF e.report # "none" THEN "flushReport" ELSE "flushWrite"]
    BY <1>7 DEF FlushArchive
  <2>2. /\ e \in Entry /\ EntryStory(it.state, it.owner, e, Accepted)
        /\ EntryFits(it.owner, e, Refused, Finished)
    BY <1>2 DEF Items, ItemStory, ItemFits
  <2>3. ArchiveGrows /\ (ok = TRUE => OnArchive(it.owner, e, archive'))
    BY <1>2, <2>1, <2>2, FollowUpGrows
  <2>4. /\ run'[w].plan = e /\ run'[w].seen = it /\ run'[w].pc \in FlushPcs
        /\ run'[w].pc \in ArchivedPcs => ok = TRUE
    BY <2>1, OwnLocals DEF Locals, FlushPcs, ArchivedPcs
  <2>5. item' = item /\ run[w].pc = "flush"
    BY <1>7 DEF FlushArchive
  <2> QED  BY <1>5, <2>2, <2>3, <2>4, <2>5 DEF FlushPcs, Followers, HandlerPcs
<1>8. CASE ArchiveFollowUp(w)
  <2>1. PICK ok \in BOOLEAN :
          /\ TryPut(ok, it.owner, p.seq, p.event, p.out)
          /\ Goto(w, IF ok THEN "report" ELSE "pend")
    BY <1>8 DEF ArchiveFollowUp
  <2>2. ArchiveGrows /\ (ok = TRUE => OnArchive(it.owner, p, archive'))
    BY <1>2, <2>1, FollowUpGrows
  <2>3. item' = item /\ run[w].pc = "archive"
    BY <1>8 DEF ArchiveFollowUp
  <2>4. CASE ok = TRUE
    BY <1>6, <2>1, <2>2, <2>3, <2>4 DEF Followers, HandlerPcs, FlushPcs
  <2>5. CASE ok = FALSE
    BY <1>6, <2>1, <2>2, <2>3, <2>5 DEF Followers, HandlerPcs, FlushPcs, ArchivedPcs
  <2> QED  BY <2>4, <2>5
<1>9. CASE FlushReport(w) \/ Report(w)
  <2>1. item' = item /\ archive' = archive /\ ArchiveGrows
    BY <1>9 DEF FlushReport, Report, ArchiveGrows
  <2>2. OnArchive(it.owner, p, archive')
    BY <1>2, <1>9, <2>1 DEF StoryFits, ArchivedPcs, FlushReport, Report
  <2>3. CASE FlushReport(w)
    <3>1. Goto(w, "flushWrite") \/ Goto(w, "keepPending")
      BY <2>3 DEF FlushReport
    <3> QED  BY <1>6, <2>1, <2>2, <2>3, <3>1 DEF FlushReport, Followers, HandlerPcs, FlushPcs
  <2>4. CASE Report(w)
    <3>1. Goto(w, "write") \/ Return(w)
      BY <2>4 DEF Report
    <3>2. CASE Goto(w, "write")
      BY <1>6, <2>1, <2>2, <2>4, <3>2 DEF Report, Followers, HandlerPcs, FlushPcs
    <3> QED  BY <1>1, <2>1, <3>1, <3>2, ReturnRecord, SameKept
  <2> QED  BY <1>9, <2>3, <2>4
<1>10. CASE KeepPending(w)
  <2>1. ArchiveGrows /\ Return(w) /\ Transition(w, it.owner, it.state, it)
    BY <1>10 DEF KeepPending, sinks, ArchiveGrows
  <2>2. ItemKept
    BY <1>2, <1>4, <2>1, PutKept
  <2> QED  BY <1>1, <2>1, <2>2, ReturnRecord
<1>11. CASE Pend(w)
  <2> DEFINE pended == [it EXCEPT !.pending = @ \cup {p}]
  <2>1. ArchiveGrows /\ Return(w) /\ Transition(w, it.owner, it.state, pended)
    BY <1>11 DEF Pend, sinks, ArchiveGrows
  <2>2. it.pending = {}
    BY <1>2, <1>11 DEF Pend, StoryFits, HandlerPcs
  <2>3. /\ pended \in Items /\ pended.owner = it.owner /\ pended.state = it.state
        /\ pended.pending = {p} /\ pended.disposition = it.disposition
        /\ pended.releaseAfterFlush = it.releaseAfterFlush
    BY <1>2, <2>2 DEF Items
  <2> HIDE DEF pended
  <2>4. ItemStory(pended, Accepted', Closed')
    BY <1>2, <1>3, <1>4, <2>1, <2>2, <2>3 DEF ItemStory
  <2>5. ItemKept
    BY <1>2, <2>1, <2>3, <2>4, PutKept
  <2> QED  BY <1>1, <2>1, <2>5, ReturnRecord
<1>12. CASE FlushWrite(w)
  <2> DEFINE kept == [it EXCEPT !.pending = {}]
  <2>1. /\ kept \in Items /\ kept.owner = it.owner /\ kept.state = it.state
        /\ kept.pending = {} /\ kept.disposition = it.disposition
        /\ kept.releaseAfterFlush = it.releaseAfterFlush
    BY <1>2 DEF Items
  <2>2. /\ \/ p.post = "release" /\ ReleaseItem(it.owner, it.state)
           \/ p.post = "none" /\ Transition(w, it.owner, it.state, kept)
           \/ p.post \notin {"release", "none"}
                /\ Transition(w, it.owner, it.state, Advance(kept, p))
        /\ Return(w) \/ (p.post = "none" /\ Goto(w, "flushed"))
    BY <1>12, <2>1 DEF FlushWrite
  <2> HIDE DEF kept
  <2>3. /\ archive' = archive /\ ArchiveGrows /\ OnArchive(it.owner, p, archive)
        /\ p \in item.pending /\ run[w].pc = "flushWrite"
    BY <1>2, <1>12 DEF FlushWrite, sinks, ArchiveGrows, StoryFits, ArchivedPcs, FlushPcs
  <2>4. \A f \in item.pending : f = p
    BY <2>3 DEF RecordInv, ItemStory
  <2>5. ItemStory(kept, Accepted', Closed')
    <3>1. ASSUME kept.releaseAfterFlush = TRUE PROVE it.owner \in Closed'
      <4>1. CASE it.owner \in Closed
        BY <1>4, <2>3, <4>1
      <4>2. CASE it.owner \notin Closed
        <5>1. p.event = "rejected"
          BY <1>2, <2>1, <2>3, <2>4, <3>1, <4>2 DEF ItemStory
        <5>2. \E o \in archive : o.id = it.owner /\ Ends(o)
          BY <2>3, <5>1, RecordCloses DEF RecordInv
        <5> QED  BY <1>2, <2>3, <5>2 DEF Closed
      <4> QED  BY <4>1, <4>2
    <3> QED  BY <1>2, <1>3, <2>1, <3>1 DEF ItemStory
  <2>6. ItemKept
    <3>1. CASE p.post = "release" /\ ReleaseItem(it.owner, it.state)
      BY <1>2, <2>3, <2>4, <3>1, FollowUpDrops
    <3>2. CASE Transition(w, it.owner, it.state, kept)
      BY <1>2, <2>1, <2>5, <3>2, PutKept
    <3>3. CASE p.post \notin {"release", "none"}
                 /\ Transition(w, it.owner, it.state, Advance(kept, p))
      BY <1>2, <2>1, <2>5, <3>3, FollowUpAdvances DEF EntryStory
    <3> QED  BY <2>2, <3>1, <3>2, <3>3
  <2>7. CASE p.post = "none" /\ Goto(w, "flushed")
    <3>1. run'[w].plan = p /\ run'[w].pc = "flushed" /\ run'[w].seen = it
      BY <2>7, OwnLocals DEF Goto, Locals
    <3> DEFINE put == Later(Stored(kept), run[w].age)
    <3>2. item' = put
      BY <1>2, <2>2, <2>7 DEF Transition, Holds
    <3>3. put.state = it.state /\ put.owner = it.owner /\ put.pending = {}
          /\ put.releaseAfterFlush = it.releaseAfterFlush
      BY <2>1, LaterFits, OwnLocals
    <3> HIDE DEF put
    <3>4. StoryFits(run'[w], item', Accepted', Closed', Intended', archive')
      BY <1>2, <1>3, <1>4, <2>3, <3>1, <3>2, <3>3
      DEF StoryFits, IntentPcs, CarryPcs, Followers, FlushPcs, HandlerPcs, ArchivedPcs
    <3> QED  BY <1>1, <2>3, <2>6, <3>4, FrameRecord
  <2> QED  BY <1>1, <2>2, <2>3, <2>6, <2>7, ReturnRecord
<1>13. CASE AfterFlush(w)
  <2> DEFINE new == Earlier(item, run[w].age)
  <2>1. /\ item' = item /\ archive' = archive /\ ArchiveGrows /\ run[w].pc = "flushed"
        /\ run' = [run EXCEPT ![w].seen = new, ![w].plan = NoPlan,
                     ![w].pc = IF new.releaseAfterFlush THEN "clear" ELSE "handle"]
    BY <1>2, <1>13 DEF AfterFlush, sinks, ArchiveGrows
  <2>2. /\ new.state = item.state /\ new.owner = item.owner /\ new.pending = item.pending
        /\ new.disposition = item.disposition
        /\ new.releaseAfterFlush = item.releaseAfterFlush
    BY OwnLocals, EarlierFits
  <2> HIDE DEF new
  <2>3. run'[w].seen = new /\ run'[w].plan = NoPlan /\ run'[w].pc \in {"clear", "handle"}
    BY <2>1, OwnLocals DEF Locals
  <2>4. ItemStory(new, Accepted', Closed')
    <3>1. ItemStory(item, Accepted', Closed')
      BY <1>1, <2>1, RecordsStay, StoryMore DEF RecordInv, Quiet
    <3> QED  BY <2>2, <3>1, SameStory
  <2>5. item.pending = {}
    BY <1>2, <2>1 DEF StoryFits
  <2>6. EntryStory(new.state, new.owner, NoPlan, Accepted')
    BY DEF EntryStory, EventFits, EntryLeads, NoPlan, FollowUp, Closes, RequestStates
  <2>7. StoryFits(run'[w], item', Accepted', Closed', Intended', archive')
    BY <2>1, <2>2, <2>3, <2>4, <2>5, <2>6
    DEF StoryFits, IntentPcs, CarryPcs, Followers, FlushPcs, HandlerPcs, ArchivedPcs
  <2> QED  BY <1>1, <2>1, <2>7, FrameRecord, SameKept
<1>14. CASE ClearRejected(w)
  <2>1. /\ archive' = archive /\ ArchiveGrows /\ Return(w) /\ run[w].pc = "clear"
        /\ ReleaseItem(it.owner, it.state)
    BY <1>14 DEF ClearRejected, sinks, ArchiveGrows
  <2>2. item.releaseAfterFlush = TRUE /\ item.pending = {}
    BY <1>2, <2>1 DEF StoryFits, HandlerPcs, SettledInv, LocalsFit
  <2>3. it.owner \in Closed
    BY <1>2, <2>2 DEF RecordInv, ItemStory
  <2>4. ItemKept
    BY <1>4, <2>1, <2>2, <2>3, DropKept
  <2> QED  BY <1>1, <2>1, <2>4, ReturnRecord
<1>15. CASE Handle(w)
  <2>1. item' = item /\ archive' = archive /\ ArchiveGrows /\ run[w].pc = "handle"
    BY <1>15 DEF Handle, sinks, ArchiveGrows
  <2>2. CASE Return(w)
    BY <1>1, <2>1, <2>2, ReturnRecord, SameKept
  <2>3. CASE ~Return(w)
    <3> DEFINE f == FollowUpOf(it)
    <3>1. run' = [run EXCEPT ![w].plan = f,
                    ![w].pc = IF f.event = "none" THEN "report" ELSE "archive"]
      BY <1>15, <2>3 DEF Handle
    <3>2. /\ run'[w].plan = f /\ run'[w].seen = it
          /\ run'[w].pc = IF f.event = "none" THEN "report" ELSE "archive"
      BY <3>1, OwnLocals DEF Locals
    <3>3. EntryStory(it.state, it.owner, f, Accepted)
      BY <1>2, FollowUpOfStory
    <3> HIDE DEF f
    <3>4. it.pending = {}
      BY <1>2, <2>1 DEF StoryFits, HandlerPcs
    <3>5. run'[w].pc \in ArchivedPcs => OnArchive(it.owner, f, archive')
      BY <3>2 DEF ArchivedPcs, OnArchive
    <3> QED  BY <1>5, <2>1, <3>2, <3>3, <3>4, <3>5 DEF Followers, FlushPcs
  <2> QED  BY <2>2, <2>3
<1>16. CASE Write(w)
  <2>1. /\ archive' = archive /\ ArchiveGrows /\ run[w].pc = "write"
        /\ \/ p.post = "release" /\ ReleaseItem(it.owner, it.state)
           \/ p.post \notin {"release", "none"}
                /\ Transition(w, it.owner, it.state, Advance(it, p))
        /\ \/ Return(w)
           \/ run' = [run EXCEPT ![w] = [Idle EXCEPT !.pc = "acquire", !.age = run[w].age]]
    BY <1>16 DEF Write, sinks, ArchiveGrows, SettledInv, LocalsFit
  <2>2. OnArchive(it.owner, p, archive) /\ item.pending = {} /\ it.pending = {}
    BY <1>2, <2>1 DEF StoryFits, ArchivedPcs, HandlerPcs
  <2>3. ItemKept
    <3>1. CASE p.post = "release" /\ ReleaseItem(it.owner, it.state)
      BY <1>2, <2>1, <2>2, <3>1, FollowUpDrops
    <3>2. CASE p.post \notin {"release", "none"}
                 /\ Transition(w, it.owner, it.state, Advance(it, p))
      BY <1>2, <1>4, <2>1, <2>2, <3>2, FollowUpAdvances DEF EntryStory
    <3> QED  BY <2>1, <3>1, <3>2
  <2>4. CASE run' = [run EXCEPT ![w] = [Idle EXCEPT !.pc = "acquire", !.age = run[w].age]]
    <3>1. run'[w].pc = "acquire"
      BY <2>4, OwnLocals DEF Idle
    <3>2. StoryFits(run'[w], item', Accepted', Closed', Intended', archive')
      BY <3>1
      DEF StoryFits, IntentPcs, CarryPcs, Followers, FlushPcs, HandlerPcs, ArchivedPcs
    <3> QED  BY <1>1, <2>1, <2>3, <3>2, FrameRecord
  <2> QED  BY <1>1, <2>1, <2>3, <2>4, ReturnRecord
<1> QED  BY <1>7, <1>8, <1>9, <1>10, <1>11, <1>12, <1>13, <1>14, <1>15, <1>16
         DEF ExistingState

-----------------------------------------------------------------------------
(* The environment, and the inductive step.                                *)

\* Time, the service, other people and the operator write no record; the
\* operator calls accepted only what was.
LEMMA EnvironmentRecord ==
  ASSUME TypeOK, SettledInv, RecordInv, Environment
  PROVE  RecordInv' /\ ItemMoves
<1>1. ASSUME nextId' = nextId, archive' = archive,
             \A v \in Workers : /\ run'[v].pc = run[v].pc /\ run'[v].id = run[v].id
                                /\ run'[v].seen = run[v].seen /\ run'[v].plan = run[v].plan
                                /\ run'[v].result = run[v].result,
             \A id \in Ids : /\ request'[id].status = request[id].status
                             /\ request[id].phase = "terminal" => request'[id].phase = "terminal",
             item'.state = item.state, item'.owner = item.owner,
             item'.pending = item.pending,
             item'.releaseAfterFlush = item.releaseAfterFlush,
             \/ item'.disposition = item.disposition
             \/ item'.disposition = "accepted" => item.owner \in Accepted
      PROVE  RecordInv' /\ ItemMoves
  <2>1. /\ Accepted' = Accepted /\ Asked' = Asked /\ Closed' = Closed /\ Intended' = Intended
        /\ Refused' = Refused /\ Finished \subseteq Finished'
    BY <1>1 DEF Accepted, Asked, Closed, Intended, Archived, Refused, Finished
  <2>2. ArchiveFits'
    BY <1>1, <2>1 DEF RecordInv, ArchiveFits, ObjectFits
  <2>3. OnRecord'
    BY <1>1, <2>1 DEF RecordInv, OnRecord
  <2>4. ItemStory(item', Accepted', Closed')
    BY <1>1, <2>1 DEF RecordInv, ItemStory
  <2>5. ASSUME NEW v \in Workers
        PROVE  StoryFits(run'[v], item', Accepted', Closed', Intended', archive')
    BY <1>1, <2>1 DEF RecordInv, StoryFits
  <2>6. ItemMoves
    BY <1>1 DEF ItemMoves
  <2> QED  BY <2>2, <2>3, <2>4, <2>5, <2>6 DEF RecordInv
<1>2. CASE UNCHANGED <<item, run, request, nextId, archive>>
  BY <1>1, <1>2
<1>3. ASSUME NEW id \in Ids, ActionListed(id) \/ ActionProgress(id)
      PROVE  RecordInv' /\ ItemMoves
  <2>1. /\ UNCHANGED <<item, run, nextId, archive>>
        /\ \A i \in Ids \ {id} : request'[i] = request[i]
        /\ request'[id].status = request[id].status
        /\ request[id].phase = "terminal" => request'[id].phase = "terminal"
    BY <1>3 DEF ActionListed, ActionProgress, deployment, sinks, TypeOK, RequestRecord, Active
  <2> QED  BY <1>1, <2>1
<1>4. CASE Tick
  <2>1. /\ nextId' = nextId /\ archive' = archive
        /\ item'.state = item.state /\ item'.owner = item.owner
        /\ item'.pending = item.pending /\ item'.disposition = item.disposition
        /\ item'.releaseAfterFlush = item.releaseAfterFlush
    BY <1>4 DEF Tick, Later, TypeOK, Items, deployment, sinks
  <2>2. \A v \in Workers : /\ run'[v].pc = run[v].pc /\ run'[v].id = run[v].id
                           /\ run'[v].seen = run[v].seen /\ run'[v].plan = run[v].plan
                           /\ run'[v].result = run[v].result
    BY <1>4 DEF Tick, TypeOK, Locals
  <2>3. \A id \in Ids : /\ request'[id].status = request[id].status
                        /\ request'[id].phase = request[id].phase
    BY <1>4 DEF Tick, TypeOK, RequestRecord
  <2> QED  BY <1>1, <2>1, <2>2, <2>3
<1>5. CASE Dispose
  <2>1. /\ UNCHANGED <<run, request, nextId, archive>>
        /\ item'.state = item.state /\ item'.owner = item.owner
        /\ item'.pending = item.pending
        /\ item'.releaseAfterFlush = item.releaseAfterFlush
    BY <1>5 DEF Dispose, service, deployment, sinks, TypeOK, Items
  <2>2. ASSUME item'.disposition = "accepted", item'.disposition # item.disposition
        PROVE  item.owner \in Accepted
    <3>1. /\ item.state = "manual_disposition_required"
          /\ request[item.owner].status = "accepted"
      BY <1>5, <2>2 DEF Dispose, TypeOK, Items
    <3> QED  BY <3>1 DEF SettledInv, ItemInv, Owned, Accepted
  <2> QED  BY <1>1, <2>1, <2>2
<1> QED  BY <1>2, <1>3, <1>4, <1>5
         DEF Environment, ForeignStart, ForeignEnd, Redeploy, deployment, service, sinks

\* Nothing is asked, archived or pending before the first invocation.
LEMMA InitRecord == Init => RecordInv
<1> SUFFICES ASSUME Init PROVE RecordInv
  OBVIOUS
<1>1. /\ \A w \in Workers : run[w] = Idle
      /\ \A id \in Ids : request[id].status = "none"
      /\ item = NoItem /\ archive = {}
  BY DEF Init, NoRequest
<1>2. ArchiveFits /\ OnRecord
  BY <1>1 DEF ArchiveFits, OnRecord, Asked
<1>3. ItemStory(item, Accepted, Closed)
  BY <1>1 DEF ItemStory, NoItem
<1>4. StoryFits(Idle, item, Accepted, Closed, Intended, archive)
  BY DEF StoryFits, Idle, IntentPcs, CarryPcs, Followers, HandlerPcs, FlushPcs, ArchivedPcs
<1> QED  BY <1>1, <1>2, <1>3, <1>4 DEF RecordInv

\* The inductive step.
LEMMA NextRecord ==
  ASSUME OneAtATime, IInv, SettledInv, RecordInv, [Next]_vars
  PROVE  RecordInv' /\ ItemMoves
<1>0. TypeOK
  BY DEF IInv
<1>1. CASE UNCHANGED vars
  BY <1>1 DEF vars, RecordInv, ArchiveFits, OnRecord, Accepted, Asked, Closed, Intended, Archived,
              Refused, Finished, ItemMoves
<1>2. ASSUME NEW w \in Workers, Step(w) PROVE RecordInv' /\ ItemMoves
  <2>0. \A v \in Workers : v = w
    BY DEF OneAtATime
  <2>1. CASE FreshEvaluation(w)
    BY <1>0, <2>0, <2>1, AcquireRecord, EvaluateRecord, RefusalRecord, ToCallingRecord
    DEF FreshEvaluation
  <2>2. CASE AfterCall(w)
    BY <1>0, <2>0, <2>2, CallRecord, PostCallRecord, HandOverRecord DEF AfterCall
  <2> QED  BY <1>0, <1>2, <2>0, <2>1, <2>2, InvokeRecord, ExistingStateRecord DEF Step
<1>3. ASSUME NEW w \in Workers, Crash(w) PROVE RecordInv' /\ ItemMoves
  <2>1. /\ Return(w) /\ UNCHANGED <<item, request, nextId, archive>>
        /\ \A v \in Workers : v = w
    BY <1>3 DEF Crash, service, deployment, sinks, OneAtATime
  <2>2. run'[w] = Idle
    BY <1>0, <2>1 DEF Return, TypeOK
  <2>3. \A v \in Workers : run'[v].pc \in PreCall =>
          run[v].pc \in PreCall /\ run'[v].id = run[v].id
    BY <2>1, <2>2 DEF Idle, PreCall, AfterAcquire
  <2>4. Quiet
    BY <2>1, <2>3, QuietKept DEF Quiet
  <2> QED  BY <1>0, <2>1, <2>4, ReturnRecord, SameKept DEF ArchiveGrows
<1> QED  BY <1>0, <1>1, <1>2, <1>3, EnvironmentRecord DEF Next

-----------------------------------------------------------------------------
(* The theorems.                                                           *)

\* With one invocation at a time, the item, the archive and the invocation
\* tell one story.
THEOREM OneStory ==
  ASSUME ~OperatorErrs, OneAtATime
  PROVE  Spec => [](IInv /\ SettledInv /\ RecordInv)
<1>1. IInv /\ SettledInv /\ RecordInv /\ [Next]_vars => RecordInv'
  BY NextRecord
<1> QED  BY <1>1, Inductive, WhatIsSaidIsSo, InitRecord, PTL DEF Spec

\* Every request the service saw has its intent in the archive and, once its
\* item is gone, the event that closed it: no crash, failed archive write,
\* deferred release or operator's verdict loses either.
THEOREM RequestsAreOnRecord ==
  ASSUME ~OperatorErrs, OneAtATime
  PROVE  Spec => []RequestOnRecord
<1>1. RecordInv => RequestOnRecord
  <2> SUFFICES ASSUME RecordInv, NEW id \in Ids, request[id].status # "none"
               PROVE  /\ Archived(id, 1, "decision") # {}
                      /\ \/ item.owner = id
                         \/ \E o \in archive : o.id = id /\ o.out \in {"released", "blocked"}
                                                 /\ o.event # "decision"
    BY DEF RequestOnRecord
  <2>1. id \in Asked
    BY DEF Asked
  <2>2. id \in Intended /\ (item.owner = id \/ id \in Closed)
    BY <2>1 DEF RecordInv, OnRecord
  <2> QED  BY <2>2 DEF Intended, Closed, Ends, Ending
<1> QED  BY <1>1, OneStory, PTL

\* The flush never has to choose between two pending events.
THEOREM OnePendingAtMost ==
  ASSUME ~OperatorErrs, OneAtATime
  PROVE  Spec => []AtMostOnePending
<1>1. RecordInv => AtMostOnePending
  BY DEF RecordInv, ItemStory, AtMostOnePending
<1> QED  BY <1>1, OneStory, PTL

\* The item's states follow the design's diagram.
THEOREM StatesFollowDiagram ==
  ASSUME ~OperatorErrs, OneAtATime
  PROVE  Spec => FollowsDiagram
<1>1. IInv /\ SettledInv /\ RecordInv /\ [Next]_vars =>
        [/\ item'.state # item.state =>
              \/ <<item.state, item'.state>> \in Diagram
              \/ item'.state = "none" /\ item.releaseAfterFlush
         /\ item'.owner # item.owner =>
              item.state \in {"none", "evaluating"} \/ item'.state = "none"]_item
  <2> SUFFICES ASSUME ItemMoves
               PROVE  /\ item'.state # item.state =>
                           \/ <<item.state, item'.state>> \in Diagram
                           \/ item'.state = "none" /\ item.releaseAfterFlush
                      /\ item'.owner # item.owner =>
                           item.state \in {"none", "evaluating"} \/ item'.state = "none"
    BY NextRecord
  <2>1. <<"none", "evaluating">> \in Diagram
    BY DEF Diagram
  <2> QED  BY <2>1 DEF ItemMoves
<1> QED  BY <1>1, OneStory, PTL DEF Spec, FollowsDiagram

\* The item is not deleted while an event it carries is missing from the
\* archive.
THEOREM PendingNeverStranded ==
  ASSUME ~OperatorErrs, OneAtATime
  PROVE  Spec => NeverStrandsPending
<1>1. IInv /\ SettledInv /\ RecordInv /\ [Next]_vars =>
        [item.state # "none" /\ item'.state = "none" =>
           \A e \in item.pending : Archived(item.owner, e.seq, e.event) # {}]_item
  BY NextRecord DEF ItemMoves
<1> QED  BY <1>1, OneStory, PTL DEF Spec, NeverStrandsPending

-----------------------------------------------------------------------------
(* The ledger.                                                             *)

OpenIds == {id \in Ids : Open(id)}

\* A step of the ledger, in this module's terms.
LedgerMove ==
  \/ UNCHANGED <<Intended, Asked, OpenIds, Closed>>
  \/ \E id \in Ids :
       \/ Intended' = Intended \cup {id} /\ UNCHANGED <<Asked, OpenIds, Closed>>
       \/ /\ id \in Intended \ (Asked \cup Closed) /\ Asked \subseteq Closed
          /\ Asked' = Asked \cup {id} /\ OpenIds' \in {OpenIds, OpenIds \cup {id}}
          /\ UNCHANGED <<Intended, Closed>>
       \/ OpenIds' = OpenIds \ {id} /\ UNCHANGED <<Intended, Asked, Closed>>
       \/ /\ id \notin OpenIds /\ Closed' = Closed \cup {id}
          /\ UNCHANGED <<Intended, Asked, OpenIds>>

\* The archive is written one object at a time, and not by the call.
LEMMA ArchiveStep ==
  ASSUME TypeOK, Next
  PROVE  \/ archive' = archive
         \/ \E o : archive' = archive \cup {o} /\ UNCHANGED request
<1>1. ASSUME NEW ok, NEW id, NEW seq, NEW ev, NEW out, TryPut(ok, id, seq, ev, out)
      PROVE  archive' = archive \/ \E o : archive' = archive \cup {o}
  BY <1>1 DEF TryPut, PutObject
<1>2. ASSUME NEW id, NEW seq, NEW ev, NEW out, PutObject(id, seq, ev, out)
      PROVE  archive' = archive \/ \E o : archive' = archive \cup {o}
  BY <1>2 DEF PutObject
<1>3. ASSUME NEW w \in Workers, Step(w), archive' # archive
      PROVE  UNCHANGED request /\ \E o : archive' = archive \cup {o}
  <2>1. CASE DecideNoCall(w) \/ WriteIntent(w) \/ Recheck(w) \/ Refuse(w)
    BY <1>1, <1>2, <1>3, <2>1
    DEF DecideNoCall, Conclude, WriteIntent, Recheck, Refuse, service
  <2>2. CASE PostCall(w) \/ FlushArchive(w) \/ ArchiveFollowUp(w)
    BY <1>1, <1>3, <2>2 DEF PostCall, FlushArchive, ArchiveFollowUp, service
  <2> QED  BY <1>3, <2>1, <2>2
    DEF Step, FreshEvaluation, AfterCall, ExistingState, Invoke, Acquire, Latch, Announce,
        ToCalling, Release, Call, SettleSubmitted, ReportSubmitted, MarkSent, ReportRejected,
        SettleRejected, SettleAmbiguous, ReportAmbiguous, FlushReport, KeepPending, FlushWrite,
        AfterFlush, ClearRejected, Handle, Pend, Report, Write, sinks
<1>4. (Environment \/ \E w \in Workers : Crash(w)) => archive' = archive
  BY DEF Environment, ActionListed, ActionProgress, ForeignStart, ForeignEnd, Dispose, Redeploy,
         Tick, Crash, sinks
<1> QED  BY <1>3, <1>4 DEF Next

\* A record of one object is an intent, a close or neither.
LEMMA ObjectMove ==
  ASSUME RecordInv', UNCHANGED request, NEW o, archive' = archive \cup {o}
  PROVE  LedgerMove
<1>1. Asked' = Asked /\ OpenIds' = OpenIds
  BY DEF Asked, OpenIds, Open
<1>2. Intended' = Intended \/ (o.id \in Ids /\ Intended' = Intended \cup {o.id}
                                 /\ o.event = "decision")
  BY DEF Intended, Archived
<1>3. Closed' = Closed \/ (o.id \in Ids /\ Closed' = Closed \cup {o.id} /\ Ends(o))
  BY DEF Closed
<1>4. Ends(o) => o.id \notin OpenIds
  <2>1. Ends(o) => o.id \in Refused' \cup Finished'
    BY DEF RecordInv, ArchiveFits, ObjectFits
  <2> QED  BY <2>1 DEF Refused, Finished, OpenIds, Open, Active
<1> QED  BY <1>1, <1>2, <1>3, <1>4 DEF LedgerMove, Ends

\* The call asks for what is intended, with everything asked before closed.
LEMMA CallMove ==
  ASSUME TypeOK, IInv, SettledInv, RecordInv, NEW w \in Workers, Call(w)
  PROVE  LedgerMove
<1> DEFINE id == run[w].id
<1>1. /\ archive' = archive /\ item.owner = id /\ id \in Unasked
      /\ \A i \in Ids \ {id} : request'[i] = request[i]
      /\ request'[id].status # "none" /\ id \in Ids
  BY CallAnswer DEF Unasked
<1>2. Intended' = Intended /\ Closed' = Closed /\ Asked' = Asked \cup {id}
  BY <1>1 DEF Intended, Archived, Closed, Asked
<1>3. OpenIds' \in {OpenIds, OpenIds \cup {id}}
  <2>1. id \notin OpenIds
    BY <1>1, OverIsNotOpen DEF OpenIds
  <2> QED  BY <1>1, <2>1 DEF OpenIds, Open
<1>4. id \in Intended /\ id \notin Asked
  BY <1>1 DEF RecordInv, StoryFits, IntentPcs, Call, Asked, Unasked
<1>5. id \notin Closed
  <2>1. run[w].pc \in PreCall /\ request[id].status = "none"
    BY <1>1 DEF Call, PreCall, Unasked
  <2>2. id \notin Refused \cup Finished
    BY <2>1 DEF Refused, Finished
  <2> QED  BY <2>2 DEF Closed, RecordInv, ArchiveFits, ObjectFits
<1>6. Asked \subseteq Closed
  BY <1>1, <1>4 DEF RecordInv, OnRecord
<1> QED  BY <1>1, <1>2, <1>3, <1>4, <1>5, <1>6 DEF LedgerMove

\* The service ends a request, or only lists it or lets time pass.
LEMMA ServiceMove ==
  ASSUME TypeOK, Next, archive' = archive, \A w \in Workers : ~Call(w)
  PROVE  LedgerMove
<1>1. Intended' = Intended /\ Closed' = Closed
  BY DEF Intended, Archived, Closed
<1>2. CASE UNCHANGED request
  BY <1>1, <1>2 DEF LedgerMove, Asked, OpenIds, Open
<1>3. ASSUME NEW id \in Ids, ActionListed(id) \/ ActionProgress(id) PROVE LedgerMove
  <2>1. /\ \A i \in Ids \ {id} : request'[i] = request[i]
        /\ request'[id].status = request[id].status
        /\ request'[id].phase = request[id].phase \/ Active(request[id])
    BY <1>3 DEF ActionListed, ActionProgress, TypeOK, RequestRecord
  <2>2. Asked' = Asked
    BY <2>1 DEF Asked
  <2>3. OpenIds' = OpenIds \/ OpenIds' = OpenIds \ {id}
    BY <2>1 DEF OpenIds, Open, Active
  <2> QED  BY <1>1, <2>2, <2>3 DEF LedgerMove
<1>4. CASE Tick
  <2>1. \A id \in Ids : /\ request'[id].status = request[id].status
                        /\ request'[id].phase = request[id].phase
    BY <1>4 DEF Tick, TypeOK, RequestRecord
  <2> QED  BY <1>1, <2>1 DEF LedgerMove, Asked, OpenIds, Open, Active
<1>5. ASSUME NEW w \in Workers, Step(w) \/ Crash(w) PROVE UNCHANGED request
  BY <1>5
  DEF Step, FreshEvaluation, AfterCall, ExistingState, Invoke, Acquire, DecideNoCall, Refuse,
      Latch, WriteIntent, Recheck, Announce, ToCalling, Release, PostCall, SettleSubmitted,
      ReportSubmitted, MarkSent, ReportRejected, SettleRejected, SettleAmbiguous,
      ReportAmbiguous, FlushArchive, FlushReport, KeepPending, FlushWrite, AfterFlush,
      ClearRejected, Handle, ArchiveFollowUp, Pend, Report, Write, Crash, service
<1> QED  BY <1>2, <1>3, <1>4, <1>5 DEF Next, Environment, ForeignStart, ForeignEnd, Dispose,
                                       Redeploy, service

\* Every step is a step of the ledger or leaves it alone.
LEMMA LedgerStep ==
  ASSUME IInv, SettledInv, RecordInv, [Next]_vars, RecordInv'
  PROVE  LedgerMove
<1>0. TypeOK
  BY DEF IInv
<1>1. CASE UNCHANGED vars
  BY <1>1 DEF vars, LedgerMove, Intended, Archived, Asked, OpenIds, Open, Closed
<1>2. CASE Next
  <2>1. CASE archive' # archive
    BY <1>0, <1>2, <2>1, ArchiveStep, ObjectMove
  <2>2. ASSUME NEW w \in Workers, Call(w) PROVE LedgerMove
    BY <1>0, <2>2, CallMove
  <2> QED  BY <1>0, <1>2, <2>1, <2>2, ServiceMove
<1> QED  BY <1>1, <1>2

\* The archive and the service's history implement the ledger: the next
\* request waits until the last one is closed on record, and no record is
\* closed while the service still works on the request.
THEOREM RecordsImplementLedger ==
  ASSUME ~OperatorErrs, OneAtATime
  PROVE  Spec => ImplementsLedger
<1> DEFINE I == {id \in Ids : \E o \in Archived(id, 1, "decision") : o.out = "increase"}
           A == {id \in Ids : request[id].status # "none"}
           O == {id \in Ids : Open(id)}
           C == {id \in Ids : \E o \in archive :
                   o.id = id /\ o.event # "decision" /\ o.out \in {"released", "blocked"}}
<1>1. I = Intended /\ A = Asked /\ O = OpenIds /\ C = Closed
  BY DEF Intended, Asked, OpenIds, Closed, Ends, Ending
<1>2. I' = Intended' /\ A' = Asked' /\ O' = OpenIds' /\ C' = Closed'
  BY DEF Intended, Asked, OpenIds, Closed, Ends, Ending
<1>3. Init => Ledger!LedgerInit
  BY DEF Init, Ledger!LedgerInit, Archived, NoRequest, Open
<1>4. LedgerMove => [Ledger!LedgerNext]_(Ledger!ledgerVars)
  <2> SUFFICES ASSUME LedgerMove
               PROVE  \/ UNCHANGED <<I, A, O, C>>
                      \/ \E id \in Ids : Ledger!Intend(id) \/ Ledger!Ask(id)
                                           \/ Ledger!Finish(id) \/ Ledger!Close(id)
    BY DEF Ledger!LedgerNext, Ledger!ledgerVars
  <2>1. CASE UNCHANGED <<Intended, Asked, OpenIds, Closed>>
    BY <1>1, <1>2, <2>1
  <2>2. ASSUME NEW id \in Ids,
               Intended' = Intended \cup {id} /\ UNCHANGED <<Asked, OpenIds, Closed>>
        PROVE  Ledger!Intend(id)
    BY <1>1, <1>2, <2>2 DEF Ledger!Intend
  <2>3. ASSUME NEW id \in Ids,
               /\ id \in Intended \ (Asked \cup Closed) /\ Asked \subseteq Closed
               /\ Asked' = Asked \cup {id} /\ OpenIds' \in {OpenIds, OpenIds \cup {id}}
               /\ UNCHANGED <<Intended, Closed>>
        PROVE  Ledger!Ask(id)
    BY <1>1, <1>2, <2>3 DEF Ledger!Ask
  <2>4. ASSUME NEW id \in Ids,
               OpenIds' = OpenIds \ {id} /\ UNCHANGED <<Intended, Asked, Closed>>
        PROVE  Ledger!Finish(id)
    BY <1>1, <1>2, <2>4 DEF Ledger!Finish
  <2>5. ASSUME NEW id \in Ids,
               /\ id \notin OpenIds /\ Closed' = Closed \cup {id}
               /\ UNCHANGED <<Intended, Asked, OpenIds>>
        PROVE  Ledger!Close(id)
    BY <1>1, <1>2, <2>5 DEF Ledger!Close
  <2> QED  BY <2>1, <2>2, <2>3, <2>4, <2>5 DEF LedgerMove
<1>5. IInv /\ SettledInv /\ RecordInv /\ RecordInv' /\ [Next]_vars =>
        [Ledger!LedgerNext]_(Ledger!ledgerVars)
  BY <1>4, LedgerStep
<1> QED  BY <1>3, <1>5, OneStory, PTL DEF Spec, ImplementsLedger, Ledger!LedgerSpec

\* What the ledger promises: the service never works on two of the function's
\* requests at once, and one it works on was asked for with its intent on
\* record and is not closed there.
THEOREM LedgerIsSafe == Ledger!LedgerSpec => []Ledger!LedgerSafe
<1>1. Ledger!LedgerInit => Ledger!LedgerSafe
  BY DEF Ledger!LedgerInit, Ledger!LedgerSafe
<1>2. Ledger!LedgerSafe /\ [Ledger!LedgerNext]_(Ledger!ledgerVars) => Ledger!LedgerSafe'
  <2> DEFINE I == {id \in Ids : \E o \in Archived(id, 1, "decision") : o.out = "increase"}
             A == {id \in Ids : request[id].status # "none"}
             O == {id \in Ids : Open(id)}
             C == {id \in Ids : \E o \in archive :
                     o.id = id /\ o.event # "decision" /\ o.out \in {"released", "blocked"}}
             Safe == /\ O \subseteq A \ C /\ A \subseteq I
                     /\ \A i, j \in A \ C : i = j
  <2>1. (Ledger!LedgerSafe <=> Safe) /\ (Ledger!LedgerSafe' <=> Safe')
    BY DEF Ledger!LedgerSafe
  <2>2. CASE UNCHANGED <<I, A, O, C>>
    <3> HIDE DEF I, A, O, C
    <3> QED  BY <2>1, <2>2
  <2>3. ASSUME NEW id \in Ids, I' = I \cup {id}, UNCHANGED <<A, O, C>>, Safe PROVE Safe'
    <3> HIDE DEF I, A, O, C
    <3> QED  BY <2>3
  <2>4. ASSUME NEW id \in Ids, id \in I \ (A \cup C), A \subseteq C, A' = A \cup {id},
               O' \in {O, O \cup {id}}, UNCHANGED <<I, C>>, Safe
        PROVE  Safe'
    <3> HIDE DEF I, A, O, C
    <3>1. O = {} /\ A' \ C' = {id}
      BY <2>4
    <3> QED  BY <2>4, <3>1
  <2>5. ASSUME NEW id \in Ids, O' = O \ {id}, UNCHANGED <<I, A, C>>, Safe PROVE Safe'
    <3> HIDE DEF I, A, O, C
    <3> QED  BY <2>5
  <2>6. ASSUME NEW id \in Ids, id \notin O, C' = C \cup {id}, UNCHANGED <<I, A, O>>, Safe
        PROVE  Safe'
    <3> HIDE DEF I, A, O, C
    <3> QED  BY <2>6
  <2>7. [Ledger!LedgerNext]_(Ledger!ledgerVars) =>
          \/ UNCHANGED <<I, A, O, C>>
          \/ \E id \in Ids :
               \/ I' = I \cup {id} /\ UNCHANGED <<A, O, C>>
               \/ /\ id \in I \ (A \cup C) /\ A \subseteq C /\ A' = A \cup {id}
                  /\ O' \in {O, O \cup {id}} /\ UNCHANGED <<I, C>>
               \/ O' = O \ {id} /\ UNCHANGED <<I, A, C>>
               \/ id \notin O /\ C' = C \cup {id} /\ UNCHANGED <<I, A, O>>
    BY DEF Ledger!LedgerNext, Ledger!ledgerVars, Ledger!Intend, Ledger!Ask, Ledger!Finish,
           Ledger!Close
  <2> HIDE DEF I, A, O, C, Safe
  <2> QED  BY <2>1, <2>2, <2>3, <2>4, <2>5, <2>6, <2>7
<1> QED  BY <1>1, <1>2, PTL DEF Ledger!LedgerSpec

-----------------------------------------------------------------------------
(* Reports: report_sent stands for a report that was delivered.  D stands  *)
(* for those delivered.                                                    *)

SentFits(it, D) ==
  it.sent = TRUE =>
    /\ it.state = "blocked" => <<it.owner, "blocked">> \in D
    /\ it.state \in {"submitted", "optimizing"} =>
         <<it.owner, "submitted">> \in D \/ <<it.owner, "reconciled">> \in D

Marking == {"blocked", "submitted", "reconciled"}

\* The locals r of an invocation that is about to write report_sent.
DeliveredFits(r, D) ==
  /\ r.pc \in Followers \cup {"latch"} => SentFits(r.seen, D)
  /\ r.pc \in {"flushWrite", "write"} /\ r.plan.report \in Marking =>
       <<r.seen.owner, r.plan.report>> \in D
  /\ r.pc = "markSent" => <<r.id, "submitted">> \in D
  /\ r.pc = "settleRejected" /\ r.result = "deterministic" /\ r.seen.sent = TRUE =>
       <<r.id, "blocked">> \in D

DeliveredInv ==
  /\ SentFits(item, reports)
  /\ \A w \in Workers : DeliveredFits(run[w], reports)

\* What was delivered stays delivered.
LEMMA DeliveredMore ==
  ASSUME NEW D, NEW D2, D \subseteq D2, NEW r, DeliveredFits(r, D)
  PROVE  DeliveredFits(r, D2)
  BY DEF DeliveredFits, SentFits

\* A follower goes on with its copy and, when it is about to write, with its
\* report delivered.
LEMMA FollowerDelivered ==
  ASSUME NEW D, NEW r, r.pc \in Followers \cup {"acquire", "idle"},
         r.pc \in Followers => SentFits(r.seen, D),
         r.pc \in {"flushWrite", "write"} /\ r.plan.report \in Marking =>
           <<r.seen.owner, r.plan.report>> \in D
  PROVE  DeliveredFits(r, D)
  BY DEF DeliveredFits, Followers

\* A step keeps the invariant when the item and the invocation's locals fit.
LEMMA FrameDelivered ==
  ASSUME TypeOK, DeliveredInv, reports \subseteq reports', NEW w \in Workers,
         \A v \in Workers : v = w,
         item' = item \/ SentFits(item', reports'), DeliveredFits(run'[w], reports')
  PROVE  DeliveredInv'
<1>1. SentFits(item', reports')
  BY DEF DeliveredInv, SentFits
<1>2. \A v \in Workers : DeliveredFits(run'[v], reports')
  OBVIOUS
<1> QED  BY <1>1, <1>2 DEF DeliveredInv

\* The end of an invocation.
LEMMA ReturnDelivered ==
  ASSUME TypeOK, DeliveredInv, reports \subseteq reports', NEW w \in Workers,
         \A v \in Workers : v = w, Return(w), item' = item \/ SentFits(item', reports')
  PROVE  DeliveredInv'
<1>1. run'[w] = Idle
  BY DEF Return, TypeOK
<1>2. DeliveredFits(Idle, reports')
  BY DEF DeliveredFits, Idle, Followers
<1> QED  BY <1>1, <1>2, FrameDelivered

\* A put.
LEMMA PutDelivered ==
  ASSUME TypeOK, DeliveredInv, reports \subseteq reports', NEW w \in Workers,
         NEW owner, NEW st, NEW new \in Items, Transition(w, owner, st, new),
         SentFits(new, reports')
  PROVE  item' = item \/ SentFits(item', reports')
<1> DEFINE put == Later(Stored(new), run[w].age)
<1>1. put.sent = new.sent /\ put.state = new.state /\ put.owner = new.owner
  BY OwnLocals, LaterFits
<1>2. item' = put \/ item' = item
  BY DEF Transition
<1> HIDE DEF put
<1> QED  BY <1>1, <1>2 DEF SentFits

\* The writes that mark a report sent, or change the state it stands for.
LEMMA AdvanceDelivered ==
  ASSUME NEW it \in Items, NEW e \in Entry, NEW D, SentFits(it, D), EntryLeads(it.state, e),
         e.post \notin {"release", "none"},
         e.report \in Marking => <<it.owner, e.report>> \in D
  PROVE  SentFits(Advance(it, e), D)
<1>1. CASE e.post = "resent"
  <2>1. /\ Advance(it, e).state = it.state /\ Advance(it, e).owner = it.owner
    BY <1>1 DEF Advance, Items
  <2> QED  BY <1>1, <2>1 DEF SentFits, EntryLeads, Marking
<1>2. CASE e.post # "resent"
  <2>1. /\ Advance(it, e).state = e.post /\ Advance(it, e).owner = it.owner
        /\ Advance(it, e).sent = (it.sent \/ e.post = "submitted")
    BY <1>2 DEF Advance, Items
  <2>2. e.post \in RequestStates
    BY <1>2 DEF Entry, Posts
  <2>3. CASE e.post = "submitted"
    BY <2>1, <2>3 DEF SentFits, EntryLeads, Marking
  <2>4. CASE e.post = "optimizing"
    <3>1. it.state = "submitted"
      BY <2>2, <2>4 DEF EntryLeads, Diagram
    <3> QED  BY <2>1, <2>4, <3>1 DEF SentFits, Items
  <2>5. CASE e.post \notin {"submitted", "optimizing"}
    BY <2>1, <2>2, <2>5 DEF SentFits, RequestStates
  <2> QED  BY <2>3, <2>4, <2>5
<1> QED  BY <1>1, <1>2

\* A delivered report is never taken back.
LEMMA ReportsStay == ASSUME Next PROVE reports \subseteq reports'
<1>1. ASSUME NEW w \in Workers, Step(w) PROVE reports \subseteq reports'
  BY <1>1
  DEF Step, FreshEvaluation, AfterCall, ExistingState, Invoke, Acquire, DecideNoCall, Refuse,
      Latch, WriteIntent, Recheck, Announce, ToCalling, Release, Call, PostCall,
      SettleSubmitted, ReportSubmitted, MarkSent, ReportRejected, SettleRejected,
      SettleAmbiguous, ReportAmbiguous, FlushArchive, FlushReport, KeepPending, FlushWrite,
      AfterFlush, ClearRejected, Handle, ArchiveFollowUp, Pend, Report, Write, TryReport, sinks
<1> QED  BY <1>1 DEF Next, Environment, ActionListed, ActionProgress, ForeignStart, ForeignEnd,
                     Dispose, Redeploy, Tick, Crash, sinks

\* Up to the call: the item carries no report, except the latch of a refusal,
\* whose report came first.
LEMMA FreshDelivered ==
  ASSUME TypeOK, DeliveredInv, SettledInv, NEW w \in Workers, \A v \in Workers : v = w,
         reports \subseteq reports', "blocked" \in WatchedReports,
         Invoke(w) \/ FreshEvaluation(w)
  PROVE  DeliveredInv'
<1>1. CASE Invoke(w)
  <2>1. /\ item' = item /\ run'[w].pc \in {"acquire", "flush", "handle"}
        /\ run'[w].pc # "acquire" => run'[w].seen = item
    BY <1>1, OwnLocals DEF Invoke, FirstStep, Locals
  <2>2. SentFits(item, reports')
    BY DEF DeliveredInv, SentFits
  <2>3. DeliveredFits(run'[w], reports')
    BY <2>1, <2>2, FollowerDelivered DEF Followers
  <2> QED  BY <2>1, <2>3, FrameDelivered
<1>2. CASE Acquire(w)
  <2>1. CASE Return(w) /\ item' = item
    BY <2>1, ReturnDelivered
  <2>2. CASE /\ item' = Later([NoItem EXCEPT !.state = "evaluating", !.owner = nextId,
                                             !.lease = LeaseTerm], run[w].age)
             /\ run' = [run EXCEPT ![w].pc = "evaluate", ![w].id = nextId]
    <3>1. item'.state = "evaluating"
      BY <2>2 DEF Later, NoItem
    <3>2. run'[w].pc = "evaluate"
      BY <2>2, OwnLocals DEF Locals
    <3>3. SentFits(item', reports') /\ DeliveredFits(run'[w], reports')
      BY <3>1, <3>2 DEF SentFits, DeliveredFits, Followers
    <3> QED  BY <3>3, FrameDelivered
  <2> QED  BY <1>2, <2>1, <2>2 DEF Acquire
<1>3. CASE DecideNoCall(w) \/ WriteIntent(w) \/ Recheck(w) \/ Announce(w)
  <2>1. item' = item
    BY <1>3 DEF DecideNoCall, WriteIntent, Recheck, Announce
  <2>2. Return(w) \/ \E l \in {"release", "recheck", "announce", "toCalling"} : Goto(w, l)
    BY <1>3 DEF DecideNoCall, Conclude, WriteIntent, Recheck, Announce
  <2>3. ASSUME NEW l \in {"release", "recheck", "announce", "toCalling"}, Goto(w, l)
        PROVE  DeliveredFits(run'[w], reports')
    <3>1. run'[w].pc = l
      BY <2>3, OwnLocals DEF Goto, Locals
    <3> QED  BY <3>1 DEF DeliveredFits, Followers
  <2> QED  BY <2>1, <2>2, <2>3, ReturnDelivered, FrameDelivered
<1>4. CASE Refuse(w)
  <2> DEFINE latch(sent) == [NoItem EXCEPT !.state = "blocked", !.owner = run[w].id, !.seq = 1,
                               !.sent = sent, !.fp = fingerprint]
  <2>1. PICK sent \in BOOLEAN :
          /\ TryReport(sent, run[w].id, "blocked")
          /\ run' = [run EXCEPT ![w].pc = "latch", ![w].seen = latch(sent)]
    BY <1>4 DEF Refuse
  <2>2. latch(sent).sent = sent /\ latch(sent).owner = run[w].id
        /\ latch(sent).state = "blocked"
    BY DEF NoItem
  <2> HIDE DEF latch
  <2>3. run'[w].pc = "latch" /\ run'[w].seen = latch(sent)
    BY <2>1, OwnLocals DEF Locals
  <2>4. sent = TRUE => <<run[w].id, "blocked">> \in reports'
    BY <2>1 DEF TryReport
  <2>5. DeliveredFits(run'[w], reports')
    BY <2>2, <2>3, <2>4 DEF DeliveredFits, SentFits, Followers
  <2> QED  BY <1>4, <2>5, FrameDelivered DEF Refuse
<1>5. CASE Latch(w)
  <2>1. SentFits(run[w].seen, reports')
    BY <1>5 DEF Latch, DeliveredInv, DeliveredFits, SentFits
  <2>2. Transition(w, run[w].id, "evaluating", run[w].seen) /\ Return(w)
    BY <1>5 DEF Latch
  <2> QED  BY <2>1, <2>2, OwnLocals, PutDelivered, ReturnDelivered
<1>6. CASE ToCalling(w)
  <2> DEFINE new == [NoItem EXCEPT !.state = "calling", !.owner = run[w].id, !.seq = 1,
                       !.lease = LeaseTerm, !.window = ReconcileTerm, !.sent = FALSE]
  <2>1. new \in Items /\ new.sent = FALSE
    BY OwnLocals, ConstantsAssumption DEF NoItem, Items, LockStates, Dispositions
  <2>2. Transition(w, run[w].id, "evaluating", new)
    BY <1>6 DEF ToCalling
  <2> HIDE DEF new
  <2>3. item' = item \/ SentFits(item', reports')
    BY <2>1, <2>2, PutDelivered DEF SentFits
  <2>4. CASE Goto(w, "call")
    <3>1. run'[w].pc = "call"
      BY <2>4, OwnLocals DEF Goto, Locals
    <3>2. DeliveredFits(run'[w], reports')
      BY <3>1 DEF DeliveredFits, Followers
    <3> QED  BY <2>3, <3>2, FrameDelivered
  <2> QED  BY <1>6, <2>3, <2>4, ReturnDelivered DEF ToCalling
<1>7. CASE Release(w)
  <2>1. Return(w) /\ (item' = item \/ SentFits(item', reports'))
    BY <1>7 DEF Release, ReleaseItem, SentFits, NoItem
  <2> QED  BY <2>1, ReturnDelivered
<1> QED  BY <1>1, <1>2, <1>3, <1>4, <1>5, <1>6, <1>7 DEF FreshEvaluation

\* From the call to the hand-over: a report is marked sent only by the write
\* that follows it.
LEMMA AfterCallDelivered ==
  ASSUME TypeOK, DeliveredInv, SettledInv, NEW w \in Workers, \A v \in Workers : v = w,
         reports \subseteq reports', {"blocked", "submitted"} \subseteq WatchedReports,
         AfterCall(w)
  PROVE  DeliveredInv'
<1> DEFINE it == run[w].seen
<1>1. ASSUME NEW l \in {"postCall", "settle", "reportSubmitted", "reportAmbiguous"},
             run'[w].pc = l, item' = item \/ SentFits(item', reports')
      PROVE  DeliveredInv'
  <2>1. DeliveredFits(run'[w], reports')
    BY <1>1 DEF DeliveredFits, Followers
  <2> QED  BY <1>1, <2>1, FrameDelivered
<1>2. CASE Call(w) \/ PostCall(w)
  <2>1. CASE Call(w)
    <3>1. item' = item /\ run'[w].pc = "postCall"
      BY <2>1, OwnLocals DEF Call, Locals
    <3> QED  BY <1>1, <3>1
  <2>2. CASE PostCall(w)
    <3>1. item' = item /\ run'[w].pc = "settle"
      BY <2>2, OwnLocals DEF PostCall, Locals
    <3> QED  BY <1>1, <3>1
  <2> QED  BY <1>2, <2>1, <2>2
<1>3. CASE ReportSubmitted(w)
  <2>1. CASE TryReport(TRUE, run[w].id, "submitted") /\ Goto(w, "markSent")
    <3>1. run'[w].pc = "markSent" /\ run'[w].id = run[w].id
      BY <2>1, OwnLocals DEF Goto, Locals
    <3>2. DeliveredFits(run'[w], reports')
      BY <2>1, <3>1 DEF DeliveredFits, TryReport, Followers
    <3> QED  BY <1>3, <3>2, FrameDelivered DEF ReportSubmitted
  <2> QED  BY <1>3, <2>1, ReturnDelivered DEF ReportSubmitted
<1>4. CASE ReportAmbiguous(w)
  BY <1>4, ReturnDelivered DEF ReportAmbiguous
<1>5. CASE ReportRejected(w)
  <2>1. PICK sent \in BOOLEAN :
          /\ TryReport(sent /\ run[w].result = "deterministic", run[w].id, "blocked")
          /\ run' = [run EXCEPT ![w] = [run[w] EXCEPT !.pc = "settleRejected",
                      !.seen = [it EXCEPT !.sent = sent]]]
    BY <1>5, OwnLocals DEF ReportRejected, Locals
  <2>2. [it EXCEPT !.sent = sent].sent = sent
    BY OwnLocals DEF Items
  <2>3. /\ run'[w].pc = "settleRejected" /\ run'[w].id = run[w].id
        /\ run'[w].result = run[w].result /\ run'[w].seen.sent = sent
    BY <2>1, <2>2, OwnLocals DEF Locals
  <2>4. DeliveredFits(run'[w], reports')
    BY <2>1, <2>3 DEF DeliveredFits, TryReport, Followers
  <2> QED  BY <1>5, <2>4, FrameDelivered DEF ReportRejected
<1>6. CASE SettleSubmitted(w) \/ MarkSent(w) \/ SettleAmbiguous(w)
  <2> DEFINE sub(b) == [it EXCEPT !.state = "submitted", !.sent = b]
             ind == [it EXCEPT !.state = "indeterminate"]
  <2>1. PICK new \in {sub(FALSE), sub(TRUE), ind}, st \in LockStates :
          /\ Transition(w, run[w].id, st, new)
          /\ new = sub(TRUE) => run[w].pc = "markSent" \/ new = sub(FALSE) \/ new = ind
    BY <1>6 DEF SettleSubmitted, MarkSent, SettleAmbiguous, LockStates
  <2>2. /\ sub(FALSE) \in Items /\ sub(TRUE) \in Items /\ ind \in Items
        /\ sub(FALSE).sent = FALSE /\ ind.state = "indeterminate"
        /\ sub(TRUE).state = "submitted" /\ sub(TRUE).owner = it.owner
    BY OwnLocals DEF Items, LockStates
  <2>3. run[w].pc = "markSent" => it.owner = run[w].id /\ <<run[w].id, "submitted">> \in reports'
    BY DEF SettledInv, LocalsFit, CarryPcs, DeliveredInv, DeliveredFits
  <2> HIDE DEF sub, ind
  <2>4. new \in Items /\ SentFits(new, reports')
    BY <2>1, <2>2, <2>3 DEF SentFits
  <2>5. item' = item \/ SentFits(item', reports')
    BY <2>1, <2>4, PutDelivered
  <2>6. Return(w) \/ \E l \in {"reportSubmitted", "reportAmbiguous"} : Goto(w, l)
    BY <1>6 DEF SettleSubmitted, MarkSent, SettleAmbiguous
  <2>7. ASSUME NEW l \in {"reportSubmitted", "reportAmbiguous"}, Goto(w, l)
        PROVE  run'[w].pc = l
    BY <2>7, OwnLocals DEF Goto, Locals
  <2> QED  BY <1>1, <2>5, <2>6, <2>7, ReturnDelivered
<1>7. CASE SettleRejected(w)
  <2> DEFINE blk == [it EXCEPT !.state = "blocked", !.fp = fingerprint]
             rel == [it EXCEPT !.sent = FALSE, !.releaseAfterFlush = TRUE]
  <2>1. /\ Return(w)
        /\ \/ run[w].result = "deterministic" /\ Transition(w, run[w].id, "calling", blk)
           \/ Transition(w, run[w].id, "calling", rel)
           \/ ReleaseItem(run[w].id, "calling")
    BY <1>7 DEF SettleRejected
  <2>2. it.owner = run[w].id
        /\ (run[w].result = "deterministic" /\ it.sent = TRUE =>
              <<run[w].id, "blocked">> \in reports')
    BY <1>7 DEF SettleRejected, SettledInv, LocalsFit, CarryPcs, DeliveredInv, DeliveredFits
  <2>3. /\ blk \in Items /\ rel \in Items /\ rel.sent = FALSE
        /\ blk.state = "blocked" /\ blk.owner = it.owner /\ blk.sent = it.sent
    BY OwnLocals DEF Items, LockStates, TypeOK
  <2> HIDE DEF blk, rel
  <2>4. CASE run[w].result = "deterministic" /\ Transition(w, run[w].id, "calling", blk)
    <3>1. SentFits(blk, reports')
      BY <2>2, <2>3, <2>4 DEF SentFits
    <3> QED  BY <2>1, <2>3, <2>4, <3>1, PutDelivered, ReturnDelivered
  <2>5. CASE Transition(w, run[w].id, "calling", rel)
    <3>1. SentFits(rel, reports')
      BY <2>3 DEF SentFits
    <3> QED  BY <2>1, <2>3, <2>5, <3>1, PutDelivered, ReturnDelivered
  <2>6. CASE ReleaseItem(run[w].id, "calling")
    BY <2>1, <2>6, ReturnDelivered DEF ReleaseItem, SentFits, NoItem
  <2> QED  BY <2>1, <2>4, <2>5, <2>6
<1> QED  BY <1>2, <1>3, <1>4, <1>5, <1>6, <1>7 DEF AfterCall

\* The flush and the handlers: the report goes out before the write that marks
\* it, or that moves on to the state it stands for.
LEMMA ExistingStateDelivered ==
  ASSUME TypeOK, IInv, SettledInv, RecordInv, DeliveredInv, NEW w \in Workers,
         \A v \in Workers : v = w, reports \subseteq reports', Marking \subseteq WatchedReports,
         ExistingState(w)
  PROVE  DeliveredInv'
<1> DEFINE it == run[w].seen
           p == run[w].plan
<1>1. run[w].pc \in Followers
  BY DEF ExistingState, FlushArchive, FlushReport, KeepPending, FlushWrite, AfterFlush,
         ClearRejected, Handle, ArchiveFollowUp, Pend, Report, Write, Followers
<1>2. /\ it \in Items /\ p \in Entry /\ SentFits(it, reports')
      /\ EntryLeads(it.state, p)
      /\ run[w].pc \in {"flushWrite", "write"} /\ p.report \in Marking =>
           <<it.owner, p.report>> \in reports'
  BY <1>1, FollowerTells DEF EntryStory, DeliveredInv, DeliveredFits, SentFits
\* Going on with the same copy.
<1>3. ASSUME item' = item, NEW l \in Followers, Goto(w, l),
             l \in {"flushWrite", "write"} /\ p.report \in Marking =>
               <<it.owner, p.report>> \in reports'
      PROVE  DeliveredInv'
  <2>1. run'[w].pc = l /\ run'[w].seen = it /\ run'[w].plan = p
    BY <1>3, OwnLocals DEF Goto, Locals
  <2>2. DeliveredFits(run'[w], reports')
    BY <1>2, <1>3, <2>1, FollowerDelivered
  <2> QED  BY <1>3, <2>2, FrameDelivered
<1>4. CASE FlushArchive(w)
  <2>1. PICK e \in it.pending, ok \in BOOLEAN :
          run' = [run EXCEPT ![w].plan = e,
               ![w].pc = IF ~ok THEN "keepPending"
                         ELSE IF e.report # "none" THEN "flushReport" ELSE "flushWrite"]
    BY <1>4 DEF FlushArchive
  <2>2. /\ run'[w].plan = e /\ run'[w].seen = it
        /\ run'[w].pc \in {"keepPending", "flushReport", "flushWrite"}
        /\ run'[w].pc = "flushWrite" => e.report = "none"
    BY <2>1, OwnLocals DEF Locals
  <2>3. DeliveredFits(run'[w], reports')
    BY <1>2, <2>2, FollowerDelivered DEF Followers, Marking
  <2> QED  BY <1>4, <2>3, FrameDelivered DEF FlushArchive
<1>5. CASE FlushReport(w) \/ Report(w)
  <2>1. PICK sent \in BOOLEAN :
          /\ TryReport(sent, it.owner, p.report) /\ item' = item
          /\ \/ sent = TRUE /\ \E l \in {"flushWrite", "write"} : Goto(w, l)
             \/ Goto(w, "keepPending")
             \/ Return(w)
    BY <1>5 DEF FlushReport, Report
  <2>2. sent = TRUE /\ p.report \in Marking => <<it.owner, p.report>> \in reports'
    BY <2>1 DEF TryReport
  <2> QED  BY <1>3, <2>1, <2>2, ReturnDelivered DEF Followers
<1>6. CASE ArchiveFollowUp(w)
  <2>1. item' = item /\ (Goto(w, "report") \/ Goto(w, "pend"))
    BY <1>6 DEF ArchiveFollowUp
  <2> QED  BY <1>3, <2>1 DEF Followers
<1>7. CASE KeepPending(w) \/ Pend(w)
  <2> DEFINE pended == [it EXCEPT !.pending = @ \cup {p}]
  <2>1. /\ pended \in Items /\ pended.owner = it.owner /\ pended.state = it.state
        /\ pended.sent = it.sent
    BY <1>2 DEF Items
  <2>2. PICK new \in {it, pended} : Transition(w, it.owner, it.state, new) /\ Return(w)
    BY <1>7 DEF KeepPending, Pend
  <2> HIDE DEF pended
  <2>3. new \in Items /\ SentFits(new, reports')
    BY <1>2, <2>1, <2>2 DEF SentFits
  <2> QED  BY <2>2, <2>3, PutDelivered, ReturnDelivered
<1>8. CASE FlushWrite(w)
  <2> DEFINE kept == [it EXCEPT !.pending = {}]
  <2>1. /\ kept \in Items /\ kept.owner = it.owner /\ kept.state = it.state
        /\ kept.sent = it.sent
    BY <1>2 DEF Items
  <2>2. /\ \/ ReleaseItem(it.owner, it.state)
           \/ Transition(w, it.owner, it.state, kept)
           \/ p.post \notin {"release", "none"}
                /\ Transition(w, it.owner, it.state, Advance(kept, p))
        /\ Return(w) \/ Goto(w, "flushed")
    BY <1>8, <2>1 DEF FlushWrite
  <2> HIDE DEF kept
  <2>3. SentFits(kept, reports')
    BY <1>2, <2>1 DEF SentFits
  <2>4. item' = item \/ SentFits(item', reports')
    <3>1. CASE ReleaseItem(it.owner, it.state)
      BY <3>1 DEF ReleaseItem, SentFits, NoItem
    <3>2. CASE Transition(w, it.owner, it.state, kept)
      BY <2>1, <2>3, <3>2, PutDelivered
    <3>3. CASE p.post \notin {"release", "none"}
                 /\ Transition(w, it.owner, it.state, Advance(kept, p))
      <4>1. SentFits(Advance(kept, p), reports')
        BY <1>2, <1>8, <2>1, <2>3, <3>3, AdvanceDelivered DEF FlushWrite
      <4>2. Advance(kept, p) \in Items
        BY <1>2, <2>1, <3>3, AdvanceType
      <4> QED  BY <3>3, <4>1, <4>2, PutDelivered
    <3> QED  BY <2>2, <3>1, <3>2, <3>3
  <2>5. CASE Goto(w, "flushed")
    <3>1. run'[w].pc = "flushed" /\ run'[w].seen = it
      BY <2>5, OwnLocals DEF Goto, Locals
    <3>2. DeliveredFits(run'[w], reports')
      BY <1>2, <3>1, FollowerDelivered DEF Followers
    <3> QED  BY <2>4, <3>2, FrameDelivered
  <2> QED  BY <2>2, <2>4, <2>5, ReturnDelivered
<1>9. CASE AfterFlush(w)
  <2> DEFINE new == Earlier(item, run[w].age)
  <2>1. /\ item' = item
        /\ run' = [run EXCEPT ![w].seen = new, ![w].plan = NoPlan,
                     ![w].pc = IF new.releaseAfterFlush THEN "clear" ELSE "handle"]
    BY <1>1, <1>9, FollowerTells DEF AfterFlush
  <2>2. new.state = item.state /\ new.owner = item.owner /\ new.sent = item.sent
    BY OwnLocals, EarlierFits
  <2> HIDE DEF new
  <2>3. run'[w].seen = new /\ run'[w].pc \in {"clear", "handle"}
    BY <2>1, OwnLocals DEF Locals
  <2>4. SentFits(new, reports')
    BY <2>2 DEF DeliveredInv, SentFits
  <2>5. DeliveredFits(run'[w], reports')
    BY <2>3, <2>4, FollowerDelivered DEF Followers
  <2> QED  BY <2>1, <2>5, FrameDelivered
<1>10. CASE ClearRejected(w)
  <2>1. Return(w) /\ (item' = item \/ SentFits(item', reports'))
    BY <1>10 DEF ClearRejected, ReleaseItem, SentFits, NoItem
  <2> QED  BY <2>1, ReturnDelivered
<1>11. CASE Handle(w)
  <2>1. CASE Return(w)
    BY <1>11, <2>1, ReturnDelivered DEF Handle
  <2>2. CASE ~Return(w)
    <3> DEFINE f == FollowUpOf(it)
    <3>1. run' = [run EXCEPT ![w].plan = f,
                    ![w].pc = IF f.event = "none" THEN "report" ELSE "archive"]
      BY <1>11, <2>2 DEF Handle
    <3> HIDE DEF f
    <3>2. run'[w].seen = it /\ run'[w].pc \in {"report", "archive"}
      BY <3>1, OwnLocals DEF Locals
    <3>3. DeliveredFits(run'[w], reports')
      BY <1>2, <3>2, FollowerDelivered DEF Followers
    <3> QED  BY <1>11, <3>3, FrameDelivered DEF Handle
  <2> QED  BY <2>1, <2>2
<1>12. CASE Write(w)
  <2>1. /\ run[w].pc = "write"
        /\ \/ ReleaseItem(it.owner, it.state)
           \/ p.post \notin {"release", "none"}
                /\ Transition(w, it.owner, it.state, Advance(it, p))
        /\ \/ Return(w)
           \/ run' = [run EXCEPT ![w] = [Idle EXCEPT !.pc = "acquire", !.age = run[w].age]]
    BY <1>12 DEF Write, SettledInv, LocalsFit
  <2>2. item' = item \/ SentFits(item', reports')
    <3>1. CASE ReleaseItem(it.owner, it.state)
      BY <3>1 DEF ReleaseItem, SentFits, NoItem
    <3>2. CASE p.post \notin {"release", "none"}
                 /\ Transition(w, it.owner, it.state, Advance(it, p))
      <4>1. SentFits(Advance(it, p), reports') /\ Advance(it, p) \in Items
        BY <1>2, <2>1, <3>2, AdvanceDelivered, AdvanceType
      <4> QED  BY <3>2, <4>1, PutDelivered
    <3> QED  BY <2>1, <3>1, <3>2
  <2>3. CASE run' = [run EXCEPT ![w] = [Idle EXCEPT !.pc = "acquire", !.age = run[w].age]]
    <3>1. run'[w].pc = "acquire"
      BY <2>3, OwnLocals DEF Idle
    <3>2. DeliveredFits(run'[w], reports')
      BY <3>1 DEF DeliveredFits, Followers
    <3> QED  BY <2>2, <3>2, FrameDelivered
  <2> QED  BY <2>1, <2>2, <2>3, ReturnDelivered
<1> QED  BY <1>4, <1>5, <1>6, <1>7, <1>8, <1>9, <1>10, <1>11, <1>12 DEF ExistingState

\* The inductive step.
LEMMA NextDelivered ==
  ASSUME OneAtATime, Marking \subseteq WatchedReports, IInv, SettledInv, RecordInv,
         DeliveredInv, [Next]_vars
  PROVE  DeliveredInv'
<1>0. TypeOK
  BY DEF IInv
<1>1. CASE UNCHANGED vars
  BY <1>1 DEF vars, DeliveredInv
<1>2. ASSUME NEW w \in Workers, Step(w) PROVE DeliveredInv'
  <2>1. reports \subseteq reports' /\ (\A v \in Workers : v = w)
    BY <1>2, ReportsStay DEF Next, OneAtATime
  <2>2. "blocked" \in WatchedReports /\ {"blocked", "submitted"} \subseteq WatchedReports
    BY DEF Marking
  <2> QED  BY <1>0, <1>2, <2>1, <2>2, FreshDelivered, AfterCallDelivered,
              ExistingStateDelivered DEF Step
<1>3. ASSUME NEW w \in Workers, Crash(w) PROVE DeliveredInv'
  BY <1>0, <1>3, ReturnDelivered DEF Crash, sinks, OneAtATime
<1>4. CASE Environment
  <2>1. /\ reports' = reports
        /\ item'.state = item.state /\ item'.owner = item.owner /\ item'.sent = item.sent
    BY <1>0, <1>4
    DEF Environment, ActionListed, ActionProgress, ForeignStart, ForeignEnd, Dispose, Redeploy,
        Tick, Later, TypeOK, Items, sinks
  <2>2. \A v \in Workers : /\ run'[v].pc = run[v].pc /\ run'[v].id = run[v].id
                           /\ run'[v].seen = run[v].seen /\ run'[v].plan = run[v].plan
                           /\ run'[v].result = run[v].result
    BY <1>0, <1>4
    DEF Environment, ActionListed, ActionProgress, ForeignStart, ForeignEnd, Dispose, Redeploy,
        Tick, TypeOK, Locals
  <2> QED  BY <2>1, <2>2 DEF DeliveredInv, SentFits, DeliveredFits
<1> QED  BY <1>0, <1>1, <1>2, <1>3, <1>4 DEF Next

\* report_sent is set only after the report it stands for was delivered:
\* "blocked" for a latch, "submitted" or "reconciled" for a request.
THEOREM SentIsDelivered ==
  ASSUME ~OperatorErrs, OneAtATime, Marking \subseteq WatchedReports
  PROVE  Spec => []SentMeansDelivered
<1>1. Init => DeliveredInv
  <2> SUFFICES ASSUME Init PROVE DeliveredInv
    OBVIOUS
  <2>1. item = NoItem /\ \A w \in Workers : run[w] = Idle
    BY DEF Init
  <2>2. DeliveredFits(Idle, reports) /\ SentFits(NoItem, reports)
    BY DEF DeliveredFits, SentFits, Idle, NoItem, Followers
  <2> QED  BY <2>1, <2>2 DEF DeliveredInv
<1>2. IInv /\ SettledInv /\ RecordInv /\ DeliveredInv /\ [Next]_vars => DeliveredInv'
  BY NextDelivered
<1>3. IInv /\ DeliveredInv => SentMeansDelivered
  BY DEF DeliveredInv, SentFits, SentMeansDelivered, IInv, TypeOK, Items
<1> QED  BY <1>1, <1>2, <1>3, OneStory, PTL DEF Spec

\* So the function's archive keeps the ledger's promise.
THEOREM LedgerKept ==
  ASSUME ~OperatorErrs, OneAtATime
  PROVE  Spec => []Ledger!LedgerSafe
BY RecordsImplementLedger, LedgerIsSafe, PTL DEF ImplementsLedger
=============================================================================
