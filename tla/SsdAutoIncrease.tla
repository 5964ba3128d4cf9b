--------------------------- MODULE SsdAutoIncrease ---------------------------
(***************************************************************************)
(* The guarded SSD auto-increase function                                  *)
(* (shared/lambda/ssd_auto_increase): invocations that share one DynamoDB  *)
(* lock item, write an S3 decision archive, report on an SNS topic and     *)
(* call fsx:UpdateFileSystem.  An invocation is a Worker; one action is    *)
(* the code between two service calls whose order can matter.              *)
(*                                                                         *)
(* Epoch deadlines are kept as distances: an item's `lease' and `window'   *)
(* count down to expires_at and to request_time + reconcile hours (0 is    *)
(* "passed"), and a worker's copy of the item keeps them relative to       *)
(* self.now, the start of its invocation, `age' ticks ago.                 *)
(***************************************************************************)
EXTENDS Naturals, FiniteSets

CONSTANTS
  Workers,          \* concurrent invocations (production reserves one)
  MaxEvaluations,   \* bound: fresh evaluations, each with its correlation ID
  MaxFaults,        \* bound: crashes, failed archive writes, failed reports
  FunctionTimeout,  \* ticks an invocation may live
  LeaseTerm,        \* ticks from self.now to expires_at
  ReconcileTerm,    \* ticks from request_time to reconcile_until
  CooldownTerm,     \* ticks of the service's cooldown
  OperatorErrs,     \* an operator may judge an accepted request not accepted
  WatchedReports,   \* the report reasons the history variable records
  Disturbances      \* which of "foreign" updates and "redeploy"ments happen

ASSUME ConstantsAssumption ==
  /\ {MaxEvaluations, MaxFaults, FunctionTimeout, LeaseTerm,
      ReconcileTerm, CooldownTerm} \subseteq Nat
  /\ FunctionTimeout < LeaseTerm          \* LEASE_PADDING_SECONDS
  /\ OperatorErrs \in BOOLEAN
  /\ Disturbances \subseteq {"foreign", "redeploy"}

VARIABLES
  item,         \* the lock item (NoItem when absent)
  run,          \* per worker: program counter and local variables
  request,      \* the service's view of each correlation ID's request
  foreign,      \* an administrative action someone else requested
  archive,      \* objects in the decision archive
  reports,      \* history: <<correlation ID, reason>> delivered by SNS
  fingerprint,  \* config_fingerprint of the deployed function
  nextId,       \* the next unused correlation ID
  faults        \* failures still to come

vars == <<item, run, request, foreign, archive, reports, fingerprint,
          nextId, faults>>

Ids == 1..MaxEvaluations

LockStates == {"none", "evaluating", "calling", "submitted", "optimizing",
               "indeterminate", "manual_disposition_required", "blocked"}
\* The states that follow one request from its call to its end.
RequestStates == {"calling", "submitted", "optimizing", "indeterminate",
                  "manual_disposition_required"}
Events == {"none", "decision", "accepted", "rejected", "ambiguous",
           "reconciled", "capacity_available", "terminal"}
Outcomes == {"none", "increase", "no_call", "blocked", "released"}
              \cup RequestStates
Reasons == {"none", "blocked", "cleared", "submitted", "reconciled",
            "capacity_available", "terminal", "ambiguous", "manual"}
Posts == {"none", "release", "resent"} \cup RequestStates
Dispositions == {"none", "accepted", "not_accepted", "cleared"}
Results == {"none", "success", "deterministic", "retryable", "ambiguous"}
Pcs == {"idle", "acquire", "evaluate", "release", "latch", "recheck",
        "announce", "toCalling", "call", "postCall", "settle", "settleRejected",
        "reportSubmitted", "markSent", "reportAmbiguous", "flush",
        "flushReport", "keepPending", "flushWrite", "flushed", "clear",
        "handle", "archive", "pend", "report", "write"}

\* A follow-up: the event to archive, the report, the write that comes last.
\* An entry of pending_events is the same record.
Entry == [event : Events, out : Outcomes, seq : Nat, post : Posts,
          report : Reasons]
FollowUp(ev, out, seq, post, rep) ==
  [event |-> ev, out |-> out, seq |-> seq, post |-> post, report |-> rep]
NoPlan == FollowUp("none", "none", 0, "none", "none")

Items == [state : LockStates, owner : Ids \cup {0}, lease : Nat,
          window : Nat, seq : Nat, pending : SUBSET Entry, sent : BOOLEAN,
          fp : {0, 1}, disposition : Dispositions, releaseAfterFlush : BOOLEAN]
NoItem == [state |-> "none", owner |-> 0, lease |-> 0, window |-> 0,
           seq |-> 0, pending |-> {}, sent |-> TRUE, fp |-> 0,
           disposition |-> "none", releaseAfterFlush |-> FALSE]

Idle == [pc |-> "idle", id |-> 0, age |-> 0, seen |-> NoItem,
         plan |-> NoPlan, result |-> "none"]
Locals == [pc : Pcs, id : Ids \cup {0}, age : Nat, seen : Items,
           plan : Entry, result : Results]

NoRequest == [status |-> "none", phase |-> "none", visible |-> FALSE,
              cool |-> 0]

-----------------------------------------------------------------------------
(* Helpers.                                                                *)

Minus(n, k) == IF n > k THEN n - k ELSE 0

\* Deadlines of the item, seen from a moment k ticks earlier or later.
Earlier(it, k) ==
  [it EXCEPT !.lease = IF @ = 0 THEN 0 ELSE @ + k,
             !.window = IF @ = 0 THEN 0 ELSE @ + k]
Later(it, k) ==
  [it EXCEPT !.lease = Minus(@, k), !.window = Minus(@, k)]

Archived(id, seq, ev) ==
  {o \in archive : o.id = id /\ o.seq = seq /\ o.event = ev}

\* put_object with If-None-Match: an object under the same key stays.
PutObject(id, seq, ev, out) ==
  archive' = IF Archived(id, seq, ev) # {} THEN archive
             ELSE archive \cup {[id |-> id, seq |-> seq, event |-> ev, out |-> out]}

\* A service call succeeds or, spending a fault, fails; a failed archive write
\* may have landed all the same (its response was lost).
Spend(n) == faults >= n /\ faults' = faults - n
Cost(ok) == IF ok THEN 0 ELSE 1
TryPut(ok, id, seq, ev, out) ==
  \/ PutObject(id, seq, ev, out)
  \/ ~ok /\ UNCHANGED archive
TryReport(ok, id, reason) ==
  reports' = IF ok /\ reason \in WatchedReports
             THEN reports \cup {<<id, reason>>} ELSE reports

\* Continue at label l, or end the invocation.
Goto(w, l) == run' = [run EXCEPT ![w].pc = l]
Return(w) == run' = [run EXCEPT ![w] = Idle]

Holds(owner, st) == item.owner = owner /\ item.state = st

\* expires_at is read only while evaluating or calling, reconcile_until only
\* until the request leaves indeterminate: past that, neither is kept.
Stored(it) ==
  [it EXCEPT !.lease = IF it.state \in {"evaluating", "calling"} THEN @ ELSE 0,
             !.window = IF it.state \in {"calling", "indeterminate"} THEN @ ELSE 0]

\* LockStore.transition and LockStore.release: conditional on owner and state.
Transition(w, owner, st, new) ==
  item' = IF Holds(owner, st) THEN Later(Stored(new), run[w].age) ELSE item

ReleaseItem(owner, st) ==
  item' = IF Holds(owner, st) THEN NoItem ELSE item

service == <<request, foreign>>
sinks == <<archive, reports>>
deployment == <<fingerprint, nextId>>

-----------------------------------------------------------------------------
(* The file system's administrative actions, as DescribeFileSystems lists  *)
(* them.                                                                   *)

Active(a) == a.phase \in {"in_progress", "optimizing"}
Open(id) == request[id].status = "accepted" /\ Active(request[id])
Listed == {request[id] : id \in {i \in Ids : request[i].visible}} \cup {foreign}

\* administrative_action_in_progress or cooldown_active.
GuardBlocks == \E a \in Listed : Active(a) \/ a.cool > 0

\* What the service itself enforces, on every request it has accepted.
ServiceRefuses ==
  \/ Active(foreign) \/ foreign.cool > 0
  \/ \E id \in Ids : Active(request[id]) \/ request[id].cool > 0

-----------------------------------------------------------------------------
(* Entry of an invocation and the fresh evaluation.                        *)

\* Mutant: the handlers run before the flush.
FirstStepNoFlush(it) ==
  CASE it.state = "none" -> "acquire"
    [] it.state = "evaluating" -> IF it.lease = 0 THEN "acquire" ELSE "idle"
    [] OTHER -> "handle"

FirstStep(it) ==
  CASE it.state = "none" -> "acquire"
    [] it.state = "evaluating" -> IF it.lease = 0 THEN "acquire" ELSE "idle"
    [] OTHER -> IF it.pending # {} THEN "flush" ELSE "handle"

Invoke(w) ==
  /\ run[w].pc = "idle"
  /\ FirstStep(item) # "idle"
  /\ run' = [run EXCEPT ![w].pc = FirstStep(item),
                         ![w].seen = IF FirstStep(item) = "acquire" THEN NoItem ELSE item]
  /\ UNCHANGED <<item, service, sinks, deployment, faults>>

\* Mutant: the put is not conditional on the lease.
AcquireAnyEvaluation(w) ==
  /\ run[w].pc = "acquire"
  /\ IF item.state \in {"none", "evaluating"} /\ nextId \in Ids
     THEN /\ item' = Later([NoItem EXCEPT !.state = "evaluating", !.owner = nextId,
                                          !.lease = LeaseTerm], run[w].age)
          /\ run' = [run EXCEPT ![w].pc = "evaluate", ![w].id = nextId]
          /\ nextId' = nextId + 1
     ELSE Return(w) /\ UNCHANGED <<item, nextId>>
  /\ UNCHANGED <<service, sinks, fingerprint, faults>>

\* The conditional put: no item, or an expired evaluation without pending
\* events; a lost race ends the invocation.
Acquire(w) ==
  /\ run[w].pc = "acquire"
  /\ LET free == \/ item.state = "none"
                 \/ item.state = "evaluating" /\ item.lease = 0 /\ item.pending = {}
     IN IF free /\ nextId \in Ids
        THEN /\ item' = Later([NoItem EXCEPT !.state = "evaluating", !.owner = nextId,
                                             !.lease = LeaseTerm], run[w].age)
             /\ run' = [run EXCEPT ![w].pc = "evaluate", ![w].id = nextId]
             /\ nextId' = nextId + 1
        ELSE /\ Return(w)
             /\ UNCHANGED <<item, nextId>>
  /\ UNCHANGED <<service, sinks, fingerprint, faults>>

\* _decide_and_release, _notify_only and _approve: archive (fail-open), report,
\* then release; a report that cannot be sent ends the invocation.
Conclude(w, ok, sent) ==
  /\ TryPut(ok, run[w].id, 1, "decision", "no_call")
  /\ IF sent THEN Goto(w, "release") ELSE Return(w)

\* alarm_not_in_alarm, an action in progress, the cooldown, ceiling_reached,
\* notify_only or approve.
DecideNoCall(w) ==
  /\ run[w].pc = "evaluate"
  /\ \E ok, sent \in BOOLEAN :
       /\ Spend(Cost(ok) + Cost(sent))
       /\ Conclude(w, ok, sent)
  /\ UNCHANGED <<item, service, reports, deployment>>

\* _latch_blocked: archive and report a deterministic refusal; the latch
\* itself is the next write.
Refuse(w) ==
  /\ run[w].pc = "evaluate"
  /\ \E ok, sent \in BOOLEAN :
       /\ Spend(Cost(ok) + Cost(sent))
       /\ TryPut(ok, run[w].id, 1, "decision", "blocked")
       /\ TryReport(sent, run[w].id, "blocked")
       /\ run' = [run EXCEPT ![w].pc = "latch",
            ![w].seen = [NoItem EXCEPT !.state = "blocked", !.owner = run[w].id,
                           !.seq = 1, !.sent = sent, !.fp = fingerprint]]
  /\ UNCHANGED <<item, service, deployment>>

Latch(w) ==
  /\ run[w].pc = "latch"
  /\ Transition(w, run[w].id, "evaluating", run[w].seen)
  /\ Return(w)
  /\ UNCHANGED <<service, sinks, deployment, faults>>

\* _auto, first half: the intent must be written and its retention proven;
\* otherwise report and release without a call.
WriteIntent(w) ==
  /\ run[w].pc = "evaluate"
  /\ ~GuardBlocks
  /\ \/ /\ PutObject(run[w].id, 1, "decision", "increase")
        /\ Goto(w, "recheck")
        /\ UNCHANGED faults
     \/ \E sent \in BOOLEAN :
          /\ Spend(1 + Cost(sent))
          /\ TryPut(FALSE, run[w].id, 1, "decision", "increase")
          /\ IF sent THEN Goto(w, "release") ELSE Return(w)
  /\ UNCHANGED <<item, service, reports, deployment>>

\* The second snapshot, read under the lock.  A guard that now blocks
\* supersedes the intent with a no-call decision.
Recheck(w) ==
  /\ run[w].pc = "recheck"
  /\ \/ /\ ~GuardBlocks
        /\ Goto(w, "announce")
        /\ UNCHANGED <<archive, faults>>
     \/ /\ GuardBlocks
        /\ \E ok, sent \in BOOLEAN :
             /\ Spend(Cost(ok) + Cost(sent))
             /\ TryPut(ok, run[w].id, 2, "decision", "no_call")
             /\ IF sent THEN Goto(w, "release") ELSE Return(w)
  /\ UNCHANGED <<item, service, reports, deployment>>

\* The before-call report; a failed publish ends the invocation.
Announce(w) ==
  /\ run[w].pc = "announce"
  /\ \/ Goto(w, "toCalling") /\ UNCHANGED faults
     \/ Return(w) /\ Spend(1)
  /\ UNCHANGED <<item, service, sinks, deployment>>

\* evaluating -> calling, with the request facts.
ToCalling(w) ==
  /\ run[w].pc = "toCalling"
  /\ Transition(w, run[w].id, "evaluating",
       [NoItem EXCEPT !.state = "calling", !.owner = run[w].id, !.seq = 1,
                      !.lease = LeaseTerm, !.window = ReconcileTerm, !.sent = FALSE])
  /\ IF Holds(run[w].id, "evaluating") THEN Goto(w, "call") ELSE Return(w)
  /\ UNCHANGED <<service, sinks, deployment, faults>>

\* The owner's own release, at the end of a branch without a call.
Release(w) ==
  /\ run[w].pc = "release"
  /\ ReleaseItem(run[w].id, "evaluating")
  /\ Return(w)
  /\ UNCHANGED <<service, sinks, deployment, faults>>

-----------------------------------------------------------------------------
(* The request and what follows its response.                              *)

\* UpdateFileSystem: the service accepts or not, and the client sees success,
\* a classified rejection, or something it cannot classify (classify_error).
Call(w) ==
  /\ run[w].pc = "call"
  /\ \E res \in Results \ {"none"}, accepted \in BOOLEAN :
       /\ accepted => ~ServiceRefuses
       /\ res = "success" => accepted
       /\ res \in {"deterministic", "retryable"} => ~accepted
       /\ request' = [request EXCEPT ![run[w].id] =
            IF accepted
            THEN [status |-> "accepted", phase |-> "in_progress",
                  visible |-> FALSE, cool |-> CooldownTerm]
            ELSE [NoRequest EXCEPT !.status = "refused"]]
       /\ run' = [run EXCEPT ![w].pc = "postCall", ![w].result = res]
  /\ UNCHANGED <<item, foreign, sinks, deployment, faults>>

PostCallEvent(res) ==
  CASE res = "success" -> "accepted"
    [] res = "ambiguous" -> "ambiguous"
    [] OTHER -> "rejected"

\* Mutant: the archived outcome is the event's name.
PostCallStateIsEvent(res) == PostCallEvent(res)

PostCallState(res) ==
  CASE res = "success" -> "submitted"
    [] res = "deterministic" -> "blocked"
    [] res = "retryable" -> "released"
    [] OTHER -> "indeterminate"

\* Re-read the item and archive the outcome; a failed write becomes a pending
\* event of the attributes the next put carries.
PostCall(w) ==
  /\ run[w].pc = "postCall"
  /\ LET carried == Earlier(item, run[w].age)
         ev == PostCallEvent(run[w].result)
         out == PostCallState(run[w].result)
         seq == carried.seq + Cardinality(carried.pending) + 1
     IN \E ok \in BOOLEAN :
          /\ Spend(Cost(ok))
          /\ TryPut(ok, run[w].id, seq, ev, out)
          /\ run' = [run EXCEPT ![w].pc = "settle",
               ![w].seen = [carried EXCEPT
                  !.seq = seq, !.lease = LeaseTerm,
                  !.pending = IF ok THEN @ ELSE @ \cup {FollowUp(ev, out, seq, "none", "none")}]]
  /\ UNCHANGED <<item, service, reports, deployment>>

\* Mutant: the report is marked sent in the write that precedes it.
SettleSubmittedAsSent(w) ==
  /\ run[w].pc = "settle" /\ run[w].result = "success"
  /\ Transition(w, run[w].id, "calling",
                [run[w].seen EXCEPT !.state = "submitted", !.sent = TRUE])
  /\ IF Holds(run[w].id, "calling") THEN Goto(w, "reportSubmitted") ELSE Return(w)
  /\ UNCHANGED <<service, sinks, deployment, faults>>

\* calling -> submitted; the report follows the put.
SettleSubmitted(w) ==
  /\ run[w].pc = "settle" /\ run[w].result = "success"
  /\ Transition(w, run[w].id, "calling",
                [run[w].seen EXCEPT !.state = "submitted", !.sent = FALSE])
  /\ IF Holds(run[w].id, "calling") THEN Goto(w, "reportSubmitted") ELSE Return(w)
  /\ UNCHANGED <<service, sinks, deployment, faults>>

ReportSubmitted(w) ==
  /\ run[w].pc = "reportSubmitted"
  /\ \/ TryReport(TRUE, run[w].id, "submitted") /\ Goto(w, "markSent") /\ UNCHANGED faults
     \/ Return(w) /\ Spend(1) /\ UNCHANGED reports
  /\ UNCHANGED <<item, service, archive, deployment>>

\* _mark_report_sent, from the attributes carried since the call.
MarkSent(w) ==
  /\ run[w].pc = "markSent"
  /\ Transition(w, run[w].id, "submitted",
                [run[w].seen EXCEPT !.state = "submitted", !.sent = TRUE])
  /\ Return(w)
  /\ UNCHANGED <<service, sinks, deployment, faults>>

\* A rejection is reported first; a failed publish is remembered, not raised.
ReportRejected(w) ==
  /\ run[w].pc = "settle" /\ run[w].result \in {"deterministic", "retryable"}
  /\ \E sent \in BOOLEAN :
       /\ Spend(Cost(sent))
       /\ TryReport(sent /\ run[w].result = "deterministic", run[w].id, "blocked")
       /\ run' = [run EXCEPT ![w].pc = "settleRejected", ![w].seen.sent = sent]
  /\ UNCHANGED <<item, service, archive, deployment>>

\* Mutant: the retryable class releases whether its event is pending or not.
SettleRejectedAtOnce(w) ==
  /\ run[w].pc = "settleRejected"
  /\ IF run[w].result = "deterministic"
     THEN Transition(w, run[w].id, "calling",
            [run[w].seen EXCEPT !.state = "blocked", !.fp = fingerprint])
     ELSE ReleaseItem(run[w].id, "calling")
  /\ Return(w)
  /\ UNCHANGED <<service, sinks, deployment, faults>>

\* calling -> blocked, or the release the retryable class asks for, deferred
\* by release_after_flush when its event is still pending.
SettleRejected(w) ==
  /\ run[w].pc = "settleRejected"
  /\ CASE run[w].result = "deterministic" ->
             Transition(w, run[w].id, "calling",
               [run[w].seen EXCEPT !.state = "blocked", !.fp = fingerprint])
       [] run[w].result # "deterministic" /\ run[w].seen.pending # {} ->
             Transition(w, run[w].id, "calling",
               [run[w].seen EXCEPT !.sent = FALSE, !.releaseAfterFlush = TRUE])
       [] OTHER -> ReleaseItem(run[w].id, "calling")
  /\ Return(w)
  /\ UNCHANGED <<service, sinks, deployment, faults>>

\* Mutant: an unclassifiable error is handled as a retryable rejection.
SettleAmbiguousAsRetryable(w) ==
  /\ run[w].pc = "settle" /\ run[w].result = "ambiguous"
  /\ ReleaseItem(run[w].id, "calling")
  /\ Return(w)
  /\ UNCHANGED <<service, sinks, deployment, faults>>

\* calling -> indeterminate; the report follows the put.
SettleAmbiguous(w) ==
  /\ run[w].pc = "settle" /\ run[w].result = "ambiguous"
  /\ Transition(w, run[w].id, "calling", [run[w].seen EXCEPT !.state = "indeterminate"])
  /\ IF Holds(run[w].id, "calling") THEN Goto(w, "reportAmbiguous") ELSE Return(w)
  /\ UNCHANGED <<service, sinks, deployment, faults>>

ReportAmbiguous(w) ==
  /\ run[w].pc = "reportAmbiguous"
  /\ \E sent \in BOOLEAN : Spend(Cost(sent)) /\ TryReport(sent, run[w].id, "ambiguous")
  /\ Return(w)
  /\ UNCHANGED <<item, service, archive, deployment>>

-----------------------------------------------------------------------------
(* Pending events: _flush_pending_events, before the item is acted on.     *)
(* The list never holds more than one entry (AtMostOnePending), so the     *)
(* entry whose directive applies is any entry of it.                       *)

\* Write every pending event; the item keeps those that failed.
FlushArchive(w) ==
  /\ run[w].pc = "flush"
  /\ \E e \in run[w].seen.pending, ok \in BOOLEAN :
       /\ Spend(Cost(ok))
       /\ TryPut(ok, run[w].seen.owner, e.seq, e.event, e.out)
       /\ run' = [run EXCEPT ![w].plan = e,
            ![w].pc = IF ~ok THEN "keepPending"
                      ELSE IF e.report # "none" THEN "flushReport" ELSE "flushWrite"]
  /\ UNCHANGED <<item, service, reports, deployment>>

\* The stored report goes out before the stored transition or release.
FlushReport(w) ==
  /\ run[w].pc = "flushReport"
  /\ \E sent \in BOOLEAN :
       /\ Spend(Cost(sent))
       /\ TryReport(sent, run[w].seen.owner, run[w].plan.report)
       /\ Goto(w, IF sent THEN "flushWrite" ELSE "keepPending")
  /\ UNCHANGED <<item, service, archive, deployment>>

\* The event or its report did not get out: put the item back as it was read.
KeepPending(w) ==
  /\ run[w].pc = "keepPending"
  /\ Transition(w, run[w].seen.owner, run[w].seen.state, run[w].seen)
  /\ Return(w)
  /\ UNCHANGED <<service, sinks, deployment, faults>>

\* The item a follow-up leaves behind: the state change of a handler's put.
Advance(it, p) ==
  IF p.post = "resent" THEN [it EXCEPT !.sent = TRUE]
  ELSE [it EXCEPT !.state = p.post, !.seq = p.seq, !.sent = @ \/ p.post = "submitted"]

\* Every event is durable: clear the list and apply the recorded directive in
\* the same write; without a directive, only clear, and go on with the item.
FlushWrite(w) ==
  LET it == [run[w].seen EXCEPT !.pending = {}]
      p  == run[w].plan
      held == Holds(it.owner, it.state)
  IN /\ run[w].pc = "flushWrite"
     /\ CASE p.post = "release" -> ReleaseItem(it.owner, it.state)
          [] p.post = "none" -> Transition(w, it.owner, it.state, it)
          [] OTHER -> Transition(w, it.owner, it.state, Advance(it, p))
     /\ IF p.post = "none" /\ held THEN Goto(w, "flushed") ELSE Return(w)
     /\ UNCHANGED <<service, sinks, deployment, faults>>

\* The re-read after a flush.  release_after_flush is honoured only here.
AfterFlush(w) ==
  LET it == IF item.state = "none" THEN run[w].seen ELSE Earlier(item, run[w].age)
  IN /\ run[w].pc = "flushed"
     /\ run' = [run EXCEPT ![w].seen = it, ![w].plan = NoPlan,
          ![w].pc = IF it.releaseAfterFlush THEN "clear" ELSE "handle"]
     /\ UNCHANGED <<item, service, sinks, deployment, faults>>

\* _clear_item for a deferred retryable rejection.
ClearRejected(w) ==
  /\ run[w].pc = "clear"
  /\ ReleaseItem(run[w].seen.owner, run[w].seen.state)
  /\ Return(w)
  /\ UNCHANGED <<service, sinks, deployment, faults>>

-----------------------------------------------------------------------------
(* The handlers of existing states: each decides one follow-up from the    *)
(* item it read and the actions the service lists.                         *)

\* Mutant: a latch whose report failed stays silent.
OnBlockedSilent(it) ==
  IF it.fp # fingerprint \/ it.disposition = "cleared"
  THEN FollowUp("reconciled", "released", it.seq + 1, "release", "cleared")
  ELSE NoPlan

OnBlocked(it) ==
  IF it.fp # fingerprint \/ it.disposition = "cleared"
  THEN FollowUp("reconciled", "released", it.seq + 1, "release", "cleared")
  ELSE IF ~it.sent THEN FollowUp("none", "none", 0, "resent", "blocked")
  ELSE NoPlan

\* _match_action: the request this item tracks, once it is listed.
Matched(it) == it.owner \in Ids /\ request[it.owner].visible

OnSubmitted(it) ==
  IF ~it.sent THEN FollowUp("none", "none", 0, "resent", "submitted")
  ELSE IF ~Matched(it) THEN NoPlan
  ELSE IF request[it.owner].phase = "terminal"
       THEN FollowUp("terminal", "released", it.seq + 1, "release", "terminal")
  ELSE IF request[it.owner].phase = "optimizing" /\ it.state # "optimizing"
       THEN FollowUp("capacity_available", "optimizing", it.seq + 1, "optimizing",
                     "capacity_available")
  ELSE NoPlan

Reconciled(it) ==
  FollowUp("reconciled", "submitted", it.seq + 1, "submitted", "reconciled")

\* Mutants: the window's end is not checked; its end closes the request.
OnIndeterminateForever(it) == IF Matched(it) THEN Reconciled(it) ELSE NoPlan
OnIndeterminateGivesUp(it) ==
  IF Matched(it) THEN Reconciled(it)
  ELSE IF it.window = 0
       THEN FollowUp("reconciled", "released", it.seq + 1, "release", "reconciled")
  ELSE NoPlan

OnIndeterminate(it) ==
  IF Matched(it) THEN Reconciled(it)
  ELSE IF it.window = 0
       THEN FollowUp("none", "none", it.seq, "manual_disposition_required", "manual")
  ELSE NoPlan

\* Mutants: no last look for a match; the operator's refusal is not applied.
OnManualDispositionNoMatch(it) ==
  IF it.disposition = "accepted" THEN Reconciled(it)
  ELSE IF it.disposition = "not_accepted"
       THEN FollowUp("reconciled", "released", it.seq + 1, "release", "reconciled")
  ELSE FollowUp("none", "none", 0, "none", "manual")
OnManualDispositionMatchOnly(it) ==
  IF it.disposition = "accepted" \/ Matched(it) THEN Reconciled(it)
  ELSE FollowUp("none", "none", 0, "none", "manual")

OnManualDisposition(it) ==
  IF it.disposition = "accepted" \/ Matched(it) THEN Reconciled(it)
  ELSE IF it.disposition = "not_accepted"
       THEN FollowUp("reconciled", "released", it.seq + 1, "release", "reconciled")
  ELSE FollowUp("none", "none", 0, "none", "manual")

OnCalling(it) ==
  IF it.lease = 0
  THEN FollowUp("ambiguous", "indeterminate", it.seq + 1, "indeterminate", "ambiguous")
  ELSE NoPlan

FollowUpOf(it) ==
  CASE it.state = "blocked" -> OnBlocked(it)
    [] it.state \in {"submitted", "optimizing"} -> OnSubmitted(it)
    [] it.state = "indeterminate" -> OnIndeterminate(it)
    [] it.state = "manual_disposition_required" -> OnManualDisposition(it)
    [] it.state = "calling" -> OnCalling(it)
    [] OTHER -> NoPlan

Handle(w) ==
  /\ run[w].pc = "handle"
  /\ LET p == FollowUpOf(run[w].seen) IN
       IF p = NoPlan THEN Return(w)
       ELSE run' = [run EXCEPT ![w].plan = p,
                      ![w].pc = IF p.event = "none" THEN "report" ELSE "archive"]
  /\ UNCHANGED <<item, service, sinks, deployment, faults>>

\* _emit_followup.
ArchiveFollowUp(w) ==
  /\ run[w].pc = "archive"
  /\ \E ok \in BOOLEAN :
       /\ Spend(Cost(ok))
       /\ TryPut(ok, run[w].seen.owner, run[w].plan.seq, run[w].plan.event, run[w].plan.out)
       /\ Goto(w, IF ok THEN "report" ELSE "pend")
  /\ UNCHANGED <<item, service, reports, deployment>>

\* _pend_followup: the event, its report and its directive, in the same state.
Pend(w) ==
  /\ run[w].pc = "pend"
  /\ Transition(w, run[w].seen.owner, run[w].seen.state,
                [run[w].seen EXCEPT !.pending = @ \cup {run[w].plan}])
  /\ Return(w)
  /\ UNCHANGED <<service, sinks, deployment, faults>>

\* A failed publish ends the invocation with the item unchanged.
Report(w) ==
  /\ run[w].pc = "report"
  /\ \E sent \in BOOLEAN :
       /\ Spend(Cost(sent))
       /\ TryReport(sent, run[w].seen.owner, run[w].plan.report)
       /\ IF sent /\ run[w].plan.post # "none" THEN Goto(w, "write") ELSE Return(w)
  /\ UNCHANGED <<item, service, archive, deployment>>

\* The handler's last write.  A cleared latch is evaluated afresh at once.
Write(w) ==
  /\ run[w].pc = "write"
  /\ LET it == run[w].seen
         p  == run[w].plan
     IN /\ IF p.post = "release" THEN ReleaseItem(it.owner, it.state)
           ELSE Transition(w, it.owner, it.state, Advance(it, p))
        /\ IF p.post = "release" /\ it.state = "blocked"
           THEN run' = [run EXCEPT ![w] = [Idle EXCEPT !.pc = "acquire", !.age = run[w].age]]
           ELSE Return(w)
  /\ UNCHANGED <<service, sinks, deployment, faults>>

-----------------------------------------------------------------------------
(* The environment: a crash (or the function timeout), the service's own   *)
(* progress, other people's updates, the operator, a deployment, time.     *)

Crash(w) ==
  /\ run[w].pc # "idle"
  /\ Return(w)
  /\ Spend(1)
  /\ UNCHANGED <<item, service, sinks, deployment>>

ActionListed(id) ==
  /\ request[id].status = "accepted" /\ ~request[id].visible
  /\ request' = [request EXCEPT ![id].visible = TRUE]
  /\ UNCHANGED <<item, run, foreign, sinks, deployment, faults>>

ActionProgress(id) ==
  /\ Active(request[id])
  /\ \E ph \in {"optimizing", "terminal"} :
       /\ request[id].phase # ph
       /\ request' = [request EXCEPT ![id].phase = ph]
  /\ UNCHANGED <<item, run, foreign, sinks, deployment, faults>>

\* An update requested outside this function, listed at once.
ForeignStart ==
  /\ "foreign" \in Disturbances
  /\ ~ServiceRefuses
  /\ foreign' = [phase |-> "in_progress", cool |-> CooldownTerm]
  /\ UNCHANGED <<item, run, request, sinks, deployment, faults>>

ForeignEnd ==
  /\ Active(foreign)
  /\ foreign' = [foreign EXCEPT !.phase = "terminal"]
  /\ UNCHANGED <<item, run, request, sinks, deployment, faults>>

\* The operator's role writes `disposition' on the item.
Dispose ==
  /\ \E d \in Dispositions \ {"none", item.disposition} :
       /\ d = "cleared" => item.state = "blocked"
       /\ d # "cleared" => item.state = "manual_disposition_required"
       /\ d = "accepted" => request[item.owner].status = "accepted"
       /\ d = "not_accepted" => OperatorErrs \/ request[item.owner].status # "accepted"
       /\ item' = [item EXCEPT !.disposition = d]
  /\ UNCHANGED <<run, service, sinks, deployment, faults>>

Redeploy ==
  /\ "redeploy" \in Disturbances
  /\ fingerprint' = 1 - fingerprint
  /\ UNCHANGED <<item, run, service, sinks, nextId, faults>>

\* An invocation never outlives the function timeout.
Tick ==
  /\ \A w \in Workers : run[w].pc # "idle" => run[w].age < FunctionTimeout
  /\ item' = Later(item, 1)
  /\ run' = [w \in Workers |->
       IF run[w].pc = "idle" THEN run[w] ELSE [run[w] EXCEPT !.age = @ + 1]]
  /\ request' = [id \in Ids |-> [request[id] EXCEPT !.cool = Minus(@, 1)]]
  /\ foreign' = [foreign EXCEPT !.cool = Minus(@, 1)]
  /\ UNCHANGED <<sinks, deployment, faults>>

-----------------------------------------------------------------------------
Init ==
  /\ item = NoItem
  /\ run = [w \in Workers |-> Idle]
  /\ request = [id \in Ids |-> NoRequest]
  /\ foreign = [phase |-> "none", cool |-> 0]
  /\ archive = {}
  /\ reports = {}
  /\ fingerprint = 0
  /\ nextId = 1
  /\ faults = MaxFaults

FreshEvaluation(w) ==
  \/ Acquire(w) \/ DecideNoCall(w) \/ Refuse(w) \/ Latch(w) \/ WriteIntent(w)
  \/ Recheck(w) \/ Announce(w) \/ ToCalling(w) \/ Release(w)
AfterCall(w) ==
  \/ Call(w) \/ PostCall(w) \/ SettleSubmitted(w) \/ ReportSubmitted(w)
  \/ MarkSent(w) \/ ReportRejected(w) \/ SettleRejected(w)
  \/ SettleAmbiguous(w) \/ ReportAmbiguous(w)
ExistingState(w) ==
  \/ FlushArchive(w) \/ FlushReport(w) \/ KeepPending(w) \/ FlushWrite(w)
  \/ AfterFlush(w) \/ ClearRejected(w) \/ Handle(w) \/ ArchiveFollowUp(w)
  \/ Pend(w) \/ Report(w) \/ Write(w)
Step(w) == Invoke(w) \/ FreshEvaluation(w) \/ AfterCall(w) \/ ExistingState(w)
Environment ==
  \/ \E id \in Ids : ActionListed(id) \/ ActionProgress(id)
  \/ ForeignStart \/ ForeignEnd \/ Dispose \/ Redeploy \/ Tick

Next == (\E w \in Workers : Step(w) \/ Crash(w)) \/ Environment

Spec == Init /\ [][Next]_vars

\* The schedule keeps invoking the function, a running invocation goes on, an
\* accepted request is eventually listed and ends, and time passes.  Nothing
\* is assumed of the operator, a deployment, other updates or failures.
Fairness ==
  /\ \A w \in Workers : WF_vars(Step(w))
  /\ \A id \in Ids : WF_vars(ActionListed(id)) /\ WF_vars(ActionProgress(id))
  /\ WF_vars(ForeignEnd)
  /\ WF_vars(Tick)

FairSpec == Spec /\ Fairness

-----------------------------------------------------------------------------
(* Properties.                                                             *)

RequestRecord == [status : {"none", "accepted", "refused"},
                  phase : {"none", "in_progress", "optimizing", "terminal"},
                  visible : BOOLEAN, cool : Nat]
ArchiveObject == [id : Ids \cup {0}, seq : Nat, event : Events, out : Outcomes]

\* Every variable holds the kind of value the code gives it.
TypeOK ==
  /\ item \in Items
  /\ run \in [Workers -> Locals]
  /\ request \in [Ids -> RequestRecord]
  /\ foreign \in [phase : {"none", "in_progress", "terminal"}, cool : Nat]
  /\ archive \subseteq ArchiveObject
  /\ reports \subseteq (Ids \cup {0}) \X Reasons
  /\ fingerprint \in {0, 1}
  /\ nextId \in Nat
  /\ faults \in Nat

OwnerPcs == {"evaluate", "release", "latch", "recheck", "announce",
             "toCalling", "call", "postCall", "settle", "settleRejected"}

\* The single-flight lock: two live invocations are never both between the
\* conditional put and the write that hands their item over (lock.py).
SingleFlight ==
  \A v, w \in Workers :
    run[v].pc \in OwnerPcs /\ run[w].pc \in OwnerPcs => v = w

\* UpdateFileSystem is called only when no earlier request is in flight at
\* the service, listed or not: whatever crashed, whoever took over, a request
\* whose acceptance is unknown is settled before the next one.
CallOnlyWhenSettled ==
  \A w \in Workers : run[w].pc = "call" => \A id \in Ids : ~Open(id)

\* Every request the service saw has its intent in the archive, and once its
\* lock item is gone, the event that closed it.
RequestOnRecord ==
  \A id \in Ids : request[id].status # "none" =>
    /\ Archived(id, 1, "decision") # {}
    /\ \/ item.owner = id
       \/ \E o \in archive : o.id = id /\ o.out \in {"released", "blocked"}
                               /\ o.event # "decision"

\* report_sent is set only after the report it stands for was delivered.
SentMeansDelivered ==
  item.sent =>
    /\ item.state = "blocked" => <<item.owner, "blocked">> \in reports
    /\ item.state \in {"submitted", "optimizing"} =>
         <<item.owner, "submitted">> \in reports \/ <<item.owner, "reconciled">> \in reports

\* Each handler pends at most one follow-up, whatever was lost before: the
\* flush never has to choose between the directives of two entries.
AtMostOnePending == \A e, f \in item.pending : e = f

Diagram ==
  {<<"none", "evaluating">>, <<"evaluating", "none">>, <<"evaluating", "blocked">>,
   <<"evaluating", "calling">>, <<"calling", "submitted">>, <<"calling", "blocked">>,
   <<"calling", "none">>, <<"calling", "indeterminate">>,
   <<"indeterminate", "submitted">>,
   <<"indeterminate", "manual_disposition_required">>,
   <<"manual_disposition_required", "submitted">>,
   <<"manual_disposition_required", "none">>, <<"submitted", "optimizing">>,
   <<"submitted", "none">>, <<"optimizing", "none">>, <<"blocked", "none">>}

\* The item's state follows the design's diagram, or a release the item itself
\* records is applied, and an item changes hands only by a take-over of an
\* expired evaluation: a directive stored with a pending event is applied in
\* the state it was stored for, whatever was lost or crashed in between, and
\* never brings a left state back.  It needs invocations that do not overlap.
FollowsDiagram ==
  [][/\ item'.state # item.state =>
          \/ <<item.state, item'.state>> \in Diagram
          \/ item'.state = "none" /\ item.releaseAfterFlush
     /\ item'.owner # item.owner =>
          item.state \in {"none", "evaluating"} \/ item'.state = "none"]_item

\* The item is not deleted while an event it carries is missing from the
\* archive ("a release never strands them", _handle_existing_state).
NeverStrandsPending ==
  [][item.state # "none" /\ item'.state = "none" =>
       \A e \in item.pending : Archived(item.owner, e.seq, e.event) # {}]_item

\* The archive and the service's history, read as the abstract ledger.
Ledger == INSTANCE RequestLedger WITH
  Id <- Ids,
  intended <- {id \in Ids : \E o \in Archived(id, 1, "decision") : o.out = "increase"},
  asked <- {id \in Ids : request[id].status # "none"},
  open <- {id \in Ids : Open(id)},
  closed <- {id \in Ids : \E o \in archive :
               o.id = id /\ o.event # "decision" /\ o.out \in {"released", "blocked"}}

\* Invocations, crashes, lost writes and the operator together implement the
\* ledger: the next request waits until the last one is closed on record, and
\* no record is closed while the service still works on the request.
ImplementsLedger == Ledger!LedgerSpec

\* Left alone by people, an item is released, latched or waiting for a person;
\* only an abandoned evaluation needs one more evaluation (bounded here).
Settles ==
  item.state # "none" ~>
    \/ item.state \in {"none", "blocked", "manual_disposition_required"}
    \/ item.state = "evaluating" /\ nextId \notin Ids

\* An accepted request is followed to its end, however long the service takes
\* to list it and whoever crashed: its terminal event reaches the archive.
AcceptedIsFollowed ==
  \A id \in Ids : request[id].status = "accepted" ~>
    \E o \in archive : o.id = id /\ o.event = "terminal"

\* A latch is not permanently silent: its one report is delivered in the end.
LatchIsReported ==
  item.state = "blocked" ~> item.state # "blocked" \/ <<item.owner, "blocked">> \in reports
=============================================================================
