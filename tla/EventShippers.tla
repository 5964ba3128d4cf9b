---------------------------- MODULE EventShippers ----------------------------
(***************************************************************************)
(* The event handlers of the integrations: FPolicy events that come from   *)
(* an SQS queue with a dead-letter queue (integrations/*/lambda/           *)
(* fpolicy_handler.py, _handle_sqs), or over an EventBridge bus behind a   *)
(* bridge that empties the queue (_handle_eventbridge), and EMS events     *)
(* that ONTAP posts to a webhook (ems_handler.py).  AWS Backup's events    *)
(* come over the bus alone (backup_handler.py of Datadog).                 *)
(*                                                                         *)
(* SQS, EventBridge and Lambda are external: a message is received in a    *)
(* batch, comes back when its id is reported or the invocation fails, and  *)
(* goes to the dead-letter queue after MaxReceiveCount receptions; an      *)
(* event of the bus comes back after an invocation that raises; a webhook  *)
(* call is made once.  The visibility timeout is longer than a handler     *)
(* may run.                                                                *)
(***************************************************************************)
EXTENDS VendorIntake

CONSTANTS
  Workers,           \* invocations that may overlap
  MaxEvents,         \* bound: events
  MaxGarbage,        \* bound: events that cannot be parsed
  BatchSize,         \* of the event source mapping
  MaxReceiveCount,   \* of the redrive policy
  MaxRetryAttempts,  \* of the bus's target
  MaxFaults          \* bound: failed calls, refusals and crashes

ASSUME ConstantsAssumption ==
  /\ {MaxEvents, MaxGarbage, MaxRetryAttempts, MaxFaults} \subseteq Nat
  /\ {BatchSize, MaxReceiveCount} \subseteq Nat \ {0}

Events == 1..MaxEvents

-----------------------------------------------------------------------------
(* The handlers.                                                           *)
(*   noKey    the answer when the credential cannot be read; "none" goes   *)
(*            on without it                                                *)
(*   batches  "bytes", "items", or "single" for a payload per event        *)
(*   accepts  the answers taken for an acceptance                          *)
(*   partly   an accepted payload may hold items the intake rejected       *)
(*   raises   a 429 whose Retry-After is no number raises out of the send  *)
(*   failed   the answer when something was not shipped: the ids of the    *)
(*            whole "batch", of the "messages", a status, or a "raise"     *)

Shipper(via, noKey, batches, accepts, partly, raises, failed) ==
  [via |-> via, noKey |-> noKey, batches |-> batches, accepts |-> accepts,
   partly |-> partly, raises |-> raises, failed |-> failed]

NewRelicSqs == Shipper("queue", "raise", "bytes", Success, FALSE, FALSE, "batch")
NewRelicBus == Shipper("bus", "raise", "single", Success, FALSE, FALSE, "207")
NewRelicEms == Shipper("webhook", "502", "bytes", Success, FALSE, FALSE, "207")

\* _bulk: 200 with "errors": true is a success.
ElasticSqs == Shipper("queue", "raise", "bytes", Success, TRUE, FALSE, "batch")
ElasticBus == Shipper("bus", "raise", "single", Success, TRUE, FALSE, "207")
ElasticEms == Shipper("webhook", "502", "bytes", Success, TRUE, FALSE, "207")

HoneycombSqs == Shipper("queue", "raise", "bytes", Success, FALSE, FALSE, "batch")
HoneycombBus == Shipper("bus", "raise", "single", Success, FALSE, FALSE, "207")
HoneycombEms == Shipper("webhook", "502", "bytes", Success, FALSE, FALSE, "207")

DynatraceSqs == Shipper("queue", "raise", "bytes", Success, FALSE, FALSE, "batch")
DynatraceBus == Shipper("bus", "raise", "single", Success, FALSE, FALSE, "207")
DynatraceEms == Shipper("webhook", "502", "bytes", Success, FALSE, FALSE, "207")

SumoLogicSqs == Shipper("queue", "raise", "bytes", Success, FALSE, FALSE, "batch")
SumoLogicBus == Shipper("bus", "raise", "single", Success, FALSE, FALSE, "207")
SumoLogicEms == Shipper("webhook", "502", "bytes", Success, FALSE, FALSE, "207")

SplunkSqs == Shipper("queue", "raise", "items", {200}, FALSE, FALSE, "batch")
SplunkBus == Shipper("bus", "502", "single", {200}, FALSE, FALSE, "207")
SplunkEms == Shipper("webhook", "502", "single", {200}, FALSE, FALSE, "502")

\* A batch that failed raises after the others were tried.
DatadogSqs == Shipper("queue", "raise", "bytes", Success, FALSE, TRUE, "batch")
DatadogBus == Shipper("bus", "raise", "single", Success, FALSE, TRUE, "raise")
\* AWS Backup's events, straight from the bus.
DatadogBackup == Shipper("event", "500", "single", Success, FALSE, TRUE, "raise")
DatadogEms == Shipper("webhook", "500", "bytes", Success, FALSE, TRUE, "raise")

GrafanaBus == Shipper("bus", "500", "single", {200, 204}, FALSE, FALSE, "502")
GrafanaEms == Shipper("webhook", "500", "single", {200, 204}, FALSE, FALSE, "502")

\* OpenTelemetry: a credential that cannot be read is left out.
OtelSqs == Shipper("queue", "none", "single", Success, FALSE, TRUE, "messages")
OtelBus == Shipper("bus", "none", "single", Success, FALSE, TRUE, "502")
OtelEms == Shipper("webhook", "none", "single", Success, FALSE, TRUE, "502")

Shippers ==
  {NewRelicSqs, ElasticSqs, HoneycombSqs, DynatraceSqs, SumoLogicSqs, SplunkSqs,
   DatadogSqs, OtelSqs,
   NewRelicBus, ElasticBus, HoneycombBus, DynatraceBus, SumoLogicBus, SplunkBus,
   DatadogBus, GrafanaBus, OtelBus, DatadogBackup,
   NewRelicEms, ElasticEms, HoneycombEms, DynatraceEms, SumoLogicEms, SplunkEms,
   DatadogEms, GrafanaEms, OtelEms}

-----------------------------------------------------------------------------

VARIABLES
  shipper,     \* the handler that is deployed: chosen once
  garbage,     \* events whose body cannot be parsed
  place,       \* an event's message: in the queue, with an invocation, dead, ...
  receives,    \* receptions of the message
  bus,         \* events on the bus, and attempts made there
  tries,
  run,         \* per invocation: program counter and local variables
  accepted,    \* history: events the intake accepted
  rejected,    \* history: events rejected inside an accepted payload
  reported,    \* history: events of an invocation whose answer was not 200
  faults       \* failures still to come

queue == <<place, receives>>
busVars == <<bus, tries>>
histories == <<accepted, rejected, reported>>
shipperVars == <<shipper, garbage, queue, busVars, run, histories, faults>>

Places == {"none", "waiting", "taken", "dead", "deleted"}
Roles == {"queue", "bridge", "bus", "webhook"}
Run == [pc : {"idle", "send"}, role : Roles, items : SUBSET Events, todo : SUBSET Events,
        shipped : SUBSET Events]
IdleRun == [pc |-> "idle", role |-> "queue", items |-> {}, todo |-> {}, shipped |-> {}]

\* Everything has its type; a message is with at most one invocation, none comes
\* back after its last reception, and only items that were parsed are sent.
ShippersTypeOK ==
  /\ shipper \in Shippers
  /\ garbage \subseteq Events
  /\ place \in [Events -> Places]
  /\ receives \in [Events -> 0..MaxReceiveCount]
  /\ bus \subseteq Events /\ tries \in [Events -> 0..MaxRetryAttempts]
  /\ run \in [Workers -> Run]
  /\ \A i \in Workers : /\ run[i].todo \cup run[i].shipped \subseteq run[i].items \ garbage
                        /\ run[i].todo \cap run[i].shipped = {}
  /\ \A e \in Events :
       /\ place[e] = "taken" <=>
            \E i \in Workers : run[i].role \in {"queue", "bridge"} /\ e \in run[i].items
       /\ place[e] = "waiting" => receives[e] < MaxReceiveCount
  /\ accepted \cup rejected \cup reported \subseteq Events
  /\ faults \in 0..MaxFaults

ShippersInit ==
  /\ shipper \in Shippers
  /\ garbage = {}
  /\ place = [e \in Events |-> "none"]
  /\ receives = [e \in Events |-> 0]
  /\ bus = {} /\ tries = [e \in Events |-> 0]
  /\ run = [i \in Workers |-> IdleRun]
  /\ accepted = {} /\ rejected = {} /\ reported = {}
  /\ faults = MaxFaults

Fault == faults > 0 /\ faults' = faults - 1
FaultUnless(fine) == IF fine THEN UNCHANGED faults ELSE Fault

-----------------------------------------------------------------------------
(* The queue and the bus.                                                  *)

\* send_message.
Put(e, parseable) ==
  /\ place[e] = "none"
  /\ shipper.via \in {"queue", "bus"}
  /\ place' = [place EXCEPT ![e] = "waiting"]
  /\ garbage' = IF parseable THEN garbage ELSE garbage \cup {e}
  /\ UNCHANGED <<shipper, receives, busVars, run, histories>>

\* The messages go back to the queue, or to the dead-letter queue.
GiveBack(places, messages) ==
  [e \in Events |-> IF e \notin messages THEN places[e]
                    ELSE IF receives[e] = MaxReceiveCount THEN "dead" ELSE "waiting"]

\* parse_sqs_batch, extract_ems_events: only what can be parsed is handed on.
\* Mutant: everything is.
BeginWithAll(role, items, parsed) ==
  [pc |-> "send", role |-> role, items |-> items, todo |-> items, shipped |-> {}]
Begin(role, items, parsed) ==
  [pc |-> "send", role |-> role, items |-> items, todo |-> parsed, shipped |-> {}]

\* Lambda receives a batch and calls the handler, or the bridge; parse_sqs_batch.
Receive(i) ==
  /\ run[i].pc = "idle"
  /\ \E messages \in SUBSET {e \in Events : place[e] = "waiting"} :
       /\ Cardinality(messages) \in 1..BatchSize
       /\ place' = [e \in Events |-> IF e \in messages THEN "taken" ELSE place[e]]
       /\ receives' = [e \in Events |-> receives[e] + IF e \in messages THEN 1 ELSE 0]
       /\ run' = [run EXCEPT ![i] = Begin(IF shipper.via = "bus" THEN "bridge" ELSE "queue",
                                          messages, messages \ garbage)]
  /\ UNCHANGED <<shipper, garbage, busVars, histories, faults>>

\* A service puts an event of its own on the bus.
Emit(e) ==
  /\ shipper.via = "event" /\ place[e] = "none"
  /\ place' = [place EXCEPT ![e] = "deleted"]
  /\ bus' = bus \cup {e}
  /\ garbage' \in {g \in {garbage, garbage \cup {e}} : Cardinality(g) <= MaxGarbage}
  /\ UNCHANGED <<shipper, receives, tries, run, histories, faults>>

\* EventBridge calls the handler with one event; what cannot be normalized is
\* answered with 400.
Invoke(i, e) ==
  /\ run[i].pc = "idle" /\ e \in bus
  /\ bus' = bus \ {e}
  /\ IF shipper.via = "event" /\ e \in garbage
     THEN reported' = reported \cup {e} /\ UNCHANGED run
     ELSE run' = [run EXCEPT ![i] = Begin("bus", {e}, {e})] /\ UNCHANGED reported
  /\ UNCHANGED <<shipper, garbage, queue, tries, accepted, rejected, faults>>

\* ONTAP posts EMS events.  Those that cannot be normalized are skipped; when
\* none is left the answer is 400 or 422.
Webhook(i) ==
  /\ shipper.via = "webhook" /\ run[i].pc = "idle"
  /\ \E posted \in SUBSET {e \in Events : place[e] = "none"} \ {{}} :
     \E bad \in SUBSET posted :
       /\ Cardinality(garbage \cup bad) <= MaxGarbage
       /\ shipper.batches = "single" => Cardinality(posted) = 1
       /\ place' = [e \in Events |-> IF e \in posted THEN "deleted" ELSE place[e]]
       /\ garbage' = garbage \cup bad
       /\ IF posted = bad
          THEN reported' = reported \cup posted /\ UNCHANGED run
          ELSE /\ run' = [run EXCEPT ![i] = Begin("webhook", posted, posted \ bad)]
               /\ UNCHANGED reported
  /\ UNCHANGED <<shipper, receives, busVars, accepted, rejected, faults>>

-----------------------------------------------------------------------------
(* The end of an invocation.                                               *)

\* It raises or times out.
Raise(i) ==
  LET r == run[i]
      back == {e \in r.items : r.role = "bus" /\ tries[e] < MaxRetryAttempts}
  IN  /\ run' = [run EXCEPT ![i] = IdleRun]
      /\ place' = IF r.role \in {"queue", "bridge"} THEN GiveBack(place, r.items) ELSE place
      /\ bus' = bus \cup back
      /\ tries' = [e \in Events |-> tries[e] + IF e \in back THEN 1 ELSE 0]
      /\ reported' = IF r.role \in {"bus", "webhook"}
                     THEN reported \cup (r.items \ back) ELSE reported

\* The bridge reads a body that is JSON but no object: body.get raises.
BridgeRaises(i) ==
  /\ run[i].pc = "send" /\ run[i].role = "bridge" /\ run[i].items \cap garbage # {}
  /\ run[i].shipped = {} /\ run[i].todo = run[i].items \ garbage
  /\ Raise(i)
  /\ UNCHANGED <<shipper, garbage, receives, accepted, rejected, faults>>

\* The ids in batchItemFailures.
\* Mutant: only those that cannot be parsed when something was shipped.
FailuresUnlessSome(r) ==
  (r.items \cap garbage) \cup (IF r.shipped # {} THEN {} ELSE r.items)
Failures(r) ==
  LET parsed == r.items \ garbage
  IN  (r.items \cap garbage) \cup
      CASE r.role = "bridge" \/ shipper.failed = "messages" -> parsed \ r.shipped
        [] r.role = "queue" /\ shipper.failed = "batch" ->
             IF parsed = r.shipped THEN {} ELSE parsed

ReturnFailures(i) ==
  /\ run[i].pc = "send" /\ run[i].todo = {} /\ run[i].role \in {"queue", "bridge"}
  /\ LET failures == Failures(run[i])
     IN  place' = GiveBack([e \in Events |-> IF e \in run[i].items THEN "deleted"
                                                ELSE place[e]], failures)
  /\ run' = [run EXCEPT ![i] = IdleRun]
  /\ UNCHANGED <<shipper, garbage, receives, busVars, histories, faults>>

\* The status of an event of the bus or a webhook call.
ReturnStatus(i) ==
  LET r == run[i]
      whole == r.items \ garbage = r.shipped
  IN  /\ r.pc = "send" /\ r.todo = {} /\ r.role \in {"bus", "webhook"}
      /\ IF ~whole /\ shipper.failed = "raise" THEN Raise(i)
         ELSE /\ reported' = IF whole THEN reported ELSE reported \cup r.items
              /\ run' = [run EXCEPT ![i] = IdleRun]
              /\ UNCHANGED <<place, busVars>>
      /\ UNCHANGED <<shipper, garbage, receives, accepted, rejected, faults>>

\* The credential cannot be read.
NoCredential(i) ==
  LET r == run[i]
  IN  /\ r.pc = "send" /\ r.shipped = {} /\ r.todo = r.items \ garbage
      /\ r.role # "bridge" /\ shipper.noKey # "none"
      /\ Fault
      /\ IF shipper.noKey = "raise" THEN Raise(i)
         ELSE /\ reported' = reported \cup r.items
              /\ run' = [run EXCEPT ![i] = IdleRun]
              /\ UNCHANGED <<place, busVars>>
      /\ UNCHANGED <<shipper, garbage, receives, accepted, rejected>>

Crash(i) ==
  /\ run[i].pc = "send"
  /\ Fault
  /\ Raise(i)
  /\ UNCHANGED <<shipper, garbage, receives, accepted, rejected>>

-----------------------------------------------------------------------------
(* Sending.                                                                *)

Prefixes(todo) == {{e \in todo : e <= last} : last \in todo}

\* batch_by_size, or one payload per event.
Batches(todo) == IF shipper.batches = "single" THEN {{Min(todo)}} ELSE Prefixes(todo)

\* One batch goes to the intake, with its three attempts.
Send(i) ==
  /\ run[i].pc = "send" /\ run[i].todo # {} /\ run[i].role # "bridge"
  /\ \E batch \in Batches(run[i].todo), o \in OutcomesOf[shipper.accepts] :
       \E kept \in IF ~o.kept THEN {{}} ELSE IF shipper.partly THEN SUBSET batch ELSE {batch} :
         /\ FaultUnless(o.ok /\ kept = batch)
         /\ accepted' = accepted \cup kept
         /\ rejected' = IF o.kept THEN rejected \cup (batch \ kept) ELSE rejected
         /\ run' = [run EXCEPT ![i].todo = @ \ batch,
                               ![i].shipped = IF o.ok THEN @ \cup batch ELSE @]
  /\ UNCHANGED <<shipper, garbage, queue, busVars, reported>>

\* int(Retry-After) raises: the batches after this one are not tried; a handler
\* that sends single events goes on with the next.
SendRaises(i) ==
  /\ run[i].pc = "send" /\ run[i].todo # {} /\ run[i].role # "bridge"
  /\ shipper.raises
  /\ Fault
  /\ \E batch \in Batches(run[i].todo) :
       run' = [run EXCEPT ![i].todo = IF shipper.batches = "single" THEN @ \ batch ELSE {}]
  /\ UNCHANGED <<shipper, garbage, queue, busVars, histories>>

\* put_events of the bridge: entries fail one by one, or the call raises.
PutEvents(i) ==
  /\ run[i].pc = "send" /\ run[i].todo # {} /\ run[i].role = "bridge"
  /\ \E put \in SUBSET run[i].todo :
       /\ FaultUnless(put = run[i].todo)
       /\ bus' = bus \cup put
       /\ run' = [run EXCEPT ![i].todo = {}, ![i].shipped = put]
  /\ UNCHANGED <<shipper, garbage, queue, tries, histories>>

ShippersNext ==
  \E i \in Workers :
    \/ Receive(i) \/ Webhook(i)
    \/ Send(i) \/ SendRaises(i) \/ PutEvents(i)
    \/ BridgeRaises(i) \/ ReturnFailures(i) \/ ReturnStatus(i) \/ NoCredential(i) \/ Crash(i)
    \/ \E e \in Events : Invoke(i, e) \/ Emit(e)

-----------------------------------------------------------------------------
(* Properties.                                                             *)

InHand(e) ==
  \/ place[e] \in {"waiting", "taken"} \/ e \in bus
  \/ \E i \in Workers : e \in run[i].items

\* Where an event may end: with the vendor, in the dead-letter queue, or in an
\* answer that is not 200.  Documents rejected inside an Elastic bulk answer and
\* EMS events that cannot be normalized are lost with a 200.
Ended(e) ==
  \/ e \in accepted \cup rejected \cup reported \/ place[e] = "dead"
  \/ shipper.via = "webhook" /\ e \in garbage
=============================================================================
