---------------------------- MODULE AuditShippers ----------------------------
(***************************************************************************)
(* The audit-log handlers of the integrations (integrations/*/lambda/      *)
(* handler.py).  All of them run one loop: for every key, read the object, *)
(* parse it, send its logs in batches with three attempts each, and report *)
(* or save a watermark.  What differs between vendors is in the records of *)
(* the first section; the actions are the loop.                            *)
(*                                                                         *)
(* A handler serves S3 events (mode "event") or, where the integration has *)
(* one, a schedule (mode "schedule").  ONTAP and the vendors' intakes are  *)
(* external.  As in AuditPoller, record r has timestamp r, files are       *)
(* numbered in the order of rotation, and a key that was listed still      *)
(* names the same file when it is read.                                    *)
(***************************************************************************)
EXTENDS VendorIntake, Sequences

CONSTANTS
  Runs,              \* invocations that may overlap
  BatchItems,        \* MAX_BATCH_EVENTS, MAX_BATCH_ITEMS
  GraceSeconds,      \* CHECKPOINT_GRACE_SECONDS, in record times
  MaxKeysPerRun,     \* MAX_KEYS_PER_RUN
  MaxRecords,        \* bound: records written
  MaxUndated,        \* bound: records without a parseable timestamp
  MaxFiles,          \* bound: rotations
  MaxFaults          \* bound: failed calls, refusals, early stops, crashes

ASSUME ConstantsAssumption ==
  /\ {GraceSeconds, MaxRecords, MaxUndated, MaxFiles, MaxFaults} \subseteq Nat
  /\ {BatchItems, MaxKeysPerRun} \subseteq Nat \ {0}

-----------------------------------------------------------------------------
(* The integrations.                                                       *)
(*   needsKey     a credential that cannot be read ends the invocation     *)
(*   emptyIsError an object of no bytes is an entry of "errors"            *)
(*   failedSend   what a batch that was not accepted does: "uncounted", it *)
(*                is only missing from total_shipped; "error", the key is  *)
(*                an entry of "errors"                                     *)
(*   nothingIs502 errors and nothing shipped is status 502                 *)
(*   accepts      the answers taken for an acceptance                      *)
(*   batches      "items", "bytes", or "file" for one payload per key      *)
(*   partly       an accepted payload may hold items the intake rejected   *)
(*   raises       answers that may raise out of the send: a 429 whose      *)
(*                Retry-After is no number, a 200 whose body is no JSON    *)

Handler(needsKey, emptyIsError, failedSend, nothingIs502) ==
  [needsKey |-> needsKey, emptyIsError |-> emptyIsError,
   failedSend |-> failedSend, nothingIs502 |-> nothingIs502]
Intake(accepts, batches, partly, raises) ==
  [accepts |-> accepts, batches |-> batches, partly |-> partly, raises |-> raises]

\* Splunk, a HEC token of the wrong form raises like one that is not found.
SplunkHandler == Handler(TRUE, TRUE, "uncounted", FALSE)
SplunkSend == Intake({200}, "items", FALSE, {})

NewRelicHandler == Handler(TRUE, FALSE, "uncounted", FALSE)
NewRelicIntake == Intake({202}, "bytes", FALSE, {})

\* Elastic: 200 with "errors": true is a success.
ElasticHandler == Handler(TRUE, FALSE, "uncounted", FALSE)
ElasticIntake == Intake({200}, "bytes", TRUE, {200})

HoneycombHandler == Handler(TRUE, FALSE, "uncounted", FALSE)
HoneycombIntake == Intake({200}, "items", FALSE, {})

DynatraceHandler == Handler(TRUE, FALSE, "uncounted", FALSE)
DynatraceIntake == Intake({200, 204}, "bytes", FALSE, {})

SumoLogicHandler == Handler(TRUE, FALSE, "uncounted", FALSE)
SumoLogicIntake == Intake({200}, "bytes", FALSE, {})

\* OpenTelemetry: without the key the payload is sent without authorization.
OtelHandler == Handler(FALSE, FALSE, "error", TRUE)
OtelIntake == Intake(Success, "file", FALSE, {429})

\* Datadog: all batches are tried, then one that failed raises.
DatadogHandler == Handler(TRUE, FALSE, "error", FALSE)
DatadogIntake == Intake(Success, "bytes", FALSE, {429})

GrafanaHandler == Handler(TRUE, FALSE, "uncounted", FALSE)
GrafanaIntake == Intake({200, 204}, "file", FALSE, {})

CrowdstrikeHandler == Handler(TRUE, FALSE, "error", FALSE)
CrowdstrikeIntake == Intake(Success, "file", FALSE, {})

Handlers ==
  [splunk |-> SplunkHandler, newrelic |-> NewRelicHandler, elastic |-> ElasticHandler,
   honeycomb |-> HoneycombHandler, dynatrace |-> DynatraceHandler,
   sumologic |-> SumoLogicHandler, otel |-> OtelHandler, datadog |-> DatadogHandler,
   grafana |-> GrafanaHandler, crowdstrike |-> CrowdstrikeHandler]
Intakes ==
  [splunk |-> SplunkSend, newrelic |-> NewRelicIntake, elastic |-> ElasticIntake,
   honeycomb |-> HoneycombIntake, dynatrace |-> DynatraceIntake,
   sumologic |-> SumoLogicIntake, otel |-> OtelIntake, datadog |-> DatadogIntake,
   grafana |-> GrafanaIntake, crowdstrike |-> CrowdstrikeIntake]

(* The scheduled integrations.                                             *)
(*   coldStart    a checkpoint that cannot be read counts as none          *)
(*   undated      a record without a timestamp is sent                     *)
(*   stopsEarly   the loop ends when little time is left                   *)
(*   skipsUnparsed a file the parser raises on is passed over              *)
GrafanaCheckpoint == [coldStart |-> TRUE]
GrafanaSelection == [undated |-> TRUE]
GrafanaLoop == [stopsEarly |-> TRUE, skipsUnparsed |-> FALSE]
CrowdstrikeCheckpoint == [coldStart |-> TRUE]
CrowdstrikeSelection == [undated |-> TRUE]
CrowdstrikeLoop == [stopsEarly |-> TRUE, skipsUnparsed |-> FALSE]
AmplifyCheckpoint == [coldStart |-> FALSE]
AmplifySelection == [undated |-> FALSE]
AmplifyLoop == [stopsEarly |-> FALSE, skipsUnparsed |-> TRUE]

\* The correlator of the Amplify portal emits its records as log lines.
AmplifyEmit == Intake({200}, "file", FALSE, {})

Checkpoints == [grafana |-> GrafanaCheckpoint, crowdstrike |-> CrowdstrikeCheckpoint,
                amplify |-> AmplifyCheckpoint]
Selections == [grafana |-> GrafanaSelection, crowdstrike |-> CrowdstrikeSelection,
               amplify |-> AmplifySelection]
Loops == [grafana |-> GrafanaLoop, crowdstrike |-> CrowdstrikeLoop, amplify |-> AmplifyLoop]

-----------------------------------------------------------------------------

VARIABLES
  vendor,      \* the integration, and what invokes it: chosen once
  mode,
  log,         \* the records ONTAP wrote: their file and whether they are dated
  active,      \* number of the file being written
  notified,    \* files an S3 event was sent for
  checkpoint,  \* the SSM parameter; 0 is none
  run,         \* per invocation: program counter and local variables
  accepted,    \* history: how often the intake accepted each record; whether
               \* it did, for a schedule
  rejected,    \* history: records rejected inside an accepted payload
  passedOver,  \* history: files passed over because the parser raised
  repeats,     \* history: answers lost and events delivered again
  faults       \* failures still to come

settings == <<vendor, mode>>
ontap == <<log, active>>
histories == <<accepted, rejected, passedOver, repeats>>
vars == <<settings, ontap, notified, checkpoint, run, histories, faults>>

handler == Handlers[vendor]
intake == IF vendor = "amplify" THEN AmplifyEmit ELSE Intakes[vendor]
scheduled == mode = "schedule"

Records == 1..MaxRecords
Written == 1..Len(log)
Holds(f) == {r \in Written : log[r].file = f}

Pcs == {"idle", "list", "next", "send", "done", "retry"}
\* event: keys of the S3 event; keys: keys still to do; todo: records of the
\* file read that are in no batch yet; newest: file_max_ns; failed: a batch of
\* this file was not accepted; sent: what the ship function returns.
Run == [pc : Pcs, event : SUBSET Nat, keys : SUBSET Nat, todo : SUBSET Records,
        batch : SUBSET Records, attempt : 0..(MaxRetries - 1), failed : BOOLEAN, sent : Nat,
        newest : Nat, watermark : Nat, highest : Nat,
        total : Nat, shipped : Nat, errors : BOOLEAN, status : {0, 200, 207, 502}]
IdleRun == [pc |-> "idle", event |-> {}, keys |-> {}, todo |-> {}, batch |-> {},
            attempt |-> 0, failed |-> FALSE, sent |-> 0, newest |-> 0,
            watermark |-> 0, highest |-> 0, total |-> 0, shipped |-> 0,
            errors |-> FALSE, status |-> 0]

\* Everything has its type; a batch and the records after it are apart and of one
\* file; what was counted as shipped was counted as read.
TypeOK ==
  /\ mode = "event" => vendor \in DOMAIN Handlers
  /\ scheduled => vendor \in DOMAIN Loops
  /\ log \in Seq([file : Nat, dated : BOOLEAN])
  /\ active \in Nat /\ notified \subseteq 0..(active - 1)
  /\ checkpoint \in 0..Len(log)
  /\ run \in [Runs -> Run]
  /\ \A i \in Runs : /\ run[i].todo \cap run[i].batch = {}
                     /\ Cardinality({log[r].file : r \in run[i].todo \cup run[i].batch}) <= 1
                     /\ run[i].shipped + run[i].sent + Cardinality(run[i].batch)
                          + Cardinality(run[i].todo) <= run[i].total
  /\ accepted \in [Records -> Nat]
  /\ rejected \subseteq Written /\ passedOver \subseteq 0..active
  /\ repeats \in Nat /\ faults \in 0..MaxFaults

Init ==
  /\ \/ mode = "event" /\ vendor \in DOMAIN Handlers
     \/ scheduled /\ vendor \in DOMAIN Loops
  /\ log = << >> /\ active = 0
  /\ notified = {} /\ checkpoint = 0
  /\ run = [i \in Runs |-> IdleRun]
  /\ accepted = [r \in Records |-> 0]
  /\ rejected = {} /\ passedOver = {} /\ repeats = 0
  /\ faults = MaxFaults

Fault == faults > 0 /\ faults' = faults - 1
FaultUnless(fine) == IF fine THEN UNCHANGED faults ELSE Fault

-----------------------------------------------------------------------------
(* ONTAP.                                                                  *)

Write(dated) ==
  /\ Len(log) < MaxRecords
  /\ dated \/ Cardinality({r \in Written : ~log[r].dated}) < MaxUndated
  /\ log' = Append(log, [file |-> active, dated |-> dated])
  /\ UNCHANGED <<settings, active, notified, checkpoint, run, histories, faults>>

Rotate ==
  /\ active < MaxFiles
  /\ active' = active + 1
  /\ UNCHANGED <<settings, log, notified, checkpoint, run, histories, faults>>

-----------------------------------------------------------------------------
(* The start of an invocation.                                             *)

\* lambda_handler up to the loop: the keys of the event, after the credential.
Begin(named, key) ==
  IF key \/ ~handler.needsKey
  THEN [IdleRun EXCEPT !.pc = "next", !.event = named, !.keys = named]
  ELSE [IdleRun EXCEPT !.pc = "retry", !.event = named]

\* An S3 event for files that are complete.
Notify(i) ==
  /\ ~scheduled /\ run[i].pc = "idle"
  /\ \E named \in SUBSET (0..(active - 1) \ notified) \ {{}}, key \in BOOLEAN :
       /\ FaultUnless(key)
       /\ notified' = notified \cup named
       /\ run' = [run EXCEPT ![i] = Begin(named, key)]
  /\ UNCHANGED <<settings, ontap, checkpoint, histories>>

\* Lambda delivers an event again after a failed invocation, or drops it.
Redeliver(i) ==
  /\ run[i].pc = "retry"
  /\ repeats' = repeats + 1
  /\ run' = [run EXCEPT ![i] = Begin(run[i].event, TRUE)]
  /\ UNCHANGED <<settings, ontap, notified, checkpoint, accepted, rejected, passedOver, faults>>
Drop(i) ==
  /\ run[i].pc = "retry"
  /\ run' = [run EXCEPT ![i] = IdleRun]
  /\ UNCHANGED <<settings, ontap, notified, checkpoint, histories, faults>>

\* _get_checkpoint: a lookup that fails is a cold start, or raises.
ReadCheckpoint(i) ==
  /\ scheduled /\ run[i].pc = "idle"
  /\ \E wm \in IF Checkpoints[vendor].coldStart THEN {0, checkpoint} ELSE {checkpoint} :
       /\ FaultUnless(wm = checkpoint)
       /\ run' = [run EXCEPT ![i] = [IdleRun EXCEPT !.pc = "list", !.watermark = wm,
                                                    !.highest = wm]]
  /\ UNCHANGED <<settings, ontap, notified, checkpoint, histories>>

\* LastModified is the time of the last record.
Candidate(f, wm) ==
  \E r \in Holds(f) : wm = 0 \/ r >= wm - GraceSeconds

\* candidates.sort() and the cut: oldest first.
OldestKeys(files) ==
  {f \in files : Cardinality({g \in files : g <= f}) <= MaxKeysPerRun}

List(i) ==
  /\ run[i].pc = "list"
  /\ run' = [run EXCEPT ![i].pc = "next",
                        ![i].keys = OldestKeys({f \in 0..active : Candidate(f, run[i].watermark)})]
  /\ UNCHANGED <<settings, ontap, notified, checkpoint, histories, faults>>

-----------------------------------------------------------------------------
(* The loop over the keys.                                                 *)

AtKey(i, f) ==
  /\ run[i].pc = "next" /\ f \in run[i].keys
  /\ \A g \in run[i].keys : f <= g

\* The parsers salvage the complete records of a file that is being written.
Readable(f) ==
  {Holds(f)} \cup (IF f = active THEN {{r \in Holds(f) : r < Len(log)}} ELSE {})

\* _filter_new_records.
Fresh(records, wm) ==
  IF scheduled
  THEN {r \in records : IF log[r].dated THEN r > wm ELSE Selections[vendor].undated}
  ELSE records

ReadFile(i, f) ==
  /\ AtKey(i, f)
  /\ \E records \in Readable(f) :
       LET fresh == Fresh(records, run[i].watermark)
       IN  run' = [run EXCEPT ![i] = [run[i] EXCEPT
             !.pc = "send", !.keys = @ \ {f}, !.todo = fresh, !.failed = FALSE, !.sent = 0,
             !.newest = Max({run[i].highest} \cup {r \in fresh : log[r].dated}),
             !.total = @ + Cardinality(fresh),
             !.errors = @ \/ (~scheduled /\ Holds(f) = {} /\ handler.emptyIsError)]]
  /\ UNCHANGED <<settings, ontap, notified, checkpoint, histories, faults>>

\* The file is left: the schedule's loop ends, that of an event goes on.
\* Mutant: both go on.
LeaveAndGoOn(r) == [r EXCEPT !.pc = "next", !.todo = {}, !.batch = {}, !.attempt = 0,
                             !.sent = 0, !.errors = TRUE]
Leave(r) ==
  [r EXCEPT !.pc = "next", !.todo = {}, !.batch = {}, !.attempt = 0, !.sent = 0,
            !.errors = TRUE, !.keys = IF scheduled THEN {} ELSE @]

\* The read fails, or the parser raises.
ReadFails(i, f) ==
  /\ AtKey(i, f)
  /\ Fault
  /\ run' = [run EXCEPT ![i] = Leave([run[i] EXCEPT !.keys = @ \ {f}])]
  /\ UNCHANGED <<settings, ontap, notified, checkpoint, histories>>
PassOver(i, f) ==
  /\ AtKey(i, f)
  /\ scheduled /\ Loops[vendor].skipsUnparsed
  /\ Fault
  /\ passedOver' = passedOver \cup {f}
  /\ run' = [run EXCEPT ![i].keys = @ \ {f}]
  /\ UNCHANGED <<settings, ontap, notified, checkpoint, accepted, rejected, repeats>>

StopEarly(i) ==
  /\ run[i].pc = "next" /\ run[i].keys # {}
  /\ scheduled /\ Loops[vendor].stopsEarly
  /\ Fault
  /\ run' = [run EXCEPT ![i].keys = {}]
  /\ UNCHANGED <<settings, ontap, notified, checkpoint, histories>>

-----------------------------------------------------------------------------
(* Sending.                                                                *)

Prefixes(todo) == {{r \in todo : r <= last} : last \in todo}

\* The next batch: a fixed number of items, as many as fit, or all.
Batches(todo) ==
  CASE intake.batches = "items" ->
         {b \in Prefixes(todo) : Cardinality(b) = Min({BatchItems, Cardinality(todo)})}
    [] intake.batches = "bytes" -> Prefixes(todo)
    [] intake.batches = "file" -> {todo}

\* Mutant: the last item of a batch is the first of the next.
TakeBatchOverlapping(i) ==
  /\ run[i].pc = "send" /\ run[i].batch = {}
  /\ \E b \in Batches(run[i].todo) :
       run' = [run EXCEPT ![i].batch = b, ![i].attempt = 0,
                          ![i].todo = IF @ = b THEN {} ELSE @ \ (b \ {Max(b)})]
  /\ UNCHANGED <<settings, ontap, notified, checkpoint, histories, faults>>
TakeBatch(i) ==
  /\ run[i].pc = "send" /\ run[i].batch = {}
  /\ \E b \in Batches(run[i].todo) :
       run' = [run EXCEPT ![i].batch = b, ![i].attempt = 0, ![i].todo = @ \ b]
  /\ UNCHANGED <<settings, ontap, notified, checkpoint, histories, faults>>

\* Writing a log line does not fail.
Answers == IF vendor = "amplify" THEN {200} ELSE Codes

\* What the intake keeps of a payload it answers with this code.
Kept(code, batch) ==
  IF code \in Success THEN IF intake.partly THEN SUBSET batch ELSE {batch}
  ELSE IF code \in {0, 503} THEN {{}, batch}
  ELSE {{}}

\* One attempt of the send function.  The outage of the first attempt may last
\* through the other two.
Post(i) ==
  /\ run[i].pc = "send" /\ run[i].batch # {}
  /\ \E code \in Answers : \E kept \in Kept(code, run[i].batch) :
       LET r == run[i]
           ok == code \in intake.accepts
       IN  /\ FaultUnless((ok /\ kept = r.batch) \/ r.attempt > 0)
           /\ accepted' = [x \in Records |-> IF x \notin kept THEN accepted[x]
                                            ELSE IF scheduled THEN 1 ELSE accepted[x] + 1]
           /\ rejected' = IF ok THEN rejected \cup (r.batch \ kept) ELSE rejected
           /\ repeats' = IF ~scheduled /\ Again(code) /\ kept # {} THEN repeats + 1 ELSE repeats
           /\ run' = [run EXCEPT ![i] =
                IF Again(code) /\ r.attempt < MaxRetries - 1 THEN [r EXCEPT !.attempt = @ + 1]
                ELSE [r EXCEPT !.batch = {}, !.attempt = 0,
                               !.sent = IF ok THEN @ + Cardinality(r.batch) ELSE @,
                               !.failed = @ \/ ~ok]]
  /\ UNCHANGED <<settings, ontap, notified, checkpoint, passedOver>>

\* int() of a Retry-After that is a date, json.loads() of a body that is not JSON.
PostRaises(i) ==
  /\ run[i].pc = "send" /\ run[i].batch # {}
  /\ \E code \in intake.raises : \E kept \in Kept(code, run[i].batch) :
       accepted' = [x \in Records |-> accepted[x] + IF x \in kept THEN 1 ELSE 0]
  /\ Fault
  /\ run' = [run EXCEPT ![i] = Leave(run[i])]
  /\ UNCHANGED <<settings, ontap, notified, checkpoint, rejected, passedOver, repeats>>

\* All batches of the file were tried.
\* Mutant: the watermark of a file moves although it failed.
EndFileAsSent(i) ==
  /\ run[i].pc = "send" /\ run[i].batch = {} /\ run[i].todo = {}
  /\ run' = [run EXCEPT ![i].pc = "next", ![i].shipped = @ + run[i].sent, ![i].sent = 0,
                        ![i].highest = run[i].newest]
  /\ UNCHANGED <<settings, ontap, notified, checkpoint, histories, faults>>
EndFile(i) ==
  /\ run[i].pc = "send" /\ run[i].batch = {} /\ run[i].todo = {}
  /\ run' = [run EXCEPT ![i] =
       IF run[i].failed /\ (scheduled \/ handler.failedSend = "error") THEN Leave(run[i])
       ELSE [run[i] EXCEPT !.pc = "next", !.shipped = @ + run[i].sent, !.sent = 0,
                           !.highest = run[i].newest]]
  /\ UNCHANGED <<settings, ontap, notified, checkpoint, histories, faults>>

-----------------------------------------------------------------------------
(* The end of an invocation.                                               *)

Status(r) ==
  IF ~r.errors THEN 200 ELSE IF handler.nothingIs502 /\ r.shipped = 0 THEN 502 ELSE 207

Report(i) ==
  /\ ~scheduled
  /\ run[i].pc = "next" /\ run[i].keys = {}
  /\ run' = [run EXCEPT ![i].pc = "done", ![i].status = Status(run[i])]
  /\ UNCHANGED <<settings, ontap, notified, checkpoint, histories, faults>>

\* The event was handled, whatever its status.
Forget(i) ==
  /\ run[i].pc = "done"
  /\ run' = [run EXCEPT ![i] = IdleRun]
  /\ UNCHANGED <<settings, ontap, notified, checkpoint, histories, faults>>

\* _set_checkpoint overwrites what is there; a put that fails is logged or raises.
Save(i) ==
  /\ scheduled
  /\ run[i].pc = "next" /\ run[i].keys = {}
  /\ IF run[i].highest > run[i].watermark
     THEN \/ checkpoint' = run[i].highest /\ UNCHANGED faults
          \/ Fault /\ UNCHANGED checkpoint
     ELSE UNCHANGED <<checkpoint, faults>>
  /\ run' = [run EXCEPT ![i] = IdleRun]
  /\ UNCHANGED <<settings, ontap, notified, histories>>

\* The function times out; a listing or a checkpoint that is read raises.
Crash(i) ==
  /\ run[i].pc \in {"list", "next", "send"}
  /\ Fault
  /\ run' = [run EXCEPT ![i] = [IdleRun EXCEPT !.pc = IF scheduled THEN "idle" ELSE "retry",
                                               !.event = run[i].event]]
  /\ UNCHANGED <<settings, ontap, notified, checkpoint, histories>>

Next ==
  \/ \E dated \in BOOLEAN : Write(dated)
  \/ Rotate
  \/ \E i \in Runs :
       \/ Notify(i) \/ Redeliver(i) \/ Drop(i) \/ ReadCheckpoint(i) \/ List(i)
       \/ StopEarly(i) \/ TakeBatch(i) \/ Post(i) \/ PostRaises(i) \/ EndFile(i)
       \/ Report(i) \/ Forget(i) \/ Save(i) \/ Crash(i)
       \/ \E f \in 0..active : ReadFile(i, f) \/ ReadFails(i, f) \/ PassOver(i, f)

Spec == Init /\ [][Next]_vars

-----------------------------------------------------------------------------
(* Properties.                                                             *)

Accepted == {r \in Records : accepted[r] > 0}
OfEvent(i) == UNION {Holds(f) : f \in run[i].event}

\* "200 all success" of the handlers' results, as far as the code keeps it: when
\* an invocation reports 200, every record of its files was accepted if the
\* handler lists failed batches as errors, and for the others if total_shipped
\* equals total_logs.  Documents rejected inside an Elastic bulk answer are
\* counted as shipped.
NoFalseAllClear ==
  \A i \in Runs :
    /\ run[i].pc = "done" /\ run[i].status = 200
    /\ handler.failedSend = "error" \/ run[i].shipped = run[i].total
    => OfEvent(i) \subseteq Accepted \cup rejected

\* An S3 event's records are accepted once each, plus once for every answer that
\* was lost and every delivery after a crash: batches neither overlap nor are
\* they sent again after an acceptance.
SentOnceUnlessRepeated ==
  ~scheduled => \A r \in Records : accepted[r] <= 1 + repeats

\* The watermark passes no record that was not accepted, but for what the
\* correlator declares it leaves out: undated records and unparseable files.
WatermarkIsCovered ==
  \A r \in 1..checkpoint :
    \/ r \in Accepted
    \/ ~log[r].dated /\ ~Selections[vendor].undated
    \/ log[r].file \in passedOver
=============================================================================
