----------------------------- MODULE OntapMetrics -----------------------------
(***************************************************************************)
(* The ONTAP metrics poller (src/shared/lambda/ontap_metrics): a scheduled  *)
(* function that reads quota reports, SnapMirror relationships and QoS      *)
(* counters page by page from the ONTAP REST API and publishes CloudWatch   *)
(* metrics.  Two entry points share the collectors:                         *)
(*   "handler"   ontap_metrics_handler.lambda_handler: every enabled        *)
(*               collector in turn, each one's failure kept apart, and a    *)
(*               heartbeat per collector at the end;                        *)
(*   "template"  the lambda_handler of the qtree and QoS files: a single    *)
(*               collector, no heartbeat, any failure fails the invocation. *)
(* One page holds at most one record, the value of a counter or a quota is  *)
(* a small number, and a datum is a record of the metric, of the record it  *)
(* is a series of, and of its value. The datums of a run are a set: the     *)
(* order they are put in is left open. What is read is chosen at the        *)
(* request that reads it. Credentials expire at any request, or never.      *)
(* Time passes between the requests of the two QoS samples only.            *)
(***************************************************************************)
EXTENDS Integers, Sequences, FiniteSets, FiniteSetsExt

CONSTANTS
  CollectorLists,   \* the values COLLECTORS may have, split at the commas
  TemplateLists,    \* the single collectors deployed by the templates
  Lags,             \* lags a relationship reports; -1: none, or unreadable
  Workloads,        \* workloads of operators, by name
  Identified,       \* those whose rows have an id; the others share a group
  IncludeSystem,    \* QOS_INCLUDE_SYSTEM_WORKLOADS
  MaxSeries,        \* cap on relationships and on workload rows with series
  MaxPages,         \* pages read per collection
  PutBatch,         \* datums per PutMetricData call
  MaxRetries,       \* times Lambda repeats an invocation that failed
  MaxFaults,        \* bound: requests that fail, invocations that are killed
  MaxRotations      \* bound: changes of the ONTAP password

Collectors == {"qtree", "snapmirror", "qos"}
Entries == {"handler", "template"}
None == -1

\* A quota with an empty qtree name is not named; limit 0 is no hard limit.
Quota == [named : BOOLEAN, used : 0..2, limit : {0, 2}]

\* healthy is TRUE only for the boolean true; path: both paths are there.
Relationship == [healthy : BOOLEAN, path : BOOLEAN, lag : Lags]

\* A row of the counter table.  "system" stands for the workloads of internal
\* policy groups and "" for a row with neither a name nor an id.  born tells
\* apart the workloads that had the same name.  History, not read by the code:
\* when the row was read, and did, what its workload has really done since its
\* row of the first sample.
Row == [workload : Workloads \cup {"system", ""}, born : 0..1, ops : 0..2,
        did : 0..1, when : Nat]

ASSUME MetricsAssumption ==
  /\ \A list \in CollectorLists \cup TemplateLists :
       list \in Seq(Collectors) \ {<<>>}
  /\ \A list \in TemplateLists : Len(list) = 1
  /\ Lags \subseteq Int /\ IncludeSystem \in BOOLEAN
  /\ Identified \subseteq Workloads \cup {"system"}
  /\ MaxPages \in Nat \ {0} /\ PutBatch \in Nat \ {0} /\ MaxSeries \in Nat
  /\ MaxRetries \in Nat /\ MaxFaults \in Nat /\ MaxRotations \in Nat

VARIABLES
  entry, collectors,   \* the entry point and the parsed list of collectors
  password,            \* the password ONTAP accepts, as a version
  secret,              \* the version in Secrets Manager
  cached,              \* _creds_cache: a version, or None
  pc, at,              \* where the invocation stands, and in which collector
  phase, read, more,   \* the collection being read, its records, next link
  pages,               \* pages read of it
  resending,           \* a request whose answer was lost is sent again
  sample,              \* QoS: the rows of the first sample
  clock, start,        \* QoS: seconds since the first page was read, and the
                       \* start of the measurement
  queue, cloud,        \* datums still to put, datums put for this collector
  results, beats,      \* per collector: its outcome, its heartbeat
  owed,                \* history: datums built and not accepted, per collector
  attempt,             \* times this event's invocation was repeated
  rejected,            \* history, per event: logins ONTAP rejected,
  unanswered, lost,    \* those of them whose answer was lost on the way, and
                       \* invocations lost to a heartbeat or to a timeout
  faults

account == <<password, secret>>
times == <<clock, start>>
reading == <<phase, read, more, pages, resending, sample, times>>
putting == <<queue, cloud, owed>>
outcome == <<results, beats>>
event == <<attempt, rejected, unanswered, lost>>
setup == <<entry, collectors>>
vars == <<setup, account, cached, pc, at, reading, putting, outcome, event,
          faults>>

Name == collectors[at]
NoResults == [c \in Collectors |-> "none"]
NoBeats == [c \in Collectors |-> None]

\* parse_collectors: every name once, in the order given.  Unknown names and an
\* empty list raise before any request and are left out.
ParseCollectors(raw) ==
  LET names[n \in 0..Len(raw)] ==
        IF n = 0 THEN <<>>
        ELSE IF raw[n] \in Range(names[n - 1]) THEN names[n - 1]
        ELSE Append(names[n - 1], raw[n])
  IN names[Len(raw)]

FirstPhase(c) ==
  CASE c = "qtree" -> "quotas"
    [] c = "snapmirror" -> "relationships"
    [] c = "qos" -> "schemas"

-----------------------------------------------------------------------------
(* What the collectors compute from what they read. *)

\* The value of a metric for the record at place i, or for the file system.
FileSystem == 0
Datum(metric, i, value) == [metric |-> metric, of |-> i, value |-> value]
Mark(metric, truncated) == Datum(metric, FileSystem, IF truncated THEN 1 ELSE 0)

\* The first MaxSeries of these records have series of their own.
Drawn(places) == {i \in places : Cardinality({j \in places : j < i}) < MaxSeries}

Usable(quota) == quota.named /\ quota.limit # 0
Percent(quota) == (100 * quota.used) \div quota.limit

\* Every quota with a name and a limit has its series (three datums of the
\* same record, one here); the maximum is left out when there is none.
QuotaSeries(records) ==
  {Datum("QuotaUsedPercent", i, Percent(records[i])) :
     i \in {j \in DOMAIN records : Usable(records[j])}}

QuotaSummary(records, truncated) ==
  LET percents == {Percent(q) : q \in {r \in Range(records) : Usable(r)}}
  IN (IF percents = {} THEN {}
      ELSE {Datum("QuotaUsedPercentMax", FileSystem, Max(percents))})
     \cup {Mark("QuotaReportTruncated", truncated)}

WithPath(records) == {i \in DOMAIN records : records[i].path}

RelationshipSeries(records) ==
  LET drawn == Drawn(WithPath(records))
  IN {Datum("RelationshipHealthy", i, IF records[i].healthy THEN 1 ELSE 0) : i \in drawn}
     \cup {Datum("LagSeconds", i, records[i].lag) :
             i \in {j \in drawn : records[j].lag # -1}}

\* Mutant: relationships without a usable path are not reported as left out.
SummaryIgnoresPathless(records, page_truncated) ==
  LET unhealthy == {i \in WithPath(records) : ~records[i].healthy}
      lags == {records[i].lag : i \in WithPath(records)} \ {-1}
  IN {Datum("UnhealthyCount", FileSystem, Cardinality(unhealthy)),
      Mark("RelationshipsTruncated",
           Cardinality(WithPath(records)) > MaxSeries \/ page_truncated)}
     \cup (IF lags = {} THEN {} ELSE {Datum("LagSecondsMax", FileSystem, Max(lags))})

RelationshipSummary(records, page_truncated) ==
  LET unhealthy == {i \in DOMAIN records : ~records[i].healthy}
      lags == {records[i].lag : i \in DOMAIN records} \ {-1}
      truncated == \/ Cardinality(WithPath(records)) > MaxSeries
                   \/ page_truncated
                   \/ WithPath(records) # DOMAIN records
  IN {Datum("UnhealthyCount", FileSystem, Cardinality(unhealthy)),
      Mark("RelationshipsTruncated", truncated)}
     \cup (IF lags = {} THEN {} ELSE {Datum("LagSecondsMax", FileSystem, Max(lags))})

Nameless(row) == row.workload = ""
Internal(row) == row.workload = "system"

\* The id of the row, and without one its policy group, which workloads share.
Identity(row) ==
  IF row.workload \in Identified THEN <<row.workload, row.born>>
                                  ELSE <<IF Internal(row) THEN "_System" ELSE "User">>

Candidate(row) == ~Nameless(row) /\ (Internal(row) => IncludeSystem)
Candidates == {i \in DOMAIN sample : Candidate(sample[i])}

\* Mutant: rows of the two samples matched by their position.
RowAtSamePlace(i) == {read[j] : j \in {i} \cap DOMAIN read}

\* The row of the second sample with the identity of this one, if any: rows
\* are matched by identity, since their order may differ between samples. Of
\* several rows with one identity the index keeps the last.
SameIdentity(i) == {j \in DOMAIN read : Identity(read[j]) = Identity(sample[i])}
MatchedRow(i) ==
  {read[j] : j \in {k \in SameIdentity(i) : \A l \in SameIdentity(i) : l <= k}}

CounterDelta(i) == (CHOOSE r \in MatchedRow(i) : TRUE).ops - sample[i].ops

\* The measured time: not from the rows, but from the end of the first sample
\* to the end of the second.
elapsed == clock - start

\* The four rates, in thousandths per second: none when the counter went back,
\* or no time has passed.
RateDatums(i, delta) ==
  IF delta < 0 \/ elapsed <= 0 THEN {}
  ELSE {Datum("QosOps", i, (1000 * delta) \div elapsed)}

\* The accumulated latency goes with the operations, which are its divisor:
\* the average is over delta operations.
LatencyDatum(i, delta) ==
  IF delta <= 0 \/ elapsed <= 0 THEN {} ELSE {Datum("QosLatency", i, delta)}

RowDatums(i) ==
  IF MatchedRow(i) = {} THEN {}
  ELSE RateDatums(i, CounterDelta(i)) \cup LatencyDatum(i, CounterDelta(i))

\* Rows with datums count against the cap.
Publishable == {i \in Candidates : RowDatums(i) # {}}
QosSeries == UNION {RowDatums(i) : i \in Drawn(Publishable)}

\* A candidate met after the cap is reached sets the truncation mark whether or
\* not it would have datums.
QosCapped ==
  \E i \in Candidates : Cardinality({j \in Publishable : j < i}) >= MaxSeries

QosSummary ==
  {Mark("QosPolicyGroupsTruncated",
        QosCapped \/ \E row \in Range(sample) : Nameless(row))}

QtreeDatums == QuotaSeries(read) \cup QuotaSummary(read, more)
SnapmirrorDatums == RelationshipSeries(read) \cup RelationshipSummary(read, more)
QosDatums == QosSeries \cup QosSummary

Datums(c) ==
  CASE c = "qtree" -> QtreeDatums
    [] c = "snapmirror" -> SnapmirrorDatums
    [] c = "qos" -> QosDatums

-----------------------------------------------------------------------------
Init ==
  /\ entry \in Entries
  /\ collectors \in IF entry = "handler"
                     THEN {ParseCollectors(raw) : raw \in CollectorLists}
                     ELSE TemplateLists
  /\ password = 0 /\ secret = 0 /\ cached = None
  /\ pc = "idle" /\ at = 1
  /\ phase = "none" /\ read = <<>> /\ more = FALSE /\ pages = 0
  /\ resending = FALSE /\ sample = <<>> /\ clock = 0 /\ start = 0
  /\ queue = {} /\ cloud = {} /\ owed = [c \in Collectors |-> 0]
  /\ results = NoResults /\ beats = NoBeats
  /\ attempt = 0 /\ rejected = 0 /\ unanswered = 0 /\ lost = 0 /\ faults = 0

\* A collector's local variables end with it.
DropLocals ==
  /\ phase' = "none" /\ read' = <<>> /\ more' = FALSE /\ pages' = 0
  /\ resending' = FALSE /\ sample' = <<>> /\ clock' = 0 /\ start' = 0
  /\ queue' = {} /\ cloud' = {}

\* What an invocation starts from: nothing but the credentials survives.
Fresh ==
  /\ pc' = "collect" /\ at' = 1
  /\ owed' = [c \in Collectors |-> 0]
  /\ results' = NoResults /\ beats' = NoBeats
  /\ UNCHANGED <<reading, queue, cloud>>

\* The schedule fires; at most one invocation runs (reserved concurrency 1).
\* A new container has no credentials.
Invoke(cold) ==
  /\ pc = "idle"
  /\ Fresh
  /\ cached' = IF cold THEN None ELSE cached
  /\ attempt' = 0 /\ rejected' = 0 /\ unanswered' = 0 /\ lost' = 0
  /\ UNCHANGED <<setup, account, faults>>

\* Lambda repeats a failed invocation twice, then the event is in the DLQ.
Repeat ==
  /\ pc = "raised" /\ attempt < MaxRetries
  /\ Fresh
  /\ attempt' = attempt + 1
  /\ UNCHANGED <<setup, account, cached, rejected, unanswered, lost, faults>>

GiveUp ==
  /\ pc = "raised" /\ attempt = MaxRetries
  /\ pc' = "idle"
  /\ UNCHANGED <<setup, account, cached, at, reading, putting, outcome, event,
                 faults>>

-----------------------------------------------------------------------------
(* The loop over the collectors. *)

\* Mutant: the collectors after a rejected login run as well.
NeverSkips == FALSE

AuthFailed == \E c \in Collectors : results[c] = "rejected"

StartCollector ==
  /\ pc = "collect" /\ at <= Len(collectors) /\ ~AuthFailed
  /\ pc' = "get"
  /\ phase' = FirstPhase(Name)
  /\ UNCHANGED <<setup, account, cached, at, read, more, pages, resending, sample,
                 times, putting, outcome, event, faults>>

SkipCollector ==
  /\ pc = "collect" /\ at <= Len(collectors) /\ AuthFailed
  /\ results' = [results EXCEPT ![Name] = "skipped"]
  /\ at' = at + 1
  /\ UNCHANGED <<setup, account, cached, pc, reading, putting, beats, event,
                 faults>>

\* The template's entry points have no try: the invocation fails.
TemplateFails == entry = "template" /\ pc' = "raised" /\ UNCHANGED <<results, at>>

\* A collector that fails: its outcome is noted and the next one runs.
CollectorFails(result) ==
  /\ \/ TemplateFails
     \/ /\ entry = "handler"
        /\ results' = [results EXCEPT ![Name] = result]
        /\ at' = at + 1 /\ pc' = "collect"
  /\ DropLocals
  /\ UNCHANGED <<setup, account, beats, attempt, lost>>

\* _get_credentials: the secret is read when nothing is cached, and in the
\* handler when the cached one has outlived its time (expired). A request that
\* is sent again has the header it had.
Credentials(expired) ==
  IF cached = None \/ (expired /\ entry = "handler" /\ ~resending)
  THEN secret ELSE cached

\* Mutant: the rejected credentials stay cached.
RejectedStayCached(expired) ==
  /\ pc = "get"
  /\ Credentials(expired) # password
  /\ cached' = Credentials(expired)
  /\ rejected' = rejected + 1
  /\ CollectorFails("rejected")
  /\ UNCHANGED <<owed, unanswered, faults>>

\* The handler drops the cached credentials after a rejection.
GetRejected(expired) ==
  /\ pc = "get"
  /\ Credentials(expired) # password
  /\ cached' = IF entry = "handler" THEN None ELSE Credentials(expired)
  /\ rejected' = rejected + 1
  /\ CollectorFails("rejected")
  /\ UNCHANGED <<owed, unanswered, faults>>

\* A 403 is no wrong password, and is handled as one.
GetForbidden(expired) ==
  /\ pc = "get" /\ faults < MaxFaults
  /\ Credentials(expired) = password
  /\ cached' = IF entry = "handler" THEN None ELSE Credentials(expired)
  /\ faults' = faults + 1
  /\ CollectorFails("rejected")
  /\ UNCHANGED <<owed, rejected, unanswered>>

\* A request that does not log in, or not with a wrong password: ONTAP is not
\* reached, it answers with another HTTP error, the secret cannot be read.
GetFails(expired) ==
  /\ pc = "get" /\ faults < MaxFaults
  /\ cached' \in {cached, Credentials(expired)}
  /\ faults' = faults + 1
  /\ CollectorFails("failed")
  /\ UNCHANGED <<owed, rejected, unanswered>>

\* ONTAP answers, a rejected login too, and the answer is lost. The request is
\* sent again, or, when its retries are used up, the collector fails with an
\* exception that is no rejection. How many retries there are is left open.
AnswerLost(expired) ==
  /\ pc = "get" /\ faults < MaxFaults
  /\ cached' = Credentials(expired)
  /\ faults' = faults + 1
  /\ IF Credentials(expired) = password
     THEN UNCHANGED <<rejected, unanswered>>
     ELSE rejected' = rejected + 1 /\ unanswered' = unanswered + 1
  /\ \/ CollectorFails("failed") /\ UNCHANGED owed
     \/ /\ resending' = TRUE
        /\ UNCHANGED <<setup, account, pc, at, phase, read, more, pages, sample,
                       times, putting, outcome, attempt, lost>>

LoggedIn(expired) ==
  /\ pc = "get"
  /\ Credentials(expired) = password
  /\ cached' = Credentials(expired)
  /\ resending' = FALSE
  /\ UNCHANGED <<setup, account, at, putting, outcome, event, faults>>

\* Whether the loop over the pages goes on after this page.
Continues(next) == next /\ pages + 1 < MaxPages

GetSchemas(expired) ==
  /\ phase = "schemas"
  /\ LoggedIn(expired)
  /\ phase' = "workloads"
  /\ UNCHANGED <<pc, read, more, pages, sample, times>>

\* The workloads only name the SVM of a series: none of them is kept here.
GetWorkloads(expired, next) ==
  /\ phase = "workloads"
  /\ LoggedIn(expired)
  /\ phase' = IF Continues(next) THEN phase ELSE "sample1"
  /\ pages' = IF Continues(next) THEN pages + 1 ELSE 0
  /\ UNCHANGED <<pc, read, more, sample, times>>

\* A page of records: none or one, and perhaps a next link.
ReadPage(page, next) ==
  /\ read' = read \o page /\ more' = next /\ pages' = pages + 1
  /\ pc' = IF Continues(next) THEN "get" ELSE "build"
  /\ UNCHANGED <<phase, sample, times>>

GetQuotas(expired, page, next) ==
  phase = "quotas" /\ LoggedIn(expired) /\ ReadPage(page, next)

GetRelationships(expired, page, next) ==
  phase = "relationships" /\ LoggedIn(expired) /\ ReadPage(page, next)

-----------------------------------------------------------------------------
(* The two samples of the QoS counters. *)

NamesOf(rows) == {r.workload : r \in Range(rows)} \ {""}

FirstRow(w, now) == [workload |-> w, born |-> 0, ops |-> 1, did |-> 0, when |-> now]
FirstRows(now) == {FirstRow(w, now) : w \in Workloads \cup {"system", ""}}

\* A row of the second sample: the workload went on counting, its counter was
\* reset some time between the samples, it was created anew, or it was not in
\* the first sample.  Rows that are passed over in the first are left out.
Later(row, now, b, n, d) ==
  [workload |-> row.workload, born |-> b, ops |-> n, did |-> d, when |-> now]
SecondRows(now) ==
  (UNION {   {Later(row, now, 0, row.ops + d, d) : d \in 0..1}
        \cup {Later(row, now, 0, n, 1) : n \in 0..1} \cup {Later(row, now, 0, 0, 0)}
        \cup {Later(row, now, 1, d, d) : d \in 0..1}
          : row \in {r \in Range(sample) : Candidate(r)}})
  \cup {FirstRow(w, now) : w \in Workloads \ NamesOf(sample)}

\* The clock when the next page has been read: it starts with the first one of
\* the first sample; then a sleep or a request takes a second, or none.
TakesTime == phase = "sample2" \/ (phase = "sample1" /\ pages # 0)
Moments == {t \in {clock, clock + 1} : pc = "get" /\ (t = clock \/ TakesTime)}

\* What the next request may return in one page, by what is being read.
Pages(now) ==
  LET New(rows, known) == {r \in rows : r.workload \notin known}
  IN {<<>>} \cup
     {<<r>> : r \in CASE phase = "quotas" -> Quota
                      [] phase = "relationships" -> Relationship
                      [] phase = "sample1" -> New(FirstRows(now), NamesOf(sample))
                      [] phase = "sample2" -> New(SecondRows(now), NamesOf(read))
                      [] OTHER -> {}}

\* _paginate of the first sample; the measurement starts after the last page,
\* and time.sleep follows.
GetSample1(expired, now, page, next) ==
  /\ phase = "sample1"
  /\ sample' = sample \o page /\ clock' = now
  /\ LoggedIn(expired)
  /\ IF Continues(next) THEN pages' = pages + 1 /\ UNCHANGED <<phase, start>>
                        ELSE pages' = 0 /\ phase' = "sample2" /\ start' = now
  /\ UNCHANGED <<pc, read, more>>

\* The second sample; the time since the first is measured at its end.  That
\* the page cap cut a sample short is logged and its flag discarded.
GetSample2(expired, now, page, next) ==
  /\ phase = "sample2"
  /\ read' = read \o page /\ pages' = pages + 1 /\ clock' = now
  /\ LoggedIn(expired)
  /\ pc' = IF Continues(next) THEN "get" ELSE "build"
  /\ UNCHANGED <<phase, sample, start, more>>

-----------------------------------------------------------------------------
(* Publishing. *)

Build ==
  /\ pc = "build"
  /\ queue' = Datums(Name)
  /\ owed' = [owed EXCEPT ![Name] = Cardinality(queue')]
  /\ pc' = "put"
  /\ UNCHANGED <<setup, account, cached, at, reading, cloud, outcome, event,
                 faults>>

\* A batch is full, or it is the last one.
Batches ==
  {batch \in SUBSET queue : Cardinality(batch) = Min({PutBatch, Cardinality(queue)})}

\* Mutant: the next batch starts one datum too late.
AfterBatchAndOne(batch) ==
  IF queue = batch THEN {} ELSE (queue \ batch) \ {CHOOSE d \in queue \ batch : TRUE}

AfterBatch(batch) == queue \ batch

Accept(batch) == owed' = [owed EXCEPT ![Name] = @ - Cardinality(batch)]

Put(batch) ==
  /\ pc = "put" /\ queue # {}
  /\ Accept(batch)
  /\ cloud' = cloud \cup batch
  /\ queue' = AfterBatch(batch)
  /\ UNCHANGED <<setup, account, cached, pc, at, reading, outcome, event, faults>>

\* A PutMetricData call that raises: the batch, or only its answer, is lost.
PutFails(batch) ==
  /\ pc = "put" /\ queue # {} /\ faults < MaxFaults
  /\ Accept(batch) \/ UNCHANGED owed
  /\ faults' = faults + 1
  /\ CollectorFails("failed")
  /\ UNCHANGED <<cached, rejected, unanswered>>

CollectorDone ==
  /\ pc = "put" /\ queue = {} /\ entry = "handler"
  /\ results' = [results EXCEPT ![Name] = "ok"]
  /\ pc' = "collect" /\ at' = at + 1
  /\ DropLocals
  /\ UNCHANGED <<setup, account, cached, owed, beats, event, faults>>

\* A template's run ends with its only collector, and without a heartbeat.
TemplateDone ==
  /\ pc = "put" /\ queue = {} /\ entry = "template"
  /\ results' = [results EXCEPT ![Name] = "ok"]
  /\ pc' = "idle"
  /\ DropLocals
  /\ UNCHANGED <<setup, account, cached, at, owed, beats, event, faults>>

\* After the last collector the heartbeats are published, in the same order.
StartHeartbeats ==
  /\ pc = "collect" /\ at > Len(collectors)
  /\ pc' = "beat" /\ at' = 1
  /\ UNCHANGED <<setup, account, cached, reading, putting, outcome, event, faults>>

Heartbeat ==
  /\ pc = "beat" /\ at <= Len(collectors)
  /\ beats' = [beats EXCEPT ![Name] = IF results[Name] = "ok" THEN 1 ELSE 0]
  /\ at' = at + 1
  /\ UNCHANGED <<setup, account, cached, pc, reading, putting, results, event,
                 faults>>

\* A heartbeat that cannot be published fails the invocation.
HeartbeatFails ==
  /\ pc = "beat" /\ at <= Len(collectors) /\ faults < MaxFaults
  /\ pc' = "raised"
  /\ lost' = lost + 1 /\ faults' = faults + 1
  /\ UNCHANGED <<setup, account, cached, at, reading, putting, outcome, attempt,
                 rejected, unanswered>>

Finish ==
  /\ pc = "beat" /\ at > Len(collectors)
  /\ pc' = "idle" /\ at' = 1
  /\ UNCHANGED <<setup, account, cached, reading, putting, outcome, event, faults>>

\* The function reaches its timeout, perhaps while ONTAP rejects its login; its
\* container goes with it.
InFlight == pc = "get" /\ \E expired \in BOOLEAN : Credentials(expired) # password

Killed ==
  /\ pc \in {"collect", "get", "build", "put", "beat"} /\ faults < MaxFaults
  /\ pc' = "raised" /\ cached' = None
  /\ lost' = lost + 1 /\ faults' = faults + 1
  /\ rejected' \in {rejected} \cup {n \in {rejected + 1} : InFlight}
  /\ DropLocals
  /\ UNCHANGED <<setup, account, at, owed, outcome, attempt, unanswered>>

\* The operator changes the password in ONTAP and in the secret, in any order.
RotatePassword ==
  /\ password <= secret /\ password < MaxRotations
  /\ password' = password + 1
  /\ UNCHANGED <<setup, secret, cached, pc, at, reading, putting, outcome, event,
                 faults>>

RotateSecret ==
  /\ secret <= password /\ secret < MaxRotations
  /\ secret' = secret + 1
  /\ UNCHANGED <<setup, password, cached, pc, at, reading, putting, outcome,
                 event, faults>>

-----------------------------------------------------------------------------
Get ==
  \/ \E expired \in BOOLEAN :
       \/ GetRejected(expired) \/ GetForbidden(expired)
       \/ GetFails(expired) \/ AnswerLost(expired)
       \/ GetSchemas(expired)
       \/ \E next \in BOOLEAN : GetWorkloads(expired, next)
  \/ \E now \in Moments : \E page \in Pages(now), expired, next \in BOOLEAN :
       \/ GetQuotas(expired, page, next)
       \/ GetRelationships(expired, page, next)
       \/ GetSample1(expired, now, page, next)
       \/ GetSample2(expired, now, page, next)

Invocation ==
  \/ \E cold \in BOOLEAN : Invoke(cold)
  \/ Repeat \/ GiveUp
  \/ StartCollector \/ SkipCollector \/ Get
  \/ Build
  \/ \E batch \in Batches : Put(batch) \/ PutFails(batch)
  \/ CollectorDone \/ TemplateDone
  \/ StartHeartbeats \/ Heartbeat \/ HeartbeatFails \/ Finish
  \/ Killed

Operator == RotatePassword \/ RotateSecret

Next == Invocation \/ Operator

Spec == Init /\ [][Next]_vars

\* The schedule keeps firing and an invocation goes on; what the operator does,
\* and when the cached credentials expire, is left open.
FairSpec == Spec /\ WF_vars(Invocation)
-----------------------------------------------------------------------------
(* Properties. *)

Pcs == {"idle", "collect", "get", "build", "put", "beat", "raised"}
MetricNames ==
  {"QuotaUsedPercent", "QuotaUsedPercentMax", "QuotaReportTruncated",
   "RelationshipHealthy", "LagSeconds", "LagSecondsMax", "UnhealthyCount",
   "RelationshipsTruncated", "QosOps", "QosLatency", "QosPolicyGroupsTruncated"}
Phases == {"none", "quotas", "relationships", "schemas", "workloads", "sample1",
           "sample2"}

\* The kinds of what is read and published, and of what the loop keeps.
TypeOK ==
  /\ entry \in Entries /\ collectors \in Seq(Collectors)
  /\ {password, secret} \subseteq 0..MaxRotations
  /\ cached \in 0..MaxRotations \cup {None}
  /\ pc \in Pcs /\ at \in 1..(Len(collectors) + 1)
  /\ phase \in Phases /\ more \in BOOLEAN /\ pages \in 0..MaxPages
  /\ read \in Seq(Quota \cup Relationship \cup Row)
  /\ resending \in BOOLEAN /\ sample \in Seq(Row) /\ {clock, start} \subseteq Nat
  /\ queue \cup cloud \subseteq [metric : MetricNames, of : Nat, value : Int]
  /\ owed \in [Collectors -> Nat]
  /\ results \in [Collectors -> {"none", "ok", "failed", "rejected", "skipped"}]
  /\ beats \in [Collectors -> {None, 0, 1}]
  /\ attempt \in 0..MaxRetries /\ {rejected, unanswered, lost} \subseteq Nat
  /\ faults \in 0..MaxFaults

\* A heartbeat of 1 is a promise about the run's metrics: every datum that
\* the collector built has been accepted, over however many PutMetricData
\* calls, with another collector failing and with answers lost.
SuccessMeansPublished ==
  \A c \in Collectors : (beats[c] = 1 \/ results[c] = "ok") => owed[c] = 0

Published(metric) == {d.value : d \in {x \in cloud : x.metric = metric}}

\* When a run's alarm series say that nothing is wrong and that nothing was
\* left out, then the whole collection was read, every relationship in it is
\* healthy and has a series saying so, and no quota with a name and a limit is
\* used up: neither a cap, nor a page limit, nor a relationship without a path
\* hides a bad one. A quota without a name may: it is passed over, and no mark
\* says so.
QuietAlarmsMeanHealthy ==
  /\ pc = "put" /\ queue = {} /\ 0 \in Published("RelationshipsTruncated")
       /\ Published("UnhealthyCount") = {0}
     => /\ ~more
        /\ \A i \in DOMAIN read :
             read[i].healthy /\ Datum("RelationshipHealthy", i, 1) \in cloud
  /\ pc = "put" /\ queue = {} /\ 0 \in Published("QuotaReportTruncated")
       /\ (\A p \in Published("QuotaUsedPercentMax") : p < 100)
     => /\ ~more
        /\ \A q \in Range(read) : Usable(q) => q.used < q.limit

RowsOf(workload) == {r \in Range(read) : r.workload = workload}

Done(workload) ==
  IF RowsOf(workload) = {} THEN 0 ELSE (CHOOSE r \in RowsOf(workload) : TRUE).did

\* A published rate is never negative, and never more than what the workload
\* really did between the two readings of its row over the time that was
\* measured; for a row of the first sample's last page it is not above the
\* workload's real rate between those readings. Nor is a published latency
\* averaged over more operations than the workload did. So it is for every row
\* with an id, also when rows come back in another order, a counter is reset in
\* between (seen or unseen), a workload is created anew under the same name, or
\* no time has passed.
RatesAreNotOverstated ==
  \A d \in {x \in cloud : x.metric \in {"QosOps", "QosLatency"}} :
    LET row == sample[d.of]
        done == Done(row.workload)
    IN /\ elapsed > 0 /\ 0 <= d.value
       /\ row.workload \in Identified =>
            IF d.metric = "QosLatency" THEN d.value <= done
            ELSE /\ d.value * elapsed <= 1000 * done
                 /\ row.when = start =>
                      \A r \in RowsOf(row.workload) :
                        d.value * (r.when - row.when) <= 1000 * done

\* ONTAP rejects at most one login of the handler per event. One more needs an
\* invocation lost to a heartbeat that could not be published or to the timeout,
\* which Lambda repeats, or a rejection whose answer was lost: neither the
\* request's retries nor the collectors that follow know of it.
OneRejectedLogin == entry = "handler" => rejected <= 1 + lost + unanswered

AllReported == pc = "idle" /\ \A c \in Range(collectors) : beats[c] = 1

\* A change of the password is followed by the handler without a restart and
\* without waiting for the cached credentials to expire: once the secret and
\* ONTAP agree for good, runs in which every collector succeeds keep coming.
RotationIsFollowed ==
  entry = "handler" => (<>[](password # secret) \/ []<>AllReported)
=============================================================================
