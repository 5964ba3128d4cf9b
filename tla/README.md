# FSx for ONTAP observability integrations: TLA+ models and proofs

This directory holds TLA+ models of the stateful parts of the repository, the
TLC runs that check them and the TLAPS proofs about them. Paths below are
relative to `src/`, the repository's root in this layout, unless they name a
`.tla` or `.cfg` file.

1. Inventory of the system
2. Modules
3. SSD auto-increase
4. The Datadog poller
5. The audit-log handlers of all integrations
6. The path of a file event
7. The object ledger
8. Restore verification
9. Deny rules
10. Containment
11. The ONTAP metrics poller
12. Runs and bounds
13. Fairness
14. Proofs
15. Where the code and its documents differ
16. Not modelled

## 1. Inventory of the system

The repository ships logs, events and metrics of FSx for ONTAP file systems to
observability vendors, and automates a few operations on the file system. Most of
its Python parses, formats and sends. What can go wrong in a way that a unit test
hardly reaches is in the parts that keep state between two calls to a service.

| Component | State | Operations | Interacts through | Hard behaviour |
|---|---|---|---|---|
| SSD auto-increase (`shared/lambda/ssd_auto_increase/`) | one DynamoDB lock item, an S3 Object Lock archive | evaluate, call `UpdateFileSystem`, follow, reconcile, latch, operator disposition | conditional writes, `If-None-Match`, SNS, FSx API | crash between two calls, lost answers, delayed visibility, take-over of a lease |
| Audit-log pollers (`integrations/{datadog,crowdstrike,grafana,amplify-portal}/lambda/handler.py`) | SSM watermark | list, filter, ship, advance | S3, the vendor's intake, SSM | partial failure, overlapping runs, rotation of the log |
| S3-event shippers (ten `integrations/*/lambda/handler.py`) | none; Lambda retries | read, batch, send, report | S3, the intake | lost answers, failed batches, redelivery |
| FPolicy server (`shared/fpolicy-server/`) | a context per connection | handshake, notification, delay, send | ONTAP, SQS | threads of several SVMs, connections and processes that end |
| FPolicy, EMS and backup handlers (27 files) | none; a queue, a bus | parse, send, return ids or a status | SQS, EventBridge, API Gateway | partial batches, dead letters, foreign messages |
| Vendor shipper (`shared/python/vendor_shipper.py`) | a secret cache | retry, batch by size | HTTP | answers that are lost |
| Object ledger (`shared/python/object_ledger.py`) | DynamoDB row per object | claim, mark, promote | conditional put, plain updates, TTL | crash while `processing`, late marks |
| Restore verification (`shared/python/restore_verification.py`) | FlexClone, access point | clone, attach, scan, clean up | ONTAP, FSx, S3 | any step failing, names that collide |
| Network ACL block (`shared/python/network_block.py`) | ACL entries | block, unblock | EC2 | number found, then used |
| Automated ONTAP response (`shared/python/ontap_response.py`) | export rules, name mappings, sessions, snapshots | block, unblock, disconnect, contain | ONTAP | positions read earlier, several steps, cooldown |
| ONTAP metrics pollers (`shared/lambda/ontap_metrics/`) | cached credentials, two samples | collect, publish, heartbeat | ONTAP, Secrets Manager, CloudWatch | rotated password, caps, counters that are reset |
| Parsers, observability helpers, configuration, SQS helper | none that acts | | | |
| Terraform, CloudFormation, documents, scripts, benchmarks | | | | |

What makes each of them correct:

- SSD auto-increase: one owner at a time; no second request while one may be in
  flight; every request on record before it is made and closed on record before
  the next; nothing waits for ever except for a person.
- Pollers: no watermark passes a record that was not accepted, and every record
  is delivered in the end.
- Shippers and event handlers: an answer that says all is well means it; nothing
  is sent again without a reason; no event disappears without a trace.
- FPolicy server: an event carries the name of the SVM it comes from, if anybody named it.
- Object ledger: one version of an object goes to one worker; a poison pill stays; the
  latest version is attempted.
- Restore verification: what was created is removed, or said to be left; a verdict
  is about the snapshot asked for.
- Blocks: a subject stays blocked until an unblock that matches it, and an unblock
  that succeeds is complete, both as far as no call changes the rules an unblock is
  deleting.
- Containment: the status claims no more than was done; snapshots stay few.
- Metrics: quiet alarms hide no unhealthy relationship and no used-up quota with a
  name; a rejected password is not sent again, but for answers and invocations lost; a
  heartbeat of success stands for all of the collector's datums.

`PROJECT.json` lists the hazards with their lines and the properties that would
catch them, and maps every definition to the lines it models.

## 2. Modules

| Module | Models | Runs | Proofs |
|---|---|---|---|
| `RequestLedger` | what SSD auto-increase promises (abstract) | `ssd_single` | `SsdAutoIncreaseProofs` |
| `SsdAutoIncrease` | SSD auto-increase | `ssd_single`, `ssd_concurrent`, `ssd_liveness` | `SsdAutoIncreaseProofs` |
| `AuditPoller` | the schedule of the Datadog integration | `poller`, `poller_rotation_gap` | `AuditPollerProofs` |
| `VendorIntake` | `post_with_retry` and the intakes' answers | with the next two | |
| `AuditShippers` | ten S3 handlers, three schedules | `shippers` | `AuditShippersProofs` |
| `EventShippers` | 27 event handlers behind a queue, a bus or a webhook | `fpolicy` | `FPolicyPathProofs` |
| `FPolicyPath` | the FPolicy server; composes it with `EventShippers` | `fpolicy` | `FPolicyPathProofs` |
| `ObjectLedger` | the ledger and workers that use it | `ledger` | `ObjectLedgerProofs` |
| `RestoreVerification` | `verify_snapshot` | `restore` | `RestoreVerificationProofs` |
| `BlockList` | what the blocks promise (abstract) | `blocks` | `ResponseProofs` |
| `DenyRules` | ACL entries, export rules, name mappings | `blocks` | `ResponseProofs` |
| `Containment` | the composite responses and their snapshots | `contain` | `ResponseProofs` |
| `OntapMetrics` | the metrics poller | `metrics` | `OntapMetricsProofs` |

`MC<Module>` gives a module its model values. `EventShippers` has no run of its
own: its actions are disjuncts of the next-state relation of `FPolicyPath`, which
is how its queue gets filled. `FPolicyPath` EXTENDS it, `AuditShippers` and
`EventShippers` EXTEND `VendorIntake`; `SsdAutoIncrease` and `DenyRules` INSTANCE
their abstract specification with a refinement mapping.

Three conventions hold throughout. An action is the code between two calls whose
order can matter; what one invocation does without such a call is one step. A
service or a person outside the repository is marked external, and behaves as the
code's comments and error handling expect it to, or worse. `faults` bounds failed
calls, crashes and refusals; a call that fails may have taken effect, unless the
service says it did not.

## 3. SSD auto-increase

A *worker* of `SsdAutoIncrease.tla` is an invocation of the function. `RequestLedger.tla`
is the abstract specification: which evaluations have an intent on record, which
requests the service saw, which it works on, which are closed on record.

### State

| Variable | In the code |
|---|---|
| `item` | the lock item: `state`, `owner`, `expires_at` (`lease`), `reconcile_until` (`window`), `sequence`, `pending_events`, `report_sent`, `config_fingerprint`, `disposition`, `release_after_flush` |
| `run[w]` | an invocation: where it is, its correlation ID, its age (time since `self.now`), the item it read or is about to write (`seen`), the follow-up it decided (`plan`), the class of the response |
| `request[id]` | the service's view of the request with that `ClientRequestToken`: seen or not, accepted or refused, phase, listed or not yet, cooldown |
| `foreign` | an update somebody else asked for |
| `archive` | object keys (`id`, sequence, event) with the outcome in their body |
| `reports` | history: which report reached SNS for which correlation ID |
| `fingerprint` | `config_fingerprint` of the deployed function |
| `nextId`, `faults` | bounds of the model |

Deadlines are distances that count down with `Tick`. An invocation's `seen`
stays relative to its start and is aged when written, because the code
computes every deadline from `self.now`. A deadline is kept only in the states
that read it (`Stored`).

### Actions

`Invoke` reads the item and chooses among a fresh evaluation, the flush of
pending events and the handler of the state (`run`, `_handle_existing_state`).

- Fresh evaluation: `Acquire`, then `DecideNoCall` (alarm, guards, ceiling, the
  `notify_only` and `approve` modes: all archive, report, release), `Refuse` and
  `Latch` (`_latch_blocked`), or `WriteIntent`, `Recheck`, `Announce`,
  `ToCalling` (`_auto`).
- The request: `Call`, `PostCall` (`_write_post_call`), then one of the
  `Settle...` and `Report...` actions per class of the response.
- Pending events: `FlushArchive`, `FlushReport`, `KeepPending`, `FlushWrite`,
  `AfterFlush`, `ClearRejected`.
- Existing states: `Handle` decides a `FollowUp` (event to archive, report,
  last write) from the item it read and the listed actions, with one operator
  per handler (`OnBlocked`, `OnSubmitted`, `OnIndeterminate`,
  `OnManualDisposition`, `OnCalling`); `ArchiveFollowUp`, `Pend`, `Report` and
  `Write` carry it out.
- Environment: `Crash` ends an invocation anywhere, which also stands for a
  DynamoDB write that fails, an SNS publish that raises, and the function
  timeout; `ActionListed` (delayed visibility), `ActionProgress`,
  `ForeignStart`, `ForeignEnd`, `Dispose` (operator), `Redeploy`, `Tick`.

A failed archive write may have landed (the response was lost); a failed
retention proof counts as a failed intent and as a written follow-up, as in the
code.

### Abstractions

- Amounts, IOPS, alarm states and message texts are left out; which branch they
  select is nondeterministic. `_match_action` finds the owner's own request once
  the service lists it; an update of somebody else with the same target after
  the same time is not modelled.
- The guards compare the cooldown at the snapshot, not at `self.now`.
- `reconcile_until` of `_handle_ambiguous` runs from `self.now`, that of
  `_on_calling` from `request_time`, which is the `self.now` of the call: one
  window here.
- `pending_events` is a set. It never holds two entries when invocations do not
  overlap (`AtMostOnePending`, checked and proved), so their order plays no part;
  when they do, `FlushArchive` takes any of them.
- The operator of `Dispose` knows whether a request was accepted, unless
  `OperatorErrs` is set; every run leaves it off. With it on, a request that was
  accepted and is not yet listed can be closed on record, which the design
  accepts and asks the operator to exclude.
- Fresh correlation IDs and failures are bounded (`MaxEvaluations`,
  `MaxFaults`). With `nextId` used up, `Acquire` behaves as a lost race.
- `WatchedReports` names the reports the history keeps, `Disturbances` which of
  the environment's steps are on; each run says which it uses.

## 4. The Datadog poller

`AuditPoller.tla` models the scheduled mode of
`integrations/datadog/lambda/handler.py`; its S3-event mode is one of the handlers
of section 5. The schedule has a module of its own because it treats the key of the
file being written apart from the rotated ones, and because its guarantee is proved.

| Variable | In the code |
|---|---|
| `checkpoint` | the SSM parameter, an audit-record timestamp; 0 is `__INIT__` |
| `run[i]` | an invocation of `_handle_scheduler_event`: `watermark_ns`, `highest_ns`, what is left of `candidate_keys` (rotated files by number in `keys`, the active key as `live`) |
| `log`, `active` | ONTAP, external: the records with their files, and the active file's number |
| `delivered` | history: records Datadog accepted |
| `faults` | bound of the model |

`ReadCheckpoint`, `List` (with `Candidate` and `OldestKeys`), `ShipFile` or
`ShipFails` per key, `StopEarly` and `Save` are the steps of a run; `Lose` ends an
invocation anywhere; `Write` and `Rotate` are ONTAP.

Reading a file and shipping it are one step: what is shipped is the content
read, and nothing reads `delivered`.

Assumed of what is outside:

- One active file per prefix, with a key that stays and sorts last
  (`handler.py:52-56`); a rotation gives its content a new key, and key order
  agrees with the order of rotation.
- Timestamps grow in the order of writing and differ. With ties, or two audit
  streams under one prefix, a record can be as old as the watermark when it is
  first listed, and the filter drops it; the code cannot tell.
- `LastModified` misses writes for at most `ModifiedLag`, and is never older than
  the file's creation. `ModifiedLag <= GraceSeconds` is the purpose the comment
  on `GRACE_SECONDS` states.
- No rotation falls between a listing and the read of the active key, unless
  `RotatesAnytime` is set.


## 5. The audit-log handlers of all integrations

`VendorIntake.tla` is `post_with_retry` and its copies in the handlers: three
attempts, the next one after 429, 5xx or an `HTTPError`, and what the intake may
have kept of a payload whose answer was lost. `AuditShippers.tla` is the loop ten S3
handlers and three schedules share. A record per integration holds what differs:
whether a missing credential ends the invocation, what a failed batch does to the
result, the answers taken for an acceptance, how batches are cut, which answers
raise; for a schedule, what an unreadable checkpoint means, whether undated records
are sent, and whether the loop stops early. The run chooses the integration in
`Init`, so every property is about all of them.

| Variable | In the code |
|---|---|
| `vendor`, `mode` | the handler that is deployed, and the branch of its `lambda_handler` |
| `run[i]` | an invocation: keys still to do, records in no batch yet, the batch being sent and its attempt, `file_max_ns`, `total_logs`, `total_shipped`, `errors`, the status |
| `checkpoint` | the SSM parameter |
| `log`, `active`, `notified` | external: ONTAP's files, and the ones an S3 event was sent for |
| `accepted`, `rejected`, `passedOver`, `repeats` | history |

`Notify`, `Redeliver` and `Drop` are S3 and Lambda; `ReadCheckpoint`, `List`,
`ReadFile`, `ReadFails`, `PassOver`, `StopEarly`, `TakeBatch`, `Post`, `PostRaises`,
`EndFile`, `Report` or `Save` the loop; `Crash` the timeout. For a schedule the model
keeps whether a record was accepted and not how often, and the three attempts fail
together once the first did.

Parsing is abstracted to which records of a file are readable. The records of the
Amplify correlator are those it can join; it emits them as log lines.

## 6. The path of a file event

`FPolicyPath.tla` is the server: `Notify` puts a notification into the inbox of a
connection (with the handshake, when the connection is new), `Handshake` and `Read`
are `_handle_nego_req` and `handle_noti_req`, `holding` is the notification during
`WRITE_COMPLETE_DELAY_SEC`, `SendEvent` and `WriteToLog` the two modes, `Close`,
`TimeOut` and `Exit` the ways a connection or the process ends. `conn_ctx` is the
per-connection context of the handshake. It EXTENDS `EventShippers.tla`, which takes
over with the message in the queue: `Receive` and the event source mapping,
`PutEvents` of the bridge (the function inlined in
`shared/templates/fpolicy-apigw.yaml`), `Invoke` from the bus, `Webhook` for EMS,
`Send` with the three attempts, and the ends of an invocation: `ReturnFailures`
(`batchItemFailures`), `ReturnStatus`, `Raise`. A record per handler holds the
differences, as in section 5.

The name of an event's SVM comes from the notification, else from the connection's
handshake, else from the server's environment (`SvmName`). `DefaultSvmName` stands for
the last: `SVM_NAME` may be the name of any SVM, and the run gives it one's.
`introduced` and `anonymous` are history, written when ONTAP sends and not when the
server reads: which handshakes had a name, and which notifications nobody named.
`EventsCarryTheirSvm` relates them to the name the event got.

`place` says where an event's message is; `InHand` and `Ended` together are every
place where an event may be. `NothingVanishes` says there is no other one.

Left out: the protobuf path (the repository does not hold the module it imports),
metrics, messages that change no state (`KEEP_ALIVE`, `ALERT_MSG`, `STATUS_REQ`), and
a connection that times out after the last notification, which changes nothing that
is counted.

## 7. The object ledger

`row[k]` is the DynamoDB item, `version[k]` stands for the ETag of an object that is
written again and again. Workers follow the usage in the module's docstring: `List`,
`Claim` or `Skip` (`should_process`, a conditional put), then `MarkSuccess`, or
`ProcessingFails` and `MarkFailure`, and `MarkPoisonPill` (`mark_success`,
`mark_failure`, `_mark_poison_pill`; updates without a condition). `ClaimLost` is a put
that is applied and whose answer is lost, or is turned into "condition failed" by the
SDK's own retry: the row says `processing` and nobody has the object (`orphaned` keeps
the version). `MarkSuccessRaises` is a mark that fails inside the same `try` and leads
to `mark_failure`, whose count a retry of the SDK may raise by two; `MarkFailureLost`
and `Crash` end an invocation. `Write` is every write of a row, and notes in the
history `replaced` the ETag it covers. `Expire` is DynamoDB's TTL.

`AtMostOnce` has to allow what the unconditional marks allow: a late mark of an older
version puts that version's ETag into the row, and the version that was being worked
on can be claimed again. `PillsStay` says what protects a pill, and that a late mark is
the exception. `get_status` and
`get_poison_pills` only read and are left out.

## 8. Restore verification

`call[v]` is a call of `verify_snapshot`: where it is, whether `clone_info` and
`ap_info` are filled in, the verdict, `cleaned_up`. `clone[v]` and `ap[v]` are what
ONTAP and FSx made of its requests. One action per call: `CheckAd`, `PostClone`,
`WaitForJob`, `LookUpClone`, `ResolveVolume`, `CreateAp`, `WaitForAp`, `Scan`,
`Detach`, `Delete`. A failure is a `RestoreVerificationError` (`Fails`: a verdict
"error", then the clean-up) or another exception (`Raises`: the clean-up, no
verdict). Whether `strict_ad_check` is on, whether the names of two access points
collide and which clones get a UUID with "404" in it are chosen in `Init`; the domain
may look different whenever it is asked.

Three things are left behind by the code and are history here, so that the properties
can say what holds besides them. `lost`: a wait that ended while the clone or the
access point was still being made, an answer to a creation that was lost, a look-up that
failed. `kept`: a deletion that ONTAP accepted and did not carry out, or refused with an
error `delete_flexclone` takes for "already deleted". `Killed`: the process ends in the
middle. Names of clones carry a time and are taken to differ; those of access points are
cut to 50 characters and may not.

## 9. Deny rules

`DenyRules.tla` is one list of rules, in one of three `layer`s chosen in `Init`: ACL
entries (`network_block.py`), export rules and name mappings (`ontap_response.py`).
`FindNumber` and `Create` are the two halves of `block_ip`; `PostRule` enters a rule
at index 1 and moves the others up; `ReadRules` and `DeleteRule` are the two halves
of the unblocks, which delete by the numbers of one reading. `BlockList.tla` is the
promise: a subject that was blocked stays so until somebody lifts a block that
matches it. `ActiveBlocks` (`list_active_blocks`) and `Lifting` map the one to the
other.

Nothing makes calls wait for each other: the functions are triggered by SNS and reserve
no concurrency. In the model they overlap in any way, so that an unblock may delete by
numbers that another call has moved. The history `overtaken` marks an unblock that this
can befall: while it deletes, another call deletes one of its numbers or, in ONTAP, a
POST moves all of them. In `BlockList` such a lift may go astray; all others keep the
promise. Section 15 says what an unblock that was overtaken does.

`SiteRuleStays` holds for unblocks that were overtaken too: numbers only grow, and the
site's own entry is behind all others. It excepts the site's mapping of a user who is
unblocked: `unblock_smb_user` deletes every mapping of the user and looks for no marker.

The client makes ingress entries only; the ports and the protocol of an entry are
left out. A DELETE is taken to leave the numbers of the other rules alone.

## 10. Containment

`Containment.tla` has the user who opens sessions, ONTAP's removal of name mappings
to a space on an AD-joined SVM, and the composite responses: `plan` is what is left
of `contain_smb_threat`, `contain_nfs_threat`, `contain_multiprotocol_threat`, or of
the snapshot step of the Datadog workflow (`snapshot_remediation.py`), `outcomes` is
`results["steps"]`. An `OntapResponseError` is recorded and the next step runs, a
transport error leaves the whole sequence. `snapshots` counts those younger than the
cooldown per prefix of their names.

A mapping denies the user a session or it does not: that depends on security styles and
permissions of the volumes, which the code never checks. `denying` is any set of
replacements, chosen in `Init`. Where the response's replacement is not among them,
`ContainedUserIsOut` excepts the sessions opened after the list (`since`), as the status
"pending denial verification" does. A session listed without `identifier` or
`connection_id` is skipped without a failure, one whose DELETE fails is passed over; both
are in `missed`.

`Timed` says that the list shows when each snapshot was made. Without it
`_check_snapshot_cooldown` lets every response take one, with no failure, and
`NoSnapshotStorm` claims nothing.

## 11. The ONTAP metrics poller

`OntapMetrics.tla` has both entry points: the handler, which runs every enabled
collector and publishes heartbeats, and the entry points of the qtree and QoS files,
deployed by their own templates. `Get...` are the REST requests, page by page, each
with the credentials `_get_credentials` returns at that time; `Build` computes the
datums, `Put` sends them in batches of `PutBatch`, `Heartbeat` and `Finish` end the
run. `Repeat` and `GiveUp` are Lambda's retries, `RotatePassword` and `RotateSecret`
the operator.

What a page holds is chosen when it is read, so that a quota, a relationship or a
counter may be anything between two requests: a workload that is deleted and created
again under the same name, a counter that is reset, seen or unseen. A page holds at
most one record. A datum is its metric, the record it belongs to (or the file system)
and its value: dimensions, units and the parsing of durations are left out. The datums
of a run are a set, and a batch is any full part of those not sent yet, which leaves
their order open. `did` is history: what a workload really did between the samples.

Time passes between the requests of the two QoS samples, in seconds on `clock`; `start`
is where `sample_counter_rows_twice` begins to measure, after the last page of the
first sample, and `when` (history) says when a row was read. `RateDatums` divides by the
measured time. `Identified` is the set of workloads whose rows have an id; the others are
matched by their policy group, which several of them share (`_row_identity`), and of
several such rows the index keeps the last.

`AnswerLost` is a request that reached ONTAP, with a password that may be rejected, and
whose answer did not come back: urllib3 sends it again with the same header
(`build_retry`), or the collector fails with an exception that is no rejection, and the
next one runs. `GetForbidden` is a 403 with the right password, which the code treats
like a 401.

## 12. Runs and bounds

| Run | Instance | Checks |
|---|---|---|
| `ssd_single` | 1 worker, 2 evaluations, 2 failures, foreign updates, redeployment | `TypeOK`, `RequestOnRecord`, `SentMeansDelivered`, `AtMostOnePending`, `FollowsDiagram`, `NeverStrandsPending`, `ImplementsLedger` |
| `ssd_concurrent` | 2 symmetric workers, 2 evaluations, 1 failure | `SingleFlight`, `CallOnlyWhenSettled` |
| `ssd_liveness` | 1 worker, 1 evaluation, 2 failures, a window of 3 ticks, foreign updates, redeployment | `Settles`, `AcceptedIsFollowed`, `LatchIsReported` |
| `poller` | 2 overlapping runs, 4 records, 4 files, lists of 3, grace and lag 1, 1 failure | `TypeOK`, `NoSilentGap`, `EveryRecordDelivered` |
| `poller_rotation_gap` | 1 run, rotation at any time, no failure | expects `NoSilentGap` violated |
| `shippers` | 13 integrations and modes, 2 symmetric invocations, 3 records (1 undated), 3 files, batches and lists of 2, 1 failure | `TypeOK`, `NoFalseAllClear`, `SentOnceUnlessRepeated`, `WatermarkIsCovered` |
| `fpolicy` | 27 handlers, 2 connections of 2 SVMs, 2 events, 1 foreign message, batches of 2, 2 receptions, 1 retry, 1 failure | `TypeOK`, `NothingVanishes`, `EventsCarryTheirSvm` |
| `ledger` | 1 key, 2 workers, 2 versions, poison pill after 2 failures, 3 faults | `AtMostOnce`, `PillsStay`, `LatestIsAttempted` |
| `restore` | 2 verifications, all settings, 3 failures | `CleanedUpMeansGone`, `ScansOwnClone`, `RemovesOnlyItsOwn`, `EndsCleanOrSaysSo` |
| `blocks` | 3 lists of up to 3 rules, 2 symmetric callers, 2 subjects, 2 failures | `SiteRuleStays`, `ImplementsBlockList`, `UnblockIsComplete` |
| `contain` | 2 symmetric clients, 2 symmetric sessions, AD-joined, any denying mappings, timed snapshots, 4 of a prefix, 1 failure | `ContainedUserIsOut`, `StatusIsBacked`, `NoSnapshotStorm` |
| `metrics` | 3 collectors in the handler or the qtree template, 3 workloads, 1 with a row id, 2 pages, a cap of 1 series, batches of 2, 1 rotation, 1 retry, 1 failure | `SuccessMeansPublished`, `QuietAlarmsMeanHealthy`, `RatesAreNotOverstated`, `OneRejectedLogin`, `RotationIsFollowed` |

Why the bounds let the interesting cases happen:

- `ssd_*`: `reserved_concurrent_executions = 1`
  (`terraform/fsxn-ssd-auto-increase/main.tf:279`) makes one worker the deployed
  system, and the second the assumption removed, with a stale copy of the item
  against its owner. Two evaluations are a predecessor whose request may be in
  flight and a successor that must not call. Two failures are the pairs the code is
  written for: an archive write and the crash that follows, a report and the lock
  write. `FunctionTimeout = 1`, `LeaseTerm = 2` keep the order of
  `LEASE_PADDING_SECONDS`; windows of one to three ticks end before and after the
  request is listed.
- `poller`: two runs overlap because the timeout may exceed the schedule's rate and
  nothing reserves concurrency. The list has room for `GraceSeconds + 2` files: at
  most `GraceSeconds + 1` shipped ones stay candidates, which leaves a place for a
  new one. Records are dated: files of undated records stay candidates too.
- `shippers`: three records in up to three files make two batches of one file, a
  cut list and a file that fails between two that do not. One record may be undated.
- `fpolicy`: two connections of two SVMs, so that names may be mixed up; two
  messages in one batch, one of which may be no event; two receptions, so that a
  message may come back and then go to the dead-letter queue.
- `ledger`: two versions are what a late mark needs; three faults are a lost claim, a
  failed mark and an expiry. (Three versions and two faults hold too, in 750 000 states.)
- `restore`: with three failures a step, its clean-up and the second verification's
  may all fail, or one may be killed and leave its access point to the other.
- `blocks`: the text of one subject is part of the other's; three numbers hold the
  site's entry, for either subject, and two blocks of one subject or one of each.
- `contain`: four snapshots leave room for more than `NoSnapshotStorm` allows. The
  mapping denies in half of the initial states and does not in the others.
- `metrics`: `COLLECTORS` names a collector twice; two pages cross the page cap and
  the cap on series; two datums per call split a collector's datums. Two workloads
  without an id share one identity, the third has its own. One failure is enough for a
  lost answer to a rejected login, or for a lost invocation, which the properties count
  apart. The run takes about three minutes and reaches a million states.

Deadlock is checked where the system always has a next step. `restore`, `shippers`
and `fpolicy` switch it off: their calls, files and events are finitely many, and
when all have ended nothing is left to do.

## 13. Fairness

- `ssd_liveness`: weak fairness of each worker's steps (the EventBridge schedule
  keeps invoking, a running function goes on), of `ActionListed`, `ActionProgress`
  and `ForeignEnd` (the service makes progress and lists what it accepted) and of
  `Tick`. None for the operator, redeployments, other people's updates, failures.
  `Settles` therefore ends in `manual_disposition_required` or `blocked`, where the
  design waits for a person.
- `poller`: weak fairness of each step of a run, as the schedule keeps invoking and
  an invocation goes on; none of ONTAP's steps.
- `ledger`: strong fairness of `List` (a pipeline lists the bucket again and again,
  and cannot pass over a key for ever), weak fairness of the rest of a worker's
  steps.
- `restore`: weak fairness of a call that runs and of the jobs of ONTAP and FSx,
  which end one way or the other. `Start` is not fair: nobody has to ask.
- `metrics`: weak fairness of the function's steps together; none of the operator.
- `blocks`, `contain`, `shippers`, `fpolicy`: safety only.

Failures are bounded everywhere, so liveness says what happens once they stop.

## 14. Proofs

Each theorem holds for every value of the constants that satisfies the assumption
its module names: any number of workers, keys, connections, subjects, and any number
of failures.

| Theorem | Says |
|---|---|
| `SsdAutoIncreaseProofs!TypeCorrect`, `LockIsSingleFlight`, `OwnerKeepsLock` | `TypeOK`, `SingleFlight`, and that the item of a live owner is its own |
| `SsdAutoIncreaseProofs!WhatIsSaidIsSo`, `NoCallWhileUnsettled` | what is said to be over is over, `CallOnlyWhenSettled` |
| `SsdAutoIncreaseProofs!OneStory`, `RequestsAreOnRecord`, `OnePendingAtMost` | item, archive and invocations tell one story, `RequestOnRecord`, `AtMostOnePending` |
| `SsdAutoIncreaseProofs!StatesFollowDiagram`, `PendingNeverStranded` | the action properties `FollowsDiagram`, `NeverStrandsPending` |
| `SsdAutoIncreaseProofs!RecordsImplementLedger`, `LedgerIsSafe`, `LedgerKept` | the refinement `ImplementsLedger`; the abstract ledger has one request in flight at most and closes none the service works on; so does the function |
| `SsdAutoIncreaseProofs!SentIsDelivered` | `SentMeansDelivered` |
| `AuditPollerProofs!PollerTypeCorrect`, `AtLeastOnce` | `TypeOK`; without `RotatesAnytime`, `NoSilentGap` |
| `AuditShippersProofs!ShippersTypeCorrect`, `AllClearIsTrue`, `SentOnce`, `WatermarkCovers` | `TypeOK`, `NoFalseAllClear`, `SentOnceUnlessRepeated`, `WatermarkIsCovered` |
| `ObjectLedgerProofs!LedgerTypeCorrect`, `ClaimedOnce`, `PillsKept` | `TypeOK`, `AtMostOnce`, `PillsStay` |
| `RestoreVerificationProofs!VerificationTypeCorrect`, `CleanUpIsHonest`, `VerdictIsOwn`, `CleanUpIsOwn` | `TypeOK`, `CleanedUpMeansGone`, `ScansOwnClone`, `RemovesOnlyItsOwn` |
| `FPolicyPathProofs!PathTypeCorrect`, `NothingIsLost`, `SvmsKeptApart` | `TypeOK`, `NothingVanishes`, `EventsCarryTheirSvm` |
| `ResponseProofs!ContainmentTypeCorrect`, `UserIsOut`, `BlocksBackStatus`, `CooldownHolds` | `TypeOK`, `ContainedUserIsOut`, `StatusIsBacked`, `NoSnapshotStorm` |
| `ResponseProofs!SiteRuleKept`, `RulesImplementBlocks`, `UnblockCompletes` | `SiteRuleStays`, `ImplementsBlockList`, `UnblockIsComplete` |
| `OntapMetricsProofs!MetricsHold`, `MetricsTypeCorrect`, `HeartbeatIsHonest` | the inductive invariant; `TypeOK`, `SuccessMeansPublished` |
| `OntapMetricsProofs!LoginSentOnce`, `RatesAreTrue`, `QuietIsHealthy` | `OneRejectedLogin`, `RatesAreNotOverstated`, `QuietAlarmsMeanHealthy` |

**SSD auto-increase.** `SingleFlight` is not inductive: nothing in it keeps a second
worker from acquiring. `IInv` adds `Bounded` (IDs in use are below `nextId`, no
invocation is older than the function timeout), `LeaseHeld` (while a worker is in
the owner's part, the item has its ID, the state that part implies, and lease left
for the rest of the invocation: at least `LeaseTerm - age`, and `age <=
FunctionTimeout < LeaseTerm`, so `Acquire`'s condition on an expired lease fails for
all others), and `LeavesOwnersAlone` (a follower's copy names a live owner only at
`handle`, where a valid lease makes `OnCalling` decide nothing). The assumption that
carries it is `FunctionTimeout < LeaseTerm`: the comment at
`ssd_auto_increase_handler.py:78-87` bounds a mismatch by the reserved concurrency
and the conditional writes; with the padding the conditional writes alone suffice.

What becomes of a request is proved in three more invariants, each on top of the one
before.

- `SettledInv`: whatever says that a request is over is right. A request that may
  still be at work is the item's (`OpenIsTracked`), and each place that calls one
  closed, rejected or completed (the item's state, its pending events, the copy an
  invocation holds of either, its plan) does so of a request the service refused or
  finished. The copies matter because a follower acts on what it read before: the
  verdict it carries must still be right when it is written, which holds because the
  sets of refused and finished requests only grow. It holds for any number of
  overlapping invocations, and gives `CallOnlyWhenSettled`.
- `RecordInv`: the archive holds the intent of every request the service saw and
  the event that closed it, and item, pending event and each invocation's copy name
  an event that fits what the archive has (`ItemStory`, `StoryFits`). It gives
  `RequestOnRecord`, `AtMostOnePending`, both action properties and the refinement.
- `DeliveredInv`: an item with `report_sent`, or a copy that is about to write it, is
  preceded by the report its state stands for.

Two assumptions on constants carry them. `~OperatorErrs`: the operator who disposes of
a request calls refused only what was refused, as the design asks; with an operator
who errs, a request the service accepted is closed on record. `OneAtATime`, for
`RecordInv` and `DeliveredInv`: the function's reserved concurrency
(`terraform/fsxn-ssd-auto-increase/main.tf:279`). It cannot be dropped. With two
invocations that overlap, TLC finds counterexamples to `AtMostOnePending`,
`NeverStrandsPending` and `RequestOnRecord`, and so to `ImplementsLedger`: a follower
whose copy is old erases a pending event with its full put, or releases the item
under it. `FollowsDiagram` fails too, with three invocations and two failed archive
writes, or two and four: two are past the flush of an event without a directive when a
third stores `reconciled` with the directive to go to `submitted`; the first reads the
item anew and moves it to `submitted` itself, the second to `optimizing`, each with the
entry still in it, and the next flush applies the directive to `optimizing`. One failed
write, the bound of `ssd_concurrent`, does not show it. Only `SingleFlight` and
`CallOnlyWhenSettled` do without the assumption, and they are what that run checks.
`SentIsDelivered` also assumes that the history keeps the three reports that are marked
(`Marking \subseteq WatchedReports`), which says what the model watches and nothing of
the code.

**Poller.** `NoSilentGap` speaks of the saved watermark only. `IInv` adds for each
run (`RunCovers`) that what its `highest` covers was delivered, and that its list is
whole: a record in an earlier file than a listed one was delivered, or its file is
on the list too. `FilesGrow` says that records go to files in order. A listing
establishes the second part: a record newer than the watermark makes its file a
candidate (`NewerIsCandidate`, where the lag and the grace period meet), and the cut
keeps every file before one it keeps (`OldestFirst`). The unconditional overwrite of
the parameter needs no order of the runs: every watermark any of them writes is
covered.

**Log shippers.** `Shape` says how an invocation's variables fit: what it holds is of
one file, what it counted as sent and still holds is at most what it read, the keys of
an event name complete files. On it stand three invariants.

- `Caught`, for a schedule: what an invocation's watermarks cover was accepted or left
  out as declared (`Covered`); every record in a file before a key still to do is so
  too, or its file is among the keys, or it is being sent; and while no batch of the
  file failed, so is everything up to `file_max_ns`. The last part is why a partly
  read file may move the watermark: only the active file is read in part, the part is
  a prefix, and nothing before its last record is in a later file. A failed batch ends
  the loop before the next key, without which the second part breaks.
- `Clear`, for an event: a record of its files that is neither to come nor accepted
  shows in the result (`Excused`): in `errors`, or in `total_shipped`, which is then
  below what was read for good.
- `OnceInv`: a record that an invocation may still send (`Open`) was accepted at most
  once per repetition, and any other once more. Two invocations have no key in common,
  because S3 names a file once and a redelivery names those of its own event.

The tables of integrations enter at one place each: what a schedule takes for an
acceptance is one (`ScheduledKeep`), no schedule's send raises, and the batches are cut
in one of three ways (`TablesFit`).

**Ledger.** What prevents a second claim of a version is the row, as long as it has that
version's ETag. `PaidFor` is the inductive form of `AtMostOnce`: the claims of a version
are at most its row's expiries and replacements, plus one while the row carries it.
`HoldsVersion` and `AbsentHasNone` (no worker holds ETag 0, which only an absent row
has) turn the put's condition into "the row carries another ETag". `PillsStay` follows
from `PillsNeverExpire` and that condition; what is left are the marks.

**Restore verification.** `CleanedUpMeansGone` is about the end of a call. `Tracks`
relates, for every place in the code, the clone and the access point of the call to
what `clone_info` and `ap_info` know of them, unless the call is in `lost`; a call with
a verdict never is. `OneHolder`
says that of the calls whose names collide at most one has an access point, which is
FSx's refusal of a name in use; on it rest `VerdictIsOwn` and `CleanUpIsOwn`.

**FPolicy server.** `OwnInbox`: a connection is down and holds nothing, or its handshake
is the first message unread, or the context is what the handshake told; what else it
holds are its own notifications, each anonymous only if neither it nor the handshake has
a name. `OwnName` says the same of the names the events got. That no notification is
before the handshake is what makes the context right when the first one is read.

`NothingVanishes` is about both halves of the path. `HeldInv`: a notification that came
over a connection is held there once, or has started on its way, or its fate is known;
nothing else holds it. `ShipInv`: a message taken from the queue is with exactly one
invocation that has the role for it, what counts as shipped in an invocation arrived
(an answer in `accepts` means that the intake kept it or named it as rejected), and
what left the queue is past it: at the bus, in an invocation, with an intake, or in
a dead-letter queue. The two meet in `SendEvent`, where an event leaves the first for
the second; only deployments with a queue or a bus have connections, so no step of a
handler starts an event that a connection holds.

**Containment.** What is left of a plan is the end of a plan of its kind (`Plans`). `Fits`
relates a response's record to ONTAP: `mapping_created` is there only with the
replacement mapping in the list, and the outcomes of the steps behind it are recorded,
so that a confirmed status has none that failed; from the list of sessions on, a
session that is open is one the response still has to end or passed over, or where the
mapping is no denial one that came later (`MayBeLeft`). That last part is not kept by
itself: it needs that the user opens no session once the replacement denies it, so that
the mapping precedes the listing, and that ONTAP's clean-up on an AD-joined SVM does not
take the mapping to a name away. `NoSnapshotStorm` follows, when snapshots are `Timed`,
from `StormInv`, which counts with the snapshots the responses that have looked for one and
not taken theirs: at most one per client, and one more for each failure, because an
answer that was lost may have taken it. It needs the set of invocations to be finite
(`ConstantsAssumption`), as Lambda's concurrency is.

**Deny rules.** The steps are shown to keep `RulesInv`, to be a step of `BlockList` or a
stutter under the mapping, to keep the site's entry, and to return from an unblock
that nobody overtook only when the subject's rules are gone. `RulesInv` has `Separate`
(which calls there are of each list), `Calling` (a call that runs is about one subject),
and three parts about numbers.

- `Aimed`: as long as a call is not overtaken, the numbers it still has to delete carry
  rules that match, and every rule of the subject is among them or was made since. The
  first half makes a deletion a `Lift` of a matching block, the second makes an unblock
  complete. Each step of another call that could end it marks the call as overtaken.
- `Behind` and `InFront`: the site's entry is behind all others, and no number that any
  call holds, stale or not, is behind it. A POST moves the entry away from the number, a
  deletion leaves it where it is, so that a stale number never comes to name it.

**Metrics.** `IInv` follows one invocation through its collectors.

- `NamedOnce` and `InOrder`: the enabled collectors are distinct, those still to come
  have no result, and none of them starts after a rejected login. That
  `parse_collectors` names each collector once is shown by induction over the length of
  the list it is given.
- `NoLocals` and `Reading`: what was read is of the collection of the collector whose
  turn it is and does not outlive it; a sample holds rows that ONTAP may have sent at
  that time, no two with the same name, each read no later than the clock says. A row
  with an id that still has its identity in the second sample has counters that went up
  by no more than `did`: the row matched by identity is the one of that name, and one
  that was created anew is not matched. The quotient by the measured time is then at
  most that of `did`, and the time between the two readings of a row of the last page is
  at most the measured one, which gives `RatesAreNotOverstated`.
- `Putting`: what CloudWatch has and what is still to be sent are together the datums
  the collector built, and it owes as many as are still to be sent. With an empty queue
  the datums are all there, so for `QuietAlarmsMeanHealthy` it remains to show that the
  mark of truncation speaks for `Drawn` (when nothing was left out, every record has its
  series) and the summary for each record.
- `Honest`: a heartbeat of 1 is that of a success, and a success owes nothing.
- `Logins`: the rejections are at most the invocations lost and the rejections whose
  answer was, and one more while a collector of this invocation has the result
  "rejected", after which none logs in.

Every safety property that a passing run checks is thus stated by a theorem, with the
assumptions named above. Only model-checked is liveness (`Settles`,
`AcceptedIsFollowed`, `LatchIsReported`, `EveryRecordDelivered`, `LatestIsAttempted`,
`EndsCleanOrSaysSo`, `RotationIsFollowed`), fairness and ENABLED being out of the
prover's reach. What a recursive definition or a fold computes for every input is not
proved either (but for `ParseCollectors`), so `Attempts` and the cuts into batches
enter the proofs by the facts stated of them. The type invariant of `DenyRules` (`RulesTypeOK`) is stated in its
module and no run repeats it; those of `ObjectLedger`, `RestoreVerification`,
`Containment` and `OntapMetrics` are proved.

## 15. Where the code and its documents differ

One difference is shown by a run, `poller_rotation_gap`: the list has the active key,
ONTAP rotates, and the key now names the new file. Its records move the watermark past
those of the rotated file, which was not on the list, and which the filter drops from
then on (`integrations/datadog/lambda/handler.py:190-191` promises no silent gaps).

The others were met while modelling; the models have the behaviour of the code.

SSD auto-increase
- `archive.py:141-145` calls the sequence monotonic. The outcome is archived before
  its number is stored (`ssd_auto_increase_handler.py:1816`); after a crash in between,
  `_on_calling` archives `ambiguous` under the same number.
- `terraform/fsxn-ssd-auto-increase/README.md:175` says a `cleared` disposition is
  applied on the next invocation. A follower's full put, conditional on owner and
  state only (l.1461), erases one that was written after its read.
- `ssd_auto_increase_handler.py:78-87` counts on the reserved concurrency and the
  conditional writes. For the state diagram the writes alone are not enough: a put that
  is conditional on owner and state carries the pending events of an older reading, and
  a directive among them may bring a left state back (section 14).
- The comment at l.1013-1017 says `release_after_flush` keeps a known rejection from
  being reclassified. It is read only by the invocation that flushed (l.1343): if that
  ends between the put and the delete, the rejection becomes `indeterminate`.

Pollers and shippers
- `integrations/datadog/lambda/handler.py:218-224` says a backlog drains over several
  runs. Shipped files stay candidates for the grace period; when they alone fill
  `MAX_KEYS_PER_RUN` (l.227), a run ships nothing and so does the next. Files of
  undated records, which stay candidates for good, have the same effect.
- Elastic counts a `_bulk` answer 200 with `"errors": true` as a success
  (`integrations/elastic/lambda/handler.py:213-215`): the documents in it that were
  refused are lost with a 200.
- Only Datadog, OpenTelemetry and CrowdStrike list a failed batch under `errors`; the
  others answer 200 with `total_shipped` below `total_logs`.
- Grafana and CrowdStrike overwrite a newer watermark with an older one, and take an
  unreadable one for a cold start: records are sent again, none is skipped.

Events
- EMS events that cannot be normalized are skipped, and the answer is 200 when another
  one of the call was shipped.
- Over the bus, handlers that return 207 or 502 instead of raising tell EventBridge
  that the event was handled; it is not retried.
- An event that neither its notification nor the handshake named gets `SVM_NAME` of the
  server (`shared/fpolicy-server/fpolicy_server.py:415-419`). With several SVMs behind one
  server that is the name of one of them, and the event is filed under the wrong one.
- The bridge reads `body.get("operation")` for the detail type, the server writes
  `operation_type`. A JSON message that is no object raises in the bridge and takes
  its batch to the dead-letter queue.

Object ledger
- `object_ledger.py:119-120` says an object with a new ETag is processed again; a row
  with status `success` refuses every ETag (l.141). A failed object is retried only
  with another ETag.
- A second worker may claim a row that is being processed, when the ETag differs. Marks
  carry no condition and may land on that claim, or on a poison pill, which the docstring
  (l.73-81) calls a permanent skip list: a late `mark_success` makes it a row that TTL
  deletes. Each claim sets the count of failures to zero.
- A claim that is applied and whose answer is lost leaves the row `processing`; no worker
  gets that version any more.
- The limit of `get_poison_pills` bounds the rows that are scanned, not the poison pills
  that are found.

Restore verification
- `cleanup_on_failure=False` does not skip the clean-up: the `return` leaves through
  the `finally` (l.671). An exception other than `RestoreVerificationError` gives no
  verdict. A call that lost track of its clone may say `cleaned_up` (l.689), and so may
  one whose access point was made although the answer was lost (l.487-499).
- `delete_flexclone` takes an error with "404" in its text for "already deleted"
  (l.422). The text holds the path with the clone's UUID (l.211): when that has "404" in
  it, any refused deletion counts as done, and `cleaned_up` is true with the clone there.
- A function timeout in the middle leaves the clone and the access point; nothing looks
  for them later.

Network and ONTAP responses
- An unblock that another call overtakes may delete the entry of another address that
  got a number the other unblock freed after this one read it (`network_block.py:311`),
  or, in ONTAP, the rule that a block moved to an index it read (`ontap_response.py:561`);
  it may then leave its own and report success. No caller is made to wait.
- `unblock_smb_user` (`ontap_response.py:404-424`) deletes the site's own mapping of the
  user with the response's: the mapping carries no marker.
- `unblock_nfs_ip` matches an address as text (l.557): lifting 10.0.0.1 lifts
  10.0.0.10 too. `BlockList` allows this: the subject matches.
- `block_all_ports=False` denies port 2049 only (`network_block.py:215`).
- A session without identifiers is skipped (`ontap_response.py:753`), one whose DELETE
  fails is logged (l.759), and the status is a contained one all the same;
  `ContainedUserIsOut` excepts both.
- `_check_snapshot_cooldown` reads `create_time` (l.668) and does not ask for it
  (l.656-660 names no `fields`). If ONTAP leaves it out, the cooldown never holds.
- Overlapping responses each take a snapshot (l.611): the cooldown is looked at before
  and not with the creation.

Metrics
- `qos_poller.py:48-50` says `QosPolicyGroupsTruncated` is 1 when the page cap stopped
  the read. The flag of the pages is discarded (l.756); the datum tells of the cap on
  series and of rows without a name only.
- The docstring of `_latency_datum` (l.680-682) leaves out the latency after a reset. A
  reset after which both counters pass their old values again is not seen, and the
  operations, counted from the old value, may then be few for the latency of the
  interval: the average is too high. `RatesAreNotOverstated` covers its divisor.
- A rate is what a counter went up by, divided by the time since the end of the first
  sample (`qos_poller.py:307-315`, 593). For a row of an earlier page, or one read before
  a request was repeated, the counter had longer, and the rate reads too high:
  `RatesAreNotOverstated` bounds it by the row's work over the measured time, and by its
  real rate for rows of the last page only.
- Rows without an id are matched by their policy group (l.436-442), and when several
  workloads share it, with the last of its rows in the second sample
  (`shared/lambda/ontap_metrics/tests/test_qos_collector.py:510-544` tests this with a
  group of one workload). Their rates may be those of two different counters;
  `RatesAreNotOverstated` claims nothing of them but a time and a sign.
- `qtree_quota_poller.py:203-204` passes over a quota without a qtree name, used up or
  not, and `QuotaReportTruncated` stays 0: the alarm series cannot tell.
  `QuietAlarmsMeanHealthy` speaks of quotas with a name.
- `build_retry` (`ontap_metrics_handler.py:60-62`) says a rejected login is never
  repeated. One whose answer is lost is: by the read retries (l.71), and, when these are
  used up, by the next collector, since the exception is no `OntapAuthError` (l.274).
  `OneRejectedLogin` allows one more for each.
- After a rejected login, a heartbeat that cannot be published, or the timeout, repeats
  the invocation and the login. The templates' own entry points keep stale credentials
  for the life of the container.

## 16. Not modelled

- **SSD auto-increase configuration and utilization**: read once per invocation and
  refused when out of range, or reported and guarding nothing. The branches their
  values select are nondeterministic in `SsdAutoIncrease`.
- **Parsers** (`ems_event.py`, `fpolicy_event.py`, `aws_backup_event.py`,
  `ontap_audit_parser.py`): functions over strings. That a record cannot be parsed, or
  that the parser raises, is in the models of the handlers.
- **Observability helpers, `auth_cache.py`**: their failures are swallowed, or nothing
  modelled calls them. **SQS helper** (`sqs_buffer.py`): no handler uses it.
- **The handler of `shared/templates/automated-response.yaml`** (l.330-547): it calls
  `contain_nfs_threat` and, when `FSX_SUBNET_ID` is set, `block_ip`, whose failure is
  not fatal; any exception becomes the status "error" in an answer of 200. The calls
  are modelled, their sequence is not; hence the component's status "partly".
- **Scripts, end-to-end tests, benchmarks** (`scripts/ai_style_rules.py`,
  `docs/screenshots/mask_screenshots.py`, `scripts/check_screenshot_leaks.py`,
  `shared/scripts/e2e_test_fpolicy.py` and others): tools of the authors that run once
  over files, with no state and no second actor.
- **Terraform, CloudFormation, dashboards, documents**: no program. Timeouts, reserved
  concurrency, retry and redrive settings the models assume are taken from them.
