----------------------------- MODULE AuditPoller -----------------------------
(***************************************************************************)
(* The scheduled audit-log poller (integrations/datadog/lambda/handler.py) *)
(* and its checkpoint: runs that may overlap list the audit files by       *)
(* modification time, ship the records newer than the watermark they read  *)
(* and move the watermark in SSM Parameter Store.                          *)
(*                                                                         *)
(* ONTAP is external.  It appends records to one active file with a fixed  *)
(* key, which sorts after every rotated one, and rotates that file into a  *)
(* new key.  The record at log[r] has timestamp r: timestamps differ and   *)
(* grow, and the index is also the model's time.  Files are numbered in    *)
(* the order of rotation; `active' is the number of the active one.        *)
(***************************************************************************)
EXTENDS Integers, Sequences, FiniteSets

CONSTANTS
  Runs,              \* invocations that may overlap
  GraceSeconds,      \* CHECKPOINT_GRACE_SECONDS, in record times
  ModifiedLag,       \* how long a write may be missing in LastModified
  MaxKeysPerRun,     \* MAX_KEYS_PER_RUN
  RotatesAnytime,    \* a rotation may fall between a run's listing and its
                     \* read of the active key
  MaxRecords,        \* bound: records written
  MaxUndated,        \* bound: records without a parseable timestamp
  MaxFiles,          \* bound: rotations
  MaxFaults          \* bound: failed calls, early stops and lost invocations

ASSUME ConstantsAssumption ==
  /\ {GraceSeconds, ModifiedLag, MaxRecords, MaxUndated, MaxFiles, MaxFaults}
       \subseteq Nat
  /\ ModifiedLag <= GraceSeconds
  /\ MaxKeysPerRun \in Nat \ {0}      \* MinValue of the template's parameter
  /\ RotatesAnytime \in BOOLEAN

VARIABLES
  log,         \* the records ONTAP wrote: their file and whether they are dated
  active,      \* number of the active file
  checkpoint,  \* the SSM parameter; 0 is __INIT__ or a parameter not found
  run,         \* per invocation: program counter and local variables
  delivered,   \* history: records Datadog accepted
  faults       \* failures still to come

vars == <<log, active, checkpoint, run, delivered, faults>>

Written == 1..Len(log)
Holds(f) == {r \in Written : log[r].file = f}
Pcs == {"idle", "list", "ship"}

Record == [file : Nat, dated : BOOLEAN]
\* keys: rotated files on candidate_keys still to do, by number;
\* live: the active key is on it.
Run == [pc : Pcs, watermark : Nat, highest : Nat, keys : SUBSET Nat, live : BOOLEAN]
IdleRun == [pc |-> "idle", watermark |-> 0, highest |-> 0, keys |-> {}, live |-> FALSE]

\* Everything has its type, watermarks are times of records, a run never goes
\* back behind the watermark it read, and it lists only files that are there.
TypeOK ==
  /\ log \in Seq(Record)
  /\ active \in Nat
  /\ checkpoint \in 0..Len(log)
  /\ run \in [Runs -> Run]
  /\ \A i \in Runs : /\ run[i].highest \in run[i].watermark..Len(log)
                     /\ run[i].keys \subseteq 0..(active - 1)
  /\ delivered \subseteq Written
  /\ faults \in Nat

Init ==
  /\ log = << >>
  /\ active = 0
  /\ checkpoint = 0
  /\ run = [i \in Runs |-> IdleRun]
  /\ delivered = {}
  /\ faults = MaxFaults

Fault == faults > 0 /\ faults' = faults - 1

-----------------------------------------------------------------------------
(* ONTAP.                                                                  *)

Write(dated) ==
  /\ Len(log) < MaxRecords
  /\ dated \/ Cardinality({r \in Written : ~log[r].dated}) < MaxUndated
  /\ log' = Append(log, [file |-> active, dated |-> dated])
  /\ UNCHANGED <<active, checkpoint, run, delivered, faults>>

Rotate ==
  /\ active < MaxFiles
  /\ Holds(active) # {}
  /\ RotatesAnytime \/ \A i \in Runs : ~run[i].live
  /\ active' = active + 1
  /\ UNCHANGED <<log, checkpoint, run, delivered, faults>>

-----------------------------------------------------------------------------
(* A scheduled run.                                                        *)

\* _get_checkpoint: a lookup that fails is a cold start.
ReadCheckpoint(i) ==
  /\ run[i].pc = "idle"
  /\ \E wm \in {0, checkpoint} :
       /\ IF wm = checkpoint THEN UNCHANGED faults ELSE Fault
       /\ run' = [run EXCEPT ![i] = [IdleRun EXCEPT !.pc = "list", !.watermark = wm,
                                                    !.highest = wm]]
  /\ UNCHANGED <<log, active, checkpoint, delivered>>

\* LastModified is the time of the latest settled write to the file, or that of
\* its creation at the rotation before it.
Candidate(f, wm, settled) ==
  /\ Holds(f) # {}
  /\ \/ wm = 0
     \/ \E r \in Holds(f) \cap settled : r >= wm - GraceSeconds
     \/ \A r \in Holds(f) : r - 1 >= wm - GraceSeconds

\* candidates.sort() and the cut to MAX_KEYS_PER_RUN: oldest modified first,
\* equal times by key, which is the order of the numbers.
\* Mutant: the newest files are taken.
NewestKeys(files) ==
  {f \in files : Cardinality({g \in files : g >= f}) <= MaxKeysPerRun}
OldestKeys(files) ==
  {f \in files : Cardinality({g \in files : g <= f}) <= MaxKeysPerRun}

List(i) ==
  /\ run[i].pc = "list"
  /\ \E recent \in SUBSET {r \in Written : r > Len(log) - ModifiedLag} :
       LET settled == {r \in Written : r <= Len(log) - ModifiedLag} \cup recent
           files == OldestKeys({f \in 0..active : Candidate(f, run[i].watermark, settled)})
       IN  run' = [run EXCEPT ![i].pc = IF files = {} THEN "idle" ELSE "ship",
                              ![i].keys = files \ {active},
                              ![i].live = active \in files]
  /\ UNCHANGED <<log, active, checkpoint, delivered, faults>>

\* The file of the next key.  The active key reads what is active now.
NextFile(i, f) ==
  /\ run[i].pc = "ship"
  /\ IF run[i].keys = {}
     THEN run[i].live /\ f = active
     ELSE f \in run[i].keys /\ \A g \in run[i].keys : f <= g

\* _filter_new_records: an undated record is kept, and only the dated ones
\* count for file_max_ns.
FreshDated(f, wm) == {r \in Holds(f) : log[r].dated /\ r > wm}
Fresh(f, wm) == {r \in Holds(f) : ~log[r].dated \/ r > wm}

Done(keys, f) == keys \ {f}

\* _send_batch after its retries: batches are accepted or not one by one, and
\* one whose response was lost may have been accepted.
PartlyAccepted(records) == SUBSET records

\* One key: read, parsed, filtered, every batch accepted, highest_ns advanced.
ShipFile(i, f) ==
  /\ NextFile(i, f)
  /\ delivered' = delivered \cup Fresh(f, run[i].watermark)
  /\ \E newest \in {run[i].highest} \cup FreshDated(f, run[i].watermark) :
       /\ \A r \in {run[i].highest} \cup FreshDated(f, run[i].watermark) : r <= newest
       /\ run' = [run EXCEPT ![i].highest = newest,
                             ![i].keys = Done(@, f),
                             ![i].live = @ /\ run[i].keys # {}]
  /\ UNCHANGED <<log, active, checkpoint, faults>>

\* The read, the parser or some batch fails.  The run stops at this file.
\* Mutant: it goes on with the next file.
ShipFailsAndContinues(i, f) ==
  /\ NextFile(i, f)
  /\ Fault
  /\ \E some \in PartlyAccepted(Fresh(f, run[i].watermark)) : delivered' = delivered \cup some
  /\ run' = [run EXCEPT ![i].keys = Done(@, f), ![i].live = @ /\ run[i].keys # {}]
  /\ UNCHANGED <<log, active, checkpoint>>
ShipFails(i, f) ==
  /\ NextFile(i, f)
  /\ Fault
  /\ \E some \in PartlyAccepted(Fresh(f, run[i].watermark)) : delivered' = delivered \cup some
  /\ run' = [run EXCEPT ![i].keys = {}, ![i].live = FALSE]
  /\ UNCHANGED <<log, active, checkpoint>>

\* Less than SAFETY_THRESHOLD_MS is left: the other files wait.
StopEarly(i) ==
  /\ run[i].pc = "ship"
  /\ run[i].keys # {} \/ run[i].live
  /\ Fault
  /\ run' = [run EXCEPT ![i].keys = {}, ![i].live = FALSE]
  /\ UNCHANGED <<log, active, checkpoint, delivered>>

\* _set_checkpoint overwrites whatever is there; a put that fails is logged.
\* Mutants: the watermark read is written back; the next run starts one later.
SaveWhatWasRead(i) ==
  /\ run[i].pc = "ship" /\ run[i].keys = {} /\ ~run[i].live
  /\ checkpoint' = run[i].watermark
  /\ run' = [run EXCEPT ![i] = IdleRun]
  /\ UNCHANGED <<log, active, delivered, faults>>
SaveOneMore(i) ==
  /\ run[i].pc = "ship" /\ run[i].keys = {} /\ ~run[i].live
  /\ checkpoint' = run[i].highest + 1
  /\ run' = [run EXCEPT ![i] = IdleRun]
  /\ UNCHANGED <<log, active, delivered, faults>>
Save(i) ==
  /\ run[i].pc = "ship" /\ run[i].keys = {} /\ ~run[i].live
  /\ IF run[i].highest > run[i].watermark
     THEN \/ checkpoint' = run[i].highest /\ UNCHANGED faults
          \/ Fault /\ UNCHANGED checkpoint
     ELSE UNCHANGED <<checkpoint, faults>>
  /\ run' = [run EXCEPT ![i] = IdleRun]
  /\ UNCHANGED <<log, active, delivered>>

\* The invocation is lost: runtime timeout, a listing that raises.  A shipment
\* cut short is ShipFails followed by Lose.
Lose(i) ==
  /\ run[i].pc # "idle"
  /\ Fault
  /\ run' = [run EXCEPT ![i] = IdleRun]
  /\ UNCHANGED <<log, active, checkpoint, delivered>>

Ship(i) == \E f \in 0..active : ShipFile(i, f)

Next ==
  \/ \E dated \in BOOLEAN : Write(dated)
  \/ Rotate
  \/ \E i \in Runs :
       \/ ReadCheckpoint(i) \/ List(i) \/ Ship(i) \/ Save(i)
       \/ StopEarly(i) \/ Lose(i)
       \/ \E f \in 0..active : ShipFails(i, f)

Spec == Init /\ [][Next]_vars

\* The schedule invokes the poller for ever and an invocation goes on.
FairSpec ==
  /\ Spec
  /\ \A i \in Runs :
       WF_vars(ReadCheckpoint(i)) /\ WF_vars(List(i)) /\ WF_vars(Ship(i)) /\ WF_vars(Save(i))

-----------------------------------------------------------------------------
(* Properties.                                                             *)

\* "The watermark never advances past a record that was not shipped
\* (at-least-once delivery, no silent gaps)", _handle_scheduler_event: with
\* overlapping runs, an overwritten checkpoint, cold starts and files that fail
\* half-way, all records up to the watermark, undated ones too, were delivered.
NoSilentGap == 1..checkpoint \subseteq delivered

\* "A large backlog drains over several runs": every record is delivered in the
\* end, whatever failed before.
EveryRecordDelivered ==
  \A r \in 1..MaxRecords : r \in Written ~> r \in delivered
=============================================================================
