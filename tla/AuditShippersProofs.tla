------------------------- MODULE AuditShippersProofs -------------------------
(***************************************************************************)
(* What the audit-log handlers promise, for each of the ten integrations   *)
(* on S3 events and the three on a schedule, for any number of overlapping *)
(* invocations, records, files, rotations and failures:                    *)
(*   Caught    the watermarks pass no record that is not covered           *)
(*   Clear     what is not accepted of an event shows in its result        *)
(*   OnceInv   a record that may still be sent has not been accepted       *)
(*             since the last repetition                                   *)
(* over Shape, which says how an invocation's local variables fit together.*)
(***************************************************************************)
EXTENDS AuditShippers, FiniteSetTheorems, SequenceTheorems, WellFoundedInduction, TLAPS

-----------------------------------------------------------------------------
(* Data.                                                                   *)

\* A bounded set of numbers that is not empty has a greatest element.
LEMMA MaxIn ==
  ASSUME NEW n \in Nat, NEW S, S \subseteq 0..n, S # {}
  PROVE  Max(S) \in S /\ \A y \in S : y <= Max(S)
<1> DEFINE T == {n - x : x \in S}
<1>0. \A y \in S : y \in Nat /\ y <= n
  OBVIOUS
<1>1. T \subseteq Nat /\ T # {}
  <2>1. \A y \in S : n - y \in Nat
    BY <1>0
  <2> QED  BY <2>1
<1>2. IsWellFoundedOn(OpToRel(<, Nat), Nat)
  BY NatLessThanWellFounded
<1>3. PICK t \in T : \A u \in T : <<u, t>> \notin OpToRel(<, Nat)
  BY <1>1, <1>2, WFMin
<1>4. \A u \in T : t <= u
  <2> SUFFICES ASSUME NEW u \in T, ~(t <= u) PROVE FALSE
    OBVIOUS
  <2>1. t \in Nat /\ u \in Nat /\ u < t
    BY <1>1
  <2>2. <<u, t>> \in {p \in Nat \X Nat : p[1] < p[2]}
    BY <2>1
  <2>3. <<u, t>> \in OpToRel(<, Nat)
    BY <2>2 DEF OpToRel
  <2> QED  BY <1>3, <2>3
<1>5. PICK x \in S : t = n - x
  OBVIOUS
<1>6. \A y \in S : x >= y
  <2> SUFFICES ASSUME NEW y \in S PROVE x >= y
    OBVIOUS
  <2>1. t <= n - y
    BY <1>4
  <2>2. x \in Nat /\ y \in Nat /\ x <= n /\ y <= n
    BY <1>0
  <2>3. n - x <= n - y
    BY <1>5, <2>1
  <2> HIDE DEF T
  <2> QED  BY <2>2, <2>3
<1>7. Max(S) \in S /\ \A y \in S : Max(S) >= y
  BY <1>6 DEF Max
<1> QED  BY <1>0, <1>7

\* The number of items of sets of records.
LEMMA Counts ==
  ASSUME NEW n \in Nat, NEW S, S \subseteq 1..n
  PROVE  /\ IsFiniteSet(S) /\ Cardinality(S) \in Nat
         /\ Cardinality(S) = 0 <=> S = {}
         /\ \A T \in SUBSET S : Cardinality(S \ T) + Cardinality(T) = Cardinality(S)
<1>1. IsFiniteSet(1..n)
  BY FS_Interval
<1>2. IsFiniteSet(S) /\ Cardinality(S) \in Nat
  BY <1>1, FS_Subset, FS_CardinalityType
<1>3. Cardinality(S) = 0 <=> S = {}
  BY <1>2, FS_EmptySet
<1>4. ASSUME NEW T \in SUBSET S  PROVE Cardinality(S \ T) + Cardinality(T) = Cardinality(S)
  <2>1. IsFiniteSet(T) /\ Cardinality(T) \in Nat
    BY <1>2, FS_Subset, FS_CardinalityType
  <2>2. S \cap T = T
    OBVIOUS
  <2>3. Cardinality(S \ T) = Cardinality(S) - Cardinality(T)
    BY <1>2, <2>2, FS_Difference
  <2>4. Cardinality(S \ T) \in Nat
    BY <1>2, FS_Difference, FS_CardinalityType
  <2> QED  BY <1>2, <2>1, <2>3, <2>4
<1> QED  BY <1>2, <1>3, <1>4

\* What the scheduled integrations take for an acceptance is one.
LEMMA ScheduledKeep ==
  ASSUME scheduled, vendor \in DOMAIN Loops, NEW code \in Answers, code \in intake.accepts,
         NEW batch, NEW kept \in Kept(code, batch)
  PROVE  kept = batch
<1>1. vendor \in {"grafana", "crowdstrike", "amplify"}
  BY DEF Loops
<1>2. intake \in {AmplifyEmit, GrafanaIntake, CrowdstrikeIntake}
  BY <1>1 DEF intake, Intakes
<1>3. intake.accepts \subseteq Success /\ ~intake.partly
  BY <1>2 DEF AmplifyEmit, GrafanaIntake, CrowdstrikeIntake, Intake, Success, Codes
<1> QED  BY <1>3 DEF Kept

\* The intake keeps items of the payload it was sent, of an acceptance that the
\* handler does not repeat at least those it does not reject.
LEMMA KeptIsSent ==
  ASSUME NEW code, NEW batch, NEW kept \in Kept(code, batch)
  PROVE  kept \subseteq batch
BY DEF Kept

-----------------------------------------------------------------------------
(* The invariant.                                                          *)

\* A record the watermark may pass.
Covered(v, lg, acc, po, x) ==
  \/ acc[x] > 0
  \/ ~lg[x].dated /\ ~Selections[v].undated
  \/ lg[x].file \in po

\* Records of the file read that are not sent yet, and what has been counted.
Pending(r) == r.todo \cup r.batch
Count(r) == r.shipped + r.sent + Cardinality(r.batch) + Cardinality(r.todo)

LogEntry == [file : Nat, dated : BOOLEAN]

\* Files are numbered in the order of their records.
LogOK(lg, act) ==
  /\ lg \in Seq(LogEntry) /\ Len(lg) <= MaxRecords /\ act \in Nat
  /\ \A x, y \in 1..Len(lg) : x <= y => lg[x].file <= lg[y].file
  /\ \A x \in 1..Len(lg) : lg[x].file \in 0..act

Shape(m, r, lg, act) ==
  /\ r \in Run
  /\ Pending(r) \subseteq 1..Len(lg) /\ r.todo \cap r.batch = {}
  /\ \A x, y \in Pending(r) : lg[x].file = lg[y].file
  /\ r.pc # "send" => r.todo = {} /\ r.batch = {} /\ r.sent = 0
  /\ r.keys \subseteq 0..act
  /\ r.pc \notin {"next", "send"} => r.keys = {}
  /\ Count(r) <= r.total
  /\ m = "schedule" => r.event = {} /\ r.pc \notin {"retry", "done"}
  /\ m # "schedule" => /\ r.pc # "list" /\ r.keys \subseteq r.event
                       /\ \A f \in r.event : f \in 0..act /\ f < act
  /\ {r.watermark, r.highest, r.newest} \subseteq 0..Len(lg)

\* A schedule: everything up to the watermarks is covered, and everything before
\* a key that is still to do, but for what is being sent.
Caught(v, r, lg, acc, po) ==
  /\ \A x \in 1..Len(lg) : x <= r.watermark \/ x <= r.highest => Covered(v, lg, acc, po, x)
  /\ r.pc = "next" \/ (r.pc = "send" /\ ~r.failed) =>
       \A x \in 1..Len(lg) : \A k \in r.keys : lg[x].file < k =>
          lg[x].file \in r.keys \/ x \in Pending(r) \/ Covered(v, lg, acc, po, x)
  /\ r.pc = "send" /\ ~r.failed =>
       \A x \in 1..Len(lg) : x <= r.newest => x \in Pending(r) \/ Covered(v, lg, acc, po, x)

\* An event: what shows in its result.
Excused(v, r) ==
  \/ r.errors
  \/ Handlers[v].failedSend = "error" /\ r.pc = "send" /\ r.failed
  \/ Handlers[v].failedSend # "error" /\ Count(r) < r.total
Clear(v, r, lg, acc, rej) ==
  /\ r.pc \in {"next", "send", "done"} =>
       \A x \in 1..Len(lg) : lg[x].file \in r.event =>
         \/ lg[x].file \in r.keys \/ x \in Pending(r)
         \/ acc[x] > 0 \/ x \in rej \/ Excused(v, r)
  /\ r.pc = "done" /\ r.status = 200 => ~r.errors

\* A record some invocation may still send in this delivery of its event.
Open(rs, lg, no, x) ==
  \/ x \notin 1..Len(lg)
  \/ lg[x].file \notin no
  \/ \E i \in Runs : x \in Pending(rs[i]) \/ lg[x].file \in rs[i].keys

OnceInv(rs, lg, no, acc, rep) ==
  /\ \A i \in Runs : rs[i].event \subseteq no
  /\ \A i, j \in Runs : i # j => rs[i].event \cap rs[j].event = {}
  /\ \A i \in Runs : \A x \in Pending(rs[i]) :
       lg[x].file \in rs[i].event /\ lg[x].file \notin rs[i].keys
  /\ \A x \in Records : acc[x] <= 1 + rep
  /\ \A x \in Records : Open(rs, lg, no, x) => acc[x] <= rep

Settings(m, v) ==
  /\ m = "event" \/ m = "schedule"
  /\ m = "event" => v \in DOMAIN Handlers
  /\ m = "schedule" => v \in DOMAIN Loops

IInv ==
  /\ Settings(mode, vendor)
  /\ LogOK(log, active)
  /\ notified \subseteq 0..active /\ \A f \in notified : f < active
  /\ checkpoint \in 0..Len(log) /\ (mode = "event" => checkpoint = 0)
  /\ run \in [Runs -> Run]
  /\ accepted \in [Records -> Nat]
  /\ rejected \subseteq 1..Len(log) /\ passedOver \subseteq 0..active
  /\ repeats \in Nat /\ faults \in 0..MaxFaults
  /\ \A i \in Runs : Shape(mode, run[i], log, active)
  /\ mode = "schedule" =>
       /\ \A i \in Runs : Caught(vendor, run[i], log, accepted, passedOver)
       /\ \A x \in 1..checkpoint : Covered(vendor, log, accepted, passedOver, x)
  /\ mode = "event" => /\ \A i \in Runs : Clear(vendor, run[i], log, accepted, rejected)
                       /\ OnceInv(run, log, notified, accepted, repeats)

\* What the constants are.
LEMMA Consts ==
  /\ GraceSeconds \in Nat /\ MaxRecords \in Nat /\ MaxUndated \in Nat /\ MaxFiles \in Nat
  /\ MaxFaults \in Nat /\ BatchItems \in Nat /\ BatchItems # 0
  /\ MaxKeysPerRun \in Nat /\ MaxKeysPerRun # 0
BY ConstantsAssumption DEF ConstantsAssumption

\* An invocation that has read nothing.
Blank(r) ==
  /\ r.todo = {} /\ r.batch = {} /\ r.attempt = 0 /\ r.failed = FALSE /\ r.sent = 0
  /\ r.newest = 0 /\ r.total = 0 /\ r.shipped = 0 /\ r.errors = FALSE /\ r.status = 0

\* An empty set counts nothing.
LEMMA EmptyCount == Cardinality({}) = 0
BY FS_EmptySet

\* An invocation that has not begun.
LEMMA IdleFields ==
  /\ IdleRun \in Run /\ Blank(IdleRun) /\ IdleRun.pc = "idle" /\ IdleRun.keys = {}
  /\ IdleRun.event = {} /\ IdleRun.watermark = 0 /\ IdleRun.highest = 0
BY DEF IdleRun, Run, Pcs, Blank, MaxRetries

\* One that Lambda will repeat, or not.
LEMMA RetryFields ==
  ASSUME NEW pc \in Pcs, NEW event \in SUBSET Nat
  PROVE  LET r == [IdleRun EXCEPT !.pc = pc, !.event = event]
         IN  /\ r \in Run /\ Blank(r) /\ r.pc = pc /\ r.event = event /\ r.keys = {}
             /\ r.watermark = 0 /\ r.highest = 0 /\ r.todo = {} /\ r.batch = {}
<1> DEFINE r == [IdleRun EXCEPT !.pc = pc, !.event = event]
<1>1. IdleRun \in Run
  BY IdleFields
<1>2. r \in Run
  BY <1>1 DEF Run
<1>3. /\ r.pc = pc /\ r.event = event /\ r.keys = IdleRun.keys
      /\ r.watermark = IdleRun.watermark /\ r.highest = IdleRun.highest
  BY <1>1 DEF Run
<1>4. /\ r.todo = IdleRun.todo /\ r.batch = IdleRun.batch /\ r.attempt = IdleRun.attempt
      /\ r.failed = IdleRun.failed /\ r.sent = IdleRun.sent /\ r.newest = IdleRun.newest
      /\ r.total = IdleRun.total /\ r.shipped = IdleRun.shipped
      /\ r.errors = IdleRun.errors /\ r.status = IdleRun.status
  BY <1>1 DEF Run
<1> HIDE DEF r
<1>5. Blank(r)
  BY <1>4, IdleFields DEF Blank
<1>6. /\ r.pc = pc /\ r.event = event /\ r.keys = {}
      /\ r.watermark = 0 /\ r.highest = 0
  BY <1>3, IdleFields
<1>7. r.todo = {} /\ r.batch = {}
  BY <1>5 DEF Blank
<1> QED  BY <1>2, <1>5, <1>6, <1>7 DEF r

\* One that has the keys of an event.
LEMMA BegunFields ==
  ASSUME NEW pc \in Pcs, NEW event \in SUBSET Nat
  PROVE  LET r == [IdleRun EXCEPT !.pc = pc, !.event = event, !.keys = event]
         IN  /\ r \in Run /\ Blank(r) /\ r.pc = pc /\ r.event = event /\ r.keys = event
             /\ r.watermark = 0 /\ r.highest = 0 /\ r.todo = {} /\ r.batch = {}
<1> DEFINE r == [IdleRun EXCEPT !.pc = pc, !.event = event, !.keys = event]
<1>1. IdleRun \in Run
  BY IdleFields
<1>2. r \in Run
  BY <1>1 DEF Run
<1>3. /\ r.pc = pc /\ r.event = event /\ r.keys = event
      /\ r.watermark = IdleRun.watermark /\ r.highest = IdleRun.highest
  BY <1>1 DEF Run
<1>4. /\ r.todo = IdleRun.todo /\ r.batch = IdleRun.batch /\ r.attempt = IdleRun.attempt
      /\ r.failed = IdleRun.failed /\ r.sent = IdleRun.sent /\ r.newest = IdleRun.newest
      /\ r.total = IdleRun.total /\ r.shipped = IdleRun.shipped
      /\ r.errors = IdleRun.errors /\ r.status = IdleRun.status
  BY <1>1 DEF Run
<1> HIDE DEF r
<1>5. Blank(r)
  BY <1>4, IdleFields DEF Blank
<1>6. /\ r.pc = pc /\ r.event = event /\ r.keys = event
      /\ r.watermark = 0 /\ r.highest = 0
  BY <1>3, IdleFields
<1>7. r.todo = {} /\ r.batch = {}
  BY <1>5 DEF Blank
<1> QED  BY <1>2, <1>5, <1>6, <1>7 DEF r

\* One that has read the checkpoint.
LEMMA ResumedFields ==
  ASSUME NEW pc \in Pcs, NEW wm \in Nat
  PROVE  LET r == [IdleRun EXCEPT !.pc = pc, !.watermark = wm, !.highest = wm]
         IN  /\ r \in Run /\ Blank(r) /\ r.pc = pc /\ r.event = {} /\ r.keys = {}
             /\ r.watermark = wm /\ r.highest = wm /\ r.todo = {} /\ r.batch = {}
<1> DEFINE r == [IdleRun EXCEPT !.pc = pc, !.watermark = wm, !.highest = wm]
<1>1. IdleRun \in Run
  BY IdleFields
<1>2. r \in Run
  BY <1>1 DEF Run
<1>3. /\ r.pc = pc /\ r.event = IdleRun.event /\ r.keys = IdleRun.keys
      /\ r.watermark = wm /\ r.highest = wm
  BY <1>1 DEF Run
<1>4. /\ r.todo = IdleRun.todo /\ r.batch = IdleRun.batch /\ r.attempt = IdleRun.attempt
      /\ r.failed = IdleRun.failed /\ r.sent = IdleRun.sent /\ r.newest = IdleRun.newest
      /\ r.total = IdleRun.total /\ r.shipped = IdleRun.shipped
      /\ r.errors = IdleRun.errors /\ r.status = IdleRun.status
  BY <1>1 DEF Run
<1> HIDE DEF r
<1>5. Blank(r)
  BY <1>4, IdleFields DEF Blank
<1>6. /\ r.pc = pc /\ r.event = {} /\ r.keys = {}
      /\ r.watermark = wm /\ r.highest = wm
  BY <1>3, IdleFields
<1>7. r.todo = {} /\ r.batch = {}
  BY <1>5 DEF Blank
<1> QED  BY <1>2, <1>5, <1>6, <1>7 DEF r

-----------------------------------------------------------------------------
(* What stays true of an invocation while others go on.                    *)

\* More accepted, more passed over, more rejected.
Grows(acc, acc2, po, po2, rej, rej2) ==
  /\ \A x \in Records : acc[x] > 0 => acc2[x] > 0
  /\ po \subseteq po2 /\ rej \subseteq rej2

\* More accepted, passed over or rejected takes nothing away.
LEMMA CaughtStays ==
  ASSUME NEW v, NEW r, NEW act, NEW lg, LogOK(lg, act), NEW acc, NEW acc2, NEW po, NEW po2,
         NEW rej, NEW rej2, Grows(acc, acc2, po, po2, rej, rej2)
  PROVE  /\ \A x \in 1..Len(lg) : Covered(v, lg, acc, po, x) => Covered(v, lg, acc2, po2, x)
         /\ Caught(v, r, lg, acc, po) => Caught(v, r, lg, acc2, po2)
         /\ Clear(v, r, lg, acc, rej) => Clear(v, r, lg, acc2, rej2)
<1>1. \A x \in 1..Len(lg) : x \in Records
  BY Consts DEF LogOK, Records
<1>2. ASSUME NEW x \in 1..Len(lg), Covered(v, lg, acc, po, x)
      PROVE  Covered(v, lg, acc2, po2, x)
  BY <1>1, <1>2 DEF Covered, Grows
<1>3. ASSUME Caught(v, r, lg, acc, po)  PROVE Caught(v, r, lg, acc2, po2)
  BY <1>2, <1>3 DEF Caught
<1>4. ASSUME Clear(v, r, lg, acc, rej)  PROVE Clear(v, r, lg, acc2, rej2)
  BY <1>1, <1>4 DEF Clear, Grows
<1> QED  BY <1>2, <1>3, <1>4

\* The log when a record is added to the file being written.
LEMMA LogGrows ==
  ASSUME NEW act, NEW lg, NEW entry \in LogEntry, LogOK(lg, act),
         entry.file = act, Len(lg) < MaxRecords
  PROVE  LET lg2 == Append(lg, entry)
         IN  /\ LogOK(lg2, act) /\ Len(lg2) = Len(lg) + 1 /\ Len(lg) \in Nat /\ act \in Nat
             /\ \A x \in 1..Len(lg) : lg2[x] = lg[x]
             /\ lg2[Len(lg) + 1] = entry
<1> DEFINE lg2 == Append(lg, entry)
<1> DEFINE n == Len(lg)
<1>1. lg \in Seq(LogEntry) /\ n \in Nat /\ act \in Nat
  BY DEF LogOK
<1>2. /\ lg2 \in Seq(LogEntry) /\ Len(lg2) = n + 1
      /\ \A x \in 1..n : lg2[x] = lg[x]
      /\ lg2[n + 1] = entry
  BY <1>1, AppendProperties
<1> HIDE DEF lg2
<1>3. \A x \in 1..Len(lg2) : x \in 1..n \/ x = n + 1
  BY <1>1, <1>2
<1>4. LogOK(lg2, act)
  <2>1. \A x \in 1..Len(lg2) : lg2[x].file \in 0..act
    BY <1>1, <1>2, <1>3 DEF LogOK
  <2>2. ASSUME NEW x \in 1..Len(lg2), NEW y \in 1..Len(lg2), x <= y
        PROVE  lg2[x].file <= lg2[y].file
    <3>1. CASE y = n + 1
      <4>1. lg2[y].file = act /\ lg2[x].file \in 0..act
        BY <1>2, <2>1, <3>1
      <4> QED  BY <1>1, <4>1
    <3>2. CASE y # n + 1
      <4>1. x \in 1..n /\ y \in 1..n
        BY <1>1, <1>3, <2>2, <3>2
      <4> QED  BY <1>2, <2>2, <4>1 DEF LogOK
    <3> QED  BY <3>1, <3>2
  <2>3. Len(lg2) <= MaxRecords
    BY <1>1, <1>2, Consts
  <2> QED  BY <1>1, <1>2, <2>1, <2>2, <2>3 DEF LogOK
<1> QED  BY <1>1, <1>2, <1>4 DEF lg2

\* A record written is the last, of the file being written: no invocation holds
\* it, no event names its file and no watermark is past it.
LEMMA WrittenLater ==
  ASSUME NEW m, NEW v, NEW r, NEW act, NEW lg, NEW entry \in LogEntry, LogOK(lg, act),
         entry.file = act, Len(lg) < MaxRecords, NEW acc, NEW po, NEW rej,
         Shape(m, r, lg, act)
  PROVE  LET lg2 == Append(lg, entry)
         IN  /\ Shape(m, r, lg2, act)
             /\ Caught(v, r, lg, acc, po) => Caught(v, r, lg2, acc, po)
             /\ m = "event" => (Clear(v, r, lg, acc, rej) => Clear(v, r, lg2, acc, rej))
<1> DEFINE lg2 == Append(lg, entry)
<1> DEFINE n == Len(lg)
<1>1. n \in Nat /\ act \in Nat
  BY LogGrows
<1>2. /\ Len(lg2) = n + 1
      /\ \A x \in 1..n : lg2[x] = lg[x]
      /\ lg2[n + 1] = entry
  BY LogGrows
<1> HIDE DEF lg2
<1>3. \A x \in 1..Len(lg2) : x \in 1..n \/ x = n + 1
  BY <1>1, <1>2
<1>5. Shape(m, r, lg2, act)
  <2>1. Pending(r) \subseteq 1..Len(lg2) /\ {r.watermark, r.highest, r.newest} \subseteq 0..Len(lg2)
    BY <1>1, <1>2 DEF Shape
  <2>2. \A x, y \in Pending(r) : lg2[x].file = lg2[y].file
    BY <1>2 DEF Shape
  <2> QED  BY <2>1, <2>2 DEF Shape
<1>6. ASSUME Caught(v, r, lg, acc, po)  PROVE Caught(v, r, lg2, acc, po)
  <2>1. \A x \in 1..n : Covered(v, lg, acc, po, x) => Covered(v, lg2, acc, po, x)
    BY <1>2 DEF Covered
  <2>2. /\ ~(n + 1 <= r.watermark) /\ ~(n + 1 <= r.highest) /\ ~(n + 1 <= r.newest)
        /\ \A k \in r.keys : ~(lg2[n + 1].file < k)
    BY <1>1, <1>2 DEF Shape
  <2>3. \A x \in 1..Len(lg2) :
          x <= r.watermark \/ x <= r.highest => Covered(v, lg2, acc, po, x)
    BY <1>3, <1>6, <2>1, <2>2 DEF Caught
  <2>4. r.pc = "next" \/ (r.pc = "send" /\ ~r.failed) =>
          \A x \in 1..Len(lg2) : \A k \in r.keys : lg2[x].file < k =>
             lg2[x].file \in r.keys \/ x \in Pending(r) \/ Covered(v, lg2, acc, po, x)
    BY <1>2, <1>3, <1>6, <2>1, <2>2 DEF Caught
  <2>5. r.pc = "send" /\ ~r.failed =>
          \A x \in 1..Len(lg2) : x <= r.newest =>
             x \in Pending(r) \/ Covered(v, lg2, acc, po, x)
    BY <1>3, <1>6, <2>1, <2>2 DEF Caught
  <2> QED  BY <2>3, <2>4, <2>5 DEF Caught
<1>7. ASSUME m = "event", Clear(v, r, lg, acc, rej)  PROVE Clear(v, r, lg2, acc, rej)
  <2>1. lg2[n + 1].file \notin r.event
    BY <1>1, <1>2, <1>7 DEF Shape
  <2> QED  BY <1>2, <1>3, <1>7, <2>1 DEF Clear
<1> QED  BY <1>5, <1>6, <1>7 DEF lg2

\* ONTAP writes a record.
LEMMA WriteKeeps ==
  ASSUME IInv, NEW dated \in BOOLEAN, Write(dated)
  PROVE  IInv'
<1> DEFINE entry == [file |-> active, dated |-> dated]
<1>1. /\ log' = Append(log, entry) /\ Len(log) < MaxRecords /\ entry.file = active
      /\ UNCHANGED <<mode, vendor, active, notified, checkpoint, run, accepted, rejected,
                     passedOver, repeats, faults>>
  BY DEF Write, settings, histories
<1>2. entry \in LogEntry /\ LogOK(log, active) /\ Len(log) \in Nat
  <2>1. LogOK(log, active)
    BY DEF IInv
  <2>2. log \in Seq(LogEntry) /\ active \in Nat
    BY <2>1 DEF LogOK
  <2> QED  BY <2>1, <2>2 DEF LogEntry
<1> HIDE DEF entry
<1>3. /\ LogOK(log', active) /\ Len(log') = Len(log) + 1
      /\ \A x \in 1..Len(log) : log'[x] = log[x]
      /\ log'[Len(log) + 1] = entry
  BY <1>1, <1>2, LogGrows
<1>4. \A i \in Runs : Shape(mode, run[i], log', active)
  BY <1>1, <1>2, WrittenLater DEF IInv
<1>5. mode = "schedule" =>
        /\ \A i \in Runs : Caught(vendor, run[i], log', accepted, passedOver)
        /\ \A x \in 1..checkpoint : Covered(vendor, log', accepted, passedOver, x)
  <2>1. mode = "schedule" =>
          \A i \in Runs : Caught(vendor, run[i], log', accepted, passedOver)
    BY <1>1, <1>2, WrittenLater DEF IInv
  <2>2. mode = "schedule" =>
          \A x \in 1..checkpoint : Covered(vendor, log', accepted, passedOver, x)
    <3>1. \A x \in 1..checkpoint : x \in 1..Len(log)
      BY <1>2 DEF IInv
    <3> QED  BY <1>3, <3>1 DEF IInv, Covered
  <2> QED  BY <2>1, <2>2
<1>6. mode = "event" => \A i \in Runs : Clear(vendor, run[i], log', accepted, rejected)
  BY <1>1, <1>2, WrittenLater DEF IInv
<1>7. mode = "event" => OnceInv(run, log', notified, accepted, repeats)
  <2> SUFFICES ASSUME mode = "event" PROVE OnceInv(run, log', notified, accepted, repeats)
    OBVIOUS
  <2>1. OnceInv(run, log, notified, accepted, repeats)
    BY DEF IInv
  <2>2. \A i \in Runs : \A x \in Pending(run[i]) : x \in 1..Len(log)
    BY DEF IInv, Shape
  <2>3. \A x \in Records : Open(run, log', notified, x) => Open(run, log, notified, x)
    <3> SUFFICES ASSUME NEW x \in Records, Open(run, log', notified, x)
                 PROVE  Open(run, log, notified, x)
      OBVIOUS
    <3>1. CASE x \in 1..Len(log)
      BY <1>2, <1>3, <3>1 DEF Open
    <3>2. CASE x \notin 1..Len(log)
      BY <3>2 DEF Open
    <3> QED  BY <3>1, <3>2
  <2>4. \A i \in Runs : \A x \in Pending(run[i]) :
          log'[x].file \in run[i].event /\ log'[x].file \notin run[i].keys
    BY <1>3, <2>1, <2>2 DEF OnceInv
  <2> QED  BY <2>1, <2>3, <2>4 DEF OnceInv
<1>8. checkpoint \in 0..Len(log') /\ rejected \subseteq 1..Len(log')
  BY <1>2, <1>3 DEF IInv
<1> QED  BY <1>1, <1>3, <1>4, <1>5, <1>6, <1>7, <1>8 DEF IInv

\* ONTAP starts a new file.
LEMMA RotateKeeps ==
  ASSUME IInv, Rotate
  PROVE  IInv'
<1>1. /\ active' = active + 1
      /\ UNCHANGED <<mode, vendor, log, notified, checkpoint, run, accepted, rejected,
                     passedOver, repeats, faults>>
  BY DEF Rotate, settings, histories
<1>2. active \in Nat /\ LogOK(log, active)
  BY DEF IInv, LogOK
<1>3. LogOK(log, active')
  <2>1. \A x \in 1..Len(log) : log[x].file \in 0..active'
    BY <1>1, <1>2 DEF LogOK
  <2> QED  BY <1>1, <1>2, <2>1 DEF LogOK
<1>4. ASSUME NEW i \in Runs  PROVE Shape(mode, run[i], log, active')
  <2>1. Shape(mode, run[i], log, active)
    BY DEF IInv
  <2>2. \A f \in 0..active : f \in 0..active' /\ f < active'
    BY <1>1, <1>2
  <2> QED  BY <2>1, <2>2 DEF Shape
<1>5. /\ notified \subseteq 0..active' /\ passedOver \subseteq 0..active'
      /\ \A f \in notified : f < active'
  BY <1>1, <1>2 DEF IInv
<1> QED  BY <1>1, <1>3, <1>4, <1>5 DEF IInv
-----------------------------------------------------------------------------
(* A step of one invocation.                                               *)

\* What it does to the records of its event.
OnceStep(i, r) ==
  /\ r.event \subseteq notified'
  /\ r.event \subseteq run[i].event \/ r.event \cap notified = {}
  /\ \A x \in Pending(r) : log[x].file \in r.event /\ log[x].file \notin r.keys
  /\ repeats <= repeats'
  /\ \A x \in Records : x \notin Pending(run[i]) => accepted'[x] = accepted[x]
  /\ \A x \in Records : accepted'[x] <= 1 + repeats'
  /\ \A x \in Records : x \in Pending(r) => accepted'[x] <= repeats'
  /\ \A x \in 1..Len(log) : log[x].file \in r.keys => accepted'[x] <= repeats'

\* The invocation is left with r.
Moves(i, r) ==
  /\ r \in Run /\ run' = [run EXCEPT ![i] = r]
  /\ UNCHANGED <<vendor, mode, log, active>>
  /\ notified \subseteq notified' /\ notified' \subseteq 0..active
  /\ \A f \in notified' : f < active
  /\ checkpoint' \in 0..Len(log) /\ (mode = "event" => checkpoint' = checkpoint)
  /\ accepted' \in [Records -> Nat]
  /\ Grows(accepted, accepted', passedOver, passedOver', rejected, rejected')
  /\ rejected' \subseteq 1..Len(log) /\ passedOver' \subseteq 0..active
  /\ repeats' \in Nat /\ faults' \in 0..MaxFaults
  /\ Shape(mode, r, log, active)
  /\ mode = "schedule" => /\ Caught(vendor, r, log, accepted', passedOver')
                          /\ \A x \in 1..checkpoint' :
                               Covered(vendor, log, accepted', passedOver', x)
  /\ mode = "event" => Clear(vendor, r, log, accepted', rejected') /\ OnceStep(i, r)

\* A step that treats the records of its event once keeps OnceInv.
LEMMA OnceKept ==
  ASSUME NEW i \in Runs, NEW r, run \in [Runs -> Run], run' = [run EXCEPT ![i] = r],
         LogOK(log, active), \A j \in Runs : Shape(mode, run[j], log, active),
         notified \subseteq notified', repeats \in Nat, repeats' \in Nat,
         accepted \in [Records -> Nat], accepted' \in [Records -> Nat],
         OnceInv(run, log, notified, accepted, repeats), OnceStep(i, r)
  PROVE  OnceInv(run', log, notified', accepted', repeats')
<1>1. run'[i] = r /\ \A j \in Runs : j # i => run'[j] = run[j]
  OBVIOUS
<1>2. \A j \in Runs : run'[j].event \subseteq notified'
  BY <1>1 DEF OnceInv, OnceStep
<1>3. \A j, k \in Runs : j # k => run'[j].event \cap run'[k].event = {}
  <2>1. \A j \in Runs : j # i => run[j].event \cap r.event = {}
    BY DEF OnceInv, OnceStep
  <2> QED  BY <1>1, <2>1 DEF OnceInv
<1>4. \A j \in Runs : \A x \in Pending(run'[j]) :
        log[x].file \in run'[j].event /\ log[x].file \notin run'[j].keys
  BY <1>1 DEF OnceInv, OnceStep
<1>5. \A x \in Records : accepted'[x] <= 1 + repeats'
  BY DEF OnceStep
<1>6. ASSUME NEW x \in Records, Open(run', log, notified', x)  PROVE accepted'[x] <= repeats'
  <2>0. accepted[x] \in Nat /\ accepted'[x] \in Nat /\ repeats <= repeats'
    BY DEF OnceStep
  <2>1. CASE x \in Pending(r) \/ (x \in 1..Len(log) /\ log[x].file \in r.keys)
    BY <2>1 DEF OnceStep
  <2>2. CASE ~(x \in Pending(r) \/ (x \in 1..Len(log) /\ log[x].file \in r.keys))
    <3>1. \/ x \notin 1..Len(log)
          \/ x \in 1..Len(log) /\ log[x].file \notin notified'
          \/ \E j \in Runs : /\ j # i /\ x \in 1..Len(log)
                             /\ x \in Pending(run[j]) \/ log[x].file \in run[j].keys
      BY <1>1, <1>6, <2>2 DEF Open
    <3>2. Open(run, log, notified, x)
      BY <3>1 DEF Open
    <3>3. accepted[x] <= repeats
      BY <3>2 DEF OnceInv
    <3>4. x \notin Pending(run[i])
      <4>1. x \in Pending(run[i]) => x \in 1..Len(log) /\ log[x].file \in run[i].event
        BY DEF OnceInv, Shape
      <4>2. x \in Pending(run[i]) => log[x].file \in notified'
        BY <4>1 DEF OnceInv
      <4>3. \A j \in Runs : j # i /\ x \in Pending(run[j]) => log[x].file \in run[j].event
        BY DEF OnceInv
      <4>4. mode # "schedule" \/ mode = "schedule"
        OBVIOUS
      <4>5. \A j \in Runs : mode # "schedule" => run[j].keys \subseteq run[j].event
        BY DEF Shape
      <4>6. mode = "schedule" => run[i].event = {}
        BY DEF Shape
      <4> QED  BY <3>1, <4>1, <4>2, <4>3, <4>5, <4>6 DEF OnceInv
    <3> QED  BY <2>0, <3>3, <3>4 DEF OnceStep
  <2> QED  BY <2>1, <2>2
<1> QED  BY <1>2, <1>3, <1>4, <1>5, <1>6 DEF OnceInv

\* A step of one invocation that leaves it well-formed keeps the invariant.
LEMMA MovesKeep ==
  ASSUME IInv, NEW i \in Runs, NEW r, Moves(i, r)
  PROVE  IInv'
<1>1. /\ run \in [Runs -> Run] /\ LogOK(log, active) /\ repeats \in Nat
      /\ accepted \in [Records -> Nat] /\ \A j \in Runs : Shape(mode, run[j], log, active)
  BY DEF IInv
<1>2. run'[i] = r /\ \A j \in Runs : j # i => run'[j] = run[j]
  BY <1>1 DEF Moves
<1>3. /\ LogOK(log', active') /\ run' \in [Runs -> Run] /\ Settings(mode', vendor')
      /\ \A j \in Runs : Shape(mode', run'[j], log', active')
  BY <1>1, <1>2 DEF Moves, IInv
<1>4. mode' = "schedule" =>
        /\ \A j \in Runs : Caught(vendor', run'[j], log', accepted', passedOver')
        /\ \A x \in 1..checkpoint' : Covered(vendor', log', accepted', passedOver', x)
  <2> SUFFICES ASSUME mode = "schedule"
               PROVE  /\ \A j \in Runs : Caught(vendor, run'[j], log, accepted', passedOver')
                      /\ \A x \in 1..checkpoint' :
                           Covered(vendor, log, accepted', passedOver', x)
    BY DEF Moves
  <2>1. \A j \in Runs : Caught(vendor, run[j], log, accepted, passedOver)
    BY DEF IInv
  <2>2. \A j \in Runs : Caught(vendor, run[j], log, accepted', passedOver')
    BY <1>1, <2>1, CaughtStays DEF Moves
  <2> QED  BY <1>2, <2>2 DEF Moves
<1>5. mode' = "event" =>
        /\ \A j \in Runs : Clear(vendor', run'[j], log', accepted', rejected')
        /\ OnceInv(run', log', notified', accepted', repeats')
  <2> SUFFICES ASSUME mode = "event"
               PROVE  /\ \A j \in Runs : Clear(vendor, run'[j], log, accepted', rejected')
                      /\ OnceInv(run', log, notified', accepted', repeats')
    BY DEF Moves
  <2>1. \A j \in Runs : Clear(vendor, run[j], log, accepted, rejected)
    BY DEF IInv
  <2>2. \A j \in Runs : Clear(vendor, run[j], log, accepted', rejected')
    BY <1>1, <2>1, CaughtStays DEF Moves
  <2>3. OnceInv(run', log, notified', accepted', repeats')
    BY <1>1, OnceKept DEF IInv, Moves
  <2> QED  BY <1>2, <2>2, <2>3 DEF Moves
<1> QED  BY <1>3, <1>4, <1>5 DEF IInv, Moves

\* A fault that there may still be.
LEMMA Faulty ==
  ASSUME IInv, Fault \/ UNCHANGED faults
  PROVE  faults' \in 0..MaxFaults
BY Consts DEF IInv, Fault

\* A step that concerns nobody else.
Quiet(i, r) ==
  /\ r \in Run /\ run' = [run EXCEPT ![i] = r]
  /\ UNCHANGED <<settings, ontap, notified, checkpoint, histories>>
  /\ Fault \/ UNCHANGED faults
  /\ Shape(mode, r, log, active)
  /\ mode = "schedule" => Caught(vendor, r, log, accepted, passedOver)
  /\ mode = "event" =>
       /\ Clear(vendor, r, log, accepted, rejected)
       /\ r.event \subseteq run[i].event /\ r.keys \subseteq run[i].keys
       /\ \A x \in Pending(r) :
            /\ x \in Pending(run[i]) \/ log[x].file \in run[i].keys
            /\ log[x].file \in r.event /\ log[x].file \notin r.keys

\* So does one that changes nothing but that invocation.
LEMMA QuietKeeps ==
  ASSUME IInv, NEW i \in Runs, NEW r, Quiet(i, r)
  PROVE  IInv'
<1>1. UNCHANGED <<vendor, mode, log, active, notified, checkpoint, accepted, rejected,
                  passedOver, repeats>>
  BY DEF Quiet, settings, ontap, histories
<1>2. faults' \in 0..MaxFaults
  BY Faulty DEF Quiet
<1>3. Grows(accepted, accepted', passedOver, passedOver', rejected, rejected')
  BY <1>1 DEF Grows
<1>4. mode = "event" => OnceStep(i, r)
  <2> SUFFICES ASSUME mode = "event" PROVE OnceStep(i, r)
    OBVIOUS
  <2>1. OnceInv(run, log, notified, accepted, repeats) /\ repeats \in Nat
    BY DEF IInv
  <2>2. /\ r.event \subseteq run[i].event /\ r.keys \subseteq run[i].keys
        /\ \A x \in Pending(r) :
             /\ x \in Pending(run[i]) \/ log[x].file \in run[i].keys
             /\ log[x].file \in r.event /\ log[x].file \notin r.keys
    BY DEF Quiet
  <2>3. \A x \in Records :
          x \in Pending(run[i]) \/ log[x].file \in run[i].keys => accepted[x] <= repeats
    BY <2>1 DEF OnceInv, Open
  <2>4. \A x \in Records : x \in Pending(r) => accepted[x] <= repeats
    BY <2>2, <2>3
  <2>5. \A x \in 1..Len(log) : log[x].file \in r.keys => accepted[x] <= repeats
    <3>1. \A x \in 1..Len(log) : x \in Records
      BY Consts DEF IInv, LogOK, Records
    <3> QED  BY <2>2, <2>3, <3>1
  <2>6. /\ \A x \in Records : accepted[x] <= 1 + repeats
        /\ run[i].event \subseteq notified /\ repeats <= repeats
    BY <2>1 DEF OnceInv
  <2> QED  BY <1>1, <2>2, <2>4, <2>5, <2>6 DEF OnceStep
<1>5. Moves(i, r)
  BY <1>1, <1>2, <1>3, <1>4 DEF Quiet, IInv, Moves
<1> QED  BY <1>5, MovesKeep
-----------------------------------------------------------------------------
(* The start and the end of an invocation.                                 *)

\* What is known of an invocation.
LEMMA OfRun ==
  ASSUME IInv, NEW i \in Runs
  PROVE  /\ run \in [Runs -> Run] /\ run[i] \in Run
         /\ LogOK(log, active) /\ Len(log) \in Nat /\ active \in Nat
         /\ Shape(mode, run[i], log, active)
         /\ mode = "schedule" =>
              /\ Caught(vendor, run[i], log, accepted, passedOver)
              /\ \A x \in 1..checkpoint : Covered(vendor, log, accepted, passedOver, x)
         /\ mode = "event" => /\ Clear(vendor, run[i], log, accepted, rejected)
                              /\ OnceInv(run, log, notified, accepted, repeats)
         /\ mode = "schedule" \/ mode = "event"
<1>1. LogOK(log, active) /\ run \in [Runs -> Run]
  BY DEF IInv
<1>2. log \in Seq(LogEntry) /\ active \in Nat
  BY <1>1 DEF LogOK
<1>3. mode = "schedule" \/ mode = "event"
  BY DEF IInv, Settings
<1> QED  BY <1>1, <1>2, <1>3 DEF IInv

\* An invocation that has read nothing fits, whatever was accepted.
LEMMA BlankFits ==
  ASSUME NEW m, NEW v, NEW act, NEW lg, LogOK(lg, act), NEW acc, NEW po, NEW rej,
         NEW r \in Run, Blank(r), r.pc \in {"idle", "list", "next", "retry"},
         r.pc # "next" => r.keys = {}, r.keys \subseteq r.event,
         r.pc = "next" => r.keys = r.event,
         m = "schedule" => r.event = {} /\ r.pc # "retry",
         m # "schedule" => r.pc # "list",
         \A f \in r.event : f \in 0..act /\ f < act,
         r.watermark \in 0..Len(lg), r.highest \in 0..Len(lg),
         \A x \in 1..Len(lg) : x <= r.watermark \/ x <= r.highest => Covered(v, lg, acc, po, x)
  PROVE  /\ Shape(m, r, lg, act)
         /\ m = "schedule" => Caught(v, r, lg, acc, po)
         /\ Clear(v, r, lg, acc, rej)
<1>1. lg \in Seq(LogEntry) /\ Len(lg) \in Nat /\ act \in Nat
  BY DEF LogOK
<1>2. Pending(r) = {} /\ Count(r) = 0 /\ r.total = 0
  BY EmptyCount DEF Blank, Pending, Count
<1>3. Shape(m, r, lg, act)
  BY <1>1, <1>2 DEF Shape, Blank
<1>4. m = "schedule" => Caught(v, r, lg, acc, po)
  BY <1>2 DEF Caught
<1>5. Clear(v, r, lg, acc, rej)
  BY DEF Clear
<1> QED  BY <1>3, <1>4, <1>5

\* An invocation that ends, or that Lambda will repeat.
LEMMA LeftFits ==
  ASSUME IInv, NEW i \in Runs, NEW r \in Run, Blank(r),
         r.pc = "idle" \/ (r.pc = "retry" /\ mode = "event"), r.event \subseteq run[i].event,
         r.keys = {}, r.watermark = 0, r.highest = 0, run' = [run EXCEPT ![i] = r],
         UNCHANGED <<settings, ontap, notified, checkpoint, histories>>,
         Fault \/ UNCHANGED faults
  PROVE  Quiet(i, r)
<1>1. LogOK(log, active) /\ Len(log) \in Nat /\ Shape(mode, run[i], log, active)
  BY OfRun
<1>2. \A f \in r.event : f \in 0..active /\ f < active
  BY <1>1 DEF Shape
<1>3. /\ mode = "schedule" => r.event = {} /\ r.pc # "retry"
      /\ \A x \in 1..Len(log) : ~(x <= 0)
  BY <1>1 DEF Shape
<1>4. /\ Shape(mode, r, log, active)
      /\ mode = "schedule" => Caught(vendor, r, log, accepted, passedOver)
      /\ Clear(vendor, r, log, accepted, rejected)
  <2>1. /\ r.pc \in {"idle", "list", "next", "retry"} /\ r.keys \subseteq r.event
        /\ r.pc # "next" /\ r.pc # "list"
        /\ r.watermark \in 0..Len(log) /\ r.highest \in 0..Len(log)
        /\ \A x \in 1..Len(log) : ~(x <= r.watermark) /\ ~(x <= r.highest)
    BY <1>1, <1>3
  <2> QED  BY <1>1, <1>2, <1>3, <2>1, BlankFits
<1> QED  BY <1>4 DEF Quiet, Pending, Blank

\* An invocation that ends.
LEMMA DropKeeps ==
  ASSUME IInv, NEW i \in Runs, Drop(i) \/ Forget(i)
  PROVE  IInv'
<1>1. /\ run' = [run EXCEPT ![i] = IdleRun]
      /\ UNCHANGED <<settings, ontap, notified, checkpoint, histories, faults>>
  BY DEF Drop, Forget
<1>2. Quiet(i, IdleRun)
  BY <1>1, IdleFields, LeftFits
<1> QED  BY <1>2, QuietKeeps

\* One that times out: Lambda repeats an event, a schedule starts anew.
LEMMA CrashKeeps ==
  ASSUME IInv, NEW i \in Runs, Crash(i)
  PROVE  IInv'
<1> DEFINE pc == IF scheduled THEN "idle" ELSE "retry"
<1> DEFINE r == [IdleRun EXCEPT !.pc = pc, !.event = run[i].event]
<1>1. /\ run' = [run EXCEPT ![i] = r] /\ Fault
      /\ UNCHANGED <<settings, ontap, notified, checkpoint, histories>>
  BY DEF Crash
<1>2. (pc = "idle" \/ (pc = "retry" /\ mode = "event")) /\ pc \in Pcs
  BY OfRun DEF scheduled, Pcs
<1>3. run[i].event \in SUBSET Nat
  BY OfRun DEF Run
<1> HIDE DEF pc
<1>4. /\ r \in Run /\ Blank(r) /\ r.pc = pc /\ r.event = run[i].event /\ r.keys = {}
      /\ r.watermark = 0 /\ r.highest = 0 /\ r.todo = {} /\ r.batch = {}
  BY <1>2, <1>3, RetryFields
<1> HIDE DEF r
<1>5. Quiet(i, r)
  BY <1>1, <1>2, <1>4, LeftFits
<1> QED  BY <1>5, QuietKeeps

\* The watermark read is the checkpoint, or none.
LEMMA ReadCheckpointKeeps ==
  ASSUME IInv, NEW i \in Runs, ReadCheckpoint(i)
  PROVE  IInv'
<1>1. PICK wm \in {0, checkpoint} :
        /\ FaultUnless(wm = checkpoint)
        /\ run' = [run EXCEPT ![i] = [IdleRun EXCEPT !.pc = "list", !.watermark = wm,
                                                     !.highest = wm]]
  BY DEF ReadCheckpoint
<1> DEFINE r == [IdleRun EXCEPT !.pc = "list", !.watermark = wm, !.highest = wm]
<1>2. /\ mode = "schedule" /\ (Fault \/ UNCHANGED faults)
      /\ UNCHANGED <<settings, ontap, notified, checkpoint, histories>>
  BY <1>1 DEF ReadCheckpoint, scheduled, FaultUnless
<1>3. LogOK(log, active) /\ Len(log) \in Nat
  BY OfRun
<1>4. wm \in 0..Len(log)
  BY <1>3 DEF IInv
<1>5. /\ r \in Run /\ Blank(r) /\ r.pc = "list" /\ r.event = {} /\ r.keys = {}
      /\ r.watermark = wm /\ r.highest = wm /\ r.todo = {} /\ r.batch = {}
  <2>1. "list" \in Pcs /\ wm \in Nat
    BY <1>3, <1>4 DEF Pcs
  <2> QED  BY <2>1, ResumedFields
<1> HIDE DEF r
<1>6. \A x \in 1..Len(log) : x <= wm => Covered(vendor, log, accepted, passedOver, x)
  <2> SUFFICES ASSUME NEW x \in 1..Len(log), x <= wm
               PROVE  Covered(vendor, log, accepted, passedOver, x)
    OBVIOUS
  <2>1. x \in 1..checkpoint
    BY <1>3, <1>4 DEF IInv
  <2> QED  BY <1>2, <2>1, OfRun
<1>7. /\ Shape(mode, r, log, active)
      /\ mode = "schedule" => Caught(vendor, r, log, accepted, passedOver)
  BY <1>2, <1>3, <1>4, <1>5, <1>6, BlankFits
<1>8. run' = [run EXCEPT ![i] = r]
  BY <1>1 DEF r
<1>9. Quiet(i, r)
  BY <1>2, <1>5, <1>7, <1>8 DEF Quiet
<1> QED  BY <1>9, QuietKeeps

\* The list has every older candidate of each key in it.
LEMMA ListKeeps ==
  ASSUME IInv, NEW i \in Runs, List(i)
  PROVE  IInv'
<1> DEFINE wm == run[i].watermark
<1> DEFINE files == {f \in 0..active : Candidate(f, wm)}
<1> DEFINE keys == OldestKeys(files)
<1> DEFINE r == [run[i] EXCEPT !.pc = "next", !.keys = keys]
<1>0. /\ LogOK(log, active) /\ Len(log) \in Nat /\ active \in Nat /\ run \in [Runs -> Run]
      /\ run[i] \in Run /\ Shape(mode, run[i], log, active)
  BY OfRun
<1>1. /\ run' = [run EXCEPT ![i] = r] /\ run[i].pc = "list"
      /\ UNCHANGED <<settings, ontap, notified, checkpoint, histories, faults>>
  BY <1>0 DEF List, Run
<1>2. mode = "schedule" /\ Caught(vendor, run[i], log, accepted, passedOver)
  BY <1>0, <1>1, OfRun DEF Shape
<1>3. keys \subseteq 0..active /\ keys \subseteq files
  BY DEF OldestKeys
<1>4. \A k \in keys, g \in files : g <= k => g \in keys
  <2> SUFFICES ASSUME NEW k \in keys, NEW g \in files, g <= k PROVE g \in keys
    OBVIOUS
  <2> DEFINE G == {h \in files : h <= g}
  <2> DEFINE K == {h \in files : h <= k}
  <2>1. G \subseteq K /\ K \subseteq 0..active
    BY <1>0, <1>3
  <2>2. IsFiniteSet(K)
    <3>1. IsFiniteSet(0..active)
      BY <1>0, FS_Interval
    <3> QED  BY <2>1, <3>1, FS_Subset
  <2>3. Cardinality(G) <= Cardinality(K) /\ Cardinality(K) \in Nat /\ Cardinality(G) \in Nat
    BY <2>1, <2>2, FS_Subset, FS_CardinalityType
  <2>4. Cardinality(K) <= MaxKeysPerRun
    BY DEF OldestKeys
  <2>5. Cardinality(G) <= MaxKeysPerRun
    BY <2>3, <2>4, Consts
  <2> QED  BY <2>5 DEF OldestKeys
<1> HIDE DEF keys
<1>5. /\ r \in Run /\ r.pc = "next" /\ r.keys = keys /\ r.event = run[i].event
      /\ r.todo = run[i].todo /\ r.batch = run[i].batch /\ r.sent = run[i].sent
      /\ r.total = run[i].total /\ r.shipped = run[i].shipped
      /\ r.watermark = run[i].watermark /\ r.highest = run[i].highest
      /\ r.newest = run[i].newest
  <2>1. keys \subseteq Nat
    BY <1>0, <1>3
  <2> QED  BY <1>0, <2>1 DEF Run, Pcs
<1> HIDE DEF r
<1>6. Shape(mode, r, log, active)
  BY <1>0, <1>1, <1>2, <1>3, <1>5 DEF Shape, Pending, Count
<1>7. \A x \in 1..Len(log) : \A k \in keys : log[x].file < k =>
        log[x].file \in keys \/ Covered(vendor, log, accepted, passedOver, x)
  <2> SUFFICES ASSUME NEW x \in 1..Len(log), NEW k \in keys, log[x].file < k,
                      ~Covered(vendor, log, accepted, passedOver, x)
               PROVE  log[x].file \in keys
    OBVIOUS
  <2>1. log[x].file \in 0..active
    BY <1>0 DEF LogOK
  <2>2. wm \in 0..Len(log) /\ ~(x <= wm)
    BY <1>0, <1>2 DEF Caught, Shape
  <2>3. x >= wm - GraceSeconds
    BY <1>0, <2>2, Consts
  <2>4. Candidate(log[x].file, wm)
    BY <2>3 DEF Candidate, Holds, Written
  <2>5. log[x].file \in files /\ log[x].file <= k
    BY <1>0, <1>3, <2>1, <2>4
  <2> QED  BY <1>4, <2>5
<1>8. Caught(vendor, r, log, accepted, passedOver)
  BY <1>2, <1>5, <1>7 DEF Caught, Pending
<1>9. Quiet(i, r)
  BY <1>1, <1>2, <1>5, <1>6, <1>8 DEF Quiet
<1> QED  BY <1>9, QuietKeeps
-----------------------------------------------------------------------------
(* Events.                                                                 *)

\* What Begin returns.
LEMMA BeginFields ==
  ASSUME NEW named \in SUBSET Nat, NEW key \in BOOLEAN
  PROVE  LET r == Begin(named, key)
         IN  /\ r \in Run /\ Blank(r) /\ r.event = named /\ r.watermark = 0 /\ r.highest = 0
             /\ r.pc = "next" \/ r.pc = "retry"
             /\ r.pc = "next" => r.keys = named
             /\ r.pc # "next" => r.keys = {}
             /\ r.todo = {} /\ r.batch = {}
<1>1. "next" \in Pcs /\ "retry" \in Pcs
  BY DEF Pcs
<1>2. CASE key \/ ~handler.needsKey
  <2> DEFINE r == [IdleRun EXCEPT !.pc = "next", !.event = named, !.keys = named]
  <2>1. Begin(named, key) = r
    BY <1>2 DEF Begin
  <2>2. /\ r \in Run /\ Blank(r) /\ r.pc = "next" /\ r.event = named /\ r.keys = named
        /\ r.watermark = 0 /\ r.highest = 0 /\ r.todo = {} /\ r.batch = {}
    BY <1>1, BegunFields
  <2> HIDE DEF r
  <2> QED  BY <2>1, <2>2
<1>3. CASE ~(key \/ ~handler.needsKey)
  <2> DEFINE r == [IdleRun EXCEPT !.pc = "retry", !.event = named]
  <2>1. Begin(named, key) = r
    BY <1>3 DEF Begin
  <2>2. /\ r \in Run /\ Blank(r) /\ r.pc = "retry" /\ r.event = named /\ r.keys = {}
        /\ r.watermark = 0 /\ r.highest = 0 /\ r.todo = {} /\ r.batch = {}
    BY <1>1, RetryFields
  <2> HIDE DEF r
  <2> QED  BY <2>1, <2>2
<1> QED  BY <1>2, <1>3

\* An invocation that begins with the keys of its event.
LEMMA BegunFits ==
  ASSUME IInv, mode = "event", NEW i \in Runs, NEW named \in SUBSET (0..active),
         \A f \in named : f < active, NEW key \in BOOLEAN,
         NEW acc, NEW po, NEW rej
  PROVE  LET r == Begin(named, key)
         IN  /\ Shape(mode, r, log, active) /\ Clear(vendor, r, log, acc, rej)
             /\ r \in Run /\ r.event = named /\ r.keys \subseteq named /\ Pending(r) = {}
<1> DEFINE r == Begin(named, key)
<1>1. LogOK(log, active) /\ Len(log) \in Nat /\ active \in Nat
  BY OfRun
<1>2. named \in SUBSET Nat
  BY <1>1
<1>3. /\ r \in Run /\ Blank(r) /\ r.event = named /\ r.watermark = 0 /\ r.highest = 0
      /\ r.pc = "next" \/ r.pc = "retry"
      /\ r.pc = "next" => r.keys = named
      /\ r.pc # "next" => r.keys = {}
      /\ r.todo = {} /\ r.batch = {}
  BY <1>2, BeginFields
<1> HIDE DEF r
<1>4. /\ r.pc \in {"idle", "list", "next", "retry"} /\ r.keys \subseteq r.event
      /\ r.pc = "next" => r.keys = r.event
      /\ r.pc # "list" /\ mode # "schedule"
      /\ r.watermark \in 0..Len(log) /\ r.highest \in 0..Len(log)
      /\ \A x \in 1..Len(log) : ~(x <= r.watermark) /\ ~(x <= r.highest)
      /\ \A f \in r.event : f \in 0..active /\ f < active
  <2>1. r.pc \in {"idle", "list", "next", "retry"} /\ r.pc # "list" /\ mode # "schedule"
    BY <1>3
  <2>2. r.keys \subseteq r.event /\ (r.pc = "next" => r.keys = r.event)
    BY <1>3
  <2>3. /\ r.watermark \in 0..Len(log) /\ r.highest \in 0..Len(log)
        /\ \A x \in 1..Len(log) : ~(x <= r.watermark) /\ ~(x <= r.highest)
    BY <1>1, <1>3
  <2>4. \A f \in r.event : f \in 0..active /\ f < active
    BY <1>3
  <2> QED  BY <2>1, <2>2, <2>3, <2>4
<1>5. Shape(mode, r, log, active) /\ Clear(vendor, r, log, acc, rej)
  BY <1>1, <1>3, <1>4, BlankFits
<1>6. Pending(r) = {} /\ r.keys \subseteq named
  BY <1>3, <1>4 DEF Pending
<1> QED  BY <1>3, <1>5, <1>6 DEF r

\* An S3 event names files that no event named before.
LEMMA NotifyKeeps ==
  ASSUME IInv, NEW i \in Runs, Notify(i)
  PROVE  IInv'
<1>1. PICK named \in SUBSET (0..(active - 1) \ notified) \ {{}}, key \in BOOLEAN :
        /\ FaultUnless(key) /\ notified' = notified \cup named
        /\ run' = [run EXCEPT ![i] = Begin(named, key)]
  BY DEF Notify
<1> DEFINE r == Begin(named, key)
<1>2. /\ UNCHANGED <<vendor, mode, log, active, checkpoint, accepted, rejected,
                     passedOver, repeats>>
      /\ Fault \/ UNCHANGED faults
      /\ mode # "schedule"
  BY <1>1 DEF Notify, FaultUnless, settings, ontap, histories, scheduled
<1>3. /\ LogOK(log, active) /\ Len(log) \in Nat /\ active \in Nat /\ mode = "event"
      /\ OnceInv(run, log, notified, accepted, repeats)
  BY <1>2, OfRun
<1>4. /\ named \in SUBSET (0..active) /\ named \cap notified = {}
      /\ \A f \in named : f < active
  BY <1>3
<1>5. /\ Shape(mode, r, log, active) /\ Clear(vendor, r, log, accepted, rejected)
      /\ r \in Run /\ r.event = named /\ r.keys \subseteq named /\ Pending(r) = {}
  BY <1>3, <1>4, BegunFits
<1>6. run' = [run EXCEPT ![i] = r]
  BY <1>1
<1> HIDE DEF r
<1>7. OnceStep(i, r)
  <2>1. \A x \in 1..Len(log) : x \in Records
    BY <1>3, Consts DEF LogOK, Records
  <2>2. \A x \in 1..Len(log) : log[x].file \in named => accepted[x] <= repeats
    BY <1>3, <1>4, <2>1 DEF OnceInv, Open
  <2>3. \A x \in Records : accepted[x] <= 1 + repeats
    BY <1>3 DEF OnceInv
  <2>4. repeats \in Nat
    BY DEF IInv
  <2> QED  BY <1>1, <1>2, <1>4, <1>5, <2>2, <2>3, <2>4 DEF OnceStep
<1>8. faults' \in 0..MaxFaults
  BY <1>2, Faulty
<1>9. Grows(accepted, accepted', passedOver, passedOver', rejected, rejected')
  BY <1>2 DEF Grows
<1>10. /\ notified' \subseteq 0..active
       /\ \A f \in notified' : f < active
  BY <1>1, <1>4 DEF IInv
<1>11. Moves(i, r)
  BY <1>1, <1>2, <1>3, <1>5, <1>6, <1>7, <1>8, <1>9, <1>10 DEF Moves, IInv
<1> QED  BY <1>11, MovesKeep

\* What a repetition allows: each record once more.
LEMMA RedeliverKeeps ==
  ASSUME IInv, NEW i \in Runs, Redeliver(i)
  PROVE  IInv'
<1> DEFINE named == run[i].event
<1> DEFINE r == Begin(named, TRUE)
<1>1. /\ run' = [run EXCEPT ![i] = r] /\ repeats' = repeats + 1 /\ run[i].pc = "retry"
      /\ UNCHANGED <<vendor, mode, log, active, notified, checkpoint, accepted, rejected,
                     passedOver, faults>>
  BY DEF Redeliver, settings, ontap
<1>2. Shape(mode, run[i], log, active)
  BY OfRun
<1>3. mode # "schedule"
  BY <1>1, <1>2 DEF Shape
<1>4. /\ LogOK(log, active) /\ Len(log) \in Nat /\ active \in Nat /\ mode = "event"
      /\ OnceInv(run, log, notified, accepted, repeats)
  BY <1>3, OfRun
<1>5. /\ named \in SUBSET (0..active)
      /\ \A f \in named : f < active
  BY <1>2, <1>3 DEF Shape
<1>6. TRUE \in BOOLEAN
  OBVIOUS
<1> HIDE DEF named
<1>7. /\ Shape(mode, r, log, active) /\ Clear(vendor, r, log, accepted, rejected)
      /\ r \in Run /\ r.event = named /\ r.keys \subseteq named /\ Pending(r) = {}
  BY <1>4, <1>5, <1>6, BegunFits
<1> HIDE DEF r
<1>8. OnceStep(i, r)
  <2>1. \A x \in 1..Len(log) : x \in Records
    BY <1>4, Consts DEF LogOK, Records
  <2>2. repeats \in Nat /\ repeats' \in Nat /\ repeats <= repeats'
    BY <1>1 DEF IInv
  <2>3. \A x \in Records : accepted[x] \in Nat /\ accepted[x] <= repeats'
    BY <1>1, <1>4, <2>2 DEF OnceInv, IInv
  <2>4. named \subseteq notified
    BY <1>4 DEF OnceInv, named
  <2>5. \A x \in Records : accepted'[x] <= 1 + repeats'
    BY <1>1, <2>2, <2>3
  <2> QED  BY <1>1, <1>7, <2>1, <2>2, <2>3, <2>4, <2>5 DEF OnceStep, named
<1>9. Grows(accepted, accepted', passedOver, passedOver', rejected, rejected')
  BY <1>1 DEF Grows
<1>10. Moves(i, r)
  BY <1>1, <1>4, <1>7, <1>8, <1>9 DEF Moves, IInv
<1> QED  BY <1>10, MovesKeep
-----------------------------------------------------------------------------
(* A file that is left, and the end of the loop.                           *)

\* What a count that is within the total says of its parts.
LEMMA CountParts ==
  ASSUME NEW n \in Nat, NEW r \in Run, Pending(r) \subseteq 1..n
  PROVE  /\ Cardinality(r.batch) \in Nat /\ Cardinality(r.todo) \in Nat
         /\ r.shipped \in Nat /\ r.sent \in Nat /\ r.total \in Nat
         /\ Cardinality(r.batch) = 0 <=> r.batch = {}
         /\ Cardinality(r.todo) = 0 <=> r.todo = {}
         /\ \A T \in SUBSET r.todo :
              Cardinality(T) \in Nat
              /\ Cardinality(r.todo \ T) + Cardinality(T) = Cardinality(r.todo)
<1>1. r.batch \subseteq 1..n /\ r.todo \subseteq 1..n
  BY DEF Pending
<1>2. \A T \in SUBSET r.todo : T \subseteq 1..n
  BY <1>1
<1>3. r.shipped \in Nat /\ r.sent \in Nat /\ r.total \in Nat
  BY DEF Run
<1> QED  BY <1>1, <1>2, <1>3, Counts

\* What Leave returns.
LEMMA LeaveFields ==
  ASSUME NEW q \in Run
  PROVE  LET r == Leave(q)
         IN  /\ r \in Run /\ r.pc = "next" /\ r.todo = {} /\ r.batch = {} /\ r.sent = 0
             /\ r.errors = TRUE /\ r.keys = IF scheduled THEN {} ELSE q.keys
             /\ r.event = q.event /\ r.watermark = q.watermark /\ r.highest = q.highest
             /\ r.newest = q.newest /\ r.total = q.total /\ r.shipped = q.shipped
<1>1. "next" \in Pcs /\ {} \in SUBSET Records /\ {} \in SUBSET Nat
      /\ 0 \in 0..(MaxRetries - 1) /\ 0 \in Nat /\ TRUE \in BOOLEAN
  BY DEF Pcs, MaxRetries
<1>2. q.keys \in SUBSET Nat
  BY DEF Run
<1> DEFINE keys == IF scheduled THEN {} ELSE q.keys
<1> DEFINE r == [q EXCEPT !.pc = "next", !.todo = {}, !.batch = {}, !.attempt = 0, !.sent = 0,
                          !.errors = TRUE, !.keys = keys]
<1>3. keys \in SUBSET Nat
  BY <1>1, <1>2
<1>4. Leave(q) = r
  BY DEF Leave
<1> HIDE DEF keys
<1>5. r \in Run
  BY <1>1, <1>3 DEF Run
<1>6. /\ r.pc = "next" /\ r.todo = {} /\ r.batch = {} /\ r.sent = 0
      /\ r.errors = TRUE /\ r.keys = keys
  BY DEF Run
<1>7. /\ r.event = q.event /\ r.watermark = q.watermark /\ r.highest = q.highest
      /\ r.newest = q.newest /\ r.total = q.total /\ r.shipped = q.shipped
  BY DEF Run
<1> QED  BY <1>4, <1>5, <1>6, <1>7 DEF keys

\* What is left of the file is lost to this invocation, and its result says so.
LEMMA LeaveFits ==
  ASSUME IInv, NEW i \in Runs, run[i].pc = "next" \/ run[i].pc = "send",
         NEW q \in Run, q.keys \subseteq run[i].keys, q.event = run[i].event,
         q.watermark = run[i].watermark, q.highest = run[i].highest,
         q.newest = run[i].newest, q.total = run[i].total, q.shipped = run[i].shipped
  PROVE  LET r == Leave(q)
         IN  /\ r \in Run /\ Pending(r) = {} /\ r.event = run[i].event
             /\ r.keys \subseteq run[i].keys /\ Shape(mode, r, log, active)
             /\ mode = "schedule" => Caught(vendor, r, log, accepted, passedOver)
             /\ \A acc, rej : Clear(vendor, r, log, acc, rej)
<1> DEFINE r == Leave(q)
<1>1. /\ r \in Run /\ r.pc = "next" /\ r.todo = {} /\ r.batch = {} /\ r.sent = 0
      /\ r.errors = TRUE /\ r.keys = IF scheduled THEN {} ELSE q.keys
      /\ r.event = q.event /\ r.watermark = q.watermark /\ r.highest = q.highest
      /\ r.newest = q.newest /\ r.total = q.total /\ r.shipped = q.shipped
  BY LeaveFields
<1> HIDE DEF r
<1>2. /\ LogOK(log, active) /\ Len(log) \in Nat /\ active \in Nat
      /\ Shape(mode, run[i], log, active) /\ run[i] \in Run
      /\ mode = "schedule" => Caught(vendor, run[i], log, accepted, passedOver)
  BY OfRun
<1>3. Pending(r) = {} /\ r.keys \subseteq run[i].keys
  BY <1>1 DEF Pending
<1>4. Count(r) <= r.total
  <2>1. Count(r) = r.shipped + 0 + 0 + 0
    BY <1>1, EmptyCount DEF Count
  <2>2. /\ Cardinality(run[i].batch) \in Nat /\ Cardinality(run[i].todo) \in Nat
        /\ run[i].shipped \in Nat /\ run[i].sent \in Nat /\ run[i].total \in Nat
    BY <1>2, CountParts DEF Shape
  <2>3. Count(run[i]) <= run[i].total
    BY <1>2 DEF Shape
  <2> QED  BY <1>1, <2>1, <2>2, <2>3 DEF Count
<1>5. Shape(mode, r, log, active)
  <2>1. mode = "schedule" => r.event = {} /\ r.pc \notin {"retry", "done"}
    BY <1>1, <1>2 DEF Shape
  <2>2. mode # "schedule" => /\ r.pc # "list" /\ r.keys \subseteq r.event
                             /\ \A f \in r.event : f \in 0..active /\ f < active
    BY <1>1, <1>2, <1>3 DEF Shape
  <2>3. r.keys \subseteq 0..active /\ {r.watermark, r.highest, r.newest} \subseteq 0..Len(log)
    BY <1>1, <1>2, <1>3 DEF Shape
  <2> QED  BY <1>1, <1>3, <1>4, <2>1, <2>2, <2>3 DEF Shape
<1>6. mode = "schedule" => Caught(vendor, r, log, accepted, passedOver)
  BY <1>1, <1>2 DEF Caught, scheduled
<1>7. \A acc, rej : Clear(vendor, r, log, acc, rej)
  BY <1>1 DEF Clear, Excused
<1> QED  BY <1>1, <1>3, <1>5, <1>6, <1>7 DEF r

\* A file that cannot be read is left.
LEMMA ReadFailsKeeps ==
  ASSUME IInv, NEW i \in Runs, NEW f, ReadFails(i, f)
  PROVE  IInv'
<1> DEFINE q == [run[i] EXCEPT !.keys = @ \ {f}]
<1> DEFINE r == Leave(q)
<1>1. /\ run' = [run EXCEPT ![i] = r] /\ run[i].pc = "next" /\ Fault
      /\ UNCHANGED <<settings, ontap, notified, checkpoint, histories>>
  BY DEF ReadFails, AtKey
<1>2. run[i] \in Run
  BY OfRun
<1>3. /\ q \in Run /\ q.keys \subseteq run[i].keys /\ q.event = run[i].event
      /\ q.watermark = run[i].watermark /\ q.highest = run[i].highest
      /\ q.newest = run[i].newest /\ q.total = run[i].total /\ q.shipped = run[i].shipped
  BY <1>2 DEF Run
<1> HIDE DEF q
<1>4. /\ r \in Run /\ Pending(r) = {} /\ r.event = run[i].event
      /\ r.keys \subseteq run[i].keys /\ Shape(mode, r, log, active)
      /\ mode = "schedule" => Caught(vendor, r, log, accepted, passedOver)
      /\ \A acc, rej : Clear(vendor, r, log, acc, rej)
  BY <1>1, <1>3, LeaveFits
<1> HIDE DEF r
<1>5. Quiet(i, r)
  BY <1>1, <1>4 DEF Quiet
<1> QED  BY <1>5, QuietKeeps

\* Time runs out before the next key.
LEMMA StopEarlyKeeps ==
  ASSUME IInv, NEW i \in Runs, StopEarly(i)
  PROVE  IInv'
<1> DEFINE r == [run[i] EXCEPT !.keys = {}]
<1>0. /\ run \in [Runs -> Run] /\ run[i] \in Run
      /\ Shape(mode, run[i], log, active)
  BY OfRun
<1>1. /\ run' = [run EXCEPT ![i] = r] /\ run[i].pc = "next" /\ Fault /\ mode = "schedule"
      /\ UNCHANGED <<settings, ontap, notified, checkpoint, histories>>
  BY <1>0 DEF StopEarly, scheduled, Run
<1>2. Caught(vendor, run[i], log, accepted, passedOver)
  BY <1>1, OfRun
<1>3. /\ r \in Run /\ r.pc = "next" /\ r.keys = {} /\ r.event = run[i].event
      /\ r.todo = run[i].todo /\ r.batch = run[i].batch /\ r.sent = run[i].sent
      /\ r.total = run[i].total /\ r.shipped = run[i].shipped
      /\ r.watermark = run[i].watermark /\ r.highest = run[i].highest
      /\ r.newest = run[i].newest
  BY <1>0, <1>1 DEF Run
<1> HIDE DEF r
<1>4. Shape(mode, r, log, active)
  BY <1>0, <1>1, <1>3 DEF Shape, Pending, Count
<1>5. Caught(vendor, r, log, accepted, passedOver)
  BY <1>2, <1>3 DEF Caught
<1>6. Quiet(i, r)
  BY <1>1, <1>3, <1>4, <1>5 DEF Quiet
<1> QED  BY <1>6, QuietKeeps

\* A file the parser raises on is covered: the correlator says it passes it over.
LEMMA PassOverKeeps ==
  ASSUME IInv, NEW i \in Runs, NEW f \in 0..active, PassOver(i, f)
  PROVE  IInv'
<1> DEFINE keys == run[i].keys \ {f}
<1> DEFINE r == [run[i] EXCEPT !.keys = keys]
<1>0. /\ run \in [Runs -> Run] /\ run[i] \in Run /\ LogOK(log, active)
      /\ Shape(mode, run[i], log, active)
  BY OfRun
<1>1. /\ run' = [run EXCEPT ![i] = r] /\ run[i].pc = "next" /\ Fault /\ mode = "schedule"
      /\ passedOver' = passedOver \cup {f}
      /\ UNCHANGED <<vendor, mode, log, active, notified, checkpoint, accepted, rejected, repeats>>
  BY <1>0 DEF PassOver, AtKey, scheduled, Run, settings, ontap
<1>2. Caught(vendor, run[i], log, accepted, passedOver)
  BY <1>1, OfRun
<1>3. /\ r \in Run /\ r.pc = "next" /\ r.keys = keys /\ r.event = run[i].event
      /\ r.todo = run[i].todo /\ r.batch = run[i].batch /\ r.sent = run[i].sent
      /\ r.total = run[i].total /\ r.shipped = run[i].shipped
      /\ r.watermark = run[i].watermark /\ r.highest = run[i].highest
      /\ r.newest = run[i].newest
  BY <1>0, <1>1 DEF Run
<1> HIDE DEF r
<1>4. Shape(mode, r, log, active)
  BY <1>0, <1>1, <1>3 DEF Shape, Pending, Count
<1>5. Grows(accepted, accepted', passedOver, passedOver', rejected, rejected')
  BY <1>1 DEF Grows
<1>6. /\ \A x \in 1..Len(log) : Covered(vendor, log, accepted, passedOver, x)
                              => Covered(vendor, log, accepted, passedOver', x)
      /\ Caught(vendor, run[i], log, accepted, passedOver')
  BY <1>0, <1>1, <1>2, <1>5, CaughtStays
<1>7. Caught(vendor, r, log, accepted, passedOver')
  <2>1. \A x \in 1..Len(log) : log[x].file = f => Covered(vendor, log, accepted, passedOver', x)
    BY <1>1 DEF Covered
  <2> QED  BY <1>1, <1>3, <1>6, <2>1 DEF Caught, Pending
<1>8. \A x \in 1..checkpoint : Covered(vendor, log, accepted, passedOver', x)
  <2>1. \A x \in 1..checkpoint : x \in 1..Len(log)
    BY <1>0, OfRun DEF IInv
  <2>2. \A x \in 1..checkpoint : Covered(vendor, log, accepted, passedOver, x)
    BY <1>1, OfRun
  <2> QED  BY <1>6, <2>1, <2>2
<1>9. faults' \in 0..MaxFaults
  BY <1>1, Faulty
<1>10. mode # "event"
  BY <1>1
<1>11. Moves(i, r)
  BY <1>1, <1>3, <1>4, <1>5, <1>7, <1>8, <1>9, <1>10 DEF Moves, IInv
<1> QED  BY <1>11, MovesKeep

\* An all clear has no errors.
LEMMA ReportKeeps ==
  ASSUME IInv, NEW i \in Runs, Report(i)
  PROVE  IInv'
<1> DEFINE st == Status(run[i])
<1> DEFINE r == [run[i] EXCEPT !.pc = "done", !.status = st]
<1>0. /\ run \in [Runs -> Run] /\ run[i] \in Run
      /\ Shape(mode, run[i], log, active)
  BY OfRun
<1>1. /\ run' = [run EXCEPT ![i] = r] /\ run[i].pc = "next" /\ run[i].keys = {}
      /\ mode # "schedule"
      /\ UNCHANGED <<settings, ontap, notified, checkpoint, histories, faults>>
  BY <1>0 DEF Report, scheduled, Run
<1>2. mode = "event" /\ Clear(vendor, run[i], log, accepted, rejected)
      /\ OnceInv(run, log, notified, accepted, repeats)
  BY <1>1, OfRun
<1>3. st \in {0, 200, 207, 502} /\ (st = 200 => ~run[i].errors)
  BY DEF Status
<1> HIDE DEF st
<1>4. /\ r \in Run /\ r.pc = "done" /\ r.status = st /\ r.keys = {} /\ r.event = run[i].event
      /\ r.todo = run[i].todo /\ r.batch = run[i].batch /\ r.sent = run[i].sent
      /\ r.total = run[i].total /\ r.shipped = run[i].shipped
      /\ r.watermark = run[i].watermark /\ r.highest = run[i].highest
      /\ r.newest = run[i].newest /\ r.errors = run[i].errors
  <2>1. "done" \in Pcs
    BY DEF Pcs
  <2>2. r \in Run
    <3> DEFINE p == [run[i] EXCEPT !.pc = "done"]
    <3>1. p \in Run
      BY <1>0, <2>1 DEF Run
    <3>2. r = [p EXCEPT !.status = st]
      BY <1>0 DEF Run
    <3> HIDE DEF p, r
    <3> QED  BY <1>3, <3>1, <3>2 DEF Run
  <2>3. /\ r.pc = "done" /\ r.status = st /\ r.keys = run[i].keys /\ r.event = run[i].event
        /\ r.todo = run[i].todo /\ r.batch = run[i].batch /\ r.sent = run[i].sent
    BY <1>0 DEF Run
  <2>4. /\ r.total = run[i].total /\ r.shipped = run[i].shipped
        /\ r.watermark = run[i].watermark /\ r.highest = run[i].highest
        /\ r.newest = run[i].newest /\ r.errors = run[i].errors
    BY <1>0 DEF Run
  <2> QED  BY <1>1, <2>2, <2>3, <2>4
<1> HIDE DEF r
<1>5. r.todo = {} /\ r.batch = {} /\ Pending(r) = {} /\ Pending(run[i]) = {}
      /\ Count(r) = Count(run[i])
  BY <1>0, <1>1, <1>4 DEF Shape, Pending, Count
<1>6. Shape(mode, r, log, active)
  BY <1>0, <1>1, <1>4, <1>5 DEF Shape
<1>7. Clear(vendor, r, log, accepted, rejected)
  <2>1. Excused(vendor, run[i]) => Excused(vendor, r)
    BY <1>1, <1>4, <1>5 DEF Excused
  <2>2. r.status = 200 => ~r.errors
    BY <1>3, <1>4
  <2> QED  BY <1>1, <1>2, <1>4, <1>5, <2>1, <2>2 DEF Clear
<1>8. Quiet(i, r)
  BY <1>1, <1>2, <1>4, <1>5, <1>6, <1>7 DEF Quiet
<1> QED  BY <1>8, QuietKeeps

\* The checkpoint is a watermark that is covered.
LEMMA SaveKeeps ==
  ASSUME IInv, NEW i \in Runs, Save(i)
  PROVE  IInv'
<1>0. /\ run \in [Runs -> Run] /\ run[i] \in Run /\ LogOK(log, active) /\ Len(log) \in Nat
      /\ active \in Nat /\ Shape(mode, run[i], log, active)
  BY OfRun
<1>1. /\ run' = [run EXCEPT ![i] = IdleRun] /\ mode = "schedule"
      /\ UNCHANGED <<vendor, mode, log, active, notified, accepted, rejected, passedOver, repeats>>
      /\ Fault \/ UNCHANGED faults
      /\ checkpoint' = checkpoint \/ checkpoint' = run[i].highest
  BY DEF Save, scheduled, settings, ontap, histories
<1>2. /\ Caught(vendor, run[i], log, accepted, passedOver)
      /\ \A x \in 1..checkpoint : Covered(vendor, log, accepted, passedOver, x)
  BY <1>1, OfRun
<1>3. run[i].highest \in 0..Len(log)
  BY <1>0 DEF Shape
<1>4. checkpoint' \in 0..Len(log)
  BY <1>1, <1>3 DEF IInv
<1>5. \A x \in 1..checkpoint' : Covered(vendor, log, accepted, passedOver, x)
  <2>1. \A x \in 1..run[i].highest : x \in 1..Len(log) /\ x <= run[i].highest
    BY <1>0, <1>3
  <2>2. \A x \in 1..run[i].highest : Covered(vendor, log, accepted, passedOver, x)
    BY <1>2, <2>1 DEF Caught
  <2> QED  BY <1>1, <1>2, <2>2
<1>6. /\ Shape(mode, IdleRun, log, active)
      /\ mode = "schedule" => Caught(vendor, IdleRun, log, accepted, passedOver)
  <2>1. /\ IdleRun.pc \in {"idle", "list", "next", "retry"} /\ IdleRun.keys \subseteq IdleRun.event
        /\ IdleRun.pc # "next" /\ IdleRun.pc # "list" /\ IdleRun.pc # "retry"
        /\ \A f \in IdleRun.event : f \in 0..active /\ f < active
    BY IdleFields
  <2>2. /\ IdleRun.watermark \in 0..Len(log) /\ IdleRun.highest \in 0..Len(log)
        /\ \A x \in 1..Len(log) : ~(x <= IdleRun.watermark) /\ ~(x <= IdleRun.highest)
    BY <1>0, IdleFields
  <2> QED  BY <1>0, <2>1, <2>2, IdleFields, BlankFits
<1>7. Grows(accepted, accepted', passedOver, passedOver', rejected, rejected')
  BY <1>1 DEF Grows
<1>8. faults' \in 0..MaxFaults /\ mode # "event"
  BY <1>1, Faulty
<1>9. Moves(i, IdleRun)
  BY <1>1, <1>4, <1>5, <1>6, <1>7, <1>8, IdleFields DEF Moves, IInv
<1> QED  BY <1>9, MovesKeep
-----------------------------------------------------------------------------
(* Sending.                                                                *)

\* The tables name an intake and a handler for every integration.
LEMMA TablesFit ==
  ASSUME Settings(mode, vendor)
  PROVE  /\ intake.batches \in {"items", "bytes", "file"}
         /\ mode = "schedule" => intake.raises = {}
<1>1. CASE mode = "event"
  <2>1. vendor \in {"splunk", "newrelic", "elastic", "honeycomb", "dynatrace", "sumologic",
                    "otel", "datadog", "grafana", "crowdstrike"}
    BY <1>1 DEF Settings, Handlers
  <2>2. intake \in {SplunkSend, NewRelicIntake, ElasticIntake, HoneycombIntake, DynatraceIntake,
                    SumoLogicIntake, OtelIntake, DatadogIntake, GrafanaIntake, CrowdstrikeIntake}
    BY <2>1 DEF intake, Intakes
  <2>3. intake.batches \in {"items", "bytes", "file"}
    BY <2>2 DEF SplunkSend, NewRelicIntake, ElasticIntake, HoneycombIntake, DynatraceIntake,
                SumoLogicIntake, OtelIntake, DatadogIntake, GrafanaIntake, CrowdstrikeIntake,
                Intake
  <2> QED  BY <1>1, <2>3
<1>2. CASE mode = "schedule"
  <2>1. vendor \in {"grafana", "crowdstrike", "amplify"}
    BY <1>2 DEF Settings, Loops
  <2>2. intake \in {AmplifyEmit, GrafanaIntake, CrowdstrikeIntake}
    BY <2>1 DEF intake, Intakes
  <2>3. intake.batches = "file" /\ intake.raises = {}
    BY <2>2 DEF AmplifyEmit, GrafanaIntake, CrowdstrikeIntake, Intake
  <2> QED  BY <2>3
<1> QED  BY <1>1, <1>2 DEF Settings

\* A batch is a part of what is to be sent.
LEMMA BatchOfTodo ==
  ASSUME Settings(mode, vendor), NEW todo, NEW b \in Batches(todo)
  PROVE  b \subseteq todo
<1>1. \A p \in Prefixes(todo) : p \subseteq todo
  BY DEF Prefixes
<1>2. CASE intake.batches = "items"
  BY <1>1, <1>2 DEF Batches
<1>3. CASE intake.batches = "bytes"
  BY <1>1, <1>3 DEF Batches
<1>4. CASE intake.batches = "file"
  BY <1>4 DEF Batches
<1> QED  BY <1>2, <1>3, <1>4, TablesFit

\* What is taken for a batch is still pending.
LEMMA TakeBatchKeeps ==
  ASSUME IInv, NEW i \in Runs, TakeBatch(i)
  PROVE  IInv'
<1>0. /\ run \in [Runs -> Run] /\ run[i] \in Run /\ LogOK(log, active) /\ Len(log) \in Nat
      /\ Shape(mode, run[i], log, active)
  BY OfRun
<1>1. PICK b \in Batches(run[i].todo) :
        run' = [run EXCEPT ![i].batch = b, ![i].attempt = 0, ![i].todo = @ \ b]
  BY DEF TakeBatch
<1> DEFINE rest == run[i].todo \ b
<1> DEFINE r == [run[i] EXCEPT !.batch = b, !.attempt = 0, !.todo = rest]
<1>2. /\ run' = [run EXCEPT ![i] = r] /\ run[i].pc = "send" /\ run[i].batch = {}
      /\ UNCHANGED <<settings, ontap, notified, checkpoint, histories, faults>>
  <2> DEFINE q1 == [run[i] EXCEPT !.batch = b]
  <2> DEFINE q2 == [q1 EXCEPT !.attempt = 0]
  <2> DEFINE q3 == [q2 EXCEPT !.todo = @ \ b]
  <2>1. [run EXCEPT ![i].batch = b, ![i].attempt = 0, ![i].todo = @ \ b]
          = [run EXCEPT ![i] = q3]
    BY <1>0
  <2>2. q3 = r
    BY <1>0 DEF Run
  <2> HIDE DEF q3, r
  <2>3. run' = [run EXCEPT ![i] = r]
    BY <1>1, <2>1, <2>2
  <2> QED  BY <2>3 DEF TakeBatch
<1>3. b \subseteq run[i].todo
  BY BatchOfTodo DEF IInv
<1>4. b \in SUBSET Records /\ rest \in SUBSET Records /\ 0 \in 0..(MaxRetries - 1)
  BY <1>0, <1>3 DEF Run, MaxRetries
<1> DEFINE todo == rest
<1> HIDE DEF rest
<1>5. r \in Run
  BY <1>0, <1>4 DEF Run
<1>6. /\ r.pc = "send" /\ r.keys = run[i].keys /\ r.event = run[i].event
      /\ r.todo = rest /\ r.batch = b /\ r.sent = run[i].sent
      /\ r.total = run[i].total /\ r.shipped = run[i].shipped
  BY <1>0, <1>2 DEF Run
<1>7. /\ r.watermark = run[i].watermark /\ r.highest = run[i].highest
      /\ r.newest = run[i].newest /\ r.errors = run[i].errors /\ r.failed = run[i].failed
  BY <1>0 DEF Run
<1> HIDE DEF r
<1>8. Pending(r) = Pending(run[i]) /\ r.todo \cap r.batch = {}
  BY <1>2, <1>3, <1>6 DEF Pending, rest
<1>9. Count(r) = Count(run[i])
  <2>1. /\ Cardinality(b) \in Nat
        /\ Cardinality(rest) + Cardinality(b) = Cardinality(run[i].todo)
        /\ Cardinality(run[i].todo) \in Nat /\ run[i].shipped \in Nat /\ run[i].sent \in Nat
    BY <1>0, <1>3, CountParts DEF Shape, rest
  <2>2. Cardinality(rest) \in Nat
    <3>1. rest \in SUBSET run[i].todo
      BY DEF rest
    <3> QED  BY <1>0, <3>1, CountParts DEF Shape
  <2>3. Cardinality(run[i].batch) = 0
    BY <1>2, EmptyCount
  <2> QED  BY <1>6, <2>1, <2>2, <2>3 DEF Count
<1>10. Shape(mode, r, log, active)
  BY <1>0, <1>2, <1>5, <1>6, <1>7, <1>8, <1>9 DEF Shape
<1>11. mode = "schedule" => Caught(vendor, r, log, accepted, passedOver)
  BY <1>2, <1>6, <1>7, <1>8, OfRun DEF Caught
<1>12. mode = "event" => Clear(vendor, r, log, accepted, rejected)
  <2>1. Excused(vendor, run[i]) => Excused(vendor, r)
    BY <1>2, <1>6, <1>7, <1>9 DEF Excused
  <2> QED  BY <1>2, <1>6, <1>8, <2>1, OfRun DEF Clear
<1>13. mode = "event" => \A x \in Pending(r) :
          /\ x \in Pending(run[i]) /\ log[x].file \in r.event /\ log[x].file \notin r.keys
  BY <1>6, <1>8, OfRun DEF OnceInv
<1>14. Quiet(i, r)
  BY <1>2, <1>5, <1>6, <1>10, <1>11, <1>12, <1>13 DEF Quiet
<1> QED  BY <1>14, QuietKeeps

\* The end of a file: all of it was accepted, or its result says so.
LEMMA EndFileKeeps ==
  ASSUME IInv, NEW i \in Runs, EndFile(i)
  PROVE  IInv'
<1>0. /\ run \in [Runs -> Run] /\ run[i] \in Run /\ LogOK(log, active) /\ Len(log) \in Nat
      /\ Shape(mode, run[i], log, active)
      /\ mode = "schedule" => Caught(vendor, run[i], log, accepted, passedOver)
      /\ mode = "event" => /\ Clear(vendor, run[i], log, accepted, rejected)
                           /\ OnceInv(run, log, notified, accepted, repeats)
  BY OfRun
<1>1. /\ run[i].pc = "send" /\ run[i].batch = {} /\ run[i].todo = {}
      /\ UNCHANGED <<settings, ontap, notified, checkpoint, histories, faults>>
  BY DEF EndFile
<1>2. CASE run[i].failed /\ (scheduled \/ handler.failedSend = "error")
  <2> DEFINE r == Leave(run[i])
  <2>1. run' = [run EXCEPT ![i] = r]
    BY <1>2 DEF EndFile
  <2>2. /\ r \in Run /\ Pending(r) = {} /\ r.event = run[i].event
        /\ r.keys \subseteq run[i].keys /\ Shape(mode, r, log, active)
        /\ mode = "schedule" => Caught(vendor, r, log, accepted, passedOver)
        /\ \A acc, rej : Clear(vendor, r, log, acc, rej)
    BY <1>0, <1>1, LeaveFits
  <2> HIDE DEF r
  <2>3. Quiet(i, r)
    BY <1>1, <2>1, <2>2 DEF Quiet
  <2> QED  BY <2>3, QuietKeeps
<1>3. CASE ~(run[i].failed /\ (scheduled \/ handler.failedSend = "error"))
  <2> DEFINE shipped == run[i].shipped + run[i].sent
  <2> DEFINE r == [run[i] EXCEPT !.pc = "next", !.shipped = shipped, !.sent = 0,
                                 !.highest = run[i].newest]
  <2>1. run' = [run EXCEPT ![i] = r]
    BY <1>0, <1>3 DEF EndFile, Run
  <2>2. shipped \in Nat /\ run[i].newest \in Nat /\ "next" \in Pcs
        /\ run[i].shipped \in Nat /\ run[i].sent \in Nat
    BY <1>0 DEF Run, Pcs
  <2> HIDE DEF shipped
  <2>3. r \in Run
    BY <1>0, <2>2 DEF Run
  <2>4. /\ r.pc = "next" /\ r.keys = run[i].keys /\ r.event = run[i].event
        /\ r.todo = {} /\ r.batch = {} /\ r.sent = 0 /\ r.shipped = shipped
        /\ r.total = run[i].total
    BY <1>0, <1>1 DEF Run
  <2>5. /\ r.watermark = run[i].watermark /\ r.highest = run[i].newest
        /\ r.newest = run[i].newest /\ r.errors = run[i].errors /\ r.failed = run[i].failed
    BY <1>0 DEF Run
  <2> HIDE DEF r
  <2>6. Pending(r) = {} /\ Pending(run[i]) = {} /\ Count(r) = Count(run[i])
    BY <1>1, <2>2, <2>4, EmptyCount DEF Pending, Count, shipped
  <2>7. Shape(mode, r, log, active)
    BY <1>0, <1>1, <2>3, <2>4, <2>5, <2>6 DEF Shape
  <2>8. mode = "schedule" => Caught(vendor, r, log, accepted, passedOver)
    <3> SUFFICES ASSUME mode = "schedule" PROVE Caught(vendor, r, log, accepted, passedOver)
      OBVIOUS
    <3>1. ~run[i].failed /\ Caught(vendor, run[i], log, accepted, passedOver)
      BY <1>0, <1>3 DEF scheduled
    <3> QED  BY <1>1, <2>4, <2>5, <2>6, <3>1 DEF Caught
  <2>9. mode = "event" => Clear(vendor, r, log, accepted, rejected)
    <3>1. Excused(vendor, run[i]) => Excused(vendor, r)
      BY <1>1, <1>3, <2>4, <2>5, <2>6 DEF Excused, handler
    <3> QED  BY <1>0, <1>1, <2>4, <2>6, <3>1 DEF Clear
  <2>10. Quiet(i, r)
    BY <1>1, <2>1, <2>3, <2>4, <2>6, <2>7, <2>8, <2>9 DEF Quiet
  <2> QED  BY <2>10, QuietKeeps
<1> QED  BY <1>2, <1>3
\* What one attempt does to the accepted records of an event: one that was sent
\* is accepted once more than before at most, and none that was not sent.
LEMMA AcceptStep ==
  ASSUME IInv, mode = "event", NEW i \in Runs, NEW kept, kept \subseteq run[i].batch,
         accepted' = [x \in Records |-> IF x \notin kept THEN accepted[x] ELSE accepted[x] + 1]
  PROVE  /\ accepted' \in [Records -> Nat]
         /\ \A x \in Records : accepted[x] > 0 => accepted'[x] > 0
         /\ \A x \in Records : x \notin kept => accepted'[x] = accepted[x]
         /\ \A x \in Records : x \in Pending(run[i]) => accepted[x] <= repeats
         /\ \A x \in Records : accepted'[x] <= 1 + repeats
         /\ \A x \in 1..Len(log) : log[x].file \in run[i].keys => accepted'[x] <= repeats
         /\ \A x \in kept : x \in Records /\ accepted'[x] > 0
<1>1. /\ LogOK(log, active) /\ Len(log) \in Nat /\ Shape(mode, run[i], log, active)
      /\ OnceInv(run, log, notified, accepted, repeats) /\ run[i] \in Run
  BY OfRun
<1>2. accepted \in [Records -> Nat] /\ repeats \in Nat
  BY DEF IInv
<1>3. /\ \A x \in Records : x \notin kept => accepted'[x] = accepted[x]
      /\ \A x \in Records : x \in kept => accepted'[x] = accepted[x] + 1
      /\ accepted' \in [Records -> Nat]
  BY <1>2
<1>4. \A x \in Records : accepted[x] > 0 => accepted'[x] > 0
  BY <1>2, <1>3
<1>5. kept \subseteq Pending(run[i]) /\ kept \subseteq Records
  BY <1>1 DEF Pending, Run
<1>6. \A x \in Records : x \in Pending(run[i]) => accepted[x] <= repeats
  BY <1>1 DEF OnceInv, Open
<1>7. \A x \in Records : accepted'[x] <= 1 + repeats
  <2> SUFFICES ASSUME NEW x \in Records PROVE accepted'[x] <= 1 + repeats
    OBVIOUS
  <2>1. CASE x \in kept
    <3>1. accepted[x] <= repeats /\ accepted[x] \in Nat
      BY <1>2, <1>5, <1>6, <2>1
    <3> QED  BY <1>2, <1>3, <2>1, <3>1
  <2>2. CASE x \notin kept
    BY <1>1, <1>3, <2>2 DEF OnceInv
  <2> QED  BY <2>1, <2>2
<1>8. \A x \in 1..Len(log) : log[x].file \in run[i].keys => accepted'[x] <= repeats
  <2> SUFFICES ASSUME NEW x \in 1..Len(log), log[x].file \in run[i].keys
               PROVE  accepted'[x] <= repeats
    OBVIOUS
  <2>1. x \in Records
    BY <1>1, Consts DEF LogOK, Records
  <2>2. x \notin kept
    BY <1>1, <1>5 DEF OnceInv
  <2>3. accepted[x] <= repeats
    BY <1>1, <2>1 DEF OnceInv, Open
  <2> QED  BY <1>3, <2>1, <2>2, <2>3
<1>9. \A x \in kept : x \in Records /\ accepted'[x] > 0
  BY <1>2, <1>3, <1>5
<1> QED  BY <1>3, <1>4, <1>6, <1>7, <1>8, <1>9

\* The invocation after an attempt: it tries again, or the batch is done with.
Tried(q) == [q EXCEPT !.attempt = @ + 1]
DoneWith(q, ok) ==
  [q EXCEPT !.batch = {}, !.attempt = 0, !.sent = IF ok THEN @ + Cardinality(q.batch) ELSE @,
            !.failed = @ \/ ~ok]

\* What another attempt changes.
LEMMA TriedFields ==
  ASSUME NEW q \in Run, q.attempt < MaxRetries - 1
  PROVE  LET r == Tried(q)
         IN  /\ r \in Run /\ r.pc = q.pc /\ r.keys = q.keys /\ r.event = q.event
             /\ r.todo = q.todo /\ r.batch = q.batch /\ r.sent = q.sent
             /\ r.total = q.total /\ r.shipped = q.shipped /\ r.errors = q.errors
             /\ r.watermark = q.watermark /\ r.highest = q.highest /\ r.newest = q.newest
             /\ r.failed = q.failed
<1> DEFINE attempt == q.attempt + 1
<1> DEFINE r == [q EXCEPT !.attempt = attempt]
<1>1. attempt \in 0..(MaxRetries - 1)
  BY DEF Run, MaxRetries
<1>2. Tried(q) = r
  BY DEF Tried
<1> HIDE DEF attempt
<1>3. r \in Run
  BY <1>1 DEF Run
<1>4. /\ r.pc = q.pc /\ r.keys = q.keys /\ r.event = q.event
      /\ r.todo = q.todo /\ r.batch = q.batch /\ r.sent = q.sent
      /\ r.total = q.total /\ r.shipped = q.shipped /\ r.errors = q.errors
  BY DEF Run
<1>5. /\ r.watermark = q.watermark /\ r.highest = q.highest /\ r.newest = q.newest
      /\ r.failed = q.failed
  BY DEF Run
<1> QED  BY <1>2, <1>3, <1>4, <1>5

\* What the last attempt changes.
LEMMA DoneFields ==
  ASSUME NEW n \in Nat, NEW q \in Run, Pending(q) \subseteq 1..n, NEW ok \in BOOLEAN
  PROVE  LET r == DoneWith(q, ok)
         IN  /\ r \in Run /\ r.pc = q.pc /\ r.keys = q.keys /\ r.event = q.event
             /\ r.todo = q.todo /\ r.batch = {}
             /\ r.total = q.total /\ r.shipped = q.shipped /\ r.errors = q.errors
             /\ r.watermark = q.watermark /\ r.highest = q.highest /\ r.newest = q.newest
             /\ r.failed = (q.failed \/ ~ok)
             /\ Pending(r) = q.todo
             /\ Count(r) <= Count(q) /\ Count(r) \in Nat /\ Count(q) \in Nat
             /\ ~ok /\ q.batch # {} => Count(r) < Count(q)
<1> DEFINE sent == IF ok THEN q.sent + Cardinality(q.batch) ELSE q.sent
<1> DEFINE failed == q.failed \/ ~ok
<1> DEFINE r == [q EXCEPT !.batch = {}, !.attempt = 0, !.sent = sent, !.failed = failed]
<1>0. /\ Cardinality(q.batch) \in Nat /\ Cardinality(q.todo) \in Nat
      /\ q.shipped \in Nat /\ q.sent \in Nat
      /\ Cardinality(q.batch) = 0 <=> q.batch = {}
  BY CountParts
<1>1. /\ sent \in Nat /\ failed \in BOOLEAN /\ {} \in SUBSET Records
      /\ 0 \in 0..(MaxRetries - 1)
  BY <1>0 DEF MaxRetries
<1>2. DoneWith(q, ok) = r
  BY DEF DoneWith
<1> HIDE DEF sent, failed
<1>3. r \in Run
  BY <1>1 DEF Run
<1>4. /\ r.pc = q.pc /\ r.keys = q.keys /\ r.event = q.event
      /\ r.todo = q.todo /\ r.batch = {} /\ r.sent = sent
      /\ r.total = q.total /\ r.shipped = q.shipped /\ r.errors = q.errors
  BY DEF Run
<1>5. /\ r.watermark = q.watermark /\ r.highest = q.highest /\ r.newest = q.newest
      /\ r.failed = failed
  BY DEF Run
<1> HIDE DEF r
<1>6. Pending(r) = q.todo
  BY <1>4 DEF Pending
<1>7. /\ Count(r) = q.shipped + sent + 0 + Cardinality(q.todo)
      /\ Count(q) = q.shipped + q.sent + Cardinality(q.batch) + Cardinality(q.todo)
  BY <1>4, EmptyCount DEF Count
<1>8. Count(r) <= Count(q) /\ Count(r) \in Nat /\ Count(q) \in Nat
  BY <1>0, <1>7 DEF sent
<1>9. ~ok /\ q.batch # {} => Count(r) < Count(q)
  BY <1>0, <1>7 DEF sent
<1> QED  BY <1>2, <1>3, <1>4, <1>5, <1>6, <1>8, <1>9 DEF failed

\* What an attempt must leave of the invocation.
PostTo(i, r, acc2, rej2) ==
  /\ r \in Run /\ Shape(mode, r, log, active)
  /\ Pending(r) \subseteq Pending(run[i]) /\ r.keys = run[i].keys /\ r.event = run[i].event
  /\ mode = "schedule" => Caught(vendor, r, log, acc2, passedOver)
  /\ mode = "event" => Clear(vendor, r, log, acc2, rej2)

\* The attempt is repeated.
LEMMA TriedFits ==
  ASSUME IInv, NEW i \in Runs, run[i].pc = "send", run[i].attempt < MaxRetries - 1,
         NEW acc2, NEW rej2,
         Grows(accepted, acc2, passedOver, passedOver, rejected, rej2)
  PROVE  PostTo(i, Tried(run[i]), acc2, rej2)
<1> DEFINE q == run[i]
<1> DEFINE r == Tried(q)
<1>1. /\ q \in Run /\ LogOK(log, active) /\ Shape(mode, q, log, active)
      /\ mode = "schedule" => Caught(vendor, q, log, accepted, passedOver)
      /\ mode = "event" => Clear(vendor, q, log, accepted, rejected)
  BY OfRun
<1>2. /\ r \in Run /\ r.pc = q.pc /\ r.keys = q.keys /\ r.event = q.event
      /\ r.todo = q.todo /\ r.batch = q.batch /\ r.sent = q.sent
      /\ r.total = q.total /\ r.shipped = q.shipped /\ r.errors = q.errors
      /\ r.watermark = q.watermark /\ r.highest = q.highest /\ r.newest = q.newest
      /\ r.failed = q.failed
  BY <1>1, TriedFields
<1>3. /\ mode = "schedule" => Caught(vendor, q, log, acc2, passedOver)
      /\ mode = "event" => Clear(vendor, q, log, acc2, rej2)
  BY <1>1, CaughtStays
<1> HIDE DEF q, r
<1>4. Pending(r) = Pending(q) /\ Count(r) = Count(q)
  BY <1>2 DEF Pending, Count
<1>5. Shape(mode, r, log, active)
  BY <1>1, <1>2, <1>4 DEF Shape
<1>6. mode = "schedule" => Caught(vendor, r, log, acc2, passedOver)
  BY <1>2, <1>3, <1>4 DEF Caught
<1>7. mode = "event" => Clear(vendor, r, log, acc2, rej2)
  <2>1. Excused(vendor, q) => Excused(vendor, r)
    BY <1>2, <1>4 DEF Excused
  <2>2. r.pc = "send" /\ q.pc = "send"
    BY <1>2 DEF q
  <2> QED  BY <1>2, <1>3, <1>4, <2>1, <2>2 DEF Clear
<1> QED  BY <1>2, <1>4, <1>5, <1>6, <1>7 DEF PostTo, q, r
\* The batch is done with: it was accepted, or the file has failed.
LEMMA DoneFits ==
  ASSUME IInv, NEW i \in Runs, run[i].pc = "send", run[i].batch # {}, NEW ok \in BOOLEAN,
         NEW acc2, NEW rej2, Grows(accepted, acc2, passedOver, passedOver, rejected, rej2),
         ok => \A x \in run[i].batch : acc2[x] > 0 \/ (mode = "event" /\ x \in rej2)
  PROVE  PostTo(i, DoneWith(run[i], ok), acc2, rej2)
<1> DEFINE q == run[i]
<1> DEFINE r == DoneWith(q, ok)
<1>1. /\ q \in Run /\ LogOK(log, active) /\ Len(log) \in Nat /\ Shape(mode, q, log, active)
      /\ mode = "schedule" => Caught(vendor, q, log, accepted, passedOver)
      /\ mode = "event" => Clear(vendor, q, log, accepted, rejected)
  BY OfRun
<1>2. /\ r \in Run /\ r.pc = q.pc /\ r.keys = q.keys /\ r.event = q.event
      /\ r.todo = q.todo /\ r.batch = {}
      /\ r.total = q.total /\ r.shipped = q.shipped /\ r.errors = q.errors
      /\ r.watermark = q.watermark /\ r.highest = q.highest /\ r.newest = q.newest
      /\ r.failed = (q.failed \/ ~ok)
      /\ Pending(r) = q.todo
      /\ Count(r) <= Count(q) /\ Count(r) \in Nat /\ Count(q) \in Nat
      /\ ~ok /\ q.batch # {} => Count(r) < Count(q)
  BY <1>1, DoneFields DEF Shape
<1>3. /\ mode = "schedule" => Caught(vendor, q, log, acc2, passedOver)
      /\ mode = "event" => Clear(vendor, q, log, acc2, rej2)
  BY <1>1, CaughtStays
<1>4. /\ q.pc = "send" /\ q.batch # {} /\ q.total \in Nat
      /\ ok => \A x \in q.batch : acc2[x] > 0 \/ (mode = "event" /\ x \in rej2)
  BY <1>1 DEF Run
<1> HIDE DEF q, r
<1>5. Pending(q) = q.todo \cup q.batch
  BY DEF Pending
<1>6. Count(q) <= q.total /\ Count(r) <= q.total
  <2>1. Count(q) <= q.total
    BY <1>1 DEF Shape
  <2> QED  BY <1>2, <1>4, <2>1
<1>7. Shape(mode, r, log, active)
  <2>1. /\ Pending(r) \subseteq Pending(q) /\ r.todo \cap r.batch = {}
    BY <1>2, <1>5
  <2>2. Pending(r) \subseteq 1..Len(log) /\ \A x, y \in Pending(r) : log[x].file = log[y].file
    BY <1>1, <2>1 DEF Shape
  <2> QED  BY <1>1, <1>2, <1>4, <1>6, <2>1, <2>2 DEF Shape
<1>8. mode = "schedule" => Caught(vendor, r, log, acc2, passedOver)
  <2> SUFFICES ASSUME mode = "schedule" PROVE Caught(vendor, r, log, acc2, passedOver)
    OBVIOUS
  <2>0. Caught(vendor, q, log, acc2, passedOver) /\ mode # "event"
    BY <1>3
  <2>1. ~r.failed => ~q.failed /\ \A x \in q.batch : Covered(vendor, log, acc2, passedOver, x)
    BY <1>2, <1>4, <2>0 DEF Covered
  <2>2. \A x \in 1..Len(log) :
          x <= r.watermark \/ x <= r.highest => Covered(vendor, log, acc2, passedOver, x)
    BY <1>2, <2>0 DEF Caught
  <2>3. ~r.failed =>
          \A x \in 1..Len(log) : \A k \in r.keys : log[x].file < k =>
             \/ log[x].file \in r.keys \/ x \in Pending(r)
             \/ Covered(vendor, log, acc2, passedOver, x)
    BY <1>2, <1>4, <1>5, <2>0, <2>1 DEF Caught
  <2>4. ~r.failed =>
          \A x \in 1..Len(log) : x <= r.newest =>
             x \in Pending(r) \/ Covered(vendor, log, acc2, passedOver, x)
    BY <1>2, <1>4, <1>5, <2>0, <2>1 DEF Caught
  <2>5. r.pc = "send"
    BY <1>2, <1>4
  <2> QED  BY <2>2, <2>3, <2>4, <2>5 DEF Caught
<1>9. mode = "event" => Clear(vendor, r, log, acc2, rej2)
  <2> SUFFICES ASSUME mode = "event" PROVE Clear(vendor, r, log, acc2, rej2)
    OBVIOUS
  <2>1. Excused(vendor, q) => Excused(vendor, r)
    <3>1. Count(q) < q.total => Count(r) < r.total
      BY <1>2, <1>4, <1>6
    <3> QED  BY <1>2, <1>4, <3>1 DEF Excused
  <2>2. ~ok => Excused(vendor, r)
    <3>1. ~ok => Count(r) < r.total
      BY <1>2, <1>4, <1>6
    <3> QED  BY <1>2, <1>4, <3>1 DEF Excused
  <2>3. \A x \in q.batch : acc2[x] > 0 \/ x \in rej2 \/ Excused(vendor, r)
    BY <1>4, <2>2
  <2>4. r.pc = "send" /\ Clear(vendor, q, log, acc2, rej2)
    BY <1>2, <1>3, <1>4
  <2> QED  BY <1>2, <1>4, <1>5, <2>1, <2>3, <2>4 DEF Clear
<1>10. Pending(r) \subseteq Pending(q)
  BY <1>2, <1>5
<1> QED  BY <1>2, <1>7, <1>8, <1>9, <1>10 DEF PostTo, q, r

\* One attempt.
LEMMA PostKeeps ==
  ASSUME IInv, NEW i \in Runs, Post(i)
  PROVE  IInv'
<1> DEFINE q == run[i]
<1>0. /\ run \in [Runs -> Run] /\ q \in Run /\ LogOK(log, active) /\ Len(log) \in Nat
      /\ active \in Nat /\ Shape(mode, q, log, active)
      /\ mode = "schedule" =>
           \A x \in 1..checkpoint : Covered(vendor, log, accepted, passedOver, x)
      /\ mode = "event" => OnceInv(run, log, notified, accepted, repeats)
  BY OfRun
<1> DEFINE Attempt(code, kept) ==
        /\ FaultUnless((code \in intake.accepts /\ kept = q.batch) \/ q.attempt > 0)
        /\ accepted' = [x \in Records |-> IF x \notin kept THEN accepted[x]
                                         ELSE IF scheduled THEN 1 ELSE accepted[x] + 1]
        /\ rejected' = IF code \in intake.accepts THEN rejected \cup (q.batch \ kept) ELSE rejected
        /\ repeats' = IF ~scheduled /\ Again(code) /\ kept # {} THEN repeats + 1 ELSE repeats
        /\ run' = [run EXCEPT ![i] =
             IF Again(code) /\ q.attempt < MaxRetries - 1 THEN Tried(q)
             ELSE DoneWith(q, code \in intake.accepts)]
<1>a. \E code \in Answers : \E kept \in Kept(code, q.batch) : Attempt(code, kept)
  BY DEF Post, Tried, DoneWith
<1>b. PICK code \in Answers : \E kept \in Kept(code, q.batch) : Attempt(code, kept)
  BY <1>a
<1>1. PICK kept \in Kept(code, q.batch) : Attempt(code, kept)
  BY <1>b
<1> DEFINE ok == code \in intake.accepts
<1> DEFINE again == Again(code) /\ q.attempt < MaxRetries - 1
<1> DEFINE r == IF again THEN Tried(q) ELSE DoneWith(q, ok)
<1>2. /\ q.pc = "send" /\ q.batch # {}
      /\ UNCHANGED <<vendor, mode, log, active, notified, checkpoint, passedOver>>
  BY DEF Post, settings, ontap
<1>3. run' = [run EXCEPT ![i] = r]
  BY <1>1
<1>4. kept \subseteq q.batch /\ q.batch \subseteq Pending(q) /\ Pending(q) \subseteq 1..Len(log)
  BY <1>0, KeptIsSent DEF Pending, Shape
<1>5. Fault \/ UNCHANGED faults
  BY <1>1 DEF FaultUnless
<1>6. /\ rejected' = IF ok THEN rejected \cup (q.batch \ kept) ELSE rejected
      /\ repeats' = IF ~scheduled /\ Again(code) /\ kept # {} THEN repeats + 1 ELSE repeats
  BY <1>1
<1>7. accepted \in [Records -> Nat] /\ repeats \in Nat /\ rejected \subseteq 1..Len(log)
  BY DEF IInv
<1>8. /\ accepted' \in [Records -> Nat]
      /\ \A x \in Records : accepted[x] > 0 => accepted'[x] > 0
      /\ \A x \in kept : x \in Records /\ accepted'[x] > 0
  <2>1. kept \subseteq Records
    BY <1>0, <1>4 DEF Run
  <2>2. accepted' = [x \in Records |-> IF x \notin kept THEN accepted[x]
                                       ELSE IF scheduled THEN 1 ELSE accepted[x] + 1]
    BY <1>1
  <2>3. \A x \in Records :
          accepted'[x] = IF x \notin kept THEN accepted[x]
                         ELSE IF scheduled THEN 1 ELSE accepted[x] + 1
    BY <2>2
  <2>4. \A x \in Records : accepted[x] \in Nat
    BY <1>7
  <2>5. \A x \in Records : accepted'[x] \in Nat
    BY <2>3, <2>4
  <2>6. accepted' \in [Records -> Nat]
    BY <2>2, <2>5
  <2>7. \A x \in kept : x \in Records /\ accepted'[x] > 0
    BY <2>1, <2>3, <2>4
  <2>8. \A x \in Records : accepted[x] > 0 => accepted'[x] > 0
    BY <2>3, <2>4
  <2> QED  BY <2>6, <2>7, <2>8
<1>9. Grows(accepted, accepted', passedOver, passedOver, rejected, rejected')
  BY <1>6, <1>8 DEF Grows
<1>10. ok \in BOOLEAN
  OBVIOUS
<1>11. ok => \A x \in q.batch : accepted'[x] > 0 \/ (mode = "event" /\ x \in rejected')
  <2> SUFFICES ASSUME ok, NEW x \in q.batch
               PROVE  accepted'[x] > 0 \/ (mode = "event" /\ x \in rejected')
    OBVIOUS
  <2>1. CASE mode = "schedule"
    <3>1. scheduled /\ vendor \in DOMAIN Loops
      BY <2>1 DEF scheduled, IInv, Settings
    <3>2. kept = q.batch
      BY <3>1, ScheduledKeep
    <3> QED  BY <1>8, <3>2
  <2>2. CASE mode = "event"
    BY <1>6, <1>8, <2>2
  <2> QED  BY <2>1, <2>2, OfRun
<1> HIDE DEF ok
<1>12. PostTo(i, r, accepted', rejected')
  <2>1. CASE again
    BY <1>2, <1>9, <2>1, TriedFits
  <2>2. CASE ~again
    BY <1>2, <1>9, <1>10, <1>11, <2>2, DoneFits
  <2> QED  BY <2>1, <2>2
<1>13. mode = "event" => OnceStep(i, r)
  <2> SUFFICES ASSUME mode = "event" PROVE OnceStep(i, r)
    OBVIOUS
  <2>1. /\ accepted' = [x \in Records |-> IF x \notin kept THEN accepted[x] ELSE accepted[x] + 1]
        /\ repeats' = IF Again(code) /\ kept # {} THEN repeats + 1 ELSE repeats
    BY <1>1 DEF scheduled
  <2>2. /\ \A x \in Records : x \notin kept => accepted'[x] = accepted[x]
        /\ \A x \in Records : x \in Pending(q) => accepted[x] <= repeats
        /\ \A x \in Records : accepted'[x] <= 1 + repeats
        /\ \A x \in 1..Len(log) : log[x].file \in q.keys => accepted'[x] <= repeats
    BY <1>4, <2>1, AcceptStep
  <2>3. repeats' \in Nat /\ repeats <= repeats' /\ (again /\ kept # {} => repeats' = repeats + 1)
    BY <1>7, <2>1
  <2>4. \A x \in Records : accepted'[x] \in Nat
    BY <1>8
  <2>5. ASSUME NEW x \in Records, x \in Pending(r)  PROVE accepted'[x] <= repeats'
    <3>0. x \in Pending(q)
      BY <1>12, <2>5 DEF PostTo
    <3>1. CASE x \notin kept
      <4>1. accepted'[x] <= repeats
        BY <2>2, <3>0, <3>1
      <4> QED  BY <1>7, <2>3, <2>4, <4>1
    <3>2. CASE x \in kept
      <4>1. again
        <5> SUFFICES ASSUME ~again PROVE FALSE
          OBVIOUS
        <5>1. Pending(r) = q.todo
          BY <1>0, <1>4, <1>10, DoneFields
        <5>2. q.todo \cap q.batch = {}
          BY <1>0 DEF Shape
        <5> QED  BY <1>4, <2>5, <3>2, <5>1, <5>2
      <4> QED  BY <1>7, <2>2, <2>3, <3>2, <4>1
    <3> QED  BY <3>1, <3>2
  <2>6. \A x \in Records : accepted'[x] <= 1 + repeats'
    BY <1>7, <2>2, <2>3, <2>4
  <2>7. \A x \in 1..Len(log) : log[x].file \in r.keys => accepted'[x] <= repeats'
    <3>1. \A x \in 1..Len(log) : x \in Records
      BY <1>0, Consts DEF LogOK, Records
    <3> QED  BY <1>7, <1>12, <2>2, <2>3, <2>4, <3>1 DEF PostTo
  <2>8. /\ r.event \subseteq notified' /\ r.event \subseteq run[i].event
    BY <1>0, <1>2, <1>12 DEF PostTo, OnceInv
  <2>9. \A x \in Pending(r) : log[x].file \in r.event /\ log[x].file \notin r.keys
    BY <1>0, <1>12 DEF PostTo, OnceInv
  <2>10. \A x \in Records : x \notin Pending(run[i]) => accepted'[x] = accepted[x]
    BY <1>4, <2>2
  <2> HIDE DEF r
  <2> QED  BY <2>3, <2>5, <2>6, <2>7, <2>8, <2>9, <2>10 DEF OnceStep
<1>14. \A x \in 1..checkpoint : x \in 1..Len(log)
  BY <1>0 DEF IInv
<1>15. mode = "schedule" =>
         \A x \in 1..checkpoint : Covered(vendor, log, accepted', passedOver, x)
  BY <1>0, <1>9, <1>14, CaughtStays
<1>16. rejected' \subseteq 1..Len(log)
  BY <1>4, <1>6, <1>7
<1>17. repeats' \in Nat /\ faults' \in 0..MaxFaults
  BY <1>5, <1>6, <1>7, Faulty
<1> HIDE DEF r, q
<1>18. Moves(i, r)
  BY <1>2, <1>3, <1>8, <1>9, <1>12, <1>13, <1>15, <1>16, <1>17 DEF Moves, IInv, PostTo
<1> QED  BY <1>18, MovesKeep
\* An answer that raises out of the send: the file is left.
LEMMA PostRaisesKeeps ==
  ASSUME IInv, NEW i \in Runs, PostRaises(i)
  PROVE  IInv'
<1> DEFINE q == run[i]
<1> DEFINE r == Leave(q)
<1>0. /\ run \in [Runs -> Run] /\ q \in Run /\ LogOK(log, active) /\ Len(log) \in Nat
      /\ Shape(mode, q, log, active) /\ (mode = "schedule" \/ mode = "event")
  BY OfRun
<1>1. /\ run' = [run EXCEPT ![i] = r] /\ Fault /\ q.pc = "send"
      /\ UNCHANGED <<vendor, mode, log, active, notified, checkpoint, rejected, passedOver, repeats>>
      /\ \E code \in intake.raises : \E kept \in Kept(code, q.batch) :
           accepted' = [x \in Records |-> accepted[x] + IF x \in kept THEN 1 ELSE 0]
  BY DEF PostRaises, settings, ontap
<1>2. mode = "event"
  <2>1. intake.raises # {}
    BY <1>1
  <2> QED  BY <1>0, <2>1, TablesFit DEF IInv
<1>3. PICK code \in intake.raises : \E kept \in Kept(code, q.batch) :
        accepted' = [x \in Records |-> accepted[x] + IF x \in kept THEN 1 ELSE 0]
  BY <1>1
<1>4. PICK kept \in Kept(code, q.batch) :
        accepted' = [x \in Records |-> accepted[x] + IF x \in kept THEN 1 ELSE 0]
  BY <1>3
<1>5. kept \subseteq q.batch
  BY KeptIsSent
<1>6. accepted' = [x \in Records |-> IF x \notin kept THEN accepted[x] ELSE accepted[x] + 1]
  <2>1. \A x \in Records : accepted[x] \in Nat
    BY DEF IInv
  <2>2. \A x \in Records : accepted[x] + (IF x \in kept THEN 1 ELSE 0)
                             = IF x \notin kept THEN accepted[x] ELSE accepted[x] + 1
    BY <2>1
  <2> QED  BY <1>4, <2>2
<1>7. /\ accepted' \in [Records -> Nat]
      /\ \A x \in Records : accepted[x] > 0 => accepted'[x] > 0
      /\ \A x \in Records : x \notin kept => accepted'[x] = accepted[x]
      /\ \A x \in Records : x \in Pending(q) => accepted[x] <= repeats
      /\ \A x \in Records : accepted'[x] <= 1 + repeats
      /\ \A x \in 1..Len(log) : log[x].file \in q.keys => accepted'[x] <= repeats
  BY <1>2, <1>5, <1>6, AcceptStep
<1>8. /\ r \in Run /\ Pending(r) = {} /\ r.event = q.event
      /\ r.keys \subseteq q.keys /\ Shape(mode, r, log, active)
      /\ \A acc, rej : Clear(vendor, r, log, acc, rej)
  BY <1>0, <1>1, LeaveFits
<1>9. OnceInv(run, log, notified, accepted, repeats) /\ repeats \in Nat
  BY <1>2, OfRun DEF IInv
<1> HIDE DEF r
<1>10. OnceStep(i, r)
  <2>1. r.event \subseteq notified' /\ r.event \subseteq run[i].event
    BY <1>1, <1>8, <1>9 DEF OnceInv
  <2>2. \A x \in Records : x \notin Pending(run[i]) => accepted'[x] = accepted[x]
    BY <1>5, <1>7 DEF Pending
  <2>3. \A x \in 1..Len(log) : log[x].file \in r.keys => accepted'[x] <= repeats'
    BY <1>1, <1>7, <1>8
  <2>4. repeats <= repeats' /\ \A x \in Records : accepted'[x] <= 1 + repeats'
    BY <1>1, <1>7, <1>9
  <2>5. /\ \A x \in Pending(r) : log[x].file \in r.event /\ log[x].file \notin r.keys
        /\ \A x \in Records : x \in Pending(r) => accepted'[x] <= repeats'
    BY <1>8
  <2> QED  BY <2>1, <2>2, <2>3, <2>4, <2>5 DEF OnceStep
<1>11. Grows(accepted, accepted', passedOver, passedOver', rejected, rejected')
  BY <1>1, <1>7 DEF Grows
<1>12. faults' \in 0..MaxFaults
  BY <1>1, Faulty
<1>13. mode # "schedule"
  BY <1>2
<1> HIDE DEF q
<1>14. Moves(i, r)
  BY <1>1, <1>7, <1>8, <1>10, <1>11, <1>12, <1>13 DEF Moves, IInv
<1> QED  BY <1>14, MovesKeep

\* The invocation once it has read these records of a file.
Reading(q, f, records) ==
  LET fresh == Fresh(records, q.watermark)
  IN  [q EXCEPT !.pc = "send", !.keys = @ \ {f}, !.todo = fresh, !.failed = FALSE, !.sent = 0,
                !.newest = Max({q.highest} \cup {x \in fresh : log[x].dated}),
                !.total = @ + Cardinality(fresh),
                !.errors = @ \/ (~scheduled /\ Holds(f) = {} /\ handler.emptyIsError)]

\* A file is read: what is new of it is to be sent, and the rest of it, and the
\* files before it, are covered.
LEMMA ReadFileKeeps ==
  ASSUME IInv, NEW i \in Runs, NEW f \in 0..active, ReadFile(i, f)
  PROVE  IInv'
<1> DEFINE q == run[i]
<1>0. /\ run \in [Runs -> Run] /\ q \in Run /\ LogOK(log, active) /\ Len(log) \in Nat
      /\ active \in Nat /\ Shape(mode, q, log, active)
      /\ mode = "schedule" => Caught(vendor, q, log, accepted, passedOver)
      /\ mode = "event" => Clear(vendor, q, log, accepted, rejected)
      /\ mode = "schedule" \/ mode = "event"
  BY OfRun
<1>1. PICK records \in Readable(f) : run' = [run EXCEPT ![i] = Reading(q, f, records)]
  BY DEF ReadFile, Reading
<1> DEFINE fresh == Fresh(records, q.watermark)
<1> DEFINE dated == {x \in fresh : log[x].dated}
<1> DEFINE newest == Max({q.highest} \cup dated)
<1> DEFINE keys == q.keys \ {f}
<1> DEFINE total == q.total + Cardinality(fresh)
<1> DEFINE errors == q.errors \/ (~scheduled /\ Holds(f) = {} /\ handler.emptyIsError)
<1> DEFINE r == [q EXCEPT !.pc = "send", !.keys = keys, !.todo = fresh, !.failed = FALSE,
                          !.sent = 0, !.newest = newest, !.total = total, !.errors = errors]
<1>2. /\ q.pc = "next" /\ f \in q.keys
      /\ \A g \in q.keys : f <= g
      /\ UNCHANGED <<settings, ontap, notified, checkpoint, histories, faults>>
  BY DEF ReadFile, AtKey
<1>3. run' = [run EXCEPT ![i] = r]
  BY <1>1 DEF Reading
<1>4. /\ records \subseteq Holds(f)
      /\ f # active => records = Holds(f)
      /\ records = Holds(f) \/ records = {x \in Holds(f) : x < Len(log)}
  BY DEF Readable
<1>5. \A x : x \in Holds(f) <=> x \in 1..Len(log) /\ log[x].file = f
  BY DEF Holds, Written
<1>6. fresh \subseteq records
  BY DEF Fresh
<1>7. fresh \subseteq 1..Len(log) /\ fresh \subseteq Records /\ \A x \in fresh : log[x].file = f
  <2>1. fresh \subseteq 1..Len(log) /\ \A x \in fresh : log[x].file = f
    BY <1>4, <1>5, <1>6
  <2>2. 1..Len(log) \subseteq Records
    BY <1>0, Consts DEF LogOK, Records
  <2> QED  BY <2>1, <2>2
<1>8. /\ q.todo = {} /\ q.batch = {} /\ q.sent = 0 /\ Pending(q) = {}
      /\ q.keys \subseteq 0..active /\ q.highest \in 0..Len(log) /\ q.newest \in 0..Len(log)
      /\ q.watermark \in 0..Len(log) /\ Count(q) <= q.total
  BY <1>0, <1>2 DEF Shape, Pending
<1>9. \A x \in 1..Len(log) : x \in records /\ x \notin fresh =>
        /\ mode = "schedule"
        /\ log[x].dated => x <= q.watermark
        /\ ~log[x].dated => ~Selections[vendor].undated
  <2>1. \A x \in 1..Len(log) : ~(x > q.watermark) => x <= q.watermark
    BY <1>8
  <2> QED  BY <1>0, <2>1 DEF Fresh, scheduled
<1> HIDE DEF fresh
<1>10. newest \in 0..Len(log) /\ (newest = q.highest \/ newest \in dated)
  <2> DEFINE S == {q.highest} \cup dated
  <2>0. dated \subseteq 0..Len(log)
    <3>1. \A x \in 1..Len(log) : x \in 0..Len(log)
      BY <1>0
    <3> QED  BY <1>7, <3>1
  <2> HIDE DEF dated
  <2>1. S \subseteq 0..Len(log) /\ S # {}
    BY <1>8, <2>0
  <2>2. Max(S) \in S
    BY <1>0, <2>1, MaxIn
  <2> QED  BY <2>1, <2>2
<1>11. Cardinality(fresh) \in Nat
  BY <1>0, <1>7, Counts
<1> HIDE DEF newest
<1>12. total \in Nat /\ q.total \in Nat /\ q.shipped \in Nat /\ keys \in SUBSET Nat
       /\ newest \in Nat /\ errors \in BOOLEAN
  <2>1. q.total \in Nat /\ q.shipped \in Nat /\ q.keys \in SUBSET Nat
    BY <1>0 DEF Run
  <2>2. total \in Nat /\ newest \in Nat
    BY <1>0, <1>10, <1>11, <2>1
  <2> QED  BY <2>1, <2>2
<1> HIDE DEF total, keys, errors
<1>13. r \in Run
  <2>1. "send" \in Pcs /\ FALSE \in BOOLEAN /\ 0 \in Nat /\ fresh \in SUBSET Records
    BY <1>7 DEF Pcs
  <2> DEFINE r1 == [q EXCEPT !.pc = "send", !.keys = keys, !.todo = fresh, !.failed = FALSE]
  <2>2. r1 \in Run
    BY <1>0, <1>12, <2>1 DEF Run
  <2> DEFINE r2 == [r1 EXCEPT !.sent = 0, !.newest = newest, !.total = total]
  <2>3. r = [r2 EXCEPT !.errors = errors]
    BY <1>0 DEF Run
  <2> HIDE DEF r, r1
  <2>4. r2 \in Run
    BY <1>12, <2>1, <2>2 DEF Run
  <2> HIDE DEF r2
  <2> QED  BY <1>12, <2>3, <2>4 DEF Run
<1>14. /\ r.pc = "send" /\ r.keys = keys /\ r.event = q.event /\ r.todo = fresh
       /\ r.batch = q.batch /\ r.failed = FALSE /\ r.sent = 0
  BY <1>0 DEF Run
<1>15. /\ r.watermark = q.watermark /\ r.highest = q.highest /\ r.newest = newest
       /\ r.total = total /\ r.shipped = q.shipped /\ r.errors = errors
  BY <1>0 DEF Run
<1> HIDE DEF r
<1>16. Pending(r) = fresh
  BY <1>8, <1>14 DEF Pending
<1>17. /\ Count(q) = q.shipped /\ Count(r) = q.shipped + Cardinality(fresh)
       /\ r.total = q.total + Cardinality(fresh)
  BY <1>8, <1>11, <1>12, <1>14, <1>15, EmptyCount DEF Count, total
<1>18. keys \subseteq q.keys /\ f \notin keys
  BY DEF keys
<1>19. Shape(mode, r, log, active)
  <2>1. mode = "schedule" => r.event = {} /\ r.pc \notin {"retry", "done"}
    BY <1>0, <1>14 DEF Shape
  <2>2. mode # "schedule" => /\ r.pc # "list" /\ r.keys \subseteq r.event
                             /\ \A g \in r.event : g \in 0..active /\ g < active
    BY <1>0, <1>14, <1>18 DEF Shape
  <2>3. r.keys \subseteq 0..active /\ {r.watermark, r.highest, r.newest} \subseteq 0..Len(log)
    BY <1>8, <1>10, <1>14, <1>15, <1>18
  <2>4. Count(r) <= r.total
    BY <1>8, <1>11, <1>12, <1>17
  <2>5. Pending(r) \subseteq 1..Len(log) /\ \A x, y \in Pending(r) : log[x].file = log[y].file
    BY <1>7, <1>16
  <2>6. r.todo \cap r.batch = {}
    BY <1>8, <1>14
  <2> QED  BY <1>13, <1>14, <2>1, <2>2, <2>3, <2>4, <2>5, <2>6 DEF Shape
<1>20. mode = "schedule" => Caught(vendor, r, log, accepted, passedOver)
  <2> SUFFICES ASSUME mode = "schedule" PROVE Caught(vendor, r, log, accepted, passedOver)
    OBVIOUS
  <2>0. Caught(vendor, q, log, accepted, passedOver)
    BY <1>0
  <2>1. \A x \in 1..Len(log) : x <= q.watermark \/ x <= q.highest =>
          Covered(vendor, log, accepted, passedOver, x)
    BY <2>0 DEF Caught
  <2>2. \A x \in 1..Len(log) : \A k \in q.keys : log[x].file < k =>
          log[x].file \in q.keys \/ Covered(vendor, log, accepted, passedOver, x)
    BY <1>2, <1>8, <2>0 DEF Caught
  <2>3. \A x \in 1..Len(log) : x \in records =>
          x \in fresh \/ Covered(vendor, log, accepted, passedOver, x)
    BY <1>9, <2>1 DEF Covered
  <2>4. ASSUME NEW x \in 1..Len(log), NEW k \in keys, log[x].file < k
        PROVE  \/ log[x].file \in keys \/ x \in fresh
               \/ Covered(vendor, log, accepted, passedOver, x)
    <3>1. CASE log[x].file # f
      BY <1>18, <2>2, <2>4, <3>1 DEF keys
    <3>2. CASE log[x].file = f
      <4>1. f # active
        BY <1>0, <1>8, <1>18, <2>4, <3>2
      <4>2. x \in records
        BY <1>4, <1>5, <3>2, <4>1
      <4> QED  BY <2>3, <4>2
    <3> QED  BY <3>1, <3>2
  <2>5. ASSUME NEW x \in 1..Len(log), x <= newest
        PROVE  x \in fresh \/ Covered(vendor, log, accepted, passedOver, x)
    <3>1. CASE newest = q.highest
      BY <2>1, <2>5, <3>1
    <3>2. CASE newest \in dated
      <4>1. newest \in fresh /\ newest \in 1..Len(log) /\ log[newest].file = f
        BY <1>7, <3>2
      <4>2. log[x].file <= f /\ log[x].file \in 0..active
        BY <1>0, <2>5, <4>1 DEF LogOK
      <4>3. CASE log[x].file = f
        <5>1. x \in records
          BY <1>0, <1>4, <1>5, <1>6, <2>5, <4>1, <4>3
        <5> QED  BY <2>3, <5>1
      <4>4. CASE log[x].file # f
        <5>1. log[x].file < f
          BY <1>0, <1>2, <1>8, <4>2, <4>4
        <5>2. log[x].file \notin q.keys
          BY <1>0, <1>2, <1>8, <4>2, <5>1
        <5> QED  BY <1>2, <2>2, <5>1, <5>2
      <4> QED  BY <4>3, <4>4
    <3> QED  BY <1>10, <3>1, <3>2
  <2> QED  BY <1>14, <1>15, <1>16, <2>1, <2>4, <2>5 DEF Caught
<1>21. mode = "event" => Clear(vendor, r, log, accepted, rejected)
  <2> SUFFICES ASSUME mode = "event" PROVE Clear(vendor, r, log, accepted, rejected)
    OBVIOUS
  <2>1. Excused(vendor, q) => Excused(vendor, r)
    <3>1. Count(q) < q.total => Count(r) < r.total
      BY <1>11, <1>12, <1>17
    <3>2. q.errors => r.errors
      BY <1>15 DEF errors
    <3> QED  BY <1>2, <3>1, <3>2 DEF Excused
  <2>2. ASSUME NEW x \in 1..Len(log), log[x].file = f  PROVE x \in Pending(r)
    <3>1. f # active
      BY <1>0, <1>2 DEF Shape
    <3>2. x \in records
      BY <1>4, <1>5, <2>2, <3>1
    <3> QED  BY <1>9, <1>16, <3>2
  <2>3. Clear(vendor, q, log, accepted, rejected)
    BY <1>0
  <2> QED  BY <1>2, <1>8, <1>14, <2>1, <2>2, <2>3 DEF Clear, keys
<1>22. mode = "event" => \A x \in Pending(r) :
         /\ log[x].file \in q.keys /\ log[x].file \in r.event /\ log[x].file \notin r.keys
  <2>1. mode = "event" => f \in q.event
    BY <1>0, <1>2 DEF Shape
  <2> QED  BY <1>2, <1>7, <1>14, <1>16, <1>18, <2>1
<1> HIDE DEF q
<1>23. Quiet(i, r)
  BY <1>2, <1>3, <1>13, <1>14, <1>18, <1>19, <1>20, <1>21, <1>22 DEF Quiet, q
<1> QED  BY <1>23, QuietKeeps
-----------------------------------------------------------------------------
(* The theorems.                                                           *)

\* No invocation has begun.
LEMMA InitFits ==
  ASSUME Init
  PROVE  IInv
<1>1. /\ Settings(mode, vendor) /\ log = << >> /\ active = 0 /\ notified = {} /\ checkpoint = 0
      /\ run = [i \in Runs |-> IdleRun] /\ accepted = [r \in Records |-> 0]
      /\ rejected = {} /\ passedOver = {} /\ repeats = 0 /\ faults = MaxFaults
      /\ mode = "event" \/ mode = "schedule"
  BY DEF Init, Settings, scheduled
<1>2. Len(log) = 0 /\ log \in Seq(LogEntry) /\ 1..Len(log) = {}
  BY <1>1
<1>3. LogOK(log, active)
  BY <1>1, <1>2, Consts DEF LogOK
<1>4. run \in [Runs -> Run] /\ \A i \in Runs : run[i] = IdleRun
  BY <1>1, IdleFields
<1>5. Pending(IdleRun) = {}
  BY IdleFields DEF Pending, Blank
<1>6. /\ Shape(mode, IdleRun, log, active)
      /\ mode = "schedule" => Caught(vendor, IdleRun, log, accepted, passedOver)
      /\ Clear(vendor, IdleRun, log, accepted, rejected)
  <2>1. /\ IdleRun.pc \in {"idle", "list", "next", "retry"} /\ IdleRun.keys \subseteq IdleRun.event
        /\ IdleRun.pc # "next" /\ IdleRun.pc # "list" /\ IdleRun.pc # "retry"
        /\ \A f \in IdleRun.event : f \in 0..active /\ f < active
    BY IdleFields
  <2>2. /\ IdleRun.watermark \in 0..Len(log) /\ IdleRun.highest \in 0..Len(log)
        /\ \A x \in 1..Len(log) : ~(x <= IdleRun.watermark) /\ ~(x <= IdleRun.highest)
    BY <1>2, IdleFields
  <2> QED  BY <1>3, <2>1, <2>2, IdleFields, BlankFits
<1>7. OnceInv(run, log, notified, accepted, repeats)
  BY <1>1, <1>4, <1>5, IdleFields DEF OnceInv
<1>8. accepted \in [Records -> Nat] /\ faults \in 0..MaxFaults /\ repeats \in Nat
  BY <1>1, Consts
<1>9. \A x \in 1..checkpoint : Covered(vendor, log, accepted, passedOver, x)
  BY <1>1
<1> QED  BY <1>1, <1>2, <1>3, <1>4, <1>6, <1>7, <1>8, <1>9 DEF IInv

\* The invariant is inductive.
LEMMA NextKeeps ==
  ASSUME IInv, [Next]_vars
  PROVE  IInv'
<1>1. ASSUME NEW dated \in BOOLEAN, Write(dated)  PROVE IInv'
  BY <1>1, WriteKeeps
<1>2. ASSUME Rotate  PROVE IInv'
  BY <1>2, RotateKeeps
<1>3. ASSUME NEW i \in Runs, Notify(i) \/ Redeliver(i)  PROVE IInv'
  BY <1>3, NotifyKeeps, RedeliverKeeps
<1>4. ASSUME NEW i \in Runs, Drop(i) \/ Forget(i) \/ Crash(i)  PROVE IInv'
  BY <1>4, DropKeeps, CrashKeeps
<1>5. ASSUME NEW i \in Runs, ReadCheckpoint(i) \/ List(i) \/ StopEarly(i)  PROVE IInv'
  BY <1>5, ReadCheckpointKeeps, ListKeeps, StopEarlyKeeps
<1>6. ASSUME NEW i \in Runs, TakeBatch(i) \/ Post(i) \/ PostRaises(i) \/ EndFile(i)
      PROVE  IInv'
  BY <1>6, TakeBatchKeeps, PostKeeps, PostRaisesKeeps, EndFileKeeps
<1>7. ASSUME NEW i \in Runs, Report(i) \/ Save(i)  PROVE IInv'
  BY <1>7, ReportKeeps, SaveKeeps
<1>8. ASSUME NEW i \in Runs, NEW f \in 0..active,
             ReadFile(i, f) \/ ReadFails(i, f) \/ PassOver(i, f)
      PROVE  IInv'
  BY <1>8, ReadFileKeeps, ReadFailsKeeps, PassOverKeeps
<1>9. CASE UNCHANGED vars
  BY <1>9 DEF vars, settings, ontap, histories, IInv
<1> QED  BY <1>1, <1>2, <1>3, <1>4, <1>5, <1>6, <1>7, <1>8, <1>9 DEF Next

\* The inductive invariant: watermarks, results and repetitions account for every
\* record, for any number of overlapping invocations, records, files and failures.
THEOREM ShippersHold == Spec => []IInv
<1>1. Init => IInv
  BY InitFits
<1>2. IInv /\ [Next]_vars => IInv'
  BY NextKeeps
<1> QED  BY <1>1, <1>2, PTL DEF Spec

\* The records of one batch and those after it are of one file.
LEMMA OneFile ==
  ASSUME NEW S, NEW lg, \A x, y \in S : lg[x].file = lg[y].file
  PROVE  Cardinality({lg[x].file : x \in S}) <= 1
<1> DEFINE T == {lg[x].file : x \in S}
<1>1. CASE S = {}
  <2>1. T = {}
    BY <1>1
  <2> HIDE DEF T
  <2>2. Cardinality(T) = 0
    BY <2>1, EmptyCount
  <2> QED  BY <2>2 DEF T
<1>2. CASE S # {}
  <2>1. PICK y \in S : TRUE
    BY <1>2
  <2>2. T = {lg[y].file}
    BY <2>1
  <2>3. Cardinality({lg[y].file}) = 1
    BY FS_Singleton
  <2> HIDE DEF T
  <2>4. Cardinality(T) = 1
    BY <2>2, <2>3
  <2> QED  BY <2>4 DEF T
<1> QED  BY <1>1, <1>2

\* The variables have their types; what an invocation holds is of one file, and it
\* never counts more as sent than it read.
THEOREM ShippersTypeCorrect == Spec => []TypeOK
<1>1. IInv => TypeOK
  <2> SUFFICES ASSUME IInv PROVE TypeOK
    OBVIOUS
  <2>1. LogOK(log, active) /\ log \in Seq(LogEntry) /\ active \in Nat
    BY DEF IInv, LogOK
  <2>2. notified \subseteq 0..(active - 1)
    <3>1. \A f \in notified : f \in 0..active /\ f < active
      BY DEF IInv
    <3> QED  BY <2>1, <3>1
  <2>3. ASSUME NEW i \in Runs
        PROVE  /\ run[i].todo \cap run[i].batch = {}
               /\ Cardinality({log[r].file : r \in run[i].todo \cup run[i].batch}) <= 1
               /\ run[i].shipped + run[i].sent + Cardinality(run[i].batch)
                    + Cardinality(run[i].todo) <= run[i].total
    <3>1. Shape(mode, run[i], log, active)
      BY OfRun
    <3>2. \A x, y \in run[i].todo \cup run[i].batch : log[x].file = log[y].file
      BY <3>1 DEF Shape, Pending
    <3>3. Cardinality({log[r].file : r \in run[i].todo \cup run[i].batch}) <= 1
      BY <3>2, OneFile
    <3>4. Count(run[i]) <= run[i].total /\ run[i].todo \cap run[i].batch = {}
      BY <3>1 DEF Shape
    <3> QED  BY <3>3, <3>4 DEF Count
  <2>4. /\ mode = "event" => vendor \in DOMAIN Handlers
        /\ scheduled => vendor \in DOMAIN Loops
    BY DEF IInv, Settings, scheduled
  <2> QED  BY <2>1, <2>2, <2>3, <2>4 DEF IInv, TypeOK, Written, LogEntry
<1> QED  BY <1>1, ShippersHold, PTL

\* When a handler reports 200 for an event (and, where failed batches are no errors,
\* shipped what it read), every record of its files was accepted.
THEOREM AllClearIsTrue == Spec => []NoFalseAllClear
<1>1. IInv => NoFalseAllClear
  <2> SUFFICES ASSUME IInv, NEW i \in Runs, run[i].pc = "done", run[i].status = 200,
                      handler.failedSend = "error" \/ run[i].shipped = run[i].total,
                      NEW x \in OfEvent(i)
               PROVE  x \in Accepted \cup rejected
    BY DEF NoFalseAllClear
  <2>1. /\ Shape(mode, run[i], log, active) /\ LogOK(log, active) /\ Len(log) \in Nat
        /\ run[i] \in Run
    BY OfRun
  <2>2. mode = "event"
    BY <2>1, OfRun DEF Shape
  <2>3. Clear(vendor, run[i], log, accepted, rejected)
    BY <2>2, OfRun
  <2>4. x \in 1..Len(log) /\ log[x].file \in run[i].event
    BY DEF OfEvent, Holds, Written
  <2>5. x \in Records
    BY <2>1, <2>4, Consts DEF LogOK, Records
  <2>6. /\ run[i].keys = {} /\ run[i].todo = {} /\ run[i].batch = {} /\ run[i].sent = 0
        /\ Pending(run[i]) = {}
    BY <2>1 DEF Shape, Pending
  <2>7. ~Excused(vendor, run[i])
    <3>1. ~run[i].errors
      BY <2>3 DEF Clear
    <3>2. handler.failedSend = "error" \/ ~(Count(run[i]) < run[i].total)
      <4>1. run[i].shipped \in Nat /\ run[i].total \in Nat
        BY <2>1 DEF Run
      <4>2. Count(run[i]) = run[i].shipped
        BY <2>6, <4>1, EmptyCount DEF Count
      <4> QED  BY <4>1, <4>2
    <3> QED  BY <3>1, <3>2 DEF Excused, handler
  <2>8. accepted[x] > 0 \/ x \in rejected
    BY <2>3, <2>4, <2>6, <2>7 DEF Clear
  <2> QED  BY <2>5, <2>8 DEF Accepted
<1> QED  BY <1>1, ShippersHold, PTL

\* The records of an event are accepted once each, and once more for every answer
\* that was lost and every delivery after a failure.
THEOREM SentOnce == Spec => []SentOnceUnlessRepeated
<1>1. IInv => SentOnceUnlessRepeated
  BY DEF IInv, Settings, OnceInv, SentOnceUnlessRepeated, scheduled
<1> QED  BY <1>1, ShippersHold, PTL

\* A schedule's watermark passes no record that was neither accepted nor left out
\* by what the integration declares.
THEOREM WatermarkCovers == Spec => []WatermarkIsCovered
<1>1. IInv => WatermarkIsCovered
  <2> SUFFICES ASSUME IInv, NEW r \in 1..checkpoint
               PROVE  \/ r \in Accepted
                      \/ ~log[r].dated /\ ~Selections[vendor].undated
                      \/ log[r].file \in passedOver
    BY DEF WatermarkIsCovered
  <2>1. mode = "schedule"
    BY DEF IInv, Settings
  <2>2. Covered(vendor, log, accepted, passedOver, r)
    BY <2>1 DEF IInv
  <2>3. r \in Records
    <3>1. LogOK(log, active)
      BY DEF IInv
    <3>2. Len(log) \in Nat /\ Len(log) <= MaxRecords /\ checkpoint \in 0..Len(log)
      BY <3>1 DEF LogOK, IInv
    <3> QED  BY <3>2, Consts DEF Records
  <2> QED  BY <2>2, <2>3 DEF Covered, Accepted
<1> QED  BY <1>1, ShippersHold, PTL
=============================================================================
