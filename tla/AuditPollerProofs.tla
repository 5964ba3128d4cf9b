-------------------------- MODULE AuditPollerProofs --------------------------
(***************************************************************************)
(* Type correctness and at-least-once delivery of the audit poller, for    *)
(* every set of overlapping runs and every value of the constants.         *)
(***************************************************************************)
EXTENDS AuditPoller, FiniteSetTheorems, TLAPS

-----------------------------------------------------------------------------
(* Type correctness.                                                       *)

\* A record that Append adds leaves the others where they were.
LEMMA Appended ==
  ASSUME NEW l \in Seq(Record), NEW e \in Record
  PROVE  /\ Append(l, e) \in Seq(Record)
         /\ Len(Append(l, e)) = Len(l) + 1
         /\ \A r \in 1..Len(l) : Append(l, e)[r] = l[r]
         /\ Append(l, e)[Len(l) + 1] = e
  OBVIOUS

\* The first invocation starts from an unread prefix and no checkpoint.
LEMMA InitType == Init => TypeOK
  BY ConstantsAssumption DEF Init, TypeOK, ConstantsAssumption, Run, IdleRun, Pcs, Written

\* What a step of run i leaves to be checked: its own new local variables.
LEMMA RunUpdate ==
  ASSUME TypeOK, NEW i \in Runs, NEW new \in Run, run' = [run EXCEPT ![i] = new],
         log' = log, active' = active, checkpoint' \in 0..Len(log),
         delivered' \subseteq Written, faults' \in Nat,
         new.highest \in new.watermark..Len(log), new.keys \subseteq 0..(active - 1)
  PROVE  TypeOK'
<1>1. run' \in [Runs -> Run]
  BY DEF TypeOK
<1>2. \A j \in Runs : /\ run'[j].highest \in run'[j].watermark..Len(log)
                      /\ run'[j].keys \subseteq 0..(active - 1)
  BY DEF TypeOK
<1> QED  BY <1>1, <1>2 DEF TypeOK, Written

\* The run that is not there has nothing read and nothing listed.
LEMMA IdleIsTyped ==
  /\ IdleRun \in Run
  /\ IdleRun.highest = 0 /\ IdleRun.watermark = 0 /\ IdleRun.keys = {}
  BY DEF IdleRun, Run, Pcs

\* Every step of ONTAP and of a run keeps the variables typed.
LEMMA NextType == TypeOK /\ [Next]_vars => TypeOK'
<1> SUFFICES ASSUME TypeOK, [Next]_vars PROVE TypeOK'
  OBVIOUS
<1>1. ASSUME NEW dated \in BOOLEAN, Write(dated) PROVE TypeOK'
  <2>1. [file |-> active, dated |-> dated] \in Record
    BY DEF Record, TypeOK
  <2>2. log' \in Seq(Record) /\ Len(log') = Len(log) + 1
    BY <1>1, <2>1, Appended DEF Write, TypeOK
  <2> QED  BY <1>1, <2>2 DEF Write, Written, TypeOK
<1>2. CASE Rotate
  BY <1>2 DEF Rotate, Written, TypeOK
<1>3. ASSUME NEW i \in Runs, ReadCheckpoint(i) PROVE TypeOK'
  <2>1. PICK wm \in {0, checkpoint} :
          /\ IF wm = checkpoint THEN UNCHANGED faults ELSE Fault
          /\ run' = [run EXCEPT ![i] = [IdleRun EXCEPT !.pc = "list", !.watermark = wm,
                                                      !.highest = wm]]
    BY <1>3 DEF ReadCheckpoint
  <2> DEFINE new == [IdleRun EXCEPT !.pc = "list", !.watermark = wm, !.highest = wm]
  <2>2. wm \in Nat /\ wm \in wm..Len(log) /\ faults' \in Nat
    BY <2>1 DEF Fault, TypeOK
  <2>3. new \in Run /\ new.highest = wm /\ new.watermark = wm /\ new.keys = {}
    BY <2>2, IdleIsTyped DEF Run, Pcs
  <2>4. run' = [run EXCEPT ![i] = new]
    BY <2>1
  <2> HIDE DEF new
  <2> QED  BY <1>3, <2>2, <2>3, <2>4, RunUpdate DEF ReadCheckpoint, TypeOK
<1>4. ASSUME NEW i \in Runs, List(i) PROVE TypeOK'
  <2>1. PICK files \in SUBSET (0..active) :
          run' = [run EXCEPT ![i].pc = IF files = {} THEN "idle" ELSE "ship",
                             ![i].keys = files \ {active},
                             ![i].live = active \in files]
    BY <1>4 DEF List, OldestKeys
  <2>2. PICK p \in Pcs, l \in BOOLEAN :
          run' = [run EXCEPT ![i].pc = p, ![i].keys = files \ {active}, ![i].live = l]
    <3>1. (IF files = {} THEN "idle" ELSE "ship") \in Pcs /\ (active \in files) \in BOOLEAN
      BY DEF Pcs
    <3> QED  BY <2>1, <3>1, Zenon
  <2> DEFINE new == [run[i] EXCEPT !.pc = p, !.keys = files \ {active}, !.live = l]
  <2>3. run[i] \in Run /\ run \in [Runs -> Run] /\ active \in Nat
    BY DEF TypeOK
  <2>4. run' = [run EXCEPT ![i] = new]
    BY <2>2, <2>3 DEF Run
  <2>5. files \ {active} \in SUBSET Nat /\ files \ {active} \subseteq 0..(active - 1)
    BY <2>3
  <2>6. new \in Run /\ new.highest = run[i].highest /\ new.watermark = run[i].watermark
        /\ new.keys = files \ {active}
    BY <2>3, <2>5 DEF Run
  <2> HIDE DEF new
  <2> QED  BY <1>4, <2>4, <2>5, <2>6, RunUpdate DEF List, TypeOK
<1>5. ASSUME NEW i \in Runs, Ship(i) PROVE TypeOK'
  <2>1. PICK f \in 0..active : ShipFile(i, f)
    BY <1>5 DEF Ship
  <2>2. PICK newest \in {run[i].highest} \cup FreshDated(f, run[i].watermark) :
          /\ \A r \in {run[i].highest} \cup FreshDated(f, run[i].watermark) : r <= newest
          /\ run' = [run EXCEPT ![i].highest = newest,
                                ![i].keys = Done(@, f),
                                ![i].live = @ /\ run[i].keys # {}]
    BY <2>1 DEF ShipFile
  <2> DEFINE new == [run[i] EXCEPT !.highest = newest, !.keys = Done(@, f),
                                   !.live = @ /\ run[i].keys # {}]
  <2>0. run[i] \in Run /\ run \in [Runs -> Run]
    BY DEF TypeOK
  <2>3. run' = [run EXCEPT ![i] = new]
    BY <2>0, <2>2 DEF Run
  <2>4. newest \in run[i].watermark..Len(log) /\ newest \in Nat
    BY <2>2 DEF FreshDated, Holds, Written, Run, TypeOK
  <2>5. run[i] \in Run /\ run[i].keys \subseteq 0..(active - 1)
    BY DEF TypeOK
  <2>6. new \in Run /\ new.highest = newest /\ new.watermark = run[i].watermark
        /\ new.keys \subseteq 0..(active - 1)
    BY <2>4, <2>5 DEF Run, Pcs, Done
  <2>7. delivered' \subseteq Written
    BY <2>1 DEF ShipFile, Fresh, Holds, TypeOK
  <2> HIDE DEF new
  <2> QED  BY <2>1, <2>3, <2>4, <2>6, <2>7, RunUpdate DEF ShipFile, TypeOK
<1>6. ASSUME NEW i \in Runs, Save(i) \/ Lose(i) PROVE TypeOK'
  <2>1. checkpoint' \in 0..Len(log) /\ faults' \in Nat
    BY <1>6 DEF Save, Lose, Fault, TypeOK, Run
  <2>2. run' = [run EXCEPT ![i] = IdleRun] /\ UNCHANGED <<log, active, delivered>>
    BY <1>6 DEF Save, Lose
  <2>3. IdleRun.highest \in IdleRun.watermark..Len(log)
    BY IdleIsTyped DEF TypeOK
  <2>4. IdleRun.keys \subseteq 0..(active - 1) /\ delivered' \subseteq Written
    BY <2>2, IdleIsTyped DEF TypeOK
  <2> QED  BY <2>1, <2>2, <2>3, <2>4, IdleIsTyped, RunUpdate
<1>7. ASSUME NEW i \in Runs, NEW f \in 0..active, StopEarly(i) \/ ShipFails(i, f)
      PROVE TypeOK'
  <2> DEFINE new == [run[i] EXCEPT !.keys = {}, !.live = FALSE]
  <2>0. run[i] \in Run /\ run \in [Runs -> Run]
    BY DEF TypeOK
  <2>1. run' = [run EXCEPT ![i] = new] /\ UNCHANGED <<log, active, checkpoint>>
    BY <1>7, <2>0 DEF StopEarly, ShipFails, Run
  <2>2. run[i] \in Run /\ run[i].highest \in run[i].watermark..Len(log)
    BY DEF TypeOK
  <2>3. new \in Run /\ new.highest = run[i].highest /\ new.watermark = run[i].watermark
        /\ new.keys = {}
    BY <2>2 DEF Run
  <2>4. delivered' \subseteq Written /\ faults' \in Nat
    BY <1>7 DEF StopEarly, ShipFails, PartlyAccepted, Fault, Fresh, Holds, TypeOK
  <2> HIDE DEF new
  <2> QED  BY <2>1, <2>2, <2>3, <2>4, RunUpdate DEF TypeOK
<1>8. CASE UNCHANGED vars
  BY <1>8 DEF vars, Written, TypeOK
<1>9. 0 \in 0..active
  BY DEF TypeOK
<1> QED  BY <1>1, <1>2, <1>3, <1>4, <1>5, <1>6, <1>7, <1>8, <1>9 DEF Next

\* The poller's variables keep their types: the saved watermark is never later
\* than the last record, and no run goes behind the watermark it read.
THEOREM PollerTypeCorrect == Spec => []TypeOK
<1> QED  BY InitType, NextType, PTL DEF Spec

-----------------------------------------------------------------------------
(* At-least-once delivery.                                                 *)

\* Records go to files in order: a later record is in the same or a later file.
FilesGrow ==
  /\ \A r, s \in Written : r <= s => log[r].file <= log[s].file
  /\ \A r \in Written : log[r].file <= active

\* The files on a run's list, the active one under its number.
Listed(i) == run[i].keys \cup (IF run[i].live THEN {active} ELSE {})

\* What a run has shipped or was shipped before it covers its watermarks, and
\* its list leaves out no record that an earlier file than a listed one holds.
RunCovers(i) ==
  /\ 1..run[i].highest \subseteq delivered
  /\ \A f \in Listed(i), r \in Written :
       log[r].file < f => r \in delivered \/ log[r].file \in run[i].keys

IInv == FilesGrow /\ NoSilentGap /\ \A i \in Runs : RunCovers(i)

\* The files of records are numbered up to the active one.
LEMMA FileNumbers ==
  ASSUME TypeOK, FilesGrow, NEW r \in Written
  PROVE  /\ log[r].file \in Nat
         /\ log[r].file <= active
         /\ \A s \in Written : r <= s => log[r].file <= log[s].file
<1>1. log[r] \in Record
  BY DEF TypeOK, Written
<1>2. log[r].file \in Nat
  BY <1>1 DEF Record
<1> QED  BY <1>2 DEF FilesGrow

\* A file that holds a record newer than the watermark is a candidate, because
\* LastModified lags by less than the grace period: either the file was created
\* within the lag, or its write at the start of the lag has settled.
LEMMA NewerIsCandidate ==
  ASSUME TypeOK, FilesGrow, NEW wm \in Nat, NEW r \in Written, wm < r,
         NEW recent \in SUBSET {s \in Written : s > Len(log) - ModifiedLag}
  PROVE  Candidate(log[r].file, wm,
                   {s \in Written : s <= Len(log) - ModifiedLag} \cup recent)
<1> DEFINE f == log[r].file
           edge == Len(log) - ModifiedLag
           settled == {s \in Written : s <= edge} \cup recent
<1>1. r \in Holds(f)
  BY DEF Holds
<1>2. /\ Len(log) \in Nat /\ edge \in Int /\ wm - GraceSeconds \in Int
      /\ wm - GraceSeconds < edge /\ GraceSeconds \in Nat
      /\ \A s \in Written : s \in Int /\ s >= 1 /\ s <= Len(log)
  BY ConstantsAssumption DEF ConstantsAssumption, Written, TypeOK
<1>3. CASE \A s \in Holds(f) : s > edge
  <2>1. \A s \in Holds(f) : s - 1 >= wm - GraceSeconds
    BY <1>2, <1>3 DEF Holds
  <2> QED  BY <1>1, <2>1 DEF Candidate
<1>4. CASE \E s \in Holds(f) : s <= edge
  <2>1. PICK s \in Holds(f) : s <= edge
    BY <1>4
  <2>2. CASE r <= edge
    <3>1. r \in Holds(f) \cap settled
      BY <1>1, <2>2
    <3>2. r >= wm - GraceSeconds
      BY <1>2
    <3> QED  BY <1>1, <3>1, <3>2 DEF Candidate
  <2>3. CASE r > edge
    <3>1. edge \in Written /\ s \in Written /\ s <= edge /\ edge <= r
      BY <1>2, <2>1, <2>3 DEF Holds, Written
    <3>2. log[edge].file = f
      <4>1. log[s].file = f
        BY <2>1 DEF Holds
      <4>2. log[s].file <= log[edge].file /\ log[edge].file <= f
        BY <3>1, FileNumbers
      <4>3. log[edge].file \in Nat /\ f \in Nat
        BY <3>1, FileNumbers
      <4> QED  BY <4>1, <4>2, <4>3
    <3>3. edge \in Holds(f) \cap settled
      BY <3>1, <3>2, <1>2 DEF Holds
    <3>4. edge >= wm - GraceSeconds
      BY <1>2
    <3> QED  BY <1>1, <3>3, <3>4 DEF Candidate
  <2> QED  BY <1>2, <2>2, <2>3
<1> QED  BY <1>2, <1>3, <1>4 DEF Holds

\* The cut to MAX_KEYS_PER_RUN keeps every file before one it keeps.
LEMMA OldestFirst ==
  ASSUME NEW n \in Nat, NEW files \in SUBSET (0..n),
         NEW g \in OldestKeys(files), NEW f \in files, f <= g
  PROVE  f \in OldestKeys(files)
<1> DEFINE A == {h \in files : h <= f}
           B == {h \in files : h <= g}
<1>1. IsFiniteSet(B)
  <2>1. IsFiniteSet(0..n)
    BY FS_Interval
  <2> QED  BY <2>1, FS_Subset
<1>2. A \subseteq B
  <2>1. SUFFICES ASSUME NEW h \in files, h <= f PROVE h <= g
    OBVIOUS
  <2>2. f \in Int /\ h \in Int /\ g \in Int
    BY DEF OldestKeys
  <2> QED  BY <2>1, <2>2
<1>3. Cardinality(A) <= Cardinality(B) /\ IsFiniteSet(A)
  BY <1>1, <1>2, FS_Subset
<1>4. Cardinality(A) \in Nat /\ Cardinality(B) \in Nat
  BY <1>1, <1>3, FS_CardinalityType
<1>5. Cardinality(B) <= MaxKeysPerRun
  BY DEF OldestKeys
<1>6. Cardinality(A) <= MaxKeysPerRun
  BY <1>3, <1>4, <1>5, ConstantsAssumption DEF ConstantsAssumption
<1> QED  BY <1>6 DEF OldestKeys

\* With nothing written there is nothing to cover.
LEMMA InitCovers == Init => IInv
  BY DEF Init, IInv, FilesGrow, NoSilentGap, RunCovers, Listed, IdleRun, Written

\* A step that delivers, or not, leaves what the other runs cover covered.
LEMMA StaysCovered ==
  ASSUME TypeOK, NEW j \in Runs, RunCovers(j), log' = log, active' = active,
         delivered \subseteq delivered', run'[j] = run[j]
  PROVE  RunCovers(j)'
  BY DEF RunCovers, Listed, Written

\* A run that has nothing listed covers what its watermark covers.
LEMMA NothingListed ==
  ASSUME TypeOK, NEW j \in Runs, run'[j].keys = {}, run'[j].live = FALSE,
         1..run'[j].highest \subseteq delivered'
  PROVE  RunCovers(j)'
  BY DEF RunCovers, Listed

\* A listing finds, or lies behind, every record its run has to ship: no record
\* newer than the watermark is in a file before a listed one and not listed.
LEMMA ListCovers ==
  ASSUME TypeOK, IInv, NEW i \in Runs, List(i)
  PROVE  IInv'
<1>1. PICK recent \in SUBSET {r \in Written : r > Len(log) - ModifiedLag} :
        LET settled == {r \in Written : r <= Len(log) - ModifiedLag} \cup recent
            files == OldestKeys({f \in 0..active : Candidate(f, run[i].watermark, settled)})
        IN  run' = [run EXCEPT ![i].pc = IF files = {} THEN "idle" ELSE "ship",
                               ![i].keys = files \ {active},
                               ![i].live = active \in files]
  BY DEF List
<1> DEFINE settled == {r \in Written : r <= Len(log) - ModifiedLag} \cup recent
           candidates == {f \in 0..active : Candidate(f, run[i].watermark, settled)}
           files == OldestKeys(candidates)
<1>2. /\ run[i] \in Run /\ active \in Nat
      /\ run[i].highest \in run[i].watermark..Len(log)
  BY DEF TypeOK
<1>3. /\ run'[i].keys = files \ {active}
      /\ run'[i].live = (active \in files)
      /\ run'[i].highest = run[i].highest
      /\ \A j \in Runs \ {i} : run'[j] = run[j]
  BY <1>1 DEF TypeOK, Run
<1>4. UNCHANGED <<log, active, checkpoint, delivered>>
  BY DEF List
<1>5. ASSUME NEW f \in files, NEW r \in Written, log[r].file < f
      PROVE  r \in delivered \/ log[r].file \in files \ {active}
  <2>1. CASE r <= run[i].watermark
    <3>1. r \in 1..run[i].highest
      BY <1>2, <2>1 DEF Written, Run
    <3> QED  BY <3>1 DEF IInv, RunCovers
  <2>2. CASE ~(r <= run[i].watermark)
    <3>1. run[i].watermark < r /\ run[i].watermark \in Nat
      BY <1>2, <2>2 DEF Run, Written
    <3>2. Candidate(log[r].file, run[i].watermark, settled)
      BY <3>1, NewerIsCandidate DEF IInv
    <3>3. log[r].file \in Nat /\ log[r].file <= active
      BY FileNumbers DEF IInv
    <3>4. f \in 0..active /\ log[r].file \in candidates
      BY <1>2, <3>2, <3>3 DEF OldestKeys
    <3>5. log[r].file <= f /\ log[r].file # active
      BY <1>2, <1>5, <3>3, <3>4
    <3>6. candidates \in SUBSET (0..active)
      OBVIOUS
    <3> HIDE DEF candidates, settled
    <3>7. log[r].file \in files
      BY <1>2, <3>4, <3>5, <3>6, OldestFirst
    <3> QED  BY <3>5, <3>7
  <2> QED  BY <2>1, <2>2
<1> HIDE DEF files
<1>6. RunCovers(i)'
  <2>1. Listed(i)' = files
    BY <1>3, <1>4 DEF Listed
  <2> QED  BY <1>3, <1>4, <1>5, <2>1 DEF RunCovers, IInv, Written
<1>7. \A j \in Runs \ {i} : RunCovers(j)'
  BY <1>3, <1>4, StaysCovered DEF IInv
<1> QED  BY <1>4, <1>6, <1>7 DEF IInv, FilesGrow, NoSilentGap, Written

\* A file shipped after every record of the files before it was delivered
\* leaves no gap below the newest record it shipped.
LEMMA ShipCovers ==
  ASSUME TypeOK, IInv, NEW i \in Runs, NEW f \in 0..active, ShipFile(i, f)
  PROVE  IInv'
<1>1. PICK newest \in {run[i].highest} \cup FreshDated(f, run[i].watermark) :
        run' = [run EXCEPT ![i].highest = newest,
                           ![i].keys = Done(@, f),
                           ![i].live = @ /\ run[i].keys # {}]
  BY DEF ShipFile
<1>2. /\ UNCHANGED <<log, active, checkpoint>>
      /\ delivered' = delivered \cup Fresh(f, run[i].watermark)
  BY DEF ShipFile
<1>3. /\ run'[i].highest = newest
      /\ run'[i].keys = run[i].keys \ {f}
      /\ run'[i].live = (run[i].live /\ run[i].keys # {})
      /\ \A j \in Runs \ {i} : run'[j] = run[j]
  BY <1>1 DEF TypeOK, Run, Done
<1>4. Holds(f) \subseteq delivered'
  <2>1. ASSUME NEW r \in Holds(f), ~(r > run[i].watermark) PROVE r \in delivered
    <3>1. r \in 1..run[i].highest
      BY <2>1 DEF Holds, Written, TypeOK, Run
    <3> QED  BY <3>1 DEF IInv, RunCovers
  <2> QED  BY <1>2, <2>1 DEF Fresh
<1>5. f \in Listed(i) /\ \A r \in Written : log[r].file < f => log[r].file \notin run[i].keys
  <2>1. ASSUME NEW r \in Written PROVE log[r].file \in Nat
    BY FileNumbers DEF IInv
  <2>2. run[i].keys \subseteq 0..(active - 1) /\ active \in Nat
    BY DEF TypeOK
  <2> QED  BY <2>1, <2>2 DEF ShipFile, NextFile, Listed
<1>6. \A r \in Written : log[r].file < f => r \in delivered
  BY <1>5 DEF IInv, RunCovers
<1>7. 1..newest \subseteq delivered'
  <2>1. CASE newest = run[i].highest
    BY <1>2, <2>1 DEF IInv, RunCovers
  <2>2. CASE newest \in Holds(f)
    <3>1. ASSUME NEW r \in 1..newest PROVE r \in delivered'
      <4>1. r \in Written /\ newest \in Written /\ r <= newest /\ log[newest].file = f
        BY <2>2 DEF Holds, Written, TypeOK
      <4>2. log[r].file <= f /\ log[r].file \in Nat /\ f \in Nat
        BY <4>1, FileNumbers DEF IInv
      <4>3. CASE log[r].file = f
        BY <1>4, <4>1, <4>3 DEF Holds
      <4>4. CASE log[r].file < f
        BY <1>2, <1>6, <4>1, <4>4
      <4> QED  BY <4>2, <4>3, <4>4
    <3> QED  BY <3>1
  <2> QED  BY <2>1, <2>2 DEF FreshDated
<1>8. RunCovers(i)'
  <2>1. ASSUME NEW g \in Listed(i)', NEW r \in Written, log[r].file < g
        PROVE  r \in delivered' \/ log[r].file \in run[i].keys \ {f}
    <3>1. g \in Listed(i)
      BY <1>2, <1>3 DEF Listed
    <3>2. r \in delivered \/ log[r].file \in run[i].keys
      BY <2>1, <3>1 DEF IInv, RunCovers
    <3>3. log[r].file = f => r \in delivered'
      BY <1>4 DEF Holds
    <3> QED  BY <1>2, <3>2, <3>3
  <2> QED  BY <1>2, <1>3, <1>7, <2>1 DEF RunCovers, Written
<1>9. \A j \in Runs \ {i} : RunCovers(j)'
  BY <1>2, <1>3, StaysCovered DEF IInv
<1>10. NoSilentGap'
  BY <1>2 DEF IInv, NoSilentGap
<1> QED  BY <1>2, <1>8, <1>9, <1>10 DEF IInv, FilesGrow, Written

\* Writing a record to the active file takes nothing from what runs cover: the
\* new record is in no file before a listed one.
LEMMA WriteCovers ==
  ASSUME TypeOK, IInv, NEW dated \in BOOLEAN, Write(dated)
  PROVE  IInv'
<1> DEFINE e == [file |-> active, dated |-> dated]
<1>1. e \in Record /\ e.file = active
  BY DEF TypeOK, Record
<1> HIDE DEF e
<1>2. /\ Len(log') = Len(log) + 1
      /\ \A r \in Written : log'[r] = log[r]
      /\ log'[Len(log) + 1].file = active
  BY <1>1, Appended DEF Write, TypeOK, e, Written
<1>3. UNCHANGED <<active, checkpoint, run, delivered>>
  BY DEF Write
<1>4. Written' = Written \cup {Len(log) + 1} /\ \A r \in Written : r < Len(log) + 1
  BY <1>2 DEF Written, TypeOK
<1>5. FilesGrow'
  <2>1. ASSUME NEW r \in Written', NEW s \in Written', r <= s
        PROVE  log'[r].file <= log'[s].file
    <3>1. CASE s \in Written
      <4>1. r \in Written
        BY <1>4, <2>1, <3>1 DEF Written, TypeOK
      <4> QED  BY <1>2, <2>1, <3>1, <4>1, FileNumbers DEF IInv
    <3>2. CASE s = Len(log) + 1
      <4>1. CASE r \in Written
        BY <1>2, <3>2, <4>1, FileNumbers DEF IInv
      <4>2. CASE r = Len(log) + 1
        BY <1>2, <3>2, <4>2 DEF TypeOK
      <4> QED  BY <1>4, <4>1, <4>2
    <3> QED  BY <1>4, <3>1, <3>2
  <2>2. \A r \in Written' : log'[r].file <= active
    BY <1>2, <1>4, FileNumbers DEF IInv, TypeOK
  <2> QED  BY <1>3, <2>1, <2>2 DEF FilesGrow
<1>6. ASSUME NEW j \in Runs PROVE RunCovers(j)'
  <2>1. ASSUME NEW f \in Listed(j), NEW r \in Written', log'[r].file < f
        PROVE  r \in delivered \/ log'[r].file \in run[j].keys
    <3>1. f \in 0..active
      BY DEF Listed, TypeOK
    <3>2. r \in Written
      BY <1>2, <1>4, <2>1, <3>1 DEF TypeOK
    <3> QED  BY <1>2, <2>1, <3>2 DEF IInv, RunCovers
  <2> QED  BY <1>3, <2>1 DEF RunCovers, Listed, IInv
<1> QED  BY <1>3, <1>5, <1>6 DEF IInv, NoSilentGap

\* A rotation that falls when no run has the active key on its list changes no
\* list: the rotated file is what the next listing finds.
LEMMA RotateCovers ==
  ASSUME TypeOK, IInv, ~RotatesAnytime, Rotate
  PROVE  IInv'
<1>1. /\ \A j \in Runs : ~run[j].live
      /\ active' = active + 1
      /\ UNCHANGED <<log, checkpoint, run, delivered>>
  BY DEF Rotate
<1>2. FilesGrow'
  <2>1. \A r \in Written : log[r].file <= active + 1
    BY FileNumbers DEF IInv, TypeOK
  <2> QED  BY <1>1, <2>1 DEF IInv, FilesGrow, Written
<1>3. \A j \in Runs : RunCovers(j)'
  BY <1>1 DEF IInv, RunCovers, Listed, Written
<1> QED  BY <1>1, <1>2, <1>3 DEF IInv, NoSilentGap

\* Every step keeps the watermarks behind what was delivered, and the lists whole.
LEMMA NextCovers ==
  ASSUME ~RotatesAnytime
  PROVE  TypeOK /\ IInv /\ [Next]_vars => IInv'
<1> SUFFICES ASSUME TypeOK, IInv, [Next]_vars PROVE IInv'
  OBVIOUS
<1>1. ASSUME NEW i \in Runs, ReadCheckpoint(i) PROVE IInv'
  <2>1. PICK wm \in {0, checkpoint} :
          run' = [run EXCEPT ![i] = [IdleRun EXCEPT !.pc = "list", !.watermark = wm,
                                                    !.highest = wm]]
    BY <1>1 DEF ReadCheckpoint
  <2>2. UNCHANGED <<log, active, checkpoint, delivered>>
    BY <1>1 DEF ReadCheckpoint
  <2>3. /\ run'[i].highest = wm /\ run'[i].keys = {} /\ run'[i].live = FALSE
        /\ \A j \in Runs \ {i} : run'[j] = run[j]
    <3>1. run'[i] = [IdleRun EXCEPT !.pc = "list", !.watermark = wm, !.highest = wm]
      BY <2>1 DEF TypeOK
    <3>2. IdleRun.keys = {} /\ IdleRun.live = FALSE /\ IdleRun \in Run
      BY IdleIsTyped DEF IdleRun
    <3>3. run'[i].highest = wm /\ run'[i].keys = {} /\ run'[i].live = FALSE
      BY <3>1, <3>2 DEF Run
    <3>4. \A j \in Runs \ {i} : run'[j] = run[j]
      BY <2>1 DEF TypeOK
    <3> QED  BY <3>3, <3>4
  <2>4. 1..wm \subseteq delivered'
    BY <2>2 DEF IInv, NoSilentGap
  <2>5. RunCovers(i)'
    BY <2>3, <2>4, NothingListed
  <2>6. \A j \in Runs \ {i} : RunCovers(j)'
    BY <2>2, <2>3, StaysCovered DEF IInv
  <2> QED  BY <2>2, <2>5, <2>6 DEF IInv, FilesGrow, NoSilentGap, Written
<1>2. ASSUME NEW i \in Runs, Save(i) \/ Lose(i) PROVE IInv'
  <2>1. /\ UNCHANGED <<log, active, delivered>>
        /\ run' = [run EXCEPT ![i] = IdleRun]
        /\ checkpoint' \in {checkpoint, run[i].highest}
    BY <1>2 DEF Save, Lose
  <2>2. /\ run'[i].highest = 0 /\ run'[i].keys = {} /\ run'[i].live = FALSE
        /\ \A j \in Runs \ {i} : run'[j] = run[j]
    <3>1. run'[i] = IdleRun /\ \A j \in Runs \ {i} : run'[j] = run[j]
      BY <2>1 DEF TypeOK
    <3> QED  BY <3>1 DEF IdleRun
  <2>3. RunCovers(i)'
    <3>1. 1..run'[i].highest \subseteq delivered'
      BY <2>2
    <3> QED  BY <2>2, <3>1, NothingListed
  <2>4. \A j \in Runs \ {i} : RunCovers(j)'
    BY <2>1, <2>2, StaysCovered DEF IInv
  <2>5. NoSilentGap'
    BY <2>1 DEF IInv, NoSilentGap, RunCovers
  <2> QED  BY <2>1, <2>3, <2>4, <2>5 DEF IInv, FilesGrow, Written
<1>3. ASSUME NEW i \in Runs, NEW f \in 0..active, StopEarly(i) \/ ShipFails(i, f)
      PROVE IInv'
  <2>1. /\ UNCHANGED <<log, active, checkpoint>>
        /\ run' = [run EXCEPT ![i].keys = {}, ![i].live = FALSE]
        /\ delivered \subseteq delivered'
    BY <1>3 DEF StopEarly, ShipFails
  <2>2. /\ run'[i].highest = run[i].highest /\ run'[i].keys = {} /\ run'[i].live = FALSE
        /\ \A j \in Runs \ {i} : run'[j] = run[j]
    BY <2>1 DEF TypeOK, Run
  <2>3. RunCovers(i)'
    BY <2>1, <2>2, NothingListed DEF IInv, RunCovers
  <2>4. \A j \in Runs \ {i} : RunCovers(j)'
    BY <2>1, <2>2, StaysCovered DEF IInv
  <2> QED  BY <2>1, <2>3, <2>4 DEF IInv, FilesGrow, NoSilentGap, Written
<1>4. ASSUME NEW i \in Runs, Ship(i) PROVE IInv'
  BY <1>4, ShipCovers DEF Ship
<1>5. CASE UNCHANGED vars
  BY <1>5 DEF vars, IInv, FilesGrow, NoSilentGap, RunCovers, Listed, Written
<1>6. 0 \in 0..active
  BY DEF TypeOK
<1> QED  BY <1>1, <1>2, <1>3, <1>4, <1>5, <1>6, WriteCovers, RotateCovers, ListCovers DEF Next

\* Provided no rotation falls between a listing and the read of the active key,
\* the watermark never passes a record that was not delivered, however many
\* runs overlap and whatever fails: at-least-once delivery, no silent gaps.
THEOREM AtLeastOnce ==
  ASSUME ~RotatesAnytime
  PROVE  Spec => []NoSilentGap
<1>1. Init => TypeOK /\ IInv
  BY InitType, InitCovers
<1>2. TypeOK /\ IInv /\ [Next]_vars => (TypeOK /\ IInv)'
  BY NextType, NextCovers
<1>3. TypeOK /\ IInv => NoSilentGap
  BY DEF IInv
<1> QED  BY <1>1, <1>2, <1>3, PTL DEF Spec
=============================================================================
