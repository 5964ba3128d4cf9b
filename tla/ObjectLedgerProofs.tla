-------------------------- MODULE ObjectLedgerProofs --------------------------
(***************************************************************************)
(* Type correctness of the object ledger, the deduplication by key and     *)
(* ETag, and what becomes of its poison pills, for every set of keys and   *)
(* of overlapping workers and every value of the constants.                *)
(***************************************************************************)
EXTENDS ObjectLedger, TLAPS

-----------------------------------------------------------------------------
(* Type correctness.                                                       *)

LEMMA InitType == Init => TypeOK
  BY ConstantsAssumption
     DEF ConstantsAssumption, Init, TypeOK, Row, NoRow, Statuses, Worker, Pcs

\* A worker that moves without changing what it works on.
LEMMA WorkerMoves ==
  ASSUME TypeOK, NEW w \in Workers, NEW p \in Pcs,
         worker' = [worker EXCEPT ![w].pc = p]
  PROVE  /\ worker' \in [Workers -> Worker]
         /\ worker'[w].pc = p
         /\ \A v \in Workers \ {w} : worker'[v] = worker[v]
         /\ \A v \in Workers : worker'[v].etag = worker[v].etag /\ worker'[v].key = worker[v].key
  BY DEF TypeOK, Worker

\* What a worker holds: a key, and a version of it that was written.
LEMMA WorkerHolds ==
  ASSUME TypeOK, NEW w \in Workers
  PROVE  /\ worker[w].key \in Keys
         /\ worker[w].etag \in 0..version[worker[w].key]
         /\ version[worker[w].key] \in 0..MaxVersions
         /\ row[worker[w].key] \in Row
  BY DEF TypeOK, Worker

\* The rows the updates make, from a row and a written version.
LEMMA RowUpdates ==
  ASSUME NEW r \in Row, NEW e \in Nat
  PROVE  /\ Claimed(r, e) \in Row /\ Succeeded(r, e) \in Row
         /\ Failed(r, e) \in Row /\ Promoted(r) \in Row
         /\ Claimed(r, e).etag = e /\ Succeeded(r, e).etag = e
         /\ Failed(r, e).etag = e /\ Promoted(r).etag = r.etag
  <1>1. Claimed(r, e) \in Row /\ Claimed(r, e).etag = e
    BY DEF Claimed, Row, Statuses
  <1>2. (r.expires \/ TtlDays) \in BOOLEAN
    BY Zenon
  <1>3. Succeeded(r, e) \in Row /\ Succeeded(r, e).etag = e
    <2> DEFINE b == r.expires \/ TtlDays
    <2> DEFINE new == [r EXCEPT !.status = "success", !.etag = e, !.failures = 0, !.expires = b]
    <2>1. b \in BOOLEAN
      BY <1>2
    <2>2. Succeeded(r, e) = new
      BY DEF Succeeded
    <2> HIDE DEF b
    <2>3. new \in Row
      BY <2>1 DEF Row, Statuses
    <2>4. new.etag = e
      BY DEF Row
    <2> QED  BY <2>2, <2>3, <2>4
  <1>4. Failed(r, e) \in Row /\ Failed(r, e).etag = e
    <2> DEFINE n == r.failures + 1
    <2> DEFINE new == [r EXCEPT !.status = "failed", !.etag = e, !.failures = n]
    <2>1. n \in Nat
      BY DEF Row
    <2>2. Failed(r, e) = new
      BY DEF Failed
    <2> HIDE DEF n
    <2>3. new \in Row
      BY <2>1 DEF Row, Statuses
    <2>4. new.etag = e
      BY DEF Row
    <2> QED  BY <2>2, <2>3, <2>4
  <1>5. Promoted(r) \in Row /\ Promoted(r).etag = r.etag
    BY DEF Promoted, Row, Statuses
  <1> QED  BY <1>1, <1>3, <1>4, <1>5

\* One more for every ETag that the row r had and no longer has.
Covered(k, r, v) == IF row[k].etag = v /\ r.etag # v THEN 1 ELSE 0

\* One row is written, with a typed row of a written version.
LEMMA WriteFacts ==
  ASSUME TypeOK, NEW k \in Keys, NEW r \in Row, r.etag \in 0..version[k], Write(k, r)
  PROVE  /\ row' \in [Keys -> Row]
         /\ row'[k] = r
         /\ \A j \in Keys \ {k} : row'[j] = row[j] /\ replaced'[j] = replaced[j]
         /\ \A j \in Keys : row'[j].etag \in 0..version[j]
         /\ replaced' \in [Keys -> [1..MaxVersions -> Nat]]
         /\ \A v \in 1..MaxVersions :
              replaced'[k][v] = replaced[k][v] + Covered(k, r, v)
<1> DEFINE new == [v \in 1..MaxVersions |->
                     IF row[k].etag = v /\ r.etag # v THEN replaced[k][v] + 1
                                                      ELSE replaced[k][v]]
<1>1. /\ row \in [Keys -> Row] /\ replaced \in [Keys -> [1..MaxVersions -> Nat]]
      /\ \A j \in Keys : row[j].etag \in 0..version[j]
  BY DEF TypeOK
<1>2. row' = [row EXCEPT ![k] = r] /\ replaced' = [replaced EXCEPT ![k] = new]
  BY DEF Write
<1>3. \A v \in 1..MaxVersions : replaced[k][v] \in Nat
  BY <1>1
<1>4. new \in [1..MaxVersions -> Nat]
  BY <1>3
<1>5. \A v \in 1..MaxVersions : new[v] = replaced[k][v] + Covered(k, r, v)
  BY <1>3 DEF Covered
<1> HIDE DEF new
<1> QED  BY <1>1, <1>2, <1>4, <1>5

\* A step that leaves the bucket and the history of claims alone.
LEMMA QuietStep ==
  ASSUME TypeOK, row' \in [Keys -> Row], worker' \in [Workers -> Worker],
         replaced' \in [Keys -> [1..MaxVersions -> Nat]],
         \A k \in Keys : row'[k].etag \in 0..version[k],
         \A w \in Workers : worker'[w].etag = worker[w].etag /\ worker'[w].key = worker[w].key,
         UNCHANGED <<version, attempts, orphaned, expiries>>, faults' \in Nat
  PROVE  TypeOK'
  BY DEF TypeOK

LEMMA FaultType == TypeOK /\ Fault => faults' \in Nat
  BY DEF TypeOK, Fault

\* What w's marks write on its key.
Marks(w) ==
  LET r == row[worker[w].key]
      e == worker[w].etag
  IN  {Succeeded(r, e), Failed(r, e), Failed(Failed(r, e), e), Promoted(r)}

\* A mark is typed, and of w's version unless it is a promotion.
LEMMA Marked ==
  ASSUME TypeOK, NEW w \in Workers, NEW r \in Marks(w)
  PROVE  /\ r \in Row /\ r.etag \in 0..version[worker[w].key]
         /\ \/ r.status \in {"success", "failed"} /\ r.etag = worker[w].etag
            \/ /\ r.status = "poison_pill" /\ r.expires = FALSE
               /\ r.etag = row[worker[w].key].etag
<1> DEFINE k == worker[w].key
<1> DEFINE e == worker[w].etag
<1>1. k \in Keys /\ row[k] \in Row /\ e \in 0..version[k] /\ version[k] \in Nat
  BY WorkerHolds
<1>2. e \in Nat /\ row[k].etag \in 0..version[k]
  BY <1>1 DEF TypeOK
<1> HIDE DEF k, e
<1>3. r \in {Succeeded(row[k], e), Failed(row[k], e), Failed(Failed(row[k], e), e),
             Promoted(row[k])}
  BY DEF k, e, Marks
<1>4. \A x \in Row : /\ Succeeded(x, e).status = "success" /\ Failed(x, e).status = "failed"
                     /\ Promoted(x).status = "poison_pill" /\ Promoted(x).expires = FALSE
  BY DEF Succeeded, Failed, Promoted, Row
<1>5. CASE r = Succeeded(row[k], e)
  BY <1>1, <1>2, <1>4, <1>5, RowUpdates DEF k, e
<1>6. CASE r = Failed(row[k], e)
  BY <1>1, <1>2, <1>4, <1>6, RowUpdates DEF k, e
<1>7. CASE r = Failed(Failed(row[k], e), e)
  <2> DEFINE once == Failed(row[k], e)
  <2>1. once \in Row /\ r = Failed(once, e)
    BY <1>1, <1>2, <1>7, RowUpdates
  <2> HIDE DEF once
  <2>2. r \in Row /\ r.etag = e /\ r.status = "failed"
    BY <1>2, <1>4, <2>1, RowUpdates
  <2> QED  BY <1>1, <2>2 DEF k, e
<1>8. CASE r = Promoted(row[k])
  BY <1>1, <1>2, <1>4, <1>8, RowUpdates DEF k, e
<1> QED  BY <1>3, <1>5, <1>6, <1>7, <1>8

\* The steps of a worker that are no claim: it writes a mark, or nothing, and moves.
MarksOrMoves(w, p) ==
  /\ \/ NothingWritten
     \/ \E r \in Marks(w) : Write(worker[w].key, r)
  /\ worker' = [worker EXCEPT ![w].pc = p]
  /\ UNCHANGED <<version, attempts, orphaned, expiries>>
  /\ faults' \in Nat

LEMMA MarkType ==
  ASSUME TypeOK, NEW w \in Workers, NEW p \in Pcs, MarksOrMoves(w, p)
  PROVE  TypeOK'
<1>1. /\ row' \in [Keys -> Row] /\ replaced' \in [Keys -> [1..MaxVersions -> Nat]]
      /\ \A k \in Keys : row'[k].etag \in 0..version[k]
  <2>1. CASE NothingWritten
    BY <2>1 DEF TypeOK, NothingWritten
  <2>2. ASSUME NEW r \in Marks(w), Write(worker[w].key, r) PROVE <1>1!:
    BY <2>2, Marked, WorkerHolds, WriteFacts
  <2> QED  BY <2>1, <2>2 DEF MarksOrMoves
<1> QED  BY <1>1, WorkerMoves, QuietStep DEF MarksOrMoves

\* What a claim does to the history.
LEMMA ClaimCounts ==
  ASSUME TypeOK, NEW w \in Workers, worker[w].etag \in 1..MaxVersions,
         attempts' = [attempts EXCEPT ![worker[w].key][worker[w].etag] = @ + 1]
  PROVE  /\ attempts' \in [Keys -> [1..MaxVersions -> Nat]]
         /\ attempts'[worker[w].key][worker[w].etag] = attempts[worker[w].key][worker[w].etag] + 1
         /\ \A k \in Keys \ {worker[w].key} : attempts'[k] = attempts[k]
  <1> DEFINE k == worker[w].key
  <1> DEFINE e == worker[w].etag
  <1> DEFINE new == [attempts[k] EXCEPT ![e] = @ + 1]
  <1>1. k \in Keys /\ e \in 1..MaxVersions /\ attempts \in [Keys -> [1..MaxVersions -> Nat]]
    BY WorkerHolds DEF TypeOK
  <1>2. attempts' = [attempts EXCEPT ![k] = new]
    BY <1>1
  <1> HIDE DEF k, e
  <1>3. new \in [1..MaxVersions -> Nat] /\ new[e] = attempts[k][e] + 1
    <2>1. attempts[k] \in [1..MaxVersions -> Nat]
      BY <1>1
    <2>2. attempts[k][e] \in Nat
      BY <1>1, <2>1
    <2> QED  BY <1>1, <2>1, <2>2
  <1> HIDE DEF new
  <1>4. /\ attempts' \in [Keys -> [1..MaxVersions -> Nat]]
        /\ attempts'[k] = new
        /\ \A j \in Keys \ {k} : attempts'[j] = attempts[j]
    BY <1>1, <1>2, <1>3
  <1> QED  BY <1>3, <1>4 DEF k, e

-----------------------------------------------------------------------------
(* The invariant.                                                          *)

\* A worker that is not idle was given a version the bucket held.
HoldsVersion == \A w \in Workers : worker[w].pc # "idle" => worker[w].etag >= 1

\* A row that is not there has no ETag.
AbsentHasNone == \A k \in Keys : row[k].status = "absent" => row[k].etag = 0

\* What AtMostOnce needs: a version whose row is not there any more has been paid
\* for, by an expiry or by the version that replaced it.
Present(k, v) == IF row[k].etag = v THEN 1 ELSE 0

PaidFor ==
  \A k \in Keys, v \in 1..MaxVersions :
    attempts[k][v] <= expiries[k] + replaced[k][v] + Present(k, v)

PillsNeverExpire == \A k \in Keys : row[k].status = "poison_pill" => row[k].expires = FALSE

IInv == TypeOK /\ HoldsVersion /\ AbsentHasNone /\ PaidFor /\ PillsNeverExpire

\* The history counts.
LEMMA Counts ==
  ASSUME TypeOK, NEW k \in Keys, NEW v \in 1..MaxVersions
  PROVE  attempts[k][v] \in Nat /\ expiries[k] \in Nat /\ replaced[k][v] \in Nat
  BY DEF TypeOK

LEMMA InitInv == Init => IInv
<1> SUFFICES ASSUME Init PROVE IInv
  OBVIOUS
<1>1. TypeOK
  BY InitType
<1>2. HoldsVersion
  BY DEF Init, HoldsVersion
<1>3. AbsentHasNone /\ PillsNeverExpire
  BY DEF Init, AbsentHasNone, PillsNeverExpire, NoRow
<1>4. PaidFor
  <2> SUFFICES ASSUME NEW k \in Keys, NEW v \in 1..MaxVersions
               PROVE  attempts[k][v] <= expiries[k] + replaced[k][v] + Present(k, v)
    BY DEF PaidFor
  <2>1. attempts[k][v] = 0 /\ expiries[k] = 0 /\ replaced[k][v] = 0
    BY DEF Init
  <2> QED  BY <2>1 DEF Present
<1> QED  BY <1>1, <1>2, <1>3, <1>4 DEF IInv

-----------------------------------------------------------------------------
(* Every step keeps the invariant.                                         *)

\* A worker that lists holds a version the bucket has.
LEMMA ListType ==
  ASSUME TypeOK, NEW w \in Workers, NEW k \in Keys, List(w, k)
  PROVE  TypeOK' /\ worker'[w].etag >= 1 /\ \A v \in Workers \ {w} : worker'[v] = worker[v]
<1> DEFINE new == [pc |-> "claim", key |-> k, etag |-> version[k]]
<1>1. version[k] \in Nat \ {0} /\ version[k] \in 0..MaxVersions
  BY ConstantsAssumption DEF ConstantsAssumption, List, TypeOK
<1>2. new \in Worker /\ new.etag = version[k] /\ new.key = k
  BY <1>1 DEF Worker, Pcs
<1>3. worker' = [worker EXCEPT ![w] = new]
  BY DEF List
<1> HIDE DEF new
<1>4. /\ worker' \in [Workers -> Worker] /\ worker'[w] = new
      /\ \A v \in Workers \ {w} : worker'[v] = worker[v]
  BY <1>2, <1>3 DEF TypeOK
<1>5. \A v \in Workers : worker'[v].etag \in 0..version[worker'[v].key]
  <2>1. worker'[w].etag \in 0..version[worker'[w].key]
    BY <1>1, <1>2, <1>4
  <2>2. \A v \in Workers \ {w} : worker[v].etag \in 0..version[worker[v].key]
    BY WorkerHolds
  <2> QED  BY <1>4, <2>1, <2>2
<1> QED  BY <1>1, <1>2, <1>4, <1>5 DEF List, TypeOK

\* What a write does to PaidFor, when the attempts change as a claim changes them,
\* or not at all.
LEMMA WriteInv ==
  ASSUME IInv, TypeOK', NEW k \in Keys, NEW r \in Row, r.etag \in 0..version[k], Write(k, r),
         r.status # "absent", r.status = "poison_pill" => r.expires = FALSE,
         UNCHANGED <<version, expiries>>,
         \A j \in Keys \ {k} : attempts'[j] = attempts[j],
         \A v \in 1..MaxVersions :
           \/ attempts'[k][v] = attempts[k][v]
           \/ attempts'[k][v] = attempts[k][v] + 1 /\ row[k].etag # v /\ r.etag = v
  PROVE  AbsentHasNone' /\ PaidFor' /\ PillsNeverExpire'
<1>1. /\ row'[k] = r
      /\ \A j \in Keys \ {k} : row'[j] = row[j] /\ replaced'[j] = replaced[j]
      /\ \A v \in 1..MaxVersions : replaced'[k][v] = replaced[k][v] + Covered(k, r, v)
  BY WriteFacts DEF IInv
<1>2. AbsentHasNone'
  BY <1>1 DEF IInv, AbsentHasNone
<1>3. PillsNeverExpire'
  BY <1>1 DEF IInv, PillsNeverExpire
<1>4. PaidFor'
  <2> SUFFICES ASSUME NEW j \in Keys, NEW v \in 1..MaxVersions
               PROVE  attempts'[j][v] <= expiries[j] + replaced'[j][v] + Present(j, v)'
    BY DEF PaidFor
  <2>1. attempts[j][v] <= expiries[j] + replaced[j][v] + Present(j, v)
    BY DEF IInv, PaidFor
  <2>2. CASE j # k
    BY <1>1, <2>1, <2>2 DEF Present
  <2>3. CASE j = k
    <3>1. attempts[k][v] \in Nat /\ expiries[k] \in Nat /\ replaced[k][v] \in Nat
      BY Counts DEF IInv
    <3>2. Present(j, v)' = IF r.etag = v THEN 1 ELSE 0
      BY <1>1, <2>3 DEF Present
    <3>3. replaced'[k][v] = replaced[k][v] + Covered(k, r, v)
      BY <1>1
    <3> QED  BY <2>1, <2>3, <3>1, <3>2, <3>3 DEF Present, Covered
  <2> QED  BY <2>2, <2>3
<1> QED  BY <1>2, <1>3, <1>4

\* A claim, answered or not, finds another ETag, or no row, and a version.
LEMMA ClaimFacts ==
  ASSUME IInv, NEW w \in Workers, worker[w].pc = "claim",
         Claimable(row[worker[w].key], worker[w].etag)
  PROVE  /\ worker[w].key \in Keys /\ worker[w].etag \in 1..MaxVersions
         /\ worker[w].etag \in 0..version[worker[w].key]
         /\ row[worker[w].key].etag # worker[w].etag
         /\ row[worker[w].key].status # "poison_pill"
         /\ Claimed(row[worker[w].key], worker[w].etag) \in Row
<1> DEFINE k == worker[w].key
<1> DEFINE e == worker[w].etag
<1>1. /\ k \in Keys /\ e \in 1..MaxVersions /\ e \in 0..version[k] /\ e \in Nat
      /\ row[k] \in Row
  BY WorkerHolds, ConstantsAssumption DEF ConstantsAssumption, IInv, HoldsVersion
<1>2. row[k].etag # e /\ row[k].status # "poison_pill"
  BY <1>1 DEF Claimable, IInv, AbsentHasNone
<1>3. Claimed(row[k], e) \in Row
  BY <1>1, RowUpdates
<1> QED  BY <1>1, <1>2, <1>3

LEMMA ClaimInv ==
  ASSUME IInv, NEW w \in Workers, Claim(w) \/ ClaimLost(w)
  PROVE  IInv'
<1> DEFINE k == worker[w].key
<1> DEFINE e == worker[w].etag
<1> DEFINE r == Claimed(row[k], e)
<1>1. /\ k \in Keys /\ e \in 1..MaxVersions /\ e \in 0..version[k] /\ row[k].etag # e
      /\ r \in Row
  BY ClaimFacts DEF Claim, ClaimLost
<1>2. r.etag = e /\ r.status = "processing"
  BY DEF Claimed
<1>3. Write(k, r) /\ UNCHANGED <<version, expiries>>
  BY DEF Claim, ClaimLost
<1>4. /\ row' \in [Keys -> Row] /\ replaced' \in [Keys -> [1..MaxVersions -> Nat]]
      /\ \A j \in Keys : row'[j].etag \in 0..version[j]
  BY <1>1, <1>2, <1>3, WriteFacts DEF IInv
<1>5. PICK p \in Pcs : worker' = [worker EXCEPT ![w].pc = p]
  BY DEF Claim, ClaimLost, Pcs
<1>6. /\ worker' \in [Workers -> Worker] /\ HoldsVersion'
      /\ \A v \in Workers : worker'[v].etag = worker[v].etag /\ worker'[v].key = worker[v].key
  <2>1. /\ worker' \in [Workers -> Worker]
        /\ \A v \in Workers \ {w} : worker'[v] = worker[v]
        /\ \A v \in Workers : worker'[v].etag = worker[v].etag /\ worker'[v].key = worker[v].key
    BY <1>5, WorkerMoves DEF IInv
  <2>2. worker[w].etag >= 1
    BY <1>1
  <2> QED  BY <2>1, <2>2 DEF IInv, HoldsVersion
<1>7. /\ attempts' \in [Keys -> [1..MaxVersions -> Nat]]
      /\ \A j \in Keys \ {k} : attempts'[j] = attempts[j]
      /\ \A v \in 1..MaxVersions :
           \/ attempts'[k][v] = attempts[k][v]
           \/ attempts'[k][v] = attempts[k][v] + 1 /\ v = e
  <2>1. CASE Claim(w)
    BY <1>1, <2>1, ClaimCounts DEF Claim, IInv
  <2>2. CASE ClaimLost(w)
    BY <2>2 DEF ClaimLost, IInv, TypeOK
  <2> QED  BY <2>1, <2>2
<1>8. orphaned' \in [Keys -> SUBSET (1..MaxVersions)] /\ faults' \in Nat
  <2>1. CASE Claim(w)
    BY <2>1 DEF Claim, IInv, TypeOK
  <2>2. CASE ClaimLost(w)
    <3>1. orphaned' = [orphaned EXCEPT ![k] = @ \cup {e}] /\ faults' \in Nat
      BY <2>2, FaultType DEF ClaimLost, IInv
    <3>2. orphaned[k] \cup {e} \in SUBSET (1..MaxVersions)
      BY <1>1 DEF IInv, TypeOK
    <3> QED  BY <1>1, <3>1, <3>2 DEF IInv, TypeOK
  <2> QED  BY <2>1, <2>2
<1>9. TypeOK'
  BY <1>3, <1>4, <1>6, <1>7, <1>8 DEF IInv, TypeOK
<1>10. AbsentHasNone' /\ PaidFor' /\ PillsNeverExpire'
  <2> HIDE DEF r, k, e
  <2> QED  BY <1>1, <1>2, <1>3, <1>7, <1>9, WriteInv
<1> QED  BY <1>6, <1>9, <1>10 DEF IInv

\* The other steps of a worker are marks or mere moves.
Other(w) ==
  \/ Skip(w) \/ MarkSuccess(w) \/ MarkSuccessRaises(w) \/ ProcessingFails(w)
  \/ MarkFailure(w) \/ MarkFailureLost(w) \/ MarkPoisonPill(w) \/ Crash(w)

LEMMA OtherFacts ==
  ASSUME TypeOK, NEW w \in Workers, Other(w)
  PROVE  worker[w].pc # "idle" /\ \E p \in Pcs : MarksOrMoves(w, p)
<1>0. faults \in Nat /\ {"idle", "fail", "promote"} \subseteq Pcs
  BY DEF TypeOK, Pcs
<1>1. CASE Skip(w)
  BY <1>0, <1>1 DEF Skip, MarksOrMoves, NothingWritten
<1>2. CASE MarkSuccess(w)
  BY <1>0, <1>2 DEF MarkSuccess, MarksOrMoves, Marks
<1>3. CASE MarkSuccessRaises(w)
  BY <1>0, <1>3, FaultType DEF MarkSuccessRaises, MarksOrMoves, Marks
<1>4. CASE ProcessingFails(w)
  BY <1>0, <1>4 DEF ProcessingFails, MarksOrMoves, NothingWritten
<1>5. CASE MarkFailure(w)
  <2> DEFINE once == Failed(row[worker[w].key], worker[w].etag)
  <2>1. PICK r \in {once, Failed(once, worker[w].etag)} :
          /\ IF r = once THEN UNCHANGED faults ELSE Fault
          /\ Write(worker[w].key, r)
          /\ worker' = [worker EXCEPT ![w].pc =
                          IF r.failures >= MaxFailures THEN "promote" ELSE "idle"]
    BY <1>5 DEF MarkFailure
  <2>2. r \in Marks(w) /\ faults' \in Nat
    BY <1>0, <2>1, FaultType DEF Marks
  <2>3. PICK p \in Pcs : worker' = [worker EXCEPT ![w].pc = p]
    BY <1>0, <2>1
  <2>4. UNCHANGED <<version, attempts, orphaned, expiries>> /\ worker[w].pc # "idle"
    BY <1>5 DEF MarkFailure
  <2> QED  BY <2>1, <2>2, <2>3, <2>4 DEF MarksOrMoves
<1>6. CASE MarkFailureLost(w)
  BY <1>0, <1>6, FaultType DEF MarkFailureLost, MarksOrMoves, Marks
<1>7. CASE MarkPoisonPill(w)
  BY <1>0, <1>7 DEF MarkPoisonPill, MarksOrMoves, Marks
<1>8. CASE Crash(w)
  BY <1>0, <1>8, FaultType DEF Crash, MarksOrMoves, NothingWritten
<1> QED  BY <1>1, <1>2, <1>3, <1>4, <1>5, <1>6, <1>7, <1>8 DEF Other

LEMMA OtherInv == ASSUME IInv, NEW w \in Workers, Other(w) PROVE IInv'
<1>0. TypeOK
  BY DEF IInv
<1>1. PICK p \in Pcs : MarksOrMoves(w, p)
  BY <1>0, OtherFacts
<1>2. worker[w].pc # "idle"
  BY <1>0, OtherFacts
<1>3. TypeOK'
  BY <1>0, <1>1, MarkType
<1>4. HoldsVersion'
  BY <1>0, <1>1, <1>2, WorkerMoves DEF IInv, HoldsVersion, MarksOrMoves
<1>5. AbsentHasNone' /\ PaidFor' /\ PillsNeverExpire'
  <2>1. CASE NothingWritten
    BY <1>1, <2>1 DEF MarksOrMoves, NothingWritten, IInv, AbsentHasNone, PaidFor, Present,
                      PillsNeverExpire
  <2>2. ASSUME NEW r \in Marks(w), Write(worker[w].key, r) PROVE <1>5!:
    <3>1. worker[w].key \in Keys /\ UNCHANGED <<version, attempts, expiries>>
      BY <1>0, <1>1, WorkerHolds DEF MarksOrMoves
    <3>2. r \in Row /\ r.etag \in 0..version[worker[w].key]
      BY <1>0, Marked
    <3>3. r.status # "absent" /\ (r.status = "poison_pill" => r.expires = FALSE)
      BY <1>0, Marked
    <3> QED  BY <1>3, <2>2, <3>1, <3>2, <3>3, WriteInv
  <2> QED  BY <1>1, <2>1, <2>2 DEF MarksOrMoves
<1> QED  BY <1>3, <1>4, <1>5 DEF IInv

\* The bucket and the TTL process.
LEMMA PutObjectInv == ASSUME IInv, NEW k \in Keys, PutObject(k) PROVE IInv'
<1>0. TypeOK
  BY DEF IInv
<1>1. /\ version' \in [Keys -> 0..MaxVersions] /\ \A j \in Keys : version'[j] >= version[j]
  BY <1>0, ConstantsAssumption DEF ConstantsAssumption, PutObject, TypeOK
<1>2. \A j \in Keys : version[j] \in Nat /\ version'[j] \in Nat
  BY <1>0, <1>1, ConstantsAssumption DEF ConstantsAssumption, TypeOK
<1>3. UNCHANGED <<row, worker, attempts, replaced, orphaned, expiries, faults>>
  BY DEF PutObject
<1>4. TypeOK'
  <2>1. \A w \in Workers : worker[w].key \in Keys
    BY <1>0, WorkerHolds
  <2>2. \A w \in Workers : worker'[w].etag \in 0..version'[worker'[w].key]
    BY <1>0, <1>1, <1>2, <1>3, <2>1 DEF TypeOK
  <2>3. \A j \in Keys : row'[j].etag \in 0..version'[j]
    BY <1>0, <1>1, <1>2, <1>3 DEF TypeOK
  <2> QED  BY <1>0, <1>1, <1>3, <2>2, <2>3 DEF TypeOK
<1> QED  BY <1>3, <1>4 DEF IInv, HoldsVersion, AbsentHasNone, PaidFor, Present, PillsNeverExpire

LEMMA ExpireInv == ASSUME IInv, NEW k \in Keys, Expire(k) PROVE IInv'
<1>0. TypeOK
  BY DEF IInv
<1>1. /\ row' = [row EXCEPT ![k] = NoRow]
      /\ UNCHANGED <<version, worker, attempts, replaced, orphaned>>
      /\ expiries' = [expiries EXCEPT ![k] = @ + 1] /\ faults' \in Nat
  BY <1>0, FaultType DEF Expire
<1>2. NoRow \in Row /\ NoRow.etag = 0 /\ NoRow.status = "absent" /\ NoRow.expires = FALSE
  BY DEF NoRow, Row, Statuses
<1>3. version[k] \in Nat /\ 0 \in 0..version[k]
  BY <1>0, ConstantsAssumption DEF ConstantsAssumption, TypeOK
<1>4. /\ row' \in [Keys -> Row] /\ row'[k] = NoRow
      /\ \A j \in Keys \ {k} : row'[j] = row[j]
      /\ \A j \in Keys : row'[j].etag \in 0..version[j]
  BY <1>0, <1>1, <1>2, <1>3 DEF TypeOK
<1>5. /\ expiries' \in [Keys -> Nat] /\ expiries'[k] = expiries[k] + 1
      /\ \A j \in Keys \ {k} : expiries'[j] = expiries[j]
  BY <1>0, <1>1 DEF TypeOK
<1>6. TypeOK'
  BY <1>0, <1>1, <1>4, <1>5 DEF TypeOK
<1>7. AbsentHasNone' /\ PillsNeverExpire'
  BY <1>2, <1>4 DEF IInv, AbsentHasNone, PillsNeverExpire
<1>8. PaidFor'
  <2> SUFFICES ASSUME NEW j \in Keys, NEW v \in 1..MaxVersions
               PROVE  attempts[j][v] <= expiries'[j] + replaced[j][v] + Present(j, v)'
    BY <1>1 DEF PaidFor
  <2>1. attempts[j][v] \in Nat /\ expiries[j] \in Nat /\ replaced[j][v] \in Nat
    BY <1>0, Counts
  <2>2. attempts[j][v] <= expiries[j] + replaced[j][v] + Present(j, v)
    BY DEF IInv, PaidFor
  <2>3. CASE j # k
    BY <1>4, <1>5, <2>2, <2>3 DEF Present
  <2>4. CASE j = k
    BY <1>5, <2>1, <2>2, <2>4 DEF Present
  <2> QED  BY <2>3, <2>4
<1>9. HoldsVersion'
  BY <1>1 DEF IInv, HoldsVersion
<1> QED  BY <1>6, <1>7, <1>8, <1>9 DEF IInv

\* One step keeps the invariant.
LEMMA NextInv == IInv /\ [Next]_vars => IInv'
<1> SUFFICES ASSUME IInv, [Next]_vars PROVE IInv'
  OBVIOUS
<1>1. ASSUME NEW k \in Keys, PutObject(k) \/ Expire(k) PROVE IInv'
  BY <1>1, PutObjectInv, ExpireInv
<1>2. ASSUME NEW w \in Workers, NEW k \in Keys, List(w, k) PROVE IInv'
  <2>1. TypeOK' /\ HoldsVersion'
    BY <1>2, ListType DEF IInv, HoldsVersion
  <2>2. UNCHANGED <<version, row, attempts, replaced, orphaned, expiries, faults>>
    BY <1>2 DEF List
  <2> QED  BY <2>1, <2>2 DEF IInv, AbsentHasNone, PaidFor, Present, PillsNeverExpire
<1>3. ASSUME NEW w \in Workers, Claim(w) \/ ClaimLost(w) PROVE IInv'
  BY <1>3, ClaimInv
<1>4. ASSUME NEW w \in Workers, Other(w) PROVE IInv'
  BY <1>4, OtherInv
<1>5. CASE UNCHANGED vars
  BY <1>5 DEF vars, IInv, TypeOK, HoldsVersion, AbsentHasNone, PaidFor, Present, PillsNeverExpire
<1> QED  BY <1>1, <1>2, <1>3, <1>4, <1>5 DEF Next, Step, Other

LEMMA InvIsInvariant == Spec => []IInv
  BY InitInv, NextInv, PTL DEF Spec

-----------------------------------------------------------------------------
(* What a step may do to a poison pill.                                    *)

PillStep(k) ==
  row[k].status = "poison_pill" /\ row'[k].status # "poison_pill" =>
    \E w \in Workers :
      /\ worker[w].pc \in {"work", "fail"} /\ worker'[w].pc # worker[w].pc
      /\ worker[w].key = k /\ row'[k].etag = worker[w].etag

\* A mark that is no promotion is made from `work' or `fail', and leaves there.
LEMMA OtherKeepsPills ==
  ASSUME IInv, NEW w \in Workers, Other(w), NEW k \in Keys,
         row[k].status = "poison_pill", row'[k].status # "poison_pill"
  PROVE  PillStep(k)
<1>0. TypeOK
  BY DEF IInv
<1>1. PICK p \in Pcs : MarksOrMoves(w, p)
  BY <1>0, OtherFacts
<1>2. PICK r \in Marks(w) : Write(worker[w].key, r)
  BY <1>1 DEF MarksOrMoves, NothingWritten
<1>3. /\ worker[w].key \in Keys /\ r \in Row /\ r.etag \in 0..version[worker[w].key]
      /\ r.status = "poison_pill" \/ r.etag = worker[w].etag
  BY <1>0, <1>2, Marked, WorkerHolds
<1>4. /\ row'[worker[w].key] = r
      /\ \A j \in Keys \ {worker[w].key} : row'[j] = row[j]
  BY <1>0, <1>2, <1>3, WriteFacts
<1>5. worker[w].key = k /\ row'[k] = r /\ r.etag = worker[w].etag
  BY <1>3, <1>4
<1>6. worker'[w].pc = p
  BY <1>0, <1>1, WorkerMoves DEF MarksOrMoves
<1>7. worker[w].pc \in {"work", "fail"} /\ worker'[w].pc # worker[w].pc
  <2>1. ~ MarkPoisonPill(w)
    <3> SUFFICES ASSUME MarkPoisonPill(w) PROVE FALSE
      OBVIOUS
    <3>1. Write(worker[w].key, Promoted(row[worker[w].key]))
      BY DEF MarkPoisonPill
    <3>2. row' = [row EXCEPT ![k] = Promoted(row[k])]
      BY <1>5, <3>1 DEF Write
    <3>3. row'[k].status = "poison_pill"
      BY <1>0, <3>2 DEF TypeOK, Promoted, Row
    <3> QED  BY <3>3
  <2>2. ~ Skip(w) /\ ~ Crash(w) /\ ~ ProcessingFails(w)
    BY DEF Skip, Crash, ProcessingFails
  <2>3. worker'[w] = [worker[w] EXCEPT !.pc = p]
    BY <1>0, <1>1 DEF MarksOrMoves, TypeOK
  <2>4. CASE MarkSuccess(w)
    BY <1>0, <2>4 DEF MarkSuccess, TypeOK, Worker
  <2>5. CASE MarkSuccessRaises(w)
    BY <1>0, <2>5 DEF MarkSuccessRaises, TypeOK, Worker
  <2>6. CASE MarkFailure(w)
    <3>1. PICK q \in {"promote", "idle"} : worker' = [worker EXCEPT ![w].pc = q]
      BY <2>6 DEF MarkFailure
    <3>2. worker'[w].pc = q
      BY <1>0, <3>1, WorkerMoves DEF Pcs
    <3> QED  BY <2>6, <3>2 DEF MarkFailure
  <2>7. CASE MarkFailureLost(w)
    BY <1>0, <2>7 DEF MarkFailureLost, TypeOK, Worker
  <2> QED  BY <2>1, <2>2, <2>4, <2>5, <2>6, <2>7 DEF Other
<1> QED  BY <1>5, <1>7 DEF PillStep

LEMMA NextKeepsPills ==
  ASSUME IInv, [Next]_vars, NEW k \in Keys
  PROVE  PillStep(k)
<1> SUFFICES ASSUME row[k].status = "poison_pill", row'[k].status # "poison_pill"
             PROVE  PillStep(k)
  BY DEF PillStep
<1>0. TypeOK
  BY DEF IInv
<1>1. CASE UNCHANGED row
  BY <1>1
<1>2. ASSUME NEW j \in Keys, Expire(j) PROVE FALSE
  <2>1. j = k
    BY <1>0, <1>2 DEF Expire, TypeOK
  <2> QED  BY <1>2, <2>1 DEF Expire, IInv, PillsNeverExpire
<1>3. ASSUME NEW w \in Workers, Claim(w) \/ ClaimLost(w) PROVE FALSE
  <2>1. worker[w].key # k
    BY <1>3, ClaimFacts DEF Claim, ClaimLost
  <2>2. row' = [row EXCEPT ![worker[w].key] = Claimed(row[worker[w].key], worker[w].etag)]
    BY <1>3 DEF Claim, ClaimLost, Write
  <2> QED  BY <1>0, <2>1, <2>2 DEF TypeOK
<1>4. ASSUME NEW w \in Workers, Other(w) PROVE PillStep(k)
  BY <1>4, OtherKeepsPills
<1>5. ASSUME NEW j \in Keys, PutObject(j) PROVE UNCHANGED row
  BY <1>5 DEF PutObject
<1>6. ASSUME NEW w \in Workers, NEW j \in Keys, List(w, j) PROVE UNCHANGED row
  BY <1>6 DEF List
<1>7. CASE UNCHANGED vars
  BY <1>1, <1>7 DEF vars
<1> QED  BY <1>1, <1>2, <1>3, <1>4, <1>5, <1>6, <1>7 DEF Next, Step, Other

-----------------------------------------------------------------------------
(* The theorems.                                                           *)

\* Rows, workers and the history keep their types; no row and no worker names an
\* ETag the bucket never had.
THEOREM LedgerTypeCorrect == Spec => []TypeOK
<1>1. IInv => TypeOK
  BY DEF IInv
<1> QED  BY <1>1, InvIsInvariant, PTL

\* should_process hands every version of every object to one worker, and once more
\* only for an expiry of the row or a claim or mark of another version that covered
\* it, whatever workers overlap, crash, lose answers or mark late.
THEOREM ClaimedOnce == Spec => []AtMostOnce
<1>1. IInv => AtMostOnce
  <2> SUFFICES ASSUME IInv, NEW k \in Keys, NEW v \in 1..MaxVersions
               PROVE  attempts[k][v] <= 1 + expiries[k] + replaced[k][v]
    BY DEF AtMostOnce
  <2>1. attempts[k][v] \in Nat /\ expiries[k] \in Nat /\ replaced[k][v] \in Nat
    BY Counts DEF IInv
  <2>2. attempts[k][v] <= expiries[k] + replaced[k][v] + Present(k, v)
    BY DEF IInv, PaidFor
  <2> QED  BY <2>1, <2>2 DEF Present
<1> QED  BY <1>1, InvIsInvariant, PTL

\* Neither TTL nor a claim takes a poison pill away; a late mark of a worker that
\* held the key already is the only step that does.
THEOREM PillsKept == Spec => PillsStay
<1>1. IInv /\ [Next]_vars =>
        [\A k \in Keys :
           row[k].status = "poison_pill" /\ row'[k].status # "poison_pill" =>
             \E w \in Workers :
               /\ worker[w].pc \in {"work", "fail"} /\ worker'[w].pc # worker[w].pc
               /\ worker[w].key = k /\ row'[k].etag = worker[w].etag]_vars
  BY NextKeepsPills DEF PillStep
<1> QED  BY <1>1, InvIsInvariant, PTL DEF Spec, PillsStay
=============================================================================
