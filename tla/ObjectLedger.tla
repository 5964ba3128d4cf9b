---------------------------- MODULE ObjectLedger ----------------------------
(***************************************************************************)
(* The object processing ledger (shared/python/object_ledger.py): one      *)
(* DynamoDB row per object key, claimed with a conditional put and marked  *)
(* with unconditional updates by workers that follow the usage in the      *)
(* module's docstring.                                                     *)
(*                                                                         *)
(* The bucket is external: version[k] is the number of times the object    *)
(* was written, and stands for its ETag.  DynamoDB's TTL process is        *)
(* external too: it may delete a row that carries expires_at at any time.  *)
(***************************************************************************)
EXTENDS Integers

CONSTANTS
  Keys,         \* object keys
  Workers,      \* Lambda invocations that may overlap
  MaxFailures,  \* max_failures
  TtlDays,      \* ttl_days is positive
  MaxVersions,  \* bound: writes to an object
  MaxFaults     \* bound: failed DynamoDB calls, lost invocations, expiries

ASSUME ConstantsAssumption ==
  /\ {MaxFailures, MaxVersions} \subseteq Nat \ {0}
  /\ MaxFaults \in Nat
  /\ TtlDays \in BOOLEAN

VARIABLES
  version,   \* external: the ETag of each object, 0 before it exists
  row,       \* the ledger's row of each key
  worker,    \* per invocation: where it is, its key and the ETag it listed
  attempts,  \* history: how often each version was handed to a worker
  replaced,  \* history: how often a row of each version got another ETag
  orphaned,  \* history: versions claimed by a put whose answer reached nobody
  expiries,  \* history: how often TTL deleted a row
  faults     \* failures still to come

vars == <<version, row, worker, attempts, replaced, orphaned, expiries, faults>>

Statuses == {"absent", "processing", "success", "failed", "poison_pill"}
Row == [status : Statuses, etag : Nat, failures : Nat, expires : BOOLEAN]
NoRow == [status |-> "absent", etag |-> 0, failures |-> 0, expires |-> FALSE]

Pcs == {"idle", "claim", "work", "fail", "promote"}
Worker == [pc : Pcs, key : Keys, etag : Nat]

TypeOK ==
  /\ version \in [Keys -> 0..MaxVersions]
  /\ row \in [Keys -> Row]
  /\ worker \in [Workers -> Worker]
  /\ \A w \in Workers : worker[w].etag \in 0..version[worker[w].key]
  /\ \A k \in Keys : row[k].etag \in 0..version[k]
  /\ attempts \in [Keys -> [1..MaxVersions -> Nat]]
  /\ replaced \in [Keys -> [1..MaxVersions -> Nat]]
  /\ orphaned \in [Keys -> SUBSET (1..MaxVersions)]
  /\ expiries \in [Keys -> Nat]
  /\ faults \in Nat

Init ==
  /\ version = [k \in Keys |-> 0]
  /\ row = [k \in Keys |-> NoRow]
  /\ worker \in [Workers -> [pc : {"idle"}, key : Keys, etag : {0}]]
  /\ attempts = [k \in Keys |-> [v \in 1..MaxVersions |-> 0]]
  /\ replaced = [k \in Keys |-> [v \in 1..MaxVersions |-> 0]]
  /\ orphaned = [k \in Keys |-> {}]
  /\ expiries = [k \in Keys |-> 0]
  /\ faults = MaxFaults

Fault == faults > 0 /\ faults' = faults - 1

\* A write of the ledger gives k the row r; the history notes the ETag it covers.
Write(k, r) ==
  /\ row' = [row EXCEPT ![k] = r]
  /\ replaced' = [replaced EXCEPT ![k] =
                    [v \in 1..MaxVersions |->
                       IF row[k].etag = v /\ r.etag # v THEN @[v] + 1 ELSE @[v]]]

NothingWritten == UNCHANGED <<row, replaced>>

-----------------------------------------------------------------------------
(* The bucket and the TTL process.                                         *)

PutObject(k) ==
  /\ version[k] < MaxVersions
  /\ version' = [version EXCEPT ![k] = @ + 1]
  /\ UNCHANGED <<row, worker, attempts, replaced, orphaned, expiries, faults>>

Expire(k) ==
  /\ row[k].expires
  /\ Fault
  /\ row' = [row EXCEPT ![k] = NoRow]
  /\ expiries' = [expiries EXCEPT ![k] = @ + 1]
  /\ UNCHANGED <<version, worker, attempts, replaced, orphaned>>

-----------------------------------------------------------------------------
(* A worker.                                                               *)

\* The caller lists the bucket; the object may change before it asks.
List(w, k) ==
  /\ worker[w].pc = "idle"
  /\ version[k] > 0
  /\ worker' = [worker EXCEPT ![w] = [pc |-> "claim", key |-> k, etag |-> version[k]]]
  /\ UNCHANGED <<version, row, attempts, replaced, orphaned, expiries, faults>>

\* The condition of should_process's PutItem.
\* Mutants: the ETag is not compared; a row being processed is left alone.
ClaimableWhateverEtag(r, e) ==
  \/ r.status = "absent"
  \/ r.status \notin {"success", "poison_pill"}
ClaimableWhenFree(r, e) ==
  \/ r.status = "absent"
  \/ r.status = "failed" /\ r.etag # e
Claimable(r, e) ==
  \/ r.status = "absent"
  \/ r.status \notin {"success", "poison_pill"} /\ r.etag # e

\* The item put: it replaces the whole row, expires_at included.
Claimed(r, e) ==
  [status |-> "processing", etag |-> e, failures |-> 0, expires |-> FALSE]

Claim(w) ==
  LET k == worker[w].key
      e == worker[w].etag
  IN  /\ worker[w].pc = "claim"
      /\ Claimable(row[k], e)
      /\ Write(k, Claimed(row[k], e))
      /\ worker' = [worker EXCEPT ![w].pc = "work"]
      /\ attempts' = [attempts EXCEPT ![k][e] = @ + 1]
      /\ UNCHANGED <<version, orphaned, expiries, faults>>

\* The put is applied and its answer lost: the SDK's own retry finds the ETag and
\* should_process answers False, or it raises.  The row stays `processing' and
\* nobody works on it.
ClaimLost(w) ==
  LET k == worker[w].key
      e == worker[w].etag
  IN  /\ worker[w].pc = "claim"
      /\ Claimable(row[k], e)
      /\ Fault
      /\ Write(k, Claimed(row[k], e))
      /\ worker' = [worker EXCEPT ![w].pc = "idle"]
      /\ orphaned' = [orphaned EXCEPT ![k] = @ \cup {e}]
      /\ UNCHANGED <<version, attempts, expiries>>

\* ConditionalCheckFailedException.
Skip(w) ==
  /\ worker[w].pc = "claim"
  /\ ~Claimable(row[worker[w].key], worker[w].etag)
  /\ worker' = [worker EXCEPT ![w].pc = "idle"]
  /\ UNCHANGED <<version, row, attempts, replaced, orphaned, expiries, faults>>

Succeeded(r, e) ==
  [r EXCEPT !.status = "success", !.etag = e, !.failures = 0, !.expires = @ \/ TtlDays]

\* Processing succeeds and so does mark_success.
MarkSuccess(w) ==
  /\ worker[w].pc = "work"
  /\ Write(worker[w].key, Succeeded(row[worker[w].key], worker[w].etag))
  /\ worker' = [worker EXCEPT ![w].pc = "idle"]
  /\ UNCHANGED <<version, attempts, orphaned, expiries, faults>>

\* mark_success raises, applied or not: the same try holds it, so the caller
\* goes on to mark_failure.
MarkSuccessRaises(w) ==
  /\ worker[w].pc = "work"
  /\ Fault
  /\ \/ Write(worker[w].key, Succeeded(row[worker[w].key], worker[w].etag))
     \/ NothingWritten
  /\ worker' = [worker EXCEPT ![w].pc = "fail"]
  /\ UNCHANGED <<version, attempts, orphaned, expiries>>

ProcessingFails(w) ==
  /\ worker[w].pc = "work"
  /\ worker' = [worker EXCEPT ![w].pc = "fail"]
  /\ UNCHANGED <<version, row, attempts, replaced, orphaned, expiries, faults>>

Failed(r, e) == [r EXCEPT !.status = "failed", !.etag = e, !.failures = @ + 1]

\* mark_failure's update; ALL_NEW tells whether to promote.  The update makes a
\* row where there is none.  When its answer is lost the SDK sends it again, and the
\* failure is counted twice.
MarkFailure(w) ==
  LET k    == worker[w].key
      once == Failed(row[k], worker[w].etag)
  IN  /\ worker[w].pc = "fail"
      /\ \E r \in {once, Failed(once, worker[w].etag)} :
           /\ IF r = once THEN UNCHANGED faults ELSE Fault
           /\ Write(k, r)
           /\ worker' = [worker EXCEPT ![w].pc =
                           IF r.failures >= MaxFailures THEN "promote" ELSE "idle"]
      /\ UNCHANGED <<version, attempts, orphaned, expiries>>

\* A ClientError of either update is logged and the failure forgotten; the
\* update may have been applied.
MarkFailureLost(w) ==
  /\ worker[w].pc = "fail"
  /\ Fault
  /\ \/ Write(worker[w].key, Failed(row[worker[w].key], worker[w].etag))
     \/ NothingWritten
  /\ worker' = [worker EXCEPT ![w].pc = "idle"]
  /\ UNCHANGED <<version, attempts, orphaned, expiries>>

\* _mark_poison_pill.
\* Mutant: expires_at is not removed.
PromotedKeepingExpiry(r) == [r EXCEPT !.status = "poison_pill"]
Promoted(r) == [r EXCEPT !.status = "poison_pill", !.expires = FALSE]

MarkPoisonPill(w) ==
  /\ worker[w].pc = "promote"
  /\ Write(worker[w].key, Promoted(row[worker[w].key]))
  /\ worker' = [worker EXCEPT ![w].pc = "idle"]
  /\ UNCHANGED <<version, attempts, orphaned, expiries, faults>>

\* The invocation ends here: a timeout, or an error nobody catches.
Crash(w) ==
  /\ worker[w].pc # "idle"
  /\ Fault
  /\ worker' = [worker EXCEPT ![w].pc = "idle"]
  /\ UNCHANGED <<version, row, attempts, replaced, orphaned, expiries>>

Step(w) ==
  \/ \E k \in Keys : List(w, k)
  \/ Claim(w) \/ ClaimLost(w) \/ Skip(w)
  \/ MarkSuccess(w) \/ MarkSuccessRaises(w) \/ ProcessingFails(w)
  \/ MarkFailure(w) \/ MarkFailureLost(w) \/ MarkPoisonPill(w)
  \/ Crash(w)

Next ==
  \/ \E k \in Keys : PutObject(k) \/ Expire(k)
  \/ \E w \in Workers : Step(w)

Spec == Init /\ [][Next]_vars

\* The pipeline lists every key again and again and an invocation goes on.
FairSpec ==
  /\ Spec
  /\ \A w \in Workers :
       /\ \A k \in Keys : SF_vars(List(w, k))
       /\ WF_vars(Claim(w) \/ Skip(w))
       /\ WF_vars(MarkSuccess(w) \/ ProcessingFails(w))
       /\ WF_vars(MarkFailure(w)) /\ WF_vars(MarkPoisonPill(w))

-----------------------------------------------------------------------------
(* Properties.                                                             *)

\* "Deduplication by key + ETag": should_process hands out a version again only
\* for a reason that shows in the row: TTL deleted it, or a claim or a late mark of
\* another version replaced the ETag.  Crashes, lost answers, refused claims and the
\* order of marks of the same version give none.
AtMostOnce ==
  \A k \in Keys, v \in 1..MaxVersions :
    attempts[k][v] <= 1 + expiries[k] + replaced[k][v]

\* A poison pill "will be skipped permanently": no TTL and no claim takes it away.
\* Only a late mark does, by a worker that has held the key since before the
\* promotion, and then the row is of the version that worker holds.
PillsStay ==
  [][\A k \in Keys :
       row[k].status = "poison_pill" /\ row'[k].status # "poison_pill" =>
         \E w \in Workers :
           /\ worker[w].pc \in {"work", "fail"} /\ worker'[w].pc # worker[w].pc
           /\ worker[w].key = k /\ row'[k].etag = worker[w].etag]_vars

\* The latest version of an object is handed to a worker in the end: a worker that
\* crashed with an older version, or marks it late, does not keep it away.  Three
\* things do: a poison pill; a success, even of an older version (the docstring of
\* should_process says otherwise); and a claim of that very version whose answer
\* was lost, which leaves it `processing' until a newer version comes.
LatestIsAttempted ==
  \A k \in Keys, v \in 1..MaxVersions :
    version[k] = v ~> \/ version[k] > v
                      \/ attempts[k][v] > 0
                      \/ row[k].status \in {"success", "poison_pill"}
                      \/ v \in orphaned[k]
=============================================================================
