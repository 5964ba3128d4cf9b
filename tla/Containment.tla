----------------------------- MODULE Containment -----------------------------
(***************************************************************************)
(* The composite responses of shared/python/ontap_response.py: snapshot    *)
(* with a cooldown, block of the user, block of the address, disconnection *)
(* of the user's sessions, and the status that sums them up; and the       *)
(* snapshot of integrations/datadog/lambda/snapshot_remediation.py, which  *)
(* has the cooldown without the rest, over snapshots named otherwise.      *)
(*                                                                         *)
(* The user is external: it opens sessions as long as it is not denied.    *)
(* Which mappings deny, nothing here verifies: that is up to the security  *)
(* styles and the permissions of the volumes.  On an AD-joined SVM, ONTAP  *)
(* removes name mappings to a space after a while.  One volume, one user   *)
(* and one address are modelled.                                           *)
(***************************************************************************)
EXTENDS Integers, Sequences, FiniteSets

CONSTANTS
  Clients,        \* invocations that may overlap
  Sessions,       \* sessions the user may open
  AdJoined,       \* _is_svm_ad_joined
  Timed,          \* every snapshot is listed with a time that can be read
  MaxSnapshots,   \* bound: snapshots within a cooldown
  MaxFaults       \* bound: REST calls that fail

ASSUME ConstantsAssumption ==
  /\ {AdJoined, Timed} \subseteq BOOLEAN
  /\ {MaxSnapshots, MaxFaults} \subseteq Nat
  /\ IsFiniteSet(Clients)

VARIABLES
  denying,    \* external: replacements by which ONTAP refuses the user a session
  mappings,   \* external: replacements of the user's name mappings
  addressBlocked,  \* external: a deny rule for the address
  sessions,   \* external: the user's open sessions
  snapshots,  \* external: snapshots of each prefix younger than the cooldown
  client,     \* per invocation: what is left to do and its results
  faults      \* failures still to come

vars == <<denying, mappings, addressBlocked, sessions, snapshots, client, faults>>

Kinds == {"smb", "nfs", "multiprotocol", "remediation"}
Prefixes == {"incident_response", "remediation"}
StepNames == {"snapshot", "create_snapshot", "block_user", "block_ip", "list_sessions",
              "disconnect"}
\* "done": created, skipped, no_sessions or disconnected.
Outcomes == {"mapping_created", "blocked", "failed", "done"}
Statuses == {"none", "raised", "returned", "contained", "partial_failure",
             "contained_pending_denial_verification"}

\* plan: steps still to do; outcomes: results["steps"]; todo: sessions listed and
\* not yet disconnected; missed: those listed and not counted as disconnected;
\* since (history): those opened after the list.
Client == [kind : Kinds, plan : Seq(StepNames), outcomes : SUBSET Outcomes,
           todo : SUBSET Sessions, missed : SUBSET Sessions, since : SUBSET Sessions,
           status : Statuses]
Replacements == {"space", "nobody"}

TypeOK ==
  /\ denying \subseteq Replacements
  /\ mappings \subseteq Replacements
  /\ addressBlocked \in BOOLEAN
  /\ sessions \subseteq Sessions
  /\ snapshots \in [Prefixes -> 0..MaxSnapshots]
  /\ client \in [Clients -> Client]
  /\ faults \in Nat

\* The results are handed over and no longer looked at.
Returned(kind, status) ==
  [kind |-> kind, plan |-> << >>, outcomes |-> {}, todo |-> {}, missed |-> {}, since |-> {},
   status |-> status]

\* A mapping to a space may be there from before the SVM joined its domain.
Init ==
  /\ denying \in SUBSET Replacements
  /\ mappings \in {{}, {"space"}}
  /\ addressBlocked = FALSE
  /\ sessions \in SUBSET Sessions
  /\ snapshots = [p \in Prefixes |-> 0]
  /\ client = [c \in Clients |-> Returned("smb", "none")]
  /\ faults = MaxFaults

Fault == faults > 0 /\ faults' = faults - 1

-----------------------------------------------------------------------------
(* The user and ONTAP.                                                     *)

\* block_smb_user: an NTFS volume never consults the mapping (denying is empty); the
\* others deny by it where their permissions do.
Denied == mappings \cap denying # {}

Listed(r) == \/ r.plan # << >> /\ Head(r.plan) = "disconnect"
             \/ r.status = "contained_pending_denial_verification"
OpenSession(s) ==
  /\ s \notin sessions
  /\ ~Denied
  /\ sessions' = sessions \cup {s}
  /\ client' = [c \in Clients |->
                  IF Listed(client[c]) THEN [client[c] EXCEPT !.since = @ \cup {s}] ELSE client[c]]
  /\ UNCHANGED <<denying, mappings, addressBlocked, snapshots, faults>>

RemoveUnresolvable ==
  /\ AdJoined
  /\ "space" \in mappings
  /\ mappings' = mappings \ {"space"}
  /\ UNCHANGED <<denying, addressBlocked, sessions, snapshots, client, faults>>

CooldownPasses(p) ==
  /\ snapshots[p] > 0
  /\ snapshots' = [snapshots EXCEPT ![p] = 0]
  /\ UNCHANGED <<denying, mappings, addressBlocked, sessions, client, faults>>

-----------------------------------------------------------------------------
(* contain_smb_threat, contain_nfs_threat, contain_multiprotocol_threat.   *)

\* Mutant: the sessions are disconnected before the user is blocked.
StepsSessionsFirst(kind) ==
  CASE kind = "smb" -> <<"list_sessions", "block_user">>
    [] kind = "nfs" -> <<"block_ip">>
    [] kind = "multiprotocol" -> <<"list_sessions", "block_user", "block_ip">>
    [] kind = "remediation" -> << >>
Steps(kind) ==
  CASE kind = "smb" -> <<"block_user", "list_sessions">>
    [] kind = "nfs" -> <<"block_ip">>
    [] kind = "multiprotocol" -> <<"block_user", "block_ip", "list_sessions">>
    [] kind = "remediation" -> << >>

Running(c) == client[c].plan # << >>
Contain(c, kind, withVolume) ==
  /\ ~Running(c)
  /\ kind = "remediation" => withVolume
  /\ client' = [client EXCEPT ![c] =
       [kind |-> kind, outcomes |-> {}, todo |-> {}, missed |-> {}, since |-> {}, status |-> "none",
        plan |-> (IF withVolume THEN <<"snapshot">> ELSE << >>) \o Steps(kind)]]
  /\ UNCHANGED <<denying, mappings, addressBlocked, sessions, snapshots, faults>>

\* _finalize_containment_status and the end of contain_nfs_threat.
Status(outcomes) ==
  IF "failed" \in outcomes THEN "partial_failure"
  ELSE IF "mapping_created" \in outcomes THEN "contained_pending_denial_verification"
  ELSE "contained"

Next1(c, step) == Running(c) /\ Head(client[c].plan) = step

\* The record after a step with this outcome, that finishes when it was the last.
Recorded(c, outcome, missed) ==
  LET r == client[c]
      outcomes == r.outcomes \cup {outcome}
      status == IF r.kind = "remediation" THEN "returned" ELSE Status(outcomes)
  IN  IF Len(r.plan) # 1
      THEN [r EXCEPT !.plan = Tail(@), !.outcomes = outcomes, !.missed = missed]
      ELSE IF status = "contained_pending_denial_verification"
           THEN [Returned(r.kind, status) EXCEPT !.missed = missed, !.since = r.since]
           ELSE Returned(r.kind, status)
Step(c, outcome) == client' = [client EXCEPT ![c] = Recorded(c, outcome, @.missed)]

\* An OntapResponseError is recorded and the next step goes on; a transport error
\* is none and leaves the whole sequence.
Leave(c) == client' = [client EXCEPT ![c] = Returned(@.kind, "raised")]
StepFails(c) == Fault /\ (Step(c, "failed") \/ Leave(c))

\* The prefix of the names, and the snapshots the cooldown is about.
Prefix(c) == IF client[c].kind = "remediation" THEN "remediation" ELSE "incident_response"
Recent(c) == snapshots[Prefix(c)]

\* create_snapshot: _check_snapshot_cooldown.  A list that fails does not skip, nor
\* does a snapshot listed without a time or with one that cannot be read.
\* Mutant: the cooldown is not looked at.
CheckNoCooldown(c) ==
  /\ Next1(c, "snapshot")
  /\ client' = [client EXCEPT ![c].plan = <<"create_snapshot">> \o Tail(@)]
  /\ UNCHANGED <<denying, mappings, addressBlocked, sessions, snapshots, faults>>
CheckCooldown(c) ==
  /\ Next1(c, "snapshot")
  /\ \/ Recent(c) > 0 /\ Step(c, "done") /\ UNCHANGED faults
     \/ /\ client' = [client EXCEPT ![c].plan = <<"create_snapshot">> \o Tail(@)]
        /\ IF Timed /\ Recent(c) > 0 THEN Fault ELSE UNCHANGED faults
     \/ StepFails(c)
  /\ UNCHANGED <<denying, mappings, addressBlocked, sessions, snapshots>>

\* The POST.  The name has a resolution of one second, so that a second snapshot
\* at the same time is refused.
CreateSnapshot(c) ==
  LET taken == [snapshots EXCEPT ![Prefix(c)] = @ + 1]
  IN  /\ Next1(c, "create_snapshot")
      /\ \/ Recent(c) < MaxSnapshots /\ snapshots' = taken /\ Step(c, "done")
                                     /\ UNCHANGED faults
         \/ Recent(c) > 0 /\ Step(c, "failed") /\ UNCHANGED <<snapshots, faults>>
         \/ /\ StepFails(c)
            /\ snapshots' \in {snapshots} \cup (IF Recent(c) < MaxSnapshots THEN {taken} ELSE {})
      /\ UNCHANGED <<denying, mappings, addressBlocked, sessions>>

\* block_smb_user.
\* Mutant: an AD-joined SVM gets the same replacement.
ReplacementAlwaysSpace == "space"
Replacement == IF AdJoined THEN "nobody" ELSE "space"

BlockUser(c) ==
  /\ Next1(c, "block_user")
  /\ \/ /\ mappings' = mappings \cup {Replacement}
        /\ Step(c, "mapping_created")
        /\ UNCHANGED faults
     \/ StepFails(c) /\ mappings' \in {mappings, mappings \cup {Replacement}}
  /\ UNCHANGED <<denying, addressBlocked, sessions, snapshots>>

BlockIp(c) ==
  /\ Next1(c, "block_ip")
  /\ \/ addressBlocked' = TRUE /\ Step(c, "blocked") /\ UNCHANGED faults
     \/ StepFails(c) /\ addressBlocked' \in {addressBlocked, TRUE}
  /\ UNCHANGED <<denying, mappings, sessions, snapshots>>

\* disconnect_smb_sessions: the list, then one DELETE each.  A session listed without
\* identifiers is skipped, a DELETE that fails is logged, and the step counts as done
\* ("disconnected") all the same; a transport error leaves.
ListSessions(c) ==
  /\ Next1(c, "list_sessions")
  /\ \/ /\ IF sessions = {} THEN Step(c, "done")
           ELSE client' = [client EXCEPT ![c].plan = <<"disconnect">> \o Tail(@),
                                         ![c].todo = sessions]
        /\ UNCHANGED faults
     \/ StepFails(c)
  /\ UNCHANGED <<denying, mappings, addressBlocked, sessions, snapshots>>

Disconnected(c, s, missed) ==
  IF client[c].todo = {s} THEN Recorded(c, "done", client[c].missed \cup missed)
  ELSE [client[c] EXCEPT !.todo = @ \ {s}, !.missed = @ \cup missed]

Disconnect(c, s) ==
  /\ Next1(c, "disconnect")
  /\ s \in client[c].todo
  /\ \/ /\ sessions' = sessions \ {s}
        /\ client' = [client EXCEPT ![c] = Disconnected(c, s, {})]
        /\ UNCHANGED faults
     \/ /\ client' = [client EXCEPT ![c] = Disconnected(c, s, {s})]
        /\ UNCHANGED <<sessions, faults>>
     \/ /\ Fault
        /\ client' = [client EXCEPT ![c] = Disconnected(c, s, {s})]
        /\ sessions' \in {sessions, sessions \ {s}}
     \/ Fault /\ Leave(c) /\ sessions' \in {sessions, sessions \ {s}}
  /\ UNCHANGED <<denying, mappings, addressBlocked, snapshots>>

Next ==
  \/ \E s \in Sessions : OpenSession(s)
  \/ RemoveUnresolvable \/ \E p \in Prefixes : CooldownPasses(p)
  \/ \E c \in Clients :
       \/ \E kind \in Kinds, withVolume \in BOOLEAN : Contain(c, kind, withVolume)
       \/ CheckCooldown(c) \/ CreateSnapshot(c) \/ BlockUser(c) \/ BlockIp(c)
       \/ ListSessions(c) \/ \E s \in Sessions : Disconnect(c, s)

Spec == Init /\ [][Next]_vars

-----------------------------------------------------------------------------
(* Properties.                                                             *)

\* "Use in combination with block_smb_user to ensure the user cannot reconnect": a run
\* that ended without failures leaves the user no session but those it does not count
\* as disconnected, however the user's new sessions, ONTAP's clean-up of mappings and
\* other runs fall between its steps; where its mapping is no denial, which the run
\* does not verify, also those opened after it listed them.
ContainedUserIsOut ==
  \A c \in Clients :
    client[c].status = "contained_pending_denial_verification" =>
      sessions \subseteq client[c].missed
                           \cup (IF Replacement \in denying THEN {} ELSE client[c].since)

\* A status other than partial_failure is backed by every block of the kind.
StatusIsBacked ==
  \A c \in Clients :
    /\ client[c].status = "contained" => addressBlocked
    /\ client[c].status = "contained_pending_denial_verification" =>
         /\ mappings # {}
         /\ client[c].kind = "multiprotocol" => addressBlocked

\* "Cooldown logic to prevent snapshot storms": however long an attack lasts, and as
\* long as the list shows the times of the snapshots, a cooldown sees at most one
\* snapshot per response that overlaps the first one, and one more per list that could
\* not be read or answer that was lost.
NoSnapshotStorm ==
  Timed => \A p \in Prefixes : snapshots[p] <= Cardinality(Clients) + (MaxFaults - faults)
=============================================================================
