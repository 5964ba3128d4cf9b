------------------------- MODULE RestoreVerification -------------------------
(***************************************************************************)
(* Snapshot verification (shared/python/restore_verification.py): check    *)
(* Active Directory, clone the snapshot, attach an S3 access point to the  *)
(* clone, scan it, and tear both down.                                     *)
(*                                                                         *)
(* ONTAP and FSx are external.  A request for a clone or an access point   *)
(* starts work that ends later, with or without success; a deletion is     *)
(* accepted and done later.  Access points are found by name, cut to 50    *)
(* characters, so two verifications of a volume with a long name share it. *)
(***************************************************************************)
EXTENDS Integers, FiniteSets

CONSTANTS
  Verifications,  \* calls of verify_snapshot that may overlap
  MaxFaults       \* bound: calls and jobs that fail

ASSUME ConstantsAssumption == MaxFaults \in Nat

VARIABLES
  strict,  \* strict_ad_check
  shared,  \* the access point names of all calls are equal
  has404,  \* the calls whose clone gets a UUID with "404" in it
  clone,   \* external: the FlexClone each verification asked for
  ap,      \* external: the access point each verification asked for
  call,    \* verify_snapshot: where it is and its local variables
  lost,    \* history: calls that lost track of something: a wait ended, an answer
           \* was lost or a look-up failed while what was asked for exists or is
           \* being made
  kept,    \* history: calls whose clone's deletion failed behind their backs
  faults   \* failures still to come

vars == <<strict, shared, has404, clone, ap, call, lost, kept, faults>>
settings == <<strict, shared, has404>>

\* External: what the SVM's Active Directory looks like when it is asked.
Domains == {"no_cifs", "reachable", "unreachable", "ambiguous"}
Clones == {"none", "making", "made", "deleting", "gone"}
AccessPoints == {"none", "creating", "available", "failed", "deleting", "gone"}
Pcs == {"idle", "ad_check", "post", "wait_job", "lookup", "resolve", "create_ap",
        "wait_ap", "scan", "detach", "delete", "done", "killed"}
Verdicts == {"unknown", "clean", "suspicious", "error"}

\* hasClone, hasAp: clone_info and ap_info are filled in.
\* scanned: whose clone the scanned access point belongs to.
\* raised: an exception other than RestoreVerificationError is on its way out.
Call == [pc : Pcs, hasClone : BOOLEAN, hasAp : BOOLEAN, scanned : SUBSET Verifications,
         verdict : Verdicts, cleanedUp : BOOLEAN, raised : BOOLEAN]
NewCall == [pc |-> "idle", hasClone |-> FALSE, hasAp |-> FALSE, scanned |-> {},
            verdict |-> "unknown", cleanedUp |-> FALSE, raised |-> FALSE]

TypeOK ==
  /\ {strict, shared} \subseteq BOOLEAN
  /\ clone \in [Verifications -> Clones]
  /\ ap \in [Verifications -> AccessPoints]
  /\ call \in [Verifications -> Call]
  /\ {lost, kept, has404} \subseteq SUBSET Verifications
  /\ faults \in Nat

Init ==
  /\ strict \in BOOLEAN
  /\ shared \in BOOLEAN
  /\ has404 \in SUBSET Verifications
  /\ clone = [v \in Verifications |-> "none"]
  /\ ap = [v \in Verifications |-> "none"]
  /\ call = [v \in Verifications |-> NewCall]
  /\ lost = {}
  /\ kept = {}
  /\ faults = MaxFaults

Fault == faults > 0 /\ faults' = faults - 1
LosesTrack(v) == lost' = lost \cup {v}
Keeps(v) == kept' = kept \cup {v}

At(v, pc) == call[v].pc = pc
Goto(v, pc) == call' = [call EXCEPT ![v].pc = pc]

\* The access points of v's name that are there.
Named(v) ==
  {u \in Verifications : (u = v \/ shared) /\ ap[u] \notin {"none", "gone"}}

-----------------------------------------------------------------------------
(* ONTAP and FSx.                                                          *)

CloneMade(v) ==
  /\ clone[v] = "making"
  /\ clone' = [clone EXCEPT ![v] = "made"]
  /\ UNCHANGED <<settings, lost, kept, ap, call, faults>>

CloneJobFails(v) ==
  /\ clone[v] = "making"
  /\ Fault
  /\ clone' = [clone EXCEPT ![v] = "gone"]
  /\ UNCHANGED <<settings, lost, kept, ap, call>>

ApMade(v) ==
  /\ ap[v] = "creating"
  /\ \/ ap' = [ap EXCEPT ![v] = "available"] /\ UNCHANGED faults
     \/ ap' = [ap EXCEPT ![v] = "failed"] /\ Fault
  /\ UNCHANGED <<settings, lost, kept, clone, call>>

ApDeleted(v) ==
  /\ ap[v] = "deleting"
  /\ ap' = [ap EXCEPT ![v] = "gone"]
  /\ UNCHANGED <<settings, lost, kept, clone, call, faults>>

CloneDeleted(v) ==
  /\ clone[v] = "deleting"
  /\ \/ clone' = [clone EXCEPT ![v] = "gone"] /\ UNCHANGED <<faults, kept>>
     \/ clone' = [clone EXCEPT ![v] = "made"] /\ Fault /\ Keeps(v)
  /\ UNCHANGED <<settings, lost, ap, call>>

-----------------------------------------------------------------------------
(* The steps of verify_snapshot.                                           *)

\* except RestoreVerificationError, then finally.  The return for
\* cleanup_on_failure=False does not skip the finally.
Fails(v) == call' = [call EXCEPT ![v].verdict = "error", ![v].pc = "detach"]
\* Any other exception: finally, then on to the caller.
Raises(v) == call' = [call EXCEPT ![v].raised = TRUE, ![v].pc = "detach"]

\* A REST answer of 400 or more, or a transport error of urllib3.
RestFails(v) == Fault /\ (Fails(v) \/ Raises(v))
\* An error of the AWS client, not wrapped.
AwsRaises(v) == Fault /\ Raises(v)

Start(v) ==
  /\ At(v, "idle")
  /\ Goto(v, "ad_check")
  /\ UNCHANGED <<settings, lost, kept, clone, ap, faults>>

\* check_ad_connectivity and _unverified_ad.
AdAccepts ==
  {"no_cifs", "reachable"} \cup (IF strict THEN {} ELSE {"ambiguous"})

CheckAd(v) ==
  /\ At(v, "ad_check")
  /\ \/ /\ \E domain \in Domains : IF domain \in AdAccepts THEN Goto(v, "post") ELSE Fails(v)
        /\ UNCHANGED faults
     \/ RestFails(v)
  /\ UNCHANGED <<settings, lost, kept, clone, ap>>

\* POST /storage/volumes.  A transport error may come after the request arrived.
PostClone(v) ==
  /\ At(v, "post")
  /\ \/ Goto(v, "wait_job") /\ clone' = [clone EXCEPT ![v] = "making"]
                           /\ UNCHANGED <<faults, lost>>
     \/ RestFails(v) /\ UNCHANGED <<clone, lost>>
     \/ AwsRaises(v) /\ clone' = [clone EXCEPT ![v] = "making"] /\ LosesTrack(v)
  /\ UNCHANGED <<settings, kept, ap>>

\* _wait_for_job: success, failure, or a deadline or error while it goes on.
WaitForJob(v) ==
  /\ At(v, "wait_job")
  /\ \/ clone[v] = "made" /\ Goto(v, "lookup") /\ UNCHANGED <<faults, lost>>
     \/ clone[v] = "gone" /\ Fails(v) /\ UNCHANGED <<faults, lost>>
     \/ RestFails(v) /\ LosesTrack(v)
  /\ UNCHANGED <<settings, kept, clone, ap>>

\* The UUID is looked up by name; clone_info is what create_flexclone returns.
LookUpClone(v) ==
  /\ At(v, "lookup")
  /\ \/ call' = [call EXCEPT ![v].hasClone = TRUE, ![v].pc = "resolve"]
        /\ UNCHANGED <<faults, lost>>
     \/ RestFails(v) /\ LosesTrack(v)
  /\ UNCHANGED <<settings, kept, clone, ap>>

\* _resolve_fsvol_id: FSx finds the clone, or does not in time.
ResolveVolume(v) ==
  /\ At(v, "resolve")
  /\ \/ Goto(v, "create_ap") /\ UNCHANGED faults
     \/ Fault /\ Fails(v)
     \/ AwsRaises(v)
  /\ UNCHANGED <<settings, lost, kept, clone, ap>>

\* create_and_attach_s3_access_point refuses a name in use.
\* Mutant: a name in use is taken as one's own.
CreateApUnlessThere(v) ==
  /\ At(v, "create_ap")
  /\ Goto(v, "wait_ap")
  /\ ap' = [ap EXCEPT ![v] = IF Named(v) = {} THEN "creating" ELSE @]
  /\ UNCHANGED <<settings, lost, kept, clone, faults>>
CreateAp(v) ==
  /\ At(v, "create_ap")
  /\ \/ Named(v) = {} /\ Goto(v, "wait_ap") /\ ap' = [ap EXCEPT ![v] = "creating"]
                      /\ UNCHANGED <<faults, lost>>
     \/ Named(v) # {} /\ Fails(v) /\ UNCHANGED <<ap, faults, lost>>
     \* A ClientError is wrapped, any other exception is not.  Either may come after
     \* FSx began to make the access point, of which ap_info then says nothing.
     \/ /\ Fault /\ (Fails(v) \/ Raises(v))
        /\ \/ UNCHANGED <<ap, lost>>
           \/ Named(v) = {} /\ ap' = [ap EXCEPT ![v] = "creating"] /\ LosesTrack(v)
  /\ UNCHANGED <<settings, kept, clone>>

\* The attachment of that name is polled until AVAILABLE; ap_info is what
\* attach_access_point returns.
WaitForAp(v) ==
  /\ At(v, "wait_ap")
  /\ \/ /\ \E u \in Named(v) : ap[u] = "available"
        /\ call' = [call EXCEPT ![v].hasAp = TRUE, ![v].pc = "scan"]
        /\ UNCHANGED <<faults, lost>>
     \/ (\E u \in Named(v) : ap[u] = "failed") /\ Fails(v) /\ LosesTrack(v)
                                              /\ UNCHANGED faults
     \/ Fault /\ (Fails(v) \/ Raises(v)) /\ LosesTrack(v)
  /\ UNCHANGED <<settings, kept, clone, ap>>

\* ListObjectsV2 through the access point and the two thresholds.
Scan(v) ==
  /\ At(v, "scan")
  /\ \/ /\ \E verdict \in {"clean", "suspicious"} :
             call' = [call EXCEPT ![v].verdict = verdict, ![v].pc = "detach",
                                  ![v].scanned = {u \in Named(v) : ap[u] = "available"}]
        /\ UNCHANGED faults
     \/ AwsRaises(v)
  /\ UNCHANGED <<settings, lost, kept, clone, ap>>

-----------------------------------------------------------------------------
(* _cleanup.                                                               *)

\* detach_access_point, by name, when ap_info is filled in; not found is fine.
\* Mutants: the name is derived anew and ap_info not asked for; a failed detach is
\* forgotten.
DetachByName(v) ==
  /\ At(v, "detach")
  /\ ap' = [u \in Verifications |-> IF u \in Named(v) THEN "deleting" ELSE ap[u]]
  /\ call' = [call EXCEPT ![v].cleanedUp = TRUE, ![v].pc = "delete"]
  /\ UNCHANGED <<settings, lost, kept, clone, faults>>
DetachFailureForgotten(v) ==
  /\ At(v, "detach")
  /\ \/ /\ ap' = [u \in Verifications |->
                    IF call[v].hasAp /\ u \in Named(v) THEN "deleting" ELSE ap[u]]
        /\ UNCHANGED faults
     \/ call[v].hasAp /\ Fault /\ UNCHANGED ap
  /\ call' = [call EXCEPT ![v].cleanedUp = TRUE, ![v].pc = "delete"]
  /\ UNCHANGED <<settings, lost, kept, clone>>
Detach(v) ==
  /\ At(v, "detach")
  /\ \/ /\ ap' = [u \in Verifications |->
                    IF call[v].hasAp /\ u \in Named(v) THEN "deleting" ELSE ap[u]]
        /\ call' = [call EXCEPT ![v].cleanedUp = TRUE, ![v].pc = "delete"]
        /\ UNCHANGED faults
     \/ /\ call[v].hasAp
        /\ Fault
        /\ call' = [call EXCEPT ![v].cleanedUp = FALSE, ![v].pc = "delete"]
        /\ ap' \in {ap, [u \in Verifications |-> IF u \in Named(v) THEN "deleting" ELSE ap[u]]}
  /\ UNCHANGED <<settings, lost, kept, clone>>

\* delete_flexclone, by UUID, when clone_info is filled in, whatever became of
\* the detach.  An answer of 400 or more is taken for "already deleted" when "404" is
\* in the text of the error, which holds the status and the path with the UUID.
\* Mutant: a failed deletion is forgotten.
DeleteFailureForgotten(v) ==
  /\ At(v, "delete")
  /\ Goto(v, "done")
  /\ \/ /\ clone' = [clone EXCEPT ![v] = IF call[v].hasClone THEN "deleting" ELSE @]
        /\ UNCHANGED faults
     \/ call[v].hasClone /\ Fault /\ UNCHANGED clone
  /\ UNCHANGED <<settings, lost, kept, ap>>
Delete(v) ==
  /\ At(v, "delete")
  /\ \/ /\ clone' = [clone EXCEPT ![v] = IF call[v].hasClone THEN "deleting" ELSE @]
        /\ Goto(v, "done")
        /\ UNCHANGED <<faults, kept>>
     \/ /\ call[v].hasClone /\ v \in has404
        /\ Fault
        /\ Goto(v, "done")
        /\ Keeps(v)
        /\ UNCHANGED clone
     \/ /\ call[v].hasClone
        /\ Fault
        /\ call' = [call EXCEPT ![v].cleanedUp = FALSE, ![v].pc = "done"]
        /\ clone' \in {clone, [clone EXCEPT ![v] = "deleting"]}
        /\ UNCHANGED kept
  /\ UNCHANGED <<settings, lost, ap>>

\* The process ends in the middle: a Lambda timeout, for one.
Killed(v) ==
  /\ call[v].pc \notin {"idle", "done", "killed"}
  /\ Fault
  /\ Goto(v, "killed")
  /\ UNCHANGED <<settings, lost, kept, clone, ap>>

-----------------------------------------------------------------------------
External(v) ==
  CloneMade(v) \/ CloneJobFails(v) \/ ApMade(v) \/ ApDeleted(v) \/ CloneDeleted(v)

Step(v) ==
  \/ CheckAd(v) \/ PostClone(v) \/ WaitForJob(v) \/ LookUpClone(v) \/ ResolveVolume(v)
  \/ CreateAp(v) \/ WaitForAp(v) \/ Scan(v) \/ Detach(v) \/ Delete(v)

Next == \E v \in Verifications : Start(v) \/ Step(v) \/ Killed(v) \/ External(v)

Spec == Init /\ [][Next]_vars

\* A call that runs goes on, and the services end what they began.
FairSpec ==
  /\ Spec
  /\ \A v \in Verifications : WF_vars(Step(v)) /\ WF_vars(External(v))

-----------------------------------------------------------------------------
(* Properties.                                                             *)

Ended(v) == At(v, "done")

Removed == {"none", "deleting", "gone"}

\* What a call leaves without knowing it.
LeftAp(v) == v \in lost /\ ~call[v].hasAp
LeftClone(v) == (v \in lost /\ ~call[v].hasClone) \/ v \in kept

\* _cleanup returns TRUE "only if both steps that were attempted succeeded (or
\* were never started)": what a call that says cleaned_up asked for is gone or on
\* its way, and a call with a verdict knows of all it asked for.  Left in place
\* are what the call lost track of, and a clone whose deletion ONTAP accepted and
\* did not carry out, or refused when the UUID has "404" in it (delete_flexclone
\* takes that for "already deleted").
CleanedUpMeansGone ==
  \A v \in Verifications : Ended(v) /\ call[v].cleanedUp =>
    /\ ap[v] \in Removed \/ LeftAp(v)
    /\ clone[v] \in Removed \/ LeftClone(v)
    /\ v \in lost => call[v].verdict \notin {"clean", "suspicious"}

\* A verdict is about the snapshot asked for: the access point scanned is the one
\* of this call's clone, also when names collide and calls overlap or left one
\* behind.
ScansOwnClone ==
  \A v \in Verifications : call[v].verdict \in {"clean", "suspicious"} => call[v].scanned = {v}

\* A call takes down nothing that another one put up.
RemovesOnlyItsOwn ==
  [][\A u, v \in Verifications :
       u # v /\ Detach(v) => ap'[u] = ap[u]]_vars

\* No failure of any step leaves a call hanging, or what it knows of in place
\* without saying so, with the two exceptions for clones named above.  A process
\* that is ended in the middle leaves everything.
EndsCleanOrSaysSo ==
  \A v \in Verifications :
    At(v, "ad_check") ~>
      \/ At(v, "killed")
      \/ Ended(v) /\ ~call[v].cleanedUp
      \/ /\ Ended(v)
         /\ ap[v] \in {"none", "gone"} \/ LeftAp(v)
         /\ clone[v] \in {"none", "gone"} \/ LeftClone(v)
=============================================================================
