----------------------- MODULE RestoreVerificationProofs -----------------------
(***************************************************************************)
(* Type correctness of the restore verification, what cleaned_up and a     *)
(* verdict mean, and whose access points a clean-up removes, for any       *)
(* number of overlapping calls with equal or different access point names. *)
(***************************************************************************)
EXTENDS RestoreVerification, TLAPS

-----------------------------------------------------------------------------
(* The invariant.                                                          *)

Present(v) == ap[v] \notin {"none", "gone"}

\* FSx gives a name once.
OneHolder == shared => \A u, v \in Verifications : Present(u) /\ Present(v) => u = v

\* The access point of a call, as far as the call has come: the one of its name
\* that a scan or a clean-up finds is its own.
OwnAccessPoint(v) ==
  /\ call[v].pc \in {"idle", "ad_check", "post", "wait_job", "lookup", "resolve", "create_ap"} =>
       ap[v] = "none" /\ ~call[v].hasAp
  /\ call[v].pc = "wait_ap" => ap[v] \in {"creating", "available", "failed"} /\ ~call[v].hasAp
  /\ call[v].pc = "scan" => call[v].hasAp
  /\ call[v].pc \in {"scan", "detach"} /\ call[v].hasAp => ap[v] = "available"
  /\ call[v].pc = "detach" /\ ~call[v].hasAp /\ v \notin lost => ap[v] = "none"
  /\ call[v].pc \in {"delete", "done"} /\ call[v].cleanedUp /\ ~LeftAp(v) =>
       ap[v] \in Removed

\* The clone of a call: one it does not know of was not made, is gone, or was
\* lost track of.
OwnClone(v) ==
  /\ call[v].pc \in {"idle", "ad_check", "post"} => clone[v] = "none" /\ ~call[v].hasClone
  /\ call[v].pc \in {"wait_job", "lookup"} => ~call[v].hasClone
  /\ call[v].pc \in {"resolve", "create_ap", "wait_ap", "scan"} => call[v].hasClone
  /\ call[v].pc \in {"detach", "delete"} /\ ~call[v].hasClone /\ v \notin lost =>
       clone[v] \in {"none", "gone"}
  /\ call[v].pc = "done" /\ call[v].cleanedUp /\ ~LeftClone(v) => clone[v] \in Removed

\* Before the clean-up a call has no verdict and has lost nothing; one that lost
\* something gets none.
Underway == {"idle", "ad_check", "post", "wait_job", "lookup", "resolve", "create_ap", "wait_ap",
             "scan"}

OwnVerdict(v) ==
  /\ call[v].pc \in Underway => call[v].verdict = "unknown" /\ v \notin lost
  /\ call[v].verdict \in {"clean", "suspicious"} => call[v].scanned = {v} /\ v \notin lost

Tracks(v) == OwnAccessPoint(v) /\ OwnClone(v) /\ OwnVerdict(v)

IInv == TypeOK /\ OneHolder /\ \A v \in Verifications : Tracks(v)

LEMMA InitInv == Init => IInv
<1> SUFFICES ASSUME Init PROVE IInv
  OBVIOUS
<1>1. NewCall \in Call
  BY DEF NewCall, Call, Pcs, Verdicts
<1>2. TypeOK
  BY <1>1, ConstantsAssumption
     DEF ConstantsAssumption, Init, TypeOK, Clones, AccessPoints
<1>3. OneHolder
  BY DEF Init, OneHolder, Present
<1>4. \A v \in Verifications : Tracks(v)
  BY DEF Init, NewCall, Tracks, OwnAccessPoint, OwnClone, OwnVerdict, Underway
<1> QED  BY <1>2, <1>3, <1>4 DEF IInv

-----------------------------------------------------------------------------
(* How a call's record changes.                                            *)

\* A call moves on, with nothing else about it changed.
LEMMA Goes ==
  ASSUME TypeOK, NEW v \in Verifications, NEW p \in Pcs, Goto(v, p)
  PROVE  /\ call' \in [Verifications -> Call]
         /\ \A u \in Verifications \ {v} : call'[u] = call[u]
         /\ call'[v] = [call[v] EXCEPT !.pc = p]
         /\ call'[v].pc = p
         /\ call'[v].hasClone = call[v].hasClone /\ call'[v].hasAp = call[v].hasAp
         /\ call'[v].verdict = call[v].verdict /\ call'[v].scanned = call[v].scanned
         /\ call'[v].cleanedUp = call[v].cleanedUp
  BY DEF Goto, TypeOK, Call

\* The record of one call is replaced.
LEMMA Becomes ==
  ASSUME TypeOK, NEW v \in Verifications, NEW new \in Call, call' = [call EXCEPT ![v] = new]
  PROVE  /\ call' \in [Verifications -> Call] /\ call'[v] = new
         /\ \A u \in Verifications \ {v} : call'[u] = call[u]
  BY DEF TypeOK

\* A call goes to the clean-up after a failure.
LEMMA Falls ==
  ASSUME TypeOK, NEW v \in Verifications, Fails(v) \/ Raises(v)
  PROVE  /\ call' \in [Verifications -> Call]
         /\ \A u \in Verifications \ {v} : call'[u] = call[u]
         /\ call'[v].pc = "detach"
         /\ call'[v].hasClone = call[v].hasClone /\ call'[v].hasAp = call[v].hasAp
         /\ call'[v].verdict \in {"error", call[v].verdict}
         /\ call'[v].scanned = call[v].scanned
<1>0. call[v] \in Call /\ call \in [Verifications -> Call]
  BY DEF TypeOK
<1>1. CASE Fails(v)
  <2> DEFINE new == [call[v] EXCEPT !.verdict = "error", !.pc = "detach"]
  <2>1. new \in Call
    BY <1>0 DEF Call, Pcs, Verdicts
  <2>2. /\ new.pc = "detach" /\ new.hasClone = call[v].hasClone /\ new.hasAp = call[v].hasAp
        /\ new.verdict = "error" /\ new.scanned = call[v].scanned
    BY <1>0 DEF Call
  <2>3. call' = [call EXCEPT ![v] = new]
    BY <1>0, <1>1 DEF Fails, Call
  <2> HIDE DEF new
  <2> QED  BY <2>1, <2>2, <2>3, Becomes
<1>2. CASE Raises(v)
  <2> DEFINE new == [call[v] EXCEPT !.raised = TRUE, !.pc = "detach"]
  <2>1. new \in Call
    BY <1>0 DEF Call, Pcs
  <2>2. /\ new.pc = "detach" /\ new.hasClone = call[v].hasClone /\ new.hasAp = call[v].hasAp
        /\ new.verdict = call[v].verdict /\ new.scanned = call[v].scanned
    BY <1>0 DEF Call
  <2>3. call' = [call EXCEPT ![v] = new]
    BY <1>0, <1>2 DEF Raises, Call
  <2> HIDE DEF new
  <2> QED  BY <2>1, <2>2, <2>3, Becomes
<1> QED  BY <1>1, <1>2

\* What a step of v, or of the services for v, leaves to be checked.
LEMMA OnlyOne ==
  ASSUME IInv, NEW v \in Verifications,
         UNCHANGED settings, faults' \in Nat,
         call' \in [Verifications -> Call], clone' \in [Verifications -> Clones],
         ap' \in [Verifications -> AccessPoints], {lost', kept'} \subseteq SUBSET Verifications,
         \A u \in Verifications \ {v} :
           /\ call'[u] = call[u] /\ clone'[u] = clone[u] /\ ap'[u] = ap[u]
           /\ (u \in lost' <=> u \in lost) /\ (u \in kept' <=> u \in kept),
         ap'[v] \in {"none", "gone"} \/ Present(v)
           \/ (shared => \A u \in Verifications : ~Present(u)),
         Tracks(v)'
  PROVE  IInv'
<1>1. TypeOK'
  BY DEF IInv, TypeOK, settings
<1>2. OneHolder'
  BY DEF IInv, OneHolder, Present, settings
<1>3. \A u \in Verifications : Tracks(u)'
  BY DEF IInv, Tracks, OwnAccessPoint, OwnClone, OwnVerdict, LeftAp, LeftClone
<1> QED  BY <1>1, <1>2, <1>3 DEF IInv

LEMMA FaultType == TypeOK /\ (Fault \/ UNCHANGED faults) => faults' \in Nat
  BY DEF TypeOK, Fault

LEMMA LosesFacts ==
  ASSUME TypeOK, NEW v \in Verifications, LosesTrack(v) \/ UNCHANGED lost
  PROVE  /\ lost' \subseteq Verifications
         /\ \A u \in Verifications \ {v} : u \in lost' <=> u \in lost
         /\ v \in lost => v \in lost'
         /\ LosesTrack(v) => v \in lost'
  BY DEF LosesTrack, TypeOK

LEMMA KeepsFacts ==
  ASSUME TypeOK, NEW v \in Verifications, Keeps(v) \/ UNCHANGED kept
  PROVE  /\ kept' \subseteq Verifications
         /\ \A u \in Verifications \ {v} : u \in kept' <=> u \in kept
         /\ v \in kept => v \in kept'
         /\ Keeps(v) => v \in kept'
  BY DEF Keeps, TypeOK

\* One clone, or one access point, changes its state.
LEMMA CloneChanges ==
  ASSUME TypeOK, NEW v \in Verifications, NEW s \in Clones,
         clone' = [clone EXCEPT ![v] = s]
  PROVE  /\ clone' \in [Verifications -> Clones] /\ clone'[v] = s
         /\ \A u \in Verifications \ {v} : clone'[u] = clone[u]
  BY DEF TypeOK

LEMMA ApChanges ==
  ASSUME TypeOK, NEW v \in Verifications, NEW s \in AccessPoints,
         ap' = [ap EXCEPT ![v] = s]
  PROVE  /\ ap' \in [Verifications -> AccessPoints] /\ ap'[v] = s
         /\ \A u \in Verifications \ {v} : ap'[u] = ap[u]
  BY DEF TypeOK

\* Whose access point a call with ap_info finds under its name.
LEMMA FindsItsOwn ==
  ASSUME IInv, NEW v \in Verifications, Present(v)
  PROVE  Named(v) = {v}
  BY DEF IInv, OneHolder, Present, Named, TypeOK

-----------------------------------------------------------------------------
(* ONTAP and FSx.                                                          *)

LEMMA ExternalInv == ASSUME IInv, NEW v \in Verifications, External(v) PROVE IInv'
<1>0. /\ TypeOK /\ Tracks(v) /\ call \in [Verifications -> Call]
      /\ {lost, kept} \subseteq SUBSET Verifications
  BY DEF IInv, TypeOK
<1>1. CASE CloneMade(v) \/ CloneJobFails(v)
  <2>1. PICK s \in {"made", "gone"} : clone' = [clone EXCEPT ![v] = s]
    BY <1>1 DEF CloneMade, CloneJobFails
  <2>2. clone[v] = "making" /\ UNCHANGED <<settings, lost, kept, ap, call>> /\ faults' \in Nat
    BY <1>0, <1>1, FaultType DEF CloneMade, CloneJobFails
  <2>3. s \in Clones
    BY DEF Clones
  <2>4. Tracks(v)'
    BY <1>0, <2>1, <2>2, <2>3, CloneChanges
       DEF Tracks, OwnAccessPoint, OwnClone, OwnVerdict, LeftAp, LeftClone, Removed
  <2>5. ap'[v] \in {"none", "gone"} \/ Present(v)
    BY <2>2 DEF Present
  <2> QED  BY <1>0, <2>1, <2>2, <2>3, <2>4, <2>5, CloneChanges, OnlyOne DEF TypeOK
<1>2. CASE CloneDeleted(v)
  <2>1. PICK s \in {"made", "gone"} : /\ clone' = [clone EXCEPT ![v] = s]
                                      /\ s = "made" => Keeps(v)
    BY <1>2 DEF CloneDeleted
  <2>2. /\ clone[v] = "deleting" /\ UNCHANGED <<settings, lost, ap, call>> /\ faults' \in Nat
        /\ Keeps(v) \/ UNCHANGED kept
    BY <1>0, <1>2, FaultType DEF CloneDeleted
  <2>3. s \in Clones
    BY DEF Clones
  <2>4. Tracks(v)'
    BY <1>0, <2>1, <2>2, <2>3, CloneChanges, KeepsFacts
       DEF Tracks, OwnAccessPoint, OwnClone, OwnVerdict, LeftAp, LeftClone, Removed
  <2>5. ap'[v] \in {"none", "gone"} \/ Present(v)
    BY <2>2 DEF Present
  <2> QED  BY <1>0, <2>1, <2>2, <2>3, <2>4, <2>5, CloneChanges, KeepsFacts, OnlyOne DEF TypeOK
<1>3. CASE ApMade(v) \/ ApDeleted(v)
  <2>1. PICK s \in {"available", "failed", "gone"} :
          /\ ap' = [ap EXCEPT ![v] = s]
          /\ s = "gone" => ap[v] = "deleting"
          /\ s # "gone" => ap[v] = "creating"
    BY <1>3 DEF ApMade, ApDeleted
  <2>2. UNCHANGED <<settings, lost, kept, clone, call>> /\ faults' \in Nat
    BY <1>0, <1>3, FaultType DEF ApMade, ApDeleted
  <2>3. s \in AccessPoints
    BY DEF AccessPoints
  <2>4. Tracks(v)'
    BY <1>0, <2>1, <2>2, <2>3, ApChanges
       DEF Tracks, OwnAccessPoint, OwnClone, OwnVerdict, LeftAp, LeftClone, Removed
  <2>5. Present(v)
    BY <2>1 DEF Present
  <2> QED  BY <1>0, <2>1, <2>2, <2>3, <2>4, <2>5, ApChanges, OnlyOne DEF TypeOK
<1> QED  BY <1>1, <1>2, <1>3 DEF External

-----------------------------------------------------------------------------
(* The steps of a call.                                                    *)

\* The list of what a failure before the clean-up leaves to be checked: the call
\* knows of what there is, or has lost track of it.
LEMMA FallsInv ==
  ASSUME IInv, NEW v \in Verifications, Fails(v) \/ Raises(v),
         call[v].pc \in Underway \ {"idle"},
         UNCHANGED <<settings, kept>>, faults' \in Nat,
         ap' \in [Verifications -> AccessPoints], clone' \in [Verifications -> Clones],
         \A u \in Verifications \ {v} : clone'[u] = clone[u] /\ ap'[u] = ap[u],
         call[v].hasAp => ap'[v] = ap[v],
         \/ ap'[v] = ap[v]
         \/ shared => \A u \in Verifications : ~Present(u),
         LosesTrack(v) \/ UNCHANGED lost,
         v \notin lost' => /\ call[v].hasAp \/ ap'[v] = "none"
                           /\ call[v].hasClone \/ clone'[v] \in {"none", "gone"}
  PROVE  IInv'
<1>0. /\ TypeOK /\ Tracks(v) /\ call[v] \in Call /\ kept' \subseteq Verifications
      /\ Fails(v) \/ Raises(v)
  BY DEF IInv, TypeOK
<1>1. /\ call' \in [Verifications -> Call]
      /\ \A u \in Verifications \ {v} : call'[u] = call[u]
      /\ call'[v].pc = "detach"
      /\ call'[v].hasClone = call[v].hasClone /\ call'[v].hasAp = call[v].hasAp
      /\ call'[v].verdict \in {"error", call[v].verdict}
      /\ call'[v].scanned = call[v].scanned
  BY <1>0, Falls
<1>2. /\ lost' \subseteq Verifications
      /\ \A u \in Verifications \ {v} : u \in lost' <=> u \in lost
      /\ v \in lost => v \in lost'
  BY <1>0, LosesFacts
<1>3. OwnVerdict(v)'
  BY <1>0, <1>1 DEF Tracks, OwnVerdict, Underway
<1>4. OwnClone(v)'
  BY <1>1, <1>2 DEF OwnClone
<1>5. call[v].hasAp => ap[v] = "available"
  BY <1>0 DEF Tracks, OwnAccessPoint, Call, Pcs, Underway
<1>6. OwnAccessPoint(v)'
  BY <1>1, <1>2, <1>5 DEF OwnAccessPoint
<1>7. \/ ap'[v] \in {"none", "gone"} \/ Present(v)
      \/ shared => \A u \in Verifications : ~Present(u)
  BY DEF Present
<1> QED  BY <1>0, <1>1, <1>2, <1>3, <1>4, <1>6, <1>7, OnlyOne DEF Tracks

\* A call moves on with its clone and its access point as they were.
LEMMA GoesInv ==
  ASSUME IInv, NEW v \in Verifications, NEW p \in Pcs, Goto(v, p),
         UNCHANGED <<settings, ap, lost>>, faults' \in Nat,
         Keeps(v) \/ UNCHANGED kept,
         clone' \in [Verifications -> Clones],
         \A u \in Verifications \ {v} : clone'[u] = clone[u],
         \/ p = "killed"
         \/ call[v].pc = "idle" /\ p = "ad_check" /\ clone'[v] = clone[v]
         \/ call[v].pc = "ad_check" /\ p = "post" /\ clone'[v] = clone[v]
         \/ call[v].pc = "post" /\ p = "wait_job"
         \/ call[v].pc = "wait_job" /\ p = "lookup"
         \/ call[v].pc = "resolve" /\ p = "create_ap"
         \/ /\ call[v].pc = "delete" /\ p = "done"
            /\ call[v].hasClone => clone'[v] = "deleting" \/ v \in kept'
            /\ ~call[v].hasClone => clone'[v] = clone[v]
  PROVE  IInv'
<1>0. TypeOK /\ Tracks(v) /\ call[v] \in Call /\ ap \in [Verifications -> AccessPoints]
  BY DEF IInv, TypeOK
<1>1. /\ call' \in [Verifications -> Call]
      /\ \A u \in Verifications \ {v} : call'[u] = call[u]
      /\ call'[v].pc = p
      /\ call'[v].hasClone = call[v].hasClone /\ call'[v].hasAp = call[v].hasAp
      /\ call'[v].verdict = call[v].verdict /\ call'[v].scanned = call[v].scanned
      /\ call'[v].cleanedUp = call[v].cleanedUp
  BY <1>0, Goes
<1>2. OwnAccessPoint(v)'
  BY <1>0, <1>1 DEF Tracks, OwnAccessPoint, LeftAp
<1>3. OwnClone(v)'
  BY <1>0, <1>1 DEF Tracks, OwnClone, LeftClone, Removed
<1>4. OwnVerdict(v)'
  BY <1>0, <1>1 DEF Tracks, OwnVerdict, Underway
<1>5. ap'[v] \in {"none", "gone"} \/ Present(v)
  BY DEF Present
<1>6. /\ {lost', kept'} \subseteq SUBSET Verifications
      /\ \A u \in Verifications \ {v} : u \in kept' <=> u \in kept
  BY <1>0, KeepsFacts DEF TypeOK
<1> QED  BY <1>0, <1>1, <1>2, <1>3, <1>4, <1>5, <1>6, OnlyOne DEF Tracks

\* A call whose record is replaced, with the services and history as they were.
LEMMA BecomesInv ==
  ASSUME IInv, NEW v \in Verifications, NEW new \in Call, call' = [call EXCEPT ![v] = new],
         UNCHANGED <<settings, ap, lost, kept>>, faults' \in Nat,
         clone' \in [Verifications -> Clones],
         \A u \in Verifications \ {v} : clone'[u] = clone[u],
         Tracks(v)'
  PROVE  IInv'
<1>1. /\ TypeOK /\ {lost, kept} \subseteq SUBSET Verifications
      /\ ap \in [Verifications -> AccessPoints]
      /\ clone \in [Verifications -> Clones]
  BY DEF IInv, TypeOK
<1>2. ap'[v] \in {"none", "gone"} \/ Present(v)
  BY DEF Present
<1> QED  BY <1>1, <1>2, Becomes, OnlyOne

\* The steps before there is an access point.
LEMMA CloneStepsInv ==
  ASSUME IInv, NEW v \in Verifications,
         \/ Start(v) \/ CheckAd(v) \/ PostClone(v) \/ WaitForJob(v) \/ ResolveVolume(v)
  PROVE  IInv'
<1>0. /\ TypeOK /\ Tracks(v) /\ clone \in [Verifications -> Clones] /\ faults \in Nat
      /\ ap \in [Verifications -> AccessPoints]
      /\ {"ad_check", "post", "wait_job", "lookup", "create_ap"} \subseteq Pcs
  BY DEF IInv, TypeOK, Pcs
<1>1. CASE Start(v)
  BY <1>0, <1>1, GoesInv DEF Start, At, TypeOK
<1>2. CASE CheckAd(v)
  <2>1. /\ call[v].pc = "ad_check" /\ UNCHANGED <<settings, lost, kept, clone, ap>>
        /\ Fault \/ UNCHANGED faults
        /\ Goto(v, "post") \/ Fails(v) \/ Raises(v)
    BY <1>2 DEF CheckAd, At, RestFails
  <2>2. ap[v] = "none" /\ clone[v] = "none"
    BY <1>0, <2>1 DEF Tracks, OwnAccessPoint, OwnClone
  <2>3. CASE Goto(v, "post")
    BY <1>0, <2>1, <2>3, FaultType, GoesInv
  <2>4. CASE Fails(v) \/ Raises(v)
    BY <1>0, <2>1, <2>2, <2>4, FaultType, FallsInv DEF Underway
  <2> QED  BY <2>1, <2>3, <2>4
<1>3. CASE PostClone(v)
  <2>1. /\ call[v].pc = "post" /\ UNCHANGED <<settings, kept, ap>>
        /\ Fault \/ UNCHANGED faults
        /\ \/ /\ Goto(v, "wait_job") /\ UNCHANGED lost
              /\ clone' = [clone EXCEPT ![v] = "making"]
           \/ (Fails(v) \/ Raises(v)) /\ UNCHANGED <<clone, lost>>
           \/ /\ Fails(v) \/ Raises(v)
              /\ clone' = [clone EXCEPT ![v] = "making"] /\ LosesTrack(v)
    BY <1>3 DEF PostClone, At, RestFails, AwsRaises
  <2>2. ap[v] = "none" /\ clone[v] = "none"
    BY <1>0, <2>1 DEF Tracks, OwnAccessPoint, OwnClone
  <2>3. "making" \in Clones
    BY DEF Clones
  <2>4. /\ clone' \in [Verifications -> Clones]
        /\ \A u \in Verifications \ {v} : clone'[u] = clone[u]
    BY <1>0, <2>1, <2>3, CloneChanges
  <2>5. CASE Goto(v, "wait_job") /\ UNCHANGED lost
    BY <1>0, <2>1, <2>4, <2>5, FaultType, GoesInv
  <2>6. CASE Fails(v) \/ Raises(v)
    <3>1. CASE UNCHANGED <<clone, lost>>
      BY <1>0, <2>1, <2>2, <2>4, <2>6, <3>1, FaultType, FallsInv DEF Underway
    <3>2. CASE LosesTrack(v)
      BY <1>0, <2>1, <2>2, <2>4, <2>6, <3>2, FaultType, LosesFacts, FallsInv DEF Underway
    <3>3. CASE Goto(v, "wait_job") /\ UNCHANGED lost
      BY <2>5, <3>3
    <3> QED  BY <2>1, <3>1, <3>2, <3>3
  <2> QED  BY <2>1, <2>5, <2>6
<1>4. CASE WaitForJob(v)
  <2>1. /\ call[v].pc = "wait_job" /\ UNCHANGED <<settings, kept, clone, ap>>
        /\ Fault \/ UNCHANGED faults
        /\ \/ Goto(v, "lookup") /\ UNCHANGED lost
           \/ Fails(v) /\ clone[v] = "gone" /\ UNCHANGED lost
           \/ (Fails(v) \/ Raises(v)) /\ LosesTrack(v)
    BY <1>4 DEF WaitForJob, At, RestFails
  <2>2. ap[v] = "none"
    BY <1>0, <2>1 DEF Tracks, OwnAccessPoint
  <2>3. CASE Goto(v, "lookup") /\ UNCHANGED lost
    BY <1>0, <2>1, <2>3, FaultType, GoesInv
  <2>4. CASE Fails(v) /\ clone[v] = "gone" /\ UNCHANGED lost
    BY <1>0, <2>1, <2>2, <2>4, FaultType, FallsInv DEF Underway
  <2>5. CASE (Fails(v) \/ Raises(v)) /\ LosesTrack(v)
    BY <1>0, <2>1, <2>5, FaultType, LosesFacts, FallsInv DEF Underway
  <2> QED  BY <2>1, <2>3, <2>4, <2>5
<1>5. CASE ResolveVolume(v)
  <2>1. /\ call[v].pc = "resolve" /\ UNCHANGED <<settings, lost, kept, clone, ap>>
        /\ Fault \/ UNCHANGED faults
        /\ Goto(v, "create_ap") \/ Fails(v) \/ Raises(v)
    BY <1>5 DEF ResolveVolume, At, AwsRaises
  <2>2. ap[v] = "none" /\ call[v].hasClone
    BY <1>0, <2>1 DEF Tracks, OwnAccessPoint, OwnClone
  <2>3. CASE Goto(v, "create_ap")
    BY <1>0, <2>1, <2>3, FaultType, GoesInv
  <2>4. CASE Fails(v) \/ Raises(v)
    BY <1>0, <2>1, <2>2, <2>4, FaultType, FallsInv DEF Underway
  <2> QED  BY <2>1, <2>3, <2>4
<1> QED  BY <1>1, <1>2, <1>3, <1>4, <1>5

\* The steps that find the clone, ask for the access point, wait for it and scan.
LEMMA AccessPointStepsInv ==
  ASSUME IInv, NEW v \in Verifications,
         LookUpClone(v) \/ CreateAp(v) \/ WaitForAp(v) \/ Scan(v)
  PROVE  IInv'
<1>0. /\ TypeOK /\ Tracks(v) /\ call[v] \in Call /\ call \in [Verifications -> Call]
      /\ clone \in [Verifications -> Clones] /\ ap \in [Verifications -> AccessPoints]
      /\ faults \in Nat
  BY DEF IInv, TypeOK
<1>1. CASE LookUpClone(v)
  <2>1. /\ call[v].pc = "lookup" /\ UNCHANGED <<settings, kept, clone, ap>>
        /\ Fault \/ UNCHANGED faults
        /\ \/ /\ call' = [call EXCEPT ![v].hasClone = TRUE, ![v].pc = "resolve"]
              /\ UNCHANGED lost
           \/ (Fails(v) \/ Raises(v)) /\ LosesTrack(v)
    BY <1>1 DEF LookUpClone, At, RestFails
  <2>2. CASE (Fails(v) \/ Raises(v)) /\ LosesTrack(v)
    BY <1>0, <2>1, <2>2, FaultType, LosesFacts, FallsInv DEF Underway
  <2>3. CASE /\ call' = [call EXCEPT ![v].hasClone = TRUE, ![v].pc = "resolve"]
             /\ UNCHANGED lost
    <3> DEFINE new == [call[v] EXCEPT !.hasClone = TRUE, !.pc = "resolve"]
    <3>1. new \in Call
      BY <1>0 DEF Call, Pcs
    <3>2. /\ new.pc = "resolve" /\ new.hasClone = TRUE /\ new.hasAp = call[v].hasAp
          /\ new.verdict = call[v].verdict /\ new.scanned = call[v].scanned
      BY <1>0 DEF Call
    <3>3. call' = [call EXCEPT ![v] = new]
      BY <1>0, <2>3 DEF Call
    <3> HIDE DEF new
    <3>4. call'[v] = new
      BY <1>0, <3>1, <3>3, Becomes
    <3>5. Tracks(v)'
      BY <1>0, <2>1, <2>3, <3>2, <3>4 DEF Tracks, OwnAccessPoint, OwnClone, OwnVerdict, Underway,
             LeftAp, LeftClone
    <3> QED  BY <1>0, <2>1, <2>3, <3>1, <3>3, <3>5, FaultType, BecomesInv
  <2> QED  BY <2>1, <2>2, <2>3
<1>2. CASE CreateAp(v)
  <2>1. /\ call[v].pc = "create_ap" /\ UNCHANGED <<settings, kept, clone>>
        /\ Fault \/ UNCHANGED faults
        /\ \/ /\ Named(v) = {} /\ Goto(v, "wait_ap") /\ UNCHANGED lost
              /\ ap' = [ap EXCEPT ![v] = "creating"]
           \/ (Fails(v) \/ Raises(v)) /\ UNCHANGED <<ap, lost>>
           \/ /\ Fails(v) \/ Raises(v)
              /\ Named(v) = {} /\ ap' = [ap EXCEPT ![v] = "creating"] /\ LosesTrack(v)
    BY <1>2 DEF CreateAp, At
  <2>2. ap[v] = "none" /\ call[v].hasClone /\ ~call[v].hasAp
    BY <1>0, <2>1 DEF Tracks, OwnAccessPoint, OwnClone
  <2>3. CASE (Fails(v) \/ Raises(v)) /\ UNCHANGED <<ap, lost>>
    BY <1>0, <2>1, <2>2, <2>3, FaultType, FallsInv DEF Underway
  <2>5. CASE /\ Fails(v) \/ Raises(v)
             /\ Named(v) = {} /\ ap' = [ap EXCEPT ![v] = "creating"] /\ LosesTrack(v)
    <3>1. /\ ap' \in [Verifications -> AccessPoints]
          /\ \A u \in Verifications \ {v} : ap'[u] = ap[u]
      BY <1>0, <2>5, ApChanges DEF AccessPoints
    <3>2. shared => \A u \in Verifications : ~Present(u)
      BY <2>5 DEF Named, Present
    <3>3. v \in lost'
      BY <1>0, <2>5, LosesFacts
    <3> QED  BY <1>0, <2>1, <2>2, <2>5, <3>1, <3>2, <3>3, FaultType, FallsInv DEF Underway
  <2>4. CASE /\ Named(v) = {} /\ Goto(v, "wait_ap") /\ UNCHANGED lost
             /\ ap' = [ap EXCEPT ![v] = "creating"]
    <3>1. /\ call' \in [Verifications -> Call]
          /\ \A u \in Verifications \ {v} : call'[u] = call[u]
          /\ call'[v].pc = "wait_ap"
          /\ call'[v].hasClone = call[v].hasClone /\ call'[v].hasAp = call[v].hasAp
          /\ call'[v].verdict = call[v].verdict /\ call'[v].scanned = call[v].scanned
      BY <1>0, <2>4, Goes DEF Pcs
    <3>2. /\ ap' \in [Verifications -> AccessPoints] /\ ap'[v] = "creating"
          /\ \A u \in Verifications \ {v} : ap'[u] = ap[u]
      BY <1>0, <2>4, ApChanges DEF AccessPoints
    <3>3. Tracks(v)'
      BY <1>0, <2>1, <2>2, <2>4, <3>1, <3>2 DEF Tracks, OwnAccessPoint, OwnClone, OwnVerdict, Underway,
             LeftAp, LeftClone
    <3>4. shared => \A u \in Verifications : ~Present(u)
      BY <2>4 DEF Named, Present
    <3>5. /\ {lost', kept'} \subseteq SUBSET Verifications
          /\ lost' = lost /\ kept' = kept
      BY <1>0, <2>1, <2>4 DEF TypeOK
    <3> QED  BY <1>0, <2>1, <3>1, <3>2, <3>3, <3>4, <3>5, FaultType, OnlyOne
  <2> QED  BY <2>1, <2>3, <2>4, <2>5
<1>3. CASE WaitForAp(v)
  <2>1. /\ call[v].pc = "wait_ap" /\ UNCHANGED <<settings, kept, clone, ap>>
        /\ Fault \/ UNCHANGED faults
        /\ \/ /\ \E u \in Named(v) : ap[u] = "available"
              /\ call' = [call EXCEPT ![v].hasAp = TRUE, ![v].pc = "scan"]
              /\ UNCHANGED lost
           \/ (Fails(v) \/ Raises(v)) /\ LosesTrack(v)
    BY <1>3 DEF WaitForAp, At
  <2>2. CASE (Fails(v) \/ Raises(v)) /\ LosesTrack(v)
    BY <1>0, <2>1, <2>2, FaultType, LosesFacts, FallsInv DEF Underway
  <2>3. CASE /\ \E u \in Named(v) : ap[u] = "available"
             /\ call' = [call EXCEPT ![v].hasAp = TRUE, ![v].pc = "scan"]
             /\ UNCHANGED lost
    <3> DEFINE new == [call[v] EXCEPT !.hasAp = TRUE, !.pc = "scan"]
    <3>1. new \in Call
      BY <1>0 DEF Call, Pcs
    <3>2. /\ new.pc = "scan" /\ new.hasAp = TRUE /\ new.hasClone = call[v].hasClone
          /\ new.verdict = call[v].verdict /\ new.scanned = call[v].scanned
      BY <1>0 DEF Call
    <3>3. call' = [call EXCEPT ![v] = new]
      BY <1>0, <2>3 DEF Call
    <3> HIDE DEF new
    <3>4. call'[v] = new
      BY <1>0, <3>1, <3>3, Becomes
    <3>5. Present(v)
      BY <1>0, <2>1 DEF Tracks, OwnAccessPoint, Present
    <3>6. ap[v] = "available"
      BY <2>3, <3>5, FindsItsOwn
    <3>7. Tracks(v)'
      BY <1>0, <2>1, <2>3, <3>2, <3>4, <3>6 DEF Tracks, OwnAccessPoint, OwnClone, OwnVerdict, Underway,
             LeftAp, LeftClone
    <3> QED  BY <1>0, <2>1, <2>3, <3>1, <3>3, <3>7, FaultType, BecomesInv
  <2> QED  BY <2>1, <2>2, <2>3
<1>4. CASE Scan(v)
  <2>1. /\ call[v].pc = "scan" /\ UNCHANGED <<settings, lost, kept, clone, ap>>
        /\ Fault \/ UNCHANGED faults
        /\ \/ \E verdict \in {"clean", "suspicious"} :
                call' = [call EXCEPT ![v].verdict = verdict, ![v].pc = "detach",
                                     ![v].scanned = {u \in Named(v) : ap[u] = "available"}]
           \/ Raises(v)
    BY <1>4 DEF Scan, At, AwsRaises
  <2>2. call[v].hasAp /\ call[v].hasClone /\ ap[v] = "available"
    BY <1>0, <2>1 DEF Tracks, OwnAccessPoint, OwnClone
  <2>3. CASE Raises(v)
    BY <1>0, <2>1, <2>2, <2>3, FaultType, FallsInv DEF Underway
  <2>4. ASSUME NEW verdict \in {"clean", "suspicious"},
               call' = [call EXCEPT ![v].verdict = verdict, ![v].pc = "detach",
                                    ![v].scanned = {u \in Named(v) : ap[u] = "available"}]
        PROVE  IInv'
    <3> DEFINE new == [call[v] EXCEPT !.verdict = verdict, !.pc = "detach", !.scanned = {v}]
    <3>1. {u \in Named(v) : ap[u] = "available"} = {v}
      BY <2>2, FindsItsOwn DEF Present
    <3>2. new \in Call
      BY <1>0 DEF Call, Pcs, Verdicts
    <3>3. /\ new.pc = "detach" /\ new.hasAp = call[v].hasAp /\ new.hasClone = call[v].hasClone
          /\ new.scanned = {v}
      BY <1>0 DEF Call
    <3>4. call' = [call EXCEPT ![v].verdict = verdict, ![v].pc = "detach", ![v].scanned = {v}]
      BY <2>4, <3>1
    <3>5. call' = [call EXCEPT ![v] = new]
      BY <1>0, <3>4 DEF Call
    <3> HIDE DEF new
    <3>6. call'[v] = new
      BY <1>0, <3>2, <3>5, Becomes
    <3>7. Tracks(v)'
      BY <1>0, <2>1, <2>2, <3>3, <3>6 DEF Tracks, OwnAccessPoint, OwnClone, OwnVerdict, Underway,
             LeftAp, LeftClone
    <3> QED  BY <1>0, <2>1, <3>2, <3>5, <3>7, FaultType, BecomesInv
  <2> QED  BY <2>1, <2>3, <2>4
<1> QED  BY <1>1, <1>2, <1>3, <1>4

\* What the detach does to the access points of others: nothing.
LEMMA DetachRemovesItsOwn ==
  ASSUME IInv, NEW v \in Verifications, Detach(v)
  PROVE  /\ ap' \in [Verifications -> AccessPoints]
         /\ \A u \in Verifications \ {v} : ap'[u] = ap[u]
         /\ ap'[v] \in {ap[v], "deleting"}
         /\ ap'[v] = "deleting" => Present(v)
<1>0. TypeOK /\ Tracks(v) /\ ap \in [Verifications -> AccessPoints] /\ call[v].pc = "detach"
  BY DEF IInv, TypeOK, Detach, At
<1>1. CASE UNCHANGED ap
  BY <1>0, <1>1 DEF Present
<1>2. CASE ap' = [u \in Verifications |->
                    IF call[v].hasAp /\ u \in Named(v) THEN "deleting" ELSE ap[u]]
  <2>1. CASE call[v].hasAp
    <3>1. Present(v)
      BY <1>0, <2>1 DEF Tracks, OwnAccessPoint, Present
    <3>2. Named(v) = {v}
      BY <3>1, FindsItsOwn
    <3> QED  BY <1>0, <1>2, <2>1, <3>1, <3>2 DEF AccessPoints
  <2>2. CASE ~call[v].hasAp
    <3>1. ap' = ap
      BY <1>0, <1>2, <2>2
    <3> QED  BY <1>0, <3>1 DEF Present
  <2> QED  BY <2>1, <2>2
<1>3. CASE /\ call[v].hasAp
           /\ ap' = [u \in Verifications |-> IF u \in Named(v) THEN "deleting" ELSE ap[u]]
  BY <1>2, <1>3
<1> QED  BY <1>1, <1>2, <1>3 DEF Detach

\* The two steps of the clean-up.
LEMMA CleanUpInv ==
  ASSUME IInv, NEW v \in Verifications, Detach(v) \/ Delete(v) PROVE IInv'
<1>0. /\ TypeOK /\ Tracks(v) /\ call[v] \in Call /\ call \in [Verifications -> Call]
      /\ clone \in [Verifications -> Clones] /\ ap \in [Verifications -> AccessPoints]
      /\ faults \in Nat /\ {lost, kept} \subseteq SUBSET Verifications
  BY DEF IInv, TypeOK
<1>1. CASE Detach(v)
  <2>1. PICK ok \in BOOLEAN :
          /\ call' = [call EXCEPT ![v].cleanedUp = ok, ![v].pc = "delete"]
          /\ ok => ap'[v] = IF call[v].hasAp /\ v \in Named(v) THEN "deleting" ELSE ap[v]
    BY <1>1 DEF Detach
  <2>2. /\ call[v].pc = "detach" /\ UNCHANGED <<settings, lost, kept, clone>>
        /\ Fault \/ UNCHANGED faults
    BY <1>1 DEF Detach, At
  <2>3. /\ ap' \in [Verifications -> AccessPoints]
        /\ \A u \in Verifications \ {v} : ap'[u] = ap[u]
        /\ ap'[v] \in {ap[v], "deleting"}
        /\ ap'[v] = "deleting" => Present(v)
    BY <1>1, DetachRemovesItsOwn
  <2> DEFINE new == [call[v] EXCEPT !.cleanedUp = ok, !.pc = "delete"]
  <2>4. new \in Call
    BY <1>0 DEF Call, Pcs
  <2>5. /\ new.pc = "delete" /\ new.hasClone = call[v].hasClone /\ new.cleanedUp = ok
        /\ new.verdict = call[v].verdict /\ new.scanned = call[v].scanned
        /\ new.hasAp = call[v].hasAp
    BY <1>0 DEF Call
  <2>6. call' = [call EXCEPT ![v] = new]
    BY <1>0, <2>1 DEF Call
  <2> HIDE DEF new
  <2>7. /\ call' \in [Verifications -> Call] /\ call'[v] = new
        /\ \A u \in Verifications \ {v} : call'[u] = call[u]
    BY <1>0, <2>4, <2>6, Becomes
  <2>8. ok /\ ~LeftAp(v) => ap'[v] \in Removed
    <3>1. CASE call[v].hasAp
      <4>1. Present(v)
        BY <1>0, <2>2, <3>1 DEF Tracks, OwnAccessPoint, Present
      <4> QED  BY <2>1, <3>1, <4>1, FindsItsOwn DEF Removed
    <3>2. CASE ~call[v].hasAp
      BY <1>0, <2>1, <2>2, <3>2 DEF Tracks, OwnAccessPoint, LeftAp, Removed
    <3> QED  BY <3>1, <3>2
  <2>9. OwnAccessPoint(v)'
    BY <2>2, <2>5, <2>7, <2>8 DEF OwnAccessPoint, LeftAp
  <2>10. OwnClone(v)' /\ OwnVerdict(v)'
    BY <1>0, <2>2, <2>5, <2>7 DEF Tracks, OwnClone, OwnVerdict, Underway
  <2>11. ap'[v] \in {"none", "gone"} \/ Present(v)
    BY <2>3 DEF Present
  <2> QED  BY <1>0, <2>2, <2>3, <2>7, <2>9, <2>10, <2>11, FaultType, OnlyOne DEF Tracks
<1>2. CASE Delete(v)
  <2>1. /\ call[v].pc = "delete" /\ UNCHANGED <<settings, lost, ap>>
        /\ Fault \/ UNCHANGED faults
    BY <1>2 DEF Delete, At
  <2>2. "deleting" \in Clones /\ "done" \in Pcs
    BY DEF Clones, Pcs
  <2>3. CASE /\ Goto(v, "done") /\ UNCHANGED kept
             /\ clone' = [clone EXCEPT ![v] = IF call[v].hasClone THEN "deleting" ELSE @]
    <3>1. /\ clone' \in [Verifications -> Clones]
          /\ \A u \in Verifications \ {v} : clone'[u] = clone[u]
          /\ call[v].hasClone => clone'[v] = "deleting"
          /\ ~call[v].hasClone => clone'[v] = clone[v]
      BY <1>0, <2>2, <2>3
    <3> QED  BY <1>0, <2>1, <2>2, <2>3, <3>1, FaultType, GoesInv
  <2>4. CASE Goto(v, "done") /\ call[v].hasClone /\ Keeps(v) /\ UNCHANGED clone
    <3>1. v \in kept'
      BY <1>0, <2>4, KeepsFacts
    <3> QED  BY <1>0, <2>1, <2>2, <2>4, <3>1, FaultType, GoesInv
  <2>5. CASE /\ call' = [call EXCEPT ![v].cleanedUp = FALSE, ![v].pc = "done"]
             /\ clone' \in {clone, [clone EXCEPT ![v] = "deleting"]}
             /\ UNCHANGED kept
    <3> DEFINE new == [call[v] EXCEPT !.cleanedUp = FALSE, !.pc = "done"]
    <3>1. new \in Call
      BY <1>0 DEF Call, Pcs
    <3>2. /\ new.pc = "done" /\ new.cleanedUp = FALSE
          /\ new.verdict = call[v].verdict /\ new.scanned = call[v].scanned
      BY <1>0 DEF Call
    <3>3. call' = [call EXCEPT ![v] = new]
      BY <1>0, <2>5 DEF Call
    <3> HIDE DEF new
    <3>4. call'[v] = new
      BY <1>0, <3>1, <3>3, Becomes
    <3>5. Tracks(v)'
      BY <1>0, <2>1, <2>5, <3>2, <3>4
         DEF Tracks, OwnAccessPoint, OwnClone, OwnVerdict, Underway
    <3>6. /\ clone' \in [Verifications -> Clones]
          /\ \A u \in Verifications \ {v} : clone'[u] = clone[u]
      BY <1>0, <2>2, <2>5
    <3> QED  BY <1>0, <2>1, <2>5, <3>1, <3>3, <3>5, <3>6, FaultType, BecomesInv
  <2> QED  BY <1>2, <2>3, <2>4, <2>5 DEF Delete
<1> QED  BY <1>1, <1>2

LEMMA NextInv == IInv /\ [Next]_vars => IInv'
<1> SUFFICES ASSUME IInv, [Next]_vars PROVE IInv'
  OBVIOUS
<1>1. ASSUME NEW v \in Verifications, Start(v) \/ Step(v) \/ External(v) PROVE IInv'
  BY <1>1, ExternalInv, CloneStepsInv, AccessPointStepsInv, CleanUpInv DEF Step
<1>3. ASSUME NEW v \in Verifications, Killed(v) PROVE IInv'
  <2>1. /\ TypeOK /\ "killed" \in Pcs /\ faults' \in Nat
        /\ clone' \in [Verifications -> Clones]
    BY <1>3, FaultType DEF Killed, IInv, TypeOK, Pcs
  <2> QED  BY <1>3, <2>1, GoesInv DEF Killed
<1>2. CASE UNCHANGED vars
  BY <1>2 DEF vars, settings, IInv, TypeOK, OneHolder, Present, Tracks, OwnAccessPoint,
              OwnClone, OwnVerdict, LeftAp, LeftClone
<1> QED  BY <1>1, <1>2, <1>3 DEF Next

LEMMA InvIsInvariant == Spec => []IInv
  BY InitInv, NextInv, PTL DEF Spec

-----------------------------------------------------------------------------
(* The theorems.                                                           *)

\* Every call, clone and access point keeps its type.
THEOREM VerificationTypeCorrect == Spec => []TypeOK
<1>1. IInv => TypeOK
  BY DEF IInv
<1> QED  BY <1>1, InvIsInvariant, PTL

\* What a call that ends with cleaned_up asked for is gone or on its way, whichever
\* of its steps failed, but for what it lost track of and a clone whose deletion
\* failed behind its back; and a call with a verdict lost track of nothing.
THEOREM CleanUpIsHonest == Spec => []CleanedUpMeansGone
<1>1. IInv => CleanedUpMeansGone
  BY DEF IInv, Tracks, OwnAccessPoint, OwnClone, OwnVerdict,
                 CleanedUpMeansGone, Ended, At, LeftAp, LeftClone, Removed
<1> QED  BY <1>1, InvIsInvariant, PTL

\* A verdict is about the clone of the call that gives it, also when the names of
\* the access points collide.
THEOREM VerdictIsOwn == Spec => []ScansOwnClone
<1>1. IInv => ScansOwnClone
  BY DEF IInv, Tracks, OwnVerdict, ScansOwnClone
<1> QED  BY <1>1, InvIsInvariant, PTL

\* A clean-up detaches by name and takes down its own access point only.
THEOREM CleanUpIsOwn == Spec => RemovesOnlyItsOwn
<1>1. IInv => [\A u, v \in Verifications : u # v /\ Detach(v) => ap'[u] = ap[u]]_vars
  BY DetachRemovesItsOwn
<1> QED  BY <1>1, InvIsInvariant, PTL DEF RemovesOnlyItsOwn
=============================================================================
