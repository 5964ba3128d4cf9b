--------------------------- MODULE FPolicyPathProofs ---------------------------
(***************************************************************************)
(* The server keeps the SVMs of its connections apart, and no event is     *)
(* lost unseen between ONTAP and the vendor, for any number of connections,*)
(* SVMs, events and overlapping invocations, for each of the handlers      *)
(* behind the queue, whatever fails, crashes or comes back.  Two           *)
(* invariants meet: ShipInv of the queue, the bus and the handlers, and    *)
(* IInv with HeldInv of the server's connections.                          *)
(***************************************************************************)
EXTENDS FPolicyPath, TLAPS, FiniteSetTheorems, SequenceTheorems,
        WellFoundedInduction

-----------------------------------------------------------------------------
(* Data of the handlers.                                                   *)

\* A set of numbers that is not empty has a least element.
LEMMA MinIn ==
  ASSUME NEW S, S \subseteq Nat, S # {}
  PROVE  Min(S) \in S /\ \A y \in S : Min(S) <= y
<1>1. IsWellFoundedOn(OpToRel(<, Nat), Nat)
  BY NatLessThanWellFounded
<1>2. PICK x \in S : \A y \in S : <<y, x>> \notin OpToRel(<, Nat)
  BY <1>1, WFMin
<1>3. \A y \in S : x <= y
  <2> SUFFICES ASSUME NEW y \in S, ~(x <= y) PROVE FALSE
    OBVIOUS
  <2>1. x \in Nat /\ y \in Nat /\ y < x
    OBVIOUS
  <2>2. <<y, x>> \in {s \in Nat \X Nat : s[1] < s[2]}
    BY <2>1
  <2>3. <<y, x>> \in OpToRel(<, Nat)
    BY <2>2 DEF OpToRel
  <2> QED  BY <1>2, <2>3
<1> QED  BY <1>3 DEF Min

\* What the 27 handlers have in common.
LEMMA ShipperFacts ==
  ASSUME NEW s \in Shippers
  PROVE  /\ s.via \in {"queue", "bus", "event", "webhook"}
         /\ s.via = "queue" => s.noKey \in {"raise", "none"} /\ s.failed \in {"batch", "messages"}
         /\ s.accepts \in {Success, {200}, {200, 204}}
  BY DEF Shippers, Shipper, NewRelicSqs, NewRelicBus, NewRelicEms, ElasticSqs, ElasticBus,
     ElasticEms, HoneycombSqs, HoneycombBus, HoneycombEms, DynatraceSqs, DynatraceBus,
     DynatraceEms, SumoLogicSqs, SumoLogicBus, SumoLogicEms, SplunkSqs, SplunkBus, SplunkEms,
     DatadogSqs, DatadogBus, DatadogBackup, DatadogEms, GrafanaBus, GrafanaEms, OtelSqs,
     OtelBus, OtelEms

\* An answer taken for an acceptance is one: the intake kept the payload.
LEMMA OkMeansKept ==
  ASSUME NEW accepts \in {Success, {200}, {200, 204}}, NEW o \in OutcomesOf[accepts]
  PROVE  o.ok \in BOOLEAN /\ o.kept \in BOOLEAN /\ (o.ok => o.kept)
<1>1. o \in Outcomes(accepts)
  BY DEF OutcomesOf
<1>2. PICK codes \in [1..MaxRetries -> Codes] :
        o.ok = PostWithRetry(codes, accepts) /\ MayKeep(codes, o.kept)
  BY <1>1 DEF Outcomes
<1>3. o \in [ok : BOOLEAN, kept : BOOLEAN]
  BY <1>1 DEF Outcomes
<1> DEFINE n == Attempts(codes)
<1> DEFINE stops == {m \in 1..MaxRetries : ~Again(codes[m])} \cup {MaxRetries}
<1>4. n \in 1..MaxRetries
  <2>1. stops \subseteq Nat /\ stops # {} /\ stops \subseteq 1..MaxRetries
    BY DEF MaxRetries
  <2>2. n = Min(stops)
    BY DEF Attempts
  <2> HIDE DEF stops, n
  <2> QED  BY <2>1, <2>2, MinIn
<1>5. accepts \subseteq Success
  <2>1. 200 \in Success /\ 204 \in Success
    BY DEF Success, Codes
  <2> QED  BY <2>1
<1>6. ASSUME o.ok PROVE o.kept
  <2>1. codes[n] \in Success
    BY <1>2, <1>5, <1>6 DEF PostWithRetry
  <2>2. n \in 1..n
    BY <1>4 DEF MaxRetries
  <2>3. {codes[m] : m \in 1..n} \cap Success # {}
    BY <2>1, <2>2
  <2> QED  BY <1>2, <2>3 DEF MayKeep
<1> QED  BY <1>3, <1>6
-----------------------------------------------------------------------------
(* The handlers behind the queue: the invariant.                           *)

RolesOf(via) ==
  CASE via = "queue" -> {"queue"} [] via = "bus" -> {"bridge", "bus"}
    [] via = "event" -> {"bus"} [] via = "webhook" -> {"webhook"}

\* An invocation that runs is one of the deployment, and sends what it parsed.
RunFits(r, unparsed, via) ==
  /\ r \in Run
  /\ r.todo \cup r.shipped \subseteq r.items \ unparsed
  /\ r.todo \cap r.shipped = {}
  /\ r.pc = "idle" => r = IdleRun
  /\ r.pc = "send" => r.role \in RolesOf(via)
  /\ r.role = "bus" => r.items \cap unparsed = {}

FromQueue(r) == r.role \in {"queue", "bridge"}

ShipTypes ==
  /\ shipper \in Shippers
  /\ garbage \subseteq Events
  /\ place \in [Events -> Places]
  /\ receives \in [Events -> 0..MaxReceiveCount]
  /\ bus \subseteq Events /\ tries \in [Events -> 0..MaxRetryAttempts]
  /\ accepted \subseteq Events /\ rejected \subseteq Events /\ reported \subseteq Events
  /\ faults \in 0..MaxFaults

RunsFit ==
  /\ DOMAIN run = Workers /\ run = [i \in Workers |-> run[i]]
  /\ \A i \in Workers : RunFits(run[i], garbage, shipper.via)
  /\ shipper.via # "event" => bus \cap garbage = {}
  /\ bus # {} => shipper.via \in {"bus", "event"}

\* A message taken is with one invocation; an event that did not start has left
\* no trace.
Messaged ==
  /\ \A e \in Events :
       /\ place[e] = "taken" => \E i \in Workers : FromQueue(run[i]) /\ e \in run[i].items
       /\ place[e] = "waiting" => receives[e] < MaxReceiveCount
       /\ place[e] = "none" => receives[e] = 0 /\ e \notin bus \cup garbage
       /\ place[e] \in {"waiting", "taken"} => shipper.via \in {"queue", "bus"}
  /\ \A i \in Workers : \A e \in run[i].items :
       /\ place[e] # "none"
       /\ FromQueue(run[i]) => place[e] = "taken"
  /\ \A i, j \in Workers : \A e \in run[i].items \cap run[j].items :
       FromQueue(run[i]) /\ FromQueue(run[j]) => i = j

\* The event is on the bus, or what came of it is known.
PastBus(e) ==
  \/ e \in bus \cup accepted \cup rejected \cup reported
  \/ \E i \in Workers : run[i].role = "bus" /\ e \in run[i].items

Posted(e) ==
  /\ shipper.via = "webhook"
  /\ e \in garbage \/ \E i \in Workers : e \in run[i].items

\* What counts as shipped arrived, and what left the queue is past it.
Arrived ==
  /\ \A i \in Workers : \A e \in run[i].shipped :
       IF run[i].role = "bridge" THEN PastBus(e) ELSE e \in accepted \cup rejected
  /\ \A e \in Events : place[e] = "deleted" => PastBus(e) \/ Posted(e)

ShipInv == ShipTypes /\ RunsFit /\ Messaged /\ Arrived

\* The invariant contains the types.
LEMMA ShipInvTypes == ShipInv => ShippersTypeOK
<1> SUFFICES ASSUME ShipInv PROVE ShippersTypeOK
  OBVIOUS
<1>1. run \in [Workers -> Run]
  BY DEF ShipInv, RunsFit, RunFits
<1>2. \A i \in Workers : /\ run[i].todo \cup run[i].shipped \subseteq run[i].items \ garbage
                         /\ run[i].todo \cap run[i].shipped = {}
  BY DEF ShipInv, RunsFit, RunFits
<1>3. \A e \in Events :
       /\ place[e] = "taken" <=>
            \E i \in Workers : run[i].role \in {"queue", "bridge"} /\ e \in run[i].items
       /\ place[e] = "waiting" => receives[e] < MaxReceiveCount
  BY DEF ShipInv, Messaged, FromQueue
<1> QED  BY <1>1, <1>2, <1>3 DEF ShipInv, ShipTypes, ShippersTypeOK

\* An event that started is in somebody's hand or ended.
LEMMA ShipInvKeeps ==
  ShipInv => \A e \in Events : place[e] # "none" => InHand(e) \/ Ended(e)
<1> SUFFICES ASSUME ShipInv, NEW e \in Events, place[e] # "none" PROVE InHand(e) \/ Ended(e)
  OBVIOUS
<1>1. place[e] \in {"waiting", "taken", "dead", "deleted"}
  BY DEF ShipInv, ShipTypes, Places
<1>2. PastBus(e) => InHand(e) \/ Ended(e)
  BY DEF PastBus, InHand, Ended
<1>3. Posted(e) => InHand(e) \/ Ended(e)
  BY DEF Posted, InHand, Ended
<1>4. place[e] = "deleted" => PastBus(e) \/ Posted(e)
  BY DEF ShipInv, Arrived
<1> QED  BY <1>1, <1>2, <1>3, <1>4 DEF InHand, Ended

\* An idle invocation fits every deployment.
LEMMA IdleFits == \A unparsed, via : RunFits(IdleRun, unparsed, via)
  BY DEF RunFits, IdleRun, Run, Roles

\* It holds initially.
LEMMA ShipInit == ShippersInit => ShipInv
<1> SUFFICES ASSUME ShippersInit PROVE ShipInv
  OBVIOUS
<1>1. ShipTypes
  BY ConstantsAssumption DEF ConstantsAssumption, ShippersInit, ShipTypes, Places
<1>2. RunsFit
  BY IdleFits DEF ShippersInit, RunsFit
<1>3. \A i \in Workers : run[i].items = {} /\ run[i].shipped = {}
  BY DEF ShippersInit, IdleRun
<1>4. Messaged /\ Arrived
  BY <1>3 DEF ShippersInit, Messaged, Arrived
<1> QED  BY <1>1, <1>2, <1>4 DEF ShipInv

-----------------------------------------------------------------------------
(* The handlers behind the queue: the steps.                               *)

\* No event that started is as if it had not, and, of most steps, none starts.
NoneForgotten == \A e \in Events : place[e] # "none" => place'[e] # "none"
NoneStarts == \A e \in Events : place'[e] = "none" <=> place[e] = "none"

\* A fault leaves the count of faults a number in its range.
LEMMA FaultFits ==
  ASSUME faults \in 0..MaxFaults, Fault \/ UNCHANGED faults PROVE faults' \in 0..MaxFaults
  BY ConstantsAssumption DEF ConstantsAssumption, Fault

\* Nothing but the count of faults changes.
LEMMA StillShip ==
  ASSUME ShipInv, UNCHANGED <<shipper, garbage, queue, busVars, run, histories>>,
         faults' \in 0..MaxFaults
  PROVE  ShipInv'
<1>1. UNCHANGED <<shipper, garbage, place, receives, bus, tries, run, accepted, rejected, reported>>
  BY DEF queue, busVars, histories
<1>2. ShipTypes' /\ RunsFit' /\ Messaged'
  BY <1>1 DEF ShipInv, ShipTypes, RunsFit, Messaged
<1>3. Arrived'
  BY <1>1 DEF ShipInv, Arrived, PastBus, Posted
<1> QED  BY <1>2, <1>3 DEF ShipInv

\* An event put into the queue has no invocation and no trace yet.
LEMMA PutShip ==
  ASSUME ShipInv, NEW e \in Events, NEW parseable \in BOOLEAN, Put(e, parseable),
         faults' \in 0..MaxFaults
  PROVE  ShipInv' /\ NoneForgotten
<1>1. /\ UNCHANGED <<shipper, receives, bus, tries, run, accepted, rejected, reported>>
      /\ place[e] = "none" /\ place' = [place EXCEPT ![e] = "waiting"]
      /\ garbage' \in {garbage, garbage \cup {e}}
  BY DEF Put, busVars, histories
<1>2. /\ place' \in [Events -> Places] /\ place'[e] = "waiting"
      /\ \A f \in Events \ {e} : place'[f] = place[f]
  BY <1>1 DEF ShipInv, ShipTypes, Places
<1>3. ShipTypes'
  BY <1>1, <1>2 DEF ShipInv, ShipTypes
<1>4. /\ receives[e] = 0 /\ e \notin bus /\ \A i \in Workers : e \notin run[i].items
  BY <1>1 DEF ShipInv, Messaged
<1>5. RunsFit'
  BY <1>1, <1>4 DEF ShipInv, RunsFit, RunFits
<1>6. Messaged'
  BY <1>1, <1>2, <1>4, ConstantsAssumption DEF ConstantsAssumption, ShipInv, Messaged, Put
<1>7. Arrived'
  <2>1. \A f : (PastBus(f) => PastBus(f)') /\ (Posted(f) => Posted(f)')
    BY <1>1 DEF PastBus, Posted
  <2>2. \A i \in Workers : \A f \in run'[i].shipped :
          IF run'[i].role = "bridge" THEN PastBus(f)' ELSE f \in accepted' \cup rejected'
    BY <1>1, <2>1 DEF ShipInv, Arrived
  <2>3. \A f \in Events : place'[f] = "deleted" => PastBus(f)' \/ Posted(f)'
    BY <1>2, <2>1 DEF ShipInv, Arrived
  <2> QED  BY <2>2, <2>3 DEF Arrived
<1> QED  BY <1>1, <1>2, <1>3, <1>5, <1>6, <1>7 DEF ShipInv, NoneForgotten

\* Invocation i goes on as r.
LEMMA RunOf ==
  ASSUME ShipInv, NEW i \in Workers, NEW r, run' = [run EXCEPT ![i] = r]
  PROVE  /\ DOMAIN run' = Workers /\ run' = [j \in Workers |-> run'[j]]
         /\ run'[i] = r /\ \A j \in Workers \ {i} : run'[j] = run[j]
<1>1. DOMAIN run = Workers /\ run = [j \in Workers |-> run[j]]
  BY DEF ShipInv, RunsFit
<1> QED  BY <1>1

\* Lambda receives messages.
LEMMA ReceiveShip ==
  ASSUME ShipInv, NEW i \in Workers, Receive(i)
  PROVE  ShipInv' /\ NoneStarts
<1>1. PICK messages \in SUBSET {e \in Events : place[e] = "waiting"} :
        /\ Cardinality(messages) \in 1..BatchSize
        /\ place' = [e \in Events |-> IF e \in messages THEN "taken" ELSE place[e]]
        /\ receives' = [e \in Events |-> receives[e] + IF e \in messages THEN 1 ELSE 0]
        /\ run' = [run EXCEPT ![i] = Begin(IF shipper.via = "bus" THEN "bridge" ELSE "queue",
                                           messages, messages \ garbage)]
  BY DEF Receive
<1>2. /\ run[i].pc = "idle"
      /\ UNCHANGED <<shipper, garbage, bus, tries, accepted, rejected, reported, faults>>
  BY DEF Receive, busVars, histories
<1> DEFINE r == Begin(IF shipper.via = "bus" THEN "bridge" ELSE "queue",
                      messages, messages \ garbage)
<1>3. PICK f \in messages : place[f] = "waiting"
  <2>1. messages # {}
    BY <1>1, FS_EmptySet
  <2> QED  BY <2>1
<1>4. shipper.via \in {"queue", "bus"}
  BY <1>3 DEF ShipInv, Messaged
<1>5. /\ r.items = messages /\ r.shipped = {} /\ r.pc = "send" /\ FromQueue(r)
      /\ r.role # "bus" /\ RunFits(r, garbage, shipper.via)
  BY <1>4 DEF Begin, RunFits, Run, Roles, RolesOf, FromQueue
<1> HIDE DEF r
<1>6. /\ DOMAIN run' = Workers /\ run' = [j \in Workers |-> run'[j]]
      /\ run'[i] = r /\ \A j \in Workers \ {i} : run'[j] = run[j]
  BY <1>1, RunOf DEF r
<1>7. run[i] = IdleRun /\ run[i].items = {}
  BY <1>2 DEF ShipInv, RunsFit, RunFits, IdleRun
<1>8. ShipTypes'
  <2>1. \A e \in messages : receives[e] + 1 \in 0..MaxReceiveCount
    BY ConstantsAssumption DEF ConstantsAssumption, ShipInv, ShipTypes, Messaged
  <2>2. receives' \in [Events -> 0..MaxReceiveCount]
    BY <1>1, <2>1, ConstantsAssumption DEF ConstantsAssumption, ShipInv, ShipTypes
  <2>3. place' \in [Events -> Places]
    BY <1>1 DEF ShipInv, ShipTypes, Places
  <2> QED  BY <1>2, <2>2, <2>3 DEF ShipInv, ShipTypes
<1>9. RunsFit'
  BY <1>2, <1>5, <1>6 DEF ShipInv, RunsFit
<1>10. \A e \in Events : place'[e] = IF e \in messages THEN "taken" ELSE place[e]
  BY <1>1
<1>11. Messaged'
  <2>1. \A e \in messages : \A j \in Workers : ~(FromQueue(run[j]) /\ e \in run[j].items)
    BY DEF ShipInv, Messaged
  <2>2. \A e \in Events : e \notin messages => receives'[e] = receives[e]
    BY <1>1 DEF ShipInv, ShipTypes
  <2>3. \A j \in Workers : run'[j].items \subseteq Events
    BY <1>5, <1>6 DEF ShipInv, RunsFit, RunFits, Run
  <2> QED  BY <1>2, <1>4, <1>5, <1>6, <1>7, <1>10, <2>1, <2>2, <2>3 DEF ShipInv, Messaged
<1>12. Arrived'
  <2>1. \A e : (PastBus(e) => PastBus(e)') /\ (Posted(e) => Posted(e)')
    BY <1>2, <1>6, <1>7 DEF PastBus, Posted
  <2> QED  BY <1>2, <1>5, <1>6, <1>10, <2>1 DEF ShipInv, Arrived
<1> QED  BY <1>8, <1>9, <1>10, <1>11, <1>12 DEF ShipInv, NoneStarts

\* A service puts an event on the bus.
LEMMA EmitShip ==
  ASSUME ShipInv, NEW e \in Events, Emit(e)
  PROVE  ShipInv' /\ NoneForgotten
<1>1. /\ UNCHANGED <<shipper, receives, tries, run, accepted, rejected, reported, faults>>
      /\ shipper.via = "event"
      /\ place[e] = "none" /\ place' = [place EXCEPT ![e] = "deleted"] /\ bus' = bus \cup {e}
      /\ garbage' \in {garbage, garbage \cup {e}}
  BY DEF Emit, histories
<1>2. /\ place' \in [Events -> Places] /\ place'[e] = "deleted"
      /\ \A f \in Events \ {e} : place'[f] = place[f]
  BY <1>1 DEF ShipInv, ShipTypes, Places
<1>3. ShipTypes'
  BY <1>1, <1>2 DEF ShipInv, ShipTypes
<1>4. \A i \in Workers : e \notin run[i].items
  BY <1>1 DEF ShipInv, Messaged
<1>5. RunsFit'
  BY <1>1, <1>4 DEF ShipInv, RunsFit, RunFits
<1>6. Messaged'
  BY <1>1, <1>2, <1>4 DEF ShipInv, Messaged
<1>7. Arrived'
  <2>1. \A f : (PastBus(f) => PastBus(f)') /\ (Posted(f) => Posted(f)')
    BY <1>1 DEF PastBus, Posted
  <2>2. PastBus(e)'
    BY <1>1 DEF PastBus
  <2>3. \A i \in Workers : \A f \in run'[i].shipped :
          IF run'[i].role = "bridge" THEN PastBus(f)' ELSE f \in accepted' \cup rejected'
    BY <1>1, <2>1 DEF ShipInv, Arrived
  <2> QED  BY <1>2, <2>1, <2>2, <2>3 DEF ShipInv, Arrived
<1> QED  BY <1>1, <1>2, <1>3, <1>5, <1>6, <1>7 DEF ShipInv, NoneForgotten

\* EventBridge calls the handler with an event of the bus.
LEMMA InvokeShip ==
  ASSUME ShipInv, NEW i \in Workers, NEW e \in Events, Invoke(i, e)
  PROVE  ShipInv' /\ NoneStarts
<1>1. /\ UNCHANGED <<shipper, garbage, place, receives, tries, accepted, rejected, faults>>
      /\ run[i].pc = "idle" /\ e \in bus /\ bus' = bus \ {e}
  BY DEF Invoke, queue
<1>2. run[i] = IdleRun /\ run[i].items = {} /\ run[i].shipped = {}
  BY <1>1 DEF ShipInv, RunsFit, RunFits, IdleRun
<1>3. ShipTypes'
  BY <1>1 DEF ShipInv, ShipTypes, Invoke
<1>4. CASE shipper.via = "event" /\ e \in garbage
  <2>1. reported' = reported \cup {e} /\ UNCHANGED run
    BY <1>4 DEF Invoke
  <2>2. RunsFit'
    BY <1>1, <2>1 DEF ShipInv, RunsFit
  <2>3. Messaged'
    BY <1>1, <2>1 DEF ShipInv, Messaged
  <2>4. Arrived'
    <3>1. \A f : (PastBus(f) => PastBus(f)') /\ (Posted(f) => Posted(f)')
      BY <1>1, <2>1 DEF PastBus, Posted
    <3>2. \A j \in Workers : \A f \in run'[j].shipped :
            IF run'[j].role = "bridge" THEN PastBus(f)' ELSE f \in accepted' \cup rejected'
      BY <1>1, <2>1, <3>1 DEF ShipInv, Arrived
    <3> QED  BY <1>1, <3>1, <3>2 DEF ShipInv, Arrived
  <2> QED  BY <1>1, <1>3, <2>2, <2>3, <2>4 DEF ShipInv, NoneStarts
<1>5. CASE ~(shipper.via = "event" /\ e \in garbage)
  <2> DEFINE r == Begin("bus", {e}, {e})
  <2>1. run' = [run EXCEPT ![i] = r] /\ UNCHANGED reported
    BY <1>5 DEF Invoke
  <2>2. e \notin garbage /\ place[e] # "none" /\ shipper.via \in {"bus", "event"}
    BY <1>1, <1>5 DEF ShipInv, RunsFit, Messaged
  <2>3. /\ r.items = {e} /\ r.shipped = {} /\ r.role = "bus" /\ ~FromQueue(r)
        /\ RunFits(r, garbage, shipper.via)
    BY <2>2 DEF Begin, RunFits, Run, Roles, RolesOf, FromQueue
  <2> HIDE DEF r
  <2>4. /\ DOMAIN run' = Workers /\ run' = [j \in Workers |-> run'[j]]
        /\ run'[i] = r /\ \A j \in Workers \ {i} : run'[j] = run[j]
    BY <2>1, RunOf
  <2>5. RunsFit'
    BY <1>1, <2>3, <2>4 DEF ShipInv, RunsFit
  <2>6. Messaged'
    BY <1>1, <1>2, <2>2, <2>3, <2>4 DEF ShipInv, Messaged
  <2>7. Arrived'
    <3>1. \A f : (PastBus(f) => PastBus(f)') /\ (Posted(f) => Posted(f)')
      BY <1>1, <1>2, <2>1, <2>3, <2>4 DEF PastBus, Posted
    <3>2. \A j \in Workers : \A f \in run'[j].shipped :
            IF run'[j].role = "bridge" THEN PastBus(f)' ELSE f \in accepted' \cup rejected'
      BY <1>1, <2>3, <2>4, <3>1 DEF ShipInv, Arrived
    <3> QED  BY <1>1, <3>1, <3>2 DEF ShipInv, Arrived
  <2> QED  BY <1>1, <1>3, <2>5, <2>6, <2>7 DEF ShipInv, NoneStarts
<1> QED  BY <1>4, <1>5

\* ONTAP posts to the webhook.
LEMMA WebhookShip ==
  ASSUME ShipInv, NEW i \in Workers, Webhook(i)
  PROVE  ShipInv' /\ NoneForgotten
<1>1. PICK posted \in SUBSET {e \in Events : place[e] = "none"} \ {{}} :
      \E bad \in SUBSET posted :
        /\ place' = [e \in Events |-> IF e \in posted THEN "deleted" ELSE place[e]]
        /\ garbage' = garbage \cup bad
        /\ IF posted = bad
           THEN reported' = reported \cup posted /\ UNCHANGED run
           ELSE /\ run' = [run EXCEPT ![i] = Begin("webhook", posted, posted \ bad)]
                /\ UNCHANGED reported
  BY DEF Webhook
<1>2. PICK bad \in SUBSET posted :
        /\ place' = [e \in Events |-> IF e \in posted THEN "deleted" ELSE place[e]]
        /\ garbage' = garbage \cup bad
        /\ IF posted = bad
           THEN reported' = reported \cup posted /\ UNCHANGED run
           ELSE /\ run' = [run EXCEPT ![i] = Begin("webhook", posted, posted \ bad)]
                /\ UNCHANGED reported
  BY <1>1
<1>3. /\ UNCHANGED <<shipper, receives, bus, tries, accepted, rejected, faults>>
      /\ shipper.via = "webhook" /\ run[i].pc = "idle"
  BY DEF Webhook, busVars
<1>4. run[i] = IdleRun /\ run[i].items = {} /\ run[i].shipped = {}
  BY <1>3 DEF ShipInv, RunsFit, RunFits, IdleRun
<1>5. /\ posted \subseteq Events /\ \A e \in posted : place[e] = "none"
      /\ \A e \in Events : place'[e] = IF e \in posted THEN "deleted" ELSE place[e]
  BY <1>2
<1>6. \A j \in Workers : run[j].items \cap posted = {} /\ run[j].items \subseteq Events
  BY <1>5 DEF ShipInv, Messaged, RunsFit, RunFits, Run
<1>7. bus = {}
  BY <1>3 DEF ShipInv, RunsFit
<1>8. ShipTypes'
  <2>1. place' \in [Events -> Places]
    BY <1>2 DEF ShipInv, ShipTypes, Places
  <2> QED  BY <1>2, <1>3, <1>5, <2>1 DEF ShipInv, ShipTypes
<1>9. \A j \in Workers : RunFits(run[j], garbage', shipper.via)
  BY <1>2, <1>6 DEF ShipInv, RunsFit, RunFits
<1>10. CASE posted = bad
  <2>1. reported' = reported \cup posted /\ UNCHANGED run
    BY <1>2, <1>10
  <2>2. RunsFit'
    BY <1>3, <1>7, <1>9, <2>1 DEF ShipInv, RunsFit
  <2>3. Messaged'
    BY <1>2, <1>3, <1>5, <1>6, <1>7, <2>1 DEF ShipInv, Messaged
  <2>4. Arrived'
    <3>1. \A f : (PastBus(f) => PastBus(f)') /\ (Posted(f) => Posted(f)')
      BY <1>2, <1>3, <2>1 DEF PastBus, Posted
    <3>2. \A f \in posted : PastBus(f)'
      BY <2>1 DEF PastBus
    <3>3. \A j \in Workers : \A f \in run'[j].shipped :
            IF run'[j].role = "bridge" THEN PastBus(f)' ELSE f \in accepted' \cup rejected'
      BY <1>3, <2>1, <3>1 DEF ShipInv, Arrived
    <3> QED  BY <1>5, <3>1, <3>2, <3>3 DEF ShipInv, Arrived
  <2> QED  BY <1>5, <1>8, <2>2, <2>3, <2>4 DEF ShipInv, NoneForgotten
<1>11. CASE posted # bad
  <2> DEFINE r == Begin("webhook", posted, posted \ bad)
  <2>1. run' = [run EXCEPT ![i] = r] /\ UNCHANGED reported
    BY <1>2, <1>11
  <2>3. r.items = posted /\ r.shipped = {} /\ r.role = "webhook" /\ ~FromQueue(r)
    BY DEF Begin, FromQueue
  <2>4. posted \cap garbage = {}
    BY <1>5 DEF ShipInv, Messaged
  <2>5. RunFits(r, garbage', shipper.via)
    BY <1>2, <1>3, <1>5, <2>4 DEF Begin, RunFits, Run, Roles, RolesOf
  <2> HIDE DEF r
  <2>6. /\ DOMAIN run' = Workers /\ run' = [j \in Workers |-> run'[j]]
        /\ run'[i] = r /\ \A j \in Workers \ {i} : run'[j] = run[j]
    BY <2>1, RunOf
  <2>7. RunsFit'
    BY <1>3, <1>7, <1>9, <2>5, <2>6 DEF ShipInv, RunsFit
  <2>8. Messaged'
    BY <1>2, <1>3, <1>4, <1>5, <1>6, <1>7, <2>3, <2>6 DEF ShipInv, Messaged
  <2>9. Arrived'
    <3>1. \A f : (PastBus(f) => PastBus(f)') /\ (Posted(f) => Posted(f)')
      BY <1>2, <1>3, <1>4, <2>1, <2>6 DEF PastBus, Posted
    <3>2. \A f \in posted : Posted(f)'
      BY <1>3, <2>3, <2>6 DEF Posted
    <3>3. \A j \in Workers : \A f \in run'[j].shipped :
            IF run'[j].role = "bridge" THEN PastBus(f)' ELSE f \in accepted' \cup rejected'
      BY <1>3, <2>3, <2>6, <3>1 DEF ShipInv, Arrived
    <3> QED  BY <1>5, <3>1, <3>2, <3>3 DEF ShipInv, Arrived
  <2> QED  BY <1>5, <1>8, <2>7, <2>8, <2>9 DEF ShipInv, NoneForgotten
<1> QED  BY <1>10, <1>11

\* Invocation i ends: its messages leave it, for the queue again or for good,
\* and what it was called with is accounted for.
LEMMA EndsShip ==
  ASSUME ShipInv, NEW i \in Workers, run[i].pc = "send", run' = [run EXCEPT ![i] = IdleRun],
         UNCHANGED <<shipper, garbage, receives, accepted, rejected>>,
         place' \in [Events -> Places],
         \A e \in Events : e \notin run[i].items \/ ~FromQueue(run[i]) => place'[e] = place[e],
         \A e \in run[i].items : FromQueue(run[i]) =>
           /\ place'[e] \in {"waiting", "dead", "deleted"}
           /\ place'[e] = "waiting" => receives[e] < MaxReceiveCount
           /\ place'[e] = "deleted" => PastBus(e),
         bus \subseteq bus', bus' \subseteq bus \cup {e \in run[i].items : run[i].role = "bus"},
         tries' \in [Events -> 0..MaxRetryAttempts],
         reported \subseteq reported', reported' \subseteq Events,
         \A e \in run[i].items : run[i].role \in {"bus", "webhook"} =>
           \/ e \in bus' \cup accepted \cup rejected \cup reported'
           \/ run[i].role = "webhook" /\ e \in garbage,
         faults' \in 0..MaxFaults
  PROVE  ShipInv' /\ NoneStarts
<1>1. /\ DOMAIN run' = Workers /\ run' = [j \in Workers |-> run'[j]]
      /\ run'[i] = IdleRun /\ \A j \in Workers \ {i} : run'[j] = run[j]
  BY RunOf
<1>2. IdleRun.items = {} /\ IdleRun.shipped = {} /\ IdleRun.role = "queue"
  BY DEF IdleRun
<1>3. RunFits(run[i], garbage, shipper.via)
  BY DEF ShipInv, RunsFit
<1>4. /\ run[i].items \subseteq Events /\ run[i].role \in RolesOf(shipper.via)
      /\ run[i].role \in Roles
      /\ run[i].role = "bus" => run[i].items \cap garbage = {}
      /\ shipper.via \in {"queue", "bus", "event", "webhook"}
  BY <1>3, ShipperFacts DEF RunFits, Run, ShipInv, ShipTypes
<1>5. /\ run[i].role = "bus" => shipper.via \in {"bus", "event"}
      /\ run[i].role = "webhook" <=> shipper.via = "webhook"
      /\ FromQueue(run[i]) => shipper.via \in {"queue", "bus"}
  BY <1>4 DEF RolesOf, FromQueue
<1>6. \A e \in Events : /\ place'[e] = "none" <=> place[e] = "none"
                        /\ place'[e] = "taken" => place[e] = "taken"
                        /\ place'[e] = "waiting" =>
                             place[e] = "waiting" \/ (e \in run[i].items /\ FromQueue(run[i]))
  <2> SUFFICES ASSUME NEW e \in Events
               PROVE  /\ place'[e] = "none" <=> place[e] = "none"
                      /\ place'[e] = "taken" => place[e] = "taken"
                      /\ place'[e] = "waiting" =>
                           place[e] = "waiting" \/ (e \in run[i].items /\ FromQueue(run[i]))
    OBVIOUS
  <2>1. CASE e \in run[i].items /\ FromQueue(run[i])
    <3>1. place[e] = "taken" /\ place'[e] \in {"waiting", "dead", "deleted"}
      BY <2>1 DEF ShipInv, Messaged
    <3> QED  BY <2>1, <3>1
  <2>2. CASE ~(e \in run[i].items /\ FromQueue(run[i]))
    <3>1. place'[e] = place[e]
      BY <2>2
    <3> QED  BY <3>1
  <2> QED  BY <2>1, <2>2
<1>7. ShipTypes'
  BY <1>4 DEF ShipInv, ShipTypes
<1>8. RunsFit'
  <2>1. \A j \in Workers : RunFits(run'[j], garbage, shipper.via)
    BY <1>1, IdleFits DEF ShipInv, RunsFit
  <2>2. shipper.via # "event" => bus' \cap garbage = {}
    BY <1>4 DEF ShipInv, RunsFit
  <2>3. bus' # {} => shipper.via \in {"bus", "event"}
    BY <1>5 DEF ShipInv, RunsFit
  <2> QED  BY <1>1, <2>1, <2>2, <2>3 DEF RunsFit
<1>9. Messaged'
  <2>1. \A e \in Events :
          /\ place'[e] = "taken" => \E j \in Workers : FromQueue(run'[j]) /\ e \in run'[j].items
          /\ place'[e] = "waiting" => receives'[e] < MaxReceiveCount
          /\ place'[e] = "none" => receives'[e] = 0 /\ e \notin bus' \cup garbage'
          /\ place'[e] \in {"waiting", "taken"} => shipper'.via \in {"queue", "bus"}
    <3> SUFFICES ASSUME NEW e \in Events
                 PROVE  /\ place'[e] = "taken" =>
                             \E j \in Workers : FromQueue(run'[j]) /\ e \in run'[j].items
                        /\ place'[e] = "waiting" => receives'[e] < MaxReceiveCount
                        /\ place'[e] = "none" => receives'[e] = 0 /\ e \notin bus' \cup garbage'
                        /\ place'[e] \in {"waiting", "taken"} => shipper'.via \in {"queue", "bus"}
      OBVIOUS
    <3>1. ASSUME place'[e] = "taken"
          PROVE  \E j \in Workers : FromQueue(run'[j]) /\ e \in run'[j].items
      <4>1. PICK j \in Workers : FromQueue(run[j]) /\ e \in run[j].items
        BY <1>6, <3>1 DEF ShipInv, Messaged
      <4>2. j # i
        BY <3>1, <4>1
      <4> QED  BY <1>1, <4>1, <4>2
    <3>2. place'[e] = "waiting" => receives'[e] < MaxReceiveCount
      BY <1>6 DEF ShipInv, Messaged
    <3>3. place'[e] = "none" => receives'[e] = 0 /\ e \notin bus' \cup garbage'
      BY <1>6 DEF ShipInv, Messaged
    <3>4. place'[e] \in {"waiting", "taken"} => shipper'.via \in {"queue", "bus"}
      BY <1>5, <1>6 DEF ShipInv, Messaged
    <3> QED  BY <3>1, <3>2, <3>3, <3>4
  <2>2. \A j \in Workers : \A e \in run'[j].items :
          /\ place'[e] # "none"
          /\ FromQueue(run'[j]) => place'[e] = "taken"
    <3> SUFFICES ASSUME NEW j \in Workers, NEW e \in run'[j].items
                 PROVE  /\ place'[e] # "none"
                        /\ FromQueue(run'[j]) => place'[e] = "taken"
      OBVIOUS
    <3>1. j # i /\ run'[j] = run[j] /\ e \in Events /\ place[e] # "none"
      BY <1>1, <1>2 DEF ShipInv, RunsFit, RunFits, Run, Messaged
    <3>2. FromQueue(run[j]) => place[e] = "taken" /\ ~(e \in run[i].items /\ FromQueue(run[i]))
      BY <3>1 DEF ShipInv, Messaged
    <3> QED  BY <1>6, <3>1, <3>2
  <2>3. \A j, k \in Workers : \A e \in run'[j].items \cap run'[k].items :
          FromQueue(run'[j]) /\ FromQueue(run'[k]) => j = k
    BY <1>1, <1>2 DEF ShipInv, Messaged
  <2> QED  BY <2>1, <2>2, <2>3 DEF Messaged
<1>10. \A f : PastBus(f) => PastBus(f)'
  BY <1>1 DEF PastBus
<1>11. \A f : Posted(f) => Posted(f)' \/ PastBus(f)'
  BY <1>1, <1>5 DEF PastBus, Posted
<1>12. Arrived'
  <2>1. \A j \in Workers : \A f \in run'[j].shipped :
          IF run'[j].role = "bridge" THEN PastBus(f)' ELSE f \in accepted' \cup rejected'
    BY <1>1, <1>2, <1>10 DEF ShipInv, Arrived
  <2>2. \A f \in Events : place'[f] = "deleted" => PastBus(f)' \/ Posted(f)'
    BY <1>10, <1>11 DEF ShipInv, Arrived
  <2> QED  BY <2>1, <2>2 DEF Arrived
<1> QED  BY <1>6, <1>7, <1>8, <1>9, <1>12 DEF ShipInv, NoneStarts

\* What goes back to the queue is waiting there, or dead.
LEMMA GiveBackTo ==
  ASSUME ShipInv, NEW places \in [Events -> Places], NEW messages
  PROVE  /\ GiveBack(places, messages) \in [Events -> Places]
         /\ \A e \in Events :
              IF e \in messages
              THEN /\ GiveBack(places, messages)[e] \in {"waiting", "dead"}
                   /\ GiveBack(places, messages)[e] = "waiting" => receives[e] < MaxReceiveCount
              ELSE GiveBack(places, messages)[e] = places[e]
<1>1. \A e \in Events : receives[e] # MaxReceiveCount => receives[e] < MaxReceiveCount
  BY ConstantsAssumption DEF ConstantsAssumption, ShipInv, ShipTypes
<1>2. GiveBack(places, messages) \in [Events -> Places]
  BY DEF GiveBack, Places
<1>3. \A e \in Events : GiveBack(places, messages)[e] =
        IF e \notin messages THEN places[e]
        ELSE IF receives[e] = MaxReceiveCount THEN "dead" ELSE "waiting"
  BY DEF GiveBack
<1> QED  BY <1>1, <1>2, <1>3

\* An invocation that raises or times out ends.
LEMMA RaiseShip ==
  ASSUME ShipInv, NEW i \in Workers, run[i].pc = "send", Raise(i),
         UNCHANGED <<shipper, garbage, receives, accepted, rejected>>, faults' \in 0..MaxFaults
  PROVE  ShipInv' /\ NoneStarts
<1> DEFINE r == run[i]
<1> DEFINE back == {e \in r.items : r.role = "bus" /\ tries[e] < MaxRetryAttempts}
<1>1. /\ run' = [run EXCEPT ![i] = IdleRun]
      /\ place' = IF r.role \in {"queue", "bridge"} THEN GiveBack(place, r.items) ELSE place
      /\ bus' = bus \cup back
      /\ tries' = [e \in Events |-> tries[e] + IF e \in back THEN 1 ELSE 0]
      /\ reported' = IF r.role \in {"bus", "webhook"}
                     THEN reported \cup (r.items \ back) ELSE reported
  BY DEF Raise
<1>2. place \in [Events -> Places] /\ r.items \subseteq Events
  BY DEF ShipInv, ShipTypes, RunsFit, RunFits, Run
<1>3. /\ place' \in [Events -> Places]
      /\ \A e \in Events : e \notin r.items \/ ~FromQueue(r) => place'[e] = place[e]
      /\ \A e \in r.items : FromQueue(r) =>
           /\ place'[e] \in {"waiting", "dead"}
           /\ place'[e] = "waiting" => receives[e] < MaxReceiveCount
  BY <1>1, <1>2, GiveBackTo DEF FromQueue
<1>4. tries' \in [Events -> 0..MaxRetryAttempts]
  <2>1. \A e \in back : tries[e] + 1 \in 0..MaxRetryAttempts
    BY <1>2, ConstantsAssumption DEF ConstantsAssumption, ShipInv, ShipTypes
  <2>2. \A e \in Events : tries[e] + 0 \in 0..MaxRetryAttempts
    BY ConstantsAssumption DEF ConstantsAssumption, ShipInv, ShipTypes
  <2> HIDE DEF back
  <2> QED  BY <1>1, <2>1, <2>2
<1>5. /\ bus \subseteq bus' /\ bus' \subseteq bus \cup {e \in r.items : r.role = "bus"}
      /\ reported \subseteq reported' /\ reported' \subseteq Events
  BY <1>1, <1>2 DEF ShipInv, ShipTypes
<1>6. \A e \in r.items : r.role \in {"bus", "webhook"} => e \in bus' \cup reported'
  BY <1>1
<1> HIDE DEF r, back
<1>7. /\ \A e \in run[i].items : FromQueue(run[i]) =>
           /\ place'[e] \in {"waiting", "dead", "deleted"}
           /\ place'[e] = "waiting" => receives[e] < MaxReceiveCount
           /\ place'[e] = "deleted" => PastBus(e)
      /\ \A e \in run[i].items : run[i].role \in {"bus", "webhook"} =>
           \/ e \in bus' \cup accepted \cup rejected \cup reported'
           \/ run[i].role = "webhook" /\ e \in garbage
  BY <1>3, <1>6 DEF r
<1>8. \A e \in Events : e \notin run[i].items \/ ~FromQueue(run[i]) => place'[e] = place[e]
  BY <1>3 DEF r
<1>9. bus \subseteq bus' /\ bus' \subseteq bus \cup {e \in run[i].items : run[i].role = "bus"}
  BY <1>5 DEF r
<1> QED  BY <1>1, <1>3, <1>4, <1>5, <1>7, <1>8, <1>9, EndsShip

\* The bridge raises, or an invocation is cut off.
LEMMA FailedShip ==
  ASSUME ShipInv, NEW i \in Workers, BridgeRaises(i) \/ Crash(i)
  PROVE  ShipInv' /\ NoneStarts
<1>1. faults' \in 0..MaxFaults
  BY FaultFits DEF BridgeRaises, Crash, ShipInv, ShipTypes
<1> QED  BY <1>1, RaiseShip DEF BridgeRaises, Crash

\* The ids that are not reported were shipped.
LEMMA ReturnFailuresShip ==
  ASSUME ShipInv, NEW i \in Workers, ReturnFailures(i)
  PROVE  ShipInv' /\ NoneStarts
<1> DEFINE r == run[i]
<1> DEFINE gone == [e \in Events |-> IF e \in r.items THEN "deleted" ELSE place[e]]
<1>1. /\ r.pc = "send" /\ FromQueue(r) /\ place' = GiveBack(gone, Failures(r))
      /\ run' = [run EXCEPT ![i] = IdleRun]
      /\ UNCHANGED <<shipper, garbage, receives, bus, tries, accepted, rejected, reported, faults>>
  BY DEF ReturnFailures, FromQueue, busVars, histories
<1>2. RunFits(r, garbage, shipper.via) /\ gone \in [Events -> Places]
  BY DEF ShipInv, ShipTypes, RunsFit, Places
<1>3. r.items \subseteq Events
  BY <1>2 DEF RunFits, Run
<1>4. r.role = "queue" => shipper.failed \in {"batch", "messages"}
  BY <1>1, <1>2, ShipperFacts DEF RunFits, RolesOf, ShipInv, ShipTypes
<1>5. Failures(r) \subseteq r.items /\ r.items \ Failures(r) \subseteq r.shipped
  BY <1>1, <1>2, <1>4 DEF Failures, RunFits, FromQueue
<1>6. \A e \in r.shipped : PastBus(e)
  BY DEF ShipInv, Arrived, PastBus
<1>7. /\ place' \in [Events -> Places]
      /\ \A e \in Events :
           IF e \in Failures(r)
           THEN place'[e] \in {"waiting", "dead"}
                /\ (place'[e] = "waiting" => receives[e] < MaxReceiveCount)
           ELSE place'[e] = gone[e]
  BY <1>1, <1>2, GiveBackTo
<1>8. \A e \in Events : gone[e] = IF e \in r.items THEN "deleted" ELSE place[e]
  OBVIOUS
<1> HIDE DEF r, gone
<1>9. /\ \A e \in Events : e \notin run[i].items \/ ~FromQueue(run[i]) => place'[e] = place[e]
      /\ \A e \in run[i].items : FromQueue(run[i]) =>
           /\ place'[e] \in {"waiting", "dead", "deleted"}
           /\ place'[e] = "waiting" => receives[e] < MaxReceiveCount
           /\ place'[e] = "deleted" => PastBus(e)
  BY <1>1, <1>3, <1>5, <1>6, <1>7, <1>8 DEF r
<1>10. \A e \in run[i].items : run[i].role \notin {"bus", "webhook"}
  BY <1>1 DEF r, FromQueue
<1>11. /\ tries' \in [Events -> 0..MaxRetryAttempts] /\ reported' \subseteq Events
       /\ faults' \in 0..MaxFaults /\ bus \subseteq bus' /\ reported \subseteq reported'
       /\ bus' \subseteq bus \cup {e \in run[i].items : run[i].role = "bus"}
  BY <1>1 DEF ShipInv, ShipTypes
<1>12. /\ run[i].pc = "send" /\ run' = [run EXCEPT ![i] = IdleRun]
       /\ UNCHANGED <<shipper, garbage, receives, accepted, rejected>>
  BY <1>1 DEF r
<1> QED  BY <1>7, <1>9, <1>10, <1>11, <1>12, EndsShip

\* The status of an event that arrived is 200; the others are reported.
LEMMA ReturnStatusShip ==
  ASSUME ShipInv, NEW i \in Workers, ReturnStatus(i)
  PROVE  ShipInv' /\ NoneStarts
<1> DEFINE r == run[i]
<1> DEFINE whole == r.items \ garbage = r.shipped
<1>1. /\ r.pc = "send" /\ r.role \in {"bus", "webhook"}
      /\ UNCHANGED <<shipper, garbage, receives, accepted, rejected, faults>>
      /\ IF ~whole /\ shipper.failed = "raise" THEN Raise(i)
         ELSE /\ reported' = IF whole THEN reported ELSE reported \cup r.items
              /\ run' = [run EXCEPT ![i] = IdleRun]
              /\ UNCHANGED <<place, busVars>>
  BY DEF ReturnStatus
<1>2. faults' \in 0..MaxFaults
  BY <1>1 DEF ShipInv, ShipTypes
<1>3. CASE Raise(i)
  BY <1>1, <1>2, <1>3, RaiseShip
<1>4. CASE /\ reported' = IF whole THEN reported ELSE reported \cup r.items
           /\ run' = [run EXCEPT ![i] = IdleRun]
           /\ UNCHANGED <<place, busVars>>
  <2>1. RunFits(r, garbage, shipper.via) /\ ~FromQueue(r)
    BY <1>1 DEF ShipInv, RunsFit, FromQueue
  <2>2. r.items \subseteq Events /\ (r.role = "bus" => r.items \cap garbage = {})
    BY <2>1 DEF RunFits, Run
  <2>3. \A e \in r.shipped : e \in accepted \cup rejected
    BY <1>1 DEF ShipInv, Arrived
  <2>4. \A e \in r.items : \/ e \in bus' \cup accepted \cup rejected \cup reported'
                           \/ r.role = "webhook" /\ e \in garbage
    <3>1. CASE whole
      <4> SUFFICES ASSUME NEW e \in r.items, e \notin garbage PROVE e \in r.shipped
        BY <1>1, <2>2, <2>3
      <4>1. e \in r.items \ garbage
        OBVIOUS
      <4> QED  BY <3>1, <4>1
    <3>2. CASE ~whole
      <4> HIDE DEF whole
      <4>1. reported' = reported \cup r.items
        BY <1>4, <3>2
      <4> QED  BY <4>1
    <3> QED  BY <3>1, <3>2
  <2>5. /\ reported \subseteq reported' /\ reported' \subseteq Events
    BY <1>4, <2>2 DEF ShipInv, ShipTypes
  <2> HIDE DEF whole, r
  <2>6. /\ UNCHANGED <<place, bus, tries>> /\ run' = [run EXCEPT ![i] = IdleRun]
    BY <1>4 DEF busVars
  <2>7. /\ place' \in [Events -> Places] /\ tries' \in [Events -> 0..MaxRetryAttempts]
        /\ bus \subseteq bus' /\ bus' \subseteq bus \cup {e \in run[i].items : run[i].role = "bus"}
        /\ \A e \in Events : e \notin run[i].items \/ ~FromQueue(run[i]) => place'[e] = place[e]
    BY <2>6 DEF ShipInv, ShipTypes
  <2>8. \A e \in run[i].items : run[i].role \in {"bus", "webhook"} =>
           \/ e \in bus' \cup accepted \cup rejected \cup reported'
           \/ run[i].role = "webhook" /\ e \in garbage
    BY <2>4 DEF r
  <2>9. \A e \in run[i].items : ~FromQueue(run[i])
    BY <2>1 DEF r
  <2>10. run[i].pc = "send" /\ UNCHANGED <<shipper, garbage, receives, accepted, rejected>>
    BY <1>1 DEF r
  <2> QED  BY <1>2, <2>5, <2>6, <2>7, <2>8, <2>9, <2>10, EndsShip
<1> QED  BY <1>1, <1>3, <1>4

\* Without its credential a handler raises, or answers with an error.
LEMMA NoCredentialShip ==
  ASSUME ShipInv, NEW i \in Workers, NoCredential(i)
  PROVE  ShipInv' /\ NoneStarts
<1>1. /\ run[i].pc = "send" /\ run[i].role # "bridge" /\ shipper.noKey # "none" /\ Fault
      /\ UNCHANGED <<shipper, garbage, receives, accepted, rejected>>
      /\ IF shipper.noKey = "raise" THEN Raise(i)
         ELSE /\ reported' = reported \cup run[i].items
              /\ run' = [run EXCEPT ![i] = IdleRun]
              /\ UNCHANGED <<place, busVars>>
  BY DEF NoCredential
<1>2. faults' \in 0..MaxFaults
  BY <1>1, FaultFits DEF ShipInv, ShipTypes
<1>3. CASE shipper.noKey = "raise"
  BY <1>1, <1>2, <1>3, RaiseShip
<1>4. CASE shipper.noKey # "raise"
  <2>1. /\ UNCHANGED <<place, bus, tries>> /\ run' = [run EXCEPT ![i] = IdleRun]
        /\ reported' = reported \cup run[i].items
    BY <1>1, <1>4 DEF busVars
  <2>2. RunFits(run[i], garbage, shipper.via)
    BY DEF ShipInv, RunsFit
  <2>3. run[i].role \in RolesOf(shipper.via) /\ run[i].items \subseteq Events
    BY <1>1, <2>2 DEF RunFits, Run
  <2>4. shipper.via # "queue" /\ shipper.via \in {"queue", "bus", "event", "webhook"}
    BY <1>1, <1>4, ShipperFacts DEF ShipInv, ShipTypes
  <2>5. ~FromQueue(run[i])
    BY <1>1, <2>3, <2>4 DEF RolesOf, FromQueue
  <2>6. /\ place' \in [Events -> Places] /\ tries' \in [Events -> 0..MaxRetryAttempts]
        /\ bus \subseteq bus' /\ bus' \subseteq bus \cup {e \in run[i].items : run[i].role = "bus"}
        /\ \A e \in Events : e \notin run[i].items \/ ~FromQueue(run[i]) => place'[e] = place[e]
        /\ reported \subseteq reported' /\ reported' \subseteq Events
    BY <2>1, <2>3 DEF ShipInv, ShipTypes
  <2>7. \A e \in run[i].items : e \in reported'
    BY <2>1
  <2> QED  BY <1>1, <1>2, <2>1, <2>5, <2>6, <2>7, EndsShip
<1> QED  BY <1>3, <1>4

\* Invocation i goes on: what it sends leaves todo, what counts as shipped arrives.
LEMMA GoesOnShip ==
  ASSUME ShipInv, NEW i \in Workers, run[i].pc = "send", NEW r,
         run' = [run EXCEPT ![i] = r], r \in Run,
         r.pc = "send", r.role = run[i].role, r.items = run[i].items,
         r.todo \subseteq run[i].todo, r.shipped \subseteq run[i].shipped \cup run[i].todo,
         r.todo \cap r.shipped = {},
         UNCHANGED <<shipper, garbage, place, receives, tries, reported>>,
         bus \subseteq bus', bus' \subseteq bus \cup {e \in run[i].todo : run[i].role = "bridge"},
         accepted \subseteq accepted', accepted' \subseteq Events,
         rejected \subseteq rejected', rejected' \subseteq Events,
         \A e \in r.shipped \ run[i].shipped :
           IF run[i].role = "bridge" THEN e \in bus' ELSE e \in accepted' \cup rejected',
         faults' \in 0..MaxFaults
  PROVE  ShipInv' /\ NoneStarts
<1>1. /\ DOMAIN run' = Workers /\ run' = [j \in Workers |-> run'[j]]
      /\ run'[i] = r /\ \A j \in Workers \ {i} : run'[j] = run[j]
  BY RunOf
<1>2. RunFits(run[i], garbage, shipper.via)
  BY DEF ShipInv, RunsFit
<1>3. RunFits(r, garbage, shipper.via)
  BY <1>2 DEF RunFits
<1>4. /\ run[i].items \subseteq Events /\ run[i].todo \subseteq run[i].items \ garbage
      /\ run[i].role \in RolesOf(shipper.via)
      /\ shipper.via \in {"queue", "bus", "event", "webhook"}
  BY <1>2, ShipperFacts DEF RunFits, Run, ShipInv, ShipTypes
<1>5. run[i].role = "bridge" => shipper.via = "bus"
  BY <1>4 DEF RolesOf
<1>6. ShipTypes'
  BY <1>4 DEF ShipInv, ShipTypes
<1>7. RunsFit'
  <2>1. \A j \in Workers : RunFits(run'[j], garbage, shipper.via)
    BY <1>1, <1>3 DEF ShipInv, RunsFit
  <2> QED  BY <1>1, <1>4, <1>5, <2>1 DEF ShipInv, RunsFit
<1>8. \A j \in Workers : run'[j].items = run[j].items /\ run'[j].role = run[j].role
  BY <1>1
<1>9. Messaged'
  <2>1. \A j \in Workers : FromQueue(run'[j]) <=> FromQueue(run[j])
    BY <1>8 DEF FromQueue
  <2>2. \A e \in Events : place[e] = "none" => e \notin bus'
    BY <1>4 DEF ShipInv, Messaged
  <2> QED  BY <1>8, <2>1, <2>2 DEF ShipInv, Messaged
<1>10. \A f : (PastBus(f) => PastBus(f)') /\ (Posted(f) => Posted(f)')
  BY <1>8 DEF PastBus, Posted
<1>11. Arrived'
  <2>1. \A j \in Workers : \A f \in run'[j].shipped :
          IF run'[j].role = "bridge" THEN PastBus(f)' ELSE f \in accepted' \cup rejected'
    <3> SUFFICES ASSUME NEW j \in Workers, NEW f \in run'[j].shipped
                 PROVE  IF run'[j].role = "bridge" THEN PastBus(f)'
                        ELSE f \in accepted' \cup rejected'
      OBVIOUS
    <3>1. CASE f \in run[j].shipped
      BY <1>8, <1>10, <3>1 DEF ShipInv, Arrived
    <3>2. CASE f \notin run[j].shipped
      BY <1>1, <1>8, <3>2 DEF PastBus
    <3> QED  BY <3>1, <3>2
  <2>2. \A f \in Events : place'[f] = "deleted" => PastBus(f)' \/ Posted(f)'
    BY <1>10 DEF ShipInv, Arrived
  <2> QED  BY <2>1, <2>2 DEF Arrived
<1> QED  BY <1>6, <1>7, <1>9, <1>11 DEF ShipInv, NoneStarts

\* A batch is part of what is to be sent.
LEMMA BatchIn ==
  ASSUME NEW todo, todo \subseteq Events, todo # {}, NEW batch \in Batches(todo)
  PROVE  batch \subseteq todo
<1>1. Min(todo) \in todo
  <2>1. todo \subseteq Nat
    BY ConstantsAssumption DEF ConstantsAssumption, Events
  <2> QED  BY <2>1, MinIn
<1>2. batch = {Min(todo)} \/ batch \in Prefixes(todo)
  BY DEF Batches
<1> QED  BY <1>1, <1>2 DEF Prefixes

\* What is accepted is kept, so what counts as shipped is with the intake.
LEMMA SendShip ==
  ASSUME ShipInv, NEW i \in Workers, Send(i)
  PROVE  ShipInv' /\ NoneStarts
<1>1. /\ run[i].pc = "send" /\ run[i].todo # {} /\ run[i].role # "bridge"
      /\ UNCHANGED <<shipper, garbage, place, receives, bus, tries, reported>>
  BY DEF Send, queue, busVars
<1>2. PICK batch \in Batches(run[i].todo), o \in OutcomesOf[shipper.accepts] :
       \E kept \in IF ~o.kept THEN {{}} ELSE IF shipper.partly THEN SUBSET batch ELSE {batch} :
         /\ FaultUnless(o.ok /\ kept = batch)
         /\ accepted' = accepted \cup kept
         /\ rejected' = IF o.kept THEN rejected \cup (batch \ kept) ELSE rejected
         /\ run' = [run EXCEPT ![i].todo = @ \ batch,
                               ![i].shipped = IF o.ok THEN @ \cup batch ELSE @]
  BY DEF Send
<1>3. PICK kept \in IF ~o.kept THEN {{}} ELSE IF shipper.partly THEN SUBSET batch ELSE {batch} :
         /\ FaultUnless(o.ok /\ kept = batch)
         /\ accepted' = accepted \cup kept
         /\ rejected' = IF o.kept THEN rejected \cup (batch \ kept) ELSE rejected
         /\ run' = [run EXCEPT ![i].todo = @ \ batch,
                               ![i].shipped = IF o.ok THEN @ \cup batch ELSE @]
  BY <1>2
<1>4. o.ok \in BOOLEAN /\ o.kept \in BOOLEAN /\ (o.ok => o.kept)
  BY OkMeansKept, ShipperFacts DEF ShipInv, ShipTypes
<1>5. /\ RunFits(run[i], garbage, shipper.via) /\ run[i] \in Run
      /\ run[i].todo \subseteq Events
  BY DEF ShipInv, RunsFit, RunFits, Run
<1>6. batch \subseteq run[i].todo
  BY <1>1, <1>5, BatchIn
<1>7. kept \subseteq batch
  BY <1>3, <1>4
<1>8. faults' \in 0..MaxFaults
  BY <1>3, FaultFits DEF FaultUnless, ShipInv, ShipTypes
<1> DEFINE r == [run[i] EXCEPT !.todo = @ \ batch, !.shipped = IF o.ok THEN @ \cup batch ELSE @]
<1>9. /\ r.pc = run[i].pc /\ r.role = run[i].role /\ r.items = run[i].items
      /\ r.todo = run[i].todo \ batch
      /\ r.shipped = IF o.ok THEN run[i].shipped \cup batch ELSE run[i].shipped
      /\ r \in Run
  BY <1>5, <1>6 DEF Run
<1>10. run' = [run EXCEPT ![i] = r]
  BY <1>3
<1> HIDE DEF r
<1>11. /\ r.todo \subseteq run[i].todo /\ r.shipped \subseteq run[i].shipped \cup run[i].todo
       /\ r.todo \cap r.shipped = {}
  BY <1>5, <1>6, <1>9 DEF RunFits
<1>12. \A e \in r.shipped \ run[i].shipped : e \in accepted' \cup rejected'
  BY <1>3, <1>4, <1>7, <1>9
<1>13. /\ accepted \subseteq accepted' /\ accepted' \subseteq Events
       /\ rejected \subseteq rejected' /\ rejected' \subseteq Events
  BY <1>3, <1>5, <1>6, <1>7 DEF ShipInv, ShipTypes
<1>14. bus \subseteq bus' /\ bus' \subseteq bus \cup {e \in run[i].todo : run[i].role = "bridge"}
  BY <1>1
<1> QED  BY <1>1, <1>8, <1>9, <1>10, <1>11, <1>12, <1>13, <1>14, GoesOnShip

\* A send that raises ships nothing.
LEMMA SendRaisesShip ==
  ASSUME ShipInv, NEW i \in Workers, SendRaises(i)
  PROVE  ShipInv' /\ NoneStarts
<1>1. /\ run[i].pc = "send" /\ run[i].todo # {} /\ run[i].role # "bridge" /\ Fault
      /\ UNCHANGED <<shipper, garbage, place, receives, bus, tries, accepted, rejected, reported>>
  BY DEF SendRaises, queue, busVars, histories
<1>2. PICK batch \in Batches(run[i].todo) :
       run' = [run EXCEPT ![i].todo = IF shipper.batches = "single" THEN @ \ batch ELSE {}]
  BY DEF SendRaises
<1>3. /\ RunFits(run[i], garbage, shipper.via) /\ run[i] \in Run /\ faults' \in 0..MaxFaults
  BY <1>1, FaultFits DEF ShipInv, ShipTypes, RunsFit, RunFits
<1> DEFINE left == IF shipper.batches = "single" THEN run[i].todo \ batch ELSE {}
<1>4. left \subseteq run[i].todo
  OBVIOUS
<1>5. run' = [run EXCEPT ![i].todo = left]
  BY <1>2
<1> HIDE DEF left
<1> DEFINE r == [run[i] EXCEPT !.todo = left]
<1>6. /\ r.pc = run[i].pc /\ r.role = run[i].role /\ r.items = run[i].items
      /\ r.todo = left /\ r.shipped = run[i].shipped /\ r \in Run
  BY <1>3, <1>4 DEF Run
<1>7. run' = [run EXCEPT ![i] = r]
  BY <1>5
<1> HIDE DEF r
<1>8. /\ r.todo \subseteq run[i].todo /\ r.shipped \subseteq run[i].shipped \cup run[i].todo
      /\ r.todo \cap r.shipped = {} /\ r.shipped \ run[i].shipped = {}
  BY <1>3, <1>4, <1>6 DEF RunFits
<1>9. /\ accepted' \subseteq Events /\ rejected' \subseteq Events
      /\ bus \subseteq bus' /\ bus' \subseteq bus \cup {e \in run[i].todo : run[i].role = "bridge"}
  BY <1>1 DEF ShipInv, ShipTypes
<1> QED  BY <1>1, <1>3, <1>6, <1>7, <1>8, <1>9, GoesOnShip

\* What the bridge counts as put is on the bus.
LEMMA PutEventsShip ==
  ASSUME ShipInv, NEW i \in Workers, PutEvents(i)
  PROVE  ShipInv' /\ NoneStarts
<1>1. /\ run[i].pc = "send" /\ run[i].role = "bridge"
      /\ UNCHANGED <<shipper, garbage, place, receives, tries, accepted, rejected, reported>>
  BY DEF PutEvents, queue, histories
<1>2. PICK put \in SUBSET run[i].todo :
       /\ FaultUnless(put = run[i].todo)
       /\ bus' = bus \cup put
       /\ run' = [run EXCEPT ![i].todo = {}, ![i].shipped = put]
  BY DEF PutEvents
<1>3. /\ RunFits(run[i], garbage, shipper.via) /\ run[i] \in Run /\ faults' \in 0..MaxFaults
  BY <1>2, FaultFits DEF FaultUnless, ShipInv, ShipTypes, RunsFit, RunFits
<1> DEFINE r == [run[i] EXCEPT !.todo = {}, !.shipped = put]
<1>4. /\ r.pc = run[i].pc /\ r.role = run[i].role /\ r.items = run[i].items
      /\ r.todo = {} /\ r.shipped = put /\ r \in Run
  BY <1>3 DEF Run
<1>5. run' = [run EXCEPT ![i] = r]
  BY <1>2
<1> HIDE DEF r
<1>6. /\ r.todo \subseteq run[i].todo /\ r.shipped \subseteq run[i].shipped \cup run[i].todo
      /\ r.todo \cap r.shipped = {}
      /\ \A e \in r.shipped \ run[i].shipped : e \in bus'
  BY <1>2, <1>4
<1>7. /\ accepted' \subseteq Events /\ rejected' \subseteq Events
      /\ bus \subseteq bus' /\ bus' \subseteq bus \cup {e \in run[i].todo : run[i].role = "bridge"}
  BY <1>1, <1>2 DEF ShipInv, ShipTypes
<1> QED  BY <1>1, <1>3, <1>4, <1>5, <1>6, <1>7, GoesOnShip

\* Every step of the handlers keeps the invariant, and no event that started is
\* as if it had not.
LEMMA NextShip ==
  ASSUME ShipInv, ShippersNext
  PROVE  ShipInv' /\ NoneForgotten /\ (shipper.via \in {"queue", "bus"} => NoneStarts)
<1>1. PICK i \in Workers :
       \/ Receive(i) \/ Webhook(i)
       \/ Send(i) \/ SendRaises(i) \/ PutEvents(i)
       \/ BridgeRaises(i) \/ ReturnFailures(i) \/ ReturnStatus(i) \/ NoCredential(i) \/ Crash(i)
       \/ \E e \in Events : Invoke(i, e) \/ Emit(e)
  BY DEF ShippersNext
<1>2. CASE \E e \in Events : Invoke(i, e) \/ Emit(e)
  <2>1. PICK e \in Events : Invoke(i, e) \/ Emit(e)
    BY <1>2
  <2> QED  BY <2>1, InvokeShip, EmitShip DEF NoneForgotten, NoneStarts, Emit
<1> QED  BY <1>1, <1>2, ReceiveShip, WebhookShip, SendShip, SendRaisesShip, PutEventsShip,
            FailedShip, ReturnFailuresShip, ReturnStatusShip, NoCredentialShip
     DEF NoneForgotten, NoneStarts, Webhook
-----------------------------------------------------------------------------
(* The invariant.                                                          *)

\* The notifications connection c may hold: they came over it, and are counted as
\* anonymous when neither they nor the handshake name the SVM.
OwnMessages(c) ==
  {m \in Messages : /\ m.type = "NOTI_REQ" /\ origin[m.event] = c
                    /\ m.event \in anonymous <=> ~m.named /\ c \notin introduced}

\* What the handshake of c tells.
Introduction(c) == IF c \in introduced THEN SvmOf[c] ELSE NoSvm

\* A connection is down; or its handshake was read, and the context is what that
\* told; or the handshake is the first message unread.
OwnInbox(c) ==
  \/ c \notin up /\ inbox[c] = <<>> /\ conn_ctx[c] = NoSvm
  \/ c \in up /\ inbox[c] \in Seq(OwnMessages(c)) /\ conn_ctx[c] = Introduction(c)
  \/ /\ c \in up /\ inbox[c] # <<>> /\ Head(inbox[c]) = Nego(c \in introduced)
     /\ Tail(inbox[c]) \in Seq(OwnMessages(c)) /\ conn_ctx[c] = NoSvm

\* The name of an event is its connection's, or nobody gave one.
OwnName ==
  \A e \in Events : svm_name[e] # NoSvm =>
    /\ origin[e] \in Conns
    /\ svm_name[e] = IF e \in anonymous THEN DefaultSvmName ELSE SvmOf[origin[e]]

Anonymous == \A e \in anonymous : origin[e] # NoSvm

ServerTypeOK ==
  /\ inbox \in [Conns -> Seq(Messages)]
  /\ conn_ctx \in [Conns -> Svms \cup {NoSvm}]
  /\ origin \in [Events -> Conns \cup {NoSvm}]
  /\ introduced \subseteq Conns /\ anonymous \subseteq Events
  /\ svm_name \in [Events -> Svms \cup {NoSvm, DefaultSvmName}]

IInv == ServerTypeOK /\ (\A c \in Conns : OwnInbox(c)) /\ OwnName /\ Anonymous

\* It holds initially.
LEMMA InitInv == Init => IInv
<1> SUFFICES ASSUME Init PROVE IInv
  OBVIOUS
<1>1. ServerTypeOK
  BY DEF Init, ServerTypeOK
<1>2. \A c \in Conns : OwnInbox(c)
  BY DEF Init, OwnInbox
<1>3. OwnName /\ Anonymous
  BY DEF Init, OwnName, Anonymous
<1> QED  BY <1>1, <1>2, <1>3 DEF IInv

-----------------------------------------------------------------------------
(* Messages.                                                               *)

\* What messages are made of.
LEMMA MessageFacts ==
  ASSUME NEW e \in Events, NEW named \in BOOLEAN, NEW path \in BOOLEAN
  PROVE  /\ Noti(e, named, path) \in Messages /\ Noti(e, named, path).event = e
         /\ Nego(named) \in Messages /\ Nego(named).type = "NEGO_REQ"
  <1>1. Noti(e, named, path) \in Messages
    BY DEF Messages
  <1>2. Nego(named) \in Messages
    BY DEF Messages
  <1>3. Noti(e, named, path).event = e /\ Nego(named).type = "NEGO_REQ"
    BY DEF Noti, Nego
  <1> QED  BY <1>1, <1>2, <1>3

\* A notification is about an event.
LEMMA NotificationHasEvent ==
  ASSUME NEW m \in Messages, m.type = "NOTI_REQ" PROVE m.event \in Events /\ m.named \in BOOLEAN
  BY DEF Messages, Noti, Nego

\* Reading the first message leaves messages of the same kind.
LEMMA ReadFirst ==
  ASSUME NEW S, NEW s \in Seq(S), s # <<>>
  PROVE  Head(s) \in S /\ Tail(s) \in Seq(S)
  OBVIOUS

\* Messages put behind others.
LEMMA Sent ==
  ASSUME NEW S, NEW s \in Seq(S), NEW m \in S, NEW t \in Seq(S)
  PROVE  s \o t \o <<m>> \in Seq(S)
  OBVIOUS

\* One message more does not change which is the first.
LEMMA OneMore ==
  ASSUME NEW S, NEW s \in Seq(S), NEW m \in S, s # <<>>
  PROVE  /\ s \o <<m>> # <<>> /\ Head(s \o <<m>>) = Head(s)
         /\ Tail(s \o <<m>>) = Tail(s) \o <<m>>
<1>1. s \o <<m>> = Append(s, m) /\ Tail(s) \o <<m>> = Append(Tail(s), m)
  BY AppendIsConcat, ReadFirst
<1>2. s \o <<m>> # <<>>
  OBVIOUS
<1> QED  BY <1>1, <1>2, HeadTailAppend

\* The handshake is before the notification it is sent with.
LEMMA Greeted ==
  ASSUME NEW S, NEW a \in S, NEW b \in S
  PROVE  LET t == <<>> \o <<a>> \o <<b>>
         IN  t \in Seq(S) /\ t # <<>> /\ Head(t) = a /\ Tail(t) = <<b>>
<1>1. <<a>> \in Seq(S) /\ <<b>> \in Seq(S) /\ <<a>> # <<>>
  OBVIOUS
<1>2. <<>> \o <<a>> = <<a>> /\ <<>> \o <<b>> = <<b>>
  BY <1>1, ConcatEmptySeq
<1>3. Head(<<a>>) = a /\ Tail(<<a>>) = <<>>
  OBVIOUS
<1>4. <<a>> \o <<b>> \in Seq(S)
  BY <1>1, ConcatProperties
<1>5. /\ <<a>> \o <<b>> # <<>> /\ Head(<<a>> \o <<b>>) = Head(<<a>>)
      /\ Tail(<<a>> \o <<b>>) = Tail(<<a>>) \o <<b>>
  BY <1>1, OneMore
<1>6. Tail(<<a>> \o <<b>>) = <<b>>
  BY <1>2, <1>3, <1>5
<1>7. <<>> \o <<a>> \o <<b>> = <<a>> \o <<b>>
  BY <1>2
<1> QED  BY <1>3, <1>4, <1>5, <1>6, <1>7, Zenon

\* Sequences over a larger set.
LEMMA SeqOfMore ==
  ASSUME NEW S, NEW T, S \subseteq T, NEW s \in Seq(S)
  PROVE  s \in Seq(T)
  OBVIOUS

-----------------------------------------------------------------------------
(* The steps.                                                              *)

\* A step that is sent nothing and gives no event a name.
LEMMA QuietInv ==
  ASSUME IInv, UNCHANGED <<sent, svm_name>>,
         inbox' \in [Conns -> Seq(Messages)], conn_ctx' \in [Conns -> Svms \cup {NoSvm}],
         \A c \in Conns : OwnInbox(c)'
  PROVE  IInv'
<1>1. ServerTypeOK' /\ OwnName' /\ Anonymous'
  BY DEF IInv, ServerTypeOK, OwnName, Anonymous, sent
<1> QED  BY <1>1 DEF IInv

\* A connection that nothing happens to.
LEMMA UntouchedInbox ==
  ASSUME NEW c \in Conns, OwnInbox(c), UNCHANGED sent,
         c \in up' <=> c \in up, inbox'[c] = inbox[c], conn_ctx'[c] = conn_ctx[c]
  PROVE  OwnInbox(c)'
<1>1. OwnMessages(c)' = OwnMessages(c) /\ Introduction(c)' = Introduction(c)
      /\ introduced' = introduced
  BY DEF OwnMessages, Introduction, sent
<1> QED  BY <1>1 DEF OwnInbox

\* The end of connections is such a step.
LEMMA EndInv == ASSUME IInv, NEW closed, NEW ended, End(closed, ended) PROVE IInv'
<1>1. /\ inbox' = [c \in Conns |-> IF c \in closed THEN <<>> ELSE inbox[c]]
      /\ conn_ctx' = [c \in Conns |-> IF c \in closed THEN NoSvm ELSE conn_ctx[c]]
      /\ up' = up \ closed /\ UNCHANGED <<sent, svm_name>>
  BY DEF End
<1>2. <<>> \in Seq(Messages)
  OBVIOUS
<1>3. inbox' \in [Conns -> Seq(Messages)] /\ conn_ctx' \in [Conns -> Svms \cup {NoSvm}]
  BY <1>1, <1>2 DEF IInv, ServerTypeOK
<1>4. ASSUME NEW c \in Conns PROVE OwnInbox(c)'
  <2>1. CASE c \in closed
    BY <1>1, <2>1 DEF OwnInbox
  <2>2. CASE c \notin closed
    BY <1>1, <2>2, UntouchedInbox DEF IInv
  <2> QED  BY <2>1, <2>2
<1> QED  BY <1>1, <1>3, <1>4, QuietInv

\* ONTAP numbers a fresh event, which no message and no name is about yet, and
\* begins a connection with its handshake.
LEMMA NotifyInv == ASSUME IInv, NEW c \in Conns, Notify(c) PROVE IInv'
<1>1. PICK e \in Unused, named \in BOOLEAN, hello \in BOOLEAN, path \in BOOLEAN :
        /\ c \in up => (hello <=> c \in introduced)
        /\ introduced' = IF hello THEN introduced \cup {c} ELSE introduced \ {c}
        /\ anonymous' = IF named \/ hello THEN anonymous ELSE anonymous \cup {e}
        /\ origin' = [origin EXCEPT ![e] = c]
        /\ inbox' = [inbox EXCEPT ![c] = @ \o (IF c \in up THEN <<>> ELSE <<Nego(hello)>>)
                                          \o <<Noti(e, named, path)>>]
  BY DEF Notify
<1>2. e \in Events /\ origin[e] = NoSvm /\ \A d \in Conns : d # NoSvm
  BY SvmAssumption DEF SvmAssumption, Unused
<1>3. UNCHANGED <<conn_ctx, svm_name>> /\ up' = up \cup {c}
  BY DEF Notify
<1>4. /\ origin' \in [Events -> Conns \cup {NoSvm}] /\ origin'[e] = c
      /\ \A f \in Events \ {e} : origin'[f] = origin[f]
      /\ \A f \in Events \ {e} : f \in anonymous' <=> f \in anonymous
      /\ e \in anonymous => e \in anonymous'
      /\ introduced' \subseteq Conns /\ anonymous' \subseteq Events
      /\ c \in introduced' <=> hello
      /\ \A d \in Conns \ {c} : d \in introduced' <=> d \in introduced
  BY <1>1, <1>2 DEF IInv, ServerTypeOK
<1>5. ASSUME NEW d \in Conns, d # c \/ c \in up PROVE OwnMessages(d) \subseteq OwnMessages(d)'
  <2>1. d \in introduced' <=> d \in introduced
    BY <1>1, <1>4, <1>5
  <2> QED  BY <1>2, <1>4, <2>1, NotificationHasEvent DEF OwnMessages
<1> DEFINE noti == Noti(e, named, path)
<1>6. noti \in Messages /\ Nego(hello) \in Messages /\ Nego(hello) = Nego(c \in introduced')
  BY <1>2, <1>4, MessageFacts
<1>7. noti \in OwnMessages(c)'
  <2>1. noti.event = e /\ noti.type = "NOTI_REQ" /\ noti.named = named
    BY <1>2, MessageFacts DEF Noti
  <2>2. e \notin anonymous => (e \in anonymous' <=> ~named /\ ~hello)
    BY <1>1
  <2>3. e \notin anonymous
    BY <1>2 DEF IInv, Anonymous
  <2> HIDE DEF noti
  <2> QED  BY <1>4, <1>6, <2>1, <2>2, <2>3 DEF OwnMessages
<1> HIDE DEF noti
<1>8. ASSUME NEW d \in Conns, d # c PROVE OwnInbox(d)'
  <2>1. inbox'[d] = inbox[d] /\ conn_ctx'[d] = conn_ctx[d] /\ (d \in up' <=> d \in up)
    BY <1>1, <1>3, <1>8 DEF IInv, ServerTypeOK
  <2>2. \A t : t \in Seq(OwnMessages(d)) => t \in Seq(OwnMessages(d)')
    BY <1>5, <1>8, SeqOfMore
  <2>3. Introduction(d)' = Introduction(d) /\ (d \in introduced') = (d \in introduced)
    BY <1>4, <1>8 DEF Introduction
  <2> QED  BY <2>1, <2>2, <2>3 DEF IInv, OwnInbox
<1>11. OwnName' /\ Anonymous'
  BY <1>1, <1>2, <1>3, <1>4 DEF IInv, OwnName, Anonymous, ServerTypeOK
<1>9. CASE c \in up
  <2>1. inbox' = [inbox EXCEPT ![c] = @ \o <<>> \o <<noti>>]
    BY <1>1, <1>9 DEF noti
  <2>2. inbox[c] \in Seq(Messages) /\ inbox[c] \o <<>> = inbox[c]
    BY DEF IInv, ServerTypeOK
  <2>3. inbox' = [inbox EXCEPT ![c] = @ \o <<noti>>]
    BY <2>1, <2>2 DEF IInv, ServerTypeOK
  <2>4. inbox'[c] = inbox[c] \o <<noti>> /\ inbox' \in [Conns -> Seq(Messages)]
    BY <1>6, <2>2, <2>3 DEF IInv, ServerTypeOK
  <2>5. Introduction(c)' = Introduction(c) /\ (c \in introduced') = (c \in introduced)
    BY <1>1, <1>4, <1>9 DEF Introduction
  <2>6. \A t : t \in Seq(OwnMessages(c)) => t \o <<noti>> \in Seq(OwnMessages(c)')
    BY <1>5, <1>7, <1>9, SeqOfMore
  <2>7. OwnInbox(c)'
    <3>1. CASE inbox[c] \in Seq(OwnMessages(c)) /\ conn_ctx[c] = Introduction(c)
      BY <1>3, <2>4, <2>5, <2>6, <3>1 DEF OwnInbox
    <3>2. CASE /\ inbox[c] # <<>> /\ Head(inbox[c]) = Nego(c \in introduced)
               /\ Tail(inbox[c]) \in Seq(OwnMessages(c)) /\ conn_ctx[c] = NoSvm
      <4>1. /\ inbox[c] \o <<noti>> # <<>> /\ Head(inbox[c] \o <<noti>>) = Head(inbox[c])
            /\ Tail(inbox[c] \o <<noti>>) = Tail(inbox[c]) \o <<noti>>
        BY <1>6, <2>2, <3>2, OneMore
      <4>2. Tail(inbox[c]) \o <<noti>> \in Seq(OwnMessages(c)')
        BY <2>6, <3>2
      <4> QED  BY <1>3, <2>4, <2>5, <3>2, <4>1, <4>2 DEF OwnInbox
    <3> QED  BY <1>9, <3>1, <3>2 DEF IInv, OwnInbox
  <2> QED  BY <1>3, <1>4, <1>8, <1>11, <2>4, <2>7 DEF IInv, ServerTypeOK
<1>10. CASE c \notin up
  <2>1. inbox' = [inbox EXCEPT ![c] = @ \o <<Nego(hello)>> \o <<noti>>]
    BY <1>1, <1>10 DEF noti
  <2>2. inbox[c] = <<>> /\ conn_ctx[c] = NoSvm
    BY <1>10 DEF IInv, OwnInbox
  <2> DEFINE new == <<>> \o <<Nego(hello)>> \o <<noti>>
  <2>3. new \in Seq(Messages) /\ new # <<>> /\ Head(new) = Nego(hello) /\ Tail(new) = <<noti>>
    BY <1>6, Greeted
  <2> HIDE DEF new
  <2>4. inbox'[c] = new /\ inbox' \in [Conns -> Seq(Messages)]
    BY <2>1, <2>2, <2>3 DEF IInv, ServerTypeOK, new
  <2>5. /\ Head(inbox'[c]) = Nego(hello) /\ Tail(inbox'[c]) = <<noti>> /\ inbox'[c] # <<>>
        /\ <<noti>> \in Seq(OwnMessages(c)')
    BY <1>7, <2>3, <2>4
  <2>6. OwnInbox(c)'
    BY <1>3, <1>6, <2>2, <2>5 DEF OwnInbox
  <2> QED  BY <1>3, <1>4, <1>8, <1>11, <2>4, <2>6 DEF IInv, ServerTypeOK
<1> QED  BY <1>9, <1>10

\* What a connection holds while it is served.
LEMMA Serves ==
  ASSUME IInv, NEW c \in Conns, c \in up, inbox[c] # <<>>
  PROVE  /\ Tail(inbox[c]) \in Seq(OwnMessages(c)) /\ Tail(inbox[c]) \in Seq(Messages)
         /\ Head(inbox[c]).type = "NEGO_REQ" =>
              Head(inbox[c]) = Nego(c \in introduced) /\ conn_ctx[c] = NoSvm
         /\ Head(inbox[c]).type = "NOTI_REQ" =>
              Head(inbox[c]) \in OwnMessages(c) /\ conn_ctx[c] = Introduction(c)
<1>1. Nego(c \in introduced).type = "NEGO_REQ"
  BY DEF Nego
<1>2. \A m \in OwnMessages(c) : m.type = "NOTI_REQ"
  BY DEF OwnMessages
<1>3. inbox[c] \in Seq(OwnMessages(c)) =>
        Tail(inbox[c]) \in Seq(OwnMessages(c)) /\ Head(inbox[c]) \in OwnMessages(c)
  BY ReadFirst
<1>4. Tail(inbox[c]) \in Seq(Messages)
  BY ReadFirst DEF IInv, ServerTypeOK
<1> QED  BY <1>1, <1>2, <1>3, <1>4 DEF IInv, OwnInbox

\* A handshake sets the context of its own connection.
LEMMA HandshakeInv == ASSUME IInv, NEW c \in Conns, Handshake(c) PROVE IInv'
<1>1. /\ c \in up /\ inbox[c] # <<>> /\ Head(inbox[c]).type = "NEGO_REQ"
      /\ inbox' = [inbox EXCEPT ![c] = Tail(@)] /\ UNCHANGED <<up, sent, svm_name>>
      /\ conn_ctx' = IF Head(inbox[c]).named THEN [conn_ctx EXCEPT ![c] = SvmOf[c]] ELSE conn_ctx
  BY DEF Handshake, Reads
<1>2. /\ Tail(inbox[c]) \in Seq(OwnMessages(c)) /\ Tail(inbox[c]) \in Seq(Messages)
      /\ Head(inbox[c]) = Nego(c \in introduced) /\ conn_ctx[c] = NoSvm
  BY <1>1, Serves
<1>3. Head(inbox[c]).named = (c \in introduced)
  BY <1>2 DEF Nego
<1>4. /\ inbox' \in [Conns -> Seq(Messages)]
      /\ \A d \in Conns : inbox'[d] = IF d = c THEN Tail(inbox[c]) ELSE inbox[d]
  BY <1>1, <1>2 DEF IInv, ServerTypeOK
<1>5. conn_ctx' \in [Conns -> Svms \cup {NoSvm}]
      /\ \A d \in Conns : conn_ctx'[d] = IF d = c THEN Introduction(c) ELSE conn_ctx[d]
  BY SvmAssumption, <1>1, <1>2, <1>3 DEF SvmAssumption, Introduction, IInv, ServerTypeOK
<1>6. \A d \in Conns : OwnMessages(d)' = OwnMessages(d) /\ Introduction(d)' = Introduction(d)
  BY <1>1 DEF OwnMessages, Introduction, sent
<1>7. ASSUME NEW d \in Conns PROVE OwnInbox(d)'
  <2>1. CASE d = c
    BY <1>1, <1>2, <1>4, <1>5, <1>6, <2>1 DEF OwnInbox
  <2>2. CASE d # c
    BY <1>1, <1>4, <1>5, <2>2, UntouchedInbox DEF IInv
  <2> QED  BY <2>1, <2>2
<1> QED  BY <1>1, <1>4, <1>5, <1>7, QuietInv

\* The name an event gets is its connection's, or nobody gave one.
LEMMA ReadInv == ASSUME IInv, NEW c \in Conns, Read(c) PROVE IInv'
<1> DEFINE m == Head(inbox[c])
<1>1. /\ c \in up /\ inbox[c] # <<>> /\ m.type = "NOTI_REQ"
      /\ inbox' = [inbox EXCEPT ![c] = Tail(@)] /\ UNCHANGED <<up, conn_ctx, sent>>
  BY DEF Read, Reads
<1>2. /\ Tail(inbox[c]) \in Seq(OwnMessages(c)) /\ Tail(inbox[c]) \in Seq(Messages)
      /\ m \in OwnMessages(c) /\ conn_ctx[c] = Introduction(c)
  BY <1>1, Serves
<1>3. /\ m.event \in Events /\ m.named \in BOOLEAN /\ origin[m.event] = c
      /\ m.event \in anonymous <=> ~m.named /\ c \notin introduced
  BY <1>1, <1>2, NotificationHasEvent DEF OwnMessages
<1>4. /\ inbox' \in [Conns -> Seq(Messages)]
      /\ \A d \in Conns : inbox'[d] = IF d = c THEN Tail(inbox[c]) ELSE inbox[d]
  BY <1>1, <1>2 DEF IInv, ServerTypeOK
<1>5. \A d \in Conns : OwnMessages(d)' = OwnMessages(d) /\ Introduction(d)' = Introduction(d)
  BY <1>1 DEF OwnMessages, Introduction, sent
<1>6. ASSUME NEW d \in Conns PROVE OwnInbox(d)'
  <2>1. CASE d = c
    BY <1>1, <1>2, <1>4, <1>5, <2>1 DEF OwnInbox
  <2>2. CASE d # c
    BY <1>1, <1>4, <2>2, UntouchedInbox DEF IInv
  <2> QED  BY <2>1, <2>2
<1>7. CASE UNCHANGED svm_name
  BY <1>1, <1>4, <1>6, <1>7, QuietInv DEF IInv, ServerTypeOK
<1>8. CASE svm_name' = [svm_name EXCEPT ![m.event] = SvmName(c, m.named)]
  <2> DEFINE name == SvmName(c, m.named)
  <2>1. SvmOf[c] \in Svms /\ SvmOf[c] # NoSvm
    BY SvmAssumption DEF SvmAssumption
  <2>2. name = IF m.event \in anonymous THEN DefaultSvmName ELSE SvmOf[c]
    BY <1>2, <1>3, <2>1 DEF SvmName, Introduction
  <2> HIDE DEF name
  <2>3. /\ svm_name' \in [Events -> Svms \cup {NoSvm, DefaultSvmName}]
        /\ svm_name'[m.event] = name
        /\ \A f \in Events \ {m.event} : svm_name'[f] = svm_name[f]
    BY <1>3, <1>8, <2>1, <2>2 DEF IInv, ServerTypeOK, name
  <2>4. OwnName'
    BY <1>1, <1>3, <2>2, <2>3 DEF IInv, OwnName, sent
  <2>5. ServerTypeOK' /\ Anonymous'
    BY <1>1, <1>4, <2>3 DEF IInv, ServerTypeOK, Anonymous, sent
  <2> QED  BY <1>6, <2>4, <2>5 DEF IInv
<1> QED  BY <1>7, <1>8 DEF Read

\* Steps that change neither messages nor contexts nor names.
LEMMA StillInv ==
  ASSUME IInv, UNCHANGED <<up, inbox, conn_ctx, sent, svm_name>> PROVE IInv'
<1>1. \A c \in Conns : OwnInbox(c)'
  BY UntouchedInbox DEF IInv
<1> QED  BY <1>1, QuietInv DEF IInv, ServerTypeOK

\* Every step keeps it.
LEMMA NextInv == IInv /\ [Next]_vars => IInv'
<1> SUFFICES ASSUME IInv, [Next]_vars PROVE IInv'
  OBVIOUS
<1>1. ASSUME NEW c \in Conns, Notify(c) \/ Handshake(c) \/ Read(c) PROVE IInv'
  BY <1>1, NotifyInv, HandshakeInv, ReadInv
<1>2. ASSUME NEW c \in Conns, SendEvent(c) PROVE IInv'
  BY <1>2, StillInv DEF SendEvent, ontap
<1>3. ASSUME NEW c \in Conns, WriteToLog(c) PROVE IInv'
  BY <1>3, StillInv, EndInv DEF WriteToLog, ontap
<1>4. ASSUME NEW c \in Conns, Close(c) \/ TimeOut(c) PROVE IInv'
  BY <1>4, EndInv DEF Close, TimeOut
<1>5. CASE Foreign
  BY <1>5, StillInv DEF Foreign, server, ontap
<1>6. CASE Exit
  BY <1>6, EndInv DEF Exit
<1>7. CASE UNCHANGED server
  BY <1>7, StillInv DEF server, ontap, sent
<1>8. CASE UNCHANGED vars
  BY <1>7, <1>8 DEF vars
<1> QED  BY <1>1, <1>2, <1>3, <1>4, <1>5, <1>6, <1>7, <1>8 DEF Next

-----------------------------------------------------------------------------
(* Where the notifications are.                                            *)

EventsIn(s) == {s[n].event : n \in DOMAIN s} \ {0}

\* No two messages are about one event.
OnceEach(s) ==
  \A m, n \in DOMAIN s : s[m].event # 0 /\ s[m].event = s[n].event => m = n

\* What a connection holds came over it once and is nowhere else, and a
\* connection that is down holds nothing.
HoldsOwn(c) ==
  /\ c \notin up => inbox[c] = <<>> /\ holding[c] = {} /\ conn_ctx[c] = NoSvm
  /\ holding[c] = {} \/ \E e \in Events : holding[c] = {e}
  /\ \A e \in holding[c] : origin[e] = c /\ e \notin EventsIn(inbox[c])
  /\ \A e \in Held(c) : place[e] = "none" /\ fate[e] = "none"
  /\ OnceEach(inbox[c])

\* Every notification is held by its connection, started behind the queue or
\* ended in the server.
Accounted(e) ==
  /\ IF origin[e] = NoSvm THEN fate[e] = "none" ELSE shipper.via \in {"queue", "bus"}
  /\ \A c \in Conns : origin[e] = c =>
       e \in Held(c) \/ fate[e] # "none" \/ place[e] # "none"

HeldInv ==
  /\ mode \in {"realtime", "log"} /\ up \subseteq Conns
  /\ holding \in [Conns -> SUBSET Events] /\ fate \in [Events -> Fates]
  /\ \A c \in Conns : HoldsOwn(c)
  /\ \A e \in Events : Accounted(e)

\* The events of the unread messages.
LEMMA UnreadIs == \A c : Unread(c) = EventsIn(inbox[c])
  BY DEF Unread, EventsIn

\* What is unread came over the connection.
LEMMA UnreadOwn ==
  ASSUME IInv, NEW c \in Conns
  PROVE  /\ EventsIn(inbox[c]) \subseteq Events
         /\ \A e \in EventsIn(inbox[c]) : origin[e] = c
<1> SUFFICES ASSUME NEW n \in DOMAIN inbox[c], inbox[c][n].event # 0
             PROVE  inbox[c][n].event \in Events /\ origin[inbox[c][n].event] = c
  BY DEF EventsIn
<1>1. inbox[c] \in Seq(Messages)
  BY DEF IInv, ServerTypeOK
<1>2. inbox[c][n] \in OwnMessages(c)
  <2>1. CASE inbox[c] \in Seq(OwnMessages(c))
    BY <2>1
  <2>2. CASE /\ inbox[c] # <<>> /\ Head(inbox[c]) = Nego(c \in introduced)
             /\ Tail(inbox[c]) \in Seq(OwnMessages(c))
    <3>1. n # 1
      BY <1>1, <2>2 DEF Nego
    <3>2. n - 1 \in DOMAIN Tail(inbox[c]) /\ Tail(inbox[c])[n - 1] = inbox[c][n]
      BY <1>1, <2>2, <3>1
    <3> QED  BY <2>2, <3>2
  <2>3. CASE inbox[c] = <<>>
    BY <2>3
  <2> QED  BY <2>1, <2>2, <2>3 DEF IInv, OwnInbox
<1>3. inbox[c][n].type = "NOTI_REQ" /\ inbox[c][n].event \in Events
  BY <1>2, NotificationHasEvent DEF OwnMessages
<1> QED  BY <1>2, <1>3 DEF OwnMessages

\* Reading takes the first message away.
LEMMA FirstRead ==
  ASSUME NEW s \in Seq(Messages), s # <<>>, OnceEach(s)
  PROVE  /\ EventsIn(s) = EventsIn(Tail(s)) \cup ({Head(s).event} \ {0})
         /\ Head(s).event \notin EventsIn(Tail(s)) /\ OnceEach(Tail(s))
<1>1. /\ Len(s) \in Nat \ {0} /\ DOMAIN s = 1..Len(s) /\ Head(s) = s[1]
      /\ DOMAIN Tail(s) = 1..(Len(s) - 1)
      /\ \A n \in 1..(Len(s) - 1) : Tail(s)[n] = s[n + 1]
  OBVIOUS
<1>2. \A n \in 2..Len(s) : n - 1 \in 1..(Len(s) - 1) /\ Tail(s)[n - 1] = s[n]
  BY <1>1
<1>3. ASSUME NEW e, e # 0
      PROVE  e \in EventsIn(s) <=> e \in EventsIn(Tail(s)) \/ e = Head(s).event
  <2>1. ASSUME e \in EventsIn(s) PROVE e \in EventsIn(Tail(s)) \/ e = Head(s).event
    <3>1. PICK n \in 1..Len(s) : s[n].event = e
      BY <1>1, <2>1 DEF EventsIn
    <3>2. n = 1 \/ n \in 2..Len(s)
      BY <1>1
    <3> QED  BY <1>1, <1>2, <1>3, <3>1, <3>2 DEF EventsIn
  <2>2. ASSUME e \in EventsIn(Tail(s)) PROVE e \in EventsIn(s)
    <3>1. PICK n \in 1..(Len(s) - 1) : Tail(s)[n].event = e
      BY <1>1, <2>2 DEF EventsIn
    <3>2. n + 1 \in 1..Len(s) /\ s[n + 1].event = e
      BY <1>1, <3>1
    <3> QED  BY <1>1, <1>3, <3>2 DEF EventsIn
  <2>3. e = Head(s).event => e \in EventsIn(s)
    BY <1>1, <1>3 DEF EventsIn
  <2> QED  BY <2>1, <2>2, <2>3
<1>4. 0 \notin EventsIn(s) /\ 0 \notin EventsIn(Tail(s))
  BY DEF EventsIn
<1>5. OnceEach(Tail(s))
  <2> SUFFICES ASSUME NEW m \in 1..(Len(s) - 1), NEW n \in 1..(Len(s) - 1),
                      Tail(s)[m].event # 0, Tail(s)[m].event = Tail(s)[n].event
               PROVE  m = n
    BY <1>1 DEF OnceEach
  <2>1. m + 1 \in DOMAIN s /\ n + 1 \in DOMAIN s
    BY <1>1
  <2>2. m + 1 = n + 1
    BY <1>1, <2>1 DEF OnceEach
  <2> QED  BY <1>1, <2>2
<1>6. Head(s).event \notin EventsIn(Tail(s))
  <2> SUFFICES ASSUME Head(s).event \in EventsIn(Tail(s)) PROVE FALSE
    OBVIOUS
  <2>1. PICK n \in 1..(Len(s) - 1) : Tail(s)[n].event = Head(s).event /\ Head(s).event # 0
    BY <1>1 DEF EventsIn
  <2>2. n + 1 \in DOMAIN s /\ 1 \in DOMAIN s /\ n + 1 # 1
    BY <1>1
  <2> QED  BY <1>1, <2>1, <2>2 DEF OnceEach
<1> QED  BY <1>3, <1>4, <1>5, <1>6

\* A message put behind the others, about an event of none of them.
LEMMA PutBehind ==
  ASSUME NEW s \in Seq(Messages), NEW m \in Messages, OnceEach(s),
         m.event \notin EventsIn(s)
  PROVE  /\ s \o <<m>> \in Seq(Messages)
         /\ EventsIn(s \o <<m>>) = EventsIn(s) \cup ({m.event} \ {0})
         /\ OnceEach(s \o <<m>>)
<1> DEFINE t == s \o <<m>>
<1>1. /\ t \in Seq(Messages) /\ Len(s) \in Nat /\ DOMAIN s = 1..Len(s)
      /\ DOMAIN t = 1..(Len(s) + 1) /\ t[Len(s) + 1] = m
      /\ \A n \in 1..Len(s) : t[n] = s[n]
  OBVIOUS
<1>2. \A n \in 1..(Len(s) + 1) : n \in 1..Len(s) \/ n = Len(s) + 1
  BY <1>1
<1>3. \A n \in 1..Len(s) : n \in DOMAIN t
  BY <1>1
<1>4. Len(s) + 1 \in DOMAIN t
  BY <1>1
<1> HIDE DEF t
<1>5. ASSUME NEW e, e # 0 PROVE e \in EventsIn(t) <=> e \in EventsIn(s) \/ e = m.event
  <2>1. ASSUME e \in EventsIn(t) PROVE e \in EventsIn(s) \/ e = m.event
    <3>1. PICK n \in DOMAIN t : t[n].event = e
      BY <2>1 DEF EventsIn
    <3> QED  BY <1>1, <1>2, <1>5, <3>1 DEF EventsIn
  <2>2. e \in EventsIn(s) => e \in EventsIn(t)
    BY <1>1, <1>3, <1>5 DEF EventsIn
  <2>3. e = m.event => e \in EventsIn(t)
    BY <1>1, <1>4, <1>5 DEF EventsIn
  <2> QED  BY <2>1, <2>2, <2>3
<1>6. 0 \notin EventsIn(s) /\ 0 \notin EventsIn(t)
  BY DEF EventsIn
<1>7. OnceEach(t)
  <2> SUFFICES ASSUME NEW k \in DOMAIN t, NEW n \in DOMAIN t,
                      t[k].event # 0, t[k].event = t[n].event
               PROVE  k = n
    BY DEF OnceEach
  <2>1. CASE k \in 1..Len(s) /\ n \in 1..Len(s)
    BY <1>1, <2>1 DEF OnceEach
  <2>2. CASE k = Len(s) + 1 /\ n \in 1..Len(s)
    <3>1. s[n].event = m.event /\ m.event # 0
      BY <1>1, <2>2
    <3> QED  BY <1>1, <2>2, <3>1 DEF EventsIn
  <2>3. CASE n = Len(s) + 1 /\ k \in 1..Len(s)
    <3>1. s[k].event = m.event /\ m.event # 0
      BY <1>1, <2>3
    <3> QED  BY <1>1, <2>3, <3>1 DEF EventsIn
  <2> QED  BY <1>1, <1>2, <2>1, <2>2, <2>3
<1> QED  BY <1>1, <1>5, <1>6, <1>7 DEF t

-----------------------------------------------------------------------------
(* Where the notifications are: the steps.                                 *)

\* A connection that nothing happens to holds what it held.
LEMMA HoldsKept ==
  ASSUME NEW c \in Conns, HoldsOwn(c), c \in up => c \in up',
         inbox'[c] = inbox[c], holding'[c] = holding[c], conn_ctx'[c] = conn_ctx[c],
         \A e \in Held(c) : origin'[e] = origin[e] /\ place'[e] = place[e] /\ fate'[e] = fate[e]
  PROVE  HoldsOwn(c)' /\ Held(c)' = Held(c)
<1>1. Held(c)' = Held(c) /\ holding[c] \subseteq Held(c)
  BY DEF Held, Unread
<1> QED  BY <1>1 DEF HoldsOwn

\* What a connection holds came over it.
LEMMA HeldOwn ==
  ASSUME IInv, HeldInv, NEW c \in Conns
  PROVE  Held(c) \subseteq Events /\ \A e \in Held(c) : origin[e] = c
<1>1. EventsIn(inbox[c]) \subseteq Events /\ \A e \in EventsIn(inbox[c]) : origin[e] = c
  BY UnreadOwn
<1>2. holding[c] \subseteq Events /\ \A e \in holding[c] : origin[e] = c
  BY DEF HeldInv, HoldsOwn
<1> QED  BY <1>1, <1>2, UnreadIs DEF Held

\* Connections end.
LEMMA EndHeld ==
  ASSUME IInv, HeldInv, NEW closed \in SUBSET Conns, NEW ended, End(closed, ended),
         UNCHANGED <<place, shipper>>,
         \A c \in closed : Held(c) \subseteq ended,
         \A e \in ended : \E c \in closed : e \in Held(c)
  PROVE  HeldInv'
<1>1. /\ up' = up \ closed
      /\ conn_ctx' = [c \in Conns |-> IF c \in closed THEN NoSvm ELSE conn_ctx[c]]
      /\ inbox' = [c \in Conns |-> IF c \in closed THEN <<>> ELSE inbox[c]]
      /\ holding' = [c \in Conns |-> IF c \in closed THEN {} ELSE holding[c]]
      /\ fate' = [e \in Events |-> IF e \in ended THEN "lost" ELSE fate[e]]
      /\ UNCHANGED <<mode, origin>>
  BY DEF End, sent
<1>2. \A c \in Conns : HoldsOwn(c)
  BY DEF HeldInv
<1>3. ASSUME NEW c \in Conns, c \notin closed PROVE HoldsOwn(c)' /\ Held(c)' = Held(c)
  <2>1. \A e \in Held(c) : e \in Events /\ e \notin ended
    BY <1>3, HeldOwn
  <2>2. \A e \in Held(c) : fate'[e] = fate[e]
    BY <1>1, <2>1
  <2>3. /\ c \in up => c \in up'
        /\ inbox'[c] = inbox[c] /\ holding'[c] = holding[c] /\ conn_ctx'[c] = conn_ctx[c]
    BY <1>1, <1>3
  <2> QED  BY <1>1, <1>2, <2>2, <2>3, HoldsKept
<1>4. ASSUME NEW c \in closed PROVE HoldsOwn(c)'
  <2>1. c \notin up' /\ inbox'[c] = <<>> /\ holding'[c] = {} /\ conn_ctx'[c] = NoSvm
    BY <1>1
  <2>2. Unread(c)' = {} /\ OnceEach(<<>>)
    BY <2>1 DEF Unread, OnceEach
  <2>3. Held(c)' = {}
    BY <2>1, <2>2 DEF Held
  <2> QED  BY <2>1, <2>2, <2>3 DEF HoldsOwn
<1>5. ASSUME NEW e \in Events PROVE Accounted(e)'
  <2>1. fate'[e] = IF e \in ended THEN "lost" ELSE fate[e]
    BY <1>1
  <2>2. IF origin[e] = NoSvm THEN fate'[e] = "none" ELSE shipper.via \in {"queue", "bus"}
    <3>1. e \in ended => origin[e] # NoSvm
      BY SvmAssumption, HeldOwn DEF SvmAssumption
    <3> QED  BY <2>1, <3>1 DEF HeldInv, Accounted
  <2>3. ASSUME NEW c \in Conns, origin[e] = c
        PROVE  e \in Held(c)' \/ fate'[e] # "none" \/ place[e] # "none"
    <3>1. e \in Held(c) \/ fate[e] # "none" \/ place[e] # "none"
      BY <2>3 DEF HeldInv, Accounted
    <3> QED  BY <1>3, <2>1, <3>1
  <2> QED  BY <1>1, <2>2, <2>3 DEF Accounted
<1>6. /\ up' \subseteq Conns /\ holding' \in [Conns -> SUBSET Events] /\ fate' \in [Events -> Fates]
      /\ mode' \in {"realtime", "log"}
  BY <1>1 DEF HeldInv, Fates
<1> QED  BY <1>3, <1>4, <1>5, <1>6 DEF HeldInv

\* ONTAP sends a notification about an event that is nowhere yet.
LEMMA NotifyHeld ==
  ASSUME IInv, HeldInv, ShipInv, NEW c \in Conns, Notify(c) PROVE HeldInv'
<1>1. PICK e \in Unused, named \in BOOLEAN, hello \in BOOLEAN, path \in BOOLEAN :
        /\ origin' = [origin EXCEPT ![e] = c]
        /\ inbox' = [inbox EXCEPT ![c] = @ \o (IF c \in up THEN <<>> ELSE <<Nego(hello)>>)
                                          \o <<Noti(e, named, path)>>]
  BY DEF Notify
<1>2. /\ e \in Events /\ origin[e] = NoSvm /\ place[e] = "none" /\ \A d \in Conns : d # NoSvm
      /\ e # 0
  BY SvmAssumption, ConstantsAssumption DEF SvmAssumption, ConstantsAssumption, Unused, Events
<1>3. /\ UNCHANGED <<mode, conn_ctx, holding, svm_name, fate, place, shipper>>
      /\ up' = up \cup {c} /\ shipper.via \in {"queue", "bus"}
  BY DEF Notify, shipperVars, queue
<1>4. /\ origin' \in [Events -> Conns \cup {NoSvm}] /\ origin'[e] = c
      /\ \A f \in Events \ {e} : origin'[f] = origin[f]
  BY <1>1, <1>2 DEF IInv, ServerTypeOK
<1>5. \A d \in Conns : HoldsOwn(d) /\ e \notin Held(d)
  BY <1>2, HeldOwn DEF HeldInv
<1> DEFINE hand == IF c \in up THEN <<>> ELSE <<Nego(hello)>>
<1> DEFINE noti == Noti(e, named, path)
<1>6. noti \in Messages /\ noti.event = e /\ Nego(hello) \in Messages /\ Nego(hello).event = 0
  <2>1. Noti(e, named, path) \in Messages /\ Noti(e, named, path).event = e
        /\ Nego(hello) \in Messages
    BY <1>2, MessageFacts
  <2>2. Nego(hello).event = 0
    BY DEF Nego
  <2> QED  BY <2>1, <2>2
<1> HIDE DEF noti
<1>7. inbox[c] \in Seq(Messages) /\ OnceEach(inbox[c]) /\ e \notin EventsIn(inbox[c])
  BY <1>5, UnreadIs DEF IInv, ServerTypeOK, HoldsOwn, Held
<1> DEFINE greeted == inbox[c] \o hand
<1>8. /\ greeted \in Seq(Messages) /\ OnceEach(greeted) /\ EventsIn(greeted) = EventsIn(inbox[c])
  <2>1. CASE c \in up
    <3>1. hand = <<>>
      BY <2>1
    <3> HIDE DEF hand
    <3>2. greeted = inbox[c]
      BY <1>7, <3>1
    <3> HIDE DEF greeted
    <3> QED  BY <1>7, <3>2
  <2>2. CASE c \notin up
    <3>1. hand = <<Nego(hello)>>
      BY <2>2
    <3>2. Nego(hello).event \notin EventsIn(inbox[c])
      BY <1>6 DEF EventsIn
    <3> HIDE DEF hand
    <3>3. /\ inbox[c] \o <<Nego(hello)>> \in Seq(Messages)
          /\ EventsIn(inbox[c] \o <<Nego(hello)>>) =
               EventsIn(inbox[c]) \cup ({Nego(hello).event} \ {0})
          /\ OnceEach(inbox[c] \o <<Nego(hello)>>)
      BY <1>6, <1>7, <3>2, PutBehind
    <3> QED  BY <1>6, <3>1, <3>3
  <2> QED  BY <2>1, <2>2
<1> HIDE DEF hand
<1> DEFINE new == greeted \o <<noti>>
<1>9. /\ inbox'[c] = new /\ \A d \in Conns \ {c} : inbox'[d] = inbox[d]
  BY <1>1 DEF IInv, ServerTypeOK, hand, noti
<1> HIDE DEF greeted
<1>10. EventsIn(new) = EventsIn(inbox[c]) \cup {e} /\ OnceEach(new)
  BY <1>2, <1>6, <1>7, <1>8, PutBehind
<1> HIDE DEF new
<1>11. ASSUME NEW d \in Conns, d # c PROVE HoldsOwn(d)' /\ Held(d)' = Held(d)
  <2>1. inbox'[d] = inbox[d] /\ conn_ctx'[d] = conn_ctx[d] /\ holding'[d] = holding[d]
    BY <1>3, <1>9, <1>11
  <2>2. \A f \in Held(d) : origin'[f] = origin[f] /\ place'[f] = place[f] /\ fate'[f] = fate[f]
    BY <1>3, <1>4, <1>5, HeldOwn
  <2> QED  BY <1>3, <1>5, <2>1, <2>2, HoldsKept
<1>12. Held(c)' = Held(c) \cup {e}
  <2>1. Unread(c)' = EventsIn(new)
    BY <1>9, UnreadIs DEF Unread, EventsIn
  <2> QED  BY <1>3, <1>10, <2>1, UnreadIs DEF Held
<1>13. fate[e] = "none"
  BY <1>2 DEF HeldInv, Accounted
<1>14. HoldsOwn(c)'
  <2>1. c \in up'
    BY <1>3
  <2>2. \A f \in holding'[c] : origin'[f] = c /\ f \notin EventsIn(inbox'[c])
    <3> SUFFICES ASSUME NEW f \in holding[c] PROVE origin'[f] = c /\ f \notin EventsIn(new)
      BY <1>3, <1>9
    <3>1. f # e /\ f \in Events /\ origin[f] = c /\ f \notin EventsIn(inbox[c])
      BY <1>5 DEF HoldsOwn, Held, HeldInv
    <3> QED  BY <1>4, <1>10, <3>1
  <2>3. \A f \in Held(c)' : place'[f] = "none" /\ fate'[f] = "none"
    BY <1>2, <1>3, <1>5, <1>12, <1>13 DEF HoldsOwn
  <2>4. holding'[c] = {} \/ \E f \in Events : holding'[c] = {f}
    BY <1>3, <1>5 DEF HoldsOwn
  <2> QED  BY <1>9, <1>10, <2>1, <2>2, <2>3, <2>4 DEF HoldsOwn
<1>15. ASSUME NEW f \in Events PROVE Accounted(f)'
  <2>1. CASE f = e
    <3>1. e \in EventsIn(inbox'[c])
      BY <1>9, <1>10
    <3>2. \A d \in Conns : d = c => e \in Held(d)'
      BY <3>1 DEF Held, Unread, EventsIn
    <3>3. origin'[f] = c /\ c # NoSvm /\ shipper'.via \in {"queue", "bus"}
      BY <1>2, <1>3, <1>4, <2>1
    <3> QED  BY <2>1, <3>2, <3>3 DEF Accounted
  <2>2. CASE f # e
    <3>1. origin'[f] = origin[f] /\ origin[f] \in Conns \cup {NoSvm}
      BY <1>4, <2>2 DEF IInv, ServerTypeOK
    <3>2. \A d \in Conns : f \in Held(d) => f \in Held(d)'
      BY <1>11, <1>12
    <3> QED  BY <1>3, <3>1, <3>2 DEF Accounted, HeldInv
  <2> QED  BY <2>1, <2>2
<1> QED  BY <1>3, <1>11, <1>14, <1>15 DEF HeldInv


\* A step of connection c alone that reads, or sends what it holds.
LEMMA OneHeld ==
  ASSUME IInv, HeldInv, NEW c \in Conns, c \in up,
         UNCHANGED <<mode, up, origin, shipper>>,
         \A d \in Conns \ {c} : /\ inbox'[d] = inbox[d] /\ holding'[d] = holding[d]
                               /\ conn_ctx'[d] = conn_ctx[d],
         holding' \in [Conns -> SUBSET Events], fate' \in [Events -> Fates],
         Held(c)' \subseteq Held(c),
         \A e \in Events : e \notin Held(c) \/ e \in Held(c)' =>
           place'[e] = place[e] /\ fate'[e] = fate[e],
         \A e \in Held(c) : e \notin Held(c)' => fate'[e] # "none" \/ place'[e] # "none",
         holding'[c] = {} \/ \E e \in Events : holding'[c] = {e},
         OnceEach(inbox'[c]), \A e \in holding'[c] : e \notin EventsIn(inbox'[c])
  PROVE  HeldInv'
<1>1. \A d \in Conns : HoldsOwn(d)
  BY DEF HeldInv
<1>2. ASSUME NEW d \in Conns, d # c PROVE HoldsOwn(d)' /\ Held(d)' = Held(d)
  <2>1. \A e \in Held(d) : e \in Events /\ e \notin Held(c)
    BY <1>2, HeldOwn
  <2>2. \A e \in Held(d) : origin'[e] = origin[e] /\ place'[e] = place[e] /\ fate'[e] = fate[e]
    BY <2>1
  <2>3. inbox'[d] = inbox[d] /\ holding'[d] = holding[d] /\ conn_ctx'[d] = conn_ctx[d]
    BY <1>2
  <2> QED  BY <1>1, <2>2, <2>3, HoldsKept
<1>3. HoldsOwn(c)'
  <2>1. holding[c]' \subseteq Held(c)'
    BY DEF Held
  <2>2. \A e \in holding'[c] : origin'[e] = c /\ e \notin EventsIn(inbox'[c])
    BY <2>1, HeldOwn
  <2>3. \A e \in Held(c)' : place'[e] = "none" /\ fate'[e] = "none"
    <3> SUFFICES ASSUME NEW e \in Held(c)' PROVE place'[e] = "none" /\ fate'[e] = "none"
      OBVIOUS
    <3>1. e \in Held(c) /\ e \in Events
      BY HeldOwn
    <3> QED  BY <1>1, <3>1 DEF HoldsOwn
  <2> QED  BY <2>2, <2>3 DEF HoldsOwn
<1>4. ASSUME NEW e \in Events PROVE Accounted(e)'
  <2>1. Accounted(e)
    BY DEF HeldInv
  <2>2. IF origin[e] = NoSvm THEN fate'[e] = "none" ELSE shipper.via \in {"queue", "bus"}
    <3>1. origin[e] = NoSvm => e \notin Held(c)
      BY SvmAssumption, HeldOwn DEF SvmAssumption
    <3> QED  BY <2>1, <3>1 DEF Accounted
  <2>3. ASSUME NEW d \in Conns, origin[e] = d, d # c
        PROVE  e \in Held(d)' \/ fate'[e] # "none" \/ place'[e] # "none"
    <3>1. e \notin Held(c)
      BY <2>3, HeldOwn
    <3> QED  BY <1>2, <2>1, <2>3, <3>1 DEF Accounted
  <2>4. origin[e] = c => e \in Held(c)' \/ fate'[e] # "none" \/ place'[e] # "none"
    BY <2>1 DEF Accounted
  <2>5. \A d \in Conns : origin[e] = d =>
          e \in Held(d)' \/ fate'[e] # "none" \/ place'[e] # "none"
    BY <2>3, <2>4 DEF Held, Unread
  <2> QED  BY <2>2, <2>5 DEF Accounted
<1> QED  BY <1>2, <1>3, <1>4 DEF HeldInv

\* The first message of a connection is read.
LEMMA ReadHeld ==
  ASSUME IInv, HeldInv, NEW c \in Conns, Read(c) \/ Handshake(c) PROVE HeldInv'
<1>1. /\ c \in up /\ holding[c] = {} /\ inbox[c] # <<>>
      /\ inbox' = [inbox EXCEPT ![c] = Tail(@)]
      /\ UNCHANGED <<mode, up, origin, shipper, place>>
  BY DEF Read, Handshake, Reads, shipperVars, queue, sent
<1>2. /\ inbox'[c] = Tail(inbox[c]) /\ \A d \in Conns \ {c} : inbox'[d] = inbox[d]
      /\ inbox[c] \in Seq(Messages) /\ OnceEach(inbox[c])
  BY <1>1 DEF IInv, ServerTypeOK, HeldInv, HoldsOwn
<1> DEFINE e == Head(inbox[c]).event
<1>3. /\ EventsIn(inbox[c]) = EventsIn(inbox'[c]) \cup ({e} \ {0})
      /\ e \notin EventsIn(inbox'[c]) /\ OnceEach(inbox'[c])
  BY <1>1, <1>2, FirstRead
<1>4. Held(c) = EventsIn(inbox'[c]) \cup ({e} \ {0})
  BY <1>1, <1>3, UnreadIs DEF Held
<1>5. Held(c)' = EventsIn(inbox'[c]) \cup holding'[c]
  BY DEF Held, Unread, EventsIn
<1>6. holding \in [Conns -> SUBSET Events] /\ fate \in [Events -> Fates]
  BY DEF HeldInv
<1>7. CASE Handshake(c)
  <2>1. /\ UNCHANGED <<holding, fate>> /\ Head(inbox[c]).type = "NEGO_REQ"
        /\ \A d \in Conns \ {c} : conn_ctx'[d] = conn_ctx[d]
    BY <1>7 DEF Handshake, Reads, IInv, ServerTypeOK
  <2>2. e = 0
    <3>1. Head(inbox[c]) \in Messages
      BY <1>1, <1>2, ReadFirst
    <3> QED  BY <2>1, <3>1 DEF Messages, Nego, Noti
  <2> HIDE DEF e
  <2>3. Held(c)' = Held(c)
    BY <1>1, <1>4, <1>5, <2>1, <2>2
  <2> QED  BY <1>1, <1>2, <1>3, <1>6, <2>1, <2>3, OneHeld
<1>8. CASE Read(c)
  <2>1. /\ UNCHANGED conn_ctx /\ Head(inbox[c]).type = "NOTI_REQ"
        /\ \/ fate' = [fate EXCEPT ![e] = "pathless"] /\ UNCHANGED holding
           \/ holding' = [holding EXCEPT ![c] = {e}] /\ UNCHANGED fate
    BY <1>8 DEF Read, Reads
  <2>2. e \in Events /\ e # 0
    <3>1. Head(inbox[c]) \in Messages
      BY <1>1, <1>2, ReadFirst
    <3>2. e \in Events
      BY <2>1, <3>1, NotificationHasEvent
    <3> QED  BY <3>2, ConstantsAssumption DEF ConstantsAssumption, Events
  <2> HIDE DEF e
  <2>3. Held(c) = EventsIn(inbox'[c]) \cup {e}
    BY <1>4, <2>2
  <2>4. CASE fate' = [fate EXCEPT ![e] = "pathless"] /\ UNCHANGED holding
    <3>1. fate' \in [Events -> Fates] /\ fate'[e] # "none"
          /\ \A f \in Events \ {e} : fate'[f] = fate[f]
      BY <1>6, <2>2, <2>4 DEF Fates
    <3>2. Held(c)' = EventsIn(inbox'[c]) /\ holding'[c] = {}
      BY <1>1, <1>5, <2>4
    <3>3. /\ Held(c)' \subseteq Held(c) /\ e \notin Held(c)'
          /\ \A f \in Held(c) : f # e => f \in Held(c)'
      BY <1>3, <2>3, <3>2
    <3> QED  BY <1>1, <1>2, <1>3, <1>6, <2>1, <2>4, <3>1, <3>2, <3>3, <2>3, OneHeld
  <2>5. CASE holding' = [holding EXCEPT ![c] = {e}] /\ UNCHANGED fate
    <3>1. /\ holding' \in [Conns -> SUBSET Events] /\ holding'[c] = {e}
          /\ \A d \in Conns \ {c} : holding'[d] = holding[d]
      BY <1>6, <2>2, <2>5
    <3>2. Held(c)' = Held(c)
      BY <1>5, <2>3, <3>1
    <3> QED  BY <1>1, <1>2, <1>3, <1>6, <2>1, <2>2, <2>5, <3>1, <3>2, OneHeld
  <2> QED  BY <2>1, <2>4, <2>5
<1> QED  BY <1>7, <1>8


\* The delay is over: the event goes to the queue, or is counted as a failure.
LEMMA SendEventHeld ==
  ASSUME IInv, HeldInv, ShipInv, NEW c \in Conns, SendEvent(c) PROVE HeldInv' /\ ShipInv'
<1>1. PICK e \in holding[c] : SendToSqs(c, e)
  BY DEF SendEvent
<1>2. /\ holding' = [holding EXCEPT ![c] = {}]
      /\ UNCHANGED <<mode, up, conn_ctx, inbox, origin>>
  BY DEF SendEvent, ontap, sent
<1>3. /\ holding[c] = {e} /\ e \in Events /\ HoldsOwn(c)
      /\ holding \in [Conns -> SUBSET Events] /\ fate \in [Events -> Fates]
  BY <1>1 DEF HeldInv, HoldsOwn
<1>4. c \in up /\ e \notin EventsIn(inbox[c]) /\ OnceEach(inbox[c])
  BY <1>3 DEF HoldsOwn
<1>5. /\ holding' \in [Conns -> SUBSET Events] /\ holding'[c] = {}
      /\ \A d \in Conns \ {c} : holding'[d] = holding[d]
  BY <1>2, <1>3
<1>6. Held(c) = EventsIn(inbox[c]) \cup {e} /\ Held(c)' = EventsIn(inbox[c])
  <2>1. Unread(c)' = EventsIn(inbox[c])
    BY <1>2 DEF Unread, EventsIn
  <2> QED  BY <1>3, <1>5, <2>1, UnreadIs DEF Held
<1>7. faults' \in 0..MaxFaults
  BY <1>1, FaultFits DEF SendToSqs, ShipInv, ShipTypes
<1>8. CASE Put(e, TRUE) /\ UNCHANGED fate
  <2>1. place' = [place EXCEPT ![e] = "waiting"] /\ UNCHANGED shipper
    BY <1>8 DEF Put
  <2>2. place'[e] # "none" /\ \A f \in Events \ {e} : place'[f] = place[f]
    BY <1>3, <2>1 DEF ShipInv, ShipTypes
  <2>3. HeldInv'
    BY <1>2, <1>3, <1>4, <1>5, <1>6, <1>8, <2>1, <2>2, OneHeld
  <2> QED  BY <1>3, <1>7, <1>8, <2>3, PutShip
<1>9. CASE Fault /\ fate' = [fate EXCEPT ![e] = "failed"]
           /\ UNCHANGED <<shipper, garbage, queue, busVars, run, histories>>
  <2>1. /\ fate' \in [Events -> Fates] /\ fate'[e] # "none"
        /\ \A f \in Events \ {e} : fate'[f] = fate[f]
    BY <1>3, <1>9 DEF Fates
  <2>2. UNCHANGED <<shipper, place>>
    BY <1>9 DEF queue
  <2>3. HeldInv'
    BY <1>2, <1>3, <1>4, <1>5, <1>6, <2>1, <2>2, OneHeld
  <2> QED  BY <1>7, <1>9, <2>3, StillShip
<1> QED  BY <1>1, <1>8, <1>9 DEF SendToSqs

\* The log line is written, or the thread closes its connection.
LEMMA WriteToLogHeld ==
  ASSUME IInv, HeldInv, ShipInv, NEW c \in Conns, WriteToLog(c) PROVE HeldInv' /\ ShipInv'
<1>1. UNCHANGED <<shipper, garbage, queue, busVars, run, histories, place>> /\ holding[c] # {}
  BY DEF WriteToLog, queue
<1>2. faults' \in 0..MaxFaults
  BY FaultFits DEF WriteToLog, ShipInv, ShipTypes
<1>3. ASSUME Fault /\ End({c}, Held(c)) PROVE HeldInv'
  BY <1>1, <1>3, EndHeld
<1>4. ASSUME fate' = [e \in Events |-> IF e \in holding[c] THEN "logged" ELSE fate[e]],
             holding' = [holding EXCEPT ![c] = {}],
             UNCHANGED <<mode, up, conn_ctx, ontap>>
      PROVE  HeldInv'
  <2>1. /\ HoldsOwn(c) /\ holding \in [Conns -> SUBSET Events] /\ fate \in [Events -> Fates]
    BY DEF HeldInv
  <2>2. /\ c \in up /\ OnceEach(inbox[c])
        /\ \A e \in holding[c] : e \in Events /\ e \notin EventsIn(inbox[c])
    BY <1>1, <2>1 DEF HoldsOwn
  <2>3. /\ holding' \in [Conns -> SUBSET Events] /\ holding'[c] = {}
        /\ \A d \in Conns \ {c} : holding'[d] = holding[d]
    BY <1>4, <2>1
  <2>4. UNCHANGED <<mode, up, conn_ctx, inbox, origin>>
    BY <1>4 DEF ontap, sent
  <2>5. Held(c) = EventsIn(inbox[c]) \cup holding[c] /\ Held(c)' = EventsIn(inbox[c])
    <3>1. Unread(c)' = EventsIn(inbox[c])
      BY <2>4 DEF Unread, EventsIn
    <3> QED  BY <2>3, <3>1, UnreadIs DEF Held
  <2>6. /\ fate' \in [Events -> Fates] /\ \A e \in holding[c] : fate'[e] # "none"
        /\ \A e \in Events : e \notin holding[c] => fate'[e] = fate[e]
    BY <1>4, <2>1, <2>2 DEF Fates
  <2> QED  BY <1>1, <2>2, <2>3, <2>4, <2>5, <2>6, OneHeld
<1>5. HeldInv'
  BY <1>3, <1>4 DEF WriteToLog
<1> QED  BY <1>1, <1>2, <1>5, StillShip

\* Connections that close, time out or end with the process.
LEMMA ClosedHeld ==
  ASSUME IInv, HeldInv, ShipInv,
         Exit \/ \E c \in Conns : Close(c) \/ TimeOut(c)
  PROVE  HeldInv' /\ ShipInv'
<1>1. CASE Exit
  <2>1. /\ End(up, UNION {Held(c) : c \in up}) /\ Fault /\ UNCHANGED <<place, shipper>>
        /\ UNCHANGED <<shipper, garbage, queue, busVars, run, histories>>
    BY <1>1 DEF Exit, queue
  <2>2. up \subseteq Conns
    BY DEF HeldInv
  <2>3. HeldInv'
    BY <2>1, <2>2, EndHeld
  <2>4. faults' \in 0..MaxFaults
    BY <2>1, FaultFits DEF ShipInv, ShipTypes
  <2> QED  BY <2>1, <2>3, <2>4, StillShip
<1>2. ASSUME NEW c \in Conns, Close(c) PROVE HeldInv' /\ ShipInv'
  <2>1. /\ End({c}, Unread(c)) /\ Fault /\ UNCHANGED <<place, shipper>> /\ holding[c] = {}
        /\ UNCHANGED <<shipper, garbage, queue, busVars, run, histories>>
    BY <1>2 DEF Close, queue
  <2>2. Held(c) = Unread(c)
    BY <2>1 DEF Held
  <2>3. HeldInv'
    BY <2>1, <2>2, EndHeld
  <2>4. faults' \in 0..MaxFaults
    BY <2>1, FaultFits DEF ShipInv, ShipTypes
  <2> QED  BY <2>1, <2>3, <2>4, StillShip
<1>3. ASSUME NEW c \in Conns, TimeOut(c) PROVE HeldInv' /\ ShipInv'
  <2>1. /\ End({c}, {}) /\ UNCHANGED shipperVars /\ UNCHANGED <<place, shipper>>
        /\ holding[c] = {} /\ inbox[c] = <<>>
        /\ UNCHANGED <<shipper, garbage, queue, busVars, run, histories>>
        /\ UNCHANGED faults
    BY <1>3 DEF TimeOut, shipperVars, queue
  <2>2. Held(c) = {}
    BY <2>1 DEF Held, Unread
  <2>3. HeldInv'
    BY <2>1, <2>2, EndHeld
  <2>4. faults' \in 0..MaxFaults
    BY <2>1 DEF ShipInv, ShipTypes
  <2> QED  BY <2>1, <2>3, <2>4, StillShip
<1> QED  BY <1>1, <1>2, <1>3

\* Nothing of the server changes and no event a connection holds starts.
LEMMA StillHeld ==
  ASSUME IInv, HeldInv, ShipInv, UNCHANGED <<server, shipper>>, NoneForgotten,
         \A c \in Conns : \A e \in Held(c) : place'[e] = place[e]
  PROVE  HeldInv'
<1>1. UNCHANGED <<mode, up, conn_ctx, inbox, origin, holding, fate, shipper>>
  BY DEF server, ontap, sent
<1>2. \A c \in Conns : HoldsOwn(c)' /\ Held(c)' = Held(c)
  <2> SUFFICES ASSUME NEW c \in Conns PROVE HoldsOwn(c)' /\ Held(c)' = Held(c)
    OBVIOUS
  <2>1. HoldsOwn(c)
    BY DEF HeldInv
  <2> QED  BY <1>1, <2>1, HoldsKept
<1>3. \A e \in Events : Accounted(e)'
  BY <1>1, <1>2 DEF HeldInv, Accounted, NoneForgotten
<1> QED  BY <1>1, <1>2, <1>3 DEF HeldInv

\* What is no event is put into the queue.
LEMMA ForeignHeld ==
  ASSUME IInv, HeldInv, ShipInv, Foreign PROVE HeldInv' /\ ShipInv'
<1> DEFINE e == Min(Unused)
<1>1. e \in Unused
  <2>1. Unused \subseteq Nat /\ Unused # {}
    BY ConstantsAssumption DEF ConstantsAssumption, Events, Unused, Foreign
  <2> QED  BY <2>1, MinIn
<1>2. Put(e, FALSE) /\ UNCHANGED <<server, faults>>
  BY DEF Foreign
<1> HIDE DEF e
<1>3. e \in Events /\ origin[e] = NoSvm
  BY <1>1 DEF Unused
<1>4. ShipInv' /\ NoneForgotten
  BY <1>2, <1>3, PutShip DEF ShipInv, ShipTypes
<1>5. place' = [place EXCEPT ![e] = "waiting"] /\ UNCHANGED shipper
  BY <1>2 DEF Put
<1>6. \A c \in Conns : \A f \in Held(c) : place'[f] = place[f]
  BY <1>3, <1>5, HeldOwn, SvmAssumption DEF SvmAssumption, ShipInv, ShipTypes
<1> QED  BY <1>2, <1>4, <1>5, <1>6, StillHeld

\* A step of a handler: it starts no event of a connection.
LEMMA HandlerHeld ==
  ASSUME IInv, HeldInv, ShipInv, ShippersNext, UNCHANGED server PROVE HeldInv' /\ ShipInv'
<1>1. ShipInv' /\ NoneForgotten /\ (shipper.via \in {"queue", "bus"} => NoneStarts)
  BY NextShip
<1>2. UNCHANGED shipper
  BY DEF ShippersNext, Receive, Webhook, Send, SendRaises, PutEvents, BridgeRaises,
         ReturnFailures, ReturnStatus, NoCredential, Crash, Invoke, Emit
<1>3. ASSUME NEW c \in Conns, NEW e \in Held(c) PROVE place'[e] = place[e]
  <2>1. e \in Events /\ origin[e] = c /\ c # NoSvm /\ place[e] = "none"
    BY <1>3, HeldOwn, SvmAssumption DEF SvmAssumption, HeldInv, HoldsOwn
  <2>2. shipper.via \in {"queue", "bus"}
    BY <2>1 DEF HeldInv, Accounted
  <2> QED  BY <1>1, <2>1, <2>2 DEF NoneStarts
<1> QED  BY <1>1, <1>2, <1>3, StillHeld

\* Every step keeps both invariants.
LEMMA NextHeld == IInv /\ HeldInv /\ ShipInv /\ [Next]_vars => HeldInv' /\ ShipInv'
<1> SUFFICES ASSUME IInv, HeldInv, ShipInv, [Next]_vars PROVE HeldInv' /\ ShipInv'
  OBVIOUS
<1>1. ASSUME NEW c \in Conns, Notify(c) \/ Handshake(c) \/ Read(c) PROVE HeldInv' /\ ShipInv'
  <2>1. UNCHANGED shipperVars
    BY <1>1 DEF Notify, Handshake, Read
  <2>2. UNCHANGED <<shipper, garbage, queue, busVars, run, histories>> /\ faults' \in 0..MaxFaults
    BY <2>1 DEF shipperVars, ShipInv, ShipTypes
  <2> QED  BY <1>1, <2>2, NotifyHeld, ReadHeld, StillShip
<1>2. CASE UNCHANGED vars
  <2>1. UNCHANGED <<shipper, garbage, queue, busVars, run, histories, server, place>>
        /\ faults' \in 0..MaxFaults
    BY <1>2 DEF vars, shipperVars, queue, ShipInv, ShipTypes
  <2>2. NoneForgotten
    BY <2>1 DEF NoneForgotten
  <2> QED  BY <2>1, <2>2, StillShip, StillHeld
<1> QED  BY <1>1, <1>2, SendEventHeld, WriteToLogHeld, ClosedHeld, ForeignHeld, HandlerHeld DEF Next

\* Both hold initially.
LEMMA InitHeld == Init => HeldInv /\ ShipInv
<1> SUFFICES ASSUME Init PROVE HeldInv /\ ShipInv
  OBVIOUS
<1>1. \A c \in Conns : HoldsOwn(c)
  BY DEF Init, HoldsOwn, Held, Unread, OnceEach
<1>2. \A e \in Events : Accounted(e)
  BY SvmAssumption DEF SvmAssumption, Init, Accounted
<1> QED  BY <1>1, <1>2, ShipInit DEF Init, HeldInv, Fates

-----------------------------------------------------------------------------
(* The theorems.                                                           *)

\* An event carries the name of the SVM its connection belongs to, unless nobody gave
\* one: then it carries SVM_NAME.  However the handshakes and notifications of the
\* connections interleave, and whatever connections and processes end.
THEOREM SvmsKeptApart == Spec => []EventsCarryTheirSvm
<1>1. IInv => EventsCarryTheirSvm
  BY DEF IInv, OwnName, EventsCarryTheirSvm
<1> QED  BY <1>1, InitInv, NextInv, PTL DEF Spec

\* Where notifications and events are holds of every reachable state.
LEMMA Accounts == Spec => [](IInv /\ HeldInv /\ ShipInv)
  BY InitInv, InitHeld, NextInv, NextHeld, PTL DEF Spec

\* Everything has its type; a message taken from the queue is with an
\* invocation, none comes back after its last reception, only parsed items are
\* sent, and a connection holds only what came over it and is not on the queue.
THEOREM PathTypeCorrect == Spec => []TypeOK
<1>1. IInv /\ HeldInv /\ ShipInv => TypeOK
  <2> SUFFICES ASSUME IInv, HeldInv, ShipInv PROVE TypeOK
    OBVIOUS
  <2>1. \A c \in Conns : /\ c \notin up => Held(c) = {} /\ conn_ctx[c] = NoSvm
                         /\ Cardinality(holding[c]) <= 1
                         /\ \A e \in Held(c) :
                              origin[e] = c /\ place[e] = "none" /\ fate[e] = "none"
    <3> SUFFICES ASSUME NEW c \in Conns
                 PROVE  /\ c \notin up => Held(c) = {} /\ conn_ctx[c] = NoSvm
                        /\ Cardinality(holding[c]) <= 1
                        /\ \A e \in Held(c) :
                             origin[e] = c /\ place[e] = "none" /\ fate[e] = "none"
      OBVIOUS
    <3>1. HoldsOwn(c)
      BY DEF HeldInv
    <3>2. Cardinality(holding[c]) \in {0, 1}
      BY <3>1, FS_EmptySet, FS_Singleton DEF HoldsOwn
    <3>3. c \notin up => Held(c) = {} /\ conn_ctx[c] = NoSvm
      BY <3>1 DEF HoldsOwn, Held, Unread
    <3>4. \A e \in Held(c) : origin[e] = c /\ place[e] = "none" /\ fate[e] = "none"
      BY <3>1, HeldOwn DEF HoldsOwn
    <3> QED  BY <3>2, <3>3, <3>4
  <2>2. \A c \in Conns : \A n \in DOMAIN inbox[c] : inbox[c][n] \in Messages
    BY DEF IInv, ServerTypeOK
  <2>3. ShippersTypeOK
    BY ShipInvTypes
  <2>4. /\ mode \in {"realtime", "log"} /\ up \subseteq Conns
        /\ holding \in [Conns -> SUBSET Events] /\ fate \in [Events -> Fates]
    BY DEF HeldInv
  <2>5. /\ conn_ctx \in [Conns -> Svms \cup {NoSvm}]
        /\ introduced \subseteq Conns /\ anonymous \subseteq Events
        /\ origin \in [Events -> Conns \cup {NoSvm}]
        /\ svm_name \in [Events -> Svms \cup {NoSvm, DefaultSvmName}]
    BY DEF IInv, ServerTypeOK
  <2> QED  BY <2>1, <2>2, <2>3, <2>4, <2>5 DEF TypeOK
<1> QED  BY <1>1, Accounts, PTL

\* Every notification and every event behind the queue is somewhere or ended
\* where the code says it ends, for each of the 27 handlers, whatever fails,
\* crashes or comes back.
THEOREM NothingIsLost == Spec => []NothingVanishes
<1>1. IInv /\ HeldInv /\ ShipInv => NothingVanishes
  <2> SUFFICES ASSUME IInv, HeldInv, ShipInv PROVE NothingVanishes
    OBVIOUS
  <2>1. \A e \in Events : place[e] # "none" => InHand(e) \/ Ended(e)
    BY ShipInvKeeps
  <2>2. ASSUME NEW e \in Events, origin[e] # NoSvm
        PROVE  \/ e \in Held(origin[e]) \/ fate[e] # "none"
               \/ InHand(e) \/ Ended(e)
    <3>1. origin[e] \in Conns
      BY <2>2 DEF IInv, ServerTypeOK
    <3> QED  BY <2>1, <3>1 DEF HeldInv, Accounted
  <2> QED  BY <2>1, <2>2 DEF NothingVanishes
<1> QED  BY <1>1, Accounts, PTL
=============================================================================
