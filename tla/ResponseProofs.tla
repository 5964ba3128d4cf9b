---------------------------- MODULE ResponseProofs ----------------------------
(***************************************************************************)
(* The automated response, with and without a domain, for every security   *)
(* style and any number of overlapping invocations, sessions and failures: *)
(* the status of a response claims no more than was done, a user reported  *)
(* as contained has no session left, and the cooldown bounds the           *)
(* snapshots (Containment).                                                *)
(*                                                                         *)
(* The lists of deny rules implement the list of blocks, an unblock that   *)
(* reports success is complete, and the site's own entry stays last, for   *)
(* any number of callers, subjects, rules and failures and whatever calls  *)
(* overlap; an unblock that another call overtook is excepted (DenyRules). *)
(***************************************************************************)
EXTENDS Containment, DenyRules, FiniteSetTheorems, SequenceTheorems, TLAPS

-----------------------------------------------------------------------------
(* Plans.                                                                  *)

\* What is left of a plan, from the current step on.
Plans(kind) ==
  CASE kind = "smb" ->
         {<<"snapshot", "block_user", "list_sessions">>,
          <<"create_snapshot", "block_user", "list_sessions">>,
          <<"block_user", "list_sessions">>, <<"list_sessions">>, <<"disconnect">>}
    [] kind = "multiprotocol" ->
         {<<"snapshot", "block_user", "block_ip", "list_sessions">>,
          <<"create_snapshot", "block_user", "block_ip", "list_sessions">>,
          <<"block_user", "block_ip", "list_sessions">>, <<"block_ip", "list_sessions">>,
          <<"list_sessions">>, <<"disconnect">>}
    [] kind = "nfs" ->
         {<<"snapshot", "block_ip">>, <<"create_snapshot", "block_ip">>, <<"block_ip">>}
    [] kind = "remediation" -> {<<"snapshot">>, <<"create_snapshot">>}

\* The step after this one.
Follow(kind, step) ==
  CASE step \in {"snapshot", "create_snapshot"} ->
         IF kind = "nfs" THEN "block_ip" ELSE "block_user"
    [] step = "block_user" -> IF kind = "smb" THEN "list_sessions" ELSE "block_ip"
    [] step = "block_ip" -> "list_sessions"

LastSteps(kind) ==
  CASE kind \in {"smb", "multiprotocol"} -> {"list_sessions", "disconnect"}
    [] kind = "nfs" -> {"block_ip"}
    [] kind = "remediation" -> {"snapshot", "create_snapshot"}

\* Sequences of one to four steps.
LEMMA Short ==
  ASSUME NEW S, NEW a \in S, NEW b \in S, NEW d \in S, NEW e \in S
  PROVE  /\ <<a>> \in Seq(S) /\ Len(<<a>>) = 1 /\ Head(<<a>>) = a /\ Tail(<<a>>) = << >>
         /\ <<a, b>> \in Seq(S) /\ Len(<<a, b>>) = 2 /\ Head(<<a, b>>) = a /\ Tail(<<a, b>>) = <<b>>
         /\ <<a, b, d>> \in Seq(S) /\ Len(<<a, b, d>>) = 3 /\ Head(<<a, b, d>>) = a
         /\ Tail(<<a, b, d>>) = <<b, d>>
         /\ <<a, b, d, e>> \in Seq(S) /\ Len(<<a, b, d, e>>) = 4 /\ Head(<<a, b, d, e>>) = a
         /\ Tail(<<a, b, d, e>>) = <<b, d, e>>
  OBVIOUS

\* A step put before another, and before two and three.
LEMMA PrependTwo ==
  ASSUME NEW S, NEW a \in S, NEW b \in S
  PROVE  <<a>> \o <<b>> = <<a, b>>
<1> DEFINE s == <<a>> \o <<b>>
<1> DEFINE t == <<a, b>>
<1>1. s \in Seq(S) /\ t \in Seq(S) /\ Len(s) = 2 /\ Len(t) = 2
  OBVIOUS
<1>2. s[1] = t[1] /\ s[2] = t[2]
  OBVIOUS
<1> HIDE DEF s, t
<1>3. \A n \in 1..Len(s) : s[n] = t[n]
  BY <1>1, <1>2
<1>4. s = t
  BY <1>1, <1>3, SeqEqual
<1> QED  BY <1>4 DEF s, t

LEMMA PrependThree ==
  ASSUME NEW S, NEW a \in S, NEW b \in S, NEW d \in S
  PROVE  <<a>> \o <<b, d>> = <<a, b, d>>
<1> DEFINE s == <<a>> \o <<b, d>>
<1> DEFINE t == <<a, b, d>>
<1>1. s \in Seq(S) /\ t \in Seq(S) /\ Len(s) = 3 /\ Len(t) = 3
  OBVIOUS
<1>2. s[1] = t[1] /\ s[2] = t[2] /\ s[3] = t[3]
  OBVIOUS
<1> HIDE DEF s, t
<1>3. \A n \in 1..Len(s) : s[n] = t[n]
  BY <1>1, <1>2
<1>4. s = t
  BY <1>1, <1>3, SeqEqual
<1> QED  BY <1>4 DEF s, t

LEMMA PrependFour ==
  ASSUME NEW S, NEW a \in S, NEW b \in S, NEW d \in S, NEW e \in S
  PROVE  <<a>> \o <<b, d, e>> = <<a, b, d, e>>
<1> DEFINE s == <<a>> \o <<b, d, e>>
<1> DEFINE t == <<a, b, d, e>>
<1>1. s \in Seq(S) /\ t \in Seq(S) /\ Len(s) = 4 /\ Len(t) = 4
  OBVIOUS
<1>2. s[1] = t[1] /\ s[2] = t[2] /\ s[3] = t[3] /\ s[4] = t[4]
  OBVIOUS
<1> HIDE DEF s, t
<1>3. \A n \in 1..Len(s) : s[n] = t[n]
  BY <1>1, <1>2
<1>4. s = t
  BY <1>1, <1>3, SeqEqual
<1> QED  BY <1>4 DEF s, t

EarlySteps == {"snapshot", "create_snapshot", "block_user", "block_ip"}

\* What follows the current step is a plan too.
PlanGoesOn(kind, plan) ==
  /\ plan \in Seq(StepNames) /\ plan # << >> /\ Head(plan) \in StepNames
  /\ Len(plan) = 1 <=> Head(plan) \in LastSteps(kind)
  /\ Len(plan) # 1 => /\ Tail(plan) \in Plans(kind) /\ Tail(plan) # << >>
                      /\ Head(Tail(plan)) = Follow(kind, Head(plan))
                      /\ Head(plan) \in EarlySteps
  /\ Head(plan) = "snapshot" =>
       /\ <<"create_snapshot">> \o Tail(plan) \in Plans(kind)
       /\ Head(<<"create_snapshot">> \o Tail(plan)) = "create_snapshot"
       /\ <<"create_snapshot">> \o Tail(plan) # << >>
  /\ Head(plan) = "list_sessions" => <<"disconnect">> \o Tail(plan) = <<"disconnect">>

LEMMA OneLeft ==
  ASSUME NEW kind, NEW a \in StepNames, a \in LastSteps(kind),
         a = "snapshot" => <<"create_snapshot">> \in Plans(kind)
  PROVE  PlanGoesOn(kind, <<a>>)
<1>1. "create_snapshot" \in StepNames /\ "disconnect" \in StepNames
  BY DEF StepNames
<1>2. /\ <<a>> \in Seq(StepNames) /\ Len(<<a>>) = 1 /\ Head(<<a>>) = a /\ Tail(<<a>>) = << >>
      /\ Head(<<"create_snapshot">>) = "create_snapshot" /\ Len(<<"create_snapshot">>) = 1
  BY <1>1, Short
<1>3. /\ <<"create_snapshot">> \o << >> = <<"create_snapshot">>
      /\ <<"disconnect">> \o << >> = <<"disconnect">>
  OBVIOUS
<1> QED  BY <1>2, <1>3 DEF PlanGoesOn

LEMMA TwoLeft ==
  ASSUME NEW kind, NEW a \in StepNames, NEW b \in StepNames, a \notin LastSteps(kind),
         a \in EarlySteps, <<b>> \in Plans(kind), b = Follow(kind, a),
         a = "snapshot" => <<"create_snapshot", b>> \in Plans(kind)
  PROVE  PlanGoesOn(kind, <<a, b>>)
<1>1. "create_snapshot" \in StepNames
  BY DEF StepNames
<1>2. /\ <<a, b>> \in Seq(StepNames) /\ Len(<<a, b>>) = 2 /\ Head(<<a, b>>) = a
      /\ Tail(<<a, b>>) = <<b>> /\ Head(<<b>>) = b /\ Len(<<b>>) = 1
      /\ Head(<<"create_snapshot", b>>) = "create_snapshot" /\ Len(<<"create_snapshot", b>>) = 2
  BY <1>1, Short
<1>3. <<"create_snapshot">> \o <<b>> = <<"create_snapshot", b>>
  BY <1>1, PrependTwo
<1> DEFINE plan == <<a, b>>
<1> DEFINE rest == <<b>>
<1> DEFINE other == <<"create_snapshot", b>>
<1>4. /\ plan # << >> /\ rest # << >> /\ other # << >>
      /\ plan \in Seq(StepNames) /\ Head(plan) = a /\ Tail(plan) = rest /\ Len(plan) # 1
      /\ Head(rest) = b /\ Head(other) = "create_snapshot"
      /\ <<"create_snapshot">> \o rest = other /\ rest \in Plans(kind)
      /\ a = "snapshot" => other \in Plans(kind)
  BY <1>2, <1>3
<1> HIDE DEF plan, rest, other
<1>5. PlanGoesOn(kind, plan)
  BY <1>4 DEF PlanGoesOn, EarlySteps
<1> QED  BY <1>5 DEF plan

LEMMA ThreeLeft ==
  ASSUME NEW kind, NEW a \in StepNames, NEW b \in StepNames, NEW d \in StepNames,
         a \notin LastSteps(kind), a \in EarlySteps, <<b, d>> \in Plans(kind),
         b = Follow(kind, a), a = "snapshot" => <<"create_snapshot", b, d>> \in Plans(kind)
  PROVE  PlanGoesOn(kind, <<a, b, d>>)
<1>1. "create_snapshot" \in StepNames
  BY DEF StepNames
<1>2. /\ <<a, b, d>> \in Seq(StepNames) /\ Len(<<a, b, d>>) = 3 /\ Head(<<a, b, d>>) = a
      /\ Tail(<<a, b, d>>) = <<b, d>> /\ Head(<<b, d>>) = b /\ Len(<<b, d>>) = 2
      /\ Head(<<"create_snapshot", b, d>>) = "create_snapshot"
      /\ Len(<<"create_snapshot", b, d>>) = 3
  BY <1>1, Short
<1>3. <<"create_snapshot">> \o <<b, d>> = <<"create_snapshot", b, d>>
  BY <1>1, PrependThree
<1> DEFINE plan == <<a, b, d>>
<1> DEFINE rest == <<b, d>>
<1> DEFINE other == <<"create_snapshot", b, d>>
<1>4. /\ plan # << >> /\ rest # << >> /\ other # << >>
      /\ plan \in Seq(StepNames) /\ Head(plan) = a /\ Tail(plan) = rest /\ Len(plan) # 1
      /\ Head(rest) = b /\ Head(other) = "create_snapshot"
      /\ <<"create_snapshot">> \o rest = other /\ rest \in Plans(kind)
      /\ a = "snapshot" => other \in Plans(kind)
  BY <1>2, <1>3
<1> HIDE DEF plan, rest, other
<1>5. PlanGoesOn(kind, plan)
  BY <1>4 DEF PlanGoesOn, EarlySteps
<1> QED  BY <1>5 DEF plan

LEMMA FourLeft ==
  ASSUME NEW kind, NEW a \in StepNames, NEW b \in StepNames, NEW d \in StepNames,
         NEW e \in StepNames,
         a \notin LastSteps(kind), a \in EarlySteps, <<b, d, e>> \in Plans(kind),
         b = Follow(kind, a), a = "snapshot" => <<"create_snapshot", b, d, e>> \in Plans(kind)
  PROVE  PlanGoesOn(kind, <<a, b, d, e>>)
<1>1. "create_snapshot" \in StepNames
  BY DEF StepNames
<1>2. /\ <<a, b, d, e>> \in Seq(StepNames) /\ Len(<<a, b, d, e>>) = 4
      /\ Head(<<a, b, d, e>>) = a
      /\ Tail(<<a, b, d, e>>) = <<b, d, e>> /\ Head(<<b, d, e>>) = b /\ Len(<<b, d, e>>) = 3
      /\ Head(<<"create_snapshot", b, d, e>>) = "create_snapshot"
      /\ Len(<<"create_snapshot", b, d, e>>) = 4
  BY <1>1, Short
<1>3. <<"create_snapshot">> \o <<b, d, e>> = <<"create_snapshot", b, d, e>>
  BY <1>1, PrependFour
<1> DEFINE plan == <<a, b, d, e>>
<1> DEFINE rest == <<b, d, e>>
<1> DEFINE other == <<"create_snapshot", b, d, e>>
<1>4. /\ plan # << >> /\ rest # << >> /\ other # << >>
      /\ plan \in Seq(StepNames) /\ Head(plan) = a /\ Tail(plan) = rest /\ Len(plan) # 1
      /\ Head(rest) = b /\ Head(other) = "create_snapshot"
      /\ <<"create_snapshot">> \o rest = other /\ rest \in Plans(kind)
      /\ a = "snapshot" => other \in Plans(kind)
  BY <1>2, <1>3
<1> HIDE DEF plan, rest, other
<1>5. PlanGoesOn(kind, plan)
  BY <1>4 DEF PlanGoesOn, EarlySteps
<1> QED  BY <1>5 DEF plan

LEMMA PlanFacts ==
  ASSUME NEW kind \in Kinds, NEW plan \in Plans(kind) PROVE PlanGoesOn(kind, plan)
<1>1. CASE kind = "smb"
  <2>1. Plans(kind) = {<<"snapshot", "block_user", "list_sessions">>,
          <<"create_snapshot", "block_user", "list_sessions">>,
          <<"block_user", "list_sessions">>, <<"list_sessions">>, <<"disconnect">>}
    BY <1>1 DEF Plans
  <2>2. PlanGoesOn(kind, <<"list_sessions">>) /\ PlanGoesOn(kind, <<"disconnect">>)
    BY <1>1, OneLeft DEF StepNames, LastSteps
  <2>3. PlanGoesOn(kind, <<"block_user", "list_sessions">>)
    BY <1>1, <2>1, TwoLeft DEF StepNames, LastSteps, Follow, EarlySteps
  <2>4. /\ PlanGoesOn(kind, <<"snapshot", "block_user", "list_sessions">>)
        /\ PlanGoesOn(kind, <<"create_snapshot", "block_user", "list_sessions">>)
    BY <1>1, <2>1, ThreeLeft DEF StepNames, LastSteps, Follow, EarlySteps
  <2> QED  BY <2>1, <2>2, <2>3, <2>4
<1>2. CASE kind = "multiprotocol"
  <2>1. Plans(kind) = {<<"snapshot", "block_user", "block_ip", "list_sessions">>,
          <<"create_snapshot", "block_user", "block_ip", "list_sessions">>,
          <<"block_user", "block_ip", "list_sessions">>, <<"block_ip", "list_sessions">>,
          <<"list_sessions">>, <<"disconnect">>}
    BY <1>2 DEF Plans
  <2>2. PlanGoesOn(kind, <<"list_sessions">>) /\ PlanGoesOn(kind, <<"disconnect">>)
    BY <1>2, OneLeft DEF StepNames, LastSteps
  <2>3. PlanGoesOn(kind, <<"block_ip", "list_sessions">>)
    BY <1>2, <2>1, TwoLeft DEF StepNames, LastSteps, Follow, EarlySteps
  <2>4. PlanGoesOn(kind, <<"block_user", "block_ip", "list_sessions">>)
    BY <1>2, <2>1, ThreeLeft DEF StepNames, LastSteps, Follow, EarlySteps
  <2>5. /\ {"snapshot", "create_snapshot", "block_user", "block_ip", "list_sessions"}
             \subseteq StepNames
        /\ {"snapshot", "create_snapshot"} \cap LastSteps(kind) = {}
        /\ Follow(kind, "snapshot") = "block_user"
        /\ Follow(kind, "create_snapshot") = "block_user"
        /\ {"snapshot", "create_snapshot"} \subseteq EarlySteps
    BY <1>2 DEF StepNames, LastSteps, Follow, EarlySteps
  <2>6. /\ <<"create_snapshot", "block_user", "block_ip", "list_sessions">> \in Plans(kind)
        /\ <<"block_user", "block_ip", "list_sessions">> \in Plans(kind)
    BY <2>1
  <2>7. PlanGoesOn(kind, <<"snapshot", "block_user", "block_ip", "list_sessions">>)
    BY <2>5, <2>6, FourLeft
  <2>8. PlanGoesOn(kind, <<"create_snapshot", "block_user", "block_ip", "list_sessions">>)
    BY <2>5, <2>6, FourLeft
  <2> QED  BY <2>1, <2>2, <2>3, <2>4, <2>7, <2>8
<1>3. CASE kind = "nfs"
  <2>1. Plans(kind) =
          {<<"snapshot", "block_ip">>, <<"create_snapshot", "block_ip">>, <<"block_ip">>}
    BY <1>3 DEF Plans
  <2>2. PlanGoesOn(kind, <<"block_ip">>)
    BY <1>3, OneLeft DEF StepNames, LastSteps
  <2>3. /\ PlanGoesOn(kind, <<"snapshot", "block_ip">>)
        /\ PlanGoesOn(kind, <<"create_snapshot", "block_ip">>)
    BY <1>3, <2>1, TwoLeft DEF StepNames, LastSteps, Follow, EarlySteps
  <2> QED  BY <2>1, <2>2, <2>3
<1>4. CASE kind = "remediation"
  <2>1. Plans(kind) = {<<"snapshot">>, <<"create_snapshot">>}
    BY <1>4 DEF Plans
  <2>2. PlanGoesOn(kind, <<"snapshot">>) /\ PlanGoesOn(kind, <<"create_snapshot">>)
    BY <1>4, <2>1, OneLeft DEF StepNames, LastSteps
  <2> QED  BY <2>1, <2>2
<1> QED  BY <1>1, <1>2, <1>3, <1>4 DEF Kinds

\* The plan a response begins with.
FirstPlan(kind, withVolume) ==
  (IF withVolume THEN <<"snapshot">> ELSE << >>) \o Steps(kind)

LEMMA BeginsWell ==
  ASSUME NEW kind \in Kinds, NEW withVolume \in BOOLEAN, kind = "remediation" => withVolume
  PROVE  /\ FirstPlan(kind, withVolume) \in Plans(kind)
         /\ Head(FirstPlan(kind, withVolume)) \in {"snapshot", "block_user", "block_ip"}
         /\ Head(FirstPlan(kind, withVolume)) = "block_ip" => kind = "nfs"
<1> DEFINE plan == FirstPlan(kind, withVolume)
<1>0. /\ withVolume => plan = <<"snapshot">> \o Steps(kind)
      /\ ~withVolume => plan = << >> \o Steps(kind)
      /\ Steps(kind) \in Seq(StepNames)
  <2>1. kind = "smb" => Steps(kind) \in Seq(StepNames)
    BY DEF Steps, StepNames
  <2>2. kind = "nfs" => Steps(kind) \in Seq(StepNames)
    BY DEF Steps, StepNames
  <2>3. kind = "multiprotocol" => Steps(kind) \in Seq(StepNames)
    BY DEF Steps, StepNames
  <2>4. kind = "remediation" => Steps(kind) \in Seq(StepNames)
    BY DEF Steps, StepNames
  <2> QED  BY <2>1, <2>2, <2>3, <2>4 DEF Kinds, FirstPlan
<1>1. ~withVolume => plan = Steps(kind)
  BY <1>0, EmptySeq, ConcatEmptySeq
<1> HIDE DEF plan
<1>7. {"snapshot", "block_user", "block_ip", "list_sessions"} \subseteq StepNames
  BY DEF StepNames
<1>2. CASE kind = "smb"
  <2>1. Steps(kind) = <<"block_user", "list_sessions">>
    BY <1>2 DEF Steps
  <2>2. <<"snapshot">> \o Steps(kind) = <<"snapshot", "block_user", "list_sessions">>
    BY <1>7, <2>1, PrependThree
  <2>3. /\ Head(<<"snapshot", "block_user", "list_sessions">>) = "snapshot"
        /\ Head(<<"block_user", "list_sessions">>) = "block_user"
    BY Short
  <2>4. /\ <<"snapshot", "block_user", "list_sessions">> \in Plans(kind)
        /\ <<"block_user", "list_sessions">> \in Plans(kind)
    BY <1>2 DEF Plans
  <2> QED  BY <1>0, <1>1, <2>1, <2>2, <2>3, <2>4 DEF plan
<1>3. CASE kind = "multiprotocol"
  <2>1. Steps(kind) = <<"block_user", "block_ip", "list_sessions">>
    BY <1>3 DEF Steps
  <2>2. <<"snapshot">> \o Steps(kind) = <<"snapshot", "block_user", "block_ip", "list_sessions">>
    BY <1>7, <2>1, PrependFour
  <2>3. /\ Head(<<"snapshot", "block_user", "block_ip", "list_sessions">>) = "snapshot"
        /\ Head(<<"block_user", "block_ip", "list_sessions">>) = "block_user"
    BY Short
  <2>4. /\ <<"snapshot", "block_user", "block_ip", "list_sessions">> \in Plans(kind)
        /\ <<"block_user", "block_ip", "list_sessions">> \in Plans(kind)
    BY <1>3 DEF Plans
  <2> QED  BY <1>0, <1>1, <2>1, <2>2, <2>3, <2>4 DEF plan
<1>4. CASE kind = "nfs"
  <2>1. Steps(kind) = <<"block_ip">>
    BY <1>4 DEF Steps
  <2>2. <<"snapshot">> \o Steps(kind) = <<"snapshot", "block_ip">>
    BY <1>7, <2>1, PrependTwo
  <2>3. /\ Head(<<"snapshot", "block_ip">>) = "snapshot"
        /\ Head(<<"block_ip">>) = "block_ip"
    BY Short
  <2>4. <<"snapshot", "block_ip">> \in Plans(kind) /\ <<"block_ip">> \in Plans(kind)
    BY <1>4 DEF Plans
  <2> QED  BY <1>0, <1>1, <1>4, <2>1, <2>2, <2>3, <2>4 DEF plan
<1>5. CASE kind = "remediation"
  <2>1. Steps(kind) = << >>
    BY <1>5 DEF Steps
  <2>2. <<"snapshot">> \o Steps(kind) = <<"snapshot">>
    BY <2>1
  <2>3. Head(<<"snapshot">>) = "snapshot"
    BY Short
  <2>4. <<"snapshot">> \in Plans(kind)
    BY <1>5 DEF Plans
  <2> QED  BY <1>0, <1>5, <2>1, <2>2, <2>3, <2>4 DEF plan
<1> QED  BY <1>2, <1>3, <1>4, <1>5 DEF Kinds

-----------------------------------------------------------------------------
(* What an invocation has recorded fits what was done.                     *)

At(r, step) == r.plan # << >> /\ Head(r.plan) = step

Confirmed == {"contained", "contained_pending_denial_verification"}

\* The user, or the address, has had its turn.
UserDone(r) ==
  /\ r.kind \in {"smb", "multiprotocol"}
  /\ At(r, "block_ip") \/ At(r, "list_sessions") \/ At(r, "disconnect")
IpDone(r) ==
  /\ r.kind \in {"nfs", "multiprotocol"}
  /\ At(r, "list_sessions") \/ At(r, "disconnect")

Pending == "contained_pending_denial_verification"

\* The sessions that may be left: those still to be disconnected, those not counted,
\* and where the replacement is no denial those opened after the list.
MayBeLeft(r, deny) ==
  r.todo \cup r.missed \cup (IF Replacement \in deny THEN {} ELSE r.since)

\* Once the replacement is in place and denies, the user opens no session that was not
\* there when they were listed; ONTAP removes no replacement of ours.
Fits(r, deny, maps, blocked, open) ==
  /\ r.plan # << >> => r.plan \in Plans(r.kind) /\ r.status = "none"
  /\ "mapping_created" \in r.outcomes =>
       Replacement \in maps /\ r.kind \in {"smb", "multiprotocol"}
  /\ "blocked" \in r.outcomes => blocked
  /\ UserDone(r) => "mapping_created" \in r.outcomes \/ "failed" \in r.outcomes
  /\ IpDone(r) => "blocked" \in r.outcomes \/ "failed" \in r.outcomes
  /\ r.status = "contained" => blocked
  /\ r.status = Pending => Replacement \in maps /\ (r.kind = "multiprotocol" => blocked)
  /\ (At(r, "disconnect") /\ "mapping_created" \in r.outcomes) \/ r.status = Pending =>
       open \subseteq MayBeLeft(r, deny)
  /\ ~At(r, "disconnect") => r.todo = {}

IInv == TypeOK /\ \A c \in Clients : Fits(client[c], denying, mappings, addressBlocked, sessions)

\* A record stays true while the replacement and the rule stay and no session is opened.
LEMMA StaysTrue ==
  ASSUME NEW r, NEW deny, NEW maps, NEW blocked, NEW open, NEW maps2, NEW blocked2, NEW open2,
         Fits(r, deny, maps, blocked, open),
         Replacement \in maps => Replacement \in maps2, blocked => blocked2,
         open2 \subseteq open
  PROVE  Fits(r, deny, maps2, blocked2, open2)
BY DEF Fits

\* A session that is opened is one that may be left: where the replacement is in place,
\* it is no denial.
LEMMA OpenedFits ==
  ASSUME NEW r \in Client, NEW deny, NEW maps, NEW blocked, NEW open, NEW s \in Sessions,
         Fits(r, deny, maps, blocked, open),
         Replacement \in maps => Replacement \notin deny
  PROVE  LET r2 == IF Listed(r) THEN [r EXCEPT !.since = @ \cup {s}] ELSE r
         IN  /\ r2 \in Client /\ r2.kind = r.kind /\ r2.plan = r.plan
             /\ Fits(r2, deny, maps, blocked, open \cup {s})
<1> DEFINE r2 == IF Listed(r) THEN [r EXCEPT !.since = @ \cup {s}] ELSE r
<1>1. /\ r2 \in Client /\ r2.kind = r.kind /\ r2.plan = r.plan /\ r2.outcomes = r.outcomes
      /\ r2.todo = r.todo /\ r2.missed = r.missed /\ r2.status = r.status
      /\ Listed(r) => r2.since = r.since \cup {s}
  BY DEF Client
<1> HIDE DEF r2
<1>2. /\ At(r2, "disconnect") <=> At(r, "disconnect")
      /\ UserDone(r2) <=> UserDone(r)
      /\ IpDone(r2) <=> IpDone(r)
  BY <1>1 DEF At, UserDone, IpDone
<1>3. ASSUME (At(r2, "disconnect") /\ "mapping_created" \in r2.outcomes) \/ r2.status = Pending
      PROVE  open \cup {s} \subseteq MayBeLeft(r2, deny)
  <2>1. Listed(r) /\ Replacement \in maps /\ open \subseteq MayBeLeft(r, deny)
    BY <1>1, <1>2, <1>3 DEF Fits, Listed, At, Pending
  <2> QED  BY <1>1, <2>1 DEF MayBeLeft
<1>4. Fits(r2, deny, maps, blocked, open \cup {s})
  BY <1>1, <1>2, <1>3 DEF Fits
<1> QED  BY <1>1, <1>4 DEF r2

\* A step is recorded as it went: what it claims is done, and the last one leaves
\* no session that it does not own up to.
LEMMA RecordFits ==
  ASSUME NEW c \in Clients, client[c] \in Client,
         NEW deny, NEW maps, NEW blocked, NEW open, Fits(client[c], deny, maps, blocked, open),
         Running(c), NEW outcome \in Outcomes, NEW missed \in SUBSET Sessions,
         outcome = "mapping_created" => Replacement \in maps /\ Next1(c, "block_user")
                                        /\ client[c].kind \in {"smb", "multiprotocol"},
         outcome = "blocked" => blocked,
         Next1(c, "block_user") => outcome \in {"mapping_created", "failed"},
         Next1(c, "block_ip") => outcome \in {"blocked", "failed"},
         Next1(c, "list_sessions") \/ Next1(c, "disconnect") =>
           ("mapping_created" \in client[c].outcomes /\ outcome # "failed" =>
              open \subseteq missed \cup (IF Replacement \in deny THEN {} ELSE client[c].since))
  PROVE  /\ Recorded(c, outcome, missed) \in Client
         /\ Fits(Recorded(c, outcome, missed), deny, maps, blocked, open)
         /\ ~At(Recorded(c, outcome, missed), "create_snapshot")
         /\ Recorded(c, outcome, missed).kind = client[c].kind
<1> DEFINE r == client[c]
<1> DEFINE step == Head(r.plan)
<1> DEFINE outcomes == r.outcomes \cup {outcome}
<1> DEFINE done == Recorded(c, outcome, missed)
<1>1. /\ r.kind \in Kinds /\ r.plan \in Plans(r.kind) /\ r.status = "none" /\ r.plan # << >>
      /\ r.outcomes \subseteq Outcomes /\ r.todo \subseteq Sessions
  BY DEF Client, Fits, Running
<1>2. PlanGoesOn(r.kind, r.plan)
  BY <1>1, PlanFacts
<1>3. CASE Len(r.plan) = 1
  <2> DEFINE status == IF r.kind = "remediation" THEN "returned" ELSE Status(outcomes)
  <2>1. /\ done = IF status = Pending
                  THEN [Returned(r.kind, status) EXCEPT !.missed = missed, !.since = r.since]
                  ELSE Returned(r.kind, status)
        /\ step \in LastSteps(r.kind)
    BY <1>2, <1>3 DEF Recorded, PlanGoesOn, Pending
  <2>2. status \in Statuses
    BY DEF Statuses, Status
  <2>3. /\ done.plan = << >> /\ done.kind = r.kind /\ done.outcomes = {} /\ done.todo = {}
        /\ done.status = status
        /\ status = Pending => done.missed = missed /\ done.since = r.since
    BY <2>1 DEF Returned
  <2>4. done \in Client
    <3>1. r.since \subseteq Sessions
      BY DEF Client
    <3>2. CASE status = Pending
      <4>1. done = [kind |-> r.kind, plan |-> << >>, outcomes |-> {}, todo |-> {},
                    missed |-> missed, since |-> r.since, status |-> status]
        BY <2>1, <3>2 DEF Returned
      <4> QED  BY <1>1, <2>2, <3>1, <4>1 DEF Client
    <3>3. CASE status # Pending
      BY <1>1, <2>1, <2>2, <3>3 DEF Client, Returned
    <3> QED  BY <3>2, <3>3
  <2>5. status \in Confirmed =>
          /\ "failed" \notin outcomes
          /\ r.kind # "remediation"
          /\ status = Pending <=> "mapping_created" \in outcomes
    BY DEF Status, Confirmed, Pending
  <2>6. /\ r.kind \in {"smb", "multiprotocol"} => step \in {"list_sessions", "disconnect"}
        /\ r.kind = "nfs" => step = "block_ip"
        /\ r.kind = "remediation" => step \in {"snapshot", "create_snapshot"}
    BY <1>1, <2>1 DEF LastSteps, Kinds
  <2>7. r.kind \in {"smb", "multiprotocol"} =>
          "mapping_created" \in outcomes \/ "failed" \in outcomes
    BY <1>1, <2>6 DEF UserDone, At, Fits
  <2>8. r.kind \in {"nfs", "multiprotocol"} => "blocked" \in outcomes \/ "failed" \in outcomes
    BY <1>1, <2>6 DEF IpDone, At, Fits, Next1, Running
  <2>9. /\ "mapping_created" \in outcomes =>
             Replacement \in maps /\ r.kind \in {"smb", "multiprotocol"}
        /\ "blocked" \in outcomes => blocked
    BY DEF Fits
  <2>10. status = Pending => open \subseteq MayBeLeft(done, deny)
    <3>1. ASSUME status = Pending
          PROVE  /\ Next1(c, "list_sessions") \/ Next1(c, "disconnect")
                 /\ "mapping_created" \in r.outcomes /\ outcome # "failed"
      <4>1. "mapping_created" \in outcomes /\ "failed" \notin outcomes
        BY <2>5, <3>1 DEF Confirmed, Pending
      <4>2. step \in {"list_sessions", "disconnect"}
        BY <2>6, <2>9, <4>1
      <4> QED  BY <1>1, <4>1, <4>2 DEF Next1, Running
    <3> QED  BY <2>3, <3>1 DEF MayBeLeft
  <2> HIDE DEF outcomes
  <2>11. /\ status = "contained" => blocked
         /\ status = Pending => Replacement \in maps /\ (r.kind = "multiprotocol" => blocked)
    BY <1>1, <2>5, <2>7, <2>8, <2>9 DEF Confirmed, Pending, Kinds
  <2> HIDE DEF status
  <2>12. Fits(done, deny, maps, blocked, open)
    BY <2>3, <2>10, <2>11 DEF Fits, At, UserDone, IpDone
  <2> QED  BY <2>3, <2>4, <2>12 DEF At
<1>4. CASE Len(r.plan) # 1
  <2>1. done = [r EXCEPT !.plan = Tail(@), !.outcomes = outcomes, !.missed = missed]
    BY <1>4 DEF Recorded
  <2>2. /\ Tail(r.plan) \in Plans(r.kind) /\ Tail(r.plan) # << >>
        /\ Head(Tail(r.plan)) = Follow(r.kind, step) /\ step \notin LastSteps(r.kind)
        /\ step \in StepNames /\ Tail(r.plan) \in Seq(StepNames)
    BY <1>2, <1>4, HeadTailProperties DEF PlanGoesOn
  <2>3. /\ done.kind = r.kind /\ done.plan = Tail(r.plan) /\ done.outcomes = outcomes
        /\ done.todo = r.todo /\ done.missed = missed /\ done.since = r.since
        /\ done.status = "none"
    BY <1>1, <2>1 DEF Client
  <2>4. done \in Client
    <3>1. done = [kind |-> r.kind, plan |-> Tail(r.plan), outcomes |-> outcomes,
                  todo |-> r.todo, missed |-> missed, since |-> r.since, status |-> r.status]
      BY <2>1 DEF Client
    <3>2. r.status \in Statuses /\ outcomes \in SUBSET Outcomes /\ r.since \in SUBSET Sessions
      BY <1>1 DEF Client
    <3> QED  BY <1>1, <2>2, <3>1, <3>2 DEF Client
  <2>5. /\ step \in EarlySteps
        /\ r.kind = "nfs" => step # "block_ip"
    BY <1>1, <1>2, <1>4, <2>2 DEF LastSteps, PlanGoesOn
  <2>6. /\ Head(done.plan) \in {"block_user", "block_ip", "list_sessions"}
        /\ Head(done.plan) = "block_ip" /\ r.kind # "nfs" => step = "block_user"
        /\ Head(done.plan) = "list_sessions" => \/ step = "block_ip"
                                               \/ (step = "block_user" /\ r.kind = "smb")
    <3>1. Head(done.plan) = Follow(r.kind, step)
      BY <2>2, <2>3
    <3>2. step \in {"snapshot", "create_snapshot"} =>
            Follow(r.kind, step) = IF r.kind = "nfs" THEN "block_ip" ELSE "block_user"
      BY DEF Follow
    <3>3. step = "block_user" =>
            Follow(r.kind, step) = IF r.kind = "smb" THEN "list_sessions" ELSE "block_ip"
      BY DEF Follow
    <3>4. step = "block_ip" => Follow(r.kind, step) = "list_sessions"
      BY DEF Follow
    <3> HIDE DEF step, done
    <3> QED  BY <2>5, <3>1, <3>2, <3>3, <3>4 DEF EarlySteps
  <2>7. UserDone(done) => "mapping_created" \in outcomes \/ "failed" \in outcomes
    BY <1>1, <2>3, <2>6 DEF UserDone, At, Fits, Next1, Running
  <2>8. IpDone(done) => "blocked" \in outcomes \/ "failed" \in outcomes
    BY <1>1, <2>3, <2>6 DEF IpDone, At, Next1, Running
  <2>9. /\ "mapping_created" \in outcomes =>
             Replacement \in maps /\ r.kind \in {"smb", "multiprotocol"}
        /\ "blocked" \in outcomes => blocked
        /\ r.todo = {}
    BY <1>1, <2>5 DEF Fits, At, EarlySteps
  <2>10. ~At(done, "disconnect") /\ ~At(done, "create_snapshot")
    BY <2>6 DEF At
  <2> HIDE DEF outcomes
  <2>11. Fits(done, deny, maps, blocked, open)
    BY <2>2, <2>3, <2>7, <2>8, <2>9, <2>10 DEF Fits, Pending
  <2> QED  BY <2>3, <2>4, <2>10, <2>11
<1> QED  BY <1>3, <1>4
\* It is enough to look at the invocation that moves, for what it leaves behind.
LEMMA OneMoves ==
  ASSUME IInv, NEW c \in Clients, NEW r \in Client, client' = [client EXCEPT ![c] = r],
         denying' = denying, mappings \subseteq mappings', mappings' \subseteq Replacements,
         addressBlocked => addressBlocked', addressBlocked' \in BOOLEAN,
         sessions' \subseteq sessions, snapshots' \in [Prefixes -> 0..MaxSnapshots],
         faults' \in Nat, Fits(r, denying, mappings', addressBlocked', sessions')
  PROVE  IInv'
<1>1. TypeOK'
  BY DEF IInv, TypeOK
<1>2. ASSUME NEW d \in Clients
      PROVE  Fits(client'[d], denying, mappings', addressBlocked', sessions')
  <2>1. CASE d = c
    BY <2>1 DEF IInv, TypeOK
  <2>2. CASE d # c
    <3>1. client'[d] = client[d]
      BY <2>2 DEF IInv, TypeOK
    <3>2. Fits(client[d], denying, mappings', addressBlocked', sessions')
      BY StaysTrue DEF IInv
    <3> QED  BY <3>1, <3>2
  <2> QED  BY <2>1, <2>2
<1> QED  BY <1>1, <1>2 DEF IInv

\* An invocation that leaves keeps what it has recorded.
LEMMA LeaveFits ==
  ASSUME NEW c \in Clients, client \in [Clients -> Client],
         NEW deny, NEW maps, NEW blocked, NEW open, Fits(client[c], deny, maps, blocked, open)
  PROVE  LET r == Returned(client[c].kind, "raised")
         IN  /\ Leave(c) => client' = [client EXCEPT ![c] = r]
             /\ r \in Client /\ Fits(r, deny, maps, blocked, open) /\ ~At(r, "create_snapshot")
             /\ r.kind = client[c].kind
<1> DEFINE r == Returned(client[c].kind, "raised")
<1>1. Leave(c) => client' = [client EXCEPT ![c] = r]
  BY DEF Leave
<1>2. client[c] \in Client
  OBVIOUS
<1>3. r \in Client
  BY <1>2 DEF Returned, Client, Statuses
<1>4. /\ r.plan = << >> /\ r.status = "raised" /\ r.outcomes = {}
      /\ r.kind = client[c].kind /\ r.todo = {}
  BY DEF Returned
<1> HIDE DEF r
<1>5. Fits(r, deny, maps, blocked, open)
  BY <1>4 DEF Fits, UserDone, IpDone, At, Pending
<1> QED  BY <1>1, <1>3, <1>4, <1>5 DEF At, r

\* What a step that fails leaves behind.
LEMMA StepFailsFits ==
  ASSUME IInv, NEW c \in Clients, StepFails(c), Running(c),
         NEW deny, NEW maps, NEW blocked, NEW open, Fits(client[c], deny, maps, blocked, open)
  PROVE  /\ faults > 0 /\ faults' = faults - 1
         /\ \E r \in Client : /\ client' = [client EXCEPT ![c] = r]
                              /\ Fits(r, deny, maps, blocked, open)
                              /\ ~At(r, "create_snapshot")
                              /\ r.kind = client[c].kind
<1>0. client \in [Clients -> Client] /\ client[c] \in Client
  BY DEF IInv, TypeOK
<1>1. CASE Step(c, "failed")
  <2> DEFINE r == Recorded(c, "failed", client[c].missed)
  <2>1. client' = [client EXCEPT ![c] = r]
    BY <1>1 DEF Step
  <2>2. "failed" \in Outcomes /\ client[c].missed \in SUBSET Sessions
    BY <1>0 DEF Outcomes, Client
  <2>3. /\ r \in Client /\ Fits(r, deny, maps, blocked, open)
        /\ ~At(r, "create_snapshot") /\ r.kind = client[c].kind
    BY <1>0, <2>2, RecordFits
  <2> HIDE DEF r
  <2> QED  BY <2>1, <2>3 DEF StepFails, Fault
<1>2. CASE Leave(c)
  BY <1>0, <1>2, LeaveFits DEF StepFails, Fault
<1> QED  BY <1>1, <1>2 DEF StepFails

\* What a step with a good outcome leaves behind.
LEMMA StepFits ==
  ASSUME IInv, NEW c \in Clients, NEW outcome \in Outcomes, Step(c, outcome), Running(c),
         NEW deny, NEW maps, NEW blocked, NEW open, Fits(client[c], deny, maps, blocked, open),
         outcome = "mapping_created" => Replacement \in maps /\ Next1(c, "block_user")
                                        /\ client[c].kind \in {"smb", "multiprotocol"},
         outcome = "blocked" => blocked,
         Next1(c, "block_user") => outcome \in {"mapping_created", "failed"},
         Next1(c, "block_ip") => outcome \in {"blocked", "failed"},
         Next1(c, "list_sessions") => open = {},
         ~Next1(c, "disconnect")
  PROVE  \E r \in Client : /\ client' = [client EXCEPT ![c] = r]
                           /\ Fits(r, deny, maps, blocked, open)
                           /\ ~At(r, "create_snapshot")
                           /\ r.kind = client[c].kind
<1> DEFINE r == Recorded(c, outcome, client[c].missed)
<1>1. client[c] \in Client /\ client[c].missed \in SUBSET Sessions
  BY DEF IInv, TypeOK, Client
<1>2. client' = [client EXCEPT ![c] = r]
  BY DEF Step
<1>3. Next1(c, "list_sessions") \/ Next1(c, "disconnect") =>
        ("mapping_created" \in client[c].outcomes /\ outcome # "failed" =>
           open \subseteq client[c].missed
                             \cup (IF Replacement \in deny THEN {} ELSE client[c].since))
  OBVIOUS
<1>4. /\ r \in Client /\ Fits(r, deny, maps, blocked, open)
      /\ ~At(r, "create_snapshot") /\ r.kind = client[c].kind
  BY <1>1, <1>3, RecordFits
<1> HIDE DEF r
<1> QED  BY <1>2, <1>4
-----------------------------------------------------------------------------
(* The steps.                                                              *)

\* Responses that are about to take a snapshot with this prefix.
PrefixOf(kind) == IF kind = "remediation" THEN "remediation" ELSE "incident_response"
Taking(records, p) ==
  {c \in Clients : At(records[c], "create_snapshot") /\ PrefixOf(records[c].kind) = p}

\* What a step of this invocation leaves behind when it takes no snapshot up.
Calm(c) ==
  \E r \in Client : /\ client' = [client EXCEPT ![c] = r]
                    /\ Fits(r, denying, mappings', addressBlocked', sessions')
                    /\ ~At(r, "create_snapshot")

\* Only plans with a user to block touch the user.
LEMMA UserPlans ==
  ASSUME NEW kind \in Kinds, NEW plan \in Plans(kind),
         Head(plan) \in {"block_user", "list_sessions", "disconnect"}
  PROVE  kind \in {"smb", "multiprotocol"}
<1>1. CASE kind = "nfs"
  <2>1. plan \in {<<"snapshot", "block_ip">>, <<"create_snapshot", "block_ip">>, <<"block_ip">>}
    BY <1>1 DEF Plans
  <2>2. /\ Head(<<"snapshot", "block_ip">>) = "snapshot"
        /\ Head(<<"create_snapshot", "block_ip">>) = "create_snapshot"
        /\ Head(<<"block_ip">>) = "block_ip"
    BY Short
  <2>3. Head(plan) \in {"snapshot", "create_snapshot", "block_ip"}
    BY <2>1, <2>2
  <2> QED  BY <2>3
<1>2. CASE kind = "remediation"
  <2>1. plan \in {<<"snapshot">>, <<"create_snapshot">>}
    BY <1>2 DEF Plans
  <2>2. Head(<<"snapshot">>) = "snapshot" /\ Head(<<"create_snapshot">>) = "create_snapshot"
    BY Short
  <2>3. Head(plan) \in {"snapshot", "create_snapshot"}
    BY <2>1, <2>2
  <2> QED  BY <2>3
<1> QED  BY <1>1, <1>2 DEF Kinds

\* What is known of an invocation that is at a step.
LEMMA AtStep ==
  ASSUME IInv, NEW c \in Clients, NEW step, Next1(c, step)
  PROVE  /\ Running(c) /\ At(client[c], step) /\ Head(client[c].plan) = step
         /\ client \in [Clients -> Client] /\ client[c] \in Client
         /\ Fits(client[c], denying, mappings, addressBlocked, sessions)
         /\ client[c].kind \in Kinds /\ client[c].plan \in Plans(client[c].kind)
         /\ PlanGoesOn(client[c].kind, client[c].plan)
<1>1. /\ Running(c) /\ At(client[c], step) /\ Head(client[c].plan) = step
      /\ client \in [Clients -> Client] /\ client[c] \in Client
      /\ Fits(client[c], denying, mappings, addressBlocked, sessions)
  BY DEF IInv, TypeOK, Next1, Running, At
<1>2. client[c].kind \in Kinds /\ client[c].plan \in Plans(client[c].kind)
  BY <1>1 DEF Fits, Client, Running
<1> QED  BY <1>1, <1>2, PlanFacts

\* A response begins with nothing done and nothing claimed.
LEMMA ContainBegins ==
  ASSUME IInv, NEW c \in Clients, NEW kind \in Kinds, NEW withVolume \in BOOLEAN,
         Contain(c, kind, withVolume)
  PROVE  Calm(c) /\ UNCHANGED <<mappings, addressBlocked, sessions, snapshots, faults>>
<1> DEFINE r == [kind |-> kind, outcomes |-> {}, todo |-> {}, missed |-> {}, since |-> {},
                 status |-> "none", plan |-> FirstPlan(kind, withVolume)]
<1>1. /\ FirstPlan(kind, withVolume) \in Plans(kind)
      /\ Head(FirstPlan(kind, withVolume)) \in {"snapshot", "block_user", "block_ip"}
      /\ Head(FirstPlan(kind, withVolume)) = "block_ip" => kind = "nfs"
  BY BeginsWell DEF Contain
<1>2. FirstPlan(kind, withVolume) \in Seq(StepNames)
  BY <1>1, PlanFacts DEF PlanGoesOn
<1>3. client' = [client EXCEPT ![c] = r]
  BY DEF Contain, FirstPlan
<1>4. r \in Client
  BY <1>2 DEF Client, Statuses
<1>5. /\ r.kind = kind /\ r.outcomes = {} /\ r.todo = {} /\ r.missed = {}
      /\ r.status = "none" /\ r.plan = FirstPlan(kind, withVolume)
  OBVIOUS
<1> HIDE DEF r
<1>6. ~UserDone(r) /\ ~IpDone(r) /\ ~At(r, "disconnect") /\ ~At(r, "create_snapshot")
  BY <1>1, <1>5 DEF UserDone, IpDone, At
<1>7. Fits(r, denying, mappings', addressBlocked', sessions')
  BY <1>1, <1>5, <1>6 DEF Fits, Pending
<1> QED  BY <1>3, <1>4, <1>6, <1>7 DEF Calm, Contain

\* The cooldown is looked at: a snapshot is taken up when there is none, or when
\* the list could not be read or shows no time.
LEMMA CooldownLooked ==
  ASSUME IInv, NEW c \in Clients, CheckCooldown(c)
  PROVE  /\ UNCHANGED <<mappings, addressBlocked, sessions, snapshots>>
         /\ \/ /\ Calm(c)
               /\ faults' = faults \/ (faults > 0 /\ faults' = faults - 1)
            \/ /\ IF Timed /\ Recent(c) > 0 THEN faults > 0 /\ faults' = faults - 1 ELSE faults' = faults
               /\ \E r \in Client : /\ client' = [client EXCEPT ![c] = r]
                                    /\ Fits(r, denying, mappings', addressBlocked', sessions')
                                    /\ r.kind = client[c].kind
<1>1. UNCHANGED <<mappings, addressBlocked, sessions, snapshots>> /\ Next1(c, "snapshot")
  BY DEF CheckCooldown
<1>2. /\ Running(c) /\ At(client[c], "snapshot") /\ Head(client[c].plan) = "snapshot"
      /\ client[c] \in Client
      /\ Fits(client[c], denying, mappings', addressBlocked', sessions')
      /\ client[c].kind \in Kinds /\ client[c].plan \in Plans(client[c].kind)
      /\ PlanGoesOn(client[c].kind, client[c].plan)
  BY <1>1, AtStep
<1>3. ~Next1(c, "block_user") /\ ~Next1(c, "block_ip") /\ ~Next1(c, "list_sessions")
      /\ ~Next1(c, "disconnect")
  BY <1>2 DEF Next1
<1>4. CASE Step(c, "done") /\ UNCHANGED faults
  <2>1. "done" \in Outcomes
    BY DEF Outcomes
  <2>2. Calm(c)
    BY <1>2, <1>3, <1>4, <2>1, StepFits DEF Calm
  <2> QED  BY <1>1, <1>4, <2>2
<1>5. CASE StepFails(c)
  BY <1>1, <1>2, <1>5, StepFailsFits DEF Calm
<1>6. CASE /\ client' = [client EXCEPT ![c].plan = <<"create_snapshot">> \o Tail(@)]
           /\ IF Timed /\ Recent(c) > 0 THEN Fault ELSE UNCHANGED faults
  <2> DEFINE plan == <<"create_snapshot">> \o Tail(client[c].plan)
  <2> DEFINE r == [client[c] EXCEPT !.plan = plan]
  <2>1. client' = [client EXCEPT ![c] = r]
    BY <1>6
  <2>2. plan \in Plans(client[c].kind) /\ Head(plan) = "create_snapshot" /\ plan # << >>
    BY <1>2 DEF PlanGoesOn
  <2>3. plan \in Seq(StepNames)
    BY <1>2, <2>2, PlanFacts DEF PlanGoesOn
  <2> HIDE DEF plan
  <2>4. r \in Client
    BY <1>2, <2>3 DEF Client
  <2>5. /\ r.kind = client[c].kind /\ r.plan = plan /\ r.outcomes = client[c].outcomes
        /\ r.todo = client[c].todo /\ r.missed = client[c].missed
        /\ r.status = client[c].status
    BY <1>2 DEF Client
  <2> HIDE DEF r
  <2>6. client[c].status = "none" /\ client[c].todo = {}
    BY <1>2 DEF Fits, At
  <2>7. ~UserDone(r) /\ ~IpDone(r) /\ ~At(r, "disconnect")
    BY <2>2, <2>5, <2>6 DEF UserDone, IpDone, At
  <2>8. Fits(r, denying, mappings', addressBlocked', sessions')
    BY <1>2, <2>2, <2>5, <2>6, <2>7 DEF Fits, Pending
  <2> QED  BY <1>1, <1>6, <2>1, <2>4, <2>5, <2>8 DEF Fault
<1> QED  BY <1>4, <1>5, <1>6 DEF CheckCooldown
\* A snapshot is counted against the response that was taking it; only a fault
\* leaves one that is not known of.
LEMMA SnapshotTaken ==
  ASSUME IInv, NEW c \in Clients, CreateSnapshot(c)
  PROVE  /\ UNCHANGED <<mappings, addressBlocked, sessions>>
         /\ Next1(c, "create_snapshot") /\ Calm(c)
         /\ snapshots' \in [Prefixes -> 0..MaxSnapshots]
         /\ faults' = faults \/ (faults > 0 /\ faults' = faults - 1)
         /\ \/ snapshots' = snapshots
            \/ snapshots' = [snapshots EXCEPT ![Prefix(c)] = @ + 1]
<1> DEFINE taken == [snapshots EXCEPT ![Prefix(c)] = @ + 1]
<1>1. UNCHANGED <<mappings, addressBlocked, sessions>> /\ Next1(c, "create_snapshot")
  BY DEF CreateSnapshot
<1>2. /\ Running(c) /\ At(client[c], "create_snapshot")
      /\ Head(client[c].plan) = "create_snapshot" /\ client[c] \in Client
      /\ Fits(client[c], denying, mappings', addressBlocked', sessions')
  BY <1>1, AtStep
<1>3. ~Next1(c, "block_user") /\ ~Next1(c, "block_ip") /\ ~Next1(c, "list_sessions")
      /\ ~Next1(c, "disconnect")
  BY <1>2 DEF Next1
<1>4. snapshots \in [Prefixes -> 0..MaxSnapshots] /\ Prefix(c) \in Prefixes
  BY DEF IInv, TypeOK, Prefix, Prefixes
<1>5. Recent(c) < MaxSnapshots => taken \in [Prefixes -> 0..MaxSnapshots]
  BY <1>4, ConstantsAssumption DEF Recent, ConstantsAssumption
<1>6. {"done", "failed"} \subseteq Outcomes
  BY DEF Outcomes
<1>7. CASE Recent(c) < MaxSnapshots /\ snapshots' = taken /\ Step(c, "done")
             /\ UNCHANGED faults
  <2>1. Calm(c)
    BY <1>2, <1>3, <1>6, <1>7, StepFits DEF Calm
  <2> QED  BY <1>1, <1>5, <1>7, <2>1
<1>8. CASE Recent(c) > 0 /\ Step(c, "failed") /\ UNCHANGED <<snapshots, faults>>
  <2>1. Calm(c)
    BY <1>2, <1>3, <1>6, <1>8, StepFits DEF Calm
  <2> QED  BY <1>1, <1>4, <1>8, <2>1
<1>9. CASE /\ StepFails(c)
           /\ snapshots' \in {snapshots} \cup (IF Recent(c) < MaxSnapshots THEN {taken} ELSE {})
  <2>1. Calm(c) /\ faults > 0 /\ faults' = faults - 1
    BY <1>2, <1>9, StepFailsFits DEF Calm
  <2> QED  BY <1>1, <1>4, <1>5, <1>9, <2>1
<1> QED  BY <1>7, <1>8, <1>9 DEF CreateSnapshot

\* A blocking step: what it reports is there, a fault may or may not have done it.
LEMMA UserBlocked ==
  ASSUME IInv, NEW c \in Clients, BlockUser(c)
  PROVE  /\ UNCHANGED <<addressBlocked, sessions, snapshots>>
         /\ mappings \subseteq mappings' /\ mappings' \subseteq Replacements
         /\ faults' = faults \/ (faults > 0 /\ faults' = faults - 1)
         /\ Calm(c)
<1>1. UNCHANGED <<addressBlocked, sessions, snapshots>> /\ Next1(c, "block_user")
  BY DEF BlockUser
<1>2. mappings \subseteq mappings' /\ mappings' \subseteq Replacements
  BY DEF BlockUser, IInv, TypeOK, Replacement, Replacements
<1>3. /\ Running(c) /\ At(client[c], "block_user") /\ Head(client[c].plan) = "block_user"
      /\ client[c] \in Client /\ client[c].kind \in Kinds
      /\ client[c].plan \in Plans(client[c].kind)
      /\ Fits(client[c], denying, mappings, addressBlocked, sessions)
  BY <1>1, AtStep
<1>4. client[c].kind \in {"smb", "multiprotocol"}
  BY <1>3, UserPlans
<1>5. Fits(client[c], denying, mappings', addressBlocked', sessions')
  <2>1. /\ Replacement \in mappings => Replacement \in mappings'
        /\ addressBlocked' = addressBlocked /\ sessions' = sessions
    BY <1>1, <1>2
  <2> QED  BY <1>3, <2>1, StaysTrue
<1>6. ~Next1(c, "block_ip") /\ ~Next1(c, "list_sessions") /\ ~Next1(c, "disconnect")
  BY <1>3 DEF Next1
<1>7. CASE mappings' = mappings \cup {Replacement} /\ Step(c, "mapping_created")
             /\ UNCHANGED faults
  <2>1. "mapping_created" \in Outcomes /\ Replacement \in mappings'
    BY <1>7 DEF Outcomes
  <2>2. Calm(c)
    BY <1>1, <1>3, <1>4, <1>5, <1>6, <1>7, <2>1, StepFits DEF Calm
  <2> QED  BY <1>1, <1>2, <1>7, <2>2
<1>8. CASE StepFails(c)
  BY <1>1, <1>2, <1>3, <1>5, <1>8, StepFailsFits DEF Calm
<1> QED  BY <1>7, <1>8 DEF BlockUser

LEMMA IpBlocked ==
  ASSUME IInv, NEW c \in Clients, BlockIp(c)
  PROVE  /\ UNCHANGED <<mappings, sessions, snapshots>>
         /\ addressBlocked => addressBlocked'
         /\ addressBlocked' \in BOOLEAN
         /\ faults' = faults \/ (faults > 0 /\ faults' = faults - 1)
         /\ Calm(c)
<1>1. UNCHANGED <<mappings, sessions, snapshots>> /\ Next1(c, "block_ip")
  BY DEF BlockIp
<1>2. addressBlocked \in BOOLEAN /\ addressBlocked' \in {addressBlocked, TRUE}
  BY DEF BlockIp, IInv, TypeOK
<1>3. (addressBlocked => addressBlocked') /\ addressBlocked' \in BOOLEAN
  BY <1>2
<1>4. /\ Running(c) /\ At(client[c], "block_ip") /\ Head(client[c].plan) = "block_ip"
      /\ client[c] \in Client /\ Fits(client[c], denying, mappings, addressBlocked, sessions)
  BY <1>1, AtStep
<1>5. Fits(client[c], denying, mappings', addressBlocked', sessions')
  BY <1>1, <1>3, <1>4, StaysTrue
<1>6. ~Next1(c, "block_user") /\ ~Next1(c, "list_sessions") /\ ~Next1(c, "disconnect")
  BY <1>4 DEF Next1
<1>7. CASE addressBlocked' = TRUE /\ Step(c, "blocked") /\ UNCHANGED faults
  <2>1. "blocked" \in Outcomes
    BY DEF Outcomes
  <2>2. Calm(c)
    BY <1>4, <1>5, <1>6, <1>7, <2>1, StepFits DEF Calm
  <2> QED  BY <1>1, <1>3, <1>7, <2>2
<1>8. CASE StepFails(c)
  BY <1>1, <1>3, <1>4, <1>5, <1>8, StepFailsFits DEF Calm
<1> QED  BY <1>7, <1>8 DEF BlockIp

\* Sessions are listed when the user is blocked already.
LEMMA SessionsListed ==
  ASSUME IInv, NEW c \in Clients, ListSessions(c)
  PROVE  /\ UNCHANGED <<mappings, addressBlocked, sessions, snapshots>>
         /\ faults' = faults \/ (faults > 0 /\ faults' = faults - 1)
         /\ Calm(c)
<1>1. /\ UNCHANGED <<mappings, addressBlocked, sessions, snapshots>>
      /\ Next1(c, "list_sessions")
  BY DEF ListSessions
<1>2. /\ Running(c) /\ At(client[c], "list_sessions")
      /\ Head(client[c].plan) = "list_sessions" /\ client[c] \in Client
      /\ client[c].kind \in Kinds /\ client[c].plan \in Plans(client[c].kind)
      /\ PlanGoesOn(client[c].kind, client[c].plan)
      /\ Fits(client[c], denying, mappings', addressBlocked', sessions')
  BY <1>1, AtStep
<1>3. ~Next1(c, "block_user") /\ ~Next1(c, "block_ip") /\ ~Next1(c, "disconnect")
  BY <1>2 DEF Next1
<1>4. CASE sessions = {} /\ Step(c, "done") /\ UNCHANGED faults
  <2>1. "done" \in Outcomes /\ sessions' = {}
    BY <1>1, <1>4 DEF Outcomes
  <2>2. Calm(c)
    BY <1>2, <1>3, <1>4, <2>1, StepFits DEF Calm
  <2> QED  BY <1>1, <1>4, <2>2
<1>5. CASE /\ client' = [client EXCEPT ![c].plan = <<"disconnect">> \o Tail(@),
                                       ![c].todo = sessions]
           /\ UNCHANGED faults
  <2> DEFINE plan == <<"disconnect">>
  <2> DEFINE r == [client[c] EXCEPT !.plan = plan, !.todo = sessions]
  <2>1. <<"disconnect">> \o Tail(client[c].plan) = plan
    BY <1>2 DEF PlanGoesOn
  <2>2. client \in [Clients -> Client] /\ sessions \subseteq Sessions
    BY DEF IInv, TypeOK
  <2>3. client' = [client EXCEPT ![c] = r]
    BY <1>5, <2>1, <2>2 DEF Client
  <2>4. client[c].kind \in {"smb", "multiprotocol"}
    BY <1>2, UserPlans
  <2>5. plan \in Plans(client[c].kind)
    BY <2>4 DEF Plans
  <2>6. plan \in Seq(StepNames) /\ Head(plan) = "disconnect" /\ plan # << >>
    BY DEF StepNames
  <2> HIDE DEF plan
  <2>7. r \in Client
    BY <1>2, <2>2, <2>6 DEF Client
  <2>8. /\ r.kind = client[c].kind /\ r.plan = plan /\ r.outcomes = client[c].outcomes
        /\ r.todo = sessions /\ r.missed = client[c].missed
        /\ r.status = client[c].status
    BY <1>2 DEF Client
  <2> HIDE DEF r
  <2>9. client[c].status = "none"
    BY <1>2 DEF Fits, At
  <2>10. /\ UserDone(r) => UserDone(client[c])
         /\ IpDone(r) => IpDone(client[c])
         /\ At(r, "disconnect") /\ ~At(r, "create_snapshot")
    BY <1>2, <2>6, <2>8, <2>9 DEF UserDone, IpDone, At
  <2>11. Fits(r, denying, mappings', addressBlocked', sessions')
    BY <1>1, <1>2, <2>5, <2>8, <2>9, <2>10 DEF Fits, Pending, MayBeLeft
  <2> QED  BY <1>1, <1>5, <2>3, <2>7, <2>10, <2>11 DEF Calm
<1>6. CASE StepFails(c)
  BY <1>1, <1>2, <1>6, StepFailsFits DEF Calm
<1> QED  BY <1>1, <1>4, <1>5, <1>6 DEF ListSessions

\* What a DELETE leaves of the user's sessions.
LEMMA OneDisconnected ==
  ASSUME IInv, NEW c \in Clients, NEW s \in client[c].todo, Next1(c, "disconnect"),
         NEW missed \in SUBSET Sessions, NEW open, open \subseteq sessions,
         s \notin open \/ s \in missed, client' = [client EXCEPT ![c] = Disconnected(c, s, missed)],
         Fits(client[c], denying, mappings', addressBlocked', open)
  PROVE  \E r \in Client : /\ client' = [client EXCEPT ![c] = r]
                           /\ Fits(r, denying, mappings', addressBlocked', open)
                           /\ ~At(r, "create_snapshot")
<1>1. /\ Running(c) /\ At(client[c], "disconnect") /\ Head(client[c].plan) = "disconnect"
      /\ client[c] \in Client
      /\ Fits(client[c], denying, mappings, addressBlocked, sessions)
  BY AtStep
<1>2. client[c].missed \subseteq Sessions /\ client[c].todo \subseteq Sessions
  BY <1>1 DEF Client
<1>3. "mapping_created" \in client[c].outcomes =>
        open \subseteq (client[c].todo \ {s}) \cup (client[c].missed \cup missed)
                          \cup (IF Replacement \in denying THEN {} ELSE client[c].since)
  BY <1>1 DEF Fits, MayBeLeft
<1>4. CASE client[c].todo = {s}
  <2> DEFINE r == Recorded(c, "done", client[c].missed \cup missed)
  <2>1. client' = [client EXCEPT ![c] = r]
    BY <1>4 DEF Disconnected
  <2>2. "done" \in Outcomes /\ client[c].missed \cup missed \in SUBSET Sessions
    BY <1>2 DEF Outcomes
  <2>3. Next1(c, "list_sessions") \/ Next1(c, "disconnect") =>
          ("mapping_created" \in client[c].outcomes /\ "done" # "failed" =>
             open \subseteq (client[c].missed \cup missed)
                               \cup (IF Replacement \in denying THEN {} ELSE client[c].since))
    BY <1>3, <1>4
  <2>4. ~Next1(c, "block_user") /\ ~Next1(c, "block_ip")
    BY <1>1 DEF Next1
  <2>5. /\ r \in Client /\ Fits(r, denying, mappings', addressBlocked', open)
        /\ ~At(r, "create_snapshot")
    BY <1>1, <2>2, <2>3, <2>4, RecordFits
  <2> HIDE DEF r
  <2> QED  BY <2>1, <2>5
<1>5. CASE client[c].todo # {s}
  <2> DEFINE r == [client[c] EXCEPT !.todo = @ \ {s}, !.missed = @ \cup missed]
  <2>1. client' = [client EXCEPT ![c] = r]
    BY <1>5 DEF Disconnected
  <2>2. r \in Client
    BY <1>1, <1>2 DEF Client
  <2>3. /\ r.kind = client[c].kind /\ r.plan = client[c].plan
        /\ r.outcomes = client[c].outcomes /\ r.status = client[c].status
        /\ r.todo = client[c].todo \ {s} /\ r.missed = client[c].missed \cup missed
        /\ r.since = client[c].since
    BY <1>1 DEF Client
  <2> HIDE DEF r
  <2>4. /\ UserDone(r) => UserDone(client[c])
        /\ IpDone(r) => IpDone(client[c])
        /\ At(r, "disconnect") /\ ~At(r, "create_snapshot")
    BY <1>1, <2>3 DEF UserDone, IpDone, At
  <2>5. Fits(r, denying, mappings', addressBlocked', open)
    BY <1>1, <1>3, <2>3, <2>4 DEF Fits, MayBeLeft, Pending
  <2> QED  BY <2>1, <2>2, <2>4, <2>5
<1> QED  BY <1>4, <1>5

LEMMA SessionDisconnected ==
  ASSUME IInv, NEW c \in Clients, NEW s \in Sessions, Disconnect(c, s)
  PROVE  /\ UNCHANGED <<mappings, addressBlocked, snapshots>>
         /\ sessions' \subseteq sessions
         /\ faults' = faults \/ (faults > 0 /\ faults' = faults - 1)
         /\ Calm(c)
<1>1. /\ UNCHANGED <<mappings, addressBlocked, snapshots>> /\ Next1(c, "disconnect")
      /\ s \in client[c].todo /\ sessions' \subseteq sessions
  BY DEF Disconnect
<1>2. /\ client \in [Clients -> Client]
      /\ Fits(client[c], denying, mappings, addressBlocked, sessions)
  BY <1>1, AtStep
<1>3. Fits(client[c], denying, mappings', addressBlocked', sessions')
  BY <1>1, <1>2, StaysTrue
<1>4. CASE /\ sessions' = sessions \ {s}
           /\ client' = [client EXCEPT ![c] = Disconnected(c, s, {})]
           /\ UNCHANGED faults
  BY <1>1, <1>3, <1>4, OneDisconnected DEF Calm
<1>5. CASE /\ client' = [client EXCEPT ![c] = Disconnected(c, s, {s})]
           /\ Fault \/ UNCHANGED faults
  <2>1. {s} \in SUBSET Sessions /\ s \in {s}
    OBVIOUS
  <2>2. \E r \in Client : /\ client' = [client EXCEPT ![c] = r]
                          /\ Fits(r, denying, mappings', addressBlocked', sessions')
                          /\ ~At(r, "create_snapshot")
    BY <1>1, <1>3, <1>5, <2>1, OneDisconnected
  <2> QED  BY <1>1, <1>5, <2>2 DEF Calm, Fault
<1>6. CASE Fault /\ Leave(c)
  BY <1>1, <1>2, <1>3, <1>6, LeaveFits DEF Calm, Fault
<1> QED  BY <1>4, <1>5, <1>6 DEF Disconnect
-----------------------------------------------------------------------------
(* Every step.                                                             *)

\* The steps of an invocation that take no snapshot up.
Steady(c) ==
  /\ Calm(c)
  /\ mappings \subseteq mappings' /\ mappings' \subseteq Replacements
  /\ addressBlocked => addressBlocked'
  /\ addressBlocked' \in BOOLEAN
  /\ sessions' \subseteq sessions
  /\ faults' = faults \/ (faults > 0 /\ faults' = faults - 1)

TakesUp(c) ==
  /\ UNCHANGED <<mappings, addressBlocked, sessions, snapshots>>
  /\ IF Timed /\ Recent(c) > 0 THEN faults > 0 /\ faults' = faults - 1 ELSE faults' = faults
  /\ \E r \in Client : /\ client' = [client EXCEPT ![c] = r]
                       /\ Fits(r, denying, mappings', addressBlocked', sessions')
                       /\ r.kind = client[c].kind

TakesOne(c) ==
  /\ Next1(c, "create_snapshot") /\ Steady(c)
  /\ snapshots' \in [Prefixes -> 0..MaxSnapshots]
  /\ snapshots' = snapshots \/ snapshots' = [snapshots EXCEPT ![Prefix(c)] = @ + 1]

\* A step is one of the user or of ONTAP, or one of these.
LEMMA EveryStep ==
  ASSUME IInv, Next
  PROVE  \/ \E s \in Sessions : OpenSession(s)
         \/ RemoveUnresolvable
         \/ \E p \in Prefixes : CooldownPasses(p)
         \/ \E c \in Clients : \/ Steady(c) /\ UNCHANGED snapshots
                               \/ TakesUp(c)
                               \/ TakesOne(c)
<1>0. TypeOK
  BY DEF IInv
<1>1. ASSUME NEW c \in Clients, NEW kind \in Kinds, NEW withVolume \in BOOLEAN,
             Contain(c, kind, withVolume)
      PROVE  Steady(c) /\ UNCHANGED snapshots
  BY <1>0, <1>1, ContainBegins DEF Steady, TypeOK
<1>2. ASSUME NEW c \in Clients, CheckCooldown(c)
      PROVE  (Steady(c) /\ UNCHANGED snapshots) \/ TakesUp(c)
  BY <1>0, <1>2, CooldownLooked DEF Steady, TakesUp, TypeOK
<1>3. ASSUME NEW c \in Clients, CreateSnapshot(c)  PROVE  TakesOne(c)
  BY <1>0, <1>3, SnapshotTaken DEF Steady, TakesOne, TypeOK
<1>4. ASSUME NEW c \in Clients, BlockUser(c)  PROVE  Steady(c) /\ UNCHANGED snapshots
  BY <1>0, <1>4, UserBlocked DEF Steady, TypeOK
<1>5. ASSUME NEW c \in Clients, BlockIp(c)  PROVE  Steady(c) /\ UNCHANGED snapshots
  <2>1. /\ UNCHANGED <<mappings, sessions, snapshots>> /\ Calm(c)
        /\ addressBlocked => addressBlocked'
        /\ addressBlocked' \in BOOLEAN
        /\ faults' = faults \/ (faults > 0 /\ faults' = faults - 1)
    BY <1>5, IpBlocked
  <2> QED  BY <1>0, <2>1 DEF Steady, TypeOK
<1>6. ASSUME NEW c \in Clients, ListSessions(c)  PROVE  Steady(c) /\ UNCHANGED snapshots
  BY <1>0, <1>6, SessionsListed DEF Steady, TypeOK
<1>7. ASSUME NEW c \in Clients, NEW s \in Sessions, Disconnect(c, s)
      PROVE  Steady(c) /\ UNCHANGED snapshots
  BY <1>0, <1>7, SessionDisconnected DEF Steady, TypeOK
<1> QED  BY <1>1, <1>2, <1>3, <1>4, <1>5, <1>6, <1>7 DEF Next

LEMMA InitFits == Init => IInv
<1> SUFFICES ASSUME Init PROVE IInv
  OBVIOUS
<1> DEFINE r == Returned("smb", "none")
<1>1. /\ r.kind = "smb" /\ r.plan = << >> /\ r.outcomes = {} /\ r.todo = {}
      /\ r.missed = {} /\ r.status = "none"
  BY DEF Returned
<1>2. r \in Client
  BY DEF Returned, Client, Kinds, Statuses
<1>3. client = [c \in Clients |-> r]
  BY DEF Init
<1> HIDE DEF r
<1>4. Fits(r, denying, mappings, addressBlocked, sessions)
  BY <1>1 DEF Fits, UserDone, IpDone, At, Pending
<1>5. TypeOK
  <2>1. snapshots \in [Prefixes -> 0..MaxSnapshots] /\ faults \in Nat
    BY ConstantsAssumption DEF Init, ConstantsAssumption
  <2>2. client \in [Clients -> Client]
    BY <1>2, <1>3
  <2>3. /\ mappings \subseteq Replacements /\ sessions \subseteq Sessions
        /\ addressBlocked \in BOOLEAN /\ denying \subseteq Replacements
    BY DEF Init, Replacements
  <2> QED  BY <2>1, <2>2, <2>3 DEF TypeOK
<1> QED  BY <1>3, <1>4, <1>5 DEF IInv

\* What the mappings do, no step changes.
LEMMA Unchanging == [Next]_vars => denying' = denying
BY DEF Next, vars, OpenSession, RemoveUnresolvable, CooldownPasses, Contain, CheckCooldown,
       CreateSnapshot, BlockUser, BlockIp, ListSessions, Disconnect

LEMMA IInvKept == IInv /\ [Next]_vars => IInv'
<1> SUFFICES ASSUME IInv, [Next]_vars PROVE IInv'
  OBVIOUS
<1>0. snapshots \in [Prefixes -> 0..MaxSnapshots] /\ faults \in Nat
  BY DEF IInv, TypeOK
<1>3. denying' = denying
  BY Unchanging
<1>1. CASE Next
  <2>1. ASSUME NEW s \in Sessions, OpenSession(s)  PROVE IInv'
    <3>1. UNCHANGED <<mappings, addressBlocked, snapshots, faults>> /\ sessions' = sessions \cup {s}
      BY <2>1 DEF OpenSession
    <3>2. ASSUME NEW c \in Clients
          PROVE  /\ client'[c] \in Client
                 /\ Fits(client'[c], denying, mappings', addressBlocked', sessions')
      <4>1. client[c] \in Client /\ Fits(client[c], denying, mappings, addressBlocked, sessions)
        BY DEF IInv, TypeOK
      <4>2. client'[c] = IF Listed(client[c]) THEN [client[c] EXCEPT !.since = @ \cup {s}]
                         ELSE client[c]
        BY <2>1 DEF OpenSession
      <4>3. Replacement \in mappings => Replacement \notin denying
        <5> SUFFICES ASSUME Replacement \in mappings, Replacement \in denying PROVE FALSE
          OBVIOUS
        <5>1. mappings \cap denying = {}
          BY <2>1 DEF OpenSession, Denied
        <5> QED  BY <5>1
      <4> DEFINE r2 == IF Listed(client[c]) THEN [client[c] EXCEPT !.since = @ \cup {s}]
                       ELSE client[c]
      <4>4. r2 \in Client /\ Fits(r2, denying, mappings, addressBlocked, sessions \cup {s})
        BY <4>1, <4>3, OpenedFits
      <4> HIDE DEF r2
      <4>5. r2 \in Client /\ Fits(r2, denying, mappings', addressBlocked', sessions')
        BY <3>1, <4>4
      <4>6. client'[c] = r2
        BY <4>2 DEF r2
      <4> QED  BY <4>5, <4>6
    <3>3. client' \in [Clients -> Client]
      <4>1. client' = [c \in Clients |-> client'[c]]
        BY <2>1 DEF OpenSession
      <4> QED  BY <3>2, <4>1
    <3>4. TypeOK'
      BY <1>3, <3>1, <3>3 DEF IInv, TypeOK
    <3> QED  BY <1>3, <3>2, <3>4 DEF IInv
  <2>2. ASSUME RemoveUnresolvable  PROVE IInv'
    <3>1. TypeOK'
      BY <2>2 DEF IInv, TypeOK, RemoveUnresolvable
    <3>2. ASSUME NEW c \in Clients
          PROVE  Fits(client'[c], denying, mappings', addressBlocked', sessions')
      <4>1. /\ Replacement \in mappings => Replacement \in mappings'
            /\ addressBlocked' = addressBlocked /\ sessions' = sessions /\ client' = client
        BY <2>2 DEF RemoveUnresolvable, Replacement
      <4> QED  BY <4>1, StaysTrue DEF IInv
    <3> QED  BY <1>3, <3>1, <3>2 DEF IInv
  <2>3. ASSUME NEW p \in Prefixes, CooldownPasses(p)  PROVE IInv'
    <3>1. TypeOK'
      BY <2>3, ConstantsAssumption DEF IInv, TypeOK, CooldownPasses, ConstantsAssumption
    <3> QED  BY <1>3, <2>3, <3>1 DEF IInv, CooldownPasses
  <2>4. ASSUME NEW c \in Clients, Steady(c), UNCHANGED snapshots  PROVE IInv'
    <3>1. PICK r \in Client : /\ client' = [client EXCEPT ![c] = r]
                              /\ Fits(r, denying, mappings', addressBlocked', sessions')
      BY <2>4 DEF Steady, Calm
    <3>2. snapshots' \in [Prefixes -> 0..MaxSnapshots] /\ faults' \in Nat
      BY <1>0, <2>4 DEF Steady
    <3> QED  BY <2>4, <3>1, <3>2, <1>3, OneMoves DEF Steady
  <2>5. ASSUME NEW c \in Clients, TakesUp(c)  PROVE IInv'
    <3>1. faults' \in Nat
      BY <1>0, <2>5 DEF TakesUp
    <3>2. mappings' \subseteq Replacements /\ addressBlocked' \in BOOLEAN
      BY <2>5 DEF TakesUp, IInv, TypeOK
    <3> QED  BY <1>0, <2>5, <3>1, <3>2, <1>3, OneMoves DEF TakesUp
  <2>6. ASSUME NEW c \in Clients, TakesOne(c)  PROVE IInv'
    <3>1. PICK r \in Client : /\ client' = [client EXCEPT ![c] = r]
                              /\ Fits(r, denying, mappings', addressBlocked', sessions')
      BY <2>6 DEF TakesOne, Steady, Calm
    <3>2. snapshots' \in [Prefixes -> 0..MaxSnapshots] /\ faults' \in Nat
      BY <1>0, <2>6 DEF TakesOne, Steady
    <3> QED  BY <2>6, <3>1, <3>2, <1>3, OneMoves DEF TakesOne, Steady
  <2> QED  BY <1>1, <2>1, <2>2, <2>3, <2>4, <2>5, <2>6, EveryStep
<1>2. CASE UNCHANGED vars
  BY <1>2 DEF IInv, TypeOK, vars
<1> QED  BY <1>1, <1>2
-----------------------------------------------------------------------------
(* The snapshots of a cooldown.                                            *)

\* A response about to take a snapshot saw none in the cooldown, or could not
\* read the list; each takes one.
StormInv ==
  Timed =>
    /\ faults <= MaxFaults
    /\ \A p \in Prefixes :
         snapshots[p] + Cardinality(Taking(client, p))
           <= Cardinality(Clients) + (MaxFaults - faults)

LEMMA TakingFinite ==
  ASSUME NEW records, NEW p
  PROVE  /\ IsFiniteSet(Taking(records, p)) /\ Cardinality(Taking(records, p)) \in Nat
         /\ Cardinality(Clients) \in Nat
         /\ Cardinality(Taking(records, p)) <= Cardinality(Clients)
<1>1. IsFiniteSet(Clients) /\ Taking(records, p) \subseteq Clients
  BY ConstantsAssumption DEF ConstantsAssumption, Taking
<1> QED  BY <1>1, FS_Subset, FS_CardinalityType

\* Who else is taking one stays the same.
LEMMA TakingAfter ==
  ASSUME client \in [Clients -> Client], NEW c \in Clients, NEW r \in Client,
         client' = [client EXCEPT ![c] = r], NEW p
  PROVE  /\ ~At(r, "create_snapshot") =>
              Cardinality(Taking(client', p)) <= Cardinality(Taking(client, p))
         /\ ~At(r, "create_snapshot") /\ c \in Taking(client, p) =>
              Cardinality(Taking(client', p)) <= Cardinality(Taking(client, p)) - 1
         /\ Cardinality(Taking(client', p)) <= Cardinality(Taking(client, p)) + 1
         /\ PrefixOf(r.kind) # p =>
              Cardinality(Taking(client', p)) <= Cardinality(Taking(client, p))
<1> DEFINE now == Taking(client, p)
<1> DEFINE then == Taking(client', p)
<1>1. /\ ~At(r, "create_snapshot") => then \subseteq now \ {c}
      /\ then \subseteq now \cup {c}
      /\ PrefixOf(r.kind) # p => then \subseteq now
  BY DEF Taking
<1>2. IsFiniteSet(now) /\ Cardinality(now) \in Nat /\ Cardinality(then) \in Nat
  BY TakingFinite
<1> HIDE DEF now, then
<1>3. /\ IsFiniteSet(now \cup {c}) /\ Cardinality(now \cup {c}) <= Cardinality(now) + 1
      /\ Cardinality(now \cup {c}) \in Nat
  <2>1. IsFiniteSet(now \cup {c}) /\ Cardinality(now \cup {c}) \in Nat
    BY <1>2, FS_AddElement, FS_CardinalityType
  <2>2. \/ Cardinality(now \cup {c}) = Cardinality(now)
        \/ Cardinality(now \cup {c}) = Cardinality(now) + 1
    BY <1>2, FS_AddElement
  <2> QED  BY <1>2, <2>1, <2>2
<1>4. /\ IsFiniteSet(now \ {c}) /\ Cardinality(now \ {c}) <= Cardinality(now)
      /\ Cardinality(now \ {c}) \in Nat
      /\ c \in now => Cardinality(now \ {c}) = Cardinality(now) - 1
  <2>1. IsFiniteSet(now \ {c}) /\ Cardinality(now \ {c}) \in Nat
    BY <1>2, FS_RemoveElement, FS_CardinalityType
  <2>2. Cardinality(now \ {c}) = IF c \in now THEN Cardinality(now) - 1 ELSE Cardinality(now)
    BY <1>2, FS_RemoveElement
  <2> QED  BY <1>2, <2>1, <2>2
<1>5. /\ then \subseteq now \ {c} => Cardinality(then) <= Cardinality(now \ {c})
      /\ then \subseteq now \cup {c} => Cardinality(then) <= Cardinality(now \cup {c})
      /\ then \subseteq now => Cardinality(then) <= Cardinality(now)
  BY <1>2, <1>3, <1>4, FS_Subset
<1>6. /\ ~At(r, "create_snapshot") => Cardinality(then) <= Cardinality(now)
      /\ ~At(r, "create_snapshot") /\ c \in now => Cardinality(then) <= Cardinality(now) - 1
      /\ Cardinality(then) <= Cardinality(now) + 1
      /\ PrefixOf(r.kind) # p => Cardinality(then) <= Cardinality(now)
  BY <1>1, <1>2, <1>3, <1>4, <1>5
<1> QED  BY <1>6 DEF now, then

LEMMA InitStorm == Init => StormInv
<1> SUFFICES ASSUME Init, NEW p \in Prefixes
             PROVE  /\ faults <= MaxFaults
                    /\ snapshots[p] + Cardinality(Taking(client, p))
                         <= Cardinality(Clients) + (MaxFaults - faults)
  BY DEF StormInv, Prefixes
<1>1. /\ Cardinality(Taking(client, p)) \in Nat /\ Cardinality(Clients) \in Nat
      /\ Cardinality(Taking(client, p)) <= Cardinality(Clients)
  BY TakingFinite
<1>2. snapshots[p] = 0 /\ faults = MaxFaults /\ MaxFaults \in Nat
  BY ConstantsAssumption DEF Init, ConstantsAssumption
<1> QED  BY <1>1, <1>2

LEMMA StormKept == IInv /\ StormInv /\ [Next]_vars => StormInv'
<1> SUFFICES ASSUME IInv, StormInv, [Next]_vars, Timed PROVE StormInv'
  BY DEF StormInv
<1>0. /\ snapshots \in [Prefixes -> 0..MaxSnapshots] /\ faults \in Nat
      /\ client \in [Clients -> Client] /\ MaxFaults \in Nat /\ MaxSnapshots \in Nat
      /\ Cardinality(Clients) \in Nat /\ faults <= MaxFaults
  BY TakingFinite, ConstantsAssumption DEF IInv, TypeOK, StormInv, ConstantsAssumption
<1> SUFFICES ASSUME NEW p \in Prefixes
             PROVE  /\ faults' <= MaxFaults
                    /\ snapshots'[p] + Cardinality(Taking(client', p))
                         <= Cardinality(Clients) + (MaxFaults - faults')
  BY DEF StormInv, Prefixes
<1>1. /\ snapshots[p] \in Nat /\ Cardinality(Taking(client, p)) \in Nat
      /\ Cardinality(Taking(client', p)) \in Nat
      /\ Cardinality(Taking(client', p)) <= Cardinality(Clients)
      /\ snapshots[p] + Cardinality(Taking(client, p))
           <= Cardinality(Clients) + (MaxFaults - faults)
  BY <1>0, TakingFinite DEF StormInv
<1>2. CASE Next
  <2>1. CASE RemoveUnresolvable
    <3>1. snapshots' = snapshots /\ client' = client /\ faults' = faults
      BY <2>1 DEF RemoveUnresolvable
    <3> QED  BY <1>0, <1>1, <3>1
  <2>6. ASSUME NEW s \in Sessions, OpenSession(s)
        PROVE  /\ faults' <= MaxFaults
               /\ snapshots'[p] + Cardinality(Taking(client', p))
                    <= Cardinality(Clients) + (MaxFaults - faults')
    <3>1. snapshots' = snapshots /\ faults' = faults
      BY <2>6 DEF OpenSession
    <3>2. ASSUME NEW c \in Clients
          PROVE  client'[c].plan = client[c].plan /\ client'[c].kind = client[c].kind
      <4>1. client[c] \in Client
        BY <1>0
      <4>2. client'[c] = IF Listed(client[c]) THEN [client[c] EXCEPT !.since = @ \cup {s}]
                         ELSE client[c]
        BY <2>6 DEF OpenSession
      <4> QED  BY <4>1, <4>2 DEF Client
    <3>3. Taking(client', p) = Taking(client, p)
      BY <3>2 DEF Taking, At
    <3> QED  BY <1>0, <1>1, <3>1, <3>3
  <2>2. ASSUME NEW q \in Prefixes, CooldownPasses(q)
        PROVE  /\ faults' <= MaxFaults
               /\ snapshots'[p] + Cardinality(Taking(client', p))
                    <= Cardinality(Clients) + (MaxFaults - faults')
    <3>1. client' = client /\ faults' = faults /\ snapshots'[p] \in {snapshots[p], 0}
      BY <1>0, <2>2 DEF CooldownPasses
    <3> QED  BY <1>0, <1>1, <3>1
  <2>3. ASSUME NEW c \in Clients, Steady(c), UNCHANGED snapshots
        PROVE  /\ faults' <= MaxFaults
               /\ snapshots'[p] + Cardinality(Taking(client', p))
                    <= Cardinality(Clients) + (MaxFaults - faults')
    <3>1. PICK r \in Client : /\ client' = [client EXCEPT ![c] = r]
                              /\ ~At(r, "create_snapshot")
      BY <2>3 DEF Steady, Calm
    <3>2. Cardinality(Taking(client', p)) <= Cardinality(Taking(client, p))
      BY <1>0, <3>1, TakingAfter
    <3>3. snapshots' = snapshots /\ faults' <= faults /\ faults' \in Nat
      BY <1>0, <2>3 DEF Steady
    <3> QED  BY <1>0, <1>1, <3>2, <3>3
  <2>4. ASSUME NEW c \in Clients, TakesUp(c)
        PROVE  /\ faults' <= MaxFaults
               /\ snapshots'[p] + Cardinality(Taking(client', p))
                    <= Cardinality(Clients) + (MaxFaults - faults')
    <3>1. PICK r \in Client : /\ client' = [client EXCEPT ![c] = r]
                              /\ r.kind = client[c].kind
      BY <2>4 DEF TakesUp
    <3>2. /\ Cardinality(Taking(client', p)) <= Cardinality(Taking(client, p)) + 1
          /\ PrefixOf(r.kind) # p =>
               Cardinality(Taking(client', p)) <= Cardinality(Taking(client, p))
      BY <1>0, <3>1, TakingAfter
    <3>3. snapshots' = snapshots /\ Prefix(c) = PrefixOf(r.kind)
      BY <2>4, <3>1 DEF TakesUp, Prefix, PrefixOf
    <3>4. CASE Recent(c) > 0
      <4>1. faults > 0 /\ faults' = faults - 1
        BY <2>4, <3>4 DEF TakesUp
      <4> QED  BY <1>0, <1>1, <3>2, <3>3, <4>1
    <3>5. CASE ~(Recent(c) > 0)
      <4>1. faults' = faults
        BY <2>4, <3>5 DEF TakesUp
      <4>2. CASE PrefixOf(r.kind) = p
        <5>1. snapshots[p] = 0
          BY <1>1, <3>3, <3>5, <4>2 DEF Recent
        <5> QED  BY <1>0, <1>1, <3>3, <4>1, <5>1
      <4>3. CASE PrefixOf(r.kind) # p
        BY <1>0, <1>1, <3>2, <3>3, <4>1, <4>3
      <4> QED  BY <4>2, <4>3
    <3> QED  BY <3>4, <3>5
  <2>5. ASSUME NEW c \in Clients, TakesOne(c)
        PROVE  /\ faults' <= MaxFaults
               /\ snapshots'[p] + Cardinality(Taking(client', p))
                    <= Cardinality(Clients) + (MaxFaults - faults')
    <3>1. PICK r \in Client : /\ client' = [client EXCEPT ![c] = r]
                              /\ ~At(r, "create_snapshot")
      BY <2>5 DEF TakesOne, Steady, Calm
    <3>2. /\ Cardinality(Taking(client', p)) <= Cardinality(Taking(client, p))
          /\ c \in Taking(client, p) =>
               Cardinality(Taking(client', p)) <= Cardinality(Taking(client, p)) - 1
      BY <1>0, <3>1, TakingAfter
    <3>3. faults' <= faults /\ faults' \in Nat
      BY <1>0, <2>5 DEF TakesOne, Steady
    <3>4. Prefix(c) = p => c \in Taking(client, p)
      BY <2>5 DEF TakesOne, Taking, Next1, Running, At, Prefix, PrefixOf
    <3>5. /\ Prefix(c) = p => snapshots'[p] \in {snapshots[p], snapshots[p] + 1}
          /\ Prefix(c) # p => snapshots'[p] = snapshots[p]
      BY <1>0, <2>5 DEF TakesOne
    <3>6. CASE Prefix(c) = p
      BY <1>0, <1>1, <3>2, <3>3, <3>4, <3>5, <3>6
    <3>7. CASE Prefix(c) # p
      BY <1>0, <1>1, <3>2, <3>3, <3>5, <3>7
    <3> QED  BY <3>6, <3>7
  <2> QED  BY <1>2, <2>1, <2>2, <2>3, <2>4, <2>5, <2>6, EveryStep
<1>3. CASE UNCHANGED vars
  BY <1>0, <1>1, <1>3 DEF vars
<1> QED  BY <1>2, <1>3

-----------------------------------------------------------------------------
(* Theorems.                                                               *)

LEMMA SpecFits == Spec => []IInv
BY InitFits, IInvKept, PTL DEF Spec

\* The variables keep their types.
THEOREM ContainmentTypeCorrect == Spec => []TypeOK
<1>1. IInv => TypeOK
  BY DEF IInv
<1> QED  BY SpecFits, <1>1, PTL

\* A run reported as contained, pending verification, leaves the user no session but
\* those it does not count as disconnected and, where its mapping is no denial, those
\* opened after it listed them.
THEOREM UserIsOut == Spec => []ContainedUserIsOut
<1>1. IInv => ContainedUserIsOut
  <2> SUFFICES ASSUME IInv, NEW c \in Clients, client[c].status = Pending
               PROVE  sessions \subseteq client[c].missed
                        \cup (IF Replacement \in denying THEN {} ELSE client[c].since)
    BY DEF ContainedUserIsOut, Pending
  <2>1. Fits(client[c], denying, mappings, addressBlocked, sessions)
    BY DEF IInv
  <2>2. client[c].plan = << >>
    BY <2>1 DEF Fits, Pending
  <2>3. client[c].todo = {}
    BY <2>1, <2>2 DEF Fits, At
  <2> QED  BY <2>1, <2>3 DEF Fits, MayBeLeft
<1> QED  BY SpecFits, <1>1, PTL

\* A status that reports containment is backed by every block of its kind.
THEOREM BlocksBackStatus == Spec => []StatusIsBacked
<1>1. IInv => StatusIsBacked
  <2> SUFFICES ASSUME IInv, NEW c \in Clients
               PROVE  /\ client[c].status = "contained" => addressBlocked
                      /\ client[c].status = "contained_pending_denial_verification" =>
                           /\ mappings # {}
                           /\ client[c].kind = "multiprotocol" => addressBlocked
    BY DEF StatusIsBacked
  <2>1. Fits(client[c], denying, mappings, addressBlocked, sessions) /\ client[c].kind \in Kinds
    BY DEF IInv, TypeOK, Client
  <2>2. ASSUME client[c].status = "contained"  PROVE addressBlocked
    BY <2>1, <2>2 DEF Fits
  <2>3. ASSUME client[c].status = "contained_pending_denial_verification"
        PROVE  /\ mappings # {}
               /\ client[c].kind = "multiprotocol" => addressBlocked
    BY <2>1, <2>3 DEF Fits, Pending
  <2> QED  BY <2>2, <2>3
<1> QED  BY SpecFits, <1>1, PTL

\* Where the list shows the times of the snapshots, a cooldown sees at most one
\* snapshot per invocation that can overlap, and one
\* more per list that could not be read or answer that was lost.
THEOREM CooldownHolds == Spec => []NoSnapshotStorm
<1>1. Spec => []StormInv
  BY SpecFits, InitStorm, StormKept, PTL DEF Spec
<1>2. IInv /\ StormInv => NoSnapshotStorm
  <2> SUFFICES ASSUME IInv, StormInv, Timed, NEW p \in Prefixes
               PROVE  snapshots[p] <= Cardinality(Clients) + (MaxFaults - faults)
    BY DEF NoSnapshotStorm
  <2>1. /\ Cardinality(Taking(client, p)) \in Nat /\ Cardinality(Clients) \in Nat
        /\ snapshots[p] \in Nat /\ faults \in Nat /\ MaxFaults \in Nat
    BY TakingFinite, ConstantsAssumption DEF IInv, TypeOK, ConstantsAssumption
  <2> QED  BY <2>1 DEF StormInv
<1> QED  BY SpecFits, <1>1, <1>2, PTL


-----------------------------------------------------------------------------
(* The invariant.                                                          *)

Typed ==
  /\ layer \in Layers
  /\ DOMAIN rules \subseteq Numbers
  /\ \A n \in DOMAIN rules : rules[n] \in Rule
  /\ call \in [Callers -> Call]

\* A call that runs is about one subject and has not returned; only one that deletes
\* is overtaken.
Calling(c) ==
  /\ Stands(c, "idle") \/ (call[c].result = "none" /\ \E s \in Subjects : call[c].who = {s})
  /\ call[c].overtaken => Stands(c, "delete")

\* Which calls there are of each list.
Separate ==
  \A c \in Callers : IF layer = "acl" THEN ~Stands(c, "post")
                     ELSE ~Stands(c, "find") /\ ~Stands(c, "create")

\* The site's own entry is behind all others.
Behind ==
  \A n \in DOMAIN rules : rules[n].by = "site" =>
    layer # "acl" /\ \A m \in DOMAIN rules : m <= n

\* As long as no other call overtakes it, the numbers a call deletes carry matching
\* rules, and the blocks of its subject are among them or were made since.
Aimed(c) == Stands(c, "delete") /\ ~call[c].overtaken =>
  /\ call[c].todo \subseteq DOMAIN rules
  /\ \A n \in call[c].todo, s \in call[c].who : Matches(rules[n], s)
  /\ \A n \in DOMAIN rules, s \in call[c].who :
       rules[n] = DenyRule(s) => n \in call[c].todo \cup call[c].since

\* A call deletes no number behind the site's entry, and that of the site's entry only
\* if it is for the user of the site's mapping: entries never move to the front.
InFront(c) == Stands(c, "delete") =>
  \A n \in call[c].todo, m \in DOMAIN rules : rules[m].by = "site" =>
    n <= m /\ (n = m => layer = "mapping" /\ rules[m].who \in call[c].who)

RulesInv ==
  /\ Typed /\ Separate /\ Behind
  /\ \A c \in Callers : Calling(c) /\ Aimed(c) /\ InFront(c)

LEMMA InitInv == RulesInit => RulesInv
<1> SUFFICES ASSUME RulesInit PROVE RulesInv
  OBVIOUS
<1>1. 1 \in Numbers
  BY RulesAssumption DEF RulesAssumption, Numbers
<1>2. Idle("none") \in Call /\ Idle("none").pc = "idle"
  BY DEF Idle, Call, Pcs, Results
<1>3. DOMAIN rules = IF layer = "acl" THEN {} ELSE {1}
  BY DEF RulesInit
<1>4. PICK u \in Subjects : \A n \in DOMAIN rules : rules[n] = [by |-> "site", who |-> u]
  BY DEF RulesInit
<1>5. Typed
  BY <1>1, <1>2, <1>3, <1>4 DEF RulesInit, Typed, Rule
<1>6. \A c \in Callers : Stands(c, "idle") /\ ~call[c].overtaken
  BY <1>2 DEF RulesInit, Stands, Idle
<1>7. Separate /\ \A c \in Callers : Calling(c) /\ Aimed(c) /\ InFront(c)
  BY <1>6 DEF Separate, Calling, Aimed, InFront, Stands
<1>8. Behind
  BY <1>3, <1>4 DEF Behind
<1> QED  BY <1>5, <1>7, <1>8 DEF RulesInv

-----------------------------------------------------------------------------
(* Rules and calls.                                                        *)

LEMMA WithoutFacts ==
  ASSUME NEW n
  PROVE  /\ DOMAIN Without(n) = DOMAIN rules \ {n}
         /\ \A m \in DOMAIN rules \ {n} : Without(n)[m] = rules[m]
  BY DEF Without

\* What ONTAP makes of an entry at index 1: the same rules, and the new one before
\* every other.
LEMMA InsertedFacts ==
  ASSUME Typed, NEW s \in Subjects
  PROVE  /\ 1 \in DOMAIN Inserted(s) /\ Inserted(s)[1] = DenyRule(s)
         /\ \A m \in DOMAIN Inserted(s) : m = 1 \/ \E n \in DOMAIN rules :
              Inserted(s)[m] = rules[n] /\ m \in {n, n + 1}
         /\ \A n \in DOMAIN rules : \E m \in DOMAIN Inserted(s) : Inserted(s)[m] = rules[n]
         /\ \A n \in DOMAIN rules : (\A m \in DOMAIN rules : m <= n) =>
              \E k \in DOMAIN Inserted(s) :
                Inserted(s)[k] = rules[n] /\ \A m \in DOMAIN Inserted(s) : m <= k
<1>1. \A n \in DOMAIN rules : n \in Nat /\ n >= 1
  BY RulesAssumption DEF RulesAssumption, Typed, Numbers
<1>2. CASE 1 \in DOMAIN rules
  <2> DEFINE D == {1} \cup {m + 1 : m \in DOMAIN rules}
  <2>1. Inserted(s) = [n \in D |-> IF n = 1 THEN DenyRule(s) ELSE rules[n - 1]]
    BY <1>2 DEF Inserted
  <2>2. DOMAIN Inserted(s) = D /\ Inserted(s)[1] = DenyRule(s)
    BY <2>1
  <2>3. \A n \in DOMAIN rules : n + 1 \in D /\ Inserted(s)[n + 1] = rules[n]
    BY <1>1, <2>1
  <2>4. \A m \in D : m = 1 \/ \E n \in DOMAIN rules : m = n + 1
    OBVIOUS
  <2> HIDE DEF D
  <2>5. 1 \in D
    BY DEF D
  <2>6. ASSUME NEW n \in DOMAIN rules, \A m \in DOMAIN rules : m <= n
        PROVE  \A m \in D : m <= n + 1
    BY <1>1, <2>4, <2>6
  <2> QED  BY <1>1, <2>2, <2>3, <2>4, <2>5, <2>6
<1>3. CASE 1 \notin DOMAIN rules
  <2>1. Inserted(s) = With(1, s)
    BY <1>3 DEF Inserted
  <2>2. /\ DOMAIN Inserted(s) = DOMAIN rules \cup {1} /\ Inserted(s)[1] = DenyRule(s)
        /\ \A m \in DOMAIN rules : Inserted(s)[m] = rules[m]
    <3>1. DOMAIN With(1, s) = DOMAIN rules \cup {1} /\ With(1, s)[1] = DenyRule(s)
      BY DEF With
    <3>2. \A m \in DOMAIN rules : With(1, s)[m] = rules[m]
      BY <1>3 DEF With
    <3> QED  BY <2>1, <3>1, <3>2
  <2> QED  BY <1>1, <2>2
<1> QED  BY <1>2, <1>3

\* The record of one client is replaced.
LEMMA Becomes ==
  ASSUME Typed, NEW c \in Callers, NEW new \in Call, call' = [call EXCEPT ![c] = new]
  PROVE  /\ call' \in [Callers -> Call] /\ call'[c] = new
         /\ \A d \in Callers \ {c} : call'[d] = call[d]
  BY DEF Typed

LEMMA IdleFacts ==
  ASSUME NEW r \in Results
  PROVE  /\ Idle(r) \in Call /\ Idle(r).pc = "idle" /\ Idle(r).result = r
         /\ Idle(r).who = {} /\ Idle(r).todo = {} /\ ~Idle(r).overtaken
  BY DEF Idle, Call, Pcs

\* A call begins.
LEMMA Begins ==
  ASSUME Typed, NEW c \in Callers, NEW s \in Subjects, NEW p \in Pcs,
         call' = [call EXCEPT ![c] = [Idle("none") EXCEPT !.pc = p, !.who = {s}]]
  PROVE  /\ call' \in [Callers -> Call] /\ call'[c].pc = p
         /\ call'[c].who = {s} /\ call'[c].result = "none" /\ ~call'[c].overtaken
         /\ \A d \in Callers \ {c} : call'[d] = call[d]
<1> DEFINE new == [Idle("none") EXCEPT !.pc = p, !.who = {s}]
<1>1. new \in Call
  BY DEF Idle, Call, Pcs, Results
<1>2. new.pc = p /\ new.who = {s} /\ new.result = "none" /\ ~new.overtaken
  BY DEF Idle
<1>3. call' = [call EXCEPT ![c] = new]
  OBVIOUS
<1> HIDE DEF new
<1> QED  BY <1>1, <1>2, <1>3, Becomes

\* A call moves on.
LEMMA Moves ==
  ASSUME Typed, NEW c \in Callers, NEW p \in Pcs, NEW t \in SUBSET Numbers,
         call' = [call EXCEPT ![c].pc = p, ![c].todo = t]
  PROVE  /\ call' \in [Callers -> Call] /\ call'[c].pc = p /\ call'[c].todo = t
         /\ call'[c].who = call[c].who /\ call'[c].since = call[c].since
         /\ call'[c].result = call[c].result /\ call'[c].overtaken = call[c].overtaken
         /\ \A d \in Callers \ {c} : call'[d] = call[d]
<1>0. call[c] \in Call /\ call \in [Callers -> Call]
  BY DEF Typed
<1> DEFINE new == [call[c] EXCEPT !.pc = p, !.todo = t]
<1>1. new \in Call
  BY <1>0 DEF Call
<1>2. /\ new.pc = p /\ new.todo = t /\ new.who = call[c].who
      /\ new.since = call[c].since /\ new.result = call[c].result
      /\ new.overtaken = call[c].overtaken
  BY <1>0 DEF Call
<1>3. call' = [call EXCEPT ![c] = new]
  BY <1>0 DEF Call
<1> HIDE DEF new
<1> QED  BY <1>1, <1>2, <1>3, Becomes

LEMMA Returns ==
  ASSUME Typed, NEW c \in Callers, NEW r \in Results, Return(c, r)
  PROVE  /\ call' \in [Callers -> Call] /\ call'[c].pc = "idle"
         /\ call'[c].result = r /\ ~call'[c].overtaken
         /\ \A d \in Callers \ {c} : call'[d] = call[d]
  BY IdleFacts, Becomes DEF Return

\* A call goes on and overtakes others.
LEMMA OvertakesFacts ==
  ASSUME Typed, NEW c \in Callers, NEW mine \in Call, NEW passed, Overtakes(c, mine, passed)
  PROVE  /\ call' \in [Callers -> Call] /\ call'[c] = mine
         /\ \A d \in Callers \ {c} :
              /\ call'[d].pc = call[d].pc /\ call'[d].who = call[d].who
              /\ call'[d].todo = call[d].todo /\ call'[d].since = call[d].since
              /\ call'[d].result = call[d].result
              /\ call'[d].overtaken = (call[d].overtaken \/ d \in passed)
<1>1. \A d \in Callers : call[d] \in Call
  BY DEF Typed
<1>2. \A d \in Callers : [call[d] EXCEPT !.overtaken = TRUE] \in Call
  BY <1>1 DEF Call
<1>3. \A d \in Callers :
        (IF d = c THEN mine
         ELSE IF d \in passed THEN [call[d] EXCEPT !.overtaken = TRUE] ELSE call[d]) \in Call
  BY <1>1, <1>2
<1>4. call' \in [Callers -> Call]
  BY <1>3 DEF Overtakes
<1>5. \A d \in Callers :
        call'[d] = IF d = c THEN mine
                   ELSE IF d \in passed THEN [call[d] EXCEPT !.overtaken = TRUE] ELSE call[d]
  BY DEF Overtakes
<1>6. ASSUME NEW d \in Callers \ {c}
      PROVE  /\ call'[d].pc = call[d].pc /\ call'[d].who = call[d].who
             /\ call'[d].todo = call[d].todo /\ call'[d].since = call[d].since
             /\ call'[d].result = call[d].result
             /\ call'[d].overtaken = (call[d].overtaken \/ d \in passed)
  <2>1. CASE d \in passed
    <3>1. call'[d] = [call[d] EXCEPT !.overtaken = TRUE]
      BY <1>5, <2>1
    <3> QED  BY <1>1, <2>1, <3>1 DEF Call
  <2>2. CASE d \notin passed
    BY <1>1, <1>5, <2>2 DEF Call
  <2> QED  BY <2>1, <2>2
<1> QED  BY <1>4, <1>5, <1>6

-----------------------------------------------------------------------------
(* The steps.  Each one is shown to keep the invariant, to be a step of the *)
(* list of blocks or none, to leave the site's entry alone unless it is     *)
(* excused, and to return from an unblock only when the subject's rules are *)
(* gone.                                                                    *)

Complete ==
  \A c \in Callers :
    Unblocking(c) /\ ~call[c].overtaken /\ call'[c].result \in {"unblocked", "not_found"} =>
      \A n \in DOMAIN rules', s \in call[c].who : rules'[n] = DenyRule(s) => n \in call[c].since

SiteStays ==
  \A n \in DOMAIN rules : rules[n].by = "site" =>
    \/ \E k \in DOMAIN rules' : rules'[k] = rules[n] /\ \A m \in DOMAIN rules' : m <= k
    \/ \E c \in Deleting :
         /\ n \in call[c].todo /\ call'[c] # call[c]
         /\ layer = "mapping" /\ rules[n].who \in call[c].who

AbsStep == Promise!AbsNext \/ UNCHANGED <<ActiveBlocks, Lifting>>

Kept == RulesInv' /\ AbsStep /\ Complete /\ SiteStays

\* A step of c that leaves the rules and the other calls alone.
LEMMA ClientStep ==
  ASSUME RulesInv, NEW c \in Callers, UNCHANGED <<layer, rules>>,
         call' \in [Callers -> Call],
         \A d \in Callers \ {c} : call'[d] = call[d],
         Calling(c)', Aimed(c)', InFront(c)',
         IF layer = "acl" THEN call'[c].pc # "post" ELSE call'[c].pc \notin {"find", "create"}
  PROVE  RulesInv' /\ SiteStays
<1>1. Typed' /\ Behind'
  BY DEF RulesInv, Typed, Behind
<1>2. ASSUME NEW d \in Callers \ {c} PROVE Calling(d)' /\ Aimed(d)' /\ InFront(d)'
  BY <1>2 DEF RulesInv, Calling, Aimed, InFront, Stands, Matches
<1>3. Separate'
  BY DEF RulesInv, Separate, Stands
<1>4. SiteStays
  BY DEF RulesInv, Behind, SiteStays
<1> QED  BY <1>1, <1>2, <1>3, <1>4 DEF RulesInv

\* As long as the rules and the unblocking calls stay, so do the blocks.
LEMMA BlocksStay == UNCHANGED rules => UNCHANGED ActiveBlocks
  BY DEF ActiveBlocks

LEMMA LiftingStays ==
  ASSUME UNCHANGED layer,
         \A d \in Callers : Unblocking(d)' = Unblocking(d),
         \A d \in Callers : Unblocking(d) => call'[d].who = call[d].who,
         \A d \in Callers : (call'[d].overtaken <=> call[d].overtaken)
  PROVE  UNCHANGED Lifting
  BY DEF Lifting, Unblocking, Matches, DenyRule

\* An unblock under way lifts its subject at least; who does not unblock lifts nothing.
LEMMA LiftsSome ==
  ASSUME RulesInv, NEW c \in Callers
  PROVE  /\ Lifting \in [Callers -> SUBSET Subjects]
         /\ Unblocking(c) => Lifting[c] # {}
         /\ ~Unblocking(c) => Lifting[c] = {} /\ ~call[c].overtaken
<1>1. Lifting \in [Callers -> SUBSET Subjects]
  BY DEF Lifting, Unblocking, Matches, DenyRule
<1>2. ASSUME Unblocking(c) PROVE Lifting[c] # {}
  <2>1. PICK s \in Subjects : call[c].who = {s}
    BY <1>2 DEF RulesInv, Calling, Unblocking, Stands
  <2>2. Matches(DenyRule(s), s)
    BY DEF Matches, DenyRule
  <2>3. s \in Lifting[c]
    BY <1>2, <2>1, <2>2 DEF Lifting, Unblocking, Matches, DenyRule
  <2> QED  BY <2>3
<1>3. ASSUME ~Unblocking(c) PROVE Lifting[c] = {} /\ ~call[c].overtaken
  BY <1>3 DEF RulesInv, Calling, Unblocking, Stands, Lifting
<1> QED  BY <1>1, <1>2, <1>3

\* What a step of c does to the lifts of the others.
LEMMA Astray ==
  ASSUME RulesInv, NEW c \in Callers, UNCHANGED layer,
         \A d \in Callers \ {c} :
           /\ call'[d].pc = call[d].pc /\ call'[d].who = call[d].who
           /\ call[d].overtaken => call'[d].overtaken
           /\ call'[d].overtaken => call[d].overtaken \/ Stands(d, "delete")
  PROVE  Promise!GoAstray(c, [Lifting EXCEPT ![c] = Lifting'[c]])
<1> DEFINE from == [Lifting EXCEPT ![c] = Lifting'[c]]
           astray == {d \in Callers \ {c} : call'[d].overtaken /\ ~call[d].overtaken}
<1>1. Lifting \in [Callers -> SUBSET Subjects]
  BY LiftsSome
<1>2. /\ DOMAIN from = Callers /\ from[c] = Lifting'[c]
      /\ \A d \in Callers \ {c} : from[d] = Lifting[d]
  BY <1>1
<1> HIDE DEF from
<1>3. ASSUME NEW d \in astray PROVE d \in Callers \ {c} /\ from[d] # {} /\ Lifting'[d] = Subjects
  <2>1. Unblocking(d) /\ d \in Callers \ {c} /\ call'[d].overtaken
    BY DEF Unblocking, Stands
  <2>2. Lifting[d] # {}
    BY <2>1, LiftsSome
  <2>3. Lifting'[d] = Subjects
    BY <2>1 DEF Lifting, Unblocking, Matches, DenyRule
  <2> QED  BY <1>2, <2>1, <2>2, <2>3
<1>4. ASSUME NEW d \in Callers \ {c}, d \notin astray PROVE Lifting'[d] = from[d]
  <2>1. /\ Unblocking(d)' = Unblocking(d) /\ call'[d].who = call[d].who
        /\ call'[d].overtaken <=> call[d].overtaken
    BY <1>4 DEF Unblocking
  <2>2. \A s, t \in Subjects : Matches(DenyRule(s), t)' = Matches(DenyRule(s), t)
    BY DEF Matches, DenyRule
  <2>3. CASE call[d].overtaken
    BY <1>2, <2>1, <2>3 DEF Lifting, Unblocking, Matches, DenyRule
  <2>4. CASE ~call[d].overtaken /\ ~Unblocking(d)
    BY <1>2, <2>1, <2>4 DEF Lifting, Unblocking, Matches, DenyRule
  <2>5. CASE ~call[d].overtaken /\ Unblocking(d)
    <3>1. PICK t \in Subjects : call[d].who = {t}
      BY <2>5 DEF RulesInv, Calling, Unblocking, Stands
    <3>2. /\ Lifting[d] = {s \in Subjects : Matches(DenyRule(s), t)}
          /\ Lifting'[d] = {s \in Subjects : Matches(DenyRule(s), t)'}
      BY <2>1, <2>5, <3>1 DEF Lifting, Unblocking, Matches, DenyRule
    <3> QED  BY <1>2, <2>2, <3>2
  <2> QED  BY <2>3, <2>4, <2>5
<1>5. Lifting' = [d \in Callers |-> Lifting'[d]]
  BY DEF Lifting, Unblocking, Matches, DenyRule
<1>6. \A d \in Callers : Lifting'[d] = IF d \in astray THEN Subjects ELSE from[d]
  <2>1. c \notin astray
    OBVIOUS
  <2> HIDE DEF astray
  <2> QED  BY <1>2, <1>3, <1>4, <2>1
<1>7. Lifting' = [d \in Callers |-> IF d \in astray THEN Subjects ELSE from[d]]
  <2> HIDE DEF astray
  <2> QED  BY <1>5, <1>6
<1>8. astray \in SUBSET {d \in Callers \ {c} : from[d] # {}}
  BY <1>3
<1> HIDE DEF astray
<1>9. Promise!GoAstray(c, from)
  BY <1>7, <1>8 DEF Promise!GoAstray
<1> QED  BY <1>9 DEF from

\* The beginning of a block.
LEMMA StartBlockKept ==
  ASSUME RulesInv, NEW c \in Callers, NEW s \in Subjects, StartBlock(c, s) \/ StartPost(c, s)
  PROVE  Kept
<1> DEFINE p == IF layer = "acl" THEN "find" ELSE "post"
<1>0. Typed /\ p \in Pcs /\ p \in {"find", "post"}
  BY DEF RulesInv, Pcs
<1>1. /\ call' = [call EXCEPT ![c] = [Idle("none") EXCEPT !.pc = p, !.who = {s}]]
      /\ UNCHANGED <<layer, rules>> /\ Stands(c, "idle")
  BY DEF StartBlock, StartPost
<1>2. layer = "acl" <=> p = "find"
  BY DEF p
<1> HIDE DEF p
<1>3. /\ call' \in [Callers -> Call] /\ call'[c].pc = p
      /\ call'[c].who = {s} /\ call'[c].result = "none" /\ ~call'[c].overtaken
      /\ \A d \in Callers \ {c} : call'[d] = call[d]
  BY <1>0, <1>1, Begins
<1>4. Calling(c)' /\ Aimed(c)' /\ InFront(c)'
  BY <1>0, <1>3 DEF Calling, Aimed, InFront, Stands
<1>5. RulesInv' /\ SiteStays
  BY <1>0, <1>1, <1>2, <1>3, <1>4, ClientStep
<1>6. \A d \in Callers : /\ Unblocking(d)' = Unblocking(d) /\ (Unblocking(d) => d # c)
                        /\ (call'[d].overtaken <=> call[d].overtaken)
  BY <1>0, <1>1, <1>3 DEF RulesInv, Calling, Unblocking, Stands
<1>7. AbsStep
  BY <1>1, <1>3, <1>6, BlocksStay, LiftingStays DEF AbsStep
<1>8. Complete
  BY <1>0, <1>1, <1>3, <1>6 DEF RulesInv, Calling, Complete, Unblocking, Stands
<1> QED  BY <1>5, <1>7, <1>8 DEF Kept

\* A block that returns without a rule, or has found its number.
LEMMA FindNumberKept ==
  ASSUME RulesInv, NEW c \in Callers,
         ~Unblocking(c), ~Stands(c, "idle"), UNCHANGED <<layer, rules>>,
         \/ \E r \in Results : Return(c, r)
         \/ /\ Stands(c, "find")
            /\ \E n \in Numbers : call' = [call EXCEPT ![c].pc = "create", ![c].todo = {n}]
  PROVE  Kept
<1>0. Typed /\ Separate
  BY DEF RulesInv
<1>1. /\ call' \in [Callers -> Call]
      /\ \A d \in Callers \ {c} : call'[d] = call[d]
      /\ \/ call'[c].pc = "idle"
         \/ /\ call'[c].pc = "create" /\ Stands(c, "find")
            /\ call'[c].who = call[c].who /\ call'[c].result = call[c].result
      /\ ~call'[c].overtaken /\ ~call[c].overtaken
  <2>1. ASSUME NEW r \in Results, Return(c, r)
        PROVE  /\ call' \in [Callers -> Call] /\ call'[c].pc = "idle" /\ ~call'[c].overtaken
               /\ \A d \in Callers \ {c} : call'[d] = call[d]
    BY <1>0, <2>1, Returns
  <2>2. ASSUME NEW n \in Numbers,
               call' = [call EXCEPT ![c].pc = "create", ![c].todo = {n}]
        PROVE  /\ call' \in [Callers -> Call] /\ call'[c].pc = "create"
               /\ call'[c].who = call[c].who /\ call'[c].result = call[c].result
               /\ call'[c].overtaken = call[c].overtaken
               /\ \A d \in Callers \ {c} : call'[d] = call[d]
    <3>1. "create" \in Pcs /\ {n} \in SUBSET Numbers
      BY DEF Pcs
    <3> QED  BY <1>0, <2>2, <3>1, Moves
  <2>3. ~call[c].overtaken
    BY LiftsSome
  <2> QED  BY <2>1, <2>2, <2>3
<1>2. Calling(c)' /\ Aimed(c)' /\ InFront(c)'
  BY <1>1 DEF RulesInv, Calling, Aimed, InFront, Stands
<1>3. IF layer = "acl" THEN call'[c].pc # "post" ELSE call'[c].pc \notin {"find", "create"}
  BY <1>0, <1>1 DEF Separate
<1>4. RulesInv' /\ SiteStays
  BY <1>1, <1>2, <1>3, ClientStep
<1>5. \A d \in Callers : /\ Unblocking(d)' = Unblocking(d) /\ (Unblocking(d) => d # c)
                        /\ (call'[d].overtaken <=> call[d].overtaken)
  BY <1>1 DEF Unblocking
<1>6. AbsStep
  BY <1>1, <1>5, BlocksStay, LiftingStays DEF AbsStep
<1>7. Complete
  BY <1>1, <1>5 DEF RulesInv, Calling, Complete, Unblocking, Stands
<1> QED  BY <1>4, <1>6, <1>7 DEF Kept

\* The beginning of an unblock.
LEMMA StartUnblockKept ==
  ASSUME RulesInv, NEW c \in Callers, NEW s \in Subjects, StartUnblock(c, s) PROVE Kept
<1>0. Typed /\ "read" \in Pcs
  BY DEF RulesInv, Pcs
<1>1. /\ call' = [call EXCEPT ![c] = [Idle("none") EXCEPT !.pc = "read", !.who = {s}]]
      /\ UNCHANGED <<layer, rules>> /\ Stands(c, "idle")
  BY DEF StartUnblock
<1>2. /\ call' \in [Callers -> Call] /\ call'[c].pc = "read"
      /\ call'[c].who = {s} /\ call'[c].result = "none" /\ ~call'[c].overtaken
      /\ \A d \in Callers \ {c} : call'[d] = call[d]
  BY <1>0, <1>1, Begins
<1>3. Calling(c)' /\ Aimed(c)' /\ InFront(c)'
  BY <1>2 DEF Calling, Aimed, InFront, Stands
<1>4. RulesInv' /\ SiteStays
  BY <1>1, <1>2, <1>3, ClientStep
<1>5. ~Unblocking(c)
  BY <1>1 DEF Stands, Unblocking
<1>6. AbsStep
  <2> DEFINE matched == {t \in Subjects : \E u \in {s} : Matches(DenyRule(t), u)}
  <2>1. Lifting[c] = {} /\ Lifting \in [Callers -> SUBSET Subjects]
    BY <1>5, LiftsSome
  <2>2. Lifting' = [Lifting EXCEPT ![c] = matched]
    <3>0. layer' = layer
      BY <1>1
    <3>1. Lifting' = [d \in Callers |-> IF d = c THEN matched ELSE Lifting[d]]
      BY <3>0, <1>2 DEF Lifting, Unblocking, Matches, DenyRule
    <3> QED  BY <2>1, <3>1
  <2>3. matched \in SUBSET Subjects
    OBVIOUS
  <2> HIDE DEF matched
  <2>4. Promise!BeginLift(c)
    BY <1>1, <2>1, <2>2, <2>3, BlocksStay DEF Promise!BeginLift
  <2> QED  BY <2>4 DEF AbsStep, Promise!AbsNext
<1>7. Complete
  BY <1>2, <1>5 DEF RulesInv, Calling, Complete, Unblocking, Stands
<1> QED  BY <1>4, <1>6, <1>7 DEF Kept

\* The end of a call's part in the abstract list.
LEMMA Ends ==
  ASSUME RulesInv, NEW c \in Callers, UNCHANGED layer, Unblocking(c),
         ~Unblocking(c)', ~call'[c].overtaken,
         \A d \in Callers \ {c} :
           /\ call'[d].pc = call[d].pc /\ call'[d].who = call[d].who
           /\ call[d].overtaken => call'[d].overtaken
           /\ call'[d].overtaken => call[d].overtaken \/ Stands(d, "delete"),
         NEW lifted \in SUBSET Lifting[c], ActiveBlocks' = ActiveBlocks \ lifted
  PROVE  AbsStep
<1>1. Lifting'[c] = {}
  BY DEF Lifting, Unblocking, Matches, DenyRule
<1>2. Promise!GoAstray(c, [Lifting EXCEPT ![c] = {}])
  BY <1>1, Astray
<1>3. Lifting[c] # {}
  BY LiftsSome
<1>4. Promise!EndLift(c)
  BY <1>2, <1>3 DEF Promise!EndLift
<1> QED  BY <1>4 DEF AbsStep, Promise!AbsNext

\* An unblock reads the list.
LEMMA ReadRulesKept ==
  ASSUME RulesInv, NEW c \in Callers, ReadRules(c) PROVE Kept
<1>0. Typed /\ Separate /\ Stands(c, "read") /\ Unblocking(c) /\ UNCHANGED <<layer, rules>>
  BY DEF RulesInv, ReadRules, Stands, Unblocking
<1>1. PICK s \in Subjects : call[c].who = {s}
  BY <1>0 DEF RulesInv, Calling, Stands
<1> DEFINE found == {n \in DOMAIN rules : Matches(rules[n], s)}
<1>2. \A n \in DOMAIN rules, t \in call[c].who : rules[n] = DenyRule(t) => n \in found
  BY <1>1 DEF Matches, DenyRule
<1>3. \/ found = {} /\ Return(c, "not_found")
      \/ call' = [call EXCEPT ![c].pc = "delete", ![c].todo = found]
      \/ Return(c, "error")
  BY <1>1 DEF ReadRules
<1>4. found \in SUBSET Numbers /\ \A n \in found : n \in DOMAIN rules /\ Matches(rules[n], s)
  BY <1>0 DEF Typed
<1> HIDE DEF found
<1>5. CASE Return(c, "error") \/ (found = {} /\ Return(c, "not_found"))
  <2>1. /\ call' \in [Callers -> Call] /\ call'[c].pc = "idle" /\ ~call'[c].overtaken
        /\ call'[c].result \in {"error", "not_found"}
        /\ call'[c].result = "not_found" => found = {}
        /\ \A d \in Callers \ {c} : call'[d] = call[d]
    BY <1>0, <1>5, Returns DEF Results
  <2>2. Calling(c)' /\ Aimed(c)' /\ InFront(c)'
    BY <2>1 DEF Calling, Aimed, InFront, Stands
  <2>3. RulesInv' /\ SiteStays
    BY <1>0, <2>1, <2>2, ClientStep
  <2>4. AbsStep
    <3>1. {} \in SUBSET Lifting[c] /\ ActiveBlocks' = ActiveBlocks \ {}
      BY <1>0, BlocksStay
    <3>2. ~Unblocking(c)'
      BY <2>1 DEF Unblocking
    <3> QED  BY <1>0, <2>1, <3>1, <3>2, Ends
  <2>5. Complete
    <3>1. ASSUME NEW d \in Callers \ {c}, Unblocking(d) PROVE call'[d].result = "none"
      BY <2>1, <3>1 DEF RulesInv, Calling, Unblocking, Stands
    <3>2. call'[c].result = "not_found" => 
            \A n \in DOMAIN rules, t \in call[c].who : rules[n] # DenyRule(t)
      BY <1>2, <2>1
    <3> QED  BY <1>0, <2>1, <3>1, <3>2 DEF Complete
  <2> QED  BY <2>3, <2>4, <2>5 DEF Kept
<1>6. CASE call' = [call EXCEPT ![c].pc = "delete", ![c].todo = found]
  <2>1. /\ call' \in [Callers -> Call] /\ call'[c].pc = "delete" /\ call'[c].todo = found
        /\ call'[c].who = call[c].who /\ call'[c].since = call[c].since
        /\ call'[c].result = call[c].result /\ call'[c].overtaken = call[c].overtaken
        /\ \A d \in Callers \ {c} : call'[d] = call[d]
    BY <1>0, <1>4, <1>6, Moves DEF Pcs
  <2>2. Calling(c)'
    BY <1>0, <2>1 DEF RulesInv, Calling, Stands
  <2>3. Aimed(c)'
    <3>1. \A n \in found, t \in call[c].who : Matches(rules[n], t)'
      BY <1>0, <1>1, <1>4 DEF Matches
    <3> QED  BY <1>0, <1>2, <1>4, <2>1, <3>1 DEF Aimed
  <2>3a. InFront(c)'
    <3>1. SUFFICES ASSUME NEW n \in found, NEW m \in DOMAIN rules, rules[m].by = "site"
                   PROVE  n <= m /\ (n = m => layer = "mapping" /\ rules[m].who \in call[c].who)
      BY <1>0, <2>1 DEF InFront
    <3>2. layer # "acl" /\ n <= m
      BY <1>4, <3>1 DEF RulesInv, Behind
    <3>3. n = m => layer = "mapping" /\ rules[m].who \in call[c].who
      BY <1>0, <1>1, <1>4, <3>1, <3>2 DEF Matches, Typed, Layers
    <3> QED  BY <3>2, <3>3
  <2>4. RulesInv' /\ SiteStays
    BY <1>0, <2>1, <2>2, <2>3, <2>3a, ClientStep DEF Stands
  <2>5. \A d \in Callers :
          Unblocking(d)' = Unblocking(d) /\ (call'[d].overtaken <=> call[d].overtaken)
    BY <1>0, <2>1 DEF Unblocking
  <2>6. AbsStep
    BY <1>0, <2>1, <2>5, BlocksStay, LiftingStays DEF AbsStep
  <2>7. Complete
    BY <1>0, <2>1, <2>5 DEF RulesInv, Calling, Complete, Unblocking, Stands
  <2> QED  BY <2>4, <2>6, <2>7 DEF Kept
<1> QED  BY <1>3, <1>5, <1>6

\* c returns from the creation of a rule.
LEMMA NotedFacts ==
  ASSUME Typed, NEW c \in Callers, NEW n \in Numbers, NEW r \in Results, Noted(c, n, r)
  PROVE  /\ call' \in [Callers -> Call] /\ call'[c] = Idle(r)
         /\ \A d \in Callers \ {c} :
              /\ call'[d].pc = call[d].pc /\ call'[d].who = call[d].who
              /\ call'[d].todo = call[d].todo /\ call'[d].result = call[d].result
              /\ call'[d].overtaken = call[d].overtaken
              /\ call[d].since \subseteq call'[d].since
              /\ Stands(d, "delete") /\ call[d].who = call[c].who => n \in call'[d].since
<1>1. call \in [Callers -> Call] /\ Idle(r) \in Call
  BY IdleFacts DEF Typed
<1>2. \A d \in Callers :
        call'[d] = IF d = c THEN Idle(r)
                     ELSE IF Stands(d, "delete") /\ call[d].who = call[c].who
                          THEN [call[d] EXCEPT !.since = @ \cup {n}] ELSE call[d]
  BY DEF Noted
<1>3. \A d \in Callers : call[d] \in Call
  BY <1>1
<1>4. \A d \in Callers : [call[d] EXCEPT !.since = @ \cup {n}] \in Call
  BY <1>3 DEF Call
<1>5. call' \in [Callers -> Call]
  <2>1. \A d \in Callers :
          (IF d = c THEN Idle(r)
           ELSE IF Stands(d, "delete") /\ call[d].who = call[c].who
                THEN [call[d] EXCEPT !.since = @ \cup {n}] ELSE call[d]) \in Call
    BY <1>1, <1>3, <1>4
  <2> QED  BY <2>1 DEF Noted
<1>6. ASSUME NEW d \in Callers \ {c}
      PROVE  /\ call'[d].pc = call[d].pc /\ call'[d].who = call[d].who
             /\ call'[d].todo = call[d].todo /\ call'[d].result = call[d].result
             /\ call'[d].overtaken = call[d].overtaken
             /\ call[d].since \subseteq call'[d].since
             /\ Stands(d, "delete") /\ call[d].who = call[c].who => n \in call'[d].since
  BY <1>2, <1>3 DEF Call
<1> QED  BY <1>2, <1>5, <1>6

\* An ACL entry is created.
LEMMA CreateKept ==
  ASSUME RulesInv, NEW c \in Callers, Create(c) PROVE Kept
<1>0. /\ Typed /\ Separate /\ Stands(c, "create") /\ ~Unblocking(c) /\ ~Stands(c, "idle")
      /\ UNCHANGED layer /\ call[c] \in Call
  BY DEF RulesInv, Typed, Create, Stands, Unblocking
<1>1. layer = "acl"
  BY <1>0 DEF Separate
<1>2. PICK n \in call[c].todo, s \in call[c].who :
        \/ n \in Unused /\ rules' = With(n, s) /\ (Noted(c, n, "blocked") \/ Noted(c, n, "error"))
        \/ Return(c, "error") /\ UNCHANGED rules
  BY DEF Create
<1>3. n \in Numbers /\ s \in Subjects /\ call[c].who = {s}
  BY <1>0 DEF RulesInv, Calling, Call, Stands
<1>4. CASE Return(c, "error") /\ UNCHANGED rules
  <2>1. "error" \in Results
    BY DEF Results
  <2> QED  BY <1>0, <1>4, <2>1, FindNumberKept
<1>5. CASE n \in Unused /\ rules' = With(n, s) /\ (Noted(c, n, "blocked") \/ Noted(c, n, "error"))
  <2>1. PICK r \in Results : Noted(c, n, r)
    BY <1>5 DEF Results
  <2>2. /\ call' \in [Callers -> Call] /\ call'[c] = Idle(r)
        /\ \A d \in Callers \ {c} :
             /\ call'[d].pc = call[d].pc /\ call'[d].who = call[d].who
             /\ call'[d].todo = call[d].todo /\ call'[d].result = call[d].result
             /\ call'[d].overtaken = call[d].overtaken
             /\ call[d].since \subseteq call'[d].since
             /\ Stands(d, "delete") /\ call[d].who = call[c].who => n \in call'[d].since
    BY <1>0, <1>3, <2>1, NotedFacts
  <2>3. call'[c].pc = "idle" /\ ~call'[c].overtaken
    BY <2>2, IdleFacts
  <2>4. n \notin DOMAIN rules
    BY <1>5 DEF Unused
  <2>5. /\ DOMAIN rules' = DOMAIN rules \cup {n} /\ rules'[n] = DenyRule(s)
        /\ \A m \in DOMAIN rules : rules'[m] = rules[m]
    <3>1. DOMAIN rules' = DOMAIN rules \cup {n} /\ rules'[n] = DenyRule(s)
      BY <1>5 DEF With
    <3>2. \A m \in DOMAIN rules : rules'[m] = rules[m]
      BY <1>5, <2>4 DEF With
    <3> QED  BY <3>1, <3>2
  <2>6. DenyRule(s) \in Rule /\ DenyRule(s).by = "response"
    BY <1>3 DEF DenyRule, Rule
  <2>7. Typed' /\ Behind' /\ SiteStays
    BY <1>0, <1>1, <1>3, <2>2, <2>5, <2>6 DEF RulesInv, Typed, Behind, SiteStays
  <2>8. Separate'
    BY <1>0, <1>1, <2>2, <2>3 DEF Separate, Stands
  <2>9. Calling(c)' /\ Aimed(c)' /\ InFront(c)'
    BY <2>3 DEF Calling, Aimed, InFront, Stands
  <2>10. ASSUME NEW d \in Callers \ {c} PROVE Calling(d)' /\ Aimed(d)' /\ InFront(d)'
    <3>1. Calling(d)' /\ InFront(d)'
      BY <1>0, <1>1, <2>2, <2>7, <2>10 DEF RulesInv, Calling, InFront, Behind, Stands
    <3>2. SUFFICES ASSUME Stands(d, "delete")', ~call'[d].overtaken PROVE Aimed(d)'
      BY <3>1 DEF Aimed
    <3>3. Stands(d, "delete") /\ ~call[d].overtaken
      BY <2>2, <3>2 DEF Stands
    <3>4. /\ call[d].todo \subseteq DOMAIN rules
          /\ \A m \in call[d].todo, t \in call[d].who : Matches(rules[m], t)
          /\ \A m \in DOMAIN rules, t \in call[d].who :
               rules[m] = DenyRule(t) => m \in call[d].todo \cup call[d].since
      BY <3>3 DEF RulesInv, Aimed
    <3>5. call'[d].todo \subseteq DOMAIN rules'
      BY <2>2, <2>5, <3>4
    <3>6. \A m \in call'[d].todo, t \in call'[d].who : Matches(rules[m], t)'
      BY <1>0, <2>2, <2>5, <3>4 DEF Matches
    <3>7. ASSUME NEW m \in DOMAIN rules', NEW t \in call'[d].who, rules'[m] = DenyRule(t)
          PROVE  m \in call'[d].todo \cup call'[d].since
      <4>1. CASE m = n
        <5>1. t = s
          BY <2>5, <3>7, <4>1 DEF DenyRule
        <5>2. call[d].who = {s}
          <6>1. t \in call[d].who /\ \E u \in Subjects : call[d].who = {u}
            BY <2>2, <3>3, <3>7 DEF RulesInv, Calling, Stands
          <6> QED  BY <5>1, <6>1
        <5> QED  BY <1>3, <2>2, <3>3, <4>1, <5>2
      <4>2. CASE m # n
        BY <2>2, <2>5, <3>4, <3>7, <4>2
      <4> QED  BY <4>1, <4>2
    <3>8. \A m \in DOMAIN rules', t \in call'[d].who :
            (rules[m] = DenyRule(t))' => m \in call'[d].todo \cup call'[d].since
      BY <3>7 DEF DenyRule
    <3> QED  BY <3>5, <3>6, <3>7, <3>8 DEF Aimed, DenyRule
  <2>11. RulesInv'
    BY <2>7, <2>8, <2>9, <2>10 DEF RulesInv
  <2>12. \A d \in Callers : /\ Unblocking(d)' = Unblocking(d) /\ (Unblocking(d) => d # c)
                           /\ (call'[d].overtaken <=> call[d].overtaken)
    <3>1. ~call[c].overtaken
      BY <1>0, LiftsSome
    <3> QED  BY <1>0, <2>2, <2>3, <3>1 DEF Unblocking
  <2>13. ActiveBlocks' = ActiveBlocks \cup {s}
    <3>1. \A t \in Subjects : (DenyRule(t))' = DenyRule(t) /\ (DenyRule(t) = DenyRule(s) => t = s)
      BY DEF DenyRule
    <3> QED  BY <1>3, <2>5, <3>1 DEF ActiveBlocks
  <2>14. Promise!Block(c, s)
    <3>1. Lifting[c] = {} /\ Lifting'[c] = {}
      BY <1>0, <2>3, LiftsSome DEF Lifting, Unblocking, Matches, DenyRule
    <3>2. [Lifting EXCEPT ![c] = Lifting'[c]] = Lifting
      BY <3>1, LiftsSome
    <3>3. \A d \in Callers \ {c} :
            /\ call'[d].pc = call[d].pc /\ call'[d].who = call[d].who
            /\ call[d].overtaken => call'[d].overtaken
            /\ call'[d].overtaken => call[d].overtaken \/ Stands(d, "delete")
      BY <2>2
    <3>4. Promise!GoAstray(c, [Lifting EXCEPT ![c] = Lifting'[c]])
      BY <1>0, <3>3, Astray
    <3>5. Promise!GoAstray(c, Lifting)
      BY <3>2, <3>4
    <3> QED  BY <2>13, <3>1, <3>5 DEF Promise!Block
  <2>15. AbsStep
    BY <1>3, <2>14 DEF AbsStep, Promise!AbsNext
  <2>16. Complete
    BY <2>2, <2>12 DEF RulesInv, Calling, Complete, Unblocking, Stands
  <2> QED  BY <2>7, <2>11, <2>15, <2>16 DEF Kept
<1> QED  BY <1>2, <1>4, <1>5

\* A rule is posted at index 1.
LEMMA PostRuleKept ==
  ASSUME RulesInv, NEW c \in Callers, PostRule(c) PROVE Kept
<1>0. /\ Typed /\ Separate /\ Stands(c, "post") /\ ~Unblocking(c) /\ ~Stands(c, "idle")
      /\ UNCHANGED layer
  BY DEF RulesInv, PostRule, Stands, Unblocking
<1>1. layer # "acl"
  BY <1>0 DEF Separate
<1>2. PICK s \in call[c].who :
        \/ Return(c, "error") /\ UNCHANGED rules
        \/ /\ DOMAIN Inserted(s) \subseteq Numbers /\ rules' = Inserted(s)
           /\ \/ Overtakes(c, Idle("blocked"), Deleting)
              \/ Overtakes(c, Idle("error"), Deleting)
  BY DEF PostRule
<1>3. s \in Subjects
  BY <1>0 DEF RulesInv, Calling, Stands
<1>4. CASE Return(c, "error") /\ UNCHANGED rules
  <2>1. "error" \in Results
    BY DEF Results
  <2> QED  BY <1>0, <1>4, <2>1, FindNumberKept
<1>5. CASE /\ DOMAIN Inserted(s) \subseteq Numbers /\ rules' = Inserted(s)
           /\ \/ Overtakes(c, Idle("blocked"), Deleting)
              \/ Overtakes(c, Idle("error"), Deleting)
  <2>1. PICK r \in Results : Overtakes(c, Idle(r), Deleting)
    BY <1>5 DEF Results
  <2>2. /\ call' \in [Callers -> Call] /\ call'[c] = Idle(r)
        /\ \A d \in Callers \ {c} :
             /\ call'[d].pc = call[d].pc /\ call'[d].who = call[d].who
             /\ call'[d].todo = call[d].todo /\ call'[d].since = call[d].since
             /\ call'[d].result = call[d].result
             /\ call'[d].overtaken = (call[d].overtaken \/ d \in Deleting)
    BY <1>0, <2>1, IdleFacts, OvertakesFacts
  <2>3. call'[c].pc = "idle" /\ ~call'[c].overtaken
    BY <2>2, IdleFacts
  <2>4. /\ 1 \in DOMAIN rules' /\ rules'[1] = DenyRule(s)
        /\ \A m \in DOMAIN rules' : m = 1 \/ \E n \in DOMAIN rules :
             rules'[m] = rules[n] /\ m \in {n, n + 1}
        /\ \A n \in DOMAIN rules : \E m \in DOMAIN rules' : rules'[m] = rules[n]
        /\ \A n \in DOMAIN rules : (\A m \in DOMAIN rules : m <= n) =>
             \E k \in DOMAIN rules' :
               rules'[k] = rules[n] /\ \A m \in DOMAIN rules' : m <= k
    BY <1>0, <1>3, <1>5, InsertedFacts
  <2>5. DenyRule(s) \in Rule /\ DenyRule(s).by = "response"
    BY <1>3 DEF DenyRule, Rule
  <2>6. \A m \in DOMAIN rules' : rules'[m] \in Rule
    BY <1>0, <2>4, <2>5 DEF Typed
  <2>7. Typed'
    BY <1>0, <1>5, <2>2, <2>6 DEF Typed
  <2>8. SiteStays
    BY <2>4 DEF RulesInv, Behind, SiteStays
  <2>8a. \A m \in DOMAIN rules' : rules'[m].by = "site" =>
           \E n \in DOMAIN rules : rules'[m] = rules[n] /\ n <= m
    BY <1>0, <2>4, <2>5, RulesAssumption DEF Typed, Numbers, RulesAssumption
  <2>9. Behind'
    <3>1. SUFFICES ASSUME NEW m \in DOMAIN rules', rules'[m].by = "site"
                   PROVE  \A k \in DOMAIN rules' : k <= m
      BY <1>0, <1>1 DEF Behind
    <3>2. m # 1
      BY <2>4, <2>5, <3>1
    <3>3. PICK n \in DOMAIN rules : rules'[m] = rules[n] /\ m \in {n, n + 1}
      BY <2>4, <3>2
    <3>4. \A j \in DOMAIN rules : j <= n
      BY <3>1, <3>3 DEF RulesInv, Behind
    <3>5. DOMAIN rules \subseteq Nat \ {0}
      BY <1>0, RulesAssumption DEF Typed, Numbers, RulesAssumption
    <3>6. CASE 1 \in DOMAIN rules
      <4>1. /\ DOMAIN rules' = {1} \cup {j + 1 : j \in DOMAIN rules}
            /\ \A j \in DOMAIN rules : rules'[j + 1] = rules[j]
        <5>1. rules' = [i \in {1} \cup {j + 1 : j \in DOMAIN rules} |->
                          IF i = 1 THEN DenyRule(s) ELSE rules[i - 1]]
          BY <1>5, <3>6 DEF Inserted
        <5> QED  BY <3>5, <5>1
      <4>2. PICK i \in DOMAIN rules : m = i + 1
        BY <3>2, <4>1
      <4>3. rules[i].by = "site"
        BY <3>1, <4>1, <4>2
      <4>4. \A j \in DOMAIN rules : j <= i
        BY <4>3 DEF RulesInv, Behind
      <4>5. ASSUME NEW k \in DOMAIN rules' PROVE k <= m
        <5>1. k = 1 \/ \E j \in DOMAIN rules : k = j + 1
          BY <4>1
        <5> QED  BY <3>5, <4>2, <4>4, <5>1
      <4> QED  BY <4>5
    <3>7. CASE 1 \notin DOMAIN rules
      <4>1. DOMAIN rules' = DOMAIN rules \cup {1} /\ \A j \in DOMAIN rules : rules'[j] = rules[j]
        <5>1. rules' = With(1, s)
          BY <1>5, <3>7 DEF Inserted
        <5>2. DOMAIN rules' = DOMAIN rules \cup {1}
          BY <5>1 DEF With
        <5>3. \A j \in DOMAIN rules : rules'[j] = rules[j]
          BY <3>7, <5>1 DEF With
        <5> QED  BY <5>2, <5>3
      <4>2. m \in DOMAIN rules /\ rules[m].by = "site"
        BY <3>1, <3>2, <4>1
      <4>3. \A j \in DOMAIN rules : j <= m
        BY <4>2 DEF RulesInv, Behind
      <4> QED  BY <3>5, <4>1, <4>2, <4>3
    <3> QED  BY <3>6, <3>7
  <2>10. Separate'
    BY <1>0, <1>1, <2>2, <2>3 DEF Separate, Stands
  <2>11. Calling(c)' /\ Aimed(c)' /\ InFront(c)'
    BY <2>3 DEF Calling, Aimed, InFront, Stands
  <2>12. ASSUME NEW d \in Callers \ {c} PROVE Calling(d)' /\ Aimed(d)' /\ InFront(d)'
    <3>1. Calling(d) /\ d \in Callers
      BY <2>12 DEF RulesInv
    <3>2. d \in Deleting <=> call[d].pc = "delete"
      BY DEF Deleting, Stands
    <3>3. Calling(d)'
      BY <2>2, <3>1, <3>2 DEF Calling, Stands
    <3>4. Stands(d, "delete")' => call'[d].overtaken
      BY <2>2, <3>2 DEF Stands
    <3>5. InFront(d)'
      <4>1. SUFFICES ASSUME Stands(d, "delete"), NEW n \in call[d].todo,
                            NEW m \in DOMAIN rules', rules'[m].by = "site"
                     PROVE  n <= m /\ (n = m => layer = "mapping" /\ rules'[m].who \in call[d].who)
        BY <1>0, <2>2 DEF InFront, Stands
      <4>2. PICK k \in DOMAIN rules : rules'[m] = rules[k] /\ k <= m
        BY <2>8a, <4>1
      <4>3. n <= k /\ (n = k => layer = "mapping" /\ rules[k].who \in call[d].who)
        BY <2>12, <4>1, <4>2 DEF RulesInv, InFront
      <4>4. n \in Int /\ m \in Int /\ k \in Int
        BY <1>0, <2>7, <4>1, <4>2 DEF Typed, Call, Numbers
      <4> QED  BY <4>2, <4>3, <4>4
    <3> QED  BY <3>3, <3>4, <3>5 DEF Aimed
  <2>13. RulesInv'
    BY <2>7, <2>9, <2>10, <2>11, <2>12 DEF RulesInv
  <2>14. ActiveBlocks' = ActiveBlocks \cup {s}
    <3>1. \A t \in Subjects : DenyRule(t) = DenyRule(s) => t = s
      BY DEF DenyRule
    <3>2. \A t \in Subjects :
            (\E m \in DOMAIN rules' : rules'[m] = DenyRule(t)) <=>
              (t = s \/ \E m \in DOMAIN rules : rules[m] = DenyRule(t))
      BY <2>4, <3>1
    <3>3. /\ ActiveBlocks' = {t \in Subjects : \E m \in DOMAIN rules' : rules'[m] = DenyRule(t)}
          /\ ActiveBlocks = {t \in Subjects : \E m \in DOMAIN rules : rules[m] = DenyRule(t)}
      BY DEF ActiveBlocks, DenyRule
    <3> QED  BY <1>3, <3>2, <3>3
  <2>15. Promise!Block(c, s)
    <3>1. Lifting[c] = {} /\ Lifting'[c] = {}
      BY <1>0, <2>3, LiftsSome DEF Lifting, Unblocking, Matches, DenyRule
    <3>2. [Lifting EXCEPT ![c] = Lifting'[c]] = Lifting
      BY <3>1, LiftsSome
    <3>3. \A d \in Callers \ {c} :
            /\ call'[d].pc = call[d].pc /\ call'[d].who = call[d].who
            /\ call[d].overtaken => call'[d].overtaken
            /\ call'[d].overtaken => call[d].overtaken \/ Stands(d, "delete")
      BY <2>2 DEF Deleting
    <3>4. Promise!GoAstray(c, [Lifting EXCEPT ![c] = Lifting'[c]])
      BY <1>0, <3>3, Astray
    <3>5. Promise!GoAstray(c, Lifting)
      BY <3>2, <3>4
    <3> QED  BY <2>14, <3>1, <3>5 DEF Promise!Block
  <2>16. AbsStep
    BY <1>3, <2>15 DEF AbsStep, Promise!AbsNext
  <2>17. Complete
    BY <1>0, <2>2 DEF RulesInv, Calling, Complete, Unblocking, Stands
  <2> QED  BY <2>8, <2>13, <2>16, <2>17 DEF Kept
<1> QED  BY <1>2, <1>4, <1>5

\* A deletion, whether or not its call fails.
LEMMA Deletion ==
  ASSUME RulesInv, NEW c \in Callers, Stands(c, "delete"), NEW n \in call[c].todo,
         n \in DOMAIN rules, UNCHANGED layer, rules' = Without(n), call'[c] # call[c]
  PROVE  /\ DOMAIN rules' = DOMAIN rules \ {n}
         /\ \A m \in DOMAIN rules' : rules'[m] = rules[m]
         /\ Behind' /\ SiteStays
         /\ \E lifted \in SUBSET Lifting[c] : ActiveBlocks' = ActiveBlocks \ lifted
<1>0. Typed /\ Behind /\ Aimed(c) /\ Calling(c)
  BY DEF RulesInv
<1>1. /\ DOMAIN rules' = DOMAIN rules \ {n}
      /\ \A m \in DOMAIN rules' : rules'[m] = rules[m]
  BY WithoutFacts
<1>2. PICK s \in Subjects : call[c].who = {s}
  BY <1>0 DEF Calling, Stands
<1>3. call[c].overtaken \/ Matches(rules[n], s)
  BY <1>0, <1>2 DEF Aimed
<1>4. rules[n] \in Rule
  BY <1>0 DEF Typed
<1>5. Behind'
  BY <1>0, <1>1 DEF Behind
<1>6. SiteStays
  <2>1. SUFFICES ASSUME NEW m \in DOMAIN rules, rules[m].by = "site"
                 PROVE  \/ \E k \in DOMAIN rules' :
                             rules'[k] = rules[m] /\ \A j \in DOMAIN rules' : j <= k
                        \/ \E d \in Deleting :
                             /\ m \in call[d].todo /\ call'[d] # call[d]
                             /\ layer = "mapping" /\ rules[m].who \in call[d].who
    BY DEF SiteStays
  <2>2. layer # "acl" /\ \A j \in DOMAIN rules : j <= m
    BY <1>0, <2>1 DEF Behind
  <2>3. CASE m # n
    BY <1>1, <2>2, <2>3
  <2>4. CASE m = n
    <3>1. c \in Deleting /\ m \in call[c].todo
      BY <2>4 DEF Deleting
    <3>2. layer = "mapping" /\ rules[m].who \in call[c].who
      BY <2>1, <2>4 DEF RulesInv, InFront
    <3> QED  BY <3>1, <3>2
  <2> QED  BY <2>3, <2>4
<1>7. \E lifted \in SUBSET Lifting[c] : ActiveBlocks' = ActiveBlocks \ lifted
  <2>0. /\ ActiveBlocks' = {t \in Subjects : \E m \in DOMAIN rules' : rules'[m] = DenyRule(t)}
        /\ ActiveBlocks = {t \in Subjects : \E m \in DOMAIN rules : rules[m] = DenyRule(t)}
    BY DEF ActiveBlocks, DenyRule
  <2>1. CASE ActiveBlocks' = ActiveBlocks
    <3>1. {} \in SUBSET Lifting[c] /\ ActiveBlocks' = ActiveBlocks \ {}
      BY <2>1
    <3> QED  BY <3>1
  <2>2. CASE ActiveBlocks' # ActiveBlocks
    <3>1. \A t \in Subjects : t \in ActiveBlocks' => t \in ActiveBlocks
      BY <1>1, <2>0
    <3>2. PICK t \in Subjects : t \in ActiveBlocks /\ t \notin ActiveBlocks'
      BY <2>0, <2>2, <3>1
    <3>3. rules[n] = DenyRule(t)
      BY <1>1, <2>0, <3>2
    <3>4. \A u \in Subjects : u \in ActiveBlocks /\ u \notin ActiveBlocks' => u = t
      <4>1. \A u \in Subjects : u \in ActiveBlocks /\ u \notin ActiveBlocks' =>
              rules[n] = DenyRule(u)
        BY <1>1, <2>0
      <4>2. \A u, v : DenyRule(u) = DenyRule(v) => u = v
        BY DEF DenyRule
      <4> QED  BY <3>3, <4>1, <4>2
    <3>5. ActiveBlocks' = ActiveBlocks \ {t}
      BY <2>0, <3>1, <3>2, <3>4
    <3>6. t \in Lifting[c]
      BY <1>2, <1>3, <3>2, <3>3 DEF Lifting, Unblocking, Matches, DenyRule, Stands
    <3> QED  BY <3>5, <3>6
  <2> QED  BY <2>1, <2>2
<1> QED  BY <1>1, <1>5, <1>6, <1>7

LEMMA DeleteRuleKept ==
  ASSUME RulesInv, NEW c \in Callers, DeleteRule(c) PROVE Kept
<1>0. /\ Typed /\ Separate /\ Stands(c, "delete") /\ Unblocking(c) /\ ~Stands(c, "idle")
      /\ UNCHANGED layer /\ Aimed(c) /\ Calling(c) /\ call[c] \in Call
  BY DEF RulesInv, Typed, DeleteRule, Stands, Unblocking
<1>1. PICK n \in call[c].todo :
        \/ /\ n \in DOMAIN rules /\ rules' = Without(n)
           /\ Overtakes(c, IF call[c].todo = {n} THEN Idle("unblocked")
                           ELSE [call[c] EXCEPT !.todo = @ \ {n}], About(n))
        \/ n \in DOMAIN rules /\ rules' = Without(n) /\ Overtakes(c, Idle("error"), About(n))
        \/ Return(c, "error") /\ UNCHANGED rules
  BY DEF DeleteRule
<1>2. CASE Return(c, "error") /\ UNCHANGED rules
  <2>1. /\ call' \in [Callers -> Call] /\ call'[c].pc = "idle" /\ ~call'[c].overtaken
        /\ call'[c].result = "error"
        /\ \A d \in Callers \ {c} : call'[d] = call[d]
    BY <1>0, <1>2, Returns DEF Results
  <2>2. Calling(c)' /\ Aimed(c)' /\ InFront(c)'
    BY <2>1 DEF Calling, Aimed, InFront, Stands
  <2>3. RulesInv' /\ SiteStays
    BY <1>0, <1>2, <2>1, <2>2, ClientStep
  <2>4. AbsStep
    <3>1. {} \in SUBSET Lifting[c] /\ ActiveBlocks' = ActiveBlocks \ {}
      BY <1>2, BlocksStay
    <3>2. ~Unblocking(c)'
      BY <2>1 DEF Unblocking
    <3> QED  BY <1>0, <2>1, <3>1, <3>2, Ends
  <2>5. Complete
    BY <2>1 DEF RulesInv, Calling, Complete, Unblocking, Stands
  <2> QED  BY <2>3, <2>4, <2>5 DEF Kept
<1>3. ASSUME n \in DOMAIN rules, rules' = Without(n), NEW mine \in Call,
             Overtakes(c, mine, About(n)),
             \/ mine = Idle("error")
             \/ mine = Idle("unblocked") /\ call[c].todo = {n}
             \/ mine = [call[c] EXCEPT !.todo = @ \ {n}]
      PROVE  Kept
  <2>1. /\ call' \in [Callers -> Call] /\ call'[c] = mine
        /\ \A d \in Callers \ {c} :
             /\ call'[d].pc = call[d].pc /\ call'[d].who = call[d].who
             /\ call'[d].todo = call[d].todo /\ call'[d].since = call[d].since
             /\ call'[d].result = call[d].result
             /\ call'[d].overtaken = (call[d].overtaken \/ d \in About(n))
    BY <1>0, <1>3, OvertakesFacts
  <2>2. \/ /\ mine.pc = "idle" /\ ~mine.overtaken /\ mine.result \in {"error", "unblocked"}
           /\ mine.result = "unblocked" => call[c].todo = {n}
        \/ /\ mine.pc = "delete" /\ mine.who = call[c].who /\ mine.since = call[c].since
           /\ mine.todo = call[c].todo \ {n} /\ mine.result = call[c].result
           /\ mine.overtaken = call[c].overtaken
    BY <1>0, <1>3, IdleFacts DEF Call, Stands, Results
  <2>3. call'[c] # call[c]
    BY <1>0, <2>1, <2>2 DEF Stands
  <2>4. /\ DOMAIN rules' = DOMAIN rules \ {n}
        /\ \A m \in DOMAIN rules' : rules'[m] = rules[m]
        /\ Behind' /\ SiteStays
    BY <1>0, <1>3, <2>3, Deletion
  <2>5. PICK lifted \in SUBSET Lifting[c] : ActiveBlocks' = ActiveBlocks \ lifted
    BY <1>0, <1>3, <2>3, Deletion
  <2>6. Typed' /\ Separate'
    BY <1>0, <2>1, <2>2, <2>4 DEF Typed, Separate, Stands
  <2>7. ASSUME NEW d \in Callers \ {c} PROVE Calling(d)' /\ Aimed(d)' /\ InFront(d)'
    <3>0. Calling(d) /\ InFront(d) /\ (d \in About(n) => Stands(d, "delete"))
      BY <2>7 DEF RulesInv, About, Deleting
    <3>1. Calling(d)' /\ InFront(d)'
      <4>1. Calling(d)'
        BY <2>1, <3>0 DEF Calling, Stands
      <4>2. InFront(d)'
        BY <1>0, <2>1, <2>4, <3>0 DEF InFront, Stands
      <4> QED  BY <4>1, <4>2
    <3>2. SUFFICES ASSUME Stands(d, "delete")', ~call'[d].overtaken PROVE Aimed(d)'
      BY <3>1 DEF Aimed
    <3>3. Stands(d, "delete") /\ ~call[d].overtaken /\ n \notin call[d].todo
      BY <2>1, <3>2 DEF Stands, About, Deleting
    <3>4. /\ call[d].todo \subseteq DOMAIN rules
          /\ \A m \in call[d].todo, t \in call[d].who : Matches(rules[m], t)
          /\ \A m \in DOMAIN rules, t \in call[d].who :
               rules[m] = DenyRule(t) => m \in call[d].todo \cup call[d].since
      BY <3>3 DEF RulesInv, Aimed
    <3>5. call'[d].todo \subseteq DOMAIN rules'
      BY <2>1, <2>4, <3>3, <3>4
    <3>6. \A m \in call'[d].todo, t \in call'[d].who : Matches(rules[m], t)'
      BY <1>0, <2>1, <2>4, <3>4, <3>5 DEF Matches
    <3>7. \A m \in DOMAIN rules', t \in call'[d].who :
            rules'[m] = DenyRule(t) => m \in call'[d].todo \cup call'[d].since
      BY <2>1, <2>4, <3>4
    <3> QED  BY <3>5, <3>6, <3>7 DEF Aimed, DenyRule
  <2>8. CASE mine.pc = "idle" /\ ~mine.overtaken /\ mine.result \in {"error", "unblocked"}
             /\ (mine.result = "unblocked" => call[c].todo = {n})
    <3>1. Calling(c)' /\ Aimed(c)' /\ InFront(c)' /\ ~Unblocking(c)' /\ ~call'[c].overtaken
      BY <2>1, <2>8 DEF Calling, Aimed, InFront, Unblocking, Stands
    <3>2. RulesInv'
      BY <2>4, <2>6, <2>7, <3>1 DEF RulesInv
    <3>3. AbsStep
      BY <1>0, <2>1, <2>5, <3>1, Ends DEF About, Deleting
    <3>4. Complete
      <4>1. ASSUME NEW d \in Callers \ {c}, Unblocking(d) PROVE call'[d].result = "none"
        BY <2>1, <4>1 DEF RulesInv, Calling, Unblocking, Stands
      <4>2. ASSUME ~call[c].overtaken, call[c].todo = {n}, NEW m \in DOMAIN rules',
                   NEW t \in call[c].who, rules'[m] = DenyRule(t)
            PROVE  m \in call[c].since
        <5>1. m \in DOMAIN rules /\ m # n /\ rules[m] = DenyRule(t)
          BY <2>4, <4>2
        <5> QED  BY <1>0, <4>2, <5>1 DEF Aimed
      <4> QED  BY <2>1, <2>8, <4>1, <4>2 DEF Complete
    <3> QED  BY <2>4, <3>2, <3>3, <3>4 DEF Kept
  <2>9. CASE /\ mine.pc = "delete" /\ mine.who = call[c].who /\ mine.since = call[c].since
             /\ mine.todo = call[c].todo \ {n} /\ mine.result = call[c].result
             /\ mine.overtaken = call[c].overtaken
    <3>1. Calling(c)' /\ InFront(c)'
      BY <1>0, <2>1, <2>4, <2>9 DEF RulesInv, Calling, InFront, Stands
    <3>2. Aimed(c)'
      <4>1. SUFFICES ASSUME ~call[c].overtaken PROVE Aimed(c)'
        BY <2>1, <2>9 DEF Aimed
      <4>2. mine.todo \subseteq DOMAIN rules'
        BY <1>0, <2>4, <2>9, <4>1 DEF Aimed
      <4>3. \A m \in mine.todo, t \in mine.who : Matches(rules[m], t)'
        BY <1>0, <2>4, <2>9, <4>1, <4>2 DEF Aimed, Matches
      <4>4. \A m \in DOMAIN rules', t \in mine.who :
              rules'[m] = DenyRule(t) => m \in mine.todo \cup mine.since
        BY <1>0, <2>4, <2>9, <4>1 DEF Aimed
      <4> QED  BY <2>1, <4>2, <4>3, <4>4 DEF Aimed, DenyRule
    <3>3. RulesInv'
      BY <2>4, <2>6, <2>7, <3>1, <3>2 DEF RulesInv
    <3>4. Promise!Lift(c)
      <4>1. Lifting[c] # {}
        BY <1>0, LiftsSome
      <4>2. Lifting'[c] = Lifting[c]
        <5>1. \A s, t \in Subjects : Matches(DenyRule(s), t)' = Matches(DenyRule(s), t)
          BY <1>0 DEF Matches, DenyRule
        <5>2. PICK t \in Subjects : call[c].who = {t}
          BY <1>0 DEF Calling
        <5>3. Unblocking(c)' /\ call'[c].who = {t} /\ call'[c].overtaken = call[c].overtaken
          BY <2>1, <2>9, <5>2 DEF Unblocking
        <5>4. CASE call[c].overtaken
          BY <5>3, <5>4 DEF Lifting, Unblocking, Matches, DenyRule
        <5>5. CASE ~call[c].overtaken
          <6>1. /\ Lifting[c] = {s \in Subjects : Matches(DenyRule(s), t)}
                /\ Lifting'[c] = {s \in Subjects : Matches(DenyRule(s), t)'}
            BY <1>0, <5>2, <5>3, <5>5 DEF Lifting, Unblocking, Matches, DenyRule
          <6> QED  BY <5>1, <6>1
        <5> QED  BY <5>4, <5>5
      <4>3. [Lifting EXCEPT ![c] = Lifting'[c]] = Lifting
        BY <4>2, LiftsSome
      <4>4. \A d \in Callers \ {c} :
              /\ call'[d].pc = call[d].pc /\ call'[d].who = call[d].who
              /\ call[d].overtaken => call'[d].overtaken
              /\ call'[d].overtaken => call[d].overtaken \/ Stands(d, "delete")
        BY <2>1 DEF About, Deleting
      <4>5. Promise!GoAstray(c, [Lifting EXCEPT ![c] = Lifting'[c]])
        BY <1>0, <4>4, Astray
      <4>6. Promise!GoAstray(c, Lifting)
        BY <4>3, <4>5
      <4> QED  BY <2>5, <4>1, <4>6 DEF Promise!Lift
    <3>5. AbsStep
      BY <3>4 DEF AbsStep, Promise!AbsNext
    <3>6. Complete
      BY <1>0, <2>1, <2>9 DEF RulesInv, Calling, Complete, Unblocking, Stands
    <3> QED  BY <2>4, <3>3, <3>5, <3>6 DEF Kept
  <2> QED  BY <2>2, <2>8, <2>9
<1>4. /\ Idle("error") \in Call /\ Idle("unblocked") \in Call
      /\ [call[c] EXCEPT !.todo = @ \ {n}] \in Call
  <2>1. [call[c] EXCEPT !.todo = @ \ {n}] \in Call
    BY <1>0 DEF Call
  <2> QED  BY <2>1, IdleFacts DEF Results
<1>5. CASE /\ n \in DOMAIN rules /\ rules' = Without(n)
           /\ Overtakes(c, IF call[c].todo = {n} THEN Idle("unblocked")
                           ELSE [call[c] EXCEPT !.todo = @ \ {n}], About(n))
  <2>1. CASE call[c].todo = {n}
    BY <1>3, <1>4, <1>5, <2>1
  <2>2. CASE call[c].todo # {n}
    BY <1>3, <1>4, <1>5, <2>2
  <2> QED  BY <2>1, <2>2
<1>6. CASE n \in DOMAIN rules /\ rules' = Without(n) /\ Overtakes(c, Idle("error"), About(n))
  BY <1>3, <1>4, <1>6
<1> QED  BY <1>1, <1>2, <1>5, <1>6

\* Every step.
LEMMA NextKept == ASSUME RulesInv, [RulesNext]_ruleVars PROVE Kept
<1>1. CASE UNCHANGED ruleVars
  <2>1. UNCHANGED <<layer, rules, call>>
    BY <1>1 DEF ruleVars
  <2>2. RulesInv'
    BY <2>1 DEF RulesInv, Typed, Separate, Behind, Calling, Aimed, InFront, Stands, Matches
  <2>3. AbsStep
    BY <2>1 DEF AbsStep, ActiveBlocks, Lifting, Unblocking, Matches
  <2>4. Complete
    BY <2>1 DEF RulesInv, Calling, Complete, Unblocking, Stands
  <2>5. SiteStays
    BY <2>1 DEF RulesInv, Behind, SiteStays
  <2> QED  BY <2>2, <2>3, <2>4, <2>5 DEF Kept
<1>2. ASSUME NEW c \in Callers, FindNumber(c) PROVE Kept
  <2>1. /\ Stands(c, "find") /\ ~Unblocking(c) /\ ~Stands(c, "idle") /\ UNCHANGED <<layer, rules>>
        /\ "error" \in Results
    BY <1>2 DEF FindNumber, Unblocking, Stands, Results
  <2>2. \/ \E n \in Numbers : call' = [call EXCEPT ![c].pc = "create", ![c].todo = {n}]
        \/ Return(c, "error")
    BY <1>2 DEF FindNumber, Unused
  <2> QED  BY <2>1, <2>2, FindNumberKept
<1> QED
  BY <1>1, <1>2, StartBlockKept, StartUnblockKept, CreateKept, PostRuleKept, ReadRulesKept,
     DeleteRuleKept DEF RulesNext

-----------------------------------------------------------------------------
LEMMA Always == RulesSpec => []RulesInv
<1>1. RulesInv /\ [RulesNext]_ruleVars => RulesInv'
  BY NextKept DEF Kept
<1> QED  BY InitInv, <1>1, PTL DEF RulesSpec

\* The site's own entry stays, behind every block, until an unblock of the user of the
\* site's mapping takes it; for any number of callers, all of which may overlap,
\* subjects, rules and failures.
THEOREM SiteRuleKept == RulesSpec => SiteRuleStays
<1>1. RulesInv /\ [RulesNext]_ruleVars => SiteStays
  BY NextKept DEF Kept
<1>2. RulesInv /\ [RulesNext]_ruleVars =>
  [\A n \in DOMAIN rules : rules[n].by = "site" =>
     \/ \E k \in DOMAIN rules' : rules'[k] = rules[n] /\ \A m \in DOMAIN rules' : m <= k
     \/ \E c \in Deleting :
          /\ n \in call[c].todo /\ call'[c] # call[c]
          /\ layer = "mapping" /\ rules[n].who \in call[c].who]_ruleVars
  BY <1>1 DEF SiteStays
<1> QED  BY Always, <1>2, PTL DEF RulesSpec, SiteRuleStays

\* Every step of the three lists, with any calls overlapping, is a step of the list of
\* blocks or leaves it alone: a subject stays blocked until an unblock runs that matches
\* it, or that another call overtook.
THEOREM RulesImplementBlocks == RulesSpec => ImplementsBlockList
<1>1. RulesInit => Promise!AbsInit
  <2> SUFFICES ASSUME RulesInit PROVE Promise!AbsInit
    OBVIOUS
  <2>1. ActiveBlocks = {}
    <3>1. PICK u \in Subjects : \A n \in DOMAIN rules : rules[n] = [by |-> "site", who |-> u]
      BY DEF RulesInit
    <3>2. \A s \in Subjects : DenyRule(s).by = "response"
      BY DEF DenyRule
    <3> QED  BY <3>1, <3>2 DEF ActiveBlocks
  <2>2. \A c \in Callers : ~Unblocking(c) /\ ~call[c].overtaken
    BY IdleFacts DEF RulesInit, Unblocking, Results
  <2>3. Lifting = [c \in Callers |-> {}]
    BY <2>2 DEF Lifting, Unblocking, Matches, DenyRule
  <2> QED  BY <2>1, <2>3 DEF Promise!AbsInit
<1>2. RulesInv /\ [RulesNext]_ruleVars => [Promise!AbsNext]_(Promise!absVars)
  BY NextKept DEF Kept, AbsStep, Promise!absVars
<1> QED  BY Always, <1>1, <1>2, PTL DEF RulesSpec, ImplementsBlockList, Promise!AbsSpec

\* An unblock that reports success, and that no other call overtook, leaves no block of
\* its subject but those made meanwhile; for any number of callers, all of which may
\* overlap, subjects, rules and failures.
THEOREM UnblockCompletes == RulesSpec => UnblockIsComplete
<1>1. RulesInv /\ [RulesNext]_ruleVars => Complete
  BY NextKept DEF Kept
<1>2. RulesInv /\ [RulesNext]_ruleVars =>
        [\A c \in Callers :
           Unblocking(c) /\ ~call[c].overtaken /\ call'[c].result \in {"unblocked", "not_found"} =>
             \A n \in DOMAIN rules', s \in call[c].who :
               rules'[n] = DenyRule(s) => n \in call[c].since]_ruleVars
  BY <1>1 DEF Complete
<1> QED  BY Always, <1>2, PTL DEF RulesSpec, UnblockIsComplete
===============================================================================
