-------------------------- MODULE OntapMetricsProofs --------------------------
(***************************************************************************)
(* What the metrics poller publishes is so, for any list of collectors,    *)
(* any cap, any number of pages, of datums per call, of failures, of       *)
(* repeated invocations and of changes of the password.                    *)
(***************************************************************************)
EXTENDS OntapMetrics, FiniteSetTheorems, WellFoundedInduction, TLAPS

-----------------------------------------------------------------------------
(* Data.                                                                   *)

\* A finite set of numbers that is not empty has a greatest element.
LEMMA MaxIsIn ==
  ASSUME NEW S, IsFiniteSet(S), S \subseteq Int, S # {}
  PROVE  Max(S) \in S /\ \A y \in S : y <= Max(S)
<1> DEFINE Top(U) == \E x \in U : \A y \in U : x >= y
<1> DEFINE Bad == {U \in SUBSET S : U # {} /\ ~Top(U)}
<1>1. IsWellFoundedOn(StrictSubsetOrdering(S), FiniteSubsetsOf(S))
  BY FS_StrictSubsetOrderingWellFounded
<1>2. FiniteSubsetsOf(S) = SUBSET S
  BY FS_FiniteSubsetsOfFinite
<1>3. Bad = {}
  <2> SUFFICES ASSUME Bad # {} PROVE FALSE
    OBVIOUS
  <2>1. PICK U \in Bad : \A V \in Bad : <<V, U>> \notin StrictSubsetOrdering(S)
    <3>1. Bad \subseteq FiniteSubsetsOf(S)
      BY <1>2
    <3> HIDE DEF Bad
    <3> QED  BY <1>1, <3>1, WFMin
  <2>2. PICK x \in U : TRUE
    OBVIOUS
  <2>3. U \ {x} \notin Bad
    <3>1. <<U \ {x}, U>> \in StrictSubsetOrdering(S)
      BY DEF StrictSubsetOrdering
    <3> QED  BY <2>1, <3>1
  <2>4. x \in Int /\ U \subseteq Int
    OBVIOUS
  <2>5. CASE U = {x}
    BY <2>4, <2>5
  <2>6. CASE U \ {x} # {}
    <3>1. PICK z \in U \ {x} : \A y \in U \ {x} : z >= y
      BY <2>3, <2>6
    <3>2. \A y \in U : (IF x >= z THEN x ELSE z) >= y
      BY <2>4, <3>1
    <3> QED  BY <2>4, <3>1, <3>2
  <2> QED  BY <2>5, <2>6
<1>4. Top(S)
  BY <1>3
<1>5. Max(S) \in S /\ \A y \in S : Max(S) >= y
  BY <1>4 DEF Max
<1> QED  BY <1>5

\* The images of the elements of a finite set.
LEMMA ImageIsFinite ==
  ASSUME NEW S, IsFiniteSet(S), NEW f, DOMAIN f = S, f = [x \in S |-> f[x]]
  PROVE  IsFiniteSet({f[x] : x \in S})
<1> DEFINE T == {f[x] : x \in S}
<1>1. f \in Surjection(S, T)
  BY DEF Surjection
<1> QED  BY <1>1, FS_Surjection

\* The places of a sequence, and sets of them.
LEMMA PlacesAreFinite ==
  ASSUME NEW S, NEW s \in Seq(S), NEW P, P \subseteq DOMAIN s
  PROVE  IsFiniteSet(P) /\ Cardinality(P) \in Nat
<1>1. DOMAIN s = 1..Len(s) /\ Len(s) \in Nat
  OBVIOUS
<1>2. IsFiniteSet(1..Len(s))
  BY <1>1, FS_Interval
<1> QED  BY <1>1, <1>2, FS_Subset, FS_CardinalityType

\* A page adds one element at the end, or none.
LEMMA AddPage ==
  ASSUME NEW S, NEW s \in Seq(S), NEW page, page = <<>> \/ \E r \in S : page = <<r>>
  PROVE  /\ s \o page \in Seq(S)
         /\ \A i \in DOMAIN (s \o page) :
              \/ i \in DOMAIN s /\ (s \o page)[i] = s[i]
              \/ i = Len(s) + 1 /\ page = <<(s \o page)[i]>>
         /\ \A i \in DOMAIN s : i \in DOMAIN (s \o page) /\ (s \o page)[i] = s[i]
<1>1. CASE page = <<>>
  <2>1. s \o page = s
    BY <1>1
  <2> QED  BY <2>1
<1>2. CASE \E r \in S : page = <<r>>
  <2>1. PICK r \in S : page = <<r>>
    BY <1>2
  <2> DEFINE t == s \o <<r>>
  <2>2. t \in Seq(S) /\ Len(t) = Len(s) + 1 /\ DOMAIN t = 1..(Len(s) + 1)
    OBVIOUS
  <2>3. \A i \in 1..Len(s) : t[i] = s[i]
    OBVIOUS
  <2>4. t[Len(s) + 1] = r
    OBVIOUS
  <2>5. DOMAIN s = 1..Len(s) /\ Len(s) \in Nat
    OBVIOUS
  <2> HIDE DEF t
  <2>6. \A i \in DOMAIN t : i \in DOMAIN s \/ i = Len(s) + 1
    BY <2>2, <2>5
  <2>7. \A i \in DOMAIN s : i \in DOMAIN t
    BY <2>2, <2>5
  <2> QED  BY <2>1, <2>2, <2>3, <2>4, <2>5, <2>6, <2>7 DEF t
<1> QED  BY <1>1, <1>2

\* The whole quotient.
LEMMA QuotientIs ==
  ASSUME NEW a \in Nat, NEW e \in Nat \ {0}
  PROVE  a \div e \in Nat /\ (a \div e) * e <= a
OBVIOUS

LEMMA ProductGrows ==
  ASSUME NEW v \in Nat, NEW t \in Int, NEW e \in Int, t <= e
  PROVE  v * t <= v * e
OBVIOUS

\* Induction up to N.
LEMMA UpTo ==
  ASSUME NEW N \in Nat, NEW S, 0 \in S, \A n \in 1..N : n - 1 \in S => n \in S
  PROVE  0..N \subseteq S
<1> DEFINE T == (0..N) \ S
<1> SUFFICES ASSUME T # {} PROVE FALSE
  OBVIOUS
<1>1. IsWellFoundedOn(OpToRel(<, Nat), Nat)
  BY NatLessThanWellFounded
<1>2. T \subseteq Nat
  OBVIOUS
<1>3. PICK x \in T : \A y \in T : <<y, x>> \notin OpToRel(<, Nat)
  <2> HIDE DEF T
  <2> QED  BY <1>1, <1>2, WFMin
<1>4. x \in 1..N /\ x - 1 \in 0..N
  OBVIOUS
<1>5. x - 1 \in T
  BY <1>4
<1>6. <<x - 1, x>> \in {p \in Nat \X Nat : p[1] < p[2]}
  BY <1>4
<1>7. <<x - 1, x>> \in OpToRel(<, Nat)
  BY <1>6 DEF OpToRel
<1> QED  BY <1>3, <1>5, <1>7

\* One name of COLLECTORS more.
AddName(names, name) == IF name \in Range(names) THEN names ELSE Append(names, name)

Once(names) == \A i, j \in DOMAIN names : names[i] = names[j] => i = j

LEMMA AddNameOnce ==
  ASSUME NEW names \in Seq(Collectors), NEW name \in Collectors, Once(names)
  PROVE  /\ AddName(names, name) \in Seq(Collectors) /\ AddName(names, name) # <<>>
         /\ Once(AddName(names, name))
<1>1. CASE name \in Range(names)
  BY <1>1 DEF AddName, Range
<1>2. CASE name \notin Range(names)
  <2> DEFINE longer == Append(names, name)
  <2>1. /\ longer \in Seq(Collectors) /\ Len(longer) = Len(names) + 1
        /\ DOMAIN longer = 1..(Len(names) + 1) /\ DOMAIN names = 1..Len(names)
        /\ Len(names) \in Nat /\ longer # <<>>
    OBVIOUS
  <2>2. (\A i \in 1..Len(names) : longer[i] = names[i]) /\ longer[Len(names) + 1] = name
    OBVIOUS
  <2>3. \A i \in 1..Len(names) : names[i] # name
    BY <1>2, <2>1 DEF Range
  <2> HIDE DEF longer
  <2>4. Once(longer)
    BY <2>1, <2>2, <2>3 DEF Once
  <2> QED  BY <1>2, <2>1, <2>4 DEF AddName, longer
<1> QED  BY <1>1, <1>2

\* The list after each of the first n names of raw.
Parses(raw, n, g) ==
  /\ g \in [0..n -> Seq(Collectors)] /\ g[0] = <<>> /\ \A m \in 0..n : Once(g[m])
  /\ \A m \in 1..n : g[m] = AddName(g[m - 1], raw[m])

\* parse_collectors keeps every name it reads once.
LEMMA ParsedOnce ==
  ASSUME NEW raw \in Seq(Collectors) \ {<<>>}
  PROVE  /\ ParseCollectors(raw) \in Seq(Collectors) /\ ParseCollectors(raw) # <<>>
         /\ Once(ParseCollectors(raw))
<1> DEFINE N == Len(raw)
<1> DEFINE Body(f) ==
             [n \in 0..N |-> IF n = 0 THEN <<>>
                             ELSE IF raw[n] \in Range(f[n - 1]) THEN f[n - 1]
                             ELSE Append(f[n - 1], raw[n])]
<1> DEFINE names == CHOOSE f : f = Body(f)
<1>1. N \in Nat /\ N # 0 /\ \A n \in 1..N : raw[n] \in Collectors
  OBVIOUS
<1>2. ParseCollectors(raw) = names[N]
  BY DEF ParseCollectors
<1> HIDE DEF N
<1>3. \E f : f = Body(f)
  <2> DEFINE S == {n \in 0..N : \E g : Parses(raw, n, g)}
  <2>1. 0 \in S
    <3> DEFINE g == [m \in 0..0 |-> <<>>]
    <3>1. g \in [0..0 -> Seq(Collectors)] /\ g[0] = <<>> /\ (\A m \in 0..0 : m = 0) /\ 1..0 = {}
      OBVIOUS
    <3>2. Once(<<>>)
      BY DEF Once
    <3> HIDE DEF g
    <3>3. Parses(raw, 0, g)
      BY <3>1, <3>2 DEF Parses
    <3> QED  BY <1>1, <3>3
  <2>2. ASSUME NEW n \in 1..N, n - 1 \in S  PROVE n \in S
    <3>1. PICK g : Parses(raw, n - 1, g)
      BY <2>2
    <3> DEFINE h == [m \in 0..n |-> IF m = n THEN AddName(g[n - 1], raw[n]) ELSE g[m]]
    <3>2. n - 1 \in 0..(n - 1) /\ g[n - 1] \in Seq(Collectors) /\ raw[n] \in Collectors
      BY <1>1, <3>1 DEF Parses
    <3>3. AddName(g[n - 1], raw[n]) \in Seq(Collectors) /\ Once(AddName(g[n - 1], raw[n]))
      BY <3>1, <3>2, AddNameOnce DEF Parses
    <3>4. \A m \in 0..n : m # n => m \in 0..(n - 1)
      BY <1>1
    <3>5. h \in [0..n -> Seq(Collectors)] /\ h[0] = <<>> /\ \A m \in 0..n : Once(h[m])
      <4>1. \A m \in 0..n : m # n => g[m] \in Seq(Collectors) /\ Once(g[m])
        BY <3>1, <3>4 DEF Parses
      <4>2. \A m \in 0..n : h[m] \in Seq(Collectors) /\ Once(h[m])
        BY <3>3, <4>1
      <4>3. h[0] = <<>>
        BY <1>1, <3>1 DEF Parses
      <4> QED  BY <4>2, <4>3
    <3>6. \A m \in 1..n : h[m] = AddName(h[m - 1], raw[m])
      <4> SUFFICES ASSUME NEW m \in 1..n  PROVE h[m] = AddName(h[m - 1], raw[m])
        OBVIOUS
      <4>1. m \in 0..n /\ m - 1 \in 0..n /\ m - 1 # n /\ h[m - 1] = g[m - 1]
        BY <1>1
      <4>2. CASE m = n
        BY <4>1, <4>2
      <4>3. CASE m # n
        <5>1. m \in 1..(n - 1) /\ h[m] = g[m]
          BY <4>1, <4>3
        <5> QED  BY <3>1, <4>1, <5>1 DEF Parses
      <4> QED  BY <4>2, <4>3
    <3> HIDE DEF h
    <3>7. Parses(raw, n, h)
      BY <3>5, <3>6 DEF Parses
    <3> QED  BY <2>2, <3>7
  <2>3. 0..N \subseteq S
    <3> HIDE DEF S
    <3> QED  BY <1>1, <2>1, <2>2, UpTo
  <2>4. PICK g : Parses(raw, N, g)
    <3>1. N \in S
      BY <1>1, <2>3
    <3> QED  BY <3>1
  <2>5. g = Body(g)
    <3>1. \A n \in 0..N : g[n] = Body(g)[n]
      <4> SUFFICES ASSUME NEW n \in 0..N  PROVE g[n] = Body(g)[n]
        OBVIOUS
      <4>1. CASE n = 0
        BY <2>4, <4>1 DEF Parses
      <4>2. CASE n # 0
        <5>1. n \in 1..N
          BY <1>1, <4>2
        <5>2. g[n] = AddName(g[n - 1], raw[n])
          BY <2>4, <5>1 DEF Parses
        <5> QED  BY <4>2, <5>2 DEF AddName
      <4> QED  BY <4>1, <4>2
    <3>2. DOMAIN g = 0..N /\ DOMAIN Body(g) = 0..N /\ g = [n \in 0..N |-> g[n]]
      BY <2>4 DEF Parses
    <3> QED  BY <3>1, <3>2
  <2> QED  BY <2>5
<1>4. names = Body(names)
  BY <1>3
<1> HIDE DEF names
<1>5. names[0] = <<>> /\ \A n \in 1..N : names[n] = AddName(names[n - 1], raw[n])
  <2>1. \A n \in 0..N : names[n] = Body(names)[n]
    BY <1>4
  <2> QED  BY <1>1, <2>1 DEF AddName
<1> DEFINE S == {n \in 0..N : /\ names[n] \in Seq(Collectors) /\ Once(names[n])
                              /\ n # 0 => names[n] # <<>>}
<1>6. 0 \in S
  <2>1. <<>> \in Seq(Collectors) /\ Once(<<>>) /\ 0 \in 0..N
    BY <1>1 DEF Once
  <2> QED  BY <1>5, <2>1
<1>7. ASSUME NEW n \in 1..N, n - 1 \in S  PROVE n \in S
  <2>1. names[n - 1] \in Seq(Collectors) /\ Once(names[n - 1]) /\ raw[n] \in Collectors
    BY <1>1, <1>7
  <2>2. /\ AddName(names[n - 1], raw[n]) \in Seq(Collectors)
        /\ AddName(names[n - 1], raw[n]) # <<>> /\ Once(AddName(names[n - 1], raw[n]))
    BY <2>1, AddNameOnce
  <2> QED  BY <1>1, <1>5, <2>2
<1>8. 0..N \subseteq S
  <2> HIDE DEF S
  <2> QED  BY <1>1, <1>6, <1>7, UpTo
<1>9. N \in S /\ N # 0
  BY <1>1, <1>8
<1> QED  BY <1>2, <1>9
-----------------------------------------------------------------------------
(* What is built is a finite set of datums. *)

AnyDatum == [metric : MetricNames, of : Nat, value : Int]

LEMMA MarkIsDatum ==
  ASSUME NEW metric \in MetricNames, NEW truncated
  PROVE  Mark(metric, truncated) \in AnyDatum
BY DEF Mark, Datum, FileSystem, AnyDatum

\* Datums of some places of a sequence.
SeriesOf(metric, P, f) == {Datum(metric, i, f[i]) : i \in P}

LEMMA SeriesAreDatums ==
  ASSUME NEW S, NEW s \in Seq(S), NEW P, P \subseteq DOMAIN s, NEW metric \in MetricNames,
         NEW f \in [P -> Int]
  PROVE  SeriesOf(metric, P, f) \subseteq AnyDatum /\ IsFiniteSet(SeriesOf(metric, P, f))
<1> DEFINE g == [i \in P |-> Datum(metric, i, f[i])]
<1>1. IsFiniteSet(P)
  BY PlacesAreFinite
<1>2. IsFiniteSet({g[i] : i \in P})
  <2>1. DOMAIN g = P /\ g = [i \in P |-> g[i]]
    OBVIOUS
  <2> HIDE DEF g
  <2> QED  BY <1>1, <2>1, ImageIsFinite
<1>3. SeriesOf(metric, P, f) = {g[i] : i \in P}
  BY DEF SeriesOf
<1>4. DOMAIN s \subseteq Nat
  OBVIOUS
<1>5. \A i \in P : Datum(metric, i, f[i]) \in AnyDatum
  BY <1>4 DEF Datum, AnyDatum
<1>6. SeriesOf(metric, P, f) \subseteq AnyDatum
  BY <1>5 DEF SeriesOf
<1> QED  BY <1>2, <1>3, <1>6

LEMMA PercentIs ==
  ASSUME NEW q \in Quota, Usable(q)
  PROVE  Percent(q) \in Nat /\ (Percent(q) < 100 => q.used < q.limit)
<1>1. q.limit = 2 /\ q.used \in {0, 1, 2}
  BY DEF Quota, Usable
<1>2. CASE q.used = 0
  BY <1>1, <1>2 DEF Percent
<1>3. CASE q.used = 1
  BY <1>1, <1>3 DEF Percent
<1>4. CASE q.used = 2
  <2>1. Percent(q) = 200 \div 2
    BY <1>1, <1>4 DEF Percent
  <2>2. Percent(q) = 100
    BY <2>1
  <2> QED  BY <2>2
<1> QED  BY <1>1, <1>2, <1>3, <1>4

\* The percentages of the quotas that count, and their maximum.
Percents == {Percent(q) : q \in {r \in Range(read) : Usable(r)}}

LEMMA PercentsAre ==
  ASSUME read \in Seq(Quota)
  PROVE  /\ Percents \subseteq Int /\ IsFiniteSet(Percents)
         /\ Percents # {} => Max(Percents) \in Percents /\ \A p \in Percents : p <= Max(Percents)
<1> DEFINE P == {i \in DOMAIN read : Usable(read[i])}
<1> DEFINE f == [i \in P |-> Percent(read[i])]
<1>1. \A i \in DOMAIN read : read[i] \in Quota
  OBVIOUS
<1>2. Percents = {f[i] : i \in P}
  <2>1. \A q \in Range(read) : Usable(q) => \E i \in P : q = read[i]
    BY DEF Range
  <2>2. \A i \in P : read[i] \in Range(read) /\ Usable(read[i])
    BY DEF Range
  <2> QED  BY <2>1, <2>2 DEF Percents
<1>3. IsFiniteSet(P)
  BY PlacesAreFinite
<1>4. IsFiniteSet({f[i] : i \in P})
  <2>1. DOMAIN f = P /\ f = [i \in P |-> f[i]]
    OBVIOUS
  <2> HIDE DEF f, P
  <2> QED  BY <1>3, <2>1, ImageIsFinite
<1>5. \A i \in P : f[i] \in Int
  BY <1>1, PercentIs
<1>6. Percents \subseteq Int /\ IsFiniteSet(Percents)
  BY <1>2, <1>4, <1>5
<1> QED  BY <1>6, MaxIsIn

LEMMA QtreeDatumsAre ==
  ASSUME read \in Seq(Quota)
  PROVE  QtreeDatums \subseteq AnyDatum /\ IsFiniteSet(QtreeDatums)
<1> DEFINE P == {i \in DOMAIN read : Usable(read[i])}
<1> DEFINE f == [i \in P |-> Percent(read[i])]
<1>1. f \in [P -> Int]
  <2>1. \A i \in DOMAIN read : read[i] \in Quota
    OBVIOUS
  <2> QED  BY <2>1, PercentIs
<1>2. QuotaSeries(read) = SeriesOf("QuotaUsedPercent", P, f)
  BY DEF QuotaSeries, SeriesOf
<1>3. QuotaSeries(read) \subseteq AnyDatum /\ IsFiniteSet(QuotaSeries(read))
  <2>1. "QuotaUsedPercent" \in MetricNames /\ P \subseteq DOMAIN read
    BY DEF MetricNames
  <2> HIDE DEF f, P
  <2>2. /\ SeriesOf("QuotaUsedPercent", P, f) \subseteq AnyDatum
        /\ IsFiniteSet(SeriesOf("QuotaUsedPercent", P, f))
    BY <1>1, <2>1, SeriesAreDatums, Zenon
  <2> QED  BY <1>2, <2>2
<1> DEFINE top == IF Percents = {} THEN {}
                  ELSE {Datum("QuotaUsedPercentMax", FileSystem, Max(Percents))}
<1>4. top \subseteq AnyDatum /\ IsFiniteSet(top)
  <2>1. CASE Percents = {}
    BY <2>1, FS_EmptySet
  <2>2. CASE Percents # {}
    <3>1. Max(Percents) \in Int
      BY <2>2, PercentsAre
    <3> DEFINE d == Datum("QuotaUsedPercentMax", FileSystem, Max(Percents))
    <3>2. d \in AnyDatum
      BY <3>1 DEF Datum, FileSystem, AnyDatum, MetricNames
    <3> HIDE DEF d
    <3>3. {d} \subseteq AnyDatum /\ IsFiniteSet({d})
      BY <3>2, FS_Singleton
    <3> QED  BY <2>2, <3>3 DEF d
  <2> QED  BY <2>1, <2>2
<1> DEFINE mark == {Mark("QuotaReportTruncated", more)}
<1>5. mark \subseteq AnyDatum /\ IsFiniteSet(mark)
  <2>1. "QuotaReportTruncated" \in MetricNames
    BY DEF MetricNames
  <2>2. Mark("QuotaReportTruncated", more) \in AnyDatum
    BY <2>1, MarkIsDatum
  <2> QED  BY <2>2, FS_Singleton
<1>6. QtreeDatums = QuotaSeries(read) \cup (top \cup mark)
  BY DEF QtreeDatums, QuotaSummary, Percents
<1> HIDE DEF top, mark
<1>7. IsFiniteSet(top \cup mark)
  BY <1>4, <1>5, FS_Union
<1>8. IsFiniteSet(QuotaSeries(read) \cup (top \cup mark))
  BY <1>3, <1>7, FS_Union
<1> QED  BY <1>3, <1>4, <1>5, <1>6, <1>8
\* What both unions of datums need.
AreDatums(T) == T \subseteq AnyDatum /\ IsFiniteSet(T)

LEMMA UnionOfDatums ==
  ASSUME NEW T, NEW U, AreDatums(T), AreDatums(U)
  PROVE  AreDatums(T \cup U)
<1>1. IsFiniteSet(T \cup U)
  BY FS_Union DEF AreDatums
<1> QED  BY <1>1 DEF AreDatums

LEMMA OneDatum ==
  ASSUME NEW metric \in MetricNames, NEW i \in Nat, NEW value \in Int
  PROVE  AreDatums({Datum(metric, i, value)})
<1>1. Datum(metric, i, value) \in AnyDatum
  BY DEF Datum, AnyDatum
<1> QED  BY <1>1, FS_Singleton DEF AreDatums

LEMMA OneMark ==
  ASSUME NEW metric \in MetricNames, NEW truncated
  PROVE  AreDatums({Mark(metric, truncated)})
<1>1. Mark(metric, truncated) \in AnyDatum
  BY MarkIsDatum
<1> QED  BY <1>1, FS_Singleton DEF AreDatums

LEMMA NoDatum == AreDatums({})
BY FS_EmptySet DEF AreDatums

Unhealthy == {i \in DOMAIN read : ~read[i].healthy}
LagsRead == {read[i].lag : i \in DOMAIN read} \ {-1}

LEMMA LagsAre ==
  ASSUME read \in Seq(Relationship)
  PROVE  /\ LagsRead \subseteq Int
         /\ LagsRead # {} => Max(LagsRead) \in Int
<1> DEFINE P == DOMAIN read
<1> DEFINE f == [i \in P |-> read[i].lag]
<1>1. \A i \in DOMAIN read : read[i] \in Relationship
  OBVIOUS
<1>2. \A i \in P : f[i] \in Int
  BY <1>1, MetricsAssumption DEF Relationship
<1>3. IsFiniteSet(P)
  BY PlacesAreFinite
<1>4. IsFiniteSet({f[i] : i \in P})
  <2>1. DOMAIN f = P /\ f = [i \in P |-> f[i]]
    OBVIOUS
  <2> HIDE DEF f, P
  <2> QED  BY <1>3, <2>1, ImageIsFinite
<1>5. LagsRead \subseteq {f[i] : i \in P}
  BY DEF LagsRead
<1>6. LagsRead \subseteq Int /\ IsFiniteSet(LagsRead)
  <2> HIDE DEF f, P
  <2>1. {f[i] : i \in P} \subseteq Int
    BY <1>2
  <2> QED  BY <1>4, <1>5, <2>1, FS_Subset
<1> QED  BY <1>6, MaxIsIn

LEMMA SnapmirrorDatumsAre ==
  ASSUME read \in Seq(Relationship)
  PROVE  SnapmirrorDatums \subseteq AnyDatum /\ IsFiniteSet(SnapmirrorDatums)
<1>1. \A i \in DOMAIN read : read[i] \in Relationship
  OBVIOUS
<1> DEFINE P == Drawn(WithPath(read))
<1> DEFINE L == {j \in P : read[j].lag # -1}
<1> DEFINE h == [i \in P |-> IF read[i].healthy THEN 1 ELSE 0]
<1> DEFINE l == [i \in L |-> read[i].lag]
<1>2. P \subseteq DOMAIN read /\ L \subseteq DOMAIN read
  BY DEF Drawn, WithPath
<1>3. h \in [P -> Int] /\ l \in [L -> Int]
  <2>1. \A i \in L : read[i].lag \in Int
    <3>1. \A r \in Relationship : r.lag \in Lags
      BY DEF Relationship
    <3>2. \A i \in L : read[i] \in Relationship
      BY <1>1, <1>2
    <3> QED  BY <3>1, <3>2, MetricsAssumption
  <2>2. \A i \in P : (IF read[i].healthy THEN 1 ELSE 0) \in Int
    OBVIOUS
  <2> HIDE DEF P, L
  <2> QED  BY <2>1, <2>2
<1>4. RelationshipSeries(read) =
        SeriesOf("RelationshipHealthy", P, h) \cup SeriesOf("LagSeconds", L, l)
  BY DEF RelationshipSeries, SeriesOf
<1>5. "RelationshipHealthy" \in MetricNames /\ "LagSeconds" \in MetricNames
  BY DEF MetricNames
<1> HIDE DEF P, L, h, l
<1>6. AreDatums(SeriesOf("RelationshipHealthy", P, h))
  BY <1>2, <1>3, <1>5, SeriesAreDatums, Zenon DEF AreDatums
<1>7. AreDatums(SeriesOf("LagSeconds", L, l))
  BY <1>2, <1>3, <1>5, SeriesAreDatums, Zenon DEF AreDatums
<1> DEFINE a == {Datum("UnhealthyCount", FileSystem, Cardinality(Unhealthy))}
<1> DEFINE m(t) == {Mark("RelationshipsTruncated", t)}
<1> DEFINE t == \/ Cardinality(WithPath(read)) > MaxSeries
                \/ more
                \/ WithPath(read) # DOMAIN read
<1> DEFINE b == IF LagsRead = {} THEN {} ELSE {Datum("LagSecondsMax", FileSystem, Max(LagsRead))}
<1>8. SnapmirrorDatums = RelationshipSeries(read) \cup ((a \cup m(t)) \cup b)
  BY DEF SnapmirrorDatums, RelationshipSummary, Unhealthy, LagsRead
<1>9. AreDatums(a)
  <2>1. Cardinality(Unhealthy) \in Int /\ FileSystem \in Nat /\ "UnhealthyCount" \in MetricNames
    <3>1. Unhealthy \subseteq DOMAIN read
      BY DEF Unhealthy
    <3>2. Cardinality(Unhealthy) \in Nat
      BY <3>1, PlacesAreFinite
    <3> QED  BY <3>2 DEF FileSystem, MetricNames
  <2> QED  BY <2>1, OneDatum
<1>10. AreDatums(m(t))
  <2>1. "RelationshipsTruncated" \in MetricNames
    BY DEF MetricNames
  <2> HIDE DEF t
  <2> QED  BY <2>1, OneMark
<1>11. AreDatums(b)
  <2>1. CASE LagsRead = {}
    BY <2>1, NoDatum
  <2>2. CASE LagsRead # {}
    <3>1. Max(LagsRead) \in Int /\ FileSystem \in Nat /\ "LagSecondsMax" \in MetricNames
      BY <2>2, LagsAre DEF FileSystem, MetricNames
    <3>2. AreDatums({Datum("LagSecondsMax", FileSystem, Max(LagsRead))})
      BY <3>1, OneDatum
    <3> QED  BY <2>2, <3>2
  <2> QED  BY <2>1, <2>2
<1> HIDE DEF a, m, b, t
<1>12. AreDatums(RelationshipSeries(read))
  BY <1>4, <1>6, <1>7, UnionOfDatums
<1>13. AreDatums((a \cup m(t)) \cup b)
  BY <1>9, <1>10, <1>11, UnionOfDatums
<1>14. AreDatums(RelationshipSeries(read) \cup ((a \cup m(t)) \cup b))
  BY <1>12, <1>13, UnionOfDatums
<1> QED  BY <1>8, <1>14 DEF AreDatums

\* The counter of a row that has a match.
LEMMA DeltaIs ==
  ASSUME read \in Seq(Row), sample \in Seq(Row), NEW i \in DOMAIN sample, MatchedRow(i) # {}
  PROVE  CounterDelta(i) \in Int
<1>1. PICK r \in MatchedRow(i) : r = (CHOOSE q \in MatchedRow(i) : TRUE)
  OBVIOUS
<1>2. r \in Row /\ sample[i] \in Row
  BY DEF MatchedRow, SameIdentity
<1>3. r.ops \in 0..2 /\ sample[i].ops \in 0..2
  BY <1>2, Zenon DEF Row
<1>4. CounterDelta(i) = r.ops - sample[i].ops
  BY <1>1 DEF CounterDelta
<1> QED  BY <1>3, <1>4

\* The value of a datum of one row.
ValueOf(metric, delta) == IF metric = "QosOps" THEN (1000 * delta) \div elapsed ELSE delta

\* The datums of one row.
LEMMA RowDatumsAre ==
  ASSUME read \in Seq(Row), sample \in Seq(Row), elapsed \in Int, NEW i \in DOMAIN sample
  PROVE  /\ AreDatums(RowDatums(i))
         /\ \A d \in RowDatums(i) :
              /\ d.of = i /\ d.value = ValueOf(d.metric, CounterDelta(i))
              /\ d.metric \in {"QosOps", "QosLatency"} /\ MatchedRow(i) # {}
              /\ CounterDelta(i) >= 0 /\ elapsed > 0
<1>1. CASE MatchedRow(i) = {}
  BY <1>1, NoDatum DEF RowDatums
<1>2. CASE MatchedRow(i) # {}
  <2> DEFINE delta == CounterDelta(i)
  <2>1. delta \in Int /\ i \in Nat
    BY <1>2, DeltaIs
  <2>2. "QosOps" \in MetricNames /\ "QosLatency" \in MetricNames
    BY DEF MetricNames
  <2> HIDE DEF delta
  <2> DEFINE rate == (1000 * delta) \div elapsed
  <2>3. delta >= 0 /\ elapsed > 0 => rate \in Int
    <3> SUFFICES ASSUME delta >= 0, elapsed > 0  PROVE rate \in Int
      OBVIOUS
    <3>1. 1000 * delta \in Nat /\ elapsed \in Nat \ {0}
      BY <2>1
    <3> QED  BY <3>1, QuotientIs
  <2>4. RateDatums(i, delta) = IF delta < 0 \/ elapsed <= 0 THEN {} ELSE {Datum("QosOps", i, rate)}
    BY DEF RateDatums
  <2> HIDE DEF rate
  <2>5. AreDatums(RateDatums(i, delta))
    <3>1. CASE delta < 0 \/ elapsed <= 0
      BY <2>4, <3>1, NoDatum
    <3>2. CASE ~(delta < 0 \/ elapsed <= 0)
      <4>1. rate \in Int
        BY <2>1, <2>3, <3>2
      <4> QED  BY <2>1, <2>2, <2>4, <3>2, <4>1, OneDatum
    <3> QED  BY <3>1, <3>2
  <2>6. AreDatums(LatencyDatum(i, delta))
    BY <2>1, <2>2, OneDatum, NoDatum DEF LatencyDatum
  <2>7. RowDatums(i) = RateDatums(i, delta) \cup LatencyDatum(i, delta)
    BY <1>2 DEF RowDatums, delta
  <2>8. \A d \in RateDatums(i, delta) :
          delta >= 0 /\ ~(elapsed <= 0) /\ d = Datum("QosOps", i, rate)
    BY <2>1, <2>4
  <2>9. \A d \in LatencyDatum(i, delta) :
          delta >= 0 /\ ~(elapsed <= 0) /\ d = Datum("QosLatency", i, delta)
    BY <2>1 DEF LatencyDatum
  <2>10. \A d \in RowDatums(i) :
              /\ d.of = i /\ d.value = ValueOf(d.metric, delta)
              /\ d.metric \in {"QosOps", "QosLatency"} /\ delta >= 0 /\ ~(elapsed <= 0)
    BY <2>7, <2>8, <2>9 DEF Datum, ValueOf, rate
  <2>11. AreDatums(RateDatums(i, delta) \cup LatencyDatum(i, delta))
    BY <2>5, <2>6, UnionOfDatums
  <2>12. elapsed > 0 \/ elapsed <= 0
    OBVIOUS
  <2> QED  BY <1>2, <2>7, <2>10, <2>11, <2>12 DEF delta
<1> QED  BY <1>1, <1>2

LEMMA QosDatumsAre ==
  ASSUME read \in Seq(Row), sample \in Seq(Row), elapsed \in Int
  PROVE  QosDatums \subseteq AnyDatum /\ IsFiniteSet(QosDatums)
<1> DEFINE P == Drawn(Publishable)
<1> DEFINE f == [i \in P |-> RowDatums(i)]
<1>1. P \subseteq DOMAIN sample
  BY DEF Drawn, Publishable, Candidates
<1>2. QosSeries = UNION {f[i] : i \in P}
  BY DEF QosSeries
<1>3. \A i \in P : AreDatums(f[i])
  BY <1>1, RowDatumsAre
<1>4. IsFiniteSet({f[i] : i \in P})
  <2>1. DOMAIN f = P /\ f = [i \in P |-> f[i]]
    OBVIOUS
  <2>2. IsFiniteSet(P)
    BY <1>1, PlacesAreFinite
  <2> HIDE DEF f, P
  <2> QED  BY <2>1, <2>2, ImageIsFinite
<1> HIDE DEF f, P
<1>5. AreDatums(QosSeries)
  <2> DEFINE T == {f[i] : i \in P}
  <2>1. \A t \in T : t \subseteq AnyDatum /\ IsFiniteSet(t)
    BY <1>3 DEF AreDatums
  <2>2. IsFiniteSet(UNION T)
    <3> HIDE DEF T
    <3> QED  BY <1>4, <2>1, FS_UNION DEF T
  <2> QED  BY <1>2, <2>1, <2>2 DEF AreDatums
<1>6. AreDatums(QosSummary)
  <2>1. "QosPolicyGroupsTruncated" \in MetricNames
    BY DEF MetricNames
  <2> QED  BY <2>1, OneMark DEF QosSummary
<1>7. AreDatums(QosSeries \cup QosSummary)
  BY <1>5, <1>6, UnionOfDatums
<1> QED  BY <1>7 DEF QosDatums, AreDatums

-----------------------------------------------------------------------------
(* The inductive invariant.                                                *)

InCollector == pc \in {"get", "build", "put"}

PhasesOf(c) ==
  CASE c = "qtree" -> {"quotas"}
    [] c = "snapmirror" -> {"relationships"}
    [] c = "qos" -> {"schemas", "workloads", "sample1", "sample2"}

LastPhase(c) == IF c = "qos" THEN "sample2" ELSE FirstPhase(c)

\* Every collector is in the list once, and a template has one.
NamedOnce ==
  /\ Once(collectors) /\ collectors # <<>>
  /\ entry = "template" => Len(collectors) = 1

\* The collection that is read is one of the collector whose turn it is; the
\* collectors still to come have no result, and none of them starts after a
\* rejected login.
InOrder ==
  /\ InCollector => at <= Len(collectors) /\ ~AuthFailed /\ phase \in PhasesOf(Name)
  /\ pc \in {"build", "put"} => phase = LastPhase(Name)
  /\ pc = "get" => pages < MaxPages
  /\ pc = "collect" \/ InCollector =>
       \A i \in at..Len(collectors) : results[collectors[i]] = "none"
  /\ entry = "template" => ~AuthFailed

\* Nothing of a collector outlives it.
NoLocals ==
  /\ ~InCollector => phase = "none" /\ read = <<>> /\ ~more /\ pages = 0
                       /\ sample = <<>> /\ ~resending /\ clock = 0 /\ start = 0
  /\ pc # "put" => queue = {} /\ cloud = {}

\* No two rows have the same name.
Distinct(rows) ==
  \A i, j \in DOMAIN rows :
    rows[i].workload = rows[j].workload /\ rows[i].workload # "" => i = j

\* What a row of the first sample may have become.
RowsAfter(row, now) ==
     {Later(row, now, 0, row.ops + d, d) : d \in 0..1}
  \cup {Later(row, now, 0, n, 1) : n \in 0..1} \cup {Later(row, now, 0, 0, 0)}
  \cup {Later(row, now, 1, d, d) : d \in 0..1}

\* The rows of workloads that were not in these.
NewRows(rows, now) == {FirstRow(w, now) : w \in Workloads \ NamesOf(rows)}

\* The rows of a second sample after these.
RowsSince(rows, now) ==
  (UNION {RowsAfter(row, now) : row \in {q \in Range(rows) : Candidate(q)}})
  \cup NewRows(rows, now)

LEMMA SecondRowsAre ==
  ASSUME NEW now
  PROVE  SecondRows(now) = RowsSince(sample, now)
BY DEF SecondRows, RowsSince, RowsAfter, NewRows

\* What has been read is of the collection that is read.
Reading ==
  /\ phase = "quotas" => read \in Seq(Quota)
  /\ phase = "relationships" => read \in Seq(Relationship)
  /\ phase \in {"schemas", "workloads", "sample1"} => read = <<>>
  /\ (\A i \in DOMAIN sample : sample[i] \in FirstRows(sample[i].when)) /\ Distinct(sample)
  /\ phase = "sample2" =>
       /\ \A i \in DOMAIN read :
            read[i].when \in 0..clock /\ read[i] \in RowsSince(sample, read[i].when)
       /\ Distinct(read)

\* What was built is put or still to put, and what is still to put is owed.
Putting ==
  pc = "put" => queue \cup cloud = Datums(Name) /\ owed[Name] = Cardinality(queue)

\* A collector that is a success owes nothing, and only a success has a heartbeat.
Honest ==
  \A c \in Collectors : /\ beats[c] = 1 => results[c] = "ok"
                        /\ results[c] = "ok" => owed[c] = 0

\* A rejected login that neither a lost invocation nor a lost answer accounts
\* for is in the results of this invocation, which goes on without logging in.
Logins ==
  entry = "handler" =>
    rejected <= lost + unanswered + (IF AuthFailed /\ pc # "raised" THEN 1 ELSE 0)

IInv == /\ TypeOK
        /\ NamedOnce /\ InOrder /\ NoLocals /\ Reading /\ Putting /\ Honest /\ Logins

-----------------------------------------------------------------------------
(* What a step leaves alone.                                               *)

LEMMA NamesStay ==
  ASSUME NamedOnce, UNCHANGED setup
  PROVE  NamedOnce'
BY DEF NamedOnce, Once, setup

LEMMA ReadingStays ==
  ASSUME Reading, UNCHANGED reading
  PROVE  Reading'
<1>1. phase' = phase /\ read' = read /\ sample' = sample /\ clock' = clock
  BY DEF reading, times
<1> QED  BY <1>1 DEF Reading, Distinct

LEMMA NothingRead ==
  ASSUME DropLocals
  PROVE  /\ Reading'
         /\ phase' \in Phases /\ more' \in BOOLEAN /\ pages' = 0
         /\ resending' \in BOOLEAN /\ {clock', start'} \subseteq Nat
         /\ read' \in Seq(Quota \cup Relationship \cup Row) /\ sample' \in Seq(Row)
<1>1. phase' = "none" /\ read' = <<>> /\ sample' = <<>> /\ more' = FALSE /\ pages' = 0
      /\ resending' = FALSE /\ clock' = 0 /\ start' = 0
  BY DEF DropLocals
<1>2. DOMAIN read' = {} /\ DOMAIN sample' = {}
  BY <1>1
<1>3. Reading'
  BY <1>1, <1>2 DEF Reading, Distinct
<1>4. <<>> \in Seq(Quota \cup Relationship \cup Row) /\ <<>> \in Seq(Row)
  OBVIOUS
<1>5. "none" \in Phases /\ 0 \in Nat
  BY DEF Phases
<1> QED  BY <1>1, <1>3, <1>4, <1>5

LEMMA InitOK ==
  ASSUME Init
  PROVE  IInv
<1> USE DEF Init
<1>1. collectors \in Seq(Collectors) /\ collectors # <<>> /\ Once(collectors)
      /\ (entry = "template" => Len(collectors) = 1)
  <2>1. CASE entry = "handler"
    <3>1. PICK raw \in CollectorLists : collectors = ParseCollectors(raw)
      BY <2>1
    <3>2. raw \in Seq(Collectors) \ {<<>>}
      BY MetricsAssumption
    <3> QED  BY <2>1, <3>1, <3>2, ParsedOnce
  <2>2. CASE entry # "handler"
    <3>1. collectors \in TemplateLists
      BY <2>2
    <3>2. collectors \in Seq(Collectors) \ {<<>>} /\ Len(collectors) = 1
      BY <3>1, MetricsAssumption
    <3> QED  BY <3>2 DEF Once
  <2> QED  BY <2>1, <2>2
<1>2. Len(collectors) \in Nat /\ Len(collectors) # 0
  BY <1>1
<1>3. TypeOK
  <2>1. at \in 1..(Len(collectors) + 1)
    BY <1>2
  <2>2. results \in [Collectors -> {"none", "ok", "failed", "rejected", "skipped"}]
        /\ beats \in [Collectors -> {None, 0, 1}]
    BY DEF NoResults, NoBeats
  <2>3. /\ {password, secret} \subseteq 0..MaxRotations /\ cached \in 0..MaxRotations \cup {None}
        /\ pages \in 0..MaxPages /\ attempt \in 0..MaxRetries /\ faults \in 0..MaxFaults
    BY MetricsAssumption
  <2>4. /\ read \in Seq(Quota \cup Relationship \cup Row) /\ sample \in Seq(Row)
        /\ resending \in BOOLEAN /\ {clock, start} \subseteq Nat
        /\ more \in BOOLEAN /\ phase \in Phases /\ pc \in Pcs
    <3>1. <<>> \in Seq(Quota \cup Relationship \cup Row) /\ <<>> \in Seq(Row)
      OBVIOUS
    <3>2. "none" \in Phases /\ "idle" \in Pcs /\ 0 \in Nat /\ FALSE \in BOOLEAN
      BY DEF Pcs, Phases
    <3>3. /\ read = <<>> /\ sample = <<>> /\ resending = FALSE /\ clock = 0 /\ start = 0
          /\ more = FALSE /\ phase = "none" /\ pc = "idle"
      OBVIOUS
    <3> HIDE DEF Init
    <3> QED  BY <3>1, <3>2, <3>3
  <2>5. /\ queue \cup cloud \subseteq [metric : MetricNames, of : Nat, value : Int]
        /\ owed \in [Collectors -> Nat] /\ {rejected, unanswered, lost} \subseteq Nat
        /\ entry \in Entries
    OBVIOUS
  <2> HIDE DEF Init
  <2> QED  BY <1>1, <2>1, <2>2, <2>3, <2>4, <2>5 DEF TypeOK
<1>4. Reading
  <2>1. DOMAIN read = {} /\ DOMAIN sample = {}
    OBVIOUS
  <2> QED  BY <2>1 DEF Reading, Distinct
<1>5. ~AuthFailed
  BY DEF AuthFailed, NoResults
<1> QED  BY <1>1, <1>2, <1>3, <1>4, <1>5 DEF IInv, NamedOnce, InOrder, NoLocals, Putting, Honest,
             Logins, InCollector, NoResults, NoBeats, None

\* An invocation starts.
LEMMA InvokeOK ==
  ASSUME IInv, NEW cold \in BOOLEAN, Invoke(cold) \/ Repeat
  PROVE  IInv'
<1> USE DEF IInv
<1>1. Fresh /\ UNCHANGED <<setup, account, faults>> /\ pc \in {"idle", "raised"}
  BY DEF Invoke, Repeat
<1>2. NamedOnce' /\ Reading'
  BY <1>1, NamesStay, ReadingStays DEF Fresh
<1>3. TypeOK'
  <2>1. /\ entry' = entry /\ collectors' = collectors /\ password' = password /\ secret' = secret
        /\ UNCHANGED <<faults, phase, read, more, pages, resending, sample, clock, start>>
        /\ UNCHANGED <<queue, cloud>>
        /\ pc' = "collect" /\ at' = 1 /\ owed' = [c \in Collectors |-> 0]
        /\ results' = NoResults /\ beats' = NoBeats
    BY <1>1 DEF setup, account, reading, times, Fresh
  <2>2. /\ cached' \in {None, cached} /\ attempt' \in 0..MaxRetries
        /\ {rejected', unanswered', lost'} \subseteq Nat
    <3>1. attempt \in 0..MaxRetries /\ {rejected, unanswered, lost} \subseteq Nat
      BY DEF TypeOK
    <3> HIDE DEF IInv
    <3>2. CASE Invoke(cold)
      BY <3>2, MetricsAssumption DEF Invoke
    <3>3. CASE Repeat
      BY <3>1, <3>3, MetricsAssumption DEF Repeat
    <3> QED  BY <3>2, <3>3
  <2>3. at' \in 1..(Len(collectors) + 1)
    BY <2>1 DEF TypeOK
  <2>4. /\ results' \in [Collectors -> {"none", "ok", "failed", "rejected", "skipped"}]
        /\ beats' \in [Collectors -> {None, 0, 1}] /\ owed' \in [Collectors -> Nat]
    BY <2>1 DEF NoResults, NoBeats
  <2> QED  BY <2>1, <2>2, <2>3, <2>4 DEF TypeOK, Pcs
<1>4. ~AuthFailed'
  BY <1>1 DEF Fresh, AuthFailed, NoResults
<1>5. InOrder'
  <2>1. \A i \in 1..Len(collectors) : collectors[i] \in Collectors
    BY DEF TypeOK
  <2>2. \A i \in at'..Len(collectors') : results'[collectors'[i]] = "none"
    BY <1>1, <2>1 DEF Fresh, NoResults, setup
  <2> QED  BY <1>1, <1>4, <2>2 DEF InOrder, Fresh, InCollector
<1>6. NoLocals' /\ Putting'
  BY <1>1 DEF NoLocals, Putting, Fresh, InCollector, reading, times
<1>7. Honest'
  BY <1>1 DEF Honest, Fresh, NoResults, NoBeats, None
<1>8. Logins'
  <2>1. entry' = entry
    BY <1>1 DEF setup
  <2>2. entry = "handler" => /\ rejected' \in Nat /\ lost' \in Nat /\ unanswered' \in Nat
                             /\ rejected' <= lost' + unanswered'
    <3>1. {rejected, unanswered, lost} \subseteq Nat
      BY DEF TypeOK
    <3>2. CASE Invoke(cold)
      BY <3>2 DEF Invoke
    <3>3. CASE Repeat
      BY <3>1, <3>3 DEF Repeat, Logins
    <3> QED  BY <3>2, <3>3
  <2>3. lost' + unanswered' + 0 = lost' + unanswered' \/ entry # "handler"
    BY <2>2
  <2> HIDE DEF IInv
  <2> QED  BY <1>4, <2>1, <2>2, <2>3 DEF Logins
<1> QED  BY <1>2, <1>3, <1>5, <1>6, <1>7, <1>8

\* The name of the collector whose turn it is.
LEMMA NameIsCollector ==
  ASSUME TypeOK, at <= Len(collectors)
  PROVE  /\ Name \in Collectors /\ at \in DOMAIN collectors /\ Len(collectors) \in Nat
         /\ at \in Nat /\ at >= 1 /\ at + 1 \in 1..(Len(collectors) + 1)
<1>1. collectors \in Seq(Collectors) /\ at \in 1..(Len(collectors) + 1)
  BY DEF TypeOK
<1>2. Len(collectors) \in Nat /\ DOMAIN collectors = 1..Len(collectors)
  BY <1>1
<1>3. at \in 1..Len(collectors)
  BY <1>1, <1>2
<1> QED  BY <1>1, <1>2, <1>3 DEF Name

\* A result for the collector whose turn it is: the others keep theirs.
LEMMA OthersWait ==
  ASSUME IInv, pc = "collect" \/ InCollector, at <= Len(collectors), NEW result,
         setup' = setup, results' = [results EXCEPT ![Name] = result], at' = at + 1
  PROVE  \A i \in at'..Len(collectors') : results'[collectors'[i]] = "none"
<1>1. \A i \in at..Len(collectors) : results[collectors[i]] = "none"
  BY DEF IInv, InOrder
<1>2. at \in DOMAIN collectors /\ Len(collectors) \in Nat /\ at \in Nat /\ at >= 1
  BY NameIsCollector DEF IInv
<1>3. \A i \in at'..Len(collectors) : i \in at..Len(collectors) /\ i \in DOMAIN collectors /\ i # at
  <2>1. DOMAIN collectors = 1..Len(collectors)
    BY DEF IInv, TypeOK
  <2> QED  BY <1>2, <2>1
<1>4. \A i \in at'..Len(collectors) : collectors[i] # Name
  BY <1>2, <1>3 DEF IInv, NamedOnce, Once, Name
<1>5. \A i \in at'..Len(collectors) : collectors[i] \in Collectors
  BY <1>3 DEF IInv, TypeOK
<1>6. results \in [Collectors -> {"none", "ok", "failed", "rejected", "skipped"}]
  BY DEF IInv, TypeOK
<1> QED  BY <1>1, <1>3, <1>4, <1>5, <1>6 DEF setup

LEMMA GiveUpOK ==
  ASSUME IInv, GiveUp
  PROVE  IInv'
<1> USE DEF IInv, GiveUp
<1>1. NamedOnce' /\ Reading'
  BY NamesStay, ReadingStays
<1>2. TypeOK'
  BY DEF TypeOK, setup, account, reading, times, putting, outcome, event, Pcs
<1>3. AuthFailed' = AuthFailed
  BY DEF AuthFailed, outcome
<1>4. InOrder' /\ NoLocals' /\ Putting'
  BY <1>3 DEF InOrder, NoLocals, Putting, InCollector, reading, times, putting, setup
<1>5. Honest'
  BY DEF Honest, outcome, putting
<1>6. Logins'
  <2>1. rejected \in Nat /\ lost \in Nat /\ unanswered \in Nat
    BY DEF TypeOK
  <2> QED  BY <1>3, <2>1 DEF Logins, event, setup
<1> QED  BY <1>1, <1>2, <1>4, <1>5, <1>6

LEMMA StartCollectorOK ==
  ASSUME IInv, StartCollector
  PROVE  IInv'
<1> USE DEF IInv, StartCollector
<1>1. Name \in Collectors
  BY NameIsCollector
<1>2. /\ phase' \in {"quotas", "relationships", "schemas"} /\ phase' \in PhasesOf(Name)
      /\ read' = <<>> /\ sample' = <<>> /\ pages' = 0
  BY <1>1 DEF Collectors, FirstPhase, PhasesOf, NoLocals, InCollector
<1>3. NamedOnce'
  BY NamesStay
<1>4. Reading'
  <2>1. /\ DOMAIN read' = {} /\ DOMAIN sample' = {}
        /\ read' \in Seq(Quota) /\ read' \in Seq(Relationship)
    BY <1>2
  <2> QED  BY <1>2, <2>1 DEF Reading, Distinct
<1>5. TypeOK'
  <2>1. phase' \in Phases /\ pc' \in Pcs
    BY <1>2 DEF Phases, Pcs
  <2> QED  BY <2>1 DEF TypeOK, setup, account, times, putting, outcome, event
<1>6. AuthFailed' = AuthFailed
  BY DEF AuthFailed, outcome
<1>7. InOrder'
  <2>1. PhasesOf(Name)' = PhasesOf(Name)
    BY DEF PhasesOf, Name, setup
  <2> QED  BY <1>2, <1>6, <2>1, MetricsAssumption DEF InOrder, InCollector, setup, outcome
<1>8. NoLocals' /\ Putting'
  BY DEF NoLocals, Putting, InCollector, putting
<1>9. Honest' /\ Logins'
  BY <1>6 DEF Honest, Logins, outcome, event, setup, putting
<1> QED  BY <1>3, <1>4, <1>5, <1>7, <1>8, <1>9

LEMMA SkipCollectorOK ==
  ASSUME IInv, SkipCollector
  PROVE  IInv'
<1> USE DEF IInv, SkipCollector
<1>1. Name \in Collectors /\ at' \in 1..(Len(collectors) + 1)
  BY NameIsCollector
<1>2. NamedOnce' /\ Reading'
  BY NamesStay, ReadingStays
<1>3. TypeOK'
  BY <1>1 DEF TypeOK, setup, account, reading, times, putting, event
<1>4. results[Name] = "none"
  <2>1. at \in at..Len(collectors)
    BY NameIsCollector
  <2> QED  BY <2>1 DEF InOrder, Name
<1>5. AuthFailed' = AuthFailed
  BY <1>1, <1>4 DEF AuthFailed, TypeOK
<1>6. InOrder'
  BY <1>5, OthersWait DEF InOrder, InCollector, setup
<1>7. NoLocals' /\ Putting'
  BY DEF NoLocals, Putting, InCollector, reading, times, putting
<1>8. Honest'
  BY <1>1, <1>4 DEF Honest, TypeOK, putting
<1>9. Logins'
  BY <1>5 DEF Logins, event, setup
<1> QED  BY <1>2, <1>3, <1>6, <1>7, <1>8, <1>9

LEMMA StartHeartbeatsOK ==
  ASSUME IInv, StartHeartbeats
  PROVE  IInv'
<1> USE DEF IInv, StartHeartbeats
<1>1. NamedOnce' /\ Reading'
  BY NamesStay, ReadingStays
<1>2. TypeOK'
  BY DEF TypeOK, setup, account, reading, times, putting, outcome, event, Pcs
<1>3. AuthFailed' = AuthFailed
  BY DEF AuthFailed, outcome
<1>4. InOrder' /\ NoLocals' /\ Putting'
  BY <1>3 DEF InOrder, NoLocals, Putting, InCollector, reading, times, putting, setup
<1>5. Honest' /\ Logins'
  BY <1>3 DEF Honest, Logins, outcome, event, setup, putting
<1> QED  BY <1>1, <1>2, <1>4, <1>5

LEMMA FinishOK ==
  ASSUME IInv, Finish
  PROVE  IInv'
<1> USE DEF IInv, Finish
<1>1. NamedOnce' /\ Reading'
  BY NamesStay, ReadingStays
<1>2. TypeOK'
  BY DEF TypeOK, setup, account, reading, times, putting, outcome, event, Pcs
<1>3. AuthFailed' = AuthFailed
  BY DEF AuthFailed, outcome
<1>4. InOrder' /\ NoLocals' /\ Putting'
  BY <1>3 DEF InOrder, NoLocals, Putting, InCollector, reading, times, putting, setup
<1>5. Honest' /\ Logins'
  BY <1>3 DEF Honest, Logins, outcome, event, setup, putting
<1> QED  BY <1>1, <1>2, <1>4, <1>5

LEMMA HeartbeatOK ==
  ASSUME IInv, Heartbeat
  PROVE  IInv'
<1> USE DEF IInv, Heartbeat
<1>1. Name \in Collectors /\ at' \in 1..(Len(collectors) + 1)
  BY NameIsCollector
<1>2. NamedOnce' /\ Reading'
  BY NamesStay, ReadingStays
<1>3. TypeOK'
  BY <1>1 DEF TypeOK, setup, account, reading, times, putting, event
<1>4. AuthFailed' = AuthFailed
  BY DEF AuthFailed
<1>5. InOrder' /\ NoLocals' /\ Putting'
  BY <1>4 DEF InOrder, NoLocals, Putting, InCollector, reading, times, putting, setup
<1>6. Honest'
  <2>1. results' = results /\ owed' = owed
    BY DEF putting
  <2>2. beats \in [Collectors -> {None, 0, 1}]
    BY DEF TypeOK
  <2>3. \A c \in Collectors :
          beats'[c] = beats[c] \/ (beats'[c] = 1 => results[c] = "ok")
    <3>1. beats' = [beats EXCEPT ![Name] = IF results[Name] = "ok" THEN 1 ELSE 0]
      OBVIOUS
    <3> HIDE DEF IInv, Heartbeat
    <3> QED  BY <1>1, <2>2, <3>1
  <2>4. Honest
    OBVIOUS
  <2> HIDE DEF IInv, Heartbeat
  <2> QED  BY <2>1, <2>3, <2>4 DEF Honest
<1>7. Logins'
  BY <1>4 DEF Logins, event, setup
<1> QED  BY <1>2, <1>3, <1>5, <1>6, <1>7

LEMMA HeartbeatFailsOK ==
  ASSUME IInv, HeartbeatFails
  PROVE  IInv'
<1> USE DEF IInv, HeartbeatFails
<1>1. NamedOnce' /\ Reading'
  BY NamesStay, ReadingStays
<1>2. TypeOK'
  <2>1. lost' \in Nat /\ faults' \in 0..MaxFaults
    <3>1. lost \in Nat /\ faults \in 0..MaxFaults /\ lost' = lost + 1 /\ faults' = faults + 1
      BY DEF TypeOK
    <3> QED  BY <3>1, MetricsAssumption
  <2>2. /\ {rejected', unanswered', lost'} \subseteq Nat /\ attempt' = attempt
        /\ pc' \in Pcs
    BY <2>1 DEF TypeOK, Pcs
  <2> QED  BY <2>1, <2>2 DEF TypeOK, setup, account, reading, times, putting, outcome
<1>3. AuthFailed' = AuthFailed
  BY DEF AuthFailed, outcome
<1>4. InOrder' /\ NoLocals' /\ Putting'
  BY <1>3 DEF InOrder, NoLocals, Putting, InCollector, reading, times, putting, setup
<1>5. Honest'
  BY DEF Honest, outcome, putting
<1>6. Logins'
  <2>1. rejected \in Nat /\ lost \in Nat /\ unanswered \in Nat
    BY DEF TypeOK
  <2> QED  BY <1>3, <2>1 DEF Logins, setup
<1> QED  BY <1>1, <1>2, <1>4, <1>5, <1>6

LEMMA KilledOK ==
  ASSUME IInv, Killed
  PROVE  IInv'
<1> USE DEF IInv, Killed
<1>1. NamedOnce' /\ Reading'
  BY NamesStay, NothingRead
<1>2. TypeOK'
  <2>1. lost' \in Nat /\ rejected' \in Nat /\ faults' \in 0..MaxFaults
    <3>1. lost \in Nat /\ rejected \in Nat /\ faults \in 0..MaxFaults
      BY DEF TypeOK
    <3>2. rejected' \in {rejected, rejected + 1} /\ lost' = lost + 1 /\ faults' = faults + 1
      OBVIOUS
    <3> QED  BY <3>1, <3>2, MetricsAssumption
  <2>2. queue' \cup cloud' \subseteq [metric : MetricNames, of : Nat, value : Int]
    BY DEF DropLocals
  <2>3. pages' \in 0..MaxPages
    BY NothingRead, MetricsAssumption
  <2> QED  BY <2>1, <2>2, <2>3, NothingRead DEF TypeOK, setup, account, outcome, Pcs
<1>3. AuthFailed' = AuthFailed
  BY DEF AuthFailed, outcome
<1>4. InOrder' /\ NoLocals' /\ Putting'
  BY <1>3 DEF InOrder, NoLocals, Putting, InCollector, setup, DropLocals
<1>5. Honest'
  BY DEF Honest, outcome
<1>6. Logins'
  <2>1. rejected \in Nat /\ lost \in Nat /\ unanswered \in Nat
    BY DEF TypeOK
  <2>2. rejected' = rejected \/ (rejected' = rejected + 1 /\ ~AuthFailed)
    BY DEF InFlight, InOrder, InCollector
  <2> QED  BY <1>3, <2>1, <2>2 DEF Logins, setup
<1> QED  BY <1>1, <1>2, <1>4, <1>5, <1>6

\* What the datums of a collector are computed from.
LEMMA DatumsStay ==
  ASSUME UNCHANGED <<setup, at, reading>>
  PROVE  Datums(Name)' = Datums(Name)
<1>1. collectors' = collectors /\ at' = at /\ read' = read /\ more' = more
      /\ sample' = sample /\ elapsed' = elapsed
  BY DEF setup, reading, times, elapsed
<1>2. Name' = Name
  BY <1>1 DEF Name
<1>3. QtreeDatums' = QtreeDatums
  BY <1>1 DEF QtreeDatums, QuotaSeries, QuotaSummary, Mark
<1>4. SnapmirrorDatums' = SnapmirrorDatums
  BY <1>1 DEF SnapmirrorDatums, RelationshipSeries, RelationshipSummary, WithPath, Drawn, Mark
<1>5. QosDatums' = QosDatums
  <2>1. \A i : RowDatums(i)' = RowDatums(i)
    BY <1>1 DEF RowDatums, RateDatums, LatencyDatum, CounterDelta, MatchedRow, SameIdentity
  <2>2. Candidates' = Candidates
    BY <1>1 DEF Candidates
  <2>3. Publishable' = Publishable
    BY <2>1, <2>2 DEF Publishable
  <2>4. QosSeries' = QosSeries
    BY <2>1, <2>3 DEF QosSeries, Drawn
  <2>5. QosSummary' = QosSummary
    BY <1>1, <2>2, <2>3 DEF QosSummary, QosCapped, Mark
  <2> QED  BY <2>4, <2>5 DEF QosDatums
<1> QED  BY <1>2, <1>3, <1>4, <1>5 DEF Datums

LEMMA RotateOK ==
  ASSUME IInv, RotatePassword \/ RotateSecret
  PROVE  IInv'
<1> USE DEF IInv
<1>1. UNCHANGED <<setup, cached, pc, at, reading, putting, outcome, event, faults>>
  BY DEF RotatePassword, RotateSecret
<1>2. NamedOnce' /\ Reading'
  BY <1>1, NamesStay, ReadingStays
<1>3. TypeOK'
  <2>1. {password, secret} \subseteq 0..MaxRotations
    BY DEF TypeOK
  <2>2. {password', secret'} \subseteq 0..MaxRotations
    <3> HIDE DEF IInv
    <3>1. CASE RotatePassword
      BY <2>1, <3>1, MetricsAssumption DEF RotatePassword
    <3>2. CASE RotateSecret
      BY <2>1, <3>2, MetricsAssumption DEF RotateSecret
    <3> QED  BY <3>1, <3>2
  <2>3. /\ UNCHANGED <<entry, collectors, cached, pc, at, phase, read, more, pages>>
        /\ UNCHANGED <<resending, sample, clock, start, queue, cloud, owed>>
        /\ UNCHANGED <<results, beats, attempt, rejected, unanswered, lost, faults>>
    BY <1>1 DEF setup, reading, times, putting, outcome, event
  <2> QED  BY <2>2, <2>3 DEF TypeOK
<1>4. AuthFailed' = AuthFailed
  BY <1>1 DEF AuthFailed, outcome
<1>5. InOrder'
  <2>1. PhasesOf(Name)' = PhasesOf(Name) /\ LastPhase(Name)' = LastPhase(Name)
    BY <1>1 DEF PhasesOf, LastPhase, FirstPhase, Name, setup
  <2> QED  BY <1>1, <1>4, <2>1 DEF InOrder, InCollector, setup, outcome, reading, times
<1>6. Putting'
  BY <1>1, DatumsStay DEF Putting, putting, Name, setup
<1>7. NoLocals'
  BY <1>1 DEF NoLocals, InCollector, putting, reading, times
<1>8. Honest' /\ Logins'
  BY <1>1, <1>4 DEF Honest, Logins, outcome, event, setup, putting
<1> QED  BY <1>2, <1>3, <1>5, <1>6, <1>7, <1>8
-----------------------------------------------------------------------------
(* The rows of the two samples.                                            *)

LEMMA RowIs ==
  ASSUME NEW w \in Workloads \cup {"system", ""}, NEW b \in 0..1, NEW n \in 0..2, NEW d \in 0..1,
         NEW now \in Nat
  PROVE  [workload |-> w, born |-> b, ops |-> n, did |-> d, when |-> now] \in Row
BY DEF Row

LEMMA Digits == 0 \in 0..1 /\ 1 \in 0..1 /\ 0 \in 0..2 /\ 1 \in 0..2
OBVIOUS

LEMMA FirstRowIs ==
  ASSUME NEW now \in Nat, NEW r \in FirstRows(now)
  PROVE  /\ r \in Row /\ r.born = 0 /\ r.ops = 1 /\ r.did = 0 /\ r.when = now
         /\ r.workload \in Workloads \cup {"system", ""}
<1>1. PICK w \in Workloads \cup {"system", ""} :
        r = [workload |-> w, born |-> 0, ops |-> 1, did |-> 0, when |-> now]
  BY DEF FirstRows, FirstRow
<1>2. r \in Row
  BY <1>1, Digits, RowIs, Zenon
<1> QED  BY <1>1, <1>2

LEMMA LaterIs ==
  ASSUME NEW now \in Nat, NEW row, row.workload \in Workloads \cup {"system", ""},
         NEW b \in 0..1, NEW n \in 0..2, NEW d \in 0..1, b = 0 => n - 1 <= d
  PROVE  /\ Later(row, now, b, n, d) \in Row /\ Later(row, now, b, n, d).when = now
         /\ Later(row, now, b, n, d).born = 0 =>
              Later(row, now, b, n, d).ops - 1 <= Later(row, now, b, n, d).did
<1> DEFINE s == [workload |-> row.workload, born |-> b, ops |-> n, did |-> d, when |-> now]
<1>1. Later(row, now, b, n, d) = s
  BY DEF Later
<1>2. s \in Row
  BY RowIs
<1>3. s.born = b /\ s.ops = n /\ s.did = d /\ s.when = now
  OBVIOUS
<1> HIDE DEF s
<1> QED  BY <1>1, <1>2, <1>3

\* The rows of the first sample.
FirstSample == \A i \in DOMAIN sample : sample[i] \in FirstRows(sample[i].when)

\* A row of the second sample that was not created anew counted no more than
\* its workload did.
LEMMA SecondRowIs ==
  ASSUME FirstSample, sample \in Seq(Row), NEW now \in Nat, NEW r \in RowsSince(sample, now)
  PROVE  r \in Row /\ r.when = now /\ (r.born = 0 => r.ops - 1 <= r.did)
<1> DEFINE C == {q \in Range(sample) : Candidate(q)}
<1> DEFINE G == {RowsAfter(row, now) : row \in C}
<1>1. r \in NewRows(sample, now) \/ r \in UNION G
  <2>1. RowsSince(sample, now) = (UNION G) \cup NewRows(sample, now)
    BY DEF RowsSince
  <2> HIDE DEF G
  <2> QED  BY <2>1
<1>2. CASE r \in NewRows(sample, now)
  <2>1. PICK w \in Workloads : r = [workload |-> w, born |-> 0, ops |-> 1, did |-> 0, when |-> now]
    BY <1>2 DEF NewRows, FirstRow
  <2>2. r \in Row
    BY <2>1, Digits, RowIs, Zenon
  <2>3. r.ops = 1 /\ r.did = 0 /\ r.when = now
    BY <2>1
  <2> QED  BY <2>2, <2>3
<1>3. CASE r \in UNION G
  <2>1. PICK row \in Range(sample) : r \in RowsAfter(row, now)
    <3>1. \A T \in G : \E row \in C : T = RowsAfter(row, now)
      OBVIOUS
    <3>2. C \subseteq Range(sample)
      OBVIOUS
    <3> HIDE DEF C, G
    <3>3. PICK T \in G : r \in T
      BY <1>3
    <3> QED  BY <3>1, <3>2, <3>3
  <2>2. row.ops = 1 /\ row.workload \in Workloads \cup {"system", ""}
    <3>1. PICK i \in DOMAIN sample : row = sample[i]
      BY <2>1 DEF Range
    <3>2. row \in FirstRows(row.when)
      BY <3>1 DEF FirstSample
    <3>3. row.when \in Nat
      <4>1. row \in Row
        BY <3>1
      <4> QED  BY <4>1, Zenon DEF Row
    <3> QED  BY <3>2, <3>3, FirstRowIs
  <2>3. \E b \in 0..1, n \in 0..2, d \in 0..1 :
          Later(row, now, b, n, d) = r /\ (b = 0 => n - 1 <= d)
    <3>1. CASE r \in {Later(row, now, 0, row.ops + d, d) : d \in 0..1}
      <4>1. PICK d \in 0..1 : r = Later(row, now, 0, 1 + d, d)
        BY <2>2, <3>1
      <4>2. 1 + d \in 0..2 /\ (1 + d) - 1 <= d /\ 0 \in 0..1
        OBVIOUS
      <4> QED  BY <4>1, <4>2
    <3>2. CASE r \in {Later(row, now, 0, n, 1) : n \in 0..1}
      <4>1. PICK n \in 0..1 : r = Later(row, now, 0, n, 1)
        BY <3>2
      <4>2. n \in 0..2 /\ n - 1 <= 1 /\ 0 \in 0..1 /\ 1 \in 0..1
        OBVIOUS
      <4> QED  BY <4>1, <4>2
    <3>3. CASE r = Later(row, now, 0, 0, 0)
      <4>1. 0 \in 0..2 /\ 0 \in 0..1 /\ 0 - 1 <= 0
        OBVIOUS
      <4> QED  BY <3>3, <4>1
    <3>4. CASE r \in {Later(row, now, 1, d, d) : d \in 0..1}
      <4>1. PICK d \in 0..1 : r = Later(row, now, 1, d, d)
        BY <3>4
      <4>2. d \in 0..2 /\ 1 \in 0..1 /\ 1 # 0
        OBVIOUS
      <4> QED  BY <4>1, <4>2
    <3> QED  BY <2>1, <3>1, <3>2, <3>3, <3>4 DEF RowsAfter
  <2>4. PICK b \in 0..1, n \in 0..2, d \in 0..1 :
          Later(row, now, b, n, d) = r /\ (b = 0 => n - 1 <= d)
    BY <2>3
  <2>5. /\ Later(row, now, b, n, d) \in Row /\ Later(row, now, b, n, d).when = now
        /\ Later(row, now, b, n, d).born = 0 =>
             Later(row, now, b, n, d).ops - 1 <= Later(row, now, b, n, d).did
    BY <2>2, <2>4, LaterIs
  <2> QED  BY <2>4, <2>5
<1> QED  BY <1>1, <1>2, <1>3

\* What has been read of the second sample are rows.
LEMMA RowsRead ==
  ASSUME IInv, phase = "sample2"
  PROVE  /\ read \in Seq(Row) /\ sample \in Seq(Row) /\ FirstSample
         /\ clock \in Nat /\ start \in Nat /\ elapsed \in Int
<1>1. sample \in Seq(Row) /\ clock \in Nat /\ start \in Nat
  BY DEF IInv, TypeOK
<1>2. FirstSample
  BY DEF IInv, Reading, FirstSample
<1>3. read \in Seq(Quota \cup Relationship \cup Row)
  BY DEF IInv, TypeOK
<1>4. ASSUME NEW i \in DOMAIN read  PROVE read[i] \in Row
  <2> DEFINE now == read[i].when
  <2>1. now \in Nat /\ read[i] \in RowsSince(sample, now)
    BY <1>1 DEF IInv, Reading
  <2> HIDE DEF now
  <2> QED  BY <1>1, <1>2, <2>1, SecondRowIs
<1> QED  BY <1>1, <1>2, <1>3, <1>4 DEF elapsed

\* A page with a new name, or with none, keeps the names apart.
LEMMA AddRow ==
  ASSUME NEW rows \in Seq(Row), Distinct(rows), NEW page,
         page = <<>> \/ \E r \in Row : page = <<r>> /\ r.workload \notin NamesOf(rows)
  PROVE  rows \o page \in Seq(Row) /\ Distinct(rows \o page)
<1> DEFINE t == rows \o page
<1>1. page = <<>> \/ \E r \in Row : page = <<r>>
  OBVIOUS
<1>2. /\ t \in Seq(Row)
      /\ \A i \in DOMAIN t : \/ i \in DOMAIN rows /\ t[i] = rows[i]
                             \/ i = Len(rows) + 1 /\ page = <<t[i]>>
  BY <1>1, AddPage, Zenon
<1>3. \A i \in DOMAIN rows : i \in DOMAIN t /\ t[i] = rows[i]
  BY <1>1, AddPage, Zenon
<1>4. \A i \in DOMAIN t : i \notin DOMAIN rows => t[i].workload \notin NamesOf(rows)
  <2>1. \A x, y : <<x>> = <<y>> => x = y
    OBVIOUS
  <2>2. \A x : <<x>> # <<>>
    OBVIOUS
  <2> HIDE DEF t
  <2> QED  BY <1>2, <2>1, <2>2
<1> HIDE DEF t
<1>5. \A i \in DOMAIN rows : rows[i].workload # "" => rows[i].workload \in NamesOf(rows)
  BY DEF NamesOf, Range
<1>6. \A i, j \in DOMAIN t : t[i].workload = t[j].workload /\ t[i].workload # "" => i = j
  <2> SUFFICES ASSUME NEW i \in DOMAIN t, NEW j \in DOMAIN t,
                      t[i].workload = t[j].workload, t[i].workload # ""
               PROVE  i = j
    OBVIOUS
  <2>1. CASE i \in DOMAIN rows /\ j \in DOMAIN rows
    <3>1. t[i] = rows[i] /\ t[j] = rows[j]
      BY <1>2, <2>1, <1>3
    <3> QED  BY <2>1, <3>1 DEF Distinct
  <2>2. CASE i \in DOMAIN rows /\ j \notin DOMAIN rows
    BY <1>4, <1>5, <1>3, <2>2
  <2>3. CASE i \notin DOMAIN rows /\ j \in DOMAIN rows
    BY <1>4, <1>5, <1>3, <2>3
  <2>4. CASE i \notin DOMAIN rows /\ j \notin DOMAIN rows
    BY <1>2, <2>4
  <2> QED  BY <2>1, <2>2, <2>3, <2>4
<1>7. Distinct(t)
  BY <1>6 DEF Distinct
<1> QED  BY <1>2, <1>7 DEF t

-----------------------------------------------------------------------------
(* The requests.                                                           *)

LEMMA CredentialsAre ==
  ASSUME TypeOK, NEW expired
  PROVE  Credentials(expired) \in 0..MaxRotations \cup {None}
BY DEF Credentials, TypeOK

\* A collector that goes on reading, or has read all it reads.
LEMMA GoesOn ==
  ASSUME IInv, NEW expired, LoggedIn(expired), pc' \in {"get", "build"},
         phase' \in PhasesOf(Name), pc' = "build" => phase' = LastPhase(Name),
         pc' = "get" => pages' < MaxPages, Reading',
         more' \in BOOLEAN, pages' \in 0..MaxPages, {clock', start'} \subseteq Nat,
         read' \in Seq(Quota \cup Relationship \cup Row), sample' \in Seq(Row)
  PROVE  IInv'
<1> USE DEF IInv, LoggedIn
<1>1. at <= Len(collectors) /\ ~AuthFailed
  BY DEF InOrder, InCollector
<1>2. Name \in Collectors
  BY <1>1, NameIsCollector
<1>3. NamedOnce'
  BY NamesStay
<1>4. TypeOK'
  <2>1. phase' \in Phases
    BY <1>2 DEF Phases, PhasesOf, Collectors
  <2>2. cached' \in 0..MaxRotations \cup {None}
    BY CredentialsAre
  <2>3. pc' \in Pcs
    BY DEF Pcs
  <2> QED  BY <2>1, <2>2, <2>3 DEF TypeOK, setup, account, putting, outcome, event
<1>5. AuthFailed' = AuthFailed
  BY DEF AuthFailed, outcome
<1>6. InOrder'
  <2>1. PhasesOf(Name)' = PhasesOf(Name) /\ LastPhase(Name)' = LastPhase(Name)
    BY DEF PhasesOf, LastPhase, FirstPhase, Name, setup
  <2>2. \A i \in at..Len(collectors) : results[collectors[i]] = "none"
    BY DEF InOrder, InCollector
  <2>3. Name' = Name
    BY DEF Name, setup
  <2> QED  BY <1>1, <1>5, <2>1, <2>2, <2>3 DEF InOrder, InCollector, setup, outcome
<1>7. NoLocals' /\ Putting'
  BY DEF NoLocals, Putting, InCollector, putting
<1>8. Honest' /\ Logins'
  BY <1>5 DEF Honest, Logins, outcome, event, setup, putting
<1> QED  BY <1>3, <1>4, <1>6, <1>7, <1>8

\* The phases of the QoS collector are its own.
LEMMA QosPhases ==
  ASSUME IInv, pc = "get", phase \in {"schemas", "workloads", "sample1", "sample2"}
  PROVE  /\ PhasesOf(Name) = {"schemas", "workloads", "sample1", "sample2"}
         /\ LastPhase(Name) = "sample2"
<1>1. Name \in Collectors
  BY NameIsCollector DEF IInv, InOrder, InCollector
<1>2. phase \in PhasesOf(Name)
  BY DEF IInv, InOrder, InCollector
<1> QED  BY <1>1, <1>2 DEF Collectors, PhasesOf, LastPhase

LEMMA GetSchemasOK ==
  ASSUME IInv, NEW expired, GetSchemas(expired)
  PROVE  IInv'
<1> USE DEF GetSchemas
<1>1. pc = "get" /\ PhasesOf(Name) = {"schemas", "workloads", "sample1", "sample2"}
  BY QosPhases DEF LoggedIn
<1>2. Reading'
  BY DEF IInv, Reading, Distinct, times
<1>3. phase' \in PhasesOf(Name) /\ pc' = "get" /\ pages' < MaxPages
  BY <1>1 DEF IInv, InOrder
<1>4. /\ more' \in BOOLEAN /\ pages' \in 0..MaxPages /\ {clock', start'} \subseteq Nat
      /\ read' \in Seq(Quota \cup Relationship \cup Row) /\ sample' \in Seq(Row)
  BY DEF IInv, TypeOK, times
<1> QED  BY <1>2, <1>3, <1>4, GoesOn

\* The number of pages stays below the cap while the reading goes on.
LEMMA PagesAre ==
  ASSUME TypeOK, NEW next, pc = "get" => pages < MaxPages, pc = "get"
  PROVE  /\ pages + 1 \in 0..MaxPages /\ (Continues(next) => pages + 1 < MaxPages)
         /\ 0 \in 0..MaxPages /\ 0 < MaxPages
BY MetricsAssumption DEF TypeOK, Continues

LEMMA GetWorkloadsOK ==
  ASSUME IInv, NEW expired, NEW next \in BOOLEAN, GetWorkloads(expired, next)
  PROVE  IInv'
<1> USE DEF GetWorkloads
<1>1. pc = "get" /\ PhasesOf(Name) = {"schemas", "workloads", "sample1", "sample2"}
  BY QosPhases DEF LoggedIn
<1>2. Reading'
  <2>1. phase' \in {"workloads", "sample1"}
    OBVIOUS
  <2> QED  BY <2>1 DEF IInv, Reading, Distinct, times
<1>3. pages' \in 0..MaxPages /\ pages' < MaxPages
  BY <1>1, PagesAre DEF IInv, InOrder
<1>4. phase' \in PhasesOf(Name) /\ pc' = "get"
  BY <1>1
<1>5. /\ more' \in BOOLEAN /\ {clock', start'} \subseteq Nat
      /\ read' \in Seq(Quota \cup Relationship \cup Row) /\ sample' \in Seq(Row)
  BY DEF IInv, TypeOK, times
<1> QED  BY <1>2, <1>3, <1>4, <1>5, GoesOn
LEMMA GetQuotasOK ==
  ASSUME IInv, NEW expired, NEW next \in BOOLEAN, NEW now, NEW page \in Pages(now),
         GetQuotas(expired, page, next)
  PROVE  IInv'
<1> USE DEF GetQuotas, ReadPage
<1>1. pc = "get" /\ phase = "quotas" /\ phase' = "quotas" /\ more' \in BOOLEAN
  BY DEF LoggedIn
<1>2. PhasesOf(Name) = {"quotas"} /\ LastPhase(Name) = "quotas"
  <2>1. Name \in Collectors
    BY <1>1, NameIsCollector DEF IInv, InOrder, InCollector
  <2>2. phase \in PhasesOf(Name)
    BY <1>1 DEF IInv, InOrder, InCollector
  <2> QED  BY <1>1, <2>1, <2>2 DEF Collectors, PhasesOf, LastPhase, FirstPhase
<1>3. read \in Seq(Quota) /\ (page = <<>> \/ \E r \in Quota : page = <<r>>)
  BY <1>1 DEF IInv, Reading, Pages
<1>4. read' \in Seq(Quota)
  BY <1>3, AddPage
<1>5. read' \in Seq(Quota \cup Relationship \cup Row)
  BY <1>4
<1>6. Reading'
  <2>1. sample' = sample
    OBVIOUS
  <2> QED  BY <1>1, <1>4, <2>1 DEF IInv, Reading, Distinct
<1>7. pc' \in {"get", "build"} /\ pages' \in 0..MaxPages /\ (pc' = "get" => pages' < MaxPages)
  BY <1>1, PagesAre DEF IInv, InOrder
<1>8. {clock', start'} \subseteq Nat /\ sample' \in Seq(Row)
  BY DEF IInv, TypeOK, times
<1> QED  BY <1>1, <1>2, <1>5, <1>6, <1>7, <1>8, GoesOn

LEMMA GetRelationshipsOK ==
  ASSUME IInv, NEW expired, NEW next \in BOOLEAN, NEW now, NEW page \in Pages(now),
         GetRelationships(expired, page, next)
  PROVE  IInv'
<1> USE DEF GetRelationships, ReadPage
<1>1. pc = "get" /\ phase = "relationships" /\ phase' = "relationships" /\ more' \in BOOLEAN
  BY DEF LoggedIn
<1>2. PhasesOf(Name) = {"relationships"} /\ LastPhase(Name) = "relationships"
  <2>1. Name \in Collectors
    BY <1>1, NameIsCollector DEF IInv, InOrder, InCollector
  <2>2. phase \in PhasesOf(Name)
    BY <1>1 DEF IInv, InOrder, InCollector
  <2> QED  BY <1>1, <2>1, <2>2 DEF Collectors, PhasesOf, LastPhase, FirstPhase
<1>3. read \in Seq(Relationship) /\ (page = <<>> \/ \E r \in Relationship : page = <<r>>)
  BY <1>1 DEF IInv, Reading, Pages
<1>4. read' \in Seq(Relationship)
  BY <1>3, AddPage
<1>5. read' \in Seq(Quota \cup Relationship \cup Row)
  BY <1>4
<1>6. Reading'
  <2>1. sample' = sample
    OBVIOUS
  <2> QED  BY <1>1, <1>4, <2>1 DEF IInv, Reading, Distinct
<1>7. pc' \in {"get", "build"} /\ pages' \in 0..MaxPages /\ (pc' = "get" => pages' < MaxPages)
  BY <1>1, PagesAre DEF IInv, InOrder
<1>8. {clock', start'} \subseteq Nat /\ sample' \in Seq(Row)
  BY DEF IInv, TypeOK, times
<1> QED  BY <1>1, <1>2, <1>5, <1>6, <1>7, <1>8, GoesOn

LEMMA MomentIs ==
  ASSUME IInv, NEW now \in Moments
  PROVE  now \in Nat /\ clock \in Nat /\ start \in Nat /\ clock <= now
BY DEF Moments, IInv, TypeOK

LEMMA GetSample1OK ==
  ASSUME IInv, NEW expired, NEW next \in BOOLEAN, NEW now \in Moments, NEW page \in Pages(now),
         GetSample1(expired, now, page, next)
  PROVE  IInv'
<1> USE DEF GetSample1
<1>1. pc = "get" /\ phase = "sample1" /\ pc' = "get" /\ phase' \in {"sample1", "sample2"}
  BY DEF LoggedIn
<1>2. PhasesOf(Name) = {"schemas", "workloads", "sample1", "sample2"}
  BY <1>1, QosPhases
<1>3. page = <<>> \/ \E r \in FirstRows(now) : page = <<r>> /\ r.workload \notin NamesOf(sample)
  BY <1>1 DEF Pages
<1>4. sample \in Seq(Row) /\ Distinct(sample) /\ FirstSample /\ read = <<>>
  BY <1>1 DEF IInv, TypeOK, Reading, FirstSample
<1>5. now \in Nat /\ clock \in Nat /\ start \in Nat
  BY MomentIs
<1>6. page = <<>> \/ \E r \in Row : page = <<r>> /\ r.workload \notin NamesOf(sample)
  BY <1>3, <1>5, FirstRowIs
<1>7. sample' \in Seq(Row) /\ Distinct(sample')
  BY <1>4, <1>6, AddRow
<1>8. \A i \in DOMAIN sample' : sample'[i] \in FirstRows(sample'[i].when)
  <2> DEFINE Rows == {r \in Row : r \in FirstRows(r.when)}
  <2>1. sample \in Seq(Rows)
    BY <1>4 DEF FirstSample
  <2>2. page = <<>> \/ \E r \in Rows : page = <<r>>
    BY <1>3, <1>5, FirstRowIs
  <2>3. sample' \in Seq(Rows)
    <3> HIDE DEF Rows
    <3> QED  BY <2>1, <2>2, AddPage
  <2> QED  BY <2>3
<1>9. Reading'
  <2>1. DOMAIN read' = {} /\ read' = <<>>
    <3>1. read' = read
      OBVIOUS
    <3> QED  BY <1>4, <3>1
  <2>2. Distinct(sample)' = Distinct(sample')
    BY DEF Distinct
  <2>3. Distinct(read)'
    BY <2>1 DEF Distinct
  <2> QED  BY <1>1, <1>7, <1>8, <2>1, <2>2, <2>3 DEF Reading
<1>10. pages' \in 0..MaxPages /\ pages' < MaxPages
  BY <1>1, PagesAre DEF IInv, InOrder
<1>11. /\ more' \in BOOLEAN /\ {clock', start'} \subseteq Nat
       /\ read' \in Seq(Quota \cup Relationship \cup Row)
  BY <1>5 DEF IInv, TypeOK
<1> QED  BY <1>1, <1>2, <1>7, <1>9, <1>10, <1>11, GoesOn

LEMMA GetSample2OK ==
  ASSUME IInv, NEW expired, NEW next \in BOOLEAN, NEW now \in Moments, NEW page \in Pages(now),
         GetSample2(expired, now, page, next)
  PROVE  IInv'
<1> USE DEF GetSample2
<1>1. pc = "get" /\ phase = "sample2" /\ phase' = "sample2" /\ pc' \in {"get", "build"}
  BY DEF LoggedIn
<1>2. PhasesOf(Name) = {"schemas", "workloads", "sample1", "sample2"} /\ LastPhase(Name) = "sample2"
  BY <1>1, QosPhases
<1>3. page = <<>> \/ \E r \in SecondRows(now) : page = <<r>> /\ r.workload \notin NamesOf(read)
  BY <1>1 DEF Pages
<1>4. /\ Distinct(read) /\ Distinct(sample) /\ FirstSample
      /\ \A i \in DOMAIN read :
           read[i].when \in 0..clock /\ read[i] \in RowsSince(sample, read[i].when)
  BY <1>1 DEF IInv, Reading, FirstSample
<1>5. now \in Nat /\ clock \in Nat /\ start \in Nat /\ clock <= now
  BY MomentIs
<1>6. read \in Seq(Row) /\ sample \in Seq(Row)
  BY <1>1, RowsRead
<1>7. \A r \in SecondRows(now) : r \in Row /\ r.when = now
  BY <1>4, <1>5, <1>6, SecondRowIs, SecondRowsAre
<1>8. read' \in Seq(Row) /\ Distinct(read \o page)
  <2>1. page = <<>> \/ \E r \in Row : page = <<r>> /\ r.workload \notin NamesOf(read)
    BY <1>3, <1>7
  <2> QED  BY <1>4, <1>6, <2>1, AddRow
<1>9. \A i \in DOMAIN read' :
        read'[i].when \in 0..now /\ read'[i] \in RowsSince(sample, read'[i].when)
  <2> DEFINE Rows == {r \in Row : r.when \in 0..now /\ r \in RowsSince(sample, r.when)}
  <2>1. read \in Seq(Rows)
    <3>1. \A i \in DOMAIN read : read[i] \in Rows
      BY <1>4, <1>5, <1>6
    <3> QED  BY <1>6, <3>1
  <2>2. page = <<>> \/ \E r \in Rows : page = <<r>>
    BY <1>3, <1>5, <1>7, SecondRowsAre
  <2>3. read' \in Seq(Rows)
    <3> HIDE DEF Rows
    <3> QED  BY <2>1, <2>2, AddPage
  <2> QED  BY <2>3
<1>10. Reading'
  <2>1. sample' = sample /\ clock' = now
    OBVIOUS
  <2>2. Distinct(read)' /\ Distinct(sample)'
    BY <1>4, <1>8, <2>1 DEF Distinct
  <2>3. \A i \in DOMAIN read' :
          read'[i].when \in 0..clock' /\ read'[i] \in RowsSince(sample', read'[i].when)
    BY <1>9, <2>1
  <2>4. \A i \in DOMAIN sample' : sample'[i] \in FirstRows(sample'[i].when)
    BY <1>4, <2>1 DEF FirstSample
  <2> QED  BY <1>1, <2>2, <2>3, <2>4 DEF Reading
<1>11. pages' \in 0..MaxPages /\ (pc' = "get" => pages' < MaxPages)
  BY <1>1, PagesAre DEF IInv, InOrder
<1>12. more' \in BOOLEAN /\ {clock', start'} \subseteq Nat /\ sample' \in Seq(Row)
  BY <1>5 DEF IInv, TypeOK
<1>13. read' \in Seq(Quota \cup Relationship \cup Row)
  BY <1>8
<1> QED  BY <1>1, <1>2, <1>10, <1>11, <1>12, <1>13, GoesOn
-----------------------------------------------------------------------------
(* The end of a collector.                                                 *)

\* A collector that fails leaves the rest of the invariant as it was.
LEMMA FailsOK ==
  ASSUME IInv, pc \in {"get", "put"}, NEW result \in {"failed", "rejected"},
         CollectorFails(result), owed' \in [Collectors -> Nat],
         \A c \in Collectors : c # Name => owed'[c] = owed[c],
         cached' \in 0..MaxRotations \cup {None}, faults' \in 0..MaxFaults,
         rejected' \in Nat, unanswered' \in Nat,
         entry = "handler" =>
           rejected' <= lost + unanswered' + (IF result = "rejected" THEN 1 ELSE 0)
  PROVE  IInv'
<1> USE DEF IInv, CollectorFails, TemplateFails
<1>1. at <= Len(collectors) /\ ~AuthFailed
  BY DEF InOrder, InCollector
<1>2. Name \in Collectors /\ at + 1 \in 1..(Len(collectors) + 1)
  BY <1>1, NameIsCollector
<1>3. results[Name] = "none" /\ beats[Name] # 1
  <2>1. at \in at..Len(collectors)
    BY <1>1, NameIsCollector
  <2>2. results[Name] = "none"
    BY <2>1 DEF InOrder, InCollector, Name
  <2> QED  BY <1>2, <2>2 DEF Honest
<1>4. NamedOnce' /\ Reading' /\ entry' = entry
  BY NamesStay, NothingRead DEF setup
<1>5. /\ pc' \in {"raised", "collect"} /\ at' \in 1..(Len(collectors) + 1)
      /\ results' \in [Collectors -> {"none", "ok", "failed", "rejected", "skipped"}]
      /\ \A c \in Collectors : c # Name => results'[c] = results[c]
      /\ results'[Name] = IF entry = "template" THEN "none" ELSE result
      /\ pc' = IF entry = "template" THEN "raised" ELSE "collect"
  <2>1. results \in [Collectors -> {"none", "ok", "failed", "rejected", "skipped"}]
        /\ at \in 1..(Len(collectors) + 1)
    BY DEF TypeOK
  <2>2. CASE TemplateFails
    BY <1>3, <2>1, <2>2
  <2>3. CASE ~TemplateFails
    <3>1. entry = "handler" /\ results' = [results EXCEPT ![Name] = result] /\ at' = at + 1
          /\ pc' = "collect"
      BY <2>3
    <3> QED  BY <1>2, <2>1, <3>1
  <2> QED  BY <2>2, <2>3
<1>6. TypeOK'
  <2>1. queue' \cup cloud' \subseteq [metric : MetricNames, of : Nat, value : Int]
    BY DEF DropLocals
  <2>2. pages' \in 0..MaxPages
    BY NothingRead, MetricsAssumption
  <2> QED  BY <1>5, <2>1, <2>2, NothingRead DEF TypeOK, setup, account, Pcs
<1>7. AuthFailed' => entry = "handler" /\ result = "rejected"
  BY <1>1, <1>5 DEF AuthFailed
<1>8. entry = "handler" /\ result = "rejected" => AuthFailed'
  BY <1>2, <1>5 DEF AuthFailed
<1>9. InOrder'
  <2>1. pc' = "collect" => \A i \in at'..Len(collectors') : results'[collectors'[i]] = "none"
    <3> SUFFICES ASSUME pc' = "collect"
                 PROVE  \A i \in at'..Len(collectors') : results'[collectors'[i]] = "none"
      OBVIOUS
    <3>1. results' = [results EXCEPT ![Name] = result] /\ at' = at + 1 /\ setup' = setup
      OBVIOUS
    <3> QED  BY <1>1, <3>1, OthersWait DEF InCollector
  <2>2. entry \in Entries
    BY DEF TypeOK
  <2> QED  BY <1>4, <1>5, <1>7, <2>1, <2>2 DEF InOrder, InCollector, Entries
<1>10. NoLocals' /\ Putting'
  BY <1>5 DEF NoLocals, Putting, InCollector, DropLocals
<1>11. Honest'
  <2>1. beats' = beats
    OBVIOUS
  <2> QED  BY <1>3, <1>5, <2>1 DEF Honest
<1>12. Logins'
  <2>1. lost' = lost /\ rejected' \in Nat /\ unanswered' \in Nat /\ lost \in Nat
    BY DEF TypeOK
  <2> QED  BY <1>4, <1>5, <1>7, <1>8, <2>1 DEF Logins
<1> QED  BY <1>4, <1>6, <1>9, <1>10, <1>11, <1>12

LEMMA NotLoggedInYet ==
  ASSUME IInv, InCollector
  PROVE  /\ rejected \in Nat /\ lost \in Nat /\ unanswered \in Nat
         /\ entry = "handler" => rejected <= lost + unanswered
         /\ at <= Len(collectors) /\ Name \in Collectors /\ ~AuthFailed
<1>1. at <= Len(collectors) /\ ~AuthFailed
  BY DEF IInv, InOrder
<1>2. Name \in Collectors
  BY <1>1, NameIsCollector DEF IInv
<1>3. rejected \in Nat /\ lost \in Nat /\ unanswered \in Nat
  BY DEF IInv, TypeOK
<1> QED  BY <1>1, <1>2, <1>3 DEF IInv, Logins

LEMMA GetRejectedOK ==
  ASSUME IInv, NEW expired, GetRejected(expired)
  PROVE  IInv'
<1> USE DEF GetRejected
<1>1. /\ rejected \in Nat /\ lost \in Nat /\ unanswered \in Nat
      /\ entry = "handler" => rejected <= lost + unanswered
  BY NotLoggedInYet DEF InCollector
<1>2. cached' \in 0..MaxRotations \cup {None}
  BY CredentialsAre DEF IInv
<1>3. owed' \in [Collectors -> Nat] /\ (\A c \in Collectors : c # Name => owed'[c] = owed[c])
      /\ faults' \in 0..MaxFaults
  BY DEF IInv, TypeOK
<1>4. /\ rejected' \in Nat /\ unanswered' \in Nat
      /\ entry = "handler" => rejected' <= lost + unanswered' + 1
  BY <1>1
<1> QED  BY <1>2, <1>3, <1>4, FailsOK

LEMMA GetFailsOK ==
  ASSUME IInv, NEW expired, GetFails(expired)
  PROVE  IInv'
<1> USE DEF GetFails
<1>1. /\ rejected \in Nat /\ lost \in Nat /\ unanswered \in Nat
      /\ entry = "handler" => rejected <= lost + unanswered
  BY NotLoggedInYet DEF InCollector
<1>2. cached' \in 0..MaxRotations \cup {None}
  BY CredentialsAre DEF IInv, TypeOK
<1>3. owed' \in [Collectors -> Nat] /\ (\A c \in Collectors : c # Name => owed'[c] = owed[c])
  BY DEF IInv, TypeOK
<1>4. faults' \in 0..MaxFaults
  BY MetricsAssumption DEF IInv, TypeOK
<1>5. /\ rejected' \in Nat /\ unanswered' \in Nat
      /\ entry = "handler" => rejected' <= lost + unanswered' + 0
  BY <1>1
<1> QED  BY <1>2, <1>3, <1>4, <1>5, FailsOK

LEMMA GetForbiddenOK ==
  ASSUME IInv, NEW expired, GetForbidden(expired)
  PROVE  IInv'
<1> USE DEF GetForbidden
<1>1. /\ rejected \in Nat /\ lost \in Nat /\ unanswered \in Nat
      /\ entry = "handler" => rejected <= lost + unanswered
  BY NotLoggedInYet DEF InCollector
<1>2. cached' \in 0..MaxRotations \cup {None}
  BY CredentialsAre DEF IInv
<1>3. owed' \in [Collectors -> Nat] /\ (\A c \in Collectors : c # Name => owed'[c] = owed[c])
  BY DEF IInv, TypeOK
<1>4. faults' \in 0..MaxFaults
  BY MetricsAssumption DEF IInv, TypeOK
<1>5. /\ rejected' \in Nat /\ unanswered' \in Nat
      /\ entry = "handler" => rejected' <= lost + unanswered' + 1
  BY <1>1
<1> QED  BY <1>2, <1>3, <1>4, <1>5, FailsOK

\* A rejection whose answer is lost is counted twice, and once on each side.
LEMMA AnswerLostOK ==
  ASSUME IInv, NEW expired, AnswerLost(expired)
  PROVE  IInv'
<1> USE DEF AnswerLost
<1>1. /\ rejected \in Nat /\ lost \in Nat /\ unanswered \in Nat
      /\ entry = "handler" => rejected <= lost + unanswered
      /\ ~AuthFailed
  BY NotLoggedInYet DEF InCollector
<1>2. cached' \in 0..MaxRotations \cup {None} /\ faults' \in 0..MaxFaults
  BY CredentialsAre, MetricsAssumption DEF IInv, TypeOK
<1>3. /\ rejected' \in Nat /\ unanswered' \in Nat
      /\ entry = "handler" => rejected' <= lost + unanswered'
  <2>1. CASE Credentials(expired) = password
    BY <1>1, <2>1
  <2>2. CASE Credentials(expired) # password
    BY <1>1, <2>2
  <2> QED  BY <2>1, <2>2
<1>4. CASE CollectorFails("failed") /\ UNCHANGED owed
  <2>1. owed' \in [Collectors -> Nat] /\ (\A c \in Collectors : c # Name => owed'[c] = owed[c])
    BY <1>4 DEF IInv, TypeOK
  <2>2. entry = "handler" =>
          rejected' <= lost + unanswered' + (IF "failed" = "rejected" THEN 1 ELSE 0)
    <3>1. lost + unanswered' + 0 = lost + unanswered'
      BY <1>1, <1>3
    <3> QED  BY <1>3, <3>1
  <2>3. pc \in {"get", "put"} /\ CollectorFails("failed")
    BY <1>4
  <2> HIDE DEF AnswerLost
  <2> QED  BY <1>2, <1>3, <2>1, <2>2, <2>3, FailsOK
<1>5. CASE ~(CollectorFails("failed") /\ UNCHANGED owed)
  <2> USE DEF IInv
  <2>1. /\ resending' = TRUE /\ pc = "get"
        /\ UNCHANGED <<setup, account, pc, at, phase, read, more, pages, sample, times, putting,
                       outcome, attempt, lost>>
    BY <1>5
  <2>2. NamedOnce'
    BY <2>1, NamesStay
  <2>3. Reading'
    BY <2>1 DEF Reading, Distinct, times
  <2>4. TypeOK'
    BY <1>2, <1>3, <2>1 DEF TypeOK, setup, account, putting, outcome, times
  <2>5. AuthFailed' = AuthFailed
    BY <2>1 DEF AuthFailed, outcome
  <2>6. InOrder'
    <3>1. PhasesOf(Name)' = PhasesOf(Name) /\ LastPhase(Name)' = LastPhase(Name)
      BY <2>1 DEF PhasesOf, LastPhase, FirstPhase, Name, setup
    <3> QED  BY <2>1, <2>5, <3>1 DEF InOrder, InCollector, setup, outcome
  <2>7. NoLocals' /\ Putting'
    BY <2>1 DEF NoLocals, Putting, InCollector, putting
  <2>8. Honest'
    BY <2>1 DEF Honest, outcome, putting
  <2>9. Logins'
    <3>1. entry' = entry /\ lost' = lost /\ pc' = pc
      BY <2>1 DEF setup
    <3>2. lost + unanswered' + 0 = lost + unanswered'
      BY <1>1, <1>3
    <3> QED  BY <1>1, <1>3, <2>5, <3>1, <3>2 DEF Logins
  <2> HIDE DEF AnswerLost
  <2> QED  BY <2>2, <2>3, <2>4, <2>6, <2>7, <2>8, <2>9
<1> QED  BY <1>4, <1>5
-----------------------------------------------------------------------------
(* Publishing.                                                             *)

\* What a collector builds from what it has read is a finite set of datums.
LEMMA DatumsAre ==
  ASSUME IInv, pc \in {"build", "put"}
  PROVE  Datums(Name) \subseteq AnyDatum /\ IsFiniteSet(Datums(Name))
<1> USE DEF IInv
<1>1. Name \in Collectors /\ phase = LastPhase(Name)
  BY NotLoggedInYet DEF InCollector, InOrder
<1>2. CASE Name = "qtree"
  <2>1. read \in Seq(Quota)
    BY <1>1, <1>2 DEF LastPhase, FirstPhase, Reading
  <2> QED  BY <1>2, <2>1, QtreeDatumsAre DEF Datums
<1>3. CASE Name = "snapmirror"
  <2>1. read \in Seq(Relationship)
    BY <1>1, <1>3 DEF LastPhase, FirstPhase, Reading
  <2>2. Datums(Name) = SnapmirrorDatums
    BY <1>3 DEF Datums
  <2> QED  BY <2>1, <2>2, SnapmirrorDatumsAre
<1>4. CASE Name = "qos"
  <2>1. phase = "sample2"
    BY <1>1, <1>4 DEF LastPhase
  <2>2. read \in Seq(Row) /\ sample \in Seq(Row) /\ elapsed \in Int
    BY <2>1, RowsRead
  <2>3. Datums(Name) = QosDatums
    BY <1>4 DEF Datums
  <2> QED  BY <2>2, <2>3, QosDatumsAre
<1> QED  BY <1>1, <1>2, <1>3, <1>4 DEF Collectors

LEMMA BuildOK ==
  ASSUME IInv, Build
  PROVE  IInv'
<1> USE DEF IInv, Build
<1>1. Name \in Collectors /\ at <= Len(collectors) /\ ~AuthFailed
  BY NotLoggedInYet DEF InCollector
<1>2. Datums(Name) \subseteq AnyDatum /\ IsFiniteSet(Datums(Name))
  BY DatumsAre
<1>3. queue' = Datums(Name) /\ cloud' = {} /\ Cardinality(queue') \in Nat
  BY <1>2, FS_CardinalityType DEF NoLocals
<1>4. /\ owed' \in [Collectors -> Nat] /\ owed'[Name] = Cardinality(queue')
      /\ \A c \in Collectors : c # Name => owed'[c] = owed[c]
  BY <1>1, <1>3 DEF TypeOK
<1>5. NamedOnce' /\ Reading'
  BY NamesStay, ReadingStays
<1>6. TypeOK'
  <2>1. queue' \cup cloud' \subseteq [metric : MetricNames, of : Nat, value : Int]
    BY <1>2, <1>3 DEF AnyDatum
  <2> QED  BY <1>4, <2>1 DEF TypeOK, setup, account, reading, times, outcome, event, Pcs
<1>7. AuthFailed' = AuthFailed
  BY DEF AuthFailed, outcome
<1>8. Name' = Name /\ Datums(Name)' = Datums(Name)
  BY DatumsStay DEF Name, setup
<1>9. InOrder'
  <2>1. PhasesOf(Name)' = PhasesOf(Name) /\ LastPhase(Name)' = LastPhase(Name)
    BY <1>8 DEF PhasesOf, LastPhase, FirstPhase
  <2> QED  BY <1>7, <1>8, <2>1 DEF InOrder, InCollector, setup, outcome, reading, times
<1>10. NoLocals'
  BY DEF NoLocals, InCollector, reading, times
<1>11. Putting'
  BY <1>3, <1>4, <1>8 DEF Putting
<1>12. Honest'
  <2>1. at \in at..Len(collectors)
    BY <1>1, NameIsCollector
  <2>2. results[Name] = "none"
    BY <2>1 DEF InOrder, InCollector, Name
  <2> QED  BY <1>4, <2>2 DEF Honest, outcome
<1>13. Logins'
  BY <1>7 DEF Logins, event, setup
<1> QED  BY <1>5, <1>6, <1>9, <1>10, <1>11, <1>12, <1>13

\* A batch is a part of what is still to put, which is finite.
LEMMA BatchIs ==
  ASSUME IInv, pc = "put", NEW batch \in Batches
  PROVE  /\ batch \subseteq queue /\ IsFiniteSet(queue) /\ Cardinality(queue \ batch) \in Nat
         /\ Cardinality(queue \ batch) = owed[Name] - Cardinality(batch)
         /\ Name \in Collectors
<1>1. batch \subseteq queue
  BY DEF Batches
<1>2. queue \subseteq Datums(Name) /\ owed[Name] = Cardinality(queue)
  BY DEF IInv, Putting
<1>3. IsFiniteSet(queue)
  BY <1>2, DatumsAre, FS_Subset
<1>4. queue \cap batch = batch
  BY <1>1
<1>5. /\ IsFiniteSet(queue \ batch)
      /\ Cardinality(queue \ batch) = Cardinality(queue) - Cardinality(batch)
  BY <1>3, <1>4, FS_Difference
<1>6. Name \in Collectors
  BY NotLoggedInYet DEF InCollector
<1> QED  BY <1>1, <1>2, <1>3, <1>5, <1>6, FS_CardinalityType

LEMMA PutOK ==
  ASSUME IInv, NEW batch \in Batches, Put(batch)
  PROVE  IInv'
<1> USE DEF IInv, Put, Accept, AfterBatch
<1>1. /\ batch \subseteq queue /\ Cardinality(queue \ batch) \in Nat
      /\ Cardinality(queue \ batch) = owed[Name] - Cardinality(batch) /\ Name \in Collectors
  BY BatchIs
<1>2. /\ owed' \in [Collectors -> Nat] /\ owed'[Name] = Cardinality(queue')
      /\ \A c \in Collectors : c # Name => owed'[c] = owed[c]
  BY <1>1 DEF TypeOK
<1>3. queue' \cup cloud' = queue \cup cloud
  BY <1>1
<1>4. NamedOnce' /\ Reading'
  BY NamesStay, ReadingStays
<1>5. TypeOK'
  <2>1. queue' \cup cloud' \subseteq [metric : MetricNames, of : Nat, value : Int]
    BY <1>3 DEF TypeOK
  <2> QED  BY <1>2, <2>1 DEF TypeOK, setup, account, reading, times, outcome, event
<1>6. AuthFailed' = AuthFailed
  BY DEF AuthFailed, outcome
<1>7. Name' = Name /\ Datums(Name)' = Datums(Name)
  BY DatumsStay DEF Name, setup
<1>8. InOrder'
  <2>1. PhasesOf(Name)' = PhasesOf(Name) /\ LastPhase(Name)' = LastPhase(Name)
    BY <1>7 DEF PhasesOf, LastPhase, FirstPhase
  <2> QED  BY <1>6, <1>7, <2>1 DEF InOrder, InCollector, setup, outcome, reading, times
<1>9. NoLocals'
  BY DEF NoLocals, InCollector, reading, times
<1>10. Putting'
  BY <1>2, <1>3, <1>7 DEF Putting
<1>11. Honest'
  <2>1. at \in at..Len(collectors)
    BY NotLoggedInYet, NameIsCollector DEF InCollector
  <2>2. results[Name] = "none"
    BY <2>1 DEF InOrder, InCollector, Name
  <2> QED  BY <1>2, <2>2 DEF Honest, outcome
<1>12. Logins'
  BY <1>6 DEF Logins, event, setup
<1> QED  BY <1>4, <1>5, <1>8, <1>9, <1>10, <1>11, <1>12

LEMMA PutFailsOK ==
  ASSUME IInv, NEW batch \in Batches, PutFails(batch)
  PROVE  IInv'
<1> USE DEF PutFails, Accept
<1>1. /\ rejected \in Nat /\ lost \in Nat /\ unanswered \in Nat
      /\ entry = "handler" => rejected <= lost + unanswered
  BY NotLoggedInYet DEF InCollector
<1>2. owed' \in [Collectors -> Nat] /\ (\A c \in Collectors : c # Name => owed'[c] = owed[c])
  <2>1. /\ Cardinality(queue \ batch) \in Nat /\ Name \in Collectors
        /\ Cardinality(queue \ batch) = owed[Name] - Cardinality(batch)
    BY BatchIs
  <2> QED  BY <2>1 DEF IInv, TypeOK
<1>3. faults' \in 0..MaxFaults /\ cached' \in 0..MaxRotations \cup {None}
  BY MetricsAssumption DEF IInv, TypeOK
<1>4. /\ rejected' \in Nat /\ unanswered' \in Nat
      /\ entry = "handler" => rejected' <= lost + unanswered' + 0
  BY <1>1
<1> QED  BY <1>2, <1>3, <1>4, FailsOK

LEMMA DoneOK ==
  ASSUME IInv, CollectorDone \/ TemplateDone
  PROVE  IInv'
<1> USE DEF IInv
<1>1. /\ pc = "put" /\ queue = {} /\ results' = [results EXCEPT ![Name] = "ok"] /\ DropLocals
      /\ UNCHANGED <<setup, account, cached, owed, beats, event, faults>>
      /\ \/ pc' = "idle" /\ at' = at /\ entry = "template"
         \/ pc' = "collect" /\ at' = at + 1 /\ entry = "handler"
  BY DEF CollectorDone, TemplateDone
<1>2. at <= Len(collectors) /\ ~AuthFailed /\ Name \in Collectors
  BY <1>1, NotLoggedInYet DEF InCollector
<1>3. at' \in 1..(Len(collectors) + 1)
  BY <1>1, <1>2, NameIsCollector DEF TypeOK
<1>4. NamedOnce' /\ Reading'
  BY <1>1, NamesStay, NothingRead
<1>5. owed[Name] = 0
  BY <1>1, FS_EmptySet DEF Putting
<1>6. /\ results' \in [Collectors -> {"none", "ok", "failed", "rejected", "skipped"}]
      /\ \A c \in Collectors : c # Name => results'[c] = results[c]
      /\ results'[Name] = "ok"
  BY <1>1, <1>2 DEF TypeOK
<1>7. ~AuthFailed'
  BY <1>2, <1>6 DEF AuthFailed
<1>8. TypeOK'
  <2>1. queue' \cup cloud' \subseteq [metric : MetricNames, of : Nat, value : Int]
    BY <1>1 DEF DropLocals
  <2>2. pages' \in 0..MaxPages
    BY <1>1, NothingRead, MetricsAssumption
  <2> QED  BY <1>1, <1>3, <1>6, <2>1, <2>2, NothingRead DEF TypeOK, setup, account, event, Pcs
<1>9. InOrder'
  <2>1. pc' = "collect" => \A i \in at'..Len(collectors') : results'[collectors'[i]] = "none"
    <3> SUFFICES ASSUME pc' = "collect"
                 PROVE  \A i \in at'..Len(collectors') : results'[collectors'[i]] = "none"
      OBVIOUS
    <3>1. results' = [results EXCEPT ![Name] = "ok"] /\ at' = at + 1 /\ setup' = setup
      BY <1>1
    <3> QED  BY <1>1, <1>2, <3>1, OthersWait DEF InCollector
  <2> QED  BY <1>1, <1>7, <2>1 DEF InOrder, InCollector
<1>10. NoLocals' /\ Putting'
  BY <1>1 DEF NoLocals, Putting, InCollector, DropLocals
<1>11. Honest'
  BY <1>1, <1>5, <1>6 DEF Honest
<1>12. Logins'
  BY <1>1, <1>2, <1>7 DEF Logins, event, setup
<1> QED  BY <1>4, <1>8, <1>9, <1>10, <1>11, <1>12

LEMMA StutterOK ==
  ASSUME IInv, UNCHANGED vars
  PROVE  IInv'
<1> USE DEF IInv
<1>1. UNCHANGED <<setup, account, cached, pc, at, reading, putting, outcome, event, faults>>
  BY DEF vars
<1>2. NamedOnce' /\ Reading'
  BY <1>1, NamesStay, ReadingStays
<1>3. TypeOK'
  BY <1>1 DEF TypeOK, setup, account, reading, times, putting, outcome, event
<1>4. AuthFailed' = AuthFailed
  BY <1>1 DEF AuthFailed, outcome
<1>5. InOrder'
  <2>1. PhasesOf(Name)' = PhasesOf(Name) /\ LastPhase(Name)' = LastPhase(Name)
    BY <1>1 DEF PhasesOf, LastPhase, FirstPhase, Name, setup
  <2> QED  BY <1>1, <1>4, <2>1 DEF InOrder, InCollector, setup, outcome, reading, times
<1>6. Putting'
  BY <1>1, DatumsStay DEF Putting, putting, Name, setup
<1>7. NoLocals'
  BY <1>1 DEF NoLocals, InCollector, putting, reading, times
<1>8. Honest' /\ Logins'
  BY <1>1, <1>4 DEF Honest, Logins, outcome, event, setup, putting
<1> QED  BY <1>2, <1>3, <1>5, <1>6, <1>7, <1>8
LEMMA NextOK ==
  ASSUME IInv, [Next]_vars
  PROVE  IInv'
<1>1. CASE \E cold \in BOOLEAN : Invoke(cold)
  BY <1>1, InvokeOK
<1>2. CASE Repeat
  BY <1>2, InvokeOK
<1>3. CASE GiveUp \/ StartCollector \/ SkipCollector
  BY <1>3, GiveUpOK, StartCollectorOK, SkipCollectorOK
<1>4. CASE Get
  <2>1. \/ \E expired \in BOOLEAN :
             \/ GetRejected(expired) \/ GetForbidden(expired)
             \/ GetFails(expired) \/ AnswerLost(expired) \/ GetSchemas(expired)
             \/ \E next \in BOOLEAN : GetWorkloads(expired, next)
        \/ \E now \in Moments : \E page \in Pages(now), expired, next \in BOOLEAN :
             \/ GetQuotas(expired, page, next)
             \/ GetRelationships(expired, page, next)
             \/ GetSample1(expired, now, page, next)
             \/ GetSample2(expired, now, page, next)
    BY <1>4 DEF Get
  <2>2. ASSUME NEW expired \in BOOLEAN,
               \/ GetRejected(expired) \/ GetForbidden(expired)
               \/ GetFails(expired) \/ AnswerLost(expired) \/ GetSchemas(expired)
               \/ \E next \in BOOLEAN : GetWorkloads(expired, next)
        PROVE  IInv'
    BY <2>2, GetRejectedOK, GetForbiddenOK, GetFailsOK, AnswerLostOK, GetSchemasOK, GetWorkloadsOK
  <2>3. ASSUME NEW now \in Moments, NEW page \in Pages(now), NEW expired \in BOOLEAN,
               NEW next \in BOOLEAN,
               \/ GetQuotas(expired, page, next)
               \/ GetRelationships(expired, page, next)
               \/ GetSample1(expired, now, page, next)
               \/ GetSample2(expired, now, page, next)
        PROVE  IInv'
    BY <2>3, GetQuotasOK, GetRelationshipsOK, GetSample1OK, GetSample2OK
  <2> QED  BY <2>1, <2>2, <2>3
<1>5. CASE Build
  BY <1>5, BuildOK
<1>6. CASE \E batch \in Batches : Put(batch) \/ PutFails(batch)
  BY <1>6, PutOK, PutFailsOK
<1>7. CASE CollectorDone \/ TemplateDone
  BY <1>7, DoneOK
<1>8. CASE StartHeartbeats \/ Heartbeat \/ HeartbeatFails \/ Finish \/ Killed
  BY <1>8, StartHeartbeatsOK, HeartbeatOK, HeartbeatFailsOK, FinishOK, KilledOK
<1>9. CASE RotatePassword \/ RotateSecret
  BY <1>9, RotateOK
<1>10. CASE UNCHANGED vars
  BY <1>10, StutterOK
<1> QED  BY <1>1, <1>2, <1>3, <1>4, <1>5, <1>6, <1>7, <1>8, <1>9, <1>10
         DEF Next, Invocation, Operator

\* The inductive invariant of the metrics poller: what is read is of the
\* collector whose turn it is, what it built is put or owed, and the results
\* account for the rejected logins.
THEOREM MetricsHold == Spec => []IInv
<1>1. Init => IInv
  BY InitOK
<1>2. IInv /\ [Next]_vars => IInv'
  BY NextOK
<1> QED  BY <1>1, <1>2, PTL DEF Spec

\* Every variable keeps its kind: what ONTAP is asked for, what is read and
\* what is put to CloudWatch.
THEOREM MetricsTypeCorrect == Spec => []TypeOK
<1>1. IInv => TypeOK
  BY DEF IInv
<1> QED  BY <1>1, MetricsHold, PTL

\* A heartbeat of 1 is only published for a collector all of whose datums
\* CloudWatch accepted (ontap_metrics_handler._publish_heartbeats).
THEOREM HeartbeatIsHonest == Spec => []SuccessMeansPublished
<1>1. IInv => SuccessMeansPublished
  BY DEF IInv, Honest, SuccessMeansPublished
<1> QED  BY <1>1, MetricsHold, PTL

\* A rejected password is sent once per event, however often the invocation
\* is repeated, and once more for every invocation that was lost and for every
\* rejection whose answer was.
THEOREM LoginSentOnce == Spec => []OneRejectedLogin
<1>1. IInv => OneRejectedLogin
  <2> SUFFICES ASSUME IInv, entry = "handler"  PROVE rejected <= 1 + lost + unanswered
    BY DEF OneRejectedLogin
  <2>1. rejected \in Nat /\ lost \in Nat /\ unanswered \in Nat
    BY DEF IInv, TypeOK
  <2> QED  BY <2>1 DEF IInv, Logins
<1> QED  BY <1>1, MetricsHold, PTL

-----------------------------------------------------------------------------
(* What is published.                                                      *)

\* What CloudWatch has of a collector is a part of what the collector built,
\* and all of it when nothing is left to put.
LEMMA CloudIs ==
  ASSUME IInv
  PROVE  /\ cloud # {} => pc = "put"
         /\ pc = "put" => /\ cloud \subseteq Datums(Name) /\ Name \in Collectors
                          /\ phase = LastPhase(Name) /\ (queue = {} => cloud = Datums(Name))
<1>1. cloud # {} => pc = "put"
  BY DEF IInv, NoLocals
<1>2. ASSUME pc = "put"
      PROVE  /\ cloud \subseteq Datums(Name) /\ Name \in Collectors
             /\ phase = LastPhase(Name) /\ (queue = {} => cloud = Datums(Name))
  <2>1. Name \in Collectors
    BY <1>2, NotLoggedInYet DEF InCollector
  <2>2. queue \cup cloud = Datums(Name) /\ phase = LastPhase(Name)
    BY <1>2 DEF IInv, Putting, InOrder
  <2> QED  BY <2>1, <2>2
<1> QED  BY <1>1, <1>2

\* The metrics of each collector.
LEMMA QtreeMetrics ==
  ASSUME NEW d \in QtreeDatums
  PROVE  /\ d.metric \in {"QuotaUsedPercent", "QuotaUsedPercentMax", "QuotaReportTruncated"}
         /\ d.metric = "QuotaReportTruncated" => d = Mark("QuotaReportTruncated", more)
BY DEF QtreeDatums, QuotaSeries, QuotaSummary, Mark, Datum

LEMMA SnapmirrorMetrics ==
  ASSUME NEW d \in SnapmirrorDatums
  PROVE  /\ d.metric \in {"RelationshipHealthy", "LagSeconds", "UnhealthyCount",
                          "RelationshipsTruncated", "LagSecondsMax"}
         /\ d.metric = "RelationshipsTruncated" =>
              d = Mark("RelationshipsTruncated", \/ Cardinality(WithPath(read)) > MaxSeries
                                                 \/ more
                                                 \/ WithPath(read) # DOMAIN read)
BY DEF SnapmirrorDatums, RelationshipSeries, RelationshipSummary, Mark, Datum

LEMMA QosMetrics ==
  ASSUME read \in Seq(Row), sample \in Seq(Row), elapsed \in Int, NEW d \in QosDatums
  PROVE  \/ d.metric = "QosPolicyGroupsTruncated"
         \/ /\ d.metric \in {"QosOps", "QosLatency"}
            /\ \E i \in Candidates : /\ d.of = i /\ d.value = ValueOf(d.metric, CounterDelta(i))
                                     /\ MatchedRow(i) # {} /\ CounterDelta(i) >= 0 /\ elapsed > 0
<1>1. CASE d \in QosSummary
  BY <1>1 DEF QosSummary, Mark, Datum
<1>2. CASE d \in QosSeries
  <2>1. PICK i \in Drawn(Publishable) : d \in RowDatums(i)
    BY <1>2 DEF QosSeries
  <2>2. i \in Candidates /\ i \in DOMAIN sample
    BY DEF Drawn, Publishable, Candidates
  <2>3. /\ d.of = i /\ d.value = ValueOf(d.metric, CounterDelta(i))
        /\ d.metric \in {"QosOps", "QosLatency"} /\ MatchedRow(i) # {}
        /\ CounterDelta(i) >= 0 /\ elapsed > 0
    BY <2>1, <2>2, RowDatumsAre
  <2> QED  BY <2>2, <2>3
<1> QED  BY <1>1, <1>2 DEF QosDatums
\* The counter of a row with an id went up by no more than its workload did.
LEMMA DeltaIsDone ==
  ASSUME IInv, phase = "sample2", NEW i \in Candidates, MatchedRow(i) # {},
         sample[i].workload \in Identified
  PROVE  /\ CounterDelta(i) <= Done(sample[i].workload) /\ Done(sample[i].workload) \in Nat
         /\ \A q \in RowsOf(sample[i].workload) : q.when \in 0..clock
<1> DEFINE w == sample[i].workload
<1>1. i \in DOMAIN sample /\ sample[i] \in FirstRows(sample[i].when) /\ w # ""
  BY DEF IInv, Reading, Candidates, Candidate, Nameless
<1>2. sample[i].ops = 1 /\ sample[i].born = 0
  <2>1. sample \in Seq(Row)
    BY RowsRead
  <2> HIDE DEF w
  <2>2. sample[i] \in Row
    <3>1. i \in DOMAIN sample
      BY <1>1
    <3>2. \A k \in DOMAIN sample : sample[k] \in Row
      BY <2>1
    <3> QED  BY <3>1, <3>2, Zenon
  <2>3. sample[i].when \in Nat
    BY <2>2, Zenon DEF Row
  <2> QED  BY <1>1, <2>3, FirstRowIs
<1>3. PICK r \in MatchedRow(i) : r = (CHOOSE q \in MatchedRow(i) : TRUE)
  OBVIOUS
<1>4. PICK j \in DOMAIN read : r = read[j] /\ Identity(r) = Identity(sample[i])
  BY DEF MatchedRow, SameIdentity
<1>5. r.workload = w /\ r.born = 0
  <2>1. Identity(sample[i]) = <<w, 0>>
    BY <1>2 DEF Identity
  <2>2. CASE r.workload \in Identified
    <3>1. Identity(r) = <<r.workload, r.born>>
      BY <2>2 DEF Identity
    <3> QED  BY <1>4, <2>1, <3>1
  <2>3. CASE r.workload \notin Identified
    <3>1. \E g : Identity(r) = <<g>>
      BY <2>3 DEF Identity
    <3>2. \A g : <<g>> # <<w, 0>>
      OBVIOUS
    <3> QED  BY <1>4, <2>1, <3>1, <3>2
  <2> QED  BY <2>2, <2>3
<1>6. read \in Seq(Row) /\ sample \in Seq(Row) /\ FirstSample /\ clock \in Nat
  BY RowsRead
<1>7. \A k \in DOMAIN read :
        read[k].when \in 0..clock /\ read[k] \in RowsSince(sample, read[k].when)
  BY DEF IInv, Reading
<1>8. r \in Row /\ r.ops - 1 <= r.did
  <2>1. r.when \in Nat /\ r \in RowsSince(sample, r.when)
    BY <1>4, <1>6, <1>7
  <2> QED  BY <1>5, <1>6, <2>1, SecondRowIs
<1>9. RowsOf(w) = {r}
  <2>1. \A k \in DOMAIN read : read[k].workload = w => k = j
    BY <1>1, <1>4, <1>5 DEF IInv, Reading, Distinct
  <2>2. Range(read) = {read[k] : k \in DOMAIN read}
    BY DEF Range
  <2> QED  BY <1>4, <1>5, <2>1, <2>2 DEF RowsOf
<1>10. Done(w) = r.did
  BY <1>9 DEF Done
<1>11. CounterDelta(i) = r.ops - 1
  BY <1>2, <1>3 DEF CounterDelta
<1>12. r.did \in Nat
  <2>1. r.did \in 0..1
    BY <1>8, Zenon DEF Row
  <2> QED  BY <2>1
<1> QED  BY <1>4, <1>7, <1>8, <1>9, <1>10, <1>11, <1>12

\* The rate of a counter over the measured time.
LEMMA RateIs ==
  ASSUME NEW delta \in Nat, NEW done \in Nat, delta <= done, NEW e \in Nat \ {0},
         NEW value, value = (1000 * delta) \div e
  PROVE  value \in Nat /\ value * e <= 1000 * done
<1>1. 1000 * delta \in Nat /\ 1000 * delta <= 1000 * done /\ 1000 * done \in Nat
  OBVIOUS
<1>2. value \in Nat /\ value * e <= 1000 * delta /\ value * e \in Nat
  BY <1>1, QuotientIs
<1> QED  BY <1>1, <1>2

\* No rate of a row with an id is above what the workload did over the measured
\* time, nor, for a row of the first sample's last page, above its rate between
\* the two readings of the row (build_qos_metric_data: rows matched by identity,
\* no negative delta).
THEOREM RatesAreTrue == Spec => []RatesAreNotOverstated
<1>1. IInv => RatesAreNotOverstated
  <2> SUFFICES ASSUME IInv, NEW d \in cloud, d.metric \in {"QosOps", "QosLatency"}
               PROVE  /\ elapsed > 0 /\ 0 <= d.value
                      /\ sample[d.of].workload \in Identified =>
                           IF d.metric = "QosLatency" THEN d.value <= Done(sample[d.of].workload)
                           ELSE /\ d.value * elapsed <= 1000 * Done(sample[d.of].workload)
                                /\ sample[d.of].when = start =>
                                     \A r \in RowsOf(sample[d.of].workload) :
                                       d.value * (r.when - sample[d.of].when)
                                         <= 1000 * Done(sample[d.of].workload)
    BY DEF RatesAreNotOverstated
  <2>1. pc = "put" /\ d \in Datums(Name) /\ Name \in Collectors /\ phase = LastPhase(Name)
    BY CloudIs
  <2>2. Name = "qos" /\ d \in QosDatums
    <3>1. CASE Name = "qtree"
      BY <2>1, <3>1, QtreeMetrics DEF Datums
    <3>2. CASE Name = "snapmirror"
      BY <2>1, <3>2, SnapmirrorMetrics DEF Datums
    <3>3. CASE Name = "qos"
      BY <2>1, <3>3 DEF Datums
    <3> QED  BY <2>1, <3>1, <3>2, <3>3 DEF Collectors
  <2>3. phase = "sample2"
    BY <2>1, <2>2 DEF LastPhase
  <2>4. /\ read \in Seq(Row) /\ sample \in Seq(Row) /\ elapsed \in Int
        /\ clock \in Nat /\ start \in Nat /\ elapsed = clock - start
    BY <2>3, RowsRead DEF elapsed
  <2>5. PICK i \in Candidates : /\ d.of = i /\ d.value = ValueOf(d.metric, CounterDelta(i))
                                /\ MatchedRow(i) # {} /\ CounterDelta(i) >= 0 /\ elapsed > 0
    BY <2>2, <2>4, QosMetrics
  <2> DEFINE delta == CounterDelta(i)
             w == sample[i].workload
  <2>6. delta \in Nat /\ elapsed \in Nat \ {0}
    <3>1. i \in DOMAIN sample
      BY DEF Candidates
    <3> QED  BY <2>4, <2>5, <3>1, DeltaIs
  <2>7. w \in Identified =>
          /\ delta <= Done(w) /\ Done(w) \in Nat
          /\ \A q \in RowsOf(w) : q.when \in 0..clock
    BY <2>3, <2>5, DeltaIsDone
  <2> HIDE DEF delta
  <2>8. CASE d.metric = "QosLatency"
    <3>1. d.value = delta
      BY <2>5, <2>8 DEF ValueOf, delta
    <3> QED  BY <2>5, <2>6, <2>7, <2>8, <3>1
  <2>9. CASE d.metric = "QosOps"
    <3>1. d.value = (1000 * delta) \div elapsed
      BY <2>5, <2>9 DEF ValueOf, delta
    <3>2. d.value \in Nat
      BY <2>6, <3>1, RateIs
    <3>3. ASSUME w \in Identified
          PROVE  /\ d.value * elapsed <= 1000 * Done(w)
                 /\ sample[i].when = start =>
                      \A r \in RowsOf(w) : d.value * (r.when - sample[i].when) <= 1000 * Done(w)
      <4>1. d.value * elapsed <= 1000 * Done(w)
        BY <2>6, <2>7, <3>1, <3>3, RateIs
      <4>2. ASSUME sample[i].when = start, NEW r \in RowsOf(w)
            PROVE  d.value * (r.when - sample[i].when) <= 1000 * Done(w)
        <5> DEFINE t == r.when - start
        <5>1. t \in Int /\ t <= elapsed
          BY <2>4, <2>7, <3>3
        <5> HIDE DEF t
        <5>2. d.value * t <= d.value * elapsed
          BY <2>6, <3>2, <5>1, ProductGrows
        <5>3. d.value * t \in Int /\ d.value * elapsed \in Int /\ 1000 * Done(w) \in Int
          BY <2>6, <2>7, <3>2, <3>3, <5>1
        <5>4. d.value * t <= 1000 * Done(w)
          BY <4>1, <5>2, <5>3
        <5> QED  BY <4>2, <5>4 DEF t
      <4> QED  BY <4>1, <4>2
    <3> QED  BY <2>5, <2>9, <3>2, <3>3
  <2> QED  BY <2>8, <2>9
<1> QED  BY <1>1, MetricsHold, PTL

\* When no more records than the cap have a path, all of them have a series.
LEMMA AllDrawn ==
  ASSUME read \in Seq(Relationship), ~(Cardinality(WithPath(read)) > MaxSeries)
  PROVE  Drawn(WithPath(read)) = WithPath(read)
<1> DEFINE P == WithPath(read)
<1>1. P \subseteq DOMAIN read
  BY DEF WithPath
<1>2. IsFiniteSet(P) /\ Cardinality(P) \in Nat /\ P \subseteq Nat
  BY <1>1, PlacesAreFinite
<1> HIDE DEF P
<1>3. ASSUME NEW i \in P  PROVE Cardinality({j \in P : j < i}) < MaxSeries
  <2> DEFINE T == {j \in P : j < i}
  <2>1. T \subseteq P /\ i \notin T
    BY <1>2
  <2> HIDE DEF T
  <2>2. Cardinality(T) <= Cardinality(P) /\ Cardinality(T) # Cardinality(P) /\ IsFiniteSet(T)
    BY <1>2, <2>1, FS_Subset
  <2>3. Cardinality(T) \in Nat
    BY <2>2, FS_CardinalityType
  <2>4. ~(Cardinality(P) > MaxSeries)
    BY DEF P
  <2>5. Cardinality(T) < MaxSeries
    BY <1>2, <2>2, <2>3, <2>4, MetricsAssumption
  <2> QED  BY <2>5 DEF T
<1> QED  BY <1>3 DEF Drawn, P

LEMMA QuietRelationships ==
  ASSUME IInv, pc = "put", queue = {}, 0 \in Published("RelationshipsTruncated"),
         Published("UnhealthyCount") = {0}
  PROVE  /\ ~more
         /\ \A i \in DOMAIN read :
              read[i].healthy /\ Datum("RelationshipHealthy", i, 1) \in cloud
<1>1. cloud = Datums(Name) /\ Name \in Collectors /\ phase = LastPhase(Name)
  BY CloudIs
<1>2. PICK d \in cloud : d.metric = "RelationshipsTruncated" /\ d.value = 0
  BY DEF Published
<1>3. Name = "snapmirror"
  <2>1. CASE Name = "qtree"
    BY <1>1, <1>2, <2>1, QtreeMetrics DEF Datums
  <2>2. CASE Name = "qos"
    <3>1. phase = "sample2"
      BY <1>1, <2>2 DEF LastPhase
    <3>2. read \in Seq(Row) /\ sample \in Seq(Row) /\ elapsed \in Int
      BY <3>1, RowsRead
    <3> QED  BY <1>1, <1>2, <2>2, <3>2, QosMetrics DEF Datums
  <2> QED  BY <1>1, <2>1, <2>2 DEF Collectors
<1>4. cloud = SnapmirrorDatums
  BY <1>1, <1>3 DEF Datums
<1>5. read \in Seq(Relationship)
  BY <1>1, <1>3 DEF LastPhase, FirstPhase, IInv, Reading
<1>6. ~more /\ ~(Cardinality(WithPath(read)) > MaxSeries) /\ WithPath(read) = DOMAIN read
  BY <1>2, <1>4, SnapmirrorMetrics DEF Mark, Datum
<1>7. Unhealthy = {}
  <2> DEFINE d0 == Datum("UnhealthyCount", FileSystem, Cardinality(Unhealthy))
  <2>1. d0 \in SnapmirrorDatums
    BY DEF SnapmirrorDatums, RelationshipSummary, Unhealthy
  <2>2. d0.metric = "UnhealthyCount" /\ d0.value = Cardinality(Unhealthy)
    BY DEF Datum
  <2> HIDE DEF d0
  <2>3. d0.value \in Published("UnhealthyCount")
    BY <1>4, <2>1, <2>2 DEF Published
  <2>4. Cardinality(Unhealthy) = 0
    BY <2>2, <2>3
  <2>5. IsFiniteSet(Unhealthy)
    BY <1>5, PlacesAreFinite DEF Unhealthy
  <2> QED  BY <2>4, <2>5, FS_EmptySet
<1>8. Drawn(WithPath(read)) = DOMAIN read
  BY <1>5, <1>6, AllDrawn
<1>9. ASSUME NEW i \in DOMAIN read
      PROVE  read[i].healthy /\ Datum("RelationshipHealthy", i, 1) \in cloud
  <2>1. read[i].healthy
    BY <1>7 DEF Unhealthy
  <2>2. Datum("RelationshipHealthy", i, IF read[i].healthy THEN 1 ELSE 0)
          \in RelationshipSeries(read)
    BY <1>8 DEF RelationshipSeries
  <2> QED  BY <1>4, <2>1, <2>2 DEF SnapmirrorDatums
<1> QED  BY <1>6, <1>9

LEMMA QuietQuotas ==
  ASSUME IInv, pc = "put", queue = {}, 0 \in Published("QuotaReportTruncated"),
         \A p \in Published("QuotaUsedPercentMax") : p < 100
  PROVE  ~more /\ \A q \in Range(read) : Usable(q) => q.used < q.limit
<1>1. cloud = Datums(Name) /\ Name \in Collectors /\ phase = LastPhase(Name)
  BY CloudIs
<1>2. PICK d \in cloud : d.metric = "QuotaReportTruncated" /\ d.value = 0
  BY DEF Published
<1>3. Name = "qtree"
  <2>1. CASE Name = "snapmirror"
    BY <1>1, <1>2, <2>1, SnapmirrorMetrics DEF Datums
  <2>2. CASE Name = "qos"
    <3>1. phase = "sample2"
      BY <1>1, <2>2 DEF LastPhase
    <3>2. read \in Seq(Row) /\ sample \in Seq(Row) /\ elapsed \in Int
      BY <3>1, RowsRead
    <3> QED  BY <1>1, <1>2, <2>2, <3>2, QosMetrics DEF Datums
  <2> QED  BY <1>1, <2>1, <2>2 DEF Collectors
<1>4. cloud = QtreeDatums
  BY <1>1, <1>3 DEF Datums
<1>5. read \in Seq(Quota)
  BY <1>1, <1>3 DEF LastPhase, FirstPhase, IInv, Reading
<1>6. ~more
  BY <1>2, <1>4, QtreeMetrics DEF Mark, Datum
<1>7. ASSUME NEW q \in Range(read), Usable(q)  PROVE q.used < q.limit
  <2>1. q \in Quota
    BY <1>5 DEF Range
  <2>2. Percent(q) \in Percents
    BY <1>7 DEF Percents
  <2>3. Percents # {} /\ Max(Percents) \in Int /\ Percent(q) <= Max(Percents)
    BY <1>5, <2>2, PercentsAre
  <2> DEFINE top == Datum("QuotaUsedPercentMax", FileSystem, Max(Percents))
  <2>4. top \in QtreeDatums
    BY <2>3 DEF QtreeDatums, QuotaSummary, Percents
  <2>5. top.metric = "QuotaUsedPercentMax" /\ top.value = Max(Percents)
    BY DEF Datum
  <2> HIDE DEF top
  <2>6. Max(Percents) < 100
    BY <1>4, <2>4, <2>5 DEF Published
  <2>7. Percent(q) < 100
    BY <2>1, <2>3, <2>6, <1>7, PercentIs
  <2> QED  BY <1>7, <2>1, <2>7, PercentIs
<1> QED  BY <1>6, <1>7

\* Quiet alarm series hide no unhealthy relationship and no used-up quota that
\* has a name: neither a cap, nor a page limit, nor a relationship without a
\* path does (snapmirror_collector, qtree_quota_poller).
THEOREM QuietIsHealthy == Spec => []QuietAlarmsMeanHealthy
<1>1. IInv => QuietAlarmsMeanHealthy
  BY QuietRelationships, QuietQuotas DEF QuietAlarmsMeanHealthy
<1> QED  BY <1>1, MetricsHold, PTL
=============================================================================
