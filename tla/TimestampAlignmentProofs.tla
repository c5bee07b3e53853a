---------------------- MODULE TimestampAlignmentProofs ----------------------
(***************************************************************************)
(* Theorems about TimestampAlignment, for every number of cameras, every   *)
(* set of recordings and options, and all tolerances.                      *)
(*                                                                         *)
(* First what the operators compute: minima of finite sets, sources that   *)
(* keep exactly the valid frames, search windows that are finite and have  *)
(* a best bundle.  Then the search: IInv says what is known of the         *)
(* candidate before it is taken.  The properties of the bundles taken are  *)
(* not inductive without it, since a candidate found blindly, or one that  *)
(* repeats the last time, exists and is only never taken.  Last the        *)
(* matching: sources are sorted, no sample lies before the window, and so  *)
(* the frame it names is the right one (Right).                            *)
(***************************************************************************)
EXTENDS TimestampAlignment, FiniteSetTheorems, FunctionTheorems, SequenceTheorems,
        WellFoundedInduction, TLAPS

(***************************************************************************)
(* Minima of finite sets.                                                  *)
(***************************************************************************)
Before(S, R, x) == {y \in S : <<y, x>> \in R}

\* A finite set has a minimum for a transitive irreflexive relation.
LEMMA MinimumExists ==
  ASSUME NEW S, IsFiniteSet(S), S # {},
         NEW R,
         \A x \in S : <<x, x>> \notin R,
         \A x, y, z \in S : <<x, y>> \in R /\ <<y, z>> \in R => <<x, z>> \in R
  PROVE  \E x \in S : \A y \in S : <<y, x>> \notin R
<1> DEFINE Size(x) == Cardinality(Before(S, R, x))
           Sizes == {Size(x) : x \in S}
<1>1. \A x \in S : IsFiniteSet(Before(S, R, x)) /\ Size(x) \in Nat
  BY FS_Subset, FS_CardinalityType DEF Before
<1>2. PICK n \in Sizes : \A m \in Sizes : ~ (<<m, n>> \in OpToRel(<, Nat))
  <2>1. Sizes \subseteq Nat /\ Sizes # {}
    BY <1>1
  <2> HIDE DEF Sizes
  <2> QED
    BY <2>1, NatLessThanWellFounded, WFMin
<1>3. PICK x \in S : n = Size(x)
  OBVIOUS
<1>4. ASSUME NEW y \in S, <<y, x>> \in R
      PROVE  FALSE
  <2>1. Before(S, R, y) \in SUBSET Before(S, R, x)
    BY <1>4 DEF Before
  <2>2. y \in Before(S, R, x) /\ y \notin Before(S, R, y)
    BY <1>4 DEF Before
  <2>3. Size(y) <= Size(x) /\ Size(y) # Size(x)
    BY <2>1, <2>2, <1>1, FS_Subset
  <2>4. Size(y) < Size(x)
    BY <2>3, <1>1
  <2>5. <<Size(y), n>> \in OpToRel(<, Nat)
    BY <2>4, <1>1, <1>3 DEF OpToRel
  <2> QED
    BY <2>5, <1>2
<1> QED
  BY <1>4

\* The largest number of a finite set.
LEMMA MaxIs ==
  ASSUME NEW S \in SUBSET Int, IsFiniteSet(S), S # {}
  PROVE  Max(S) \in S /\ \A x \in S : x <= Max(S)
<1> DEFINE R == {p \in S \X S : p[1] > p[2]}
<1>1. \A x, y \in S : <<x, y>> \in R <=> x > y
  OBVIOUS
<1> HIDE DEF R
<1>2. PICK m \in S : \A y \in S : <<y, m>> \notin R
  <2>1. \A x \in S : <<x, x>> \notin R
    BY <1>1
  <2>2. \A x, y, z \in S : <<x, y>> \in R /\ <<y, z>> \in R => <<x, z>> \in R
    BY <1>1
  <2> QED
    BY <2>1, <2>2, MinimumExists, Zenon
<1>3. \A y \in S : ~ (y > m)
  BY <1>1, <1>2, Zenon
<1>4. \A y \in S : m >= y
  BY <1>3
<1>5. Max(S) \in S /\ \A y \in S : Max(S) >= y
  BY <1>4, Zenon DEF Max
<1> QED
  BY <1>5

\* The least number of a finite set.
LEMMA MinIs ==
  ASSUME NEW S \in SUBSET Int, IsFiniteSet(S), S # {}
  PROVE  Min(S) \in S /\ \A x \in S : Min(S) <= x
<1> DEFINE R == {p \in S \X S : p[1] < p[2]}
<1>1. \A x, y \in S : <<x, y>> \in R <=> x < y
  OBVIOUS
<1> HIDE DEF R
<1>2. PICK m \in S : \A y \in S : <<y, m>> \notin R
  <2>1. \A x \in S : <<x, x>> \notin R
    BY <1>1
  <2>2. \A x, y, z \in S : <<x, y>> \in R /\ <<y, z>> \in R => <<x, z>> \in R
    BY <1>1
  <2> QED
    BY <2>1, <2>2, MinimumExists, Zenon
<1>3. \A y \in S : ~ (y < m)
  BY <1>1, <1>2, Zenon
<1>4. \A y \in S : m <= y
  BY <1>3
<1>5. Min(S) \in S /\ \A y \in S : Min(S) <= y
  BY <1>4, Zenon DEF Min
<1> QED
  BY <1>5

-----------------------------------------------------------------------------
(***************************************************************************)
(* Sources: sorting loses no frame and invents none.                       *)
(***************************************************************************)
Below(raw, i) == {j \in Positive(raw) : raw[j] < raw[i] \/ (raw[j] = raw[i] /\ j <= i)}

\* The valid frames are ranked 1, 2, ... without gaps.
LEMMA RankIsPosition ==
  ASSUME NEW raw \in Seq(Nat)
  PROVE  /\ IsFiniteSet(Positive(raw)) /\ Cardinality(Positive(raw)) \in Nat
         /\ \A k \in 1..Cardinality(Positive(raw)) : \E i \in Positive(raw) : Rank(raw, i) = k
<1> DEFINE P == Positive(raw)
           n == Cardinality(P)
           rank == [i \in P |-> Rank(raw, i)]
<1>1. P \in SUBSET (1..Len(raw)) /\ Len(raw) \in Nat /\ \A i \in P : raw[i] \in Nat
  BY DEF Positive
<1>2. IsFiniteSet(P) /\ n \in Nat
  <2>1. IsFiniteSet(1..Len(raw))
    BY <1>1, FS_Interval
  <2>2. IsFiniteSet(P)
    BY <2>1, <1>1, FS_Subset
  <2> QED
    BY <2>2, FS_CardinalityType
<1>3. \A i \in P : IsFiniteSet(Below(raw, i)) /\ i \in Below(raw, i)
                   /\ Below(raw, i) \in SUBSET P /\ Rank(raw, i) = Cardinality(Below(raw, i))
  BY <1>1, <1>2, FS_Subset DEF Below, Rank
<1>4. rank \in [P -> 1..n]
  <2> SUFFICES ASSUME NEW i \in P PROVE Rank(raw, i) \in 1..n
    OBVIOUS
  <2>1. Cardinality(Below(raw, i)) \in Nat /\ Cardinality(Below(raw, i)) <= n
    BY <1>2, <1>3, FS_Subset, FS_CardinalityType
  <2>2. Cardinality(Below(raw, i)) # 0
    BY <1>3, FS_EmptySet
  <2> QED
    BY <2>1, <2>2, <1>2, <1>3
<1>5. ASSUME NEW i \in P, NEW j \in P, raw[i] < raw[j] \/ (raw[i] = raw[j] /\ i < j)
      PROVE  Rank(raw, i) # Rank(raw, j)
  <2>1. Below(raw, i) \in SUBSET Below(raw, j)
    BY <1>1, <1>5 DEF Below
  <2>2. j \notin Below(raw, i)
    BY <1>1, <1>5 DEF Below
  <2> QED
    BY <2>1, <2>2, <1>3, FS_Subset
<1>6. rank \in Injection(P, 1..n)
  <2>1. \A i, j \in P : rank[i] = rank[j] => i = j
    BY <1>1, <1>5
  <2> QED
    BY <1>4, <2>1, Fun_IsInj
<1>7. rank \in Surjection(P, 1..n)
  BY <1>2, <1>6, FS_Injection, FS_Interval
<1>8. \A k \in 1..n : \E i \in P : rank[i] = k
  BY <1>7 DEF Surjection
<1> QED
  BY <1>2, <1>8

\* A source: frame k has the stamp of the recorded frame index[k], which is positive.
LEMMA SortedSource ==
  ASSUME NEW raw \in Seq(Nat)
  PROVE  LET source == SortedValid(raw) IN
         /\ source.time \in Seq(Nat \ {0})
         /\ source.time = <<>> <=> Positive(raw) = {}
         /\ \A k \in DOMAIN source.time :
              source.index[k] \in DOMAIN raw /\ source.time[k] = raw[source.index[k]]
<1> DEFINE P == Positive(raw)
           n == Cardinality(P)
           order == StableOrder(raw)
           time == SortedValid(raw).time
<1>1. IsFiniteSet(P) /\ n \in Nat
  BY RankIsPosition
<1>2. order \in [1..n -> P]
  BY RankIsPosition DEF StableOrder
<1>3. time = [k \in 1..n |-> raw[order[k]]] /\ SortedValid(raw).index = order
  BY <1>2 DEF SortedValid
<1>4. \A k \in 1..n : order[k] \in DOMAIN raw /\ raw[order[k]] \in Nat \ {0}
  BY <1>2 DEF Positive
<1>5. time \in [1..n -> Nat \ {0}]
  BY <1>3, <1>4
<1>6. time \in Seq(Nat \ {0}) /\ Len(time) = n
  BY <1>1, <1>5
<1>7. time = <<>> <=> n = 0
  BY <1>6, <1>1
<1>8. n = 0 <=> P = {}
  BY <1>1, FS_EmptySet
<1> QED
  BY <1>3, <1>4, <1>6, <1>7, <1>8

-----------------------------------------------------------------------------
(***************************************************************************)
(* The search windows are finite, and Best finds a candidate in them.      *)
(***************************************************************************)
\* The values of a function on a finite set are finitely many.
LEMMA ImageFinite ==
  ASSUME NEW S, IsFiniteSet(S), NEW f
  PROVE  IsFiniteSet({f[x] : x \in S})
<1> DEFINE T == {f[x] : x \in S}
           g == [x \in S |-> f[x]]
<1>1. g \in Surjection(S, T)
  BY DEF Surjection
<1> HIDE DEF g, T
<1>2. IsFiniteSet(T)
  BY <1>1, FS_Surjection
<1> QED
  BY <1>2 DEF T

\* There are finitely many functions between finite sets.
LEMMA FunctionsFinite ==
  ASSUME NEW S, IsFiniteSet(S), NEW T, IsFiniteSet(T)
  PROVE  IsFiniteSet([S -> T])
<1> DEFINE graph == [f \in [S -> T] |-> {<<x, f[x]>> : x \in S}]
<1>1. IsFiniteSet(SUBSET (S \X T))
  BY FS_Product, FS_SUBSET
<1>2. graph \in [[S -> T] -> SUBSET (S \X T)]
  <2>1. ASSUME NEW f \in [S -> T] PROVE {<<x, f[x]>> : x \in S} \subseteq S \X T
    <3>1. \A x \in S : <<x, f[x]>> \in S \X T
      OBVIOUS
    <3> QED
      BY <3>1, Zenon
  <2> QED
    BY <2>1
<1>3. ASSUME NEW f \in [S -> T], NEW g \in [S -> T], graph[f] = graph[g]
      PROVE  f = g
  <2>1. ASSUME NEW x \in S PROVE f[x] = g[x]
    <3>1. <<x, f[x]>> \in graph[g]
      BY <1>3
    <3> QED
      BY <3>1
  <2> QED
    BY <2>1
<1> HIDE DEF graph
<1>4. graph \in Injection([S -> T], SUBSET (S \X T))
  BY <1>2, <1>3, Fun_IsInj
<1> QED
  BY <1>1, <1>4, FS_Injection

\* The order of the product: the first camera that differs decides.
LexBefore(U, a, b) == \E c \in U : a[c] < b[c] /\ \A d \in U : d < c => a[d] = b[d]

\* The lexicographic order of the index tuples is a strict total order.
LEMMA LexTotal ==
  ASSUME NEW U \in SUBSET Nat, NEW a \in [U -> Nat], NEW b \in [U -> Nat], a # b
  PROVE  LexBefore(U, a, b) \/ LexBefore(U, b, a)
<1> DEFINE D == {c \in U : a[c] # b[c]}
<1>1. D \subseteq Nat /\ D # {}
  <2>1. a = [c \in U |-> a[c]] /\ b = [c \in U |-> b[c]]
    OBVIOUS
  <2>2. \E c \in U : a[c] # b[c]
    BY <2>1, Zenon
  <2> QED
    BY <2>2
<1>2. PICK c \in D : \A d \in D : ~ (<<d, c>> \in OpToRel(<, Nat))
  <2> HIDE DEF D
  <2> QED
    BY <1>1, NatLessThanWellFounded, WFMin
<1>3. \A d \in U : d < c => a[d] = b[d]
  BY <1>2 DEF OpToRel
<1> QED
  BY <1>3 DEF LexBefore

\* It is transitive.
LEMMA LexTransitive ==
  ASSUME NEW U \in SUBSET Nat,
         NEW x \in [U -> Nat], NEW y \in [U -> Nat], NEW z \in [U -> Nat],
         LexBefore(U, x, y), LexBefore(U, y, z)
  PROVE  LexBefore(U, x, z)
<1>1. PICK c \in U : x[c] < y[c] /\ \A d \in U : d < c => x[d] = y[d]
  BY DEF LexBefore
<1>2. PICK e \in U : y[e] < z[e] /\ \A d \in U : d < e => y[d] = z[d]
  BY DEF LexBefore
<1>3. CASE c <= e
  <2>1. x[c] < z[c]
    BY <1>1, <1>2, <1>3
  <2>2. \A d \in U : d < c => x[d] = z[d]
    BY <1>1, <1>2, <1>3
  <2> QED
    BY <2>1, <2>2 DEF LexBefore
<1>4. CASE e < c
  <2>1. x[e] < z[e]
    BY <1>1, <1>2, <1>4
  <2>2. \A d \in U : d < e => x[d] = z[d]
    BY <1>1, <1>2, <1>4
  <2> QED
    BY <2>1, <2>2 DEF LexBefore
<1> QED
  BY <1>3, <1>4

\* It is irreflexive.
LEMMA LexIrreflexive ==
  ASSUME NEW U \in SUBSET Nat, NEW x \in [U -> Nat]
  PROVE  ~ LexBefore(U, x, x)
  BY DEF LexBefore

\* A bundle whose time and span are numbers.
Numbers(b) == b \in [UsedCameras -> Nat] /\ BundleSpan(b) \in Int /\ BundleTime(b) \in Int

\* Precedes compares three things in turn.
LEMMA PrecedesIs ==
  ASSUME NEW a, NEW b
  PROVE  Precedes(a, b) <=>
           \/ BundleSpan(a) < BundleSpan(b)
           \/ BundleSpan(a) = BundleSpan(b) /\ BundleTime(a) < BundleTime(b)
           \/ /\ BundleSpan(a) = BundleSpan(b) /\ BundleTime(a) = BundleTime(b)
              /\ LexBefore(UsedCameras, a, b)
  BY DEF Precedes, LexBefore

\* choose_best_bundle returns one of its candidates: there is a best one.
LEMMA BestIsCandidate ==
  ASSUME UsedCameras \subseteq Nat,
         NEW S, IsFiniteSet(S), S # {}, \A b \in S : Numbers(b)
  PROVE  Best(S) \in S
<1> DEFINE R == {p \in S \X S : Precedes(p[1], p[2])}
<1>1. \A x, y \in S : <<x, y>> \in R <=> Precedes(x, y)
  OBVIOUS
<1> HIDE DEF R
<1>2. ASSUME NEW x \in S PROVE <<x, x>> \notin R
  BY <1>1, LexIrreflexive, PrecedesIs DEF Numbers
<1>3. ASSUME NEW x \in S, NEW y \in S, NEW z \in S, <<x, y>> \in R, <<y, z>> \in R
      PROVE  <<x, z>> \in R
  <2>1. Precedes(x, y) /\ Precedes(y, z) /\ Numbers(x) /\ Numbers(y) /\ Numbers(z)
    BY <1>1, <1>3
  <2>2. LexBefore(UsedCameras, x, y) /\ LexBefore(UsedCameras, y, z) => LexBefore(UsedCameras, x, z)
    BY <2>1, LexTransitive DEF Numbers
  <2>3. Precedes(x, z)
    BY <2>1, <2>2, PrecedesIs DEF Numbers
  <2> QED
    BY <2>3, <1>1
<1>4. PICK m \in S : \A y \in S : <<y, m>> \notin R
  BY <1>2, <1>3, MinimumExists, Zenon
<1>5. ASSUME NEW y \in S \ {m} PROVE Precedes(m, y)
  <2>1. ~ Precedes(y, m) /\ Numbers(m) /\ Numbers(y)
    BY <1>1, <1>4
  <2>2. LexBefore(UsedCameras, m, y) \/ LexBefore(UsedCameras, y, m)
    BY <2>1, LexTotal DEF Numbers
  <2> QED
    BY <2>1, <2>2, PrecedesIs DEF Numbers
<1>6. \E b \in S : \A other \in S \ {b} : Precedes(b, other)
  BY <1>5
<1> QED
  BY <1>6, Zenon DEF Best

-----------------------------------------------------------------------------
(***************************************************************************)
(* The inductive invariant.                                                *)
(***************************************************************************)
\* The variables' types as far as the search needs them.
Typed ==
  /\ recording \in Recording /\ options \in AlignmentOptions
  /\ pc \in {"load", "window", "initial", "scan", "match", "done", "failed"}
  /\ lastTime \in Int /\ window \in [start : Int, end : Int]

\* A source with frames, all of them stamped.
Stamped(source) == source.time \in Seq(Nat \ {0}) /\ source.time # <<>>

\* The time of a row of the pair sensor is the later of its two stamps.
LaterStamp(rows, source) ==
  \A k \in DOMAIN source.time : LET row == rows[source.index[k]] IN
    source.time[k] = Max({row[1], row[2]})

\* Once loaded, every source has frames, and all their stamps are positive.
Loaded ==
  pc # "load" =>
    /\ DOMAIN image \subseteq recording.required /\ DOMAIN scalar \subseteq Scalars
    /\ \A u \in DOMAIN image : Stamped(image[u])
    /\ \A s \in DOMAIN scalar : Stamped(scalar[s])
    /\ pair.time \in Seq(Nat \ {0}) /\ LaterStamp(recording.xense, pair)

\* A demo of nothing is not aligned.
NotEmpty == pc = "window" => DOMAIN image # {} \/ DOMAIN scalar # {} \/ pair.time # <<>>

\* The search runs only if every camera has a representative, and its result is matched only then.
Framed == UsedCameras # {} /\ \A c \in UsedCameras : Color(c) \in DOMAIN image

\* The search and the matching of bundles know all cameras.
CamerasKnown ==
  pc \in {"initial", "scan"} \/ (pc = "match" /\ NeedsBundle) => Framed

\* The base of the timeline was recorded.
BaseThere == pc \in {"initial", "scan", "match"} => ~ BaseMissing

\* Before the search no bundle is taken.
NotBegun ==
  pc \in {"load", "window", "initial"} => selected = <<>> /\ lastTime = -1 /\ label = "initial"

\* A frame of every camera.
IsBundle(b) == b \in [UsedCameras -> Nat] /\ \A c \in UsedCameras : b[c] \in DOMAIN Frames(c)

\* What the search knows of its candidate; a blind step can only lead out of the window.
CandidateSound ==
  pc = "scan" =>
    /\ IsBundle(current)
    /\ label = "best_effort" => ~ (BundleTime(current) <= window.end)
    /\ selected = <<>> => lastTime = -1 /\ window.start <= BundleTime(current)
    /\ selected # <<>> =>
         \A c \in UsedCameras : selected[Len(selected)].index[c] <= current[c]

\* The rows of the bundle index.
Rows == [index : [UsedCameras -> Nat], label : {"initial", "locked", "fallback", "best_effort"}]

\* What it knows of the bundles taken.
TakenSound ==
  /\ selected \in Seq(Rows)
  /\ label \in {"initial", "locked", "fallback", "best_effort"}
  /\ selected # <<>> =>
       lastTime = BundleTime(selected[Len(selected)].index) /\ window.start <= lastTime

\* Every row names existing frames.
TakenAreBundles == \A k \in DOMAIN selected : IsBundle(selected[k].index)

\* The invariant of the search.
IInv ==
  /\ Typed /\ Loaded /\ NotEmpty /\ CamerasKnown /\ BaseThere /\ NotBegun
  /\ CandidateSound /\ TakenSound /\ TakenAreBundles
  /\ BundlesAdvance /\ NoBlindStep

-----------------------------------------------------------------------------
\* The cameras in use are finitely many.
LEMMA Recorded ==
  ASSUME recording \in Recording
  PROVE  /\ recording.required \subseteq Topics /\ IsFiniteSet(recording.required)
         /\ UsedCameras \subseteq Nat /\ IsFiniteSet(UsedCameras)
         /\ recording.required # {} => UsedCameras # {}
<1>1. recording.required \subseteq Topics
  BY DEF Recording
<1>2. IsFiniteSet(Cameras) /\ Cameras \subseteq Nat
  BY InputAssumption, FS_Interval DEF Cameras
<1>3. IsFiniteSet({"color", "depth"})
  <2>1. {"color", "depth"} = {"color"} \cup {"depth"}
    OBVIOUS
  <2>2. IsFiniteSet({"color"}) /\ IsFiniteSet({"depth"})
    BY FS_Singleton
  <2> QED
    BY <2>1, <2>2, FS_Union
<1>4. IsFiniteSet(Topics)
  BY <1>2, <1>3, FS_Product DEF Topics
<1>5. IsFiniteSet(recording.required)
  BY <1>1, <1>4, FS_Subset
<1>6. UsedCameras \subseteq Cameras
  BY <1>1 DEF UsedCameras, Topics
<1>7. IsFiniteSet(UsedCameras)
  BY <1>6, <1>2, FS_Subset
<1>8. recording.required # {} => UsedCameras # {}
  BY DEF UsedCameras
<1> QED
  BY <1>1, <1>2, <1>5, <1>6, <1>7, <1>8

\* A bundle of existing frames has a time and a span, and its time is its latest stamp.
LEMMA BundleTyped ==
  ASSUME Typed, Loaded, Framed, pc # "load", NEW b, IsBundle(b)
  PROVE  /\ Numbers(b) /\ BundleTime(b) > 0
         /\ \A c \in UsedCameras :
              Frames(c)[b[c]] \in (BundleTime(b) - BundleSpan(b))..BundleTime(b)
<1>1. \A c \in UsedCameras : Frames(c) \in Seq(Nat \ {0})
  BY DEF Loaded, Framed, Stamped, Frames
<1>2. \A c \in UsedCameras : Frames(c)[b[c]] \in Nat \ {0}
  BY <1>1 DEF IsBundle
<1>3. Stamps(b) \subseteq Nat \ {0}
  BY <1>2 DEF Stamps
<1>4. Stamps(b) # {}
  BY DEF Stamps, Framed
<1>5. IsFiniteSet(Stamps(b))
  <2> DEFINE f == [c \in UsedCameras |-> Frames(c)[b[c]]]
  <2>1. Stamps(b) = {f[c] : c \in UsedCameras}
    BY DEF Stamps
  <2> HIDE DEF f
  <2> QED
    BY <2>1, ImageFinite, Recorded DEF Typed
<1>6. /\ Max(Stamps(b)) \in Stamps(b) /\ \A x \in Stamps(b) : x <= Max(Stamps(b))
      /\ Min(Stamps(b)) \in Stamps(b) /\ \A x \in Stamps(b) : Min(Stamps(b)) <= x
  BY <1>3, <1>4, <1>5, MaxIs, MinIs
<1>7. Numbers(b)
  BY <1>3, <1>6 DEF Numbers, BundleTime, BundleSpan, IsBundle
<1>8. BundleTime(b) > 0
  BY <1>3, <1>6 DEF BundleTime
<1>9. ASSUME NEW c \in UsedCameras
      PROVE  Frames(c)[b[c]] \in (BundleTime(b) - BundleSpan(b))..BundleTime(b)
  <2> DEFINE stamp == Frames(c)[b[c]]
             least == Min(Stamps(b))
             most  == Max(Stamps(b))
  <2>1. stamp \in Stamps(b)
    BY DEF Stamps
  <2>2. least \in Int /\ most \in Int /\ stamp \in Int /\ least <= stamp /\ stamp <= most
    BY <1>3, <1>6, <2>1
  <2>3. BundleTime(b) = most /\ BundleSpan(b) = most - least
    BY DEF BundleTime, BundleSpan
  <2> HIDE DEF stamp, least, most
  <2>4. stamp \in (BundleTime(b) - BundleSpan(b))..BundleTime(b)
    BY <2>2, <2>3
  <2> QED
    BY <2>4 DEF stamp
<1> QED
  BY <1>7, <1>8, <1>9

\* The search windows hold bundles of existing frames near their center.
LEMMA CandidatesTyped ==
  ASSUME Typed, Loaded, Framed, pc # "load",
         NEW center \in [UsedCameras -> Nat], NEW radius \in Nat
  PROVE  /\ IsFiniteSet(Candidates(center, radius))
         /\ \A b \in Candidates(center, radius) :
              IsBundle(b) /\ \A c \in UsedCameras : center[c] - radius <= b[c]
         /\ IsBundle(center) => center \in Candidates(center, radius)
<1> DEFINE choices == [c \in UsedCameras |-> IndexWindow(Len(Frames(c)), center[c], radius)]
           places == {choices[c] : c \in UsedCameras}
<1>1. \A c \in UsedCameras : Frames(c) \in Seq(Nat \ {0})
  BY DEF Loaded, Framed, Stamped, Frames
<1>2. \A c \in UsedCameras :
        /\ choices[c] \subseteq 1..Len(Frames(c)) /\ Len(Frames(c)) \in Nat
        /\ DOMAIN Frames(c) = 1..Len(Frames(c))
        /\ \A i \in choices[c] : center[c] - radius <= i
  BY <1>1 DEF IndexWindow
<1>3. \A c \in UsedCameras : IsFiniteSet(choices[c])
  <2> HIDE DEF choices
  <2> SUFFICES ASSUME NEW c \in UsedCameras PROVE IsFiniteSet(choices[c])
    OBVIOUS
  <2>1. IsFiniteSet(1..Len(Frames(c)))
    BY <1>2, FS_Interval
  <2> QED
    BY <2>1, <1>2, FS_Subset
<1>4. UNION {choices[c] : c \in UsedCameras} = UNION places
  OBVIOUS
<1>5. IsFiniteSet(UNION places)
  <2>1. IsFiniteSet(places)
    <3> HIDE DEF choices
    <3> QED
      BY ImageFinite, Recorded DEF Typed
  <2>2. \A T \in places : IsFiniteSet(T)
    BY <1>3
  <2> HIDE DEF places
  <2> QED
    BY <2>1, <2>2, FS_UNION
<1>6. Candidates(center, radius) =
        {b \in [UsedCameras -> UNION places] : \A c \in UsedCameras : b[c] \in choices[c]}
  BY DEF Candidates
<1>7. IsFiniteSet(Candidates(center, radius))
  <2>1. IsFiniteSet([UsedCameras -> UNION places])
    <3> HIDE DEF places
    <3> QED
      BY <1>5, FunctionsFinite, Recorded DEF Typed
  <2> HIDE DEF places, choices
  <2>2. Candidates(center, radius) \in SUBSET [UsedCameras -> UNION places]
    BY <1>6
  <2> QED
    BY <2>1, <2>2, FS_Subset
<1>8. ASSUME NEW b \in Candidates(center, radius)
      PROVE  IsBundle(b) /\ \A c \in UsedCameras : center[c] - radius <= b[c]
  <2>1. b \in [UsedCameras -> UNION places] /\ \A c \in UsedCameras : b[c] \in choices[c]
    BY <1>6
  <2>2. \A c \in UsedCameras : b[c] \in Nat
    <3> HIDE DEF choices, places
    <3> SUFFICES ASSUME NEW c \in UsedCameras PROVE b[c] \in Nat
      OBVIOUS
    <3>1. b[c] \in 1..Len(Frames(c)) /\ Len(Frames(c)) \in Nat
      BY <2>1, <1>2
    <3> QED
      BY <3>1
  <2> HIDE DEF choices, places
  <2> QED
    BY <2>1, <2>2, <1>2 DEF IsBundle
<1>9. ASSUME IsBundle(center) PROVE center \in Candidates(center, radius)
  <2>1. \A c \in UsedCameras : center[c] \in choices[c]
    BY <1>2, <1>9 DEF IsBundle, IndexWindow
  <2>2. center \in [UsedCameras -> UNION places]
    BY <2>1, <1>4
  <2> QED
    BY <1>6, <2>1, <2>2
<1> QED
  BY <1>7, <1>8, <1>9

-----------------------------------------------------------------------------
(***************************************************************************)
(* Loading and the window.                                                 *)
(***************************************************************************)
\* The pair sensor's source; an archive with rows whose stamps are all there is not empty.
LEMMA PairTyped ==
  ASSUME NEW rows \in Seq(Nat \X Nat)
  PROVE  /\ PairSource(rows).time \in Seq(Nat \ {0}) /\ LaterStamp(rows, PairSource(rows))
         /\ rows # <<>> /\ (\A i \in DOMAIN rows : \A k \in {1, 2} : rows[i][k] # 0)
              => PairSource(rows).time # <<>>
<1> DEFINE raw == [i \in DOMAIN rows |-> Max({rows[i][1], rows[i][2]})]
<1>1. ASSUME NEW i \in DOMAIN rows
      PROVE  /\ rows[i][1] \in Nat /\ rows[i][2] \in Nat
             /\ Max({rows[i][1], rows[i][2]}) \in {rows[i][1], rows[i][2]}
  <2>1. rows[i] \in Nat \X Nat
    OBVIOUS
  <2> DEFINE S == {rows[i][1], rows[i][2]}
  <2>2. S = {rows[i][1]} \cup {rows[i][2]} /\ S \subseteq Int /\ S # {}
    BY <2>1
  <2>3. IsFiniteSet({rows[i][1]}) /\ IsFiniteSet({rows[i][2]})
    BY FS_Singleton
  <2>4. IsFiniteSet(S)
    BY <2>2, <2>3, FS_Union
  <2> HIDE DEF S
  <2>5. Max(S) \in S /\ \A x \in S : x <= Max(S)
    BY <2>2, <2>4, MaxIs
  <2> QED
    BY <2>1, <2>5 DEF S
<1>2. raw \in Seq(Nat)
  <2> DEFINE n == Len(rows)
  <2>1. DOMAIN rows = 1..n /\ n \in Nat
    OBVIOUS
  <2>2. \A i \in DOMAIN rows : raw[i] \in Nat
    BY <1>1
  <2>3. DOMAIN raw = DOMAIN rows /\ raw = [i \in DOMAIN raw |-> raw[i]]
    OBVIOUS
  <2> HIDE DEF raw, n
  <2>4. raw \in [1..n -> Nat]
    BY <2>1, <2>2, <2>3
  <2> QED
    BY <2>1, <2>4
<1>3. PairSource(rows) = SortedValid(raw)
  BY DEF PairSource
<1>4. ASSUME rows # <<>>, \A i \in DOMAIN rows : \A k \in {1, 2} : rows[i][k] # 0
      PROVE  Positive(raw) # {}
  <2>1. 1 \in DOMAIN rows
    BY <1>4
  <2>2. raw[1] > 0
    BY <1>1, <1>4, <2>1
  <2> QED
    BY <2>1, <2>2 DEF Positive
<1>5. \A i \in DOMAIN raw : i \in DOMAIN rows /\ raw[i] = Max({rows[i][1], rows[i][2]})
  OBVIOUS
<1> HIDE DEF raw
<1>6. /\ SortedValid(raw).time \in Seq(Nat \ {0}) /\ (SortedValid(raw).time = <<>> <=> Positive(raw) = {})
      /\ \A k \in DOMAIN SortedValid(raw).time :
           /\ SortedValid(raw).index[k] \in DOMAIN raw
           /\ SortedValid(raw).time[k] = raw[SortedValid(raw).index[k]]
  BY <1>2, SortedSource
<1>7. LaterStamp(rows, PairSource(rows))
  <2> SUFFICES ASSUME NEW k \in DOMAIN SortedValid(raw).time
               PROVE  LET row == rows[SortedValid(raw).index[k]] IN
                        SortedValid(raw).time[k] = Max({row[1], row[2]})
    BY <1>3 DEF LaterStamp
  <2> QED
    BY <1>1, <1>5, <1>6
<1> QED
  BY <1>3, <1>4, <1>6, <1>7

\* A step before the search, or after it, leaves the bundles as they are.
LEMMA NothingTaken ==
  ASSUME selected' = <<>>
  PROVE  BundlesAdvance' /\ NoBlindStep' /\ TakenAreBundles'
  BY DEF BundlesAdvance, NoBlindStep, TakenAreBundles

\* What is known of the bundles taken holds while they and the sources stay.
LEMMA NothingChanged ==
  ASSUME UNCHANGED <<recording, image, window, selected>>
  PROVE  /\ BundlesAdvance => BundlesAdvance'
         /\ NoBlindStep => NoBlindStep'
         /\ TakenSound /\ UNCHANGED <<label, lastTime>> => TakenSound'
         /\ TakenAreBundles => TakenAreBundles'
<1>1. BundlesAdvance => BundlesAdvance'
  BY DEF BundlesAdvance, BundleTime, Stamps, Frames, Color, UsedCameras
<1>2. NoBlindStep => NoBlindStep'
  BY DEF NoBlindStep
<1>3. TakenSound /\ UNCHANGED <<label, lastTime>> => TakenSound'
  BY DEF TakenSound, Rows, BundleTime, Stamps, Frames, Color, UsedCameras
<1>4. TakenAreBundles => TakenAreBundles'
  BY DEF TakenAreBundles, IsBundle, Frames, Color, UsedCameras
<1> QED
  BY <1>1, <1>2, <1>3, <1>4

\* Loading keeps the invariant.
LEMMA LoadSafe ==
  ASSUME IInv, LoadSources
  PROVE  IInv'
<1>1. recording \in Recording /\ UNCHANGED <<recording, options, window, lastTime, selected, label>>
      /\ pc' \in {"failed", "window"} /\ selected = <<>> /\ lastTime = -1 /\ label = "initial"
  BY DEF IInv, Typed, NotBegun, LoadSources, inputVars, searchVars
<1>2. ASSUME NEW raw \in Seq(Nat), Positive(raw) # {} PROVE Stamped(SortedValid(raw))
  BY <1>2, SortedSource DEF Stamped
<1>3. \A u \in DOMAIN image' : u \in recording.required /\ Stamped(image'[u])
  <2> SUFFICES ASSUME NEW u \in DOMAIN image'
               PROVE  u \in recording.required /\ Stamped(image'[u])
    OBVIOUS
  <2>1. /\ u \in recording.required /\ Positive(recording.image[u]) # {}
        /\ image'[u] = SortedValid(recording.image[u])
    BY DEF LoadSources
  <2>2. recording.image[u] \in Seq(Nat)
    BY <1>1, <2>1 DEF Recording
  <2> QED
    BY <2>1, <2>2, <1>2
<1>4. \A s \in DOMAIN scalar' : s \in Scalars /\ Stamped(scalar'[s])
  <2> SUFFICES ASSUME NEW s \in DOMAIN scalar'
               PROVE  s \in Scalars /\ Stamped(scalar'[s])
    OBVIOUS
  <2>1. /\ s \in Scalars /\ Positive(recording.scalar[s]) # {}
        /\ scalar'[s] = SortedValid(recording.scalar[s])
    BY DEF LoadSources
  <2>2. recording.scalar[s] \in Seq(Nat)
    BY <1>1, <2>1 DEF Recording
  <2> QED
    BY <2>1, <2>2, <1>2
<1>5. /\ pair'.time \in Seq(Nat \ {0}) /\ LaterStamp(recording.xense, pair')
      /\ pc' = "window" /\ recording.xense # <<>> => pair'.time # <<>>
  <2>1. recording.xense \in Seq(Nat \X Nat) /\ pair' = PairSource(recording.xense)
    BY <1>1 DEF Recording, LoadSources
  <2>2. pc' = "window" => \A i \in DOMAIN recording.xense : \A k \in {1, 2} : recording.xense[i][k] # 0
    BY DEF LoadSources
  <2> QED
    BY <2>1, <2>2, PairTyped
<1>6. NotEmpty'
  <2>1. pc' = "window" => DOMAIN image' # {} \/ DOMAIN scalar' # {} \/ recording.xense # <<>>
    BY DEF LoadSources
  <2> QED
    BY <2>1, <1>5 DEF NotEmpty
<1>7. Loaded'
  BY <1>1, <1>3, <1>4, <1>5 DEF Loaded, LaterStamp
<1>8. Typed'
  BY <1>1 DEF IInv, Typed
<1>9. CamerasKnown' /\ BaseThere' /\ NotBegun' /\ CandidateSound'
  BY <1>1 DEF CamerasKnown, BaseThere, NotBegun, CandidateSound
<1>10. TakenSound'
  BY <1>1 DEF TakenSound
<1> QED
  BY <1>1, <1>6, <1>7, <1>8, <1>9, <1>10, NothingTaken DEF IInv

\* The stamps of all streams, and the first and the last of each.
Times  == {image[u].time : u \in DOMAIN image} \cup {scalar[s].time : s \in DOMAIN scalar}
          \cup (IF pair.time = <<>> THEN {} ELSE {pair.time})
Firsts == {First(time) : time \in Times}
Lasts  == {Last(time) : time \in Times}

\* They are finitely many, and not none.
LEMMA StreamsFinite ==
  ASSUME Typed, Loaded, NotEmpty, pc = "window"
  PROVE  /\ Firsts \subseteq Int /\ Firsts # {} /\ IsFiniteSet(Firsts)
         /\ Lasts \subseteq Int /\ Lasts # {} /\ IsFiniteSet(Lasts)
<1> DEFINE images  == {image[u].time : u \in DOMAIN image}
           scalars == {scalar[s].time : s \in DOMAIN scalar}
<1>1. \A time \in Times : time \in Seq(Nat \ {0}) /\ time # <<>>
  BY DEF Loaded, Stamped, Times
<1>2. \A time \in Times : First(time) \in Int /\ Last(time) \in Int
  <2> SUFFICES ASSUME NEW time \in Times PROVE First(time) \in Int /\ Last(time) \in Int
    OBVIOUS
  <2>1. time \in Seq(Nat \ {0}) /\ time # <<>>
    BY <1>1
  <2> QED
    BY <2>1 DEF First, Last
<1>3. Times # {}
  BY DEF NotEmpty, Times
<1>4. IsFiniteSet(Times)
  <2>1. IsFiniteSet(images)
    <3> DEFINE f == [u \in DOMAIN image |-> image[u].time]
    <3>1. IsFiniteSet(DOMAIN image)
      BY Recorded, FS_Subset DEF Typed, Loaded
    <3>2. images = {f[u] : u \in DOMAIN image}
      OBVIOUS
    <3> HIDE DEF f, images
    <3> QED
      BY <3>1, <3>2, ImageFinite
  <2>2. IsFiniteSet(scalars)
    <3> DEFINE f == [s \in DOMAIN scalar |-> scalar[s].time]
    <3>1. IsFiniteSet(DOMAIN scalar)
      BY InputAssumption, FS_Subset DEF Loaded
    <3>2. scalars = {f[s] : s \in DOMAIN scalar}
      OBVIOUS
    <3> HIDE DEF f, scalars
    <3> QED
      BY <3>1, <3>2, ImageFinite
  <2>3. IsFiniteSet(IF pair.time = <<>> THEN {} ELSE {pair.time})
    BY FS_EmptySet, FS_Singleton
  <2>4. Times = (images \cup scalars) \cup (IF pair.time = <<>> THEN {} ELSE {pair.time})
    BY DEF Times
  <2> HIDE DEF images, scalars
  <2>5. IsFiniteSet(images \cup scalars)
    BY <2>1, <2>2, FS_Union
  <2> QED
    BY <2>3, <2>4, <2>5, FS_Union
<1>5. IsFiniteSet(Firsts) /\ IsFiniteSet(Lasts)
  <2> DEFINE first == [time \in Times |-> First(time)]
             last  == [time \in Times |-> Last(time)]
  <2>1. Firsts = {first[time] : time \in Times} /\ Lasts = {last[time] : time \in Times}
    BY DEF Firsts, Lasts
  <2> HIDE DEF first, last
  <2> QED
    BY <2>1, <1>4, ImageFinite
<1> QED
  BY <1>2, <1>3, <1>5 DEF Firsts, Lasts

\* Trimming the window keeps it.
LEMMA WindowSafe ==
  ASSUME IInv, TrimWindow
  PROVE  IInv'
<1>1. /\ Typed /\ Loaded /\ NotEmpty /\ pc = "window"
      /\ selected = <<>> /\ lastTime = -1 /\ label = "initial"
  BY DEF IInv, NotBegun, TrimWindow
<1>2. UNCHANGED <<recording, options, image, scalar, pair, lastTime, selected, label>>
  BY DEF TrimWindow, inputVars, sourceVars, searchVars
<1>3. Max(Firsts) \in Int /\ Min(Lasts) \in Int
  BY <1>1, StreamsFinite, MaxIs, MinIs
<1>4. window' = [start |-> Max(Firsts) + options.startTrim, end |-> Min(Lasts) - options.endTrim]
  BY DEF TrimWindow, Times, Firsts, Lasts
<1>5. window' \in [start : Int, end : Int]
  BY <1>1, <1>3, <1>4 DEF Typed, AlignmentOptions
<1>6. pc' \in {"failed", "initial", "match"} /\ (pc' = "initial" => ~ BundleImpossible)
       /\ (pc' = "match" => ~ NeedsBundle) /\ (pc' # "failed" => ~ BaseMissing)
  BY DEF TrimWindow
<1>7. CamerasKnown'
  <2>1. ASSUME pc' = "initial"
        PROVE  Framed
    <3>1. /\ recording.required # {} /\ recording.required = DOMAIN image
          /\ \A c \in UsedCameras : Color(c) \in recording.required
      BY <1>6, <2>1 DEF BundleImpossible
    <3> QED
      BY <3>1, <1>1, Recorded DEF Typed, Framed
  <2> QED
    BY <2>1, <1>2, <1>6 DEF CamerasKnown, Framed, NeedsBundle, Base, UsedCameras, Color
<1>8. Typed' /\ Loaded' /\ NotEmpty'
  BY <1>1, <1>2, <1>5, <1>6 DEF Typed, Loaded, LaterStamp, NotEmpty, Stamped
<1>9. BaseThere' /\ NotBegun' /\ CandidateSound' /\ TakenSound'
  BY <1>1, <1>2, <1>6 DEF BaseThere, BaseMissing, Base, NotBegun, CandidateSound, TakenSound
<1> QED
  BY <1>1, <1>2, <1>7, <1>8, <1>9, NothingTaken DEF IInv

-----------------------------------------------------------------------------
(***************************************************************************)
(* searchsorted returns a number of frames.                                *)
(***************************************************************************)
LEMMA CountTyped ==
  ASSUME NEW S, NEW time \in Seq(S), NEW t
  PROVE  CountBefore(time, t) \in 0..Len(time) /\ CountUpTo(time, t) \in 0..Len(time)
<1>1. DOMAIN time = 1..Len(time) /\ Len(time) \in Nat
  OBVIOUS
<1>2. IsFiniteSet(1..Len(time)) /\ Cardinality(1..Len(time)) = Len(time)
  BY <1>1, FS_Interval
<1>3. ASSUME NEW T \in SUBSET (1..Len(time)) PROVE Cardinality(T) \in 0..Len(time)
  <2>1. IsFiniteSet(T) /\ Cardinality(T) <= Cardinality(1..Len(time))
    BY <1>2, FS_Subset
  <2>2. Cardinality(T) \in Nat
    BY <2>1, FS_CardinalityType
  <2> QED
    BY <1>1, <1>2, <2>1, <2>2
<1> QED
  BY <1>1, <1>3 DEF CountBefore, CountUpTo

-----------------------------------------------------------------------------
(***************************************************************************)
(* The search.                                                             *)
(***************************************************************************)
\* While the sources and the window stay, a bundle's time and span do.
LEMMA SameMeasures ==
  ASSUME UNCHANGED <<recording, options, image, window>>
  PROVE  /\ UsedCameras' = UsedCameras
         /\ NeedsBundle' <=> NeedsBundle
         /\ Framed' <=> Framed
         /\ BundleTime(current)' = BundleTime(current')
         /\ BundleSpan(current)' = BundleSpan(current')
         /\ IsBundle(current)' <=> IsBundle(current')
         /\ BundleTime(selected[Len(selected)].index)' = BundleTime(selected'[Len(selected')].index)
  BY DEF BundleTime, BundleSpan, IsBundle, Stamps, Frames, Color, UsedCameras, NeedsBundle, Base, Framed

\* Choosing the first bundle keeps it.
LEMMA InitialSafe ==
  ASSUME IInv, ChooseInitialBundle
  PROVE  IInv'
<1>1. /\ Typed /\ Loaded /\ Framed /\ pc = "initial" /\ pc' = "scan"
      /\ selected = <<>> /\ lastTime = -1 /\ label = "initial" /\ TakenSound
      /\ UNCHANGED <<recording, options, image, scalar, pair, window, label, lastTime, selected>>
  BY DEF IInv, NotBegun, CamerasKnown, ChooseInitialBundle, inputVars, sourceVars
<1>2. PICK center \in [UsedCameras -> Nat] :
        InitialCandidates = {b \in Candidates(center, InitialRadius) : BundleTime(b) >= window.start}
  <2> DEFINE center == [c \in UsedCameras |-> CountBefore(Frames(c), window.start) + 1]
  <2>1. ASSUME NEW c \in UsedCameras PROVE CountBefore(Frames(c), window.start) \in Nat
    <3>1. Frames(c) \in Seq(Nat \ {0})
      BY <1>1 DEF Loaded, Framed, Stamped, Frames
    <3> QED
      BY <3>1, CountTyped
  <2>2. center \in [UsedCameras -> Nat]
    BY <2>1
  <2> QED
    BY <2>2 DEF InitialCandidates
<1>3. /\ IsFiniteSet(InitialCandidates)
      /\ \A b \in InitialCandidates : IsBundle(b) /\ Numbers(b) /\ window.start <= BundleTime(b)
  <2>1. /\ IsFiniteSet(Candidates(center, InitialRadius))
        /\ \A b \in Candidates(center, InitialRadius) : IsBundle(b)
    BY <1>1, CandidatesTyped DEF InitialRadius
  <2>2. InitialCandidates \in SUBSET Candidates(center, InitialRadius)
    BY <1>2
  <2>3. IsFiniteSet(InitialCandidates)
    BY <2>1, <2>2, FS_Subset
  <2>4. ASSUME NEW b \in InitialCandidates
        PROVE  IsBundle(b) /\ Numbers(b) /\ window.start <= BundleTime(b)
    <3>1. IsBundle(b) /\ BundleTime(b) >= window.start
      BY <1>2, <2>1
    <3>2. Numbers(b)
      BY <3>1, <1>1, BundleTyped
    <3> QED
      BY <3>1, <3>2, <1>1 DEF Numbers, Typed
  <2> QED
    BY <2>3, <2>4
<1>4. current' \in InitialCandidates
  <2>1. InitialCandidates # {} /\ current' = Best(InitialCandidates)
    BY DEF ChooseInitialBundle
  <2> QED
    BY <2>1, <1>1, <1>3, BestIsCandidate, Recorded DEF Typed
<1>5. IsBundle(current)' /\ window'.start <= BundleTime(current)'
  BY <1>1, <1>3, <1>4, SameMeasures
<1>6. CandidateSound'
  BY <1>1, <1>5 DEF CandidateSound
<1>7. Typed' /\ Loaded' /\ NotEmpty' /\ BaseThere' /\ NotBegun'
  BY <1>1 DEF IInv, Typed, Loaded, NotEmpty, BaseThere, BaseMissing, Base, NotBegun, Stamped, LaterStamp
<1>8. CamerasKnown'
  BY <1>1 DEF CamerasKnown, Framed, UsedCameras, Color
<1> QED
  BY <1>1, <1>6, <1>7, <1>8, NothingTaken, NothingChanged DEF IInv

\* A step that ends the search without a new candidate, or comes after it.
LEMMA EndSafe ==
  ASSUME IInv, pc' \in {"match", "done", "failed"}, pc \in {"scan", "match"},
         UNCHANGED <<inputVars, sourceVars, window, label, lastTime, selected>>
  PROVE  IInv'
<1>1. UNCHANGED <<recording, options, image, scalar, pair, window, label, lastTime, selected>>
  BY DEF inputVars, sourceVars
<1>2. Typed' /\ Loaded' /\ NotEmpty' /\ BaseThere' /\ NotBegun' /\ CandidateSound'
  BY <1>1 DEF IInv, Typed, Loaded, NotEmpty, BaseThere, BaseMissing, Base, NotBegun, CandidateSound, Stamped, LaterStamp
<1>3. CamerasKnown'
  BY <1>1, SameMeasures DEF IInv, CamerasKnown
<1> QED
  BY <1>1, <1>2, <1>3, NothingChanged DEF IInv

\* What holds when a round has taken its candidate: the timeline is extended, if at all, by a
\* later bundle that was not found blindly.
LEMMA CandidateTaken ==
  ASSUME IInv, pc = "scan", TakeCandidate,
         UNCHANGED <<recording, options, image, scalar, pair, window>>
  PROVE  /\ Numbers(current) /\ IsBundle(current) /\ lastTime' \in Int
         /\ BundleTime(current) <= lastTime' /\ window.start <= lastTime'
         /\ selected' \in Seq(Rows) /\ selected' # <<>>
         /\ lastTime' = BundleTime(selected'[Len(selected')].index)
         /\ \A c \in UsedCameras : selected'[Len(selected')].index[c] <= current[c]
         /\ \A k \in DOMAIN selected' : IsBundle(selected'[k].index)
         /\ BundlesAdvance' /\ NoBlindStep'
<1> DEFINE t == BundleTime(current)
           row == [index |-> current, label |-> label]
<1>1. /\ Typed /\ Loaded /\ Framed /\ IsBundle(current) /\ TakenSound /\ BundlesAdvance /\ NoBlindStep
      /\ \A k \in DOMAIN selected : IsBundle(selected[k].index)
      /\ label = "best_effort" => ~ (t <= window.end)
      /\ selected = <<>> => lastTime = -1 /\ window.start <= t
      /\ selected # <<>> => \A c \in UsedCameras : selected[Len(selected)].index[c] <= current[c]
  BY DEF IInv, CamerasKnown, CandidateSound, TakenAreBundles
<1>2. Numbers(current) /\ t > 0 /\ t \in Int /\ lastTime \in Int /\ window.start \in Int
  BY <1>1, BundleTyped DEF Numbers, Typed
<1>3. t <= window.end
  BY DEF TakeCandidate
<1>4. CASE ~ (t > lastTime)
  <2>1. UNCHANGED <<selected, lastTime>>
    BY <1>4 DEF TakeCandidate
  <2>2. selected # <<>>
    BY <1>1, <1>2, <1>4
  <2>3. BundlesAdvance' /\ NoBlindStep'
    BY <1>1, <2>1, NothingChanged
  <2> QED
    BY <1>1, <1>2, <1>4, <2>1, <2>2, <2>3 DEF TakenSound
<1>5. CASE t > lastTime
  <2>1. selected' = Append(selected, row) /\ lastTime' = t
    BY <1>5 DEF TakeCandidate
  <2>2. row \in Rows
    BY <1>1 DEF Rows, TakenSound, IsBundle
  <2>3. /\ selected' \in Seq(Rows) /\ Len(selected') = Len(selected) + 1 /\ Len(selected) \in Nat
        /\ DOMAIN selected' = 1..Len(selected') /\ DOMAIN selected = 1..Len(selected)
        /\ selected'[Len(selected')] = row
        /\ \A k \in DOMAIN selected : selected'[k] = selected[k]
    BY <1>1, <2>1, <2>2 DEF TakenSound
  <2>4. window.start <= t
    BY <1>1, <1>2, <1>5 DEF TakenSound
  <2>5. NoBlindStep'
    <3> SUFFICES ASSUME NEW k \in DOMAIN selected'
                 PROVE  selected'[k].label # "best_effort"
      BY DEF NoBlindStep
    <3>1. CASE k \in DOMAIN selected
      BY <1>1, <2>3, <3>1 DEF NoBlindStep
    <3>2. CASE k = Len(selected')
      BY <1>1, <1>3, <2>3, <3>2
    <3> QED
      BY <2>3, <3>1, <3>2
  <2>6. BundlesAdvance'
    <3> SUFFICES ASSUME NEW k \in DOMAIN selected'
                 PROVE  /\ window.start <= BundleTime(selected'[k].index)
                        /\ BundleTime(selected'[k].index) <= window.end
                        /\ k > 1 =>
                             /\ BundleTime(selected'[k - 1].index) < BundleTime(selected'[k].index)
                             /\ \A c \in UsedCameras : selected'[k - 1].index[c] <= selected'[k].index[c]
      BY DEF BundlesAdvance, BundleTime, Stamps, Frames, Color, UsedCameras
    <3>1. CASE k \in DOMAIN selected
      <4>1. k > 1 => k - 1 \in DOMAIN selected
        BY <2>3, <3>1
      <4> QED
        BY <1>1, <2>3, <3>1, <4>1 DEF BundlesAdvance
    <3>2. CASE k = Len(selected')
      <4>1. selected'[k].index = current
        BY <2>3, <3>2
      <4>2. ASSUME k > 1
            PROVE  /\ BundleTime(selected'[k - 1].index) < t
                   /\ \A c \in UsedCameras : selected'[k - 1].index[c] <= current[c]
        <5>1. k - 1 = Len(selected) /\ k - 1 \in DOMAIN selected /\ selected # <<>>
          BY <2>3, <3>2, <4>2
        <5>2. selected'[k - 1] = selected[Len(selected)]
          BY <2>3, <5>1
        <5>3. BundleTime(selected[Len(selected)].index) = lastTime
          BY <1>1, <5>1 DEF TakenSound
        <5> QED
          BY <1>1, <1>2, <1>5, <5>1, <5>2, <5>3
      <4> QED
        BY <1>3, <2>4, <4>1, <4>2
    <3> QED
      BY <2>3, <3>1, <3>2
  <2>7. selected' # <<>> /\ selected'[Len(selected')].index = current
    BY <2>3
  <2>8. \A c \in UsedCameras : current[c] \in Nat
    BY <1>1 DEF IsBundle
  <2>9. \A k \in DOMAIN selected' : IsBundle(selected'[k].index)
    <3> SUFFICES ASSUME NEW k \in DOMAIN selected' PROVE IsBundle(selected'[k].index)
      OBVIOUS
    <3>1. CASE k \in DOMAIN selected
      BY <1>1, <2>3, <3>1
    <3>2. CASE k = Len(selected')
      BY <1>1, <2>3, <3>2
    <3> QED
      BY <2>3, <3>1, <3>2
  <2> QED
    BY <1>1, <1>2, <2>1, <2>3, <2>4, <2>5, <2>6, <2>7, <2>8, <2>9
<1> QED
  BY <1>4, <1>5

\* A round that goes on does so with a sound candidate; one that ends is over.
LEMMA RoundSafe ==
  ASSUME IInv, pc = "scan", TakeCandidate,
         UNCHANGED <<recording, options, image, scalar, pair, window>>,
         pc' \in {"scan", "match"},
         label' \in {"initial", "locked", "fallback", "best_effort"},
         pc' = "scan" =>
           /\ IsBundle(current')
           /\ \A c \in UsedCameras : current[c] <= current'[c]
           /\ label' = "best_effort" => ~ (BundleTime(current') <= window.end)
  PROVE  IInv'
<1>1. /\ Numbers(current) /\ IsBundle(current) /\ lastTime' \in Int
      /\ BundleTime(current) <= lastTime' /\ window.start <= lastTime'
      /\ selected' \in Seq(Rows) /\ selected' # <<>>
      /\ lastTime' = BundleTime(selected'[Len(selected')].index)
      /\ \A c \in UsedCameras : selected'[Len(selected')].index[c] <= current[c]
      /\ \A k \in DOMAIN selected' : IsBundle(selected'[k].index)
      /\ BundlesAdvance' /\ NoBlindStep'
  BY CandidateTaken
<1>2. Typed' /\ Loaded' /\ NotEmpty' /\ BaseThere' /\ NotBegun'
  BY <1>1 DEF IInv, Typed, Loaded, NotEmpty, BaseThere, BaseMissing, Base, NotBegun, Stamped, LaterStamp
<1>3. CamerasKnown'
  BY DEF IInv, CamerasKnown, Framed, UsedCameras, Color
<1>4. TakenSound'
  <2>1. Rows' = Rows
    BY DEF Rows, UsedCameras
  <2> QED
    BY <1>1, <2>1, SameMeasures DEF TakenSound
<1>5. ASSUME pc' = "scan"
      PROVE  \A c \in UsedCameras : selected'[Len(selected')].index[c] <= current'[c]
  <2> SUFFICES ASSUME NEW c \in UsedCameras
               PROVE  selected'[Len(selected')].index[c] <= current'[c]
    OBVIOUS
  <2>1. selected'[Len(selected')] \in Rows
    BY <1>1
  <2>2. /\ selected'[Len(selected')].index[c] \in Nat
        /\ current[c] \in Nat /\ current'[c] \in Nat
    BY <1>1, <1>5, <2>1 DEF Rows, IsBundle
  <2> QED
    BY <1>1, <1>5, <2>2
<1>6. CandidateSound'
  BY <1>1, <1>5, SameMeasures DEF CandidateSound
<1>7. TakenAreBundles'
  BY <1>1 DEF TakenAreBundles, IsBundle, Frames, Color, UsedCameras
<1> QED
  BY <1>1, <1>2, <1>3, <1>4, <1>6, <1>7 DEF IInv

\* The next frames of all cameras are a bundle, unless a camera has none.
LEMMA ExpectedIsBundle ==
  ASSUME IInv, pc = "scan", ~ Exhausted
  PROVE  IsBundle(Expected) /\ \A c \in UsedCameras : current[c] <= Expected[c]
<1>1. IsBundle(current) /\ Loaded /\ Framed
  BY DEF IInv, CamerasKnown, CandidateSound
<1>2. ASSUME NEW c \in UsedCameras
      PROVE  /\ current[c] \in Nat /\ Expected[c] = current[c] + 1
             /\ Expected[c] \in DOMAIN Frames(c)
  <2>1. DOMAIN Frames(c) = 1..Len(Frames(c)) /\ Len(Frames(c)) \in Nat
    BY <1>1 DEF Loaded, Framed, Stamped, Frames
  <2>2. current[c] \in Nat /\ Expected[c] = current[c] + 1
    BY <1>1 DEF IsBundle, Expected
  <2>3. ~ (Expected[c] > Len(Frames(c)))
    BY DEF Exhausted
  <2> QED
    BY <2>1, <2>2, <2>3
<1>3. Expected \in [UsedCameras -> Nat]
  BY <1>2 DEF Expected
<1> QED
  BY <1>2, <1>3 DEF IsBundle

\* The fallback search finds bundles of existing frames, none before the current one.
LEMMA LocalSearch ==
  ASSUME IInv, pc = "scan", ~ Exhausted, NEW last \in Int
  PROVE  /\ IsFiniteSet(LocalCandidates(Expected, last))
         /\ \A b \in LocalCandidates(Expected, last) :
              IsBundle(b) /\ Numbers(b) /\ \A c \in UsedCameras : current[c] <= b[c]
         /\ BundleTime(Expected) > last /\ BundleTime(Expected) <= window.end
              => Expected \in LocalCandidates(Expected, last)
<1>1. /\ Typed /\ Loaded /\ Framed /\ IsBundle(current) /\ IsBundle(Expected)
      /\ \A c \in UsedCameras : Expected[c] = current[c] + 1
  BY ExpectedIsBundle DEF IInv, CamerasKnown, CandidateSound, Expected
<1>2. /\ IsFiniteSet(Candidates(Expected, FallbackRadius))
      /\ \A b \in Candidates(Expected, FallbackRadius) :
           IsBundle(b) /\ \A c \in UsedCameras : Expected[c] - 1 <= b[c]
      /\ Expected \in Candidates(Expected, FallbackRadius)
  BY <1>1, CandidatesTyped DEF FallbackRadius, IsBundle
<1>3. LocalCandidates(Expected, last) \in SUBSET Candidates(Expected, FallbackRadius)
  BY DEF LocalCandidates
<1>4. IsFiniteSet(LocalCandidates(Expected, last))
  BY <1>2, <1>3, FS_Subset
<1>5. ASSUME NEW b \in LocalCandidates(Expected, last)
      PROVE  IsBundle(b) /\ Numbers(b) /\ \A c \in UsedCameras : current[c] <= b[c]
  <2>1. IsBundle(b) /\ \A c \in UsedCameras : Expected[c] - 1 <= b[c]
    BY <1>2, <1>3
  <2>2. \A c \in UsedCameras : current[c] \in Nat /\ b[c] \in Nat
    BY <1>1, <2>1 DEF IsBundle
  <2>3. \A c \in UsedCameras : current[c] <= b[c]
    BY <1>1, <2>1, <2>2
  <2> QED
    BY <1>1, <2>1, <2>3, BundleTyped
<1>6. BundleTime(Expected) > last => BundleTime(Expected) >= last + 1
  BY <1>1, BundleTyped DEF Numbers
<1> QED
  BY <1>2, <1>4, <1>5, <1>6 DEF LocalCandidates

-----------------------------------------------------------------------------
\* Every step keeps it.
LEMMA StepSafe ==
  ASSUME IInv, [Next]_vars
  PROVE  IInv'
<1>1. CASE LoadSources
  BY <1>1, LoadSafe
<1>2. CASE TrimWindow
  BY <1>2, WindowSafe
<1>3. CASE ChooseInitialBundle
  BY <1>3, InitialSafe
<1>4. CASE PassEnd
  BY <1>4, EndSafe DEF PassEnd, searchVars
<1>5. CASE RunOut
  BY <1>5, RoundSafe DEF IInv, TakenSound, RunOut, inputVars, sourceVars
<1>6. CASE LockedPlusOne
  <2>1. /\ pc = "scan" /\ TakeCandidate /\ ~ Exhausted /\ BundleSpan(Expected) <= SpanWarn
        /\ current' = Expected /\ label' = "locked" /\ pc' = pc
        /\ UNCHANGED <<recording, options, image, scalar, pair, window>>
    BY <1>6 DEF LockedPlusOne, inputVars, sourceVars
  <2>2. IsBundle(Expected) /\ \A c \in UsedCameras : current[c] <= Expected[c]
    BY <2>1, ExpectedIsBundle
  <2> QED
    BY <2>1, <2>2, RoundSafe
<1>7. CASE FallbackSearch
  <2>1. /\ pc = "scan" /\ TakeCandidate /\ ~ Exhausted
        /\ LocalCandidates(Expected, lastTime') # {}
        /\ current' = Best(LocalCandidates(Expected, lastTime')) /\ label' = "fallback" /\ pc' = pc
        /\ UNCHANGED <<recording, options, image, scalar, pair, window>>
    BY <1>7 DEF FallbackSearch, inputVars, sourceVars
  <2>2. lastTime' \in Int /\ recording \in Recording
    BY <2>1, CandidateTaken DEF IInv, Typed
  <2>3. /\ IsFiniteSet(LocalCandidates(Expected, lastTime'))
        /\ \A b \in LocalCandidates(Expected, lastTime') :
             IsBundle(b) /\ Numbers(b) /\ \A c \in UsedCameras : current[c] <= b[c]
    BY <2>1, <2>2, LocalSearch
  <2>4. current' \in LocalCandidates(Expected, lastTime')
    BY <2>1, <2>2, <2>3, BestIsCandidate, Recorded
  <2>5. IsBundle(current') /\ \A c \in UsedCameras : current[c] <= current'[c]
    BY <2>3, <2>4
  <2> QED
    BY <2>1, <2>5, RoundSafe
<1>8. CASE BestEffort
  <2>1. /\ pc = "scan" /\ TakeCandidate /\ ~ Exhausted
        /\ LocalCandidates(Expected, lastTime') = {}
        /\ current' = Expected /\ label' = "best_effort"
        /\ pc' = IF BundleTime(Expected) <= lastTime' THEN "match" ELSE "scan"
        /\ UNCHANGED <<recording, options, image, scalar, pair, window>>
    BY <1>8 DEF BestEffort, inputVars, sourceVars
  <2>2. IsBundle(Expected) /\ \A c \in UsedCameras : current[c] <= Expected[c]
    BY <2>1, ExpectedIsBundle
  <2>3. lastTime' \in Int /\ BundleTime(Expected) \in Int
    BY <2>1, <2>2, CandidateTaken, BundleTyped DEF IInv, CamerasKnown, Numbers
  <2>4. pc' = "scan" => ~ (BundleTime(Expected) <= window.end)
    BY <2>1, <2>3, LocalSearch
  <2> QED
    BY <2>1, <2>2, <2>4, RoundSafe
<1>9. CASE MatchStreams
  BY <1>9, EndSafe DEF MatchStreams, searchVars
<1>10. CASE UNCHANGED vars
  <2>1. UNCHANGED <<recording, options, pc, image, scalar, pair, window, current, label, lastTime, selected>>
    BY <1>10 DEF vars, inputVars, sourceVars, searchVars
  <2>2. Typed' /\ Loaded' /\ NotEmpty' /\ BaseThere' /\ NotBegun'
    BY <2>1 DEF IInv, Typed, Loaded, NotEmpty, BaseThere, BaseMissing, Base, NotBegun, Stamped, LaterStamp
  <2>3. CandidateSound' /\ CamerasKnown'
    BY <2>1, SameMeasures DEF IInv, CandidateSound, CamerasKnown
  <2> QED
    BY <2>1, <2>2, <2>3, NothingChanged DEF IInv
<1> QED
  BY <1>1, <1>2, <1>3, <1>4, <1>5, <1>6, <1>7, <1>8, <1>9, <1>10 DEF Next

(* The invariant of the search holds for every recording and every AlignmentOptions.            *)
THEOREM Invariance == Spec => []IInv
<1>1. Init => IInv
  <2> SUFFICES ASSUME Init PROVE IInv
    OBVIOUS
  <2>1. pc = "load" /\ selected = <<>> /\ lastTime = -1 /\ label = "initial"
        /\ window = [start |-> 0, end |-> 0]
    BY DEF Init
  <2>2. recording \in Recording /\ options \in AlignmentOptions
    BY InputAssumption DEF Init
  <2>3. Typed /\ Loaded /\ NotEmpty /\ CamerasKnown /\ BaseThere /\ NotBegun /\ CandidateSound
    BY <2>1, <2>2 DEF Typed, Loaded, NotEmpty, CamerasKnown, BaseThere, NotBegun, CandidateSound
  <2>4. TakenSound /\ TakenAreBundles /\ BundlesAdvance /\ NoBlindStep
    BY <2>1 DEF TakenSound, TakenAreBundles, BundlesAdvance, NoBlindStep
  <2> QED
    BY <2>3, <2>4 DEF IInv
<1>2. IInv /\ [Next]_vars => IInv'
  BY StepSafe
<1> QED
  BY <1>1, <1>2, PTL DEF Spec

(* Every reachable state is well typed: a candidate is a frame of every camera.                 *)
THEOREM TypeCorrect == Spec => []TypeOK
<1>1. IInv => TypeOK
  BY DEF IInv, Typed, TakenSound, CandidateSound, IsBundle, TypeOK
<1> QED
  BY <1>1, Invariance, PTL

(* For every number of cameras, all stamps and all options: the visual timeline moves forward   *)
(* inside the window and no camera goes back.                                                   *)
THEOREM TimelineAdvances == Spec => []BundlesAdvance
<1>1. IInv => BundlesAdvance
  BY DEF IInv
<1> QED
  BY <1>1, Invariance, PTL

(* For every number of cameras, all stamps and all options: no bundle is taken blindly.         *)
THEOREM NeverBlind == Spec => []NoBlindStep
<1>1. IInv => NoBlindStep
  BY DEF IInv
<1> QED
  BY <1>1, Invariance, PTL

-----------------------------------------------------------------------------
(***************************************************************************)
(* Matching.                                                               *)
(***************************************************************************)
LEMMA PairOfNumbers ==
  ASSUME NEW a \in Int, NEW b \in Int
  PROVE  Max({a, b}) \in {a, b} /\ Min({a, b}) \in {a, b}
         /\ a <= Max({a, b}) /\ b <= Max({a, b}) /\ Min({a, b}) <= a /\ Min({a, b}) <= b
<1> DEFINE S == {a, b}
<1>1. S = {a} \cup {b} /\ S \subseteq Int /\ S # {} /\ a \in S /\ b \in S
  OBVIOUS
<1>2. IsFiniteSet({a}) /\ IsFiniteSet({b})
  BY FS_Singleton
<1>3. IsFiniteSet(S)
  BY <1>1, <1>2, FS_Union
<1> HIDE DEF S
<1>4. /\ Max(S) \in S /\ \A x \in S : x <= Max(S)
      /\ Min(S) \in S /\ \A x \in S : Min(S) <= x
  BY <1>1, <1>3, MaxIs, MinIs
<1> QED
  BY <1>1, <1>4 DEF S

\* match_timestamps never leaves the source.
LEMMA PositionTyped ==
  ASSUME NEW time \in Seq(Int), NEW t \in Int, NEW mode \in Modes
  PROVE  Position(time, t, mode) \in 0..Len(time)
<1> DEFINE right == CountUpTo(time, t)
           left  == Max({right, 1})
           next  == Min({right + 1, Len(time)})
<1>1. right \in 0..Len(time) /\ Len(time) \in Nat
  BY CountTyped
<1>2. left \in {right, 1} /\ 1 <= left
  <2> HIDE DEF right
  <2>1. right \in Int /\ 1 \in Int
    BY <1>1
  <2> QED
    BY <2>1, PairOfNumbers
<1>3. next \in {right + 1, Len(time)} /\ next <= Len(time)
  <2> HIDE DEF right
  <2>1. right + 1 \in Int /\ Len(time) \in Int
    BY <1>1
  <2> QED
    BY <2>1, PairOfNumbers
<1>4. CASE time = <<>>
  BY <1>1, <1>4 DEF Position
<1>5. CASE time # <<>>
  <2>1. Len(time) >= 1
    BY <1>5
  <2>2. left \in 0..Len(time) /\ next \in 0..Len(time)
    BY <1>1, <1>2, <1>3, <2>1
  <2>3. CASE mode = "causal"
    <3>1. Position(time, t, mode) = right
      BY <1>5, <2>3 DEF Position
    <3> QED
      BY <3>1, <1>1
  <2>4. CASE mode = "nearest"
    <3> HIDE DEF right, left, next
    <3>1. Position(time, t, mode) = IF Distance(time[next], t) < Distance(time[left], t) THEN next ELSE left
      BY <1>5, <2>4 DEF Position, right, left, next
    <3> QED
      BY <3>1, <2>2
  <2> QED
    BY <2>3, <2>4 DEF Modes
<1> QED
  BY <1>4, <1>5

\* A valid match names a frame that is near enough.
LEMMA MatchSound ==
  ASSUME NEW time \in Seq(Int), NEW ok, NEW tolerance \in [Modes -> Nat], NEW t \in Int,
         options.mode \in Modes, Match(time, ok, tolerance, t, options.mode).valid
  PROVE  LET p == Match(time, ok, tolerance, t, options.mode).position IN
         p \in DOMAIN time /\ time[p] \in Int /\ Near(time[p], t, tolerance)
<1> DEFINE mode == options.mode
           p    == Position(time, t, mode)
<1>1. p \in 0..Len(time) /\ Len(time) \in Nat /\ DOMAIN time = 1..Len(time)
  BY PositionTyped
<1>2. /\ p >= 1 /\ Distance(time[p], t) <= tolerance[mode] /\ (mode = "causal" => time[p] <= t)
      /\ Match(time, ok, tolerance, t, mode).position = p
  BY DEF Match
<1> HIDE DEF p
<1>3. p \in DOMAIN time /\ time[p] \in Int /\ tolerance[mode] \in Nat
  BY <1>1, <1>2
<1>4. Near(time[p], t, tolerance)
  BY <1>2, <1>3 DEF Near, Distance, Modes
<1> QED
  BY <1>2, <1>3, <1>4

\* The times of the samples are numbers.
LEMMA TargetTyped ==
  ASSUME IInv, pc = "match", NEW k \in DOMAIN TargetTimes
  PROVE  TargetTimes[k] \in Int
<1> DEFINE within(time) ==
             SubSeq(time, CountBefore(time, window.start) + 1, CountUpTo(time, window.end))
           count == (window.end - window.start) \div options.step + 1
<1>1. Typed /\ Loaded /\ ~ BaseMissing /\ pc # "load"
  BY DEF IInv, BaseThere
<1>2. Base \in {"bundle", "pair", "grid", "robot", "single"}
  <2>1. options.base \in Bases
    BY <1>1 DEF Typed, AlignmentOptions
  <2> QED
    BY <2>1 DEF Bases, Base
<1>3. ASSUME NEW time \in Seq(Nat \ {0}), NEW i \in DOMAIN within(time)
      PROVE  within(time)[i] \in Int
  <2>1. CountBefore(time, window.start) \in 0..Len(time) /\ CountUpTo(time, window.end) \in 0..Len(time)
    BY CountTyped
  <2>2. \A j \in CountBefore(time, window.start) + 1 .. CountUpTo(time, window.end) : time[j] \in Nat \ {0}
    BY <2>1
  <2>3. within(time) \in Seq(Nat \ {0})
    BY <2>1, <2>2, SubSeqProperties
  <2> HIDE DEF within
  <2> QED
    BY <1>3, <2>3
<1>4. CASE Base = "bundle"
  <2>1. TargetTimes = [j \in DOMAIN selected |-> BundleTime(selected[j].index)]
    BY <1>4 DEF TargetTimes
  <2>2. NeedsBundle /\ IsBundle(selected[k].index)
    BY <1>4, <2>1 DEF IInv, TakenAreBundles, NeedsBundle
  <2>3. Numbers(selected[k].index)
    BY <1>1, <2>2, BundleTyped DEF IInv, CamerasKnown
  <2> QED
    BY <2>1, <2>3 DEF Numbers
<1>5. CASE Base = "pair"
  <2>1. TargetTimes = within(pair.time)
    BY <1>5 DEF TargetTimes
  <2> QED
    BY <1>1, <1>3, <2>1 DEF Loaded
<1>6. CASE Base = "robot"
  <2>1. TargetTimes = within(scalar["robot"].time)
    BY <1>6 DEF TargetTimes
  <2>2. scalar["robot"].time \in Seq(Nat \ {0})
    BY <1>1, <1>6 DEF Loaded, Stamped, BaseMissing
  <2> QED
    BY <1>3, <2>1, <2>2
<1>7. CASE Base = "single"
  <2>1. TargetTimes = within(image[options.base[2]].time)
    BY <1>7 DEF TargetTimes
  <2>2. image[options.base[2]].time \in Seq(Nat \ {0})
    BY <1>1, <1>7 DEF Loaded, Stamped, BaseMissing
  <2> QED
    BY <1>3, <2>1, <2>2
<1>8. CASE Base = "grid"
  <2>1. TargetTimes = [j \in 1..count |-> window.start + (j - 1) * options.step]
    BY <1>8 DEF TargetTimes
  <2>2. window.start \in Int /\ options.step \in Nat
    BY <1>1 DEF Typed, AlignmentOptions
  <2> HIDE DEF count
  <2>3. k \in Int
    BY <2>1
  <2>4. (k - 1) * options.step \in Int
    BY <2>2, <2>3
  <2> QED
    BY <2>1, <2>2, <2>4
<1> QED
  BY <1>2, <1>4, <1>5, <1>6, <1>7, <1>8

\* Whatever time it is made for, a sample that is marked valid is coherent.
LEMMA SampleSound ==
  ASSUME IInv, pc = "match", NEW t \in Int, Sample(t).valid
  PROVE  SampleCoherent(Sample(t))
<1> DEFINE s == Sample(t)
           p == BundleMatch(t).position
           b == selected[p].index
<1>1. /\ Typed /\ Loaded /\ pc # "load" /\ options.mode \in Modes
      /\ ImageTolerance \in [Modes -> Nat] /\ ScalarTolerance \in [Modes -> Nat]
  BY InputAssumption DEF IInv, Typed, AlignmentOptions
<1>2. /\ s.t = t /\ (NeedsBundle => s.bundle = BundleMatch(t))
      /\ s.topic = [topic \in DOMAIN image |-> TopicMatch(topic, t)]
      /\ s.xense = Match(pair.time, AllValid(pair.time), ImageTolerance, t, options.mode)
      /\ s.scalar = [n \in DOMAIN scalar |->
           Match(scalar[n].time, AllValid(scalar[n].time), ScalarTolerance, t, options.mode)]
  BY DEF Sample
<1>3. /\ NeedsBundle => BundleMatch(t).valid
      /\ s.xense.valid
      /\ \A u \in DOMAIN image : TopicMatch(u, t).valid
      /\ \A n \in DOMAIN scalar :
           Match(scalar[n].time, AllValid(scalar[n].time), ScalarTolerance, t, options.mode).valid
  BY DEF Sample
<1> HIDE DEF s
<1>4. ASSUME NeedsBundle
      PROVE  /\ Framed /\ p \in DOMAIN selected /\ IsBundle(b)
             /\ Near(BundleTime(b), t, ImageTolerance)
  <2> DEFINE time == [k \in DOMAIN selected |-> BundleTime(selected[k].index)]
  <2>1. Framed /\ selected \in Seq(Rows) /\ \A k \in DOMAIN selected : IsBundle(selected[k].index)
    BY <1>4 DEF IInv, CamerasKnown, TakenSound, TakenAreBundles
  <2>2. \A k \in DOMAIN selected : BundleTime(selected[k].index) \in Int
    BY <1>1, <2>1, BundleTyped DEF Numbers
  <2>3. time \in Seq(Int)
    <3> DEFINE n == Len(selected)
    <3>1. n \in Nat /\ DOMAIN selected = 1..n
      BY <2>1
    <3> HIDE DEF n
    <3>2. time \in [1..n -> Int]
      BY <2>2, <3>1
    <3> HIDE DEF time
    <3> QED
      BY <3>1, <3>2
  <2>4. BundleMatch(t) = Match(time, RowValid, ImageTolerance, t, options.mode)
    BY DEF BundleMatch
  <2>5. DOMAIN time = DOMAIN selected /\ \A k \in DOMAIN selected : time[k] = BundleTime(selected[k].index)
    OBVIOUS
  <2> HIDE DEF time
  <2>6. p \in DOMAIN time /\ Near(time[p], t, ImageTolerance)
    BY <1>1, <1>3, <1>4, <2>3, <2>4, MatchSound
  <2> QED
    BY <2>1, <2>5, <2>6
<1>5. ASSUME NeedsBundle, NEW u \in DOMAIN image
      PROVE  image[u].time[s.topic[u].position] = Frames(u[1])[b[u[1]]]
  <2>1. p >= 1
    <3>1. selected \in Seq(Rows)
      BY DEF IInv, TakenSound
    <3> QED
      BY <1>4, <1>5, <3>1
  <2> DEFINE m == TopicMatch(u, t)
  <2>2. m.valid /\ s.topic[u] = m
    BY <1>2, <1>3
  <2>3. m.position = BundleFrame(b, u) /\ ExactStamp(b, u)
    BY <1>5, <2>1, <2>2 DEF TopicMatch
  <2> QED
    BY <2>2, <2>3 DEF ExactStamp
<1>6. ASSUME NeedsBundle, NEW u \in DOMAIN image
      PROVE  image[u].time[s.topic[u].position] \in (BundleTime(b) - BundleSpan(b))..BundleTime(b)
  <2>1. u[1] \in UsedCameras
    BY <1>1 DEF Loaded, UsedCameras
  <2>2. Frames(u[1])[b[u[1]]] \in (BundleTime(b) - BundleSpan(b))..BundleTime(b)
    BY <1>1, <1>4, <1>6, <2>1, BundleTyped
  <2> QED
    BY <1>5, <1>6, <2>2
<1>7. ASSUME ~ NeedsBundle, NEW u \in DOMAIN image
      PROVE  Near(image[u].time[s.topic[u].position], t, ImageTolerance)
  <2> DEFINE m == Match(image[u].time, AllValid(image[u].time), ImageTolerance, t, options.mode)
  <2>1. TopicMatch(u, t) = m
    BY <1>7 DEF TopicMatch
  <2>2. m.valid /\ s.topic[u] = m
    BY <1>2, <1>3, <2>1
  <2>3. image[u].time \in Seq(Int)
    BY <1>1 DEF Loaded, Stamped
  <2> QED
    BY <1>1, <2>2, <2>3, MatchSound
<1>8. ASSUME NEW n \in DOMAIN scalar
      PROVE  Near(scalar[n].time[s.scalar[n].position], t, ScalarTolerance)
  <2> DEFINE m == Match(scalar[n].time, AllValid(scalar[n].time), ScalarTolerance, t, options.mode)
  <2>1. m.valid /\ s.scalar[n] = m
    BY <1>2, <1>3
  <2>2. scalar[n].time \in Seq(Int)
    BY <1>1 DEF Loaded, Stamped
  <2> QED
    BY <1>1, <2>1, <2>2, MatchSound
<1>9. LET row == recording.xense[pair.index[s.xense.position]]
      IN  Near(Max({row[1], row[2]}), t, ImageTolerance)
  <2> DEFINE q == s.xense.position
  <2>1. pair.time \in Seq(Int) /\ LaterStamp(recording.xense, pair)
    BY <1>1 DEF Loaded
  <2>2. q \in DOMAIN pair.time /\ Near(pair.time[q], t, ImageTolerance)
    BY <1>1, <1>2, <1>3, <2>1, MatchSound
  <2> QED
    BY <2>1, <2>2 DEF LaterStamp
<1>10. ASSUME NeedsBundle, NEW u \in DOMAIN image, NEW v \in DOMAIN image, u[1] = v[1]
       PROVE  image[u].time[s.topic[u].position] = image[v].time[s.topic[v].position]
  BY <1>5, <1>10
<1>11. NeedsBundle => s.bundle.position = p
  BY <1>2
<1> HIDE DEF p, b
<1>12. SampleCoherent(s)
  BY <1>2, <1>4, <1>6, <1>7, <1>8, <1>9, <1>10, <1>11 DEF SampleCoherent, b
<1> QED
  BY <1>12 DEF s

\* Samples are made once, by the last step.
Coherent == (pc # "done" => samples = <<>>) /\ ValidSampleIsCoherent

\* Whether a sample is coherent depends on the input, the sources and the bundles only.
LEMMA SameSample ==
  ASSUME UNCHANGED <<recording, options, image, scalar, pair, selected>>, NEW k \in DOMAIN samples'
  PROVE  SampleCoherent(samples[k])' <=> SampleCoherent(samples'[k])
<1> DEFINE b == selected[samples[k].bundle.position].index
<1>1. NeedsBundle' <=> NeedsBundle
  BY DEF NeedsBundle, Base
<1>2. /\ BundleTime(b)' = BundleTime(b')
      /\ BundleSpan(b)' = BundleSpan(b')
  BY DEF BundleTime, BundleSpan, Stamps, Frames, Color, UsedCameras
<1>3. b' = selected[samples'[k].bundle.position].index
  OBVIOUS
<1> QED
  BY <1>1, <1>2, <1>3 DEF SampleCoherent, Near

\* Every step keeps the samples coherent.
LEMMA CoherentStep ==
  ASSUME IInv, Coherent, [Next]_vars
  PROVE  Coherent'
<1>1. CASE samples' = <<>>
  BY <1>1 DEF Coherent, ValidSampleIsCoherent
<1>2. CASE UNCHANGED vars
  <2>1. UNCHANGED <<recording, options, image, scalar, pair, selected>> /\ UNCHANGED <<pc, samples>>
    BY <1>2 DEF vars, inputVars, sourceVars, searchVars
  <2>2. ValidSampleIsCoherent'
    BY <2>1, SameSample DEF Coherent, ValidSampleIsCoherent
  <2> QED
    BY <2>1, <2>2 DEF Coherent
<1>3. CASE MatchStreams /\ pc' = "done"
  <2>1. /\ pc = "match" /\ samples' = [k \in DOMAIN TargetTimes |-> Sample(TargetTimes[k])]
        /\ UNCHANGED <<recording, options, image, scalar, pair>>
    BY <1>3 DEF MatchStreams, inputVars, sourceVars
  <2>2. ASSUME NEW k \in DOMAIN TargetTimes, samples'[k].valid
        PROVE  SampleCoherent(samples'[k])
    <3>1. samples'[k] = Sample(TargetTimes[k]) /\ TargetTimes[k] \in Int
      BY <2>1, TargetTyped
    <3> QED
      BY <2>1, <2>2, <3>1, SampleSound
  <2>3. DOMAIN samples' = DOMAIN TargetTimes
    BY <2>1
  <2>4. UNCHANGED selected
    BY <1>3 DEF MatchStreams, searchVars
  <2>5. ValidSampleIsCoherent'
    BY <2>1, <2>2, <2>3, <2>4, SameSample DEF ValidSampleIsCoherent
  <2> QED
    BY <1>3, <2>5 DEF Coherent
<1> QED
  BY <1>1, <1>2, <1>3
     DEF Coherent, Next, LoadSources, TrimWindow, ChooseInitialBundle, PassEnd, RunOut,
         LockedPlusOne, FallbackSearch, BestEffort, MatchStreams

(* For every number of cameras, all stamps and all options: a sample marked valid shows one     *)
(* stamp per camera, no camera frame outside its bundle, and the bundle, the pair and every     *)
(* other stream within the tolerance of its time, in causal mode none of them later than it.    *)
THEOREM SamplesCoherent == Spec => []ValidSampleIsCoherent
<1>1. Init => Coherent
  BY DEF Init, Coherent, ValidSampleIsCoherent
<1>2. IInv /\ Coherent /\ [Next]_vars => Coherent'
  BY CoherentStep
<1>3. Coherent => ValidSampleIsCoherent
  BY DEF Coherent
<1> QED
  BY <1>1, <1>2, <1>3, Invariance, PTL DEF Spec

-----------------------------------------------------------------------------
(***************************************************************************)
(* Every sample names the right frame.  Sources are sorted, so the frames  *)
(* that searchsorted counts are the first ones.                            *)
(***************************************************************************)
\* Stamps that do not decrease.
Ascending(time) == \A i, j \in DOMAIN time : i <= j => time[i] <= time[j]

\* The stamps of a source ascend: a frame of a higher rank has no earlier stamp.
LEMMA SortedAscending ==
  ASSUME NEW raw \in Seq(Nat)
  PROVE  Ascending(SortedValid(raw).time)
<1> DEFINE P == Positive(raw)
           n == Cardinality(P)
           order == StableOrder(raw)
<1>1. IsFiniteSet(P) /\ n \in Nat /\ \A i \in P : raw[i] \in Nat /\ i \in Nat
  BY RankIsPosition DEF Positive
<1>2. order \in [1..n -> P] /\ \A k \in 1..n : Rank(raw, order[k]) = k
  BY RankIsPosition DEF StableOrder
<1>3. SortedValid(raw).time = [k \in 1..n |-> raw[order[k]]]
  BY <1>2 DEF SortedValid
<1>4. ASSUME NEW i \in P, NEW j \in P, raw[j] < raw[i]
      PROVE  Rank(raw, j) < Rank(raw, i)
  <2>1. Below(raw, j) \in SUBSET Below(raw, i) /\ i \in Below(raw, i) /\ i \notin Below(raw, j)
    BY <1>1, <1>4 DEF Below
  <2>2. IsFiniteSet(Below(raw, i))
    BY <1>1, FS_Subset DEF Below
  <2>3. /\ Cardinality(Below(raw, j)) <= Cardinality(Below(raw, i))
        /\ Cardinality(Below(raw, j)) # Cardinality(Below(raw, i))
    BY <2>1, <2>2, FS_Subset
  <2>4. Cardinality(Below(raw, j)) \in Nat /\ Cardinality(Below(raw, i)) \in Nat
    BY <2>1, <2>2, FS_Subset, FS_CardinalityType
  <2> QED
    BY <2>3, <2>4 DEF Below, Rank
<1>5. ASSUME NEW k \in 1..n, NEW l \in 1..n, k <= l
      PROVE  raw[order[k]] <= raw[order[l]]
  <2>1. order[k] \in P /\ order[l] \in P
    BY <1>2
  <2>2. ~ (Rank(raw, order[l]) < Rank(raw, order[k]))
    BY <1>1, <1>2, <1>5
  <2>3. ~ (raw[order[l]] < raw[order[k]])
    BY <1>4, <2>1, <2>2
  <2> QED
    BY <1>1, <2>1, <2>3
<1> HIDE DEF n, order
<1> QED
  BY <1>3, <1>5 DEF Ascending

\* The rows of the pair sensor ascend too.
LEMMA PairAscending ==
  ASSUME NEW rows \in Seq(Nat \X Nat)
  PROVE  Ascending(PairSource(rows).time)
<1> DEFINE raw == [i \in DOMAIN rows |-> Max({rows[i][1], rows[i][2]})]
<1>1. ASSUME NEW i \in DOMAIN rows PROVE raw[i] \in Nat
  <2>1. rows[i][1] \in Nat /\ rows[i][2] \in Nat
    OBVIOUS
  <2>2. rows[i][1] \in Int /\ rows[i][2] \in Int
    BY <2>1
  <2>3. Max({rows[i][1], rows[i][2]}) \in {rows[i][1], rows[i][2]}
    BY <2>2, PairOfNumbers
  <2> QED
    BY <2>1, <2>3
<1>2. raw \in Seq(Nat)
  <2> DEFINE n == Len(rows)
  <2>1. DOMAIN rows = 1..n /\ n \in Nat /\ DOMAIN raw = DOMAIN rows /\ raw = [i \in DOMAIN raw |-> raw[i]]
    OBVIOUS
  <2> HIDE DEF raw, n
  <2>2. raw \in [1..n -> Nat]
    BY <1>1, <2>1
  <2> QED
    BY <2>1, <2>2
<1>3. PairSource(rows) = SortedValid(raw)
  BY DEF PairSource
<1> HIDE DEF raw
<1> QED
  BY <1>2, <1>3, SortedAscending

\* A set of positions that has with each one all before it is an initial segment.
LEMMA InitialSegment ==
  ASSUME NEW n \in Nat, NEW S \in SUBSET (1..n), \A i \in S : \A j \in 1..i : j \in S
  PROVE  S = 1..Cardinality(S)
<1>1. IsFiniteSet(1..n) /\ IsFiniteSet(S) /\ S \in SUBSET Int
  <2>1. IsFiniteSet(1..n)
    BY FS_Interval
  <2>2. IsFiniteSet(S)
    BY <2>1, FS_Subset
  <2> QED
    BY <2>1, <2>2
<1>2. CASE S = {}
  BY <1>2, FS_EmptySet
<1>3. CASE S # {}
  <2>1. PICK m \in S : \A x \in S : x <= m
    BY <1>1, <1>3, MaxIs
  <2>2. m \in Nat /\ \A j \in 1..m : j \in S
    BY <2>1
  <2>3. \A j \in S : j \in 1..m
    BY <2>1, <2>2
  <2>4. S = 1..m
    BY <2>2, <2>3
  <2>5. Cardinality(1..m) = m
    BY <2>2, FS_Interval
  <2> QED
    BY <2>4, <2>5
<1> QED
  BY <1>2, <1>3

\* searchsorted separates the frames before, or not after, a time from the others.
LEMMA CountSeparates ==
  ASSUME NEW time \in Seq(Int), Ascending(time), NEW t \in Int
  PROVE  \A i \in DOMAIN time : /\ time[i] <= t <=> i <= CountUpTo(time, t)
                                /\ time[i] < t <=> i <= CountBefore(time, t)
<1> DEFINE n == Len(time)
           upTo == {i \in DOMAIN time : time[i] <= t}
           before == {i \in DOMAIN time : time[i] < t}
<1>1. DOMAIN time = 1..n /\ n \in Nat /\ \A i \in 1..n : time[i] \in Int
  OBVIOUS
<1>2. \A i, j \in 1..n : j <= i => time[j] <= time[i]
  BY <1>1 DEF Ascending
<1>3. upTo = 1..Cardinality(upTo)
  <2>1. upTo \in SUBSET (1..n) /\ \A i \in upTo : \A j \in 1..i : j \in upTo
    BY <1>1, <1>2
  <2> HIDE DEF upTo, n
  <2> QED
    BY <1>1, <2>1, InitialSegment
<1>4. before = 1..Cardinality(before)
  <2>1. before \in SUBSET (1..n) /\ \A i \in before : \A j \in 1..i : j \in before
    BY <1>1, <1>2
  <2> HIDE DEF before, n
  <2> QED
    BY <1>1, <2>1, InitialSegment
<1>5. CountUpTo(time, t) = Cardinality(upTo) /\ CountBefore(time, t) = Cardinality(before)
  BY DEF CountUpTo, CountBefore
<1>6. CountUpTo(time, t) \in Nat /\ CountBefore(time, t) \in Nat
  BY CountTyped
<1> SUFFICES ASSUME NEW i \in DOMAIN time
             PROVE  /\ time[i] <= t <=> i <= CountUpTo(time, t)
                    /\ time[i] < t <=> i <= CountBefore(time, t)
  OBVIOUS
<1>7. i \in Nat /\ 1 <= i
  BY <1>1
<1>8. time[i] <= t <=> i \in upTo
  OBVIOUS
<1>9. time[i] < t <=> i \in before
  OBVIOUS
<1> HIDE DEF upTo, before
<1>10. i \in upTo <=> i <= CountUpTo(time, t)
  BY <1>3, <1>5, <1>6, <1>7
<1>11. i \in before <=> i <= CountBefore(time, t)
  BY <1>4, <1>5, <1>6, <1>7
<1> QED
  BY <1>8, <1>9, <1>10, <1>11

\* match_timestamps: the last frame not after a time, or one that none is closer than.
LEMMA PositionRight ==
  ASSUME NEW time \in Seq(Int), time # <<>>, Ascending(time),
         NEW t \in Int, time[1] <= t, NEW mode \in Modes
  PROVE  LET p == Position(time, t, mode) IN
         /\ p \in DOMAIN time
         /\ mode = "causal"  => time[p] <= t /\ \A i \in DOMAIN time : time[i] <= t => time[i] <= time[p]
         /\ mode = "nearest" => \A i \in DOMAIN time : Distance(time[p], t) <= Distance(time[i], t)
<1> DEFINE right == CountUpTo(time, t)
           left  == Max({right, 1})
           next  == Min({right + 1, Len(time)})
           p     == Position(time, t, mode)
<1>1. right \in 0..Len(time) /\ Len(time) \in Nat /\ Len(time) >= 1 /\ DOMAIN time = 1..Len(time)
  BY CountTyped
<1>2. \A i \in DOMAIN time : time[i] <= t <=> i <= right
  BY CountSeparates
<1>3. right >= 1 /\ right <= Len(time) /\ right \in Int /\ Len(time) \in Int
  BY <1>1, <1>2
<1>4. left = right
  <2> HIDE DEF right
  <2>1. right \in Int /\ 1 \in Int
    BY <1>1
  <2>2. left \in {right, 1} /\ right <= left
    BY <2>1, PairOfNumbers
  <2> QED
    BY <1>1, <1>3, <2>2
<1>5. (right < Len(time) => next = right + 1) /\ (right = Len(time) => next = right)
  <2> HIDE DEF right
  <2>1. right \in Int /\ right + 1 \in Int /\ Len(time) \in Int
    BY <1>1
  <2>2. next \in {right + 1, Len(time)} /\ next <= right + 1 /\ next <= Len(time)
    BY <2>1, PairOfNumbers
  <2> HIDE DEF next
  <2>3. ASSUME right < Len(time) PROVE next = right + 1
    BY <2>1, <2>2, <2>3
  <2>4. ASSUME right = Len(time) PROVE next = right
    BY <2>1, <2>2, <2>4
  <2> QED
    BY <2>3, <2>4
<1>6. p = IF mode = "causal" THEN right
          ELSE IF Distance(time[next], t) < Distance(time[left], t) THEN next ELSE left
  BY DEF Position, Modes
<1> HIDE DEF right, left, next, p
<1>7. right \in DOMAIN time /\ next \in DOMAIN time /\ p \in DOMAIN time
  <2>1. right \in DOMAIN time
    BY <1>1, <1>3
  <2>2. next \in DOMAIN time
    <3>1. CASE right < Len(time)
      <4>1. next = right + 1 /\ right + 1 \in 1..Len(time)
        BY <1>3, <1>5, <3>1
      <4> QED
        BY <1>1, <4>1
    <3>2. CASE right = Len(time)
      BY <1>5, <2>1, <3>2
    <3> QED
      BY <1>3, <3>1, <3>2
  <2> QED
    BY <1>4, <1>6, <2>1, <2>2
<1>8. \A i \in DOMAIN time : time[i] \in Int
  OBVIOUS
<1>9. \A i \in DOMAIN time : i <= right => time[i] <= time[right]
  BY <1>7 DEF Ascending
<1>10. \A i \in DOMAIN time : ~ (i <= right) => time[next] <= time[i] /\ next = right + 1 /\ ~ (time[next] <= t)
  <2> SUFFICES ASSUME NEW i \in DOMAIN time, ~ (i <= right)
               PROVE  time[next] <= time[i] /\ next = right + 1 /\ ~ (time[next] <= t)
    OBVIOUS
  <2>1. i \in Int /\ i <= Len(time)
    BY <1>1
  <2>2. right < Len(time) /\ right + 1 <= i /\ ~ (right + 1 <= right)
    BY <1>3, <2>1
  <2> QED
    BY <1>2, <1>5, <1>7, <2>2 DEF Ascending
<1>11. time[right] <= t
  BY <1>1, <1>2, <1>7
<1>12. ASSUME mode = "causal"
       PROVE  time[p] <= t /\ \A i \in DOMAIN time : time[i] <= t => time[i] <= time[p]
  BY <1>2, <1>6, <1>9, <1>11, <1>12
<1>13. ASSUME mode = "nearest", NEW i \in DOMAIN time
       PROVE  Distance(time[p], t) <= Distance(time[i], t)
  <2>1. p = IF Distance(time[next], t) < Distance(time[right], t) THEN next ELSE right
    BY <1>4, <1>6, <1>13
  <2>2. /\ Distance(time[next], t) \in Int /\ Distance(time[right], t) \in Int
        /\ Distance(time[i], t) \in Int
    BY <1>7, <1>8 DEF Distance
  <2>3. Distance(time[p], t) <= Distance(time[next], t) /\ Distance(time[p], t) <= Distance(time[right], t)
    BY <2>1, <2>2
  <2>4. Distance(time[p], t) \in Int
    BY <2>1, <2>2
  <2>5. CASE i <= right
    <3>1. Distance(time[right], t) <= Distance(time[i], t)
      BY <1>7, <1>8, <1>9, <1>11, <2>5 DEF Distance
    <3> QED
      BY <2>2, <2>3, <2>4, <3>1
  <2>6. CASE ~ (i <= right)
    <3>1. time[next] <= time[i] /\ ~ (time[next] <= t)
      BY <1>10, <2>6
    <3>2. Distance(time[next], t) <= Distance(time[i], t)
      BY <1>7, <1>8, <3>1 DEF Distance
    <3> QED
      BY <2>2, <2>3, <2>4, <3>2
  <2> QED
    BY <2>5, <2>6
<1> QED
  BY <1>7, <1>12, <1>13 DEF p

\* A time that is in the source is found at its own place.
LEMMA PositionOfItself ==
  ASSUME NEW time \in Seq(Int), \A i, j \in DOMAIN time : i < j => time[i] < time[j],
         NEW k \in DOMAIN time, NEW mode \in Modes
  PROVE  Position(time, time[k], mode) = k
<1> DEFINE t == time[k]
           p == Position(time, t, mode)
<1>1. /\ DOMAIN time = 1..Len(time) /\ Len(time) \in Nat /\ time # <<>> /\ 1 \in DOMAIN time
      /\ \A i \in DOMAIN time : time[i] \in Int
  OBVIOUS
<1>2. Ascending(time) /\ time[1] <= t
  BY <1>1 DEF Ascending
<1>3. /\ p \in DOMAIN time
      /\ mode = "causal"  => time[p] <= t /\ \A i \in DOMAIN time : time[i] <= t => time[i] <= time[p]
      /\ mode = "nearest" => \A i \in DOMAIN time : Distance(time[p], t) <= Distance(time[i], t)
  BY <1>1, <1>2, PositionRight
<1> HIDE DEF p
<1>4. time[p] = t
  <2>1. CASE mode = "causal"
    BY <1>1, <1>3, <2>1
  <2>2. CASE mode = "nearest"
    <3>1. Distance(time[p], t) <= Distance(t, t)
      BY <1>3, <2>2
    <3> QED
      BY <1>1, <1>3, <3>1 DEF Distance
  <2> QED
    BY <2>1, <2>2 DEF Modes
<1>5. p = k
  BY <1>1, <1>3, <1>4
<1> QED
  BY <1>5 DEF p

-----------------------------------------------------------------------------
(***************************************************************************)
(* What the samples rest on, besides IInv.                                 *)
(***************************************************************************)
\* Once loaded, the sources are sorted.
Sorted ==
  pc # "load" =>
    /\ \A u \in DOMAIN image : Ascending(image[u].time)
    /\ \A n \in DOMAIN scalar : Ascending(scalar[n].time)
    /\ Ascending(pair.time)

\* In the window every scalar stream has begun.
Started ==
  pc \in {"initial", "scan", "match"} => \A n \in DOMAIN scalar : First(scalar[n].time) <= window.start

\* The bundles' times increase, also from one to a later one.
Increasing ==
  \A i, j \in DOMAIN selected : i < j => BundleTime(selected[i].index) < BundleTime(selected[j].index)

\* The invariant of the samples.
Right == Sorted /\ Started /\ Increasing /\ (pc # "done" => samples = <<>>) /\ MatchIsRight

\* Loading sorts, and nothing changes the sources afterwards.
LEMMA SortedStep ==
  ASSUME IInv, Sorted, [Next]_vars
  PROVE  Sorted'
<1>1. CASE LoadSources
  <2>1. recording \in Recording
    BY DEF IInv, Typed
  <2>2. ASSUME NEW u \in DOMAIN image' PROVE Ascending(image'[u].time)
    <3>1. u \in recording.required /\ image'[u] = SortedValid(recording.image[u])
      BY <1>1, <2>2 DEF LoadSources
    <3>2. recording.image[u] \in Seq(Nat)
      BY <2>1, <3>1 DEF Recording
    <3> QED
      BY <3>1, <3>2, SortedAscending
  <2>3. ASSUME NEW n \in DOMAIN scalar' PROVE Ascending(scalar'[n].time)
    <3>1. n \in Scalars /\ scalar'[n] = SortedValid(recording.scalar[n])
      BY <1>1, <2>3 DEF LoadSources
    <3>2. recording.scalar[n] \in Seq(Nat)
      BY <2>1, <3>1 DEF Recording
    <3> QED
      BY <3>1, <3>2, SortedAscending
  <2>4. Ascending(pair'.time)
    <3>1. recording.xense \in Seq(Nat \X Nat) /\ pair' = PairSource(recording.xense)
      BY <1>1, <2>1 DEF Recording, LoadSources
    <3> QED
      BY <3>1, PairAscending
  <2> QED
    BY <2>2, <2>3, <2>4 DEF Sorted, Ascending
<1>2. CASE ~ LoadSources
  <2>1. UNCHANGED <<image, scalar, pair>> /\ (pc # "load" \/ pc' = "load")
    BY <1>2 DEF Next, TrimWindow, ChooseInitialBundle, PassEnd, RunOut, LockedPlusOne, FallbackSearch,
       BestEffort, MatchStreams, vars, sourceVars
  <2> QED
    BY <2>1 DEF Sorted, Ascending
<1> QED
  BY <1>1, <1>2

\* The window starts when the last stream does, or later.
LEMMA StartedStep ==
  ASSUME IInv, Started, [Next]_vars
  PROVE  Started'
<1>1. CASE TrimWindow
  <2>1. Typed /\ Loaded /\ NotEmpty /\ pc = "window" /\ scalar' = scalar
    BY <1>1 DEF IInv, TrimWindow, sourceVars
  <2>2. \A x \in Firsts : x \in Int /\ x <= Max(Firsts) /\ Max(Firsts) \in Int
    BY <2>1, StreamsFinite, MaxIs
  <2>3. window'.start = Max(Firsts) + options.startTrim
    BY <1>1 DEF TrimWindow, Times, Firsts
  <2>4. options.startTrim \in Nat
    BY <2>1 DEF Typed, AlignmentOptions
  <2>5. ASSUME NEW n \in DOMAIN scalar PROVE First(scalar[n].time) \in Firsts
    BY DEF Firsts, Times
  <2>6. ASSUME NEW n \in DOMAIN scalar PROVE First(scalar[n].time) <= window'.start
    <3>1. First(scalar[n].time) \in Int /\ First(scalar[n].time) <= Max(Firsts) /\ Max(Firsts) \in Int
      BY <2>2, <2>5
    <3> QED
      BY <2>3, <2>4, <3>1
  <2> QED
    BY <2>1, <2>6 DEF Started, First
<1>2. CASE LoadSources
  BY <1>2 DEF LoadSources, Started
<1>3. CASE ~ TrimWindow /\ ~ LoadSources
  <2>1. /\ UNCHANGED <<scalar, window>>
        /\ pc' \in {"initial", "scan", "match"} => pc \in {"initial", "scan", "match"}
    BY <1>3 DEF Next, ChooseInitialBundle, PassEnd, RunOut, LockedPlusOne, FallbackSearch, BestEffort,
       MatchStreams, vars, sourceVars
  <2> QED
    BY <2>1 DEF Started, First
<1> QED
  BY <1>1, <1>2, <1>3

\* A bundle is appended only if its time is later than that of the last.
LEMMA IncreasingStep ==
  ASSUME IInv, Increasing, [Next]_vars
  PROVE  Increasing'
<1>1. CASE UNCHANGED <<recording, image, selected>>
  <2> SUFFICES ASSUME NEW i \in DOMAIN selected, NEW j \in DOMAIN selected, i < j
               PROVE  BundleTime(selected[i].index)' < BundleTime(selected[j].index)'
    BY <1>1 DEF Increasing
  <2>1. BundleTime(selected[i].index)' = BundleTime(selected[i].index)
    BY <1>1 DEF BundleTime, Stamps, Frames, Color, UsedCameras
  <2>2. BundleTime(selected[j].index)' = BundleTime(selected[j].index)
    BY <1>1 DEF BundleTime, Stamps, Frames, Color, UsedCameras
  <2> QED
    BY <2>1, <2>2 DEF Increasing
<1>2. CASE selected' = <<>>
  BY <1>2 DEF Increasing
<1>3. CASE pc = "scan" /\ TakeCandidate /\ UNCHANGED <<recording, options, image, scalar, pair, window>>
  <2> DEFINE t == BundleTime(current)
             row == [index |-> current, label |-> label]
  <2>1. CASE UNCHANGED selected
    BY <1>1, <1>3, <2>1
  <2>2. CASE t > lastTime
    <3>1. /\ Typed /\ Loaded /\ Framed /\ IsBundle(current) /\ TakenSound /\ selected \in Seq(Rows)
          /\ \A k \in DOMAIN selected : IsBundle(selected[k].index)
      BY <1>3 DEF IInv, CamerasKnown, CandidateSound, TakenAreBundles, TakenSound
    <3>2. t \in Int /\ lastTime \in Int
      BY <1>3, <3>1, BundleTyped DEF Numbers, Typed
    <3>3. \A k \in DOMAIN selected : BundleTime(selected[k].index) \in Int
      BY <1>3, <3>1, BundleTyped DEF Numbers
    <3>4. selected' = Append(selected, row)
      BY <1>3, <2>2 DEF TakeCandidate
    <3>5. /\ Len(selected) \in Nat /\ DOMAIN selected = 1..Len(selected)
          /\ DOMAIN selected' = 1..Len(selected) + 1 /\ selected'[Len(selected) + 1].index = current
          /\ \A k \in DOMAIN selected : selected'[k] = selected[k]
      <4> HIDE DEF row
      <4>1. /\ Len(selected) \in Nat /\ DOMAIN selected = 1..Len(selected)
            /\ DOMAIN selected' = 1..Len(selected) + 1 /\ selected'[Len(selected) + 1] = row
            /\ \A k \in DOMAIN selected : selected'[k] = selected[k]
        BY <3>1, <3>4
      <4> QED
        BY <4>1 DEF row
    <3>6. ASSUME NEW i \in DOMAIN selected PROVE BundleTime(selected[i].index) <= lastTime
      <4>1. Len(selected) \in DOMAIN selected /\ lastTime = BundleTime(selected[Len(selected)].index)
        BY <3>1, <3>5 DEF TakenSound
      <4>2. i < Len(selected) => BundleTime(selected[i].index) < lastTime
        BY <4>1 DEF Increasing
      <4>3. i = Len(selected) \/ i < Len(selected)
        BY <3>5
      <4> QED
        BY <3>2, <3>3, <4>1, <4>2, <4>3
    <3>7. ASSUME NEW i \in DOMAIN selected', NEW j \in DOMAIN selected', i < j
          PROVE  BundleTime(selected'[i].index) < BundleTime(selected'[j].index)
      <4>1. i \in DOMAIN selected /\ selected'[i] = selected[i]
        BY <3>5, <3>7
      <4>2. CASE j \in DOMAIN selected
        BY <3>5, <3>7, <4>1, <4>2 DEF Increasing
      <4>3. CASE j = Len(selected) + 1
        <5>1. selected'[j].index = current
          BY <3>5, <4>3
        <5>2. BundleTime(selected[i].index) < t
          BY <2>2, <3>2, <3>3, <3>6, <4>1
        <5> QED
          BY <4>1, <5>1, <5>2
      <4> QED
        BY <3>5, <4>2, <4>3
    <3> SUFFICES ASSUME NEW i \in DOMAIN selected', NEW j \in DOMAIN selected', i < j
                 PROVE  BundleTime(selected[i].index)' < BundleTime(selected[j].index)'
      BY DEF Increasing
    <3>8. BundleTime(selected[i].index)' = BundleTime(selected'[i].index)
      BY <1>3 DEF BundleTime, Stamps, Frames, Color, UsedCameras
    <3>9. BundleTime(selected[j].index)' = BundleTime(selected'[j].index)
      BY <1>3 DEF BundleTime, Stamps, Frames, Color, UsedCameras
    <3> QED
      BY <3>7, <3>8, <3>9
  <2> QED
    BY <1>3, <2>1, <2>2 DEF TakeCandidate
<1>4. CASE LoadSources
  BY <1>2, <1>4 DEF IInv, NotBegun, LoadSources, searchVars
<1>5. CASE TrimWindow \/ ChooseInitialBundle \/ PassEnd \/ MatchStreams
  BY <1>1, <1>5 DEF TrimWindow, ChooseInitialBundle, PassEnd, MatchStreams, inputVars, sourceVars, searchVars
<1>6. CASE RunOut \/ LockedPlusOne \/ FallbackSearch \/ BestEffort
  BY <1>3, <1>6 DEF RunOut, LockedPlusOne, FallbackSearch, BestEffort, inputVars, sourceVars
<1>7. CASE UNCHANGED vars
  BY <1>1, <1>7 DEF vars, inputVars, sourceVars, searchVars
<1> QED
  BY <1>4, <1>5, <1>6, <1>7 DEF Next

\* No sample is made for a time before the window.
LEMMA TargetsLate ==
  ASSUME IInv, Right, pc = "match", NEW k \in DOMAIN TargetTimes
  PROVE  window.start <= TargetTimes[k]
<1> DEFINE within(time) ==
             SubSeq(time, CountBefore(time, window.start) + 1, CountUpTo(time, window.end))
           count == (window.end - window.start) \div options.step + 1
<1>1. Typed /\ Loaded /\ Sorted /\ ~ BaseMissing /\ pc # "load" /\ window.start \in Int
  BY DEF IInv, BaseThere, Right, Typed
<1>2. Base \in {"bundle", "pair", "grid", "robot", "single"}
  <2>1. options.base \in Bases
    BY <1>1 DEF Typed, AlignmentOptions
  <2> QED
    BY <2>1 DEF Bases, Base
<1>3. ASSUME NEW time \in Seq(Nat \ {0}), Ascending(time), NEW i \in DOMAIN within(time)
      PROVE  window.start <= within(time)[i]
  <2> DEFINE a == CountBefore(time, window.start)
             b == CountUpTo(time, window.end)
  <2>1. a \in 0..Len(time) /\ b \in 0..Len(time) /\ Len(time) \in Nat
    BY CountTyped
  <2>2. time \in Seq(Int) /\ \A j \in DOMAIN time : time[j] \in Int
    OBVIOUS
  <2>3. \A j \in DOMAIN time : time[j] < window.start <=> j <= a
    BY <1>1, <1>3, <2>2, CountSeparates
  <2> HIDE DEF a, b
  <2>4. within(time) = SubSeq(time, a + 1, b)
    BY DEF a, b
  <2>5. a \in Int /\ a + 1 \in Int /\ b \in Int /\ \A j \in a + 1 .. b : time[j] \in Nat \ {0}
    BY <2>1
  <2>6. /\ SubSeq(time, a + 1, b) \in Seq(Nat \ {0})
        /\ Len(SubSeq(time, a + 1, b)) = IF a + 1 <= b THEN b - (a + 1) + 1 ELSE 0
        /\ \A j \in 1 .. b - (a + 1) + 1 : SubSeq(time, a + 1, b)[j] = time[a + 1 + j - 1]
    BY <2>5, SubSeqProperties
  <2> HIDE DEF within
  <2>7. i \in 1..Len(SubSeq(time, a + 1, b))
    BY <1>3, <2>4, <2>6
  <2>8. i \in Int /\ 1 <= i /\ a + i <= b /\ i \in 1 .. b - (a + 1) + 1 /\ a + 1 + i - 1 = a + i
    BY <2>5, <2>6, <2>7
  <2>9. within(time)[i] = time[a + i]
    BY <2>4, <2>6, <2>8
  <2>10. a + i \in DOMAIN time /\ ~ (a + i <= a)
    BY <2>1, <2>5, <2>8
  <2>11. ~ (time[a + i] < window.start) /\ time[a + i] \in Int
    BY <2>2, <2>3, <2>10
  <2> QED
    BY <1>1, <2>9, <2>11
<1>4. CASE Base = "bundle"
  BY <1>4 DEF TargetTimes, IInv, BundlesAdvance
<1>5. CASE Base = "pair"
  <2>1. TargetTimes = within(pair.time)
    BY <1>5 DEF TargetTimes
  <2> QED
    BY <1>1, <1>3, <2>1 DEF Loaded, Sorted
<1>6. CASE Base = "robot"
  <2>1. TargetTimes = within(scalar["robot"].time)
    BY <1>6 DEF TargetTimes
  <2>2. scalar["robot"].time \in Seq(Nat \ {0}) /\ Ascending(scalar["robot"].time)
    BY <1>1, <1>6 DEF Loaded, Stamped, BaseMissing, Sorted
  <2> QED
    BY <1>3, <2>1, <2>2
<1>7. CASE Base = "single"
  <2>1. TargetTimes = within(image[options.base[2]].time)
    BY <1>7 DEF TargetTimes
  <2>2. image[options.base[2]].time \in Seq(Nat \ {0}) /\ Ascending(image[options.base[2]].time)
    BY <1>1, <1>7 DEF Loaded, Stamped, BaseMissing, Sorted
  <2> QED
    BY <1>3, <2>1, <2>2
<1>8. CASE Base = "grid"
  <2>1. TargetTimes = [j \in 1..count |-> window.start + (j - 1) * options.step]
    BY <1>8 DEF TargetTimes
  <2>2. options.step \in Nat
    BY <1>1 DEF Typed, AlignmentOptions
  <2> HIDE DEF count
  <2>3. k - 1 \in Nat
    BY <2>1
  <2>4. (k - 1) * options.step \in Nat
    BY <2>2, <2>3
  <2> QED
    BY <1>1, <2>1, <2>4
<1> QED
  BY <1>2, <1>4, <1>5, <1>6, <1>7, <1>8

\* A scalar stream's frame in a sample is the right one.
LEMMA ScalarRight ==
  ASSUME IInv, Right, pc = "match", NEW t \in Int, window.start <= t, NEW n \in DOMAIN scalar
  PROVE  LET time == scalar[n].time
             p == Sample(t).scalar[n].position
         IN  /\ p \in DOMAIN time
             /\ options.mode = "causal"  =>
                  time[p] <= t /\ \A i \in DOMAIN time : time[i] <= t => time[i] <= time[p]
             /\ options.mode = "nearest" => \A i \in DOMAIN time : Distance(time[p], t) <= Distance(time[i], t)
<1> DEFINE time == scalar[n].time
<1>1. /\ time \in Seq(Int) /\ time # <<>> /\ Ascending(time) /\ First(time) <= window.start
      /\ window.start \in Int /\ options.mode \in Modes
  BY DEF IInv, Typed, AlignmentOptions, Loaded, Stamped, Right, Sorted, Started
<1>2. Sample(t).scalar[n].position = Position(time, t, options.mode)
  BY DEF Sample, Match
<1> HIDE DEF time
<1>3. time[1] \in Int /\ time[1] <= t
  BY <1>1 DEF First
<1>4. LET p == Position(time, t, options.mode)
      IN  /\ p \in DOMAIN time
          /\ options.mode = "causal"  =>
               time[p] <= t /\ \A i \in DOMAIN time : time[i] <= t => time[i] <= time[p]
          /\ options.mode = "nearest" => \A i \in DOMAIN time : Distance(time[p], t) <= Distance(time[i], t)
  BY <1>1, <1>3, PositionRight
<1> QED
  BY <1>2, <1>4 DEF time

\* With the bundle base the sample made for a bundle's time shows that bundle.
LEMMA BundleRight ==
  ASSUME IInv, Right, pc = "match", Base = "bundle", NEW k \in DOMAIN selected
  PROVE  LET bundle == Sample(BundleTime(selected[k].index)).bundle
         IN  bundle.position = k /\ bundle.valid = RowValid[k]
<1> DEFINE time == [i \in DOMAIN selected |-> BundleTime(selected[i].index)]
           t == BundleTime(selected[k].index)
<1>1. /\ Typed /\ Loaded /\ Framed /\ pc # "load" /\ selected \in Seq(Rows) /\ NeedsBundle
      /\ \A i \in DOMAIN selected : IsBundle(selected[i].index)
      /\ options.mode \in Modes /\ ImageTolerance \in [Modes -> Nat]
  BY InputAssumption DEF IInv, CamerasKnown, TakenSound, TakenAreBundles, NeedsBundle, Typed, AlignmentOptions
<1>2. \A i \in DOMAIN selected : BundleTime(selected[i].index) \in Int
  BY <1>1, BundleTyped DEF Numbers
<1>3. time \in Seq(Int) /\ DOMAIN time = DOMAIN selected /\ time[k] = t
  <2> DEFINE n == Len(selected)
  <2>1. n \in Nat /\ DOMAIN selected = 1..n
    BY <1>1
  <2> HIDE DEF n
  <2>2. time \in [1..n -> Int]
    BY <1>2, <2>1
  <2>3. DOMAIN time = DOMAIN selected /\ time[k] = t
    OBVIOUS
  <2> HIDE DEF time
  <2> QED
    BY <2>1, <2>2, <2>3
<1>4. \A i, j \in DOMAIN time : i < j => time[i] < time[j]
  BY DEF Right, Increasing
<1>5. Sample(t).bundle = Match(time, RowValid, ImageTolerance, t, options.mode)
  BY <1>1 DEF Sample, BundleMatch
<1>6. RowValid[k] \in BOOLEAN
  BY DEF RowValid
<1>7. k \in Nat /\ k >= 1 /\ t \in Int
  BY <1>1, <1>2
<1> HIDE DEF time, t
<1>8. Position(time, t, options.mode) = k
  BY <1>1, <1>3, <1>4, PositionOfItself
<1>9. Distance(time[k], t) <= ImageTolerance[options.mode] /\ time[k] <= t
  BY <1>1, <1>3, <1>7 DEF Distance
<1>10. Match(time, RowValid, ImageTolerance, t, options.mode)
         = [position |-> k, valid |-> k >= 1 /\ RowValid[k] /\ Distance(time[k], t) <= ImageTolerance[options.mode]
                                      /\ (options.mode = "causal" => time[k] <= t)]
  BY <1>8 DEF Match
<1>11. Sample(t).bundle.position = k
  BY <1>5, <1>10
<1>12. Sample(t).bundle.valid = RowValid[k]
  BY <1>5, <1>6, <1>7, <1>9, <1>10
<1> QED
  BY <1>11, <1>12 DEF t

\* The last step makes right samples, and none changes them.
LEMMA MatchStep ==
  ASSUME IInv, Right, [Next]_vars
  PROVE  (pc' # "done" => samples' = <<>>) /\ MatchIsRight'
<1>1. CASE samples' = <<>>
  BY <1>1 DEF MatchIsRight
<1>2. CASE UNCHANGED vars
  <2>1. UNCHANGED <<recording, options, pc, image, scalar, selected, samples>>
    BY <1>2 DEF vars, inputVars, sourceVars, searchVars
  <2>2. Base' = Base /\ RowValid' = RowValid
    BY <2>1 DEF Base, RowValid, ExactStamp, BundleFrame, Frames, Color
  <2> QED
    BY <2>1, <2>2 DEF Right, MatchIsRight, Distance
<1>3. CASE MatchStreams /\ pc' = "done"
  <2>1. /\ pc = "match" /\ samples' = [k \in DOMAIN TargetTimes |-> Sample(TargetTimes[k])]
        /\ UNCHANGED <<recording, options, image, scalar, pair, selected>>
    BY <1>3 DEF MatchStreams, inputVars, sourceVars, searchVars
  <2>2. Base' = Base /\ RowValid' = RowValid /\ DOMAIN samples' = DOMAIN TargetTimes
    BY <2>1 DEF Base, RowValid, ExactStamp, BundleFrame, Frames, Color
  <2>3. ASSUME NEW k \in DOMAIN TargetTimes
        PROVE  /\ samples'[k] = Sample(TargetTimes[k]) /\ samples'[k].t = TargetTimes[k]
               /\ TargetTimes[k] \in Int /\ window.start <= TargetTimes[k]
    BY <2>1, TargetTyped, TargetsLate DEF Sample
  <2>4. ASSUME NEW k \in DOMAIN TargetTimes, NEW n \in DOMAIN scalar
        PROVE  LET t == samples'[k].t
                   time == scalar[n].time
                   p == samples'[k].scalar[n].position
               IN  /\ p \in DOMAIN time
                   /\ options.mode = "causal"  =>
                        time[p] <= t /\ \A i \in DOMAIN time : time[i] <= t => time[i] <= time[p]
                   /\ options.mode = "nearest" => \A i \in DOMAIN time : Distance(time[p], t) <= Distance(time[i], t)
    BY <2>1, <2>3, ScalarRight
  <2>5. ASSUME NEW k \in DOMAIN TargetTimes, Base = "bundle"
        PROVE  samples'[k].bundle.position = k /\ samples'[k].bundle.valid = RowValid[k]
    <3>1. k \in DOMAIN selected /\ TargetTimes[k] = BundleTime(selected[k].index)
      BY <2>5 DEF TargetTimes
    <3> QED
      BY <2>1, <2>3, <2>5, <3>1, BundleRight
  <2> QED
    BY <1>3, <2>1, <2>2, <2>4, <2>5 DEF MatchIsRight, Distance
<1> QED
  BY <1>1, <1>2, <1>3
     DEF Right, Next, LoadSources, TrimWindow, ChooseInitialBundle, PassEnd, RunOut,
         LockedPlusOne, FallbackSearch, BestEffort, MatchStreams

(* For every number of cameras, all stamps and all options: a sample names the right frame of   *)
(* every scalar stream and, with the bundle base, the bundle it was made for.                   *)
THEOREM SamplesRight == Spec => []MatchIsRight
<1>1. Init => Right
  BY DEF Init, Right, Sorted, Started, Increasing, MatchIsRight
<1>2. IInv /\ Right /\ [Next]_vars => Right'
  BY SortedStep, StartedStep, IncreasingStep, MatchStep DEF Right
<1>3. Right => MatchIsRight
  BY DEF Right
<1> QED
  BY <1>1, <1>2, <1>3, Invariance, PTL DEF Spec

=============================================================================
