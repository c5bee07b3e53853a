------------------------- MODULE TimestampAlignment -------------------------
(***************************************************************************)
(* timestamp_alignment.align_demo_timestamps: from the time stamps of one  *)
(* recorded demo to a table of samples, each of which names a frame per    *)
(* stream.  The load, the window, every round of the search for multi-     *)
(* camera bundles and the matching are steps; the sorts and searches of    *)
(* numpy are operators.  A stamp is a natural number in the unit of the    *)
(* tolerances, 0 an absent one (int_array turns those into -1, and every   *)
(* test is > 0); positions count from 1, and position 0 is the code's -1.  *)
(***************************************************************************)
EXTENDS Integers, Sequences, FiniteSets, FiniteSetsExt

CONSTANTS
  CameraCount,     \* the cameras in the order of sorted(representative_sources)
  Scalars,         \* streams matched one by one: "robot" (zmq_source_2), FT300S, ...
  Inputs,          \* the demos and AlignmentOptions considered, see InputAssumption
  SpanWarn,        \* REALSENSE_BUNDLE_SPAN_WARN_NS
  ImageTolerance, ScalarTolerance  \* the tolerances by mode

Cameras == 1..CameraCount
Topics == Cameras \X {"color", "depth"}
Modes == {"causal", "nearest"}

(***************************************************************************)
(* required: the required image topics; image, scalar: the stamps of each  *)
(* stream in the order recorded; xense: the two stamps of every frame.     *)
(* A base <<"single", topic>> is realsense:<topic>.                        *)
(***************************************************************************)
Recording ==
  [required : SUBSET Topics, image : [Topics -> Seq(Nat)],
   scalar : [Scalars -> Seq(Nat)], xense : Seq(Nat \X Nat)]

Bases == ({"bundle", "pair", "grid", "robot"} \X {<<>>}) \cup ({"single"} \X Topics)

AlignmentOptions ==
  [base : Bases, mode : Modes, startTrim : Nat, endTrim : Nat, step : Nat \ {0}]

ASSUME InputAssumption ==
  /\ CameraCount \in Nat /\ IsFiniteSet(Scalars)
  /\ Inputs \subseteq Recording \X AlignmentOptions
  /\ SpanWarn \in Nat
  /\ ImageTolerance \in [Modes -> Nat] /\ ScalarTolerance \in [Modes -> Nat]

InitialRadius == 2
FallbackRadius == 1

VARIABLES
  recording, options,       \* the input, chosen once
  pc,                       \* load, window, initial, scan, match; done, failed
  image, scalar, pair,      \* the sorted sources
  window,                   \* [start, end]
  current, label, lastTime, \* the search: candidate, how it was found, last bundle time
  selected,                 \* the bundles taken, in order
  samples                   \* the rows of aligned_index.npz

inputVars == <<recording, options>>
sourceVars == <<image, scalar, pair>>
searchVars == <<current, label, lastTime, selected>>
vars == <<inputVars, pc, sourceVars, window, searchVars, samples>>

-----------------------------------------------------------------------------
(* Source.sorted_valid: positive stamps in a stable order. *)
Positive(raw) == {i \in DOMAIN raw : raw[i] > 0}

(* The place of frame i among the valid ones: equal stamps keep their order. *)
Rank(raw, i) ==
  Cardinality({j \in Positive(raw) : raw[j] < raw[i] \/ (raw[j] = raw[i] /\ j <= i)})

StableOrder(raw) ==
  [k \in 1..Cardinality(Positive(raw)) |-> CHOOSE i \in Positive(raw) : Rank(raw, i) = k]

SortedValid(raw) ==
  LET order == StableOrder(raw)
  IN  [time |-> [k \in DOMAIN order |-> raw[order[k]]], index |-> order]

(* build_xense_pair_source: a row's time is the later of its two stamps. *)
PairSource(rows) ==
  SortedValid([i \in DOMAIN rows |-> Max({rows[i][1], rows[i][2]})])

First(time) == time[1]
Last(time) == time[Len(time)]

(* np.searchsorted(time, t, side='left') and side='right': how many frames are before t, and *)
(* how many are not after it.  CountBefore is also a mutant of CountUpTo, the wrong side.    *)
CountBefore(time, t) == Cardinality({i \in DOMAIN time : time[i] < t})

CountUpTo(time, t) == Cardinality({i \in DOMAIN time : time[i] <= t})

Distance(a, b) == IF a < b THEN b - a ELSE a - b

(* The choice of match_timestamps; 0 when there is no frame to choose. *)
Position(time, t, mode) ==
  LET right == CountUpTo(time, t)
      left  == Max({right, 1})
      next  == Min({right + 1, Len(time)})
  IN  CASE time = <<>>      -> 0
        [] time # <<>> /\ mode = "causal"  -> right
        [] time # <<>> /\ mode = "nearest" ->
             IF Distance(time[next], t) < Distance(time[left], t) THEN next ELSE left

(* match_timestamps for one target time; ok[i] is row_valid of frame i. *)
Match(time, ok, tolerance, t, mode) ==
  LET p == Position(time, t, mode)
  IN  [position |-> p,
       valid    |-> p >= 1 /\ ok[p] /\ Distance(time[p], t) <= tolerance[mode]
                    /\ (mode = "causal" => time[p] <= t)]

AllValid(time) == [i \in DOMAIN time |-> TRUE]

-----------------------------------------------------------------------------
(* The representative of a camera is its color topic. *)
UsedCameras == {topic[1] : topic \in recording.required}
Color(c) == <<c, "color">>
Frames(c) == image[Color(c)].time

Stamps(b) == {Frames(c)[b[c]] : c \in UsedCameras}
BundleTime(b) == Max(Stamps(b))
BundleSpan(b) == Max(Stamps(b)) - Min(Stamps(b))

(* bounded_index_window, and the product of the cameras' windows. *)
IndexWindow(length, center, radius) == {i \in 1..length : center - radius <= i /\ i <= center + radius}

Candidates(center, radius) ==
  LET choices == [c \in UsedCameras |-> IndexWindow(Len(Frames(c)), center[c], radius)]
  IN  {b \in [UsedCameras -> UNION {choices[c] : c \in UsedCameras}] :
         \A c \in UsedCameras : b[c] \in choices[c]}

(* choose_best_bundle: least span, then earliest, then first in product order. *)
Precedes(a, b) ==
  \/ BundleSpan(a) < BundleSpan(b)
  \/ BundleSpan(a) = BundleSpan(b) /\ BundleTime(a) < BundleTime(b)
  \/ /\ BundleSpan(a) = BundleSpan(b) /\ BundleTime(a) = BundleTime(b)
     /\ \E c \in UsedCameras : a[c] < b[c] /\ \A d \in UsedCameras : d < c => a[d] = b[d]

Best(S) == CHOOSE b \in S : \A other \in S \ {b} : Precedes(b, other)

(* choose_initial_bundle *)
InitialCandidates ==
  LET center == [c \in UsedCameras |-> CountBefore(Frames(c), window.start) + 1]
  IN  {b \in Candidates(center, InitialRadius) : BundleTime(b) >= window.start}

\* Mutant: a bundle of the last time is a candidate again.
LocalCandidatesAgain(expected, last) ==
  {b \in Candidates(expected, FallbackRadius) : BundleTime(b) >= last /\ BundleTime(b) <= window.end}

\* Mutant: the fallback search takes narrow bundles only.
NarrowCandidates(expected, last) ==
  {b \in Candidates(expected, FallbackRadius) : BundleTime(b) >= last + 1 /\ BundleSpan(b) <= SpanWarn}

(* choose_local_bundle *)
LocalCandidates(expected, last) ==
  {b \in Candidates(expected, FallbackRadius) : BundleTime(b) >= last + 1 /\ BundleTime(b) <= window.end}

-----------------------------------------------------------------------------
Init ==
  /\ \E input \in Inputs : recording = input[1] /\ options = input[2]
  /\ pc = "load"
  /\ image = <<>> /\ scalar = <<>> /\ pair = SortedValid(<<>>)
  /\ window = [start |-> 0, end |-> 0]
  /\ current = <<>> /\ label = "initial" /\ lastTime = -1 /\ selected = <<>>
  /\ samples = <<>>

(* load_sources and build_xense_pair_source; empty sources are dropped. *)
LoadSources ==
  /\ pc = "load"
  /\ image' = [topic \in {u \in recording.required : Positive(recording.image[u]) # {}}
                 |-> SortedValid(recording.image[topic])]
  /\ scalar' = [s \in {u \in Scalars : Positive(recording.scalar[u]) # {}}
                  |-> SortedValid(recording.scalar[s])]
  /\ pair' = PairSource(recording.xense)
  /\ LET unreadable == \E topic \in recording.required : recording.image[topic] = <<>>
         nothing    == DOMAIN image' = {} /\ DOMAIN scalar' = {} /\ recording.xense = <<>>
         halfPair   == \E i \in DOMAIN recording.xense : \E k \in {1, 2} : recording.xense[i][k] = 0
     IN  pc' = IF unreadable \/ nothing \/ halfPair THEN "failed" ELSE "window"
  /\ UNCHANGED <<inputVars, window, searchVars, samples>>

Base == options.base[1]

(* build_target_source for the bases that are not bundles; times within the window. *)
TargetTimes ==
  LET within(time) == SubSeq(time, CountBefore(time, window.start) + 1, CountUpTo(time, window.end))
      count == (window.end - window.start) \div options.step + 1
  IN  CASE Base = "bundle" -> [k \in DOMAIN selected |-> BundleTime(selected[k].index)]
        [] Base = "pair"   -> within(pair.time)
        [] Base = "robot"  -> within(scalar["robot"].time)
        [] Base = "single" -> within(image[options.base[2]].time)
        [] Base = "grid"   -> [k \in 1..count |-> window.start + (k - 1) * options.step]

BaseMissing ==
  \/ Base = "robot" /\ "robot" \notin DOMAIN scalar
  \/ Base = "single" /\ options.base[2] \notin DOMAIN image

(* Bundles are built for the bundle base, and for the others when images were recorded. *)
NeedsBundle == Base = "bundle" \/ (Base # "single" /\ DOMAIN image # {})

BundleImpossible ==
  \/ recording.required = {}
  \/ recording.required # DOMAIN image
  \/ \E c \in UsedCameras : Color(c) \notin recording.required

(* alignment_window: where all streams overlap, less the trims. *)
TrimWindow ==
  /\ pc = "window"
  /\ LET times == {image[u].time : u \in DOMAIN image} \cup {scalar[s].time : s \in DOMAIN scalar}
                  \cup (IF pair.time = <<>> THEN {} ELSE {pair.time})
         start == Max({First(time) : time \in times}) + options.startTrim
         end   == Min({Last(time) : time \in times}) - options.endTrim
     IN  /\ window' = [start |-> start, end |-> end]
         /\ pc' = IF end < start \/ BaseMissing \/ (NeedsBundle /\ BundleImpossible) THEN "failed"
                  ELSE IF NeedsBundle THEN "initial" ELSE "match"
  /\ UNCHANGED <<inputVars, sourceVars, searchVars, samples>>

ChooseInitialBundle ==
  /\ pc = "initial"
  /\ InitialCandidates # {}
  /\ current' = Best(InitialCandidates)
  /\ pc' = "scan"
  /\ UNCHANGED <<inputVars, sourceVars, window, label, lastTime, selected, samples>>

-----------------------------------------------------------------------------
\* Mutant: a bundle of the last time is taken again.
TakeRepeated ==
  LET t == BundleTime(current) IN
  /\ t <= window.end
  /\ IF t >= lastTime
       THEN selected' = Append(selected, [index |-> current, label |-> label]) /\ lastTime' = t
       ELSE UNCHANGED <<selected, lastTime>>

(***************************************************************************)
(* One round of the loop of build_realsense_bundle_source: the candidate   *)
(* is taken unless it repeats the last bundle's time, then the next one is *)
(* found.  A row is the positions of the cameras' frames and the mode.     *)
(***************************************************************************)
TakeCandidate ==
  LET t == BundleTime(current) IN
  /\ t <= window.end
  /\ IF t > lastTime
       THEN selected' = Append(selected, [index |-> current, label |-> label]) /\ lastTime' = t
       ELSE UNCHANGED <<selected, lastTime>>

Expected == [c \in UsedCameras |-> current[c] + 1]
Exhausted == \E c \in UsedCameras : Expected[c] > Len(Frames(c))

PassEnd ==
  /\ pc = "scan"
  /\ BundleTime(current) > window.end
  /\ pc' = "match"
  /\ UNCHANGED <<inputVars, sourceVars, window, searchVars, samples>>

RunOut ==
  /\ pc = "scan"
  /\ TakeCandidate
  /\ Exhausted
  /\ pc' = "match"
  /\ UNCHANGED <<inputVars, sourceVars, window, current, label, samples>>

LockedPlusOne ==
  /\ pc = "scan"
  /\ TakeCandidate
  /\ ~ Exhausted
  /\ BundleSpan(Expected) <= SpanWarn
  /\ current' = Expected /\ label' = "locked"
  /\ UNCHANGED <<inputVars, pc, sourceVars, window, samples>>

FallbackSearch ==
  /\ pc = "scan"
  /\ TakeCandidate
  /\ ~ Exhausted
  /\ BundleSpan(Expected) > SpanWarn
  /\ LocalCandidates(Expected, lastTime') # {}
  /\ current' = Best(LocalCandidates(Expected, lastTime')) /\ label' = "fallback"
  /\ UNCHANGED <<inputVars, pc, sourceVars, window, samples>>

BestEffort ==
  /\ pc = "scan"
  /\ TakeCandidate
  /\ ~ Exhausted
  /\ BundleSpan(Expected) > SpanWarn
  /\ LocalCandidates(Expected, lastTime') = {}
  /\ current' = Expected /\ label' = "best_effort"
  /\ pc' = IF BundleTime(Expected) <= lastTime' THEN "match" ELSE "scan"
  /\ UNCHANGED <<inputVars, sourceVars, window, samples>>

-----------------------------------------------------------------------------
(* The frame a topic contributes to a bundle: the representative's, or the last one not after it. *)
BundleFrame(b, topic) ==
  LET stamp == Frames(topic[1])[b[topic[1]]]
  IN  IF topic = Color(topic[1]) THEN b[topic[1]] ELSE CountUpTo(image[topic].time, stamp)

\* Mutant: the child's frame need not have the bundle's stamp.
AnyStamp(b, topic) == BundleFrame(b, topic) >= 1

ExactStamp(b, topic) ==
  LET p == BundleFrame(b, topic)
  IN  p >= 1 /\ image[topic].time[p] = Frames(topic[1])[b[topic[1]]]

RowValid == [k \in DOMAIN selected |-> \A topic \in recording.required : ExactStamp(selected[k].index, topic)]

(* align_realsense_group: one match for the bundle, projected to its topics, or one per topic. *)
BundleMatch(t) ==
  Match([k \in DOMAIN selected |-> BundleTime(selected[k].index)], RowValid, ImageTolerance, t, options.mode)

TopicMatch(topic, t) ==
  IF NeedsBundle
    THEN LET m == BundleMatch(t)
             present == m.position >= 1
             b == selected[m.position].index
         IN  [position |-> IF present THEN BundleFrame(b, topic) ELSE 0,
              valid    |-> m.valid /\ present /\ ExactStamp(b, topic)]
    ELSE Match(image[topic].time, AllValid(image[topic].time), ImageTolerance, t, options.mode)

(* emit_source and the reduction of the masks to sample_valid. *)
Sample(t) ==
  LET bundle == IF NeedsBundle THEN BundleMatch(t) ELSE [position |-> 0, valid |-> TRUE]
      topics == [topic \in DOMAIN image |-> TopicMatch(topic, t)]
      xense  == Match(pair.time, AllValid(pair.time), ImageTolerance, t, options.mode)
      others == [s \in DOMAIN scalar |->
                   Match(scalar[s].time, AllValid(scalar[s].time), ScalarTolerance, t, options.mode)]
  IN  [t |-> t, bundle |-> bundle, topic |-> topics, xense |-> xense, scalar |-> others,
       valid |-> /\ bundle.valid /\ xense.valid
                 /\ \A topic \in DOMAIN image : topics[topic].valid
                 /\ \A s \in DOMAIN scalar : others[s].valid]

(* An empty timeline fails; manifest.alignment gets "done" or "failed", the demo's status neither. *)
MatchStreams ==
  /\ pc = "match"
  /\ IF TargetTimes = <<>> \/ (NeedsBundle /\ selected = <<>>)
       THEN pc' = "failed" /\ UNCHANGED samples
       ELSE /\ samples' = [k \in DOMAIN TargetTimes |-> Sample(TargetTimes[k])]
            /\ pc' = "done"
  /\ UNCHANGED <<inputVars, sourceVars, window, searchVars>>

Next ==
  \/ LoadSources \/ TrimWindow \/ ChooseInitialBundle
  \/ PassEnd \/ RunOut \/ LockedPlusOne \/ FallbackSearch \/ BestEffort
  \/ MatchStreams

Spec == Init /\ [][Next]_vars

(* The alignment is one call on the main thread. *)
FairSpec == Spec /\ WF_vars(Next)

-----------------------------------------------------------------------------
(* The variables stay in their domains; the search's indices are positions of frames. *)
TypeOK ==
  /\ recording \in Recording /\ options \in AlignmentOptions
  /\ pc \in {"load", "window", "initial", "scan", "match", "done", "failed"}
  /\ lastTime \in Int /\ window \in [start : Int, end : Int]
  /\ label \in {"initial", "locked", "fallback", "best_effort"}
  /\ pc = "scan" => \A c \in UsedCameras : current[c] \in DOMAIN Frames(c)

(* The visual timeline moves forward inside the window: bundle times increase strictly, and     *)
(* no camera goes back to an earlier frame, although the fallback search looks backwards.       *)
BundlesAdvance ==
  \A k \in DOMAIN selected :
    LET b == selected[k].index IN
    /\ window.start <= BundleTime(b) /\ BundleTime(b) <= window.end
    /\ k > 1 => LET a == selected[k - 1].index IN
                /\ BundleTime(a) < BundleTime(b)
                /\ \A c \in UsedCameras : a[c] <= b[c]

(* Cameras are never advanced blindly into the index: the mode code 3 ("degraded_best_effort")  *)
(* is never written, because the search window holds the next frames too.                       *)
NoBlindStep == \A k \in DOMAIN selected : selected[k].label # "best_effort"

(* Within the tolerance of a sample's time t, and in causal mode not later. *)
Near(stamp, t, tolerance) ==
  stamp \in (t - tolerance[options.mode])..(IF options.mode = "causal" THEN t ELSE t + tolerance["nearest"])

SampleCoherent(s) ==
  /\ \A n \in DOMAIN scalar : Near(scalar[n].time[s.scalar[n].position], s.t, ScalarTolerance)
  /\ LET row == recording.xense[pair.index[s.xense.position]]
     IN  Near(Max({row[1], row[2]}), s.t, ImageTolerance)
  /\ IF NeedsBundle
       THEN LET b == selected[s.bundle.position].index
                stamp == [u \in DOMAIN image |-> image[u].time[s.topic[u].position]]
            IN  /\ Near(BundleTime(b), s.t, ImageTolerance)
                /\ \A u \in DOMAIN image : stamp[u] \in (BundleTime(b) - BundleSpan(b))..BundleTime(b)
                /\ \A u, v \in DOMAIN image : u[1] = v[1] => stamp[u] = stamp[v]
       ELSE \A u \in DOMAIN image : Near(image[u].time[s.topic[u].position], s.t, ImageTolerance)

(* A row of sample_valid is usable whatever went missing: the topics of a camera carry one      *)
(* stamp, no camera frame is stamped after its bundle or before it by more than the bundle's    *)
(* span, and the bundle, or each topic without one, the later stamp of the pair and every other *)
(* stream are within the tolerance of the row's time, in causal mode before it.  So a camera    *)
(* frame of a wide bundle (quality "degraded_span") and the first stamp of a pair may be older  *)
(* than the tolerance.                                                                          *)
ValidSampleIsCoherent == \A k \in DOMAIN samples : samples[k].valid => SampleCoherent(samples[k])

(* Every sample names the right frame: of a scalar stream in causal mode the last one not after *)
(* it, in nearest mode one that none is closer than; and with the bundle base sample k shows    *)
(* bundle k itself, although it is found by time, invalid only when a topic or stream is.       *)
MatchIsRight ==
  \A k \in DOMAIN samples :
    /\ \A n \in DOMAIN scalar :
         LET t == samples[k].t
             time == scalar[n].time
             p == samples[k].scalar[n].position
         IN  /\ p \in DOMAIN time
             /\ options.mode = "causal"  => time[p] <= t /\ \A i \in DOMAIN time : time[i] <= t => time[i] <= time[p]
             /\ options.mode = "nearest" => \A i \in DOMAIN time : Distance(time[p], t) <= Distance(time[i], t)
    /\ Base = "bundle" => samples[k].bundle.position = k /\ samples[k].bundle.valid = RowValid[k]

(* The scan over the cameras' frames ends, also with repeated and missing stamps.               *)
AlignmentEnds == <>(pc \in {"done", "failed"})

=============================================================================
