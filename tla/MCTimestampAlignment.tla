------------------------ MODULE MCTimestampAlignment ------------------------
(***************************************************************************)
(* Two cameras at a period of about 3 units of 10 ms: the warning span is  *)
(* 2 units (20 ms), image tolerances 6 and 3, those of ZMQ streams 4 and 2.*)
(***************************************************************************)
EXTENDS TimestampAlignment

MCTolerance(causal, nearest) == [mode \in Modes |-> IF mode = "causal" THEN causal ELSE nearest]
MCImageTolerance == MCTolerance(6, 3)
MCScalarTolerance == MCTolerance(4, 2)

(* Increasing stamps: every camera with jitter and lost frames; and one with repeated stamps. *)
Increasing(S) == SortedValid([i \in 1..Max(S) |-> IF i \in S THEN i ELSE 0]).time
Subsets(S, sizes) == {Increasing(T) : T \in {U \in SUBSET S : Cardinality(U) \in sizes}}

Demo(color1, color2, depth1, robot, xense, required) ==
  [required |-> required,
   image  |-> [topic \in Topics |-> CASE topic = <<1, "color">> -> color1
                                      [] topic = <<2, "color">> -> color2
                                      [] topic = <<1, "depth">> -> depth1
                                      [] topic = <<2, "depth">> -> color2],
   scalar |-> [s \in Scalars |-> robot],
   xense  |-> xense]

Colors == {<<1, "color">>, <<2, "color">>}
Pairs == <<<<1, 1>>, <<3, 4>>, <<8, 7>>, <<10, 9>>>>
Robot == <<1, 4, 2, 0, 8, 6, 10>>

Opt(base, mode, trim) ==
  [base |-> base, mode |-> mode, startTrim |-> trim, endTrim |-> trim, step |-> 3]

Bundle(mode, trim) == Opt(<<"bundle", <<>>>>, mode, trim)

(* What two color streams can be, for the search of the bundles; and for a few of them what *)
(* else a demo may hold or lack, for every base.                                            *)
MCInputs ==
  {Demo(a, b, a, Robot, Pairs, Colors) :
     a \in Subsets({1, 3, 4, 6, 7, 9, 10}, 3..4) \cup {<<1, 4, 4, 7>>},
     b \in Subsets({1, 4, 6, 7, 10}, 2..4) \cup {<<1, 4, 4, 7>>}}
    \X {Bundle("causal", 0), Bundle("nearest", 1)}
  \cup
  {Demo(<<1, 4, 7, 10>>, b, d, r, x, q) :
     b \in {<<1, 3, 7, 9>>, <<4, 10>>, <<0, 0>>},
     d \in {<<1, 4, 7, 10>>, <<4, 8, 10>>, <<>>, <<2, 7>>},
     r \in {Robot, <<2, 5, 8>>, <<0>>},
     x \in {Pairs, <<>>, <<<<1, 2>>, <<0, 4>>>>, <<<<4, 4>>, <<2, 1>>, <<8, 9>>>>},
     q \in {Colors \cup {<<1, "depth">>}, Topics, {<<1, "depth">>}, {}}}
    \X {Bundle("causal", 0), Opt(<<"grid", <<>>>>, "causal", 0), Opt(<<"pair", <<>>>>, "nearest", 0),
        Opt(<<"robot", <<>>>>, "causal", 1), Opt(<<"single", <<1, "color">>>>, "causal", 0)}

=============================================================================
