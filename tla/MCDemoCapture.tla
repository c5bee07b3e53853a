---------------------------- MODULE MCDemoCapture ----------------------------
(***************************************************************************)
(* Model of DemoCapture for TLC: one stream with enough frames for a loss  *)
(* and a pause, and one whose first frame may come at any time.            *)
(***************************************************************************)
EXTENDS DemoCapture

MCMaxFrames == [s \in Streams |-> IF s = "zmq" THEN 3 ELSE 1]

=============================================================================
