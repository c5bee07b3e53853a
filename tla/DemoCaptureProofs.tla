-------------------------- MODULE DemoCaptureProofs --------------------------
(***************************************************************************)
(* Theorems about DemoCapture, for every number of streams, frames, demos  *)
(* and stretches: what a demo's archive and manifest say of the frames     *)
(* that came (ArchiveIsTheDemo, CountsMatchArchive, GapsAreLosses), and    *)
(* that a thread fails only in the two known races (ThreadsSurvive).       *)
(*                                                                         *)
(* None of the invariants is inductive: a manifest is put together in a    *)
(* dozen steps of the main thread, between which callbacks go on.  The     *)
(* argument:                                                               *)
(*   - Placed, Current, Quiet and Own say, for each place of the main      *)
(*     thread, which callbacks may be about to observe or to append, and   *)
(*     that the frame they hold came while the demo was open;              *)
(*   - Buffered, Prefixed, Settled and Saved relate the rows, the archive  *)
(*     and the manifest that is put together from them;                    *)
(*   - Sized: the dictionary that is looped over keeps its size unless it  *)
(*     is drop_monitors or the demo was aborted while it was collecting;   *)
(*   - Monitored, Watched, Rebased, Spanned and Summed: a demo's monitors  *)
(*     count at most the frames that were lost, and at least those between *)
(*     two frames of one stretch of collecting.                            *)
(* A lemma named ...Changes or ...Effect says what a step can change, with *)
(* one leaf per action; a lemma named ...Step says that a step keeps a     *)
(* part of the invariant, and rests on those.                              *)
(***************************************************************************)
EXTENDS DemoCapture, FiniteSetTheorems, SequenceTheorems, TLAPS

\* A receiver is in its callback.
Busy(s) == at[s] \in {"store", "state_again", "append"}

\* What a buffer, a monitor and a manifest can be.
Rows      == Seq(Nat \X Nat)
Monitors  == [known : BOOLEAN, previous : Nat, missing : Nat]
Manifests == [status : {"none", "done", "failed", "discarded"}, npz : BOOLEAN,
              counts : [Streams -> Nat], missing : [Streams -> Nat]]

\* The type invariant, in the parts that the actions disturb one at a time.
DemoType == /\ state \in {"WAIT_START", "COLLECTING", "PAUSED", "FINALIZING", "DISCARDING", "ERROR",
                          "STOPPING", "STOPPED"}
            /\ demos \in 0..MaxDemos /\ store \in 0..demos
            /\ quitting \in BOOLEAN /\ raised \in BOOLEAN /\ stretch \in 0..MaxStretches

\* Types of the buffers and the files.
BufferType == /\ monitor \in [0..MaxDemos -> [Streams -> Monitors]]
              /\ rows \in [Demos -> [Streams -> Rows]]
              /\ archive \in [Demos -> [Streams -> Rows]]
              /\ manifest \in [Demos -> Manifests]
              /\ whole \in [Demos -> [Streams -> SUBSET (Nat \X Nat)]]

\* Types of what the main thread has.
MainType ==
  /\ pc \in {"loop", "start", "pause", "finish", "discard", "abort", "reset_start", "reset_pause",
             "collect", "save", "count", "summary", "clear", "wait", "stop", "stopping", "end"}
  /\ task \in [status : {"none", "done", "failed", "discarded"}, npz : BOOLEAN,
               clear : BOOLEAN, stop : BOOLEAN]
  /\ iter \in [of : 0..MaxDemos, left : SUBSET Streams, size : 0..Cardinality(Streams)]
  /\ draft \in [counts : [Streams -> Nat], missing : [Streams -> Nat]]

\* Types of what the receivers have: a callback under way has a frame.
ReceiverType ==
  /\ at \in [Streams -> {"idle", "store", "state_again", "append", "dead"}]
  /\ frame \in [Streams -> Nat] /\ lost \in [Streams -> Nat] /\ origin \in [Streams -> Nat]
  /\ \A s \in Streams : /\ frame[s] <= MaxFrames[s] /\ lost[s] <= frame[s] /\ origin[s] <= demos
                        /\ Busy(s) => 0 < frame[s]
  /\ reported \in SUBSET Streams /\ inflight \in SUBSET {s \in Streams : Busy(s)}

\* The type invariant.
Typed == DemoType /\ BufferType /\ MainType /\ ReceiverType

\* Where the main thread ends a demo.
Saving == {"save", "count", "summary", "clear"}

\* What the main thread's place says of the state and the demo.
Placed ==
  /\ pc = "loop" => /\ state \in {"WAIT_START", "COLLECTING", "PAUSED"}
                    /\ store = 0 <=> state = "WAIT_START"
  /\ pc \in {"start", "reset_start", "collect"} =>
       state \in {"WAIT_START", "PAUSED"} /\ stretch < MaxStretches
  /\ pc \in {"pause", "reset_pause"} => state = "PAUSED"
  /\ state = "COLLECTING" => 0 < stretch /\ (pc = "loop" \/ quitting)
  /\ store = 0 => pc \in {"loop", "wait", "stop", "stopping", "end"}
  /\ quitting => pc \in {"abort", "stop", "stopping", "end"} \cup Saving
  /\ pc = "wait" => store = 0
  /\ pc \in Saving /\ quitting => task.stop
  /\ pc \in Saving /\ ~task.stop => task.clear
  /\ pc = "save" => task.npz /\ iter.left # {}
  /\ pc \in {"reset_start", "reset_pause"} => iter.of \in {0, store}
  /\ pc = "summary" => iter.of = store

\* A callback that began after the last change of state or store knows them; one that is about
\* to observe in an open demo that is collecting has begun so.
Current ==
  \A s \in Streams :
    /\ Busy(s) /\ s \notin inflight =>
         /\ at[s] \in {"store", "append"} => state = "COLLECTING"
         /\ at[s] = "append" => store # 0
    /\ at[s] = "store" /\ state = "COLLECTING" /\ store # 0 => s \notin inflight

\* Where callbacks may be about to observe or to append a frame of a demo.
Loud == quitting \/ (pc = "loop" /\ state = "COLLECTING") \/ pc \in {"pause", "finish", "discard", "abort"}

\* Elsewhere none is.
Quiet == ~Loud => \A s \in Streams : at[s] \notin {"store", "append"}

\* The frame of a callback came while the demo was open, or the callback has no demo to put it in.
Own == \A s \in Streams : Busy(s) => origin[s] = store \/ store = 0 \/ (pc = "start" /\ s \in inflight)

\* The last key that may be in a buffer: a callback under way has not appended its frame.
LastKey(s) == IF Busy(s) THEN frame[s] - 1 ELSE frame[s]

\* The rows of a demo, in order.
Ordered(q, d, last) ==
  \A i \in DOMAIN q : q[i][2] = d /\ q[i][1] \in 1..last /\ (i > 1 => q[i - 1][1] < q[i][1])

\* The keys of a buffer's rows.
KeysIn(q) == {q[i][1] : i \in DOMAIN q}

\* Rows and archives are frames received, in order; whole callbacks have appended theirs.
Buffered ==
  \A d \in Demos, s \in Streams :
    /\ Ordered(rows[d][s], d, LastKey(s)) /\ Ordered(archive[d][s], d, LastKey(s))
    /\ rows[d][s] # <<>> => d <= demos
    /\ \A w \in whole[d][s] : w[1] \in 1..stretch /\ w[2] \in KeysIn(rows[d][s])

\* An archive is what a buffer held at some time.
Prefixed == \A d \in Demos, s \in Streams :
              \E n \in 0..Len(rows[d][s]) : archive[d][s] = SubSeq(rows[d][s], 1, n)

\* A manifest is written once, at the end of a demo.
Settled ==
  \A d \in Demos : Written(d) => d <= demos /\ (d = store => pc \in {"clear", "stop", "stopping", "end"})

\* What is saved has the whole callbacks, and all rows unless the demo was aborted.
Covers(d, s)  == \A w \in whole[d][s] : w[2] \in KeysIn(archive[d][s])
\* All rows of a buffer are saved.
Matches(d, s) == archive[d][s] = rows[d][s]

\* What the loops that save a demo and write its manifest have done.
Saved ==
  /\ pc = "save" => \A s \in Streams \ iter.left : Covers(store, s) /\ (quitting \/ Matches(store, s))
  /\ pc = "count" /\ task.npz => \A s \in Streams : Covers(store, s) /\ (quitting \/ Matches(store, s))
  /\ pc = "summary" /\ task.npz =>
       \A s \in Streams : /\ Covers(store, s)
                          /\ quitting \/ draft.counts[s] = Len(archive[store][s])
  /\ \A d \in Demos, s \in Streams : Written(d) /\ manifest[d].npz =>
       Covers(d, s) /\ (quitting \/ manifest[d].counts[s] = Len(archive[d][s]))

\* The dictionary the main thread loops over keeps its size.
Sized ==
  pc \in {"reset_start", "reset_pause", "summary"} /\ iter.of # 0 /\ ~quitting =>
    iter.size = Cardinality(Known(iter.of))

\* What a monitor counts as missing.
Missed(d, s) == monitor[d][s].missing
\* The last key that a monitor has seen, 0 after a reset.
Previous(d, s)   == monitor[d][s].previous

\* An unknown monitor is blank; what is missing is within what was lost.
Monitored ==
  /\ \A d \in 0..MaxDemos, s \in Streams :
       /\ ~monitor[d][s].known => Missed(d, s) = 0 /\ Previous(d, s) = 0
       /\ Previous(d, s) <= frame[s] /\ Missed(d, s) <= lost[s]
  /\ \A s \in Streams : Previous(0, s) \in {0, frame[s]}

\* While a demo is collected its monitors have seen every frame, but one about to be observed.
Watched ==
  \A d \in Demos, s \in Streams : d = store =>
    /\ state = "COLLECTING" /\ at[s] # "store" => Previous(d, s) \in {0, frame[s]}
    /\ at[s] = "store" =>
         /\ Previous(d, s) < frame[s]
         /\ Previous(d, s) # 0 => Missed(d, s) + (frame[s] - Previous(d, s) - 1) <= lost[s]

\* After a reset they have no previous frame.
Rebased ==
  \A d \in Demos, s \in Streams : d = store =>
    /\ pc \in {"reset_start", "reset_pause"} /\ iter.of # 0 /\ s \notin iter.left => Previous(d, s) = 0
    /\ pc = "collect" => Previous(d, s) = 0

\* A callback that is whole so far has observed its frame and not yet appended it.
Observing(s) == at[s] \in {"state_again", "append"} /\ s \notin inflight

\* The whole callbacks of the present stretch; the keys between them were counted as missing, and
\* so were those between the last of them and a frame that has been observed.
Stretched(d, s) == {w \in whole[d][s] : w[1] = stretch}
\* The keys between whole callbacks and those after w are counted.
CountedFrom(d, s, w) == Cardinality(Between(d, s)) + (frame[s] - w[2] - 1) <= Missed(d, s)

\* The monitor of a demo that is collecting has seen its whole callbacks.
Spanning(d, s) ==
  /\ Stretched(d, s) # {} => Previous(d, s) # 0
  /\ \A w \in Stretched(d, s) : w[2] <= Previous(d, s)
  /\ ~Observing(s) /\ Previous(d, s) # 0 => <<stretch, Previous(d, s)>> \in whole[d][s]
  /\ Observing(s) => Previous(d, s) = frame[s]
  /\ Observing(s) /\ Stretched(d, s) # {} =>
       \E w \in Stretched(d, s) : CountedFrom(d, s, w) /\ \A v \in Stretched(d, s) : v[2] <= w[2]

\* The keys between whole callbacks are counted as missing.
Spanned ==
  \A d \in Demos, s \in Streams :
    /\ Cardinality(Between(d, s)) <= Missed(d, s)
    /\ d = store /\ state = "COLLECTING" /\ pc \in {"loop", "abort"} => Spanning(d, s)

\* What a manifest is going to report, or reports, is between the gaps and the losses.
Summed ==
  \A d \in Demos, s \in Streams :
    /\ d = store /\ pc = "summary" =>
         /\ draft.missing[s] <= lost[s]
         /\ s \notin iter.left => Cardinality(Between(d, s)) <= draft.missing[s]
    /\ Written(d) => /\ manifest[d].missing[s] <= lost[s]
                     /\ Cardinality(Between(d, s)) <= manifest[d].missing[s]

\* The inductive invariant.
IInv == /\ Typed /\ Placed /\ Current /\ Quiet /\ Own
        /\ Buffered /\ Prefixed /\ Settled /\ Saved /\ Sized
        /\ Monitored /\ Watched /\ Rebased /\ Spanned /\ Summed

-----------------------------------------------------------------------------
\* A row at the end of a buffer: the keys, and what was saved of it before.
LEMMA RowAppended ==
  ASSUME NEW q \in Rows, NEW e \in Nat \X Nat
  PROVE  /\ Append(q, e) \in Rows /\ Len(Append(q, e)) = Len(q) + 1
         /\ DOMAIN q = 1..Len(q) /\ DOMAIN Append(q, e) = 1..Len(q) + 1
         /\ Append(q, e)[Len(q) + 1] = e
         /\ \A i \in 1..Len(q) : Append(q, e)[i] = q[i]
         /\ KeysIn(Append(q, e)) = KeysIn(q) \cup {e[1]}
<1>1. /\ Append(q, e) \in Rows /\ Len(Append(q, e)) = Len(q) + 1
      /\ DOMAIN q = 1..Len(q) /\ DOMAIN Append(q, e) = 1..Len(q) + 1
      /\ Append(q, e)[Len(q) + 1] = e
      /\ \A i \in 1..Len(q) : Append(q, e)[i] = q[i] /\ Len(q) \in Nat
  BY DEF Rows
<1>2. Len(q) \in Nat
  BY DEF Rows
<1>3. KeysIn(Append(q, e)) = KeysIn(q) \cup {e[1]}
  BY <1>1, <1>2 DEF KeysIn
<1>4. QED
  BY <1>1, <1>3

\* What was saved of a buffer is a prefix of it, also after a row has been appended.
LEMMA PrefixKept ==
  ASSUME NEW q \in Rows, NEW e \in Nat \X Nat
  PROVE  /\ Len(q) \in Nat /\ SubSeq(q, 1, Len(q)) = q
         /\ \A n \in 0..Len(q) : SubSeq(Append(q, e), 1, n) = SubSeq(q, 1, n)
<1>1. Len(q) \in Nat /\ SubSeq(q, 1, Len(q)) = q
  BY DEF Rows
<1>2. ASSUME NEW n \in 0..Len(q) PROVE SubSeq(Append(q, e), 1, n) = SubSeq(q, 1, n)
  BY <1>1, RowAppended DEF Rows
<1>3. QED
  BY <1>1, <1>2

\* The known streams of a monitor dictionary are counted.
LEMMA KnownCounted ==
  ASSUME NEW d
  PROVE  Known(d) \subseteq Streams /\ IsFiniteSet(Known(d))
         /\ Cardinality(Known(d)) \in 0..Cardinality(Streams)
<1>1. Known(d) \subseteq Streams
  BY DEF Known
<1>2. QED
  BY <1>1, FS_Subset, FS_CardinalityType, CaptureAssumption

\* The keys between whole callbacks are counted.
LEMMA BetweenCounted ==
  ASSUME NEW d, NEW s \in Streams
  PROVE  IsFiniteSet(Between(d, s)) /\ Cardinality(Between(d, s)) \in Nat
<1>1. IsFiniteSet(1..MaxFrames[s])
  BY FS_Interval, CaptureAssumption
<1>2. Between(d, s) \subseteq 1..MaxFrames[s]
  BY DEF Between
<1>3. QED
  BY <1>1, <1>2, FS_Subset, FS_CardinalityType


-----------------------------------------------------------------------------
\* What a step of the main thread can change, and by which action.
ControllerEffect ==
  /\ UNCHANGED <<at, frame, origin, lost, whole, rows>> /\ reported' \subseteq reported
  /\ archive' = archive \/ SaveBuffer
  /\ manifest' = manifest \/ WriteManifest
  /\ monitor' = monitor \/ ResetBaseline
  /\ \/ UNCHANGED <<state, store, inflight>>
     \/ Change /\ (state' # "COLLECTING" \/ store' = 0 \/ Collect)
  /\ store' = store \/ NewDemo \/ ClearDemo
  /\ demos' = demos \/ NewDemo
  /\ state' = state \/ state' # "COLLECTING" \/ Collect
  /\ quitting' = quitting \/ Quit
  /\ stretch' = stretch \/ Collect
  /\ pc \in {"start", "pause", "finish", "discard", "abort"} => inflight = {}
  /\ pc = "loop" /\ state = "COLLECTING" /\ store # 0 => pc' \in {"pause", "finish", "discard", "abort"}
  /\ pc \in {"stop", "stopping", "end"} => pc' \in {"stopping", "end"}
  /\ pc = "clear" => ClearDemo
  /\ pc' = "save" => SaveBuffer \/ iter'.left = Streams
  /\ pc' = "count" => SaveBuffer \/ ~task'.npz
  /\ pc' = "summary" => CountFrames \/ Summarize
  /\ pc' \in {"loop", "abort"} /\ state' = "COLLECTING" => Collect \/ Quit \/ pc = "reset_pause"

\* Each action of the main thread changes just these.
LEMMA ControllerChanges == Controller => ControllerEffect
<1> SUFFICES ASSUME Controller PROVE ControllerEffect
  OBVIOUS
<1> USE DEF ControllerEffect, receiver, demo, buffers, files, main, past, Main, Answered,
            Resetting, SetState, SetStore, ActiveDemo
<1>1. CASE NewDemo
  BY <1>1 DEF NewDemo
<1>2. CASE ResumeDemo
  BY <1>2 DEF ResumeDemo
<1>3. CASE PauseDemo
  BY <1>3 DEF PauseDemo
<1>4. CASE FinishDemo
  BY <1>4 DEF FinishDemo, Leave
<1>5. CASE DiscardDemo
  BY <1>5 DEF DiscardDemo, Leave
<1>6. CASE Quit
  BY <1>6 DEF Quit
<1>7. CASE Fatal
  BY <1>7 DEF Fatal
<1>8. CASE StartSucceeded
  BY <1>8 DEF StartSucceeded, Succeeded
<1>9. CASE StartFailed
  BY <1>9 DEF StartFailed, Settle
<1>10. CASE PauseSucceeded
  BY <1>10 DEF PauseSucceeded, Succeeded
<1>11. CASE PauseFailed
  BY <1>11 DEF PauseFailed, Settle
<1>12. CASE FinishAnswered
  BY <1>12 DEF FinishAnswered, Settle
<1>13. CASE DiscardAnswered
  BY <1>13 DEF DiscardAnswered, Settle
<1>14. CASE AbortAnswered
  BY <1>14 DEF AbortAnswered, Settle
<1>15. CASE ResetBaseline
  BY <1>15 DEF ResetBaseline
<1>16. CASE ResetDemoMonitors
  BY <1>16 DEF ResetDemoMonitors
<1>17. CASE ResetDone
  BY <1>17 DEF ResetDone
<1>18. CASE Collect
  BY <1>18 DEF Collect
<1>19. CASE Raise
  BY <1>19 DEF Raise
<1>20. CASE SaveBuffer
  BY <1>20 DEF SaveBuffer
<1>21. CASE CountFrames
  BY <1>21 DEF CountFrames
<1>22. CASE Summarize
  BY <1>22 DEF Summarize
<1>23. CASE WriteManifest
  BY <1>23 DEF WriteManifest
<1>24. CASE ClearDemo
  BY <1>24 DEF ClearDemo
<1>25. CASE WaitStart
  BY <1>25 DEF WaitStart
<1>26. CASE BeginStop
  BY <1>26 DEF BeginStop
<1>27. CASE StopReceivers
  BY <1>27 DEF StopReceivers
<1>28. QED
  BY <1>1, <1>2, <1>3, <1>4, <1>5, <1>6, <1>7, <1>8, <1>9, <1>10, <1>11, <1>12, <1>13, <1>14,
     <1>15, <1>16, <1>17, <1>18, <1>19, <1>20, <1>21, <1>22, <1>23, <1>24, <1>25, <1>26, <1>27
     DEF Controller

\* The loops over dictionaries that are under way after a step were so before or have just begun.
LoopEffect ==
  pc' \in {"reset_start", "reset_pause", "summary"} =>
    \/ pc' = pc /\ iter'.of = iter.of /\ iter'.size = iter.size
    \/ Iterate(0) \/ Iterate(store)

\* Each action goes on with a loop or begins one.
LEMMA LoopChanges == ASSUME Typed, Controller PROVE LoopEffect
<1> USE DEF LoopEffect, Typed, MainType, main, Main, Answered, Resetting
<1>1. CASE NewDemo
  BY <1>1 DEF NewDemo
<1>2. CASE ResumeDemo
  BY <1>2 DEF ResumeDemo
<1>3. CASE PauseDemo
  BY <1>3 DEF PauseDemo
<1>4. CASE FinishDemo
  BY <1>4 DEF FinishDemo, Leave
<1>5. CASE DiscardDemo
  BY <1>5 DEF DiscardDemo, Leave
<1>6. CASE Quit
  BY <1>6 DEF Quit
<1>7. CASE Fatal
  BY <1>7 DEF Fatal
<1>8. CASE StartSucceeded
  BY <1>8 DEF StartSucceeded, Succeeded
<1>9. CASE StartFailed
  BY <1>9 DEF StartFailed, Settle
<1>10. CASE PauseSucceeded
  BY <1>10 DEF PauseSucceeded, Succeeded
<1>11. CASE PauseFailed
  BY <1>11 DEF PauseFailed, Settle
<1>12. CASE FinishAnswered
  BY <1>12 DEF FinishAnswered, Settle
<1>13. CASE DiscardAnswered
  BY <1>13 DEF DiscardAnswered, Settle
<1>14. CASE AbortAnswered
  BY <1>14 DEF AbortAnswered, Settle
<1>15. CASE ResetBaseline
  BY <1>15 DEF ResetBaseline
<1>16. CASE ResetDemoMonitors
  BY <1>16 DEF ResetDemoMonitors
<1>17. CASE ResetDone
  BY <1>17 DEF ResetDone
<1>18. CASE Collect
  BY <1>18 DEF Collect
<1>19. CASE Raise
  BY <1>19 DEF Raise
<1>20. CASE SaveBuffer
  BY <1>20 DEF SaveBuffer
<1>21. CASE CountFrames
  BY <1>21 DEF CountFrames
<1>22. CASE Summarize
  BY <1>22 DEF Summarize
<1>23. CASE WriteManifest
  BY <1>23 DEF WriteManifest
<1>24. CASE ClearDemo
  BY <1>24 DEF ClearDemo
<1>25. CASE WaitStart
  BY <1>25 DEF WaitStart
<1>26. CASE BeginStop
  BY <1>26 DEF BeginStop
<1>27. CASE StopReceivers
  BY <1>27 DEF StopReceivers
<1>28. QED
  BY <1>1, <1>2, <1>3, <1>4, <1>5, <1>6, <1>7, <1>8, <1>9, <1>10, <1>11, <1>12, <1>13, <1>14,
     <1>15, <1>16, <1>17, <1>18, <1>19, <1>20, <1>21, <1>22, <1>23, <1>24, <1>25, <1>26, <1>27
     DEF Controller

\* A step of a receiver keeps what is the main thread's, and most of the rest.
CallbackEffect(s) ==
  /\ UNCHANGED <<state, store, demos, archive, manifest, pc, task, iter, draft, raised, quitting, stretch>>
  /\ UNCHANGED <<rows, whole>> \/ AppendRow(s)
  /\ monitor' = monitor \/ Receive(s) \/ (ObserveDemo(s) /\ store # 0)
  /\ UNCHANGED <<frame, lost>> \/ Receive(s)

\* Each of its actions changes just these.
LEMMA CallbackChanges == ASSUME NEW s \in Streams, Callback(s) PROVE CallbackEffect(s)
<1> USE DEF CallbackEffect, receiver, demo, buffers, files, main, past, Receiver
<1>1. CASE Receive(s)
  BY <1>1 DEF Receive
<1>2. CASE ObserveDemo(s)
  BY <1>2 DEF ObserveDemo
<1>3. CASE TestStateAgain(s)
  BY <1>3 DEF TestStateAgain, Return
<1>4. CASE AppendRow(s)
  BY <1>4 DEF AppendRow
<1>5. CASE AppendFails(s)
  BY <1>5 DEF AppendFails
<1>6. QED
  BY <1>1, <1>2, <1>3, <1>4, <1>5 DEF Callback

\* The labels and frames of the callbacks after each of their steps.
LEMMA ReceiveEffect ==
  ASSUME Typed, NEW s \in Streams, Receive(s)
  PROVE  /\ at[s] = "idle" /\ s \notin inflight
         /\ at' = [at EXCEPT ![s] = IF state = "COLLECTING" THEN "store" ELSE "state_again"]
         /\ \E gap \in {0, 1} :
              /\ frame[s] + gap < MaxFrames[s]
              /\ frame' = [frame EXCEPT ![s] = frame[s] + gap + 1]
              /\ lost' = [lost EXCEPT ![s] = lost[s] + gap]
         /\ origin' = [origin EXCEPT ![s] = store]
         /\ \A d \in 0..MaxDemos, r \in Streams :
              monitor'[d][r] = IF d = 0 /\ r = s THEN Observed(monitor[d][r], frame'[s]) ELSE monitor[d][r]
         /\ UNCHANGED <<rows, whole, reported, inflight>>
<1>1. at[s] = "idle" /\ s \notin inflight
  BY DEF Receive, Receiver, Typed, ReceiverType, Busy
<1>2. \A d \in 0..MaxDemos, r \in Streams :
        monitor'[d][r] = IF d = 0 /\ r = s THEN Observed(monitor[d][r], frame'[s]) ELSE monitor[d][r]
  BY DEF Receive, Observe, Typed, BufferType
<1>3. QED
  BY <1>1, <1>2 DEF Receive, Goto

\* A demo's monitor sees the frame if there is a demo.
LEMMA ObserveDemoEffect ==
  ASSUME Typed, NEW s \in Streams, ObserveDemo(s)
  PROVE  /\ at[s] = "store" /\ at' = [at EXCEPT ![s] = "state_again"]
         /\ \A d \in 0..MaxDemos, r \in Streams :
              monitor'[d][r] = IF store # 0 /\ d = store /\ r = s THEN Observed(monitor[d][r], frame[s])
                                                              ELSE monitor[d][r]
         /\ UNCHANGED <<rows, frame, origin, lost, whole, reported, inflight>>
<1>1. \A d \in 0..MaxDemos, r \in Streams :
        monitor'[d][r] = IF store # 0 /\ d = store /\ r = s THEN Observed(monitor[d][r], frame[s])
                                                        ELSE monitor[d][r]
  BY CaptureAssumption DEF ObserveDemo, Observe, Typed, BufferType, DemoType
<1>2. QED
  BY <1>1 DEF ObserveDemo, Receiver, Goto

\* What is observed stays typed, and is at most what was lost before.
LEMMA ObservedTyped ==
  ASSUME NEW m \in Monitors, NEW key \in Nat
  PROVE  /\ Observed(m, key) \in Monitors
         /\ Observed(m, key).known /\ Observed(m, key).previous = key
         /\ m.missing <= Observed(m, key).missing
         /\ m.previous = 0 => Observed(m, key).missing = m.missing
         /\ m.previous # 0 /\ m.previous < key => Observed(m, key).missing = m.missing + (key - m.previous - 1)
BY DEF Monitors, Observed

\* The row goes to the end of the stream's buffer, and into the history if the callback was whole.
LEMMA AppendRowEffect ==
  ASSUME Typed, NEW s \in Streams, AppendRow(s)
  PROVE  /\ at[s] = "append" /\ store \in Demos
         /\ at' = [at EXCEPT ![s] = "idle"] /\ inflight' = inflight \ {s}
         /\ origin' = [origin EXCEPT ![s] = 0]
         /\ \A d \in Demos, r \in Streams :
              /\ rows'[d][r] = IF d = store /\ r = s THEN Append(rows[d][r], <<frame[s], origin[s]>>)
                                                   ELSE rows[d][r]
              /\ whole'[d][r] = IF d = store /\ r = s /\ Whole(s) THEN whole[d][r] \cup {<<stretch, frame[s]>>}
                                                               ELSE whole[d][r]
         /\ UNCHANGED <<monitor, frame, lost, reported>>
<1>1. at[s] = "append" /\ store \in Demos
  BY CaptureAssumption DEF AppendRow, Receiver, Typed, DemoType, Demos
<1>2. \A d \in Demos, r \in Streams :
        rows'[d][r] = IF d = store /\ r = s THEN Append(rows[d][r], <<frame[s], origin[s]>>) ELSE rows[d][r]
  BY DEF AppendRow, Typed, BufferType
<1>3. \A d \in Demos, r \in Streams :
        whole'[d][r] = IF d = store /\ r = s THEN whole[d][r] \cup {w \in {<<stretch, frame[s]>>} : Whole(s)}
                                              ELSE whole[d][r]
  BY DEF AppendRow, Typed, BufferType
<1>4. {w \in {<<stretch, frame[s]>>} : Whole(s)} = IF Whole(s) THEN {<<stretch, frame[s]>>} ELSE {}
  OBVIOUS
<1>5. \A d \in Demos, r \in Streams :
        whole'[d][r] = IF d = store /\ r = s /\ Whole(s) THEN whole[d][r] \cup {<<stretch, frame[s]>>}
                                                        ELSE whole[d][r]
  BY <1>3, <1>4, Zenon
<1>6. QED
  BY <1>1, <1>2, <1>5 DEF AppendRow, Return, Goto

\* Other buffers and their histories stay as they are.
LEMMA OtherRowsKept ==
  ASSUME Typed, NEW s \in Streams, AppendRow(s), NEW d \in Demos, NEW r \in Streams, d # store \/ r # s
  PROVE  rows'[d][r] = rows[d][r] /\ whole'[d][r] = whole[d][r]
<1>1. rows'[d][r] = rows[d][r]
  BY DEF AppendRow, Typed, BufferType
<1>2. whole'[d][r] = whole[d][r]
  BY DEF AppendRow, Typed, BufferType
<1>3. QED
  BY <1>1, <1>2

\* The next buffer is written as it is.
LEMMA SaveBufferEffect ==
  ASSUME Typed, Placed, SaveBuffer
  PROVE  /\ pc = "save" /\ store \in Demos
         /\ \E s \in iter.left :
              /\ \A d \in Demos, r \in Streams :
                   archive'[d][r] = IF d = store /\ r = s THEN rows[d][r] ELSE archive[d][r]
              /\ iter'.left = iter.left \ {s}
              /\ pc' = IF iter.left = {s} THEN "count" ELSE "save"
<1>1. pc = "save" /\ store \in Demos
  BY CaptureAssumption DEF SaveBuffer, Main, Typed, DemoType, Placed, Demos
<1>2. PICK s \in iter.left : s = CHOOSE r \in iter.left : TRUE
  BY <1>1 DEF Placed
<1>3. s \in Streams
  BY DEF Typed, MainType
<1>4. \A d \in Demos, r \in Streams : archive'[d][r] = IF d = store /\ r = s THEN rows[d][r] ELSE archive[d][r]
  BY <1>1, <1>2, <1>3 DEF SaveBuffer, Typed, BufferType
<1>5. iter'.left = iter.left \ {s} /\ pc' = IF iter.left = {s} THEN "count" ELSE "save"
  BY <1>2 DEF SaveBuffer, Typed, MainType
<1>6. QED
  BY <1>1, <1>4, <1>5

\* A reset forgets the previous frame of one stream.
LEMMA ResetBaselineEffect ==
  ASSUME Typed, ResetBaseline
  PROVE  \E s \in iter.left :
           /\ \A d \in 0..MaxDemos, r \in Streams :
                monitor'[d][r] = IF d = iter.of /\ r = s THEN [monitor[d][r] EXCEPT !.previous = 0]
                                                         ELSE monitor[d][r]
           /\ iter' = [iter EXCEPT !.left = iter.left \ {s}]
<1>1. PICK s \in iter.left : /\ monitor' = [monitor EXCEPT ![iter.of][s].previous = 0]
                             /\ iter' = [iter EXCEPT !.left = @ \ {s}]
  BY DEF ResetBaseline
<1>2. iter.of \in 0..MaxDemos /\ s \in Streams
  BY DEF Typed, MainType
<1>3. \A d \in 0..MaxDemos, r \in Streams :
        monitor'[d][r] = IF d = iter.of /\ r = s THEN [monitor[d][r] EXCEPT !.previous = 0] ELSE monitor[d][r]
  BY <1>1, <1>2 DEF Typed, BufferType
<1>4. QED
  BY <1>1, <1>3

\* A manifest says what the draft and the transaction say.
LEMMA ManifestEffect ==
  ASSUME Typed, Placed, WriteManifest
  PROVE  /\ pc = "summary" /\ pc' = "clear" /\ store \in Demos /\ iter.left = {}
         /\ \A d \in Demos : manifest'[d] =
              IF d = store THEN [status |-> task.status, npz |-> task.npz, counts |-> draft.counts,
                                 missing |-> draft.missing]
                           ELSE manifest[d]
<1>1. pc = "summary" /\ pc' = "clear" /\ store \in Demos /\ iter.left = {}
  BY CaptureAssumption DEF WriteManifest, Main, Typed, DemoType, Placed, Demos
<1>2. QED
  BY <1>1 DEF WriteManifest, Typed, BufferType

-----------------------------------------------------------------------------

\* The types of the state and of the demo's number.
LEMMA DemoTypeStep == ASSUME IInv, [Next]_vars PROVE DemoType'
<1> USE DEF IInv, Typed, DemoType, Placed
<1>1. CASE Controller
  <2>1. CASE NewDemo
    BY <2>1, CaptureAssumption
       DEF NewDemo, Main, Answered, Resetting, SetState, SetStore, demo, past, main
  <2>2. CASE ResumeDemo
    BY <2>2, CaptureAssumption
       DEF ResumeDemo, Main, Answered, Resetting, SetState, SetStore, demo, past, main
  <2>3. CASE PauseDemo
    BY <2>3, CaptureAssumption
       DEF PauseDemo, Main, Answered, Resetting, SetState, SetStore, demo, past, main
  <2>4. CASE FinishDemo
    BY <2>4, CaptureAssumption
       DEF FinishDemo, Leave, Main, Answered, Resetting, SetState, SetStore, demo, past, main
  <2>5. CASE DiscardDemo
    BY <2>5, CaptureAssumption
       DEF DiscardDemo, Leave, Main, Answered, Resetting, SetState, SetStore, demo, past, main
  <2>6. CASE Quit
    BY <2>6, CaptureAssumption
       DEF Quit, Main, Answered, Resetting, SetState, SetStore, demo, past, main
  <2>7. CASE Fatal
    BY <2>7, CaptureAssumption
       DEF Fatal, Main, Answered, Resetting, SetState, SetStore, demo, past, main
  <2>8. CASE StartSucceeded
    BY <2>8, CaptureAssumption
       DEF StartSucceeded, Succeeded, Main, Answered, Resetting, SetState, SetStore, demo, past,
           main
  <2>9. CASE StartFailed
    BY <2>9, CaptureAssumption
       DEF StartFailed, Settle, Main, Answered, Resetting, SetState, SetStore, demo, past, main
  <2>10. CASE PauseSucceeded
    BY <2>10, CaptureAssumption
       DEF PauseSucceeded, Succeeded, Main, Answered, Resetting, SetState, SetStore, demo, past,
           main
  <2>11. CASE PauseFailed
    BY <2>11, CaptureAssumption
       DEF PauseFailed, Settle, Main, Answered, Resetting, SetState, SetStore, demo, past, main
  <2>12. CASE FinishAnswered
    BY <2>12, CaptureAssumption
       DEF FinishAnswered, Settle, Main, Answered, Resetting, SetState, SetStore, demo, past, main
  <2>13. CASE DiscardAnswered
    BY <2>13, CaptureAssumption
       DEF DiscardAnswered, Settle, Main, Answered, Resetting, SetState, SetStore, demo, past, main
  <2>14. CASE AbortAnswered
    BY <2>14, CaptureAssumption
       DEF AbortAnswered, Settle, Main, Answered, Resetting, SetState, SetStore, demo, past, main
  <2>15. CASE ResetBaseline
    BY <2>15, CaptureAssumption
       DEF ResetBaseline, Main, Answered, Resetting, SetState, SetStore, demo, past, main
  <2>16. CASE ResetDemoMonitors
    BY <2>16, CaptureAssumption
       DEF ResetDemoMonitors, Main, Answered, Resetting, SetState, SetStore, demo, past, main
  <2>17. CASE ResetDone
    BY <2>17, CaptureAssumption
       DEF ResetDone, Main, Answered, Resetting, SetState, SetStore, demo, past, main
  <2>18. CASE Collect
    BY <2>18, CaptureAssumption
       DEF Collect, Main, Answered, Resetting, SetState, SetStore, demo, past, main
  <2>19. CASE Raise
    BY <2>19, CaptureAssumption
       DEF Raise, Main, Answered, Resetting, SetState, SetStore, demo, past, main
  <2>20. CASE SaveBuffer
    BY <2>20, CaptureAssumption
       DEF SaveBuffer, Main, Answered, Resetting, SetState, SetStore, demo, past, main
  <2>21. CASE CountFrames
    BY <2>21, CaptureAssumption
       DEF CountFrames, Main, Answered, Resetting, SetState, SetStore, demo, past, main
  <2>22. CASE Summarize
    BY <2>22, CaptureAssumption
       DEF Summarize, Main, Answered, Resetting, SetState, SetStore, demo, past, main
  <2>23. CASE WriteManifest
    BY <2>23, CaptureAssumption
       DEF WriteManifest, Main, Answered, Resetting, SetState, SetStore, demo, past, main
  <2>24. CASE ClearDemo
    BY <2>24, CaptureAssumption
       DEF ClearDemo, Main, Answered, Resetting, SetState, SetStore, demo, past, main
  <2>25. CASE WaitStart
    BY <2>25, CaptureAssumption
       DEF WaitStart, Main, Answered, Resetting, SetState, SetStore, demo, past, main
  <2>26. CASE BeginStop
    BY <2>26, CaptureAssumption
       DEF BeginStop, Main, Answered, Resetting, SetState, SetStore, demo, past, main
  <2>27. CASE StopReceivers
    BY <2>27, CaptureAssumption
       DEF StopReceivers, Main, Answered, Resetting, SetState, SetStore, demo, past, main
  <2>28. QED
    BY <1>1, <2>1, <2>2, <2>3, <2>4, <2>5, <2>6, <2>7, <2>8, <2>9, <2>10, <2>11, <2>12, <2>13,
       <2>14, <2>15, <2>16, <2>17, <2>18, <2>19, <2>20, <2>21, <2>22, <2>23, <2>24, <2>25, <2>26,
       <2>27
       DEF Controller
<1>2. ASSUME NEW s \in Streams, Callback(s) PROVE DemoType'
  <2>1. UNCHANGED <<state, store, demos, pc, task, iter, draft, raised, quitting, stretch>>
    BY <1>2, CallbackChanges DEF CallbackEffect
  <2>2. QED
    BY <2>1
<1>3. CASE UNCHANGED vars
  BY <1>3 DEF vars, receiver, demo, buffers, files, main, past
<1>4. QED
  BY <1>1, <1>2, <1>3 DEF Next

\* The types of what the main thread keeps.
LEMMA MainTypeStep == ASSUME IInv, [Next]_vars PROVE MainType'
<1> USE DEF IInv, Typed, DemoType, MainType
<1>1. CASE Controller
  <2>1. CASE NewDemo
    BY <2>1, KnownCounted, FS_CardinalityType, CaptureAssumption
       DEF NewDemo, Main, Answered, Resetting, SetState, SetStore, demo, past, main, Iterate
  <2>2. CASE ResumeDemo
    BY <2>2, KnownCounted, FS_CardinalityType, CaptureAssumption
       DEF ResumeDemo, Main, Answered, Resetting, SetState, SetStore, demo, past, main, Iterate
  <2>3. CASE PauseDemo
    BY <2>3, KnownCounted, FS_CardinalityType, CaptureAssumption
       DEF PauseDemo, Main, Answered, Resetting, SetState, SetStore, demo, past, main, Iterate
  <2>4. CASE FinishDemo
    BY <2>4, KnownCounted, FS_CardinalityType, CaptureAssumption
       DEF FinishDemo, Leave, Main, Answered, Resetting, SetState, SetStore, demo, past, main,
           Iterate
  <2>5. CASE DiscardDemo
    BY <2>5, KnownCounted, FS_CardinalityType, CaptureAssumption
       DEF DiscardDemo, Leave, Main, Answered, Resetting, SetState, SetStore, demo, past, main,
           Iterate
  <2>6. CASE Quit
    BY <2>6, KnownCounted, FS_CardinalityType, CaptureAssumption
       DEF Quit, Main, Answered, Resetting, SetState, SetStore, demo, past, main, Iterate
  <2>7. CASE Fatal
    BY <2>7, KnownCounted, FS_CardinalityType, CaptureAssumption
       DEF Fatal, Main, Answered, Resetting, SetState, SetStore, demo, past, main, Iterate
  <2>8. CASE StartSucceeded
    BY <2>8, KnownCounted, FS_CardinalityType, CaptureAssumption
       DEF StartSucceeded, Succeeded, Main, Answered, Resetting, SetState, SetStore, demo, past,
           main, Iterate
  <2>9. CASE StartFailed
    BY <2>9, KnownCounted, FS_CardinalityType, CaptureAssumption
       DEF StartFailed, Settle, Main, Answered, Resetting, SetState, SetStore, demo, past, main,
           Iterate
  <2>10. CASE PauseSucceeded
    BY <2>10, KnownCounted, FS_CardinalityType, CaptureAssumption
       DEF PauseSucceeded, Succeeded, Main, Answered, Resetting, SetState, SetStore, demo, past,
           main, Iterate
  <2>11. CASE PauseFailed
    BY <2>11, KnownCounted, FS_CardinalityType, CaptureAssumption
       DEF PauseFailed, Settle, Main, Answered, Resetting, SetState, SetStore, demo, past, main,
           Iterate
  <2>12. CASE FinishAnswered
    BY <2>12, KnownCounted, FS_CardinalityType, CaptureAssumption
       DEF FinishAnswered, Settle, Main, Answered, Resetting, SetState, SetStore, demo, past, main,
           Iterate
  <2>13. CASE DiscardAnswered
    BY <2>13, KnownCounted, FS_CardinalityType, CaptureAssumption
       DEF DiscardAnswered, Settle, Main, Answered, Resetting, SetState, SetStore, demo, past,
           main, Iterate
  <2>14. CASE AbortAnswered
    BY <2>14, KnownCounted, FS_CardinalityType, CaptureAssumption
       DEF AbortAnswered, Settle, Main, Answered, Resetting, SetState, SetStore, demo, past, main,
           Iterate
  <2>15. CASE ResetBaseline
    <3>1. PICK s \in iter.left : iter' = [iter EXCEPT !.left = iter.left \ {s}]
      BY <2>15, ResetBaselineEffect
    <3>2. iter' \in [of : 0..MaxDemos, left : SUBSET Streams, size : 0..Cardinality(Streams)]
      BY <3>1
    <3>3. QED
      BY <2>15, <3>2 DEF ResetBaseline, Resetting
  <2>16. CASE ResetDemoMonitors
    BY <2>16, KnownCounted, FS_CardinalityType, CaptureAssumption
       DEF ResetDemoMonitors, Main, Answered, Resetting, SetState, SetStore, demo, past, main,
           Iterate
  <2>17. CASE ResetDone
    BY <2>17, KnownCounted, FS_CardinalityType, CaptureAssumption
       DEF ResetDone, Main, Answered, Resetting, SetState, SetStore, demo, past, main, Iterate
  <2>18. CASE Collect
    BY <2>18, KnownCounted, FS_CardinalityType, CaptureAssumption
       DEF Collect, Main, Answered, Resetting, SetState, SetStore, demo, past, main, Iterate
  <2>19. CASE Raise
    BY <2>19, KnownCounted, FS_CardinalityType, CaptureAssumption
       DEF Raise, Main, Answered, Resetting, SetState, SetStore, demo, past, main, Iterate
  <2>20. CASE SaveBuffer
    BY <2>20, KnownCounted, FS_CardinalityType, CaptureAssumption
       DEF SaveBuffer, Main, Answered, Resetting, SetState, SetStore, demo, past, main, Iterate
  <2>21. CASE CountFrames
    <3>1. store \in Demos /\ store \in 0..MaxDemos
      BY <2>21, CaptureAssumption DEF CountFrames, Main, Placed, Demos
    <3>2. \A s \in Streams : Len(rows[store][s]) \in Nat
      BY <3>1 DEF BufferType, Rows
    <3>3. draft' \in [counts : [Streams -> Nat], missing : [Streams -> Nat]]
      BY <2>21, <3>2 DEF CountFrames, PerStream
    <3>4. iter' \in [of : 0..MaxDemos, left : SUBSET Streams, size : 0..Cardinality(Streams)]
      BY <2>21, <3>1, KnownCounted DEF CountFrames, Iterate
    <3>5. QED
      BY <2>21, <3>3, <3>4 DEF CountFrames
  <2>22. CASE Summarize
    <3>1. PICK s \in iter.left : /\ draft' = [draft EXCEPT !.missing[s] = monitor[store][s].missing]
                                /\ iter' = [iter EXCEPT !.left = iter.left \ {s}]
      BY <2>22 DEF Summarize
    <3>2. s \in Streams /\ monitor[store][s].missing \in Nat
      BY CaptureAssumption DEF BufferType, Monitors
    <3>3. draft' \in [counts : [Streams -> Nat], missing : [Streams -> Nat]]
      BY <3>1, <3>2
    <3>4. iter' \in [of : 0..MaxDemos, left : SUBSET Streams, size : 0..Cardinality(Streams)]
      BY <3>1
    <3>5. QED
      BY <2>22, <3>3, <3>4 DEF Summarize, Main
  <2>23. CASE WriteManifest
    BY <2>23, KnownCounted, FS_CardinalityType, CaptureAssumption
       DEF WriteManifest, Main, Answered, Resetting, SetState, SetStore, demo, past, main, Iterate
  <2>24. CASE ClearDemo
    BY <2>24, KnownCounted, FS_CardinalityType, CaptureAssumption
       DEF ClearDemo, Main, Answered, Resetting, SetState, SetStore, demo, past, main, Iterate
  <2>25. CASE WaitStart
    BY <2>25, KnownCounted, FS_CardinalityType, CaptureAssumption
       DEF WaitStart, Main, Answered, Resetting, SetState, SetStore, demo, past, main, Iterate
  <2>26. CASE BeginStop
    BY <2>26, KnownCounted, FS_CardinalityType, CaptureAssumption
       DEF BeginStop, Main, Answered, Resetting, SetState, SetStore, demo, past, main, Iterate
  <2>27. CASE StopReceivers
    BY <2>27, KnownCounted, FS_CardinalityType, CaptureAssumption
       DEF StopReceivers, Main, Answered, Resetting, SetState, SetStore, demo, past, main, Iterate
  <2>28. QED
    BY <1>1, <2>1, <2>2, <2>3, <2>4, <2>5, <2>6, <2>7, <2>8, <2>9, <2>10, <2>11, <2>12, <2>13,
       <2>14, <2>15, <2>16, <2>17, <2>18, <2>19, <2>20, <2>21, <2>22, <2>23, <2>24, <2>25, <2>26,
       <2>27
       DEF Controller
<1>2. ASSUME NEW s \in Streams, Callback(s) PROVE MainType'
  <2>1. UNCHANGED <<state, store, demos, pc, task, iter, draft, raised, quitting, stretch>>
    BY <1>2, CallbackChanges DEF CallbackEffect
  <2>2. QED
    BY <2>1
<1>3. CASE UNCHANGED vars
  BY <1>3 DEF vars, receiver, demo, buffers, files, main, past
<1>4. QED
  BY <1>1, <1>2, <1>3 DEF Next

\* Where the main thread is, the state and the demo.
LEMMA PlacedStep == ASSUME IInv, [Next]_vars PROVE Placed'
<1> USE DEF IInv, Placed, Saving
<1>1. CASE Controller
  <2>1. CASE NewDemo
    BY <2>1, CaptureAssumption
       DEF NewDemo, Main, Answered, Resetting, SetState, SetStore, demo, past, main, Iterate,
           ActiveDemo, Typed, DemoType, MainType
  <2>2. CASE ResumeDemo
    BY <2>2, CaptureAssumption
       DEF ResumeDemo, Main, Answered, Resetting, SetState, SetStore, demo, past, main, Iterate,
           ActiveDemo, Typed, DemoType, MainType
  <2>3. CASE PauseDemo
    BY <2>3, CaptureAssumption
       DEF PauseDemo, Main, Answered, Resetting, SetState, SetStore, demo, past, main, Iterate,
           ActiveDemo, Typed, DemoType, MainType
  <2>4. CASE FinishDemo
    BY <2>4, CaptureAssumption
       DEF FinishDemo, Leave, Main, Answered, Resetting, SetState, SetStore, demo, past, main,
           Iterate, ActiveDemo, Typed, DemoType, MainType
  <2>5. CASE DiscardDemo
    BY <2>5, CaptureAssumption
       DEF DiscardDemo, Leave, Main, Answered, Resetting, SetState, SetStore, demo, past, main,
           Iterate, ActiveDemo, Typed, DemoType, MainType
  <2>6. CASE Quit
    BY <2>6, CaptureAssumption
       DEF Quit, Main, Answered, Resetting, SetState, SetStore, demo, past, main, Iterate,
           ActiveDemo, Typed, DemoType, MainType
  <2>7. CASE Fatal
    BY <2>7, CaptureAssumption
       DEF Fatal, Main, Answered, Resetting, SetState, SetStore, demo, past, main, Iterate,
           ActiveDemo, Typed, DemoType, MainType
  <2>8. CASE StartSucceeded
    BY <2>8, CaptureAssumption
       DEF StartSucceeded, Succeeded, Main, Answered, Resetting, SetState, SetStore, demo, past,
           main, Iterate, ActiveDemo, Typed, DemoType, MainType
  <2>9. CASE StartFailed
    BY <2>9, CaptureAssumption
       DEF StartFailed, Settle, Main, Answered, Resetting, SetState, SetStore, demo, past, main,
           Iterate, ActiveDemo, Typed, DemoType, MainType
  <2>10. CASE PauseSucceeded
    BY <2>10, CaptureAssumption
       DEF PauseSucceeded, Succeeded, Main, Answered, Resetting, SetState, SetStore, demo, past,
           main, Iterate, ActiveDemo, Typed, DemoType, MainType
  <2>11. CASE PauseFailed
    BY <2>11, CaptureAssumption
       DEF PauseFailed, Settle, Main, Answered, Resetting, SetState, SetStore, demo, past, main,
           Iterate, ActiveDemo, Typed, DemoType, MainType
  <2>12. CASE FinishAnswered
    BY <2>12, CaptureAssumption
       DEF FinishAnswered, Settle, Main, Answered, Resetting, SetState, SetStore, demo, past, main,
           Iterate, ActiveDemo, Typed, DemoType, MainType
  <2>13. CASE DiscardAnswered
    BY <2>13, CaptureAssumption
       DEF DiscardAnswered, Settle, Main, Answered, Resetting, SetState, SetStore, demo, past,
           main, Iterate, ActiveDemo, Typed, DemoType, MainType
  <2>14. CASE AbortAnswered
    BY <2>14, CaptureAssumption
       DEF AbortAnswered, Settle, Main, Answered, Resetting, SetState, SetStore, demo, past, main,
           Iterate, ActiveDemo, Typed, DemoType, MainType
  <2>15. CASE ResetBaseline
    BY <2>15, CaptureAssumption
       DEF ResetBaseline, Main, Answered, Resetting, SetState, SetStore, demo, past, main, Iterate,
           ActiveDemo, Typed, DemoType, MainType
  <2>16. CASE ResetDemoMonitors
    BY <2>16, CaptureAssumption
       DEF ResetDemoMonitors, Main, Answered, Resetting, SetState, SetStore, demo, past, main,
           Iterate, ActiveDemo, Typed, DemoType, MainType
  <2>17. CASE ResetDone
    BY <2>17, CaptureAssumption
       DEF ResetDone, Main, Answered, Resetting, SetState, SetStore, demo, past, main, Iterate,
           ActiveDemo, Typed, DemoType, MainType
  <2>18. CASE Collect
    BY <2>18, CaptureAssumption
       DEF Collect, Main, Answered, Resetting, SetState, SetStore, demo, past, main, Iterate,
           ActiveDemo, Typed, DemoType, MainType
  <2>19. CASE Raise
    BY <2>19, CaptureAssumption
       DEF Raise, Main, Answered, Resetting, SetState, SetStore, demo, past, main, Iterate,
           ActiveDemo, Typed, DemoType, MainType
  <2>20. CASE SaveBuffer
    BY <2>20, CaptureAssumption
       DEF SaveBuffer, Main, Answered, Resetting, SetState, SetStore, demo, past, main, Iterate,
           ActiveDemo, Typed, DemoType, MainType
  <2>21. CASE CountFrames
    BY <2>21, CaptureAssumption
       DEF CountFrames, Main, Answered, Resetting, SetState, SetStore, demo, past, main, Iterate,
           ActiveDemo, Typed, DemoType, MainType
  <2>22. CASE Summarize
    BY <2>22, CaptureAssumption
       DEF Summarize, Main, Answered, Resetting, SetState, SetStore, demo, past, main, Iterate,
           ActiveDemo, Typed, DemoType, MainType
  <2>23. CASE WriteManifest
    BY <2>23, CaptureAssumption
       DEF WriteManifest, Main, Answered, Resetting, SetState, SetStore, demo, past, main, Iterate,
           ActiveDemo, Typed, DemoType, MainType
  <2>24. CASE ClearDemo
    BY <2>24, CaptureAssumption
       DEF ClearDemo, Main, Answered, Resetting, SetState, SetStore, demo, past, main, Iterate,
           ActiveDemo, Typed, DemoType, MainType
  <2>25. CASE WaitStart
    BY <2>25, CaptureAssumption
       DEF WaitStart, Main, Answered, Resetting, SetState, SetStore, demo, past, main, Iterate,
           ActiveDemo, Typed, DemoType, MainType
  <2>26. CASE BeginStop
    BY <2>26, CaptureAssumption
       DEF BeginStop, Main, Answered, Resetting, SetState, SetStore, demo, past, main, Iterate,
           ActiveDemo, Typed, DemoType, MainType
  <2>27. CASE StopReceivers
    BY <2>27, CaptureAssumption
       DEF StopReceivers, Main, Answered, Resetting, SetState, SetStore, demo, past, main, Iterate,
           ActiveDemo, Typed, DemoType, MainType
  <2>28. QED
    BY <1>1, <2>1, <2>2, <2>3, <2>4, <2>5, <2>6, <2>7, <2>8, <2>9, <2>10, <2>11, <2>12, <2>13,
       <2>14, <2>15, <2>16, <2>17, <2>18, <2>19, <2>20, <2>21, <2>22, <2>23, <2>24, <2>25, <2>26,
       <2>27
       DEF Controller
<1>2. ASSUME NEW s \in Streams, Callback(s) PROVE Placed'
  <2>1. UNCHANGED <<state, store, demos, pc, task, iter, draft, raised, quitting, stretch>>
    BY <1>2, CallbackChanges DEF CallbackEffect
  <2>2. QED
    BY <2>1
<1>3. CASE UNCHANGED vars
  BY <1>3 DEF vars, receiver, demo, buffers, files, main, past
<1>4. QED
  BY <1>1, <1>2, <1>3 DEF Next

-----------------------------------------------------------------------------
\* The types of what the receivers keep.
LEMMA ReceiverTypeStep == ASSUME IInv, [Next]_vars PROVE ReceiverType'
<1> USE DEF IInv, ReceiverType
<1>1. CASE Controller
  <2>1. demos \in Nat /\ demos' \in Nat /\ demos <= demos'
    BY <1>1, ControllerChanges, CaptureAssumption DEF ControllerEffect, NewDemo, Typed, DemoType
  <2>2. inflight' = inflight \/ inflight' = {s \in Streams : at[s] \notin {"idle", "dead"}}
    BY <1>1, ControllerChanges DEF ControllerEffect, Change
  <2>3. UNCHANGED <<at, frame, origin, lost>> /\ reported' \subseteq reported
    BY <1>1, ControllerChanges DEF ControllerEffect
  <2>4. inflight' \in SUBSET {s \in Streams : Busy(s)}'
    BY <2>2, <2>3 DEF Typed, Busy
  <2>5. \A s \in Streams : /\ frame'[s] <= MaxFrames[s] /\ lost'[s] <= frame'[s] /\ origin'[s] <= demos'
                           /\ Busy(s)' => 0 < frame'[s]
    <3>1. \A s \in Streams : origin[s] \in Nat /\ origin[s] <= demos /\ frame[s] <= MaxFrames[s]
                             /\ lost[s] <= frame[s] /\ (Busy(s) => 0 < frame[s])
      BY DEF Typed
    <3>2. \A s \in Streams : Busy(s)' = Busy(s)
      BY <2>3 DEF Busy
    <3>3. QED
      BY <2>1, <2>3, <3>1, <3>2
  <2>6. QED
    BY <2>3, <2>4, <2>5 DEF Typed
<1>2. ASSUME NEW s \in Streams, Callback(s) PROVE ReceiverType'
  <2>1. demos' = demos /\ store \in 0..demos /\ demos \in Nat
    BY <1>2, CallbackChanges, CaptureAssumption DEF CallbackEffect, Typed, DemoType
  <2>2. CASE Receive(s)
    <3>1. PICK gap \in {0, 1} : /\ frame[s] + gap < MaxFrames[s]
                                /\ frame' = [frame EXCEPT ![s] = frame[s] + gap + 1]
                                /\ lost' = [lost EXCEPT ![s] = lost[s] + gap]
      BY <2>2, ReceiveEffect
    <3>2. /\ at' = [at EXCEPT ![s] = IF state = "COLLECTING" THEN "store" ELSE "state_again"]
          /\ at[s] = "idle" /\ s \notin inflight /\ UNCHANGED <<reported, inflight>>
          /\ origin' = [origin EXCEPT ![s] = store]
      BY <2>2, ReceiveEffect DEF Typed
    <3>3. /\ frame' \in [Streams -> Nat] /\ lost' \in [Streams -> Nat] /\ origin' \in [Streams -> Nat]
          /\ at' \in [Streams -> {"idle", "store", "state_again", "append", "dead"}]
      BY <2>1, <3>1, <3>2 DEF Typed
    <3>4. \A r \in Streams : /\ frame'[r] <= MaxFrames[r] /\ lost'[r] <= frame'[r] /\ origin'[r] <= demos'
                             /\ Busy(r)' => 0 < frame'[r]
      <4>1. ASSUME NEW r \in Streams
            PROVE  /\ frame'[r] <= MaxFrames[r] /\ lost'[r] <= frame'[r] /\ origin'[r] <= demos'
                   /\ Busy(r)' => 0 < frame'[r]
        <5>1. CASE r = s
          <6>1. frame'[s] = frame[s] + gap + 1 /\ lost'[s] = lost[s] + gap /\ origin'[s] = store
            BY <3>1, <3>2 DEF Typed
          <6>2. frame[s] \in Nat /\ lost[s] \in Nat /\ lost[s] <= frame[s] /\ MaxFrames[s] \in Nat
            BY CaptureAssumption DEF Typed
          <6>3. QED
            BY <2>1, <3>1, <5>1, <6>1, <6>2
        <5>2. CASE r # s
          BY <2>1, <3>1, <3>2, <5>2 DEF Typed, Busy
        <5>3. QED
          BY <5>1, <5>2
      <4>2. QED
        BY <4>1
    <3>5. reported' \in SUBSET Streams /\ inflight' \in SUBSET {r \in Streams : Busy(r)}'
      BY <3>2 DEF Typed, Busy
    <3>6. QED
      BY <3>3, <3>4, <3>5
  <2>3. CASE ObserveDemo(s)
    BY <2>1, <2>3, ObserveDemoEffect DEF Typed, Busy
  <2>4. CASE TestStateAgain(s)
    BY <2>1, <2>4 DEF TestStateAgain, Receiver, Goto, Return, Typed, Busy
  <2>5. CASE AppendRow(s)
    <3>1. /\ at' = [at EXCEPT ![s] = "idle"] /\ inflight' = inflight \ {s}
          /\ origin' = [origin EXCEPT ![s] = 0] /\ UNCHANGED <<frame, lost, reported>>
      BY <2>5, AppendRowEffect
    <3>2. QED
      BY <2>1, <3>1 DEF Typed, Busy
  <2>6. CASE AppendFails(s)
    BY <2>1, <2>6 DEF AppendFails, Receiver, Goto, Typed, Busy
  <2>7. QED
    BY <1>2, <2>2, <2>3, <2>4, <2>5, <2>6 DEF Callback
<1>3. CASE UNCHANGED vars
  BY <1>3 DEF vars, receiver, demo, Typed, Busy
<1>4. QED
  BY <1>1, <1>2, <1>3 DEF Next

\* The types of the buffers, the monitors and the files.
LEMMA BufferTypeStep == ASSUME IInv, [Next]_vars PROVE BufferType'
<1> USE DEF IInv, Typed
<1>1. CASE Controller
  <2>1. UNCHANGED <<whole, rows>>
    BY <1>1, ControllerChanges DEF ControllerEffect
  <2>2. monitor' \in [0..MaxDemos -> [Streams -> Monitors]]
    <3>1. CASE ResetBaseline
      <4>1. PICK s \in iter.left : monitor' = [monitor EXCEPT ![iter.of][s].previous = 0]
        BY <3>1 DEF ResetBaseline
      <4>2. iter.of \in 0..MaxDemos /\ s \in Streams
        BY DEF MainType
      <4>3. [monitor[iter.of][s] EXCEPT !.previous = 0] \in Monitors
        <5>1. monitor[iter.of][s] \in Monitors
          BY <4>2 DEF BufferType
        <5>2. QED
          BY <5>1 DEF Monitors
      <4>4. QED
        BY <4>1, <4>2, <4>3 DEF BufferType
    <3>2. QED
      BY <1>1, <3>1, ControllerChanges DEF ControllerEffect, BufferType
  <2>3. archive' \in [Demos -> [Streams -> Rows]]
    <3>1. CASE SaveBuffer
      <4>1. store \in Demos /\ iter.left # {}
        BY <3>1, CaptureAssumption DEF SaveBuffer, Main, Placed, DemoType, Demos
      <4>2. PICK s \in iter.left : archive' = [archive EXCEPT ![store][s] = rows[store][s]]
        BY <3>1, <4>1 DEF SaveBuffer
      <4>3. s \in Streams
        BY DEF MainType
      <4>4. QED
        BY <4>1, <4>2, <4>3 DEF BufferType
    <3>2. QED
      BY <1>1, <3>1, ControllerChanges DEF ControllerEffect, BufferType
  <2>4. manifest' \in [Demos -> Manifests]
    <3>1. CASE WriteManifest
      <4>1. [status |-> task.status, npz |-> task.npz, counts |-> draft.counts, missing |-> draft.missing]
              \in Manifests
        BY DEF MainType, Manifests
      <4>2. QED
        BY <3>1, <4>1 DEF WriteManifest, BufferType
    <3>2. QED
      BY <1>1, <3>1, ControllerChanges DEF ControllerEffect, BufferType
  <2>5. QED
    BY <2>1, <2>2, <2>3, <2>4 DEF BufferType
<1>2. ASSUME NEW s \in Streams, Callback(s) PROVE BufferType'
  <2>1. UNCHANGED <<archive, manifest>>
    BY <1>2, CallbackChanges DEF CallbackEffect
  <2>2. rows' \in [Demos -> [Streams -> Rows]]
    <3>1. CASE AppendRow(s)
      <4>1. store \in Demos /\ <<frame[s], origin[s]>> \in Nat \X Nat
        BY <3>1, AppendRowEffect DEF ReceiverType
      <4>2. Append(rows[store][s], <<frame[s], origin[s]>>) \in Rows
        BY <4>1, RowAppended DEF BufferType
      <4>3. QED
        BY <3>1, <4>1, <4>2 DEF AppendRow, BufferType
    <3>2. QED
      BY <1>2, <3>1, CallbackChanges DEF CallbackEffect, BufferType
  <2>3. whole' \in [Demos -> [Streams -> SUBSET (Nat \X Nat)]]
    <3>1. CASE AppendRow(s)
      <4>1. store \in Demos /\ <<stretch, frame[s]>> \in Nat \X Nat
        <5>1. stretch \in Nat /\ frame[s] \in Nat
          BY CaptureAssumption DEF ReceiverType, DemoType
        <5>2. QED
          BY <3>1, <5>1, AppendRowEffect
      <4>2. whole[store][s] \cup {w \in {<<stretch, frame[s]>>} : Whole(s)} \in SUBSET (Nat \X Nat)
        BY <4>1 DEF BufferType
      <4>3. QED
        BY <3>1, <4>1, <4>2 DEF AppendRow, BufferType
    <3>2. QED
      BY <1>2, <3>1, CallbackChanges DEF CallbackEffect, BufferType
  <2>4. monitor' \in [0..MaxDemos -> [Streams -> Monitors]]
    <3>1. CASE Receive(s)
      <4>1. frame'[s] \in Nat
        BY <3>1, ReceiveEffect DEF ReceiverType
      <4>2. 0 \in 0..MaxDemos
        BY CaptureAssumption
      <4>3. Observed(monitor[0][s], frame'[s]) \in Monitors
        BY <4>1, <4>2, ObservedTyped DEF BufferType
      <4>4. QED
        BY <3>1, <4>2, <4>3 DEF Receive, Observe, BufferType
    <3>2. CASE ObserveDemo(s) /\ store # 0
      <4>1. frame[s] \in Nat /\ store \in 0..MaxDemos
        BY CaptureAssumption DEF ReceiverType, DemoType
      <4>2. Observed(monitor[store][s], frame[s]) \in Monitors
        BY <4>1, ObservedTyped DEF BufferType
      <4>3. monitor' = [monitor EXCEPT ![store][s] = Observed(monitor[store][s], frame[s])]
        BY <3>2 DEF ObserveDemo, Observe
      <4>4. QED
        BY <4>1, <4>2, <4>3 DEF BufferType
    <3>3. QED
      BY <1>2, <3>1, <3>2, CallbackChanges DEF CallbackEffect, BufferType
  <2>5. QED
    BY <2>1, <2>2, <2>3, <2>4 DEF BufferType
<1>3. CASE UNCHANGED vars
  BY <1>3 DEF vars, receiver, buffers, files, BufferType
<1>4. QED
  BY <1>1, <1>2, <1>3 DEF Next

\* The type invariant.
LEMMA TypedStep == ASSUME IInv, [Next]_vars PROVE Typed'
BY DemoTypeStep, BufferTypeStep, MainTypeStep, ReceiverTypeStep DEF Typed

-----------------------------------------------------------------------------
\* What the callbacks know of the state and the demo.
LEMMA CurrentStep == ASSUME IInv, [Next]_vars PROVE Current'
<1> USE DEF IInv, Current
<1>1. CASE Controller
  <2>1. \A s \in Streams : at'[s] = at[s] /\ (Busy(s)' <=> Busy(s))
    BY <1>1, ControllerChanges DEF ControllerEffect, Busy
  <2>2. CASE UNCHANGED <<state, store, inflight>>
    BY <2>1, <2>2
  <2>3. CASE Change /\ (state' # "COLLECTING" \/ store' = 0 \/ Collect)
    <3>1. \A s \in Streams : Busy(s) => s \in inflight'
      BY <2>3 DEF Change, Busy
    <3>2. \A s \in Streams : ~(at[s] = "store" /\ state' = "COLLECTING" /\ store' # 0)
      BY <2>3 DEF Collect, Main, Quiet, Loud, Placed, Saving
    <3>3. QED
      BY <2>1, <3>1, <3>2
  <2>4. QED
    BY <1>1, <2>2, <2>3, ControllerChanges DEF ControllerEffect
<1>2. ASSUME NEW s \in Streams, Callback(s) PROVE Current'
  <2>1. UNCHANGED <<state, store>>
    BY <1>2, CallbackChanges DEF CallbackEffect
  <2>2. CASE Receive(s)
    BY <2>1, <2>2, ReceiveEffect DEF Typed, ReceiverType, Busy
  <2>3. CASE ObserveDemo(s)
    BY <2>1, <2>3, ObserveDemoEffect DEF Typed, ReceiverType, Busy
  <2>4. CASE TestStateAgain(s)
    BY <2>1, <2>4 DEF TestStateAgain, Receiver, Goto, Return, Typed, ReceiverType, Busy
  <2>5. CASE AppendRow(s)
    BY <2>1, <2>5, AppendRowEffect DEF Typed, ReceiverType, Busy
  <2>6. CASE AppendFails(s)
    BY <2>1, <2>6 DEF AppendFails, Receiver, Goto, Typed, ReceiverType, Busy
  <2>7. QED
    BY <1>2, <2>2, <2>3, <2>4, <2>5, <2>6 DEF Callback
<1>3. CASE UNCHANGED vars
  BY <1>3 DEF vars, receiver, demo, Busy
<1>4. QED
  BY <1>1, <1>2, <1>3 DEF Next

\* Where callbacks are between the demos and in the middle of a reset or a save.
LEMMA QuietStep == ASSUME IInv, [Next]_vars PROVE Quiet'
<1> USE DEF IInv, Quiet
<1>1. CASE Controller
  <2>1. at' = at
    BY <1>1, ControllerChanges DEF ControllerEffect
  <2>2. CASE ~Loud
    BY <2>1, <2>2
  <2>3. CASE quitting
    <3>1. quitting'
      BY <1>1, <2>3, ControllerChanges DEF ControllerEffect, Quit, Main, Placed, Saving
    <3>2. QED
      BY <3>1 DEF Loud
  <2>4. CASE pc = "loop" /\ state = "COLLECTING"
    BY <1>1, <2>4, ControllerChanges DEF ControllerEffect, Placed, Loud
  <2>5. CASE ~quitting /\ pc \in {"pause", "finish", "discard", "abort"}
    <3>1. inflight = {}
      BY <1>1, <2>5, ControllerChanges DEF ControllerEffect
    <3>2. state # "COLLECTING"
      BY <2>5 DEF Placed
    <3>3. \A s \in Streams : at[s] \notin {"store", "append"}
      BY <3>1, <3>2 DEF Current, Busy
    <3>4. QED
      BY <2>1, <3>3
  <2>6. QED
    BY <2>2, <2>3, <2>4, <2>5 DEF Loud
<1>2. ASSUME NEW s \in Streams, Callback(s) PROVE Quiet'
  <2>1. UNCHANGED <<state, store, pc, quitting>>
    BY <1>2, CallbackChanges DEF CallbackEffect
  <2>2. Loud' <=> Loud
    BY <2>1 DEF Loud
  <2>3. state = "COLLECTING" => Loud
    BY DEF Placed, Loud
  <2>4. CASE Receive(s)
    BY <2>2, <2>3, <2>4, ReceiveEffect DEF Typed, ReceiverType
  <2>5. CASE ObserveDemo(s)
    BY <2>2, <2>5, ObserveDemoEffect DEF Typed, ReceiverType
  <2>6. CASE TestStateAgain(s)
    BY <2>2, <2>3, <2>6 DEF TestStateAgain, Receiver, Goto, Return, Typed, ReceiverType
  <2>7. CASE AppendRow(s)
    BY <2>2, <2>7, AppendRowEffect DEF Typed, ReceiverType
  <2>8. CASE AppendFails(s)
    BY <2>2, <2>8 DEF AppendFails, Receiver, Goto, Typed, ReceiverType
  <2>9. QED
    BY <1>2, <2>4, <2>5, <2>6, <2>7, <2>8 DEF Callback
<1>3. CASE UNCHANGED vars
  BY <1>3 DEF vars, receiver, demo, main, past, Loud
<1>4. QED
  BY <1>1, <1>2, <1>3 DEF Next

\* The demo a frame came for.
LEMMA OwnStep == ASSUME IInv, [Next]_vars PROVE Own'
<1> USE DEF IInv, Own
<1>1. CASE Controller
  <2>1. \A s \in Streams : origin'[s] = origin[s] /\ (Busy(s)' <=> Busy(s))
    BY <1>1, ControllerChanges DEF ControllerEffect, Busy
  <2>2. CASE NewDemo
    <3>1. store = 0 /\ pc' = "start" /\ \A s \in Streams : Busy(s) => s \in inflight'
      BY <2>2 DEF NewDemo, Main, SetStore, Change, Placed, Busy
    <3>2. QED
      BY <2>1, <3>1
  <2>3. CASE ClearDemo
    BY <2>1, <2>3 DEF ClearDemo, Main, SetStore
  <2>4. CASE store' = store
    BY <1>1, <2>1, <2>4, ControllerChanges DEF ControllerEffect
  <2>5. QED
    BY <1>1, <2>2, <2>3, <2>4, ControllerChanges DEF ControllerEffect
<1>2. ASSUME NEW s \in Streams, Callback(s) PROVE Own'
  <2>1. UNCHANGED <<store, pc>>
    BY <1>2, CallbackChanges DEF CallbackEffect
  <2>2. CASE Receive(s)
    BY <2>1, <2>2, ReceiveEffect DEF Typed, ReceiverType, Busy
  <2>3. CASE ObserveDemo(s)
    BY <2>1, <2>3, ObserveDemoEffect DEF Typed, ReceiverType, Busy
  <2>4. CASE TestStateAgain(s)
    BY <2>1, <2>4 DEF TestStateAgain, Receiver, Goto, Return, Typed, ReceiverType, Busy
  <2>5. CASE AppendRow(s)
    <3>1. at' = [at EXCEPT ![s] = "idle"] /\ inflight' = inflight \ {s} /\ origin' = [origin EXCEPT ![s] = 0]
      BY <2>5, AppendRowEffect
    <3>2. QED
      BY <2>1, <3>1 DEF Typed, ReceiverType, Busy
  <2>6. CASE AppendFails(s)
    BY <2>1, <2>6 DEF AppendFails, Receiver, Goto, Typed, ReceiverType, Busy
  <2>7. QED
    BY <1>2, <2>2, <2>3, <2>4, <2>5, <2>6 DEF Callback
<1>3. CASE UNCHANGED vars
  BY <1>3 DEF vars, receiver, demo, main, Busy
<1>4. QED
  BY <1>1, <1>2, <1>3 DEF Next

\* The main thread does not change which streams a dictionary has.
LEMMA KnownKept ==
  ASSUME Typed, Controller
  PROVE  \A d \in 0..MaxDemos, s \in Streams : monitor'[d][s].known = monitor[d][s].known
<1>1. CASE ResetBaseline
  <2>1. \A d \in 0..MaxDemos, s \in Streams : monitor[d][s] \in Monitors
    BY DEF Typed, BufferType
  <2>2. QED
    BY <1>1, <2>1, ResetBaselineEffect DEF Monitors
<1>2. QED
  BY <1>1, ControllerChanges DEF ControllerEffect

\* The sizes of the dictionaries the main thread loops over.
LEMMA SizedStep == ASSUME IInv, [Next]_vars PROVE Sized'
<1> USE DEF IInv, Sized
<1>1. CASE Controller
  <2>1. SUFFICES ASSUME pc' \in {"reset_start", "reset_pause", "summary"}, iter'.of # 0, ~quitting'
                 PROVE  (iter.size = Cardinality(Known(iter.of)))'
    OBVIOUS
  <2>2. ~quitting
    BY <1>1, <2>1, ControllerChanges DEF ControllerEffect, Quit, Main, Placed, Saving
  <2>3. store \in 0..MaxDemos /\ iter.of \in 0..MaxDemos
    BY CaptureAssumption DEF Typed, DemoType, MainType
  <2>4. CASE pc' = pc /\ iter'.of = iter.of /\ iter'.size = iter.size
    <3>1. iter.size = Cardinality(Known(iter.of))
      BY <2>1, <2>2, <2>4
    <3>2. Known(iter.of) = {s \in Streams : monitor'[iter'.of][s].known}
      BY <1>1, <2>3, <2>4, KnownKept DEF Known
    <3>3. QED
      BY <2>4, <3>1, <3>2 DEF Known
  <2>5. CASE Iterate(0)
    BY <2>1, <2>5 DEF Iterate
  <2>6. CASE Iterate(store)
    <3>1. iter'.of = store /\ iter'.size = Cardinality(Known(store))
      BY <2>6 DEF Iterate
    <3>2. Known(store) = {s \in Streams : monitor'[iter'.of][s].known}
      BY <1>1, <2>3, <3>1, KnownKept DEF Known
    <3>3. QED
      BY <3>1, <3>2 DEF Known
  <2>7. QED
    BY <1>1, <2>1, <2>4, <2>5, <2>6, LoopChanges DEF LoopEffect
<1>2. ASSUME NEW s \in Streams, Callback(s) PROVE Sized'
  <2>1. UNCHANGED <<pc, iter, quitting>>
    BY <1>2, CallbackChanges DEF CallbackEffect
  <2>2. SUFFICES ASSUME pc \in {"reset_start", "reset_pause", "summary"}, iter.of # 0, ~quitting
                 PROVE  \A r \in Streams : monitor'[iter.of][r] = monitor[iter.of][r]
    BY <2>1 DEF Known
  <2>3. ~ObserveDemo(s)
    BY <2>2 DEF ObserveDemo, Receiver, Quiet, Loud
  <2>4. iter.of \in 0..MaxDemos
    BY DEF Typed, MainType
  <2>5. QED
    BY <1>2, <2>2, <2>3, <2>4, CallbackChanges, ReceiveEffect DEF CallbackEffect
<1>3. CASE UNCHANGED vars
  BY <1>3 DEF vars, buffers, main, past, Known
<1>4. QED
  BY <1>1, <1>2, <1>3 DEF Next

-----------------------------------------------------------------------------
\* What is in order stays so when later keys are allowed.
LEMMA OrderedLater ==
  ASSUME NEW q \in Rows, NEW d, NEW last \in Nat, NEW later \in Nat, last <= later, Ordered(q, d, last)
  PROVE  Ordered(q, d, later)
<1>1. \A i \in DOMAIN q : q[i][1] \in 1..later
  BY DEF Ordered
<1>2. QED
  BY <1>1 DEF Ordered

\* What is in order stays so when a later key is appended.
LEMMA OrderedAppend ==
  ASSUME NEW q \in Rows, NEW d \in Nat, NEW last \in Nat, NEW key \in Nat, last < key, Ordered(q, d, last)
  PROVE  Ordered(Append(q, <<key, d>>), d, key)
<1> DEFINE Q == Append(q, <<key, d>>)
<1>1. /\ DOMAIN q = 1..Len(q) /\ DOMAIN Q = 1..Len(q) + 1 /\ Q[Len(q) + 1] = <<key, d>>
      /\ \A i \in 1..Len(q) : Q[i] = q[i]
  BY RowAppended
<1>2. Len(q) \in Nat
  BY DEF Rows
<1>3. ASSUME NEW i \in 1..Len(q) + 1
      PROVE  Q[i][2] = d /\ Q[i][1] \in 1..key /\ (i > 1 => Q[i - 1][1] < Q[i][1])
  <2>1. CASE i = Len(q) + 1
    <3>1. Q[i][2] = d /\ Q[i][1] = key /\ key \in 1..key
      BY <1>1, <2>1
    <3>2. ASSUME i > 1 PROVE Q[i - 1][1] < key
      <4>1. i - 1 \in 1..Len(q)
        BY <1>2, <2>1, <3>2
      <4>2. q[i - 1][1] \in 1..last
        BY <1>1, <4>1 DEF Ordered
      <4>3. QED
        BY <1>1, <4>1, <4>2
    <3>3. QED
      BY <3>1, <3>2
  <2>2. CASE i # Len(q) + 1
    <3>1. i \in 1..Len(q) /\ (i > 1 => i - 1 \in 1..Len(q))
      BY <1>2, <2>2
    <3>2. q[i][2] = d /\ q[i][1] \in 1..last /\ (i > 1 => q[i - 1][1] < q[i][1])
      BY <1>1, <3>1 DEF Ordered
    <3>3. q[i][1] \in 1..key
      BY <3>2
    <3>4. QED
      BY <1>1, <3>1, <3>2, <3>3
  <2>3. QED
    BY <2>1, <2>2
<1>4. QED
  BY <1>1, <1>3 DEF Ordered

\* The keys allowed in a buffer grow.
LEMMA LastKeyGrows ==
  ASSUME IInv, [Next]_vars, NEW s \in Streams
  PROVE  LastKey(s) \in Nat /\ LastKey(s)' \in Nat /\ LastKey(s) <= LastKey(s)'
<1> USE DEF IInv, Typed, ReceiverType, LastKey
<1>1. frame[s] \in Nat /\ (Busy(s) => 0 < frame[s])
  OBVIOUS
<1>2. CASE Controller
  BY <1>1, <1>2, ControllerChanges DEF ControllerEffect, Busy
<1>3. ASSUME NEW r \in Streams, Callback(r)
      PROVE  LastKey(s)' \in Nat /\ LastKey(s) <= LastKey(s)'
  <2>1. CASE Receive(r)
    <3>1. PICK gap \in {0, 1} : frame' = [frame EXCEPT ![r] = frame[r] + gap + 1]
      BY <2>1, ReceiveEffect
    <3>2. CASE r = s
      BY <1>1, <2>1, <3>1, <3>2, ReceiveEffect DEF Busy
    <3>3. CASE r # s
      <4>1. at'[s] = at[s] /\ frame'[s] = frame[s]
        <5>1. at' = [at EXCEPT ![r] = IF state = "COLLECTING" THEN "store" ELSE "state_again"]
          BY <2>1, ReceiveEffect
        <5>2. QED
          BY <3>1, <3>3, <5>1
      <4>2. QED
        BY <1>1, <4>1 DEF Busy
    <3>4. QED
      BY <3>2, <3>3
  <2>2. CASE ObserveDemo(r)
    BY <1>1, <2>2, ObserveDemoEffect DEF Busy
  <2>3. CASE TestStateAgain(r)
    BY <1>1, <2>3 DEF TestStateAgain, Receiver, Goto, Return, Busy
  <2>4. CASE AppendRow(r)
    <3>1. at' = [at EXCEPT ![r] = "idle"] /\ frame' = frame
      BY <2>4, AppendRowEffect
    <3>2. QED
      BY <1>1, <3>1 DEF Busy
  <2>5. CASE AppendFails(r)
    BY <1>1, <2>5 DEF AppendFails, Receiver, Goto, Busy
  <2>6. QED
    BY <1>3, <2>1, <2>2, <2>3, <2>4, <2>5 DEF Callback
<1>4. CASE UNCHANGED vars
  BY <1>1, <1>4 DEF vars, receiver, Busy
<1>5. QED
  BY <1>1, <1>2, <1>3, <1>4 DEF Next

\* A frame is appended to the demo that was open when it came, after all rows of the buffer.
LEMMA AppendedIsOwn ==
  ASSUME IInv, NEW s \in Streams, AppendRow(s)
  PROVE  /\ origin[s] = store /\ frame[s] \in Nat /\ LastKey(s) < frame[s] /\ LastKey(s)' = frame[s]
         /\ <<frame[s], origin[s]>> \in Nat \X Nat
<1> USE DEF IInv
<1>1. at[s] = "append" /\ store \in Demos /\ store # 0
  BY AppendRowEffect DEF AppendRow
<1>2. pc # "start"
  BY <1>1 DEF Quiet, Loud, Placed, Saving
<1>3. frame[s] \in Nat /\ origin[s] \in Nat /\ frame' = frame
  BY AppendRowEffect DEF Typed, ReceiverType
<1>4. ~Busy(s)'
  BY AppendRowEffect DEF Typed, ReceiverType, Busy
<1>5. QED
  BY <1>1, <1>2, <1>3, <1>4 DEF Own, Busy, LastKey

\* Rows and archives are in order, and what the history says of a buffer is in it.
LEMMA BufferedStep == ASSUME IInv, [Next]_vars PROVE Buffered'
<1> SUFFICES ASSUME NEW d \in Demos, NEW s \in Streams
             PROVE  /\ Ordered(rows[d][s], d, LastKey(s))' /\ Ordered(archive[d][s], d, LastKey(s))'
                    /\ (rows[d][s] # <<>> => d <= demos)'
                    /\ \A w \in whole'[d][s] : w[1] \in 1..stretch' /\ w[2] \in KeysIn(rows[d][s])'
  BY DEF Buffered
<1>1. /\ Ordered(rows[d][s], d, LastKey(s)) /\ Ordered(archive[d][s], d, LastKey(s))
      /\ rows[d][s] # <<>> => d <= demos
      /\ \A w \in whole[d][s] : w[1] \in 1..stretch /\ w[2] \in KeysIn(rows[d][s])
  BY DEF IInv, Buffered
<1>2. rows[d][s] \in Rows /\ archive[d][s] \in Rows /\ d \in Nat
  BY CaptureAssumption DEF IInv, Typed, BufferType, Demos
<1>3. /\ Ordered(rows[d][s], d, LastKey(s)') /\ Ordered(archive[d][s], d, LastKey(s)')
  BY <1>1, <1>2, LastKeyGrows, OrderedLater
<1>4. stretch \in Nat /\ stretch' \in Nat /\ stretch <= stretch' /\ demos \in Nat /\ demos' \in Nat /\ demos <= demos'
  <2>1. CASE Controller
    BY <2>1, ControllerChanges, CaptureAssumption
       DEF ControllerEffect, Collect, NewDemo, IInv, Typed, DemoType
  <2>2. CASE \E r \in Streams : Callback(r)
    BY <2>2, CallbackChanges, CaptureAssumption DEF CallbackEffect, IInv, Typed, DemoType
  <2>3. CASE UNCHANGED vars
    BY <2>3, CaptureAssumption DEF vars, demo, past, IInv, Typed, DemoType
  <2>4. QED
    BY <2>1, <2>2, <2>3 DEF Next
<1>5. CASE Controller
  <2>1. UNCHANGED <<rows, whole>>
    BY <1>5, ControllerChanges DEF ControllerEffect
  <2>2. archive'[d][s] \in {archive[d][s], rows[d][s]}
    BY <1>5, ControllerChanges, SaveBufferEffect DEF ControllerEffect, IInv
  <2>3. Ordered(rows'[d][s], d, LastKey(s)') /\ Ordered(archive'[d][s], d, LastKey(s)')
    BY <1>3, <2>1, <2>2
  <2>4. \A w \in whole'[d][s] : w[1] \in 1..stretch' /\ w[2] \in KeysIn(rows'[d][s])
    BY <1>1, <1>4, <2>1
  <2>5. QED
    BY <1>1, <1>2, <1>4, <2>1, <2>3, <2>4
<1>6. ASSUME NEW r \in Streams, AppendRow(r), r = s, d = store
      PROVE  /\ Ordered(rows[d][s], d, LastKey(s))' /\ (rows[d][s] # <<>> => d <= demos)'
             /\ \A w \in whole'[d][s] : w[1] \in 1..stretch' /\ w[2] \in KeysIn(rows[d][s])'
  <2>1. /\ rows'[d][s] = Append(rows[d][s], <<frame[s], d>>)
        /\ <<frame[s], d>> \in Nat \X Nat
        /\ LastKey(s) < frame[s] /\ LastKey(s)' = frame[s] /\ frame[s] \in Nat
    BY <1>2, <1>6, AppendRowEffect, AppendedIsOwn DEF IInv
  <2>2. Ordered(rows'[d][s], d, frame[s])
    BY <1>1, <1>2, <2>1, OrderedAppend, LastKeyGrows
  <2>3. d <= demos
    BY <1>6 DEF IInv, Typed, DemoType
  <2>4. KeysIn(rows'[d][s]) = KeysIn(rows[d][s]) \cup {frame[s]}
    BY <1>2, <2>1, RowAppended
  <2>5. \A w \in whole'[d][s] : w \in whole[d][s] \/ (w = <<stretch, frame[s]>> /\ Whole(s))
    <3>1. whole'[d][s] = IF Whole(s) THEN whole[d][s] \cup {<<stretch, frame[s]>>} ELSE whole[d][s]
      BY <1>6, AppendRowEffect DEF IInv
    <3>2. QED
      BY <3>1
  <2>6. Whole(s) => stretch \in 1..stretch
    BY <1>4 DEF Whole, IInv, Placed
  <2>7. \A w \in whole'[d][s] : w[1] \in 1..stretch' /\ w[2] \in KeysIn(rows'[d][s])
    BY <1>1, <1>4, <2>4, <2>5, <2>6
  <2>8. QED
    BY <1>4, <2>1, <2>2, <2>3, <2>7
<1>7. ASSUME NEW r \in Streams, Callback(r)
      PROVE  /\ Ordered(rows[d][s], d, LastKey(s))' /\ Ordered(archive[d][s], d, LastKey(s))'
             /\ (rows[d][s] # <<>> => d <= demos)'
             /\ \A w \in whole'[d][s] : w[1] \in 1..stretch' /\ w[2] \in KeysIn(rows[d][s])'
  <2>1. archive' = archive
    BY <1>7, CallbackChanges DEF CallbackEffect
  <2>2. CASE AppendRow(r) /\ r = s /\ d = store
    BY <1>3, <1>6, <2>1, <2>2
  <2>3. CASE ~(AppendRow(r) /\ r = s /\ d = store)
    <3>1. rows'[d][s] = rows[d][s] /\ whole'[d][s] = whole[d][s]
      <4>1. CASE AppendRow(r)
        <5>1. Typed
          BY DEF IInv
        <5>2. ~(d = store /\ s = r)
          BY <2>3, <4>1
        <5>3. QED
          BY <4>1, <5>1, <5>2, OtherRowsKept
      <4>2. QED
        BY <1>7, <4>1, CallbackChanges DEF CallbackEffect
    <3>2. Ordered(rows'[d][s], d, LastKey(s)') /\ Ordered(archive'[d][s], d, LastKey(s)')
      BY <1>3, <2>1, <3>1
    <3>3. \A w \in whole'[d][s] : w[1] \in 1..stretch' /\ w[2] \in KeysIn(rows'[d][s])
      BY <1>1, <1>4, <3>1
    <3>4. QED
      BY <1>1, <1>2, <1>4, <3>1, <3>2, <3>3
  <2>4. QED
    BY <2>2, <2>3
<1>8. CASE UNCHANGED vars
  <2>1. UNCHANGED <<rows, whole, archive>>
    BY <1>8 DEF vars, receiver, buffers, files
  <2>2. Ordered(rows'[d][s], d, LastKey(s)') /\ Ordered(archive'[d][s], d, LastKey(s)')
    BY <1>3, <2>1
  <2>3. \A w \in whole'[d][s] : w[1] \in 1..stretch' /\ w[2] \in KeysIn(rows'[d][s])
    BY <1>1, <1>4, <2>1
  <2>4. QED
    BY <1>1, <1>2, <1>4, <2>1, <2>2, <2>3
<1>9. QED
  BY <1>5, <1>7, <1>8 DEF Next

-----------------------------------------------------------------------------
\* The archives are prefixes of the buffers.
LEMMA PrefixedStep == ASSUME IInv, [Next]_vars PROVE Prefixed'
<1> SUFFICES ASSUME NEW d \in Demos, NEW s \in Streams
             PROVE  \E n \in 0..Len(rows'[d][s]) : archive'[d][s] = SubSeq(rows'[d][s], 1, n)
  BY DEF Prefixed
<1>1. PICK n \in 0..Len(rows[d][s]) : archive[d][s] = SubSeq(rows[d][s], 1, n)
  BY DEF IInv, Prefixed
<1>2. rows[d][s] \in Rows /\ Typed
  BY DEF IInv, Typed, BufferType
<1>3. Len(rows[d][s]) \in Nat /\ SubSeq(rows[d][s], 1, Len(rows[d][s])) = rows[d][s]
  BY <1>2, PrefixKept, <<0, 0>> \in Nat \X Nat
<1>4. CASE Controller
  <2>1. rows' = rows
    BY <1>4, ControllerChanges DEF ControllerEffect
  <2>2. archive'[d][s] \in {archive[d][s], rows[d][s]}
    BY <1>4, ControllerChanges, SaveBufferEffect DEF ControllerEffect, IInv
  <2>3. QED
    BY <1>1, <1>3, <2>1, <2>2
<1>5. ASSUME NEW r \in Streams, Callback(r)
      PROVE  \E m \in 0..Len(rows'[d][s]) : archive'[d][s] = SubSeq(rows'[d][s], 1, m)
  <2>1. archive' = archive
    BY <1>5, CallbackChanges DEF CallbackEffect
  <2>2. CASE AppendRow(r) /\ d = store /\ s = r
    <3>1. rows'[d][s] = Append(rows[d][s], <<frame[s], origin[s]>>) /\ <<frame[s], origin[s]>> \in Nat \X Nat
      BY <1>2, <2>2, AppendRowEffect, AppendedIsOwn
    <3>2. Len(rows'[d][s]) = Len(rows[d][s]) + 1
      BY <1>2, <3>1, RowAppended
    <3>3. archive'[d][s] = SubSeq(rows'[d][s], 1, n)
      BY <1>1, <1>2, <2>1, <3>1, PrefixKept
    <3>4. n \in 0..Len(rows'[d][s])
      BY <1>3, <3>2
    <3>5. QED
      BY <3>3, <3>4
  <2>3. CASE ~(AppendRow(r) /\ d = store /\ s = r)
    <3>1. rows'[d][s] = rows[d][s]
      BY <1>2, <1>5, <2>3, CallbackChanges, OtherRowsKept DEF CallbackEffect
    <3>2. QED
      BY <1>1, <2>1, <3>1
  <2>4. QED
    BY <2>2, <2>3
<1>6. CASE UNCHANGED vars
  BY <1>1, <1>6 DEF vars, buffers, files
<1>7. QED
  BY <1>4, <1>5, <1>6 DEF Next

\* A manifest stays the last thing written of a demo.
LEMMA SettledStep == ASSUME IInv, [Next]_vars PROVE Settled'
<1> USE DEF IInv
<1>1. CASE Controller
  <2> SUFFICES ASSUME NEW d \in Demos, Written(d)'
               PROVE  d <= demos' /\ (d = store' => pc' \in {"clear", "stop", "stopping", "end"})
    BY DEF Settled
  <2>1. d \in Nat /\ d # 0 /\ demos \in Nat /\ store \in 0..demos
    BY CaptureAssumption DEF Demos, Typed, DemoType
  <2>2. CASE WriteManifest
    <3>1. UNCHANGED <<store, demos>> /\ pc' = "clear"
      BY <2>2 DEF WriteManifest, demo
    <3>2. d # store => manifest'[d] = manifest[d]
      BY <2>2, ManifestEffect
    <3>3. d # store => Written(d)
      BY <3>2 DEF Written
    <3>4. QED
      BY <2>1, <3>1, <3>3 DEF Settled
  <2>3. CASE ~WriteManifest
    <3>1. Written(d)
      BY <1>1, <2>3, ControllerChanges DEF ControllerEffect, Written
    <3>2. d <= demos /\ (d = store => pc \in {"clear", "stop", "stopping", "end"})
      BY <3>1 DEF Settled
    <3>3. CASE NewDemo
      BY <2>1, <3>2, <3>3 DEF NewDemo, SetStore
    <3>4. CASE ClearDemo
      BY <2>1, <3>2, <3>4 DEF ClearDemo, Main, SetStore, demo, Placed, Saving
    <3>5. CASE ~NewDemo /\ ~ClearDemo
      BY <1>1, <3>2, <3>5, ControllerChanges DEF ControllerEffect
    <3>6. QED
      BY <3>3, <3>4, <3>5
  <2>4. QED
    BY <2>2, <2>3
<1>2. ASSUME NEW s \in Streams, Callback(s) PROVE Settled'
  BY <1>2, CallbackChanges DEF CallbackEffect, Settled, Written
<1>3. CASE UNCHANGED vars
  BY <1>3 DEF vars, files, demo, main, Settled, Written
<1>4. QED
  BY <1>1, <1>2, <1>3 DEF Next

\* What a callback changes of what is being saved: nothing, or rows of an aborted demo.
LEMMA SavedMeanwhile ==
  ASSUME IInv, NEW s \in Streams, Callback(s), NEW d \in Demos, NEW r \in Streams
  PROVE  /\ pc \notin {"loop", "abort"} \/ d # store => whole'[d][r] = whole[d][r]
         /\ pc \in Saving /\ ~quitting => rows'[d][r] = rows[d][r]
<1> USE DEF IInv
<1>1. CASE AppendRow(s) /\ d = store /\ r = s
  <2>1. at[s] = "append" /\ whole'[d][r] = IF Whole(s) THEN whole[d][r] \cup {<<stretch, frame[s]>>} ELSE whole[d][r]
    BY <1>1, AppendRowEffect
  <2>2. Loud
    BY <2>1 DEF Quiet
  <2>3. QED
    BY <1>1, <2>1, <2>2 DEF Whole, Loud, Saving
<1>2. CASE ~(AppendRow(s) /\ d = store /\ r = s)
  BY <1>2, CallbackChanges, OtherRowsKept DEF CallbackEffect
<1>3. QED
  BY <1>1, <1>2

\* A buffer that has just been written is saved, and those before it still are.
LEMMA SavedBuffer ==
  ASSUME IInv, SaveBuffer
  PROVE  /\ pc' = "save" => \A s \in Streams \ iter'.left : Covers(store, s)' /\ (quitting' \/ Matches(store, s)')
         /\ pc' = "count" => \A s \in Streams : Covers(store, s)' /\ (quitting' \/ Matches(store, s)')
<1> USE DEF IInv
<1>1. PICK t \in iter.left : /\ \A d \in Demos, r \in Streams :
                                  archive'[d][r] = IF d = store /\ r = t THEN rows[d][r] ELSE archive[d][r]
                             /\ iter'.left = iter.left \ {t}
                             /\ pc' = IF iter.left = {t} THEN "count" ELSE "save"
  BY SaveBufferEffect
<1>2. pc = "save" /\ store \in Demos
  BY SaveBufferEffect
<1>3. UNCHANGED <<store, rows, whole, quitting>>
  BY DEF SaveBuffer, Main, demo, buffers, receiver, past
<1>4. ASSUME NEW s \in Streams, s \notin iter.left \ {t}
      PROVE  Covers(store, s)' /\ (quitting' \/ Matches(store, s)')
  <2>1. CASE s = t
    <3>1. archive'[store][s] = rows[store][s]
      BY <1>1, <1>2, <2>1
    <3>2. \A w \in whole[store][s] : w[2] \in KeysIn(rows[store][s])
      BY <1>2 DEF Buffered
    <3>3. QED
      BY <1>3, <3>1, <3>2 DEF Covers, Matches
  <2>2. CASE s # t
    <3>1. archive'[store][s] = archive[store][s] /\ s \notin iter.left
      BY <1>1, <1>2, <1>4, <2>2
    <3>2. Covers(store, s) /\ (quitting \/ Matches(store, s))
      BY <1>2, <3>1 DEF Saved
    <3>3. QED
      BY <1>3, <3>1, <3>2 DEF Covers, Matches
  <2>3. QED
    BY <2>1, <2>2
<1>5. QED
  BY <1>1, <1>4

\* What a manifest is going to say, or says, is what has been saved.
LEMMA SavedStep == ASSUME IInv, [Next]_vars PROVE Saved'
<1> USE DEF IInv
<1>1. CASE Controller
  <2>1. UNCHANGED <<rows, whole>> /\ (quitting => quitting')
    BY <1>1, ControllerChanges DEF ControllerEffect, Quit, Main, Placed, Saving
  <2>2. ASSUME pc' = "save", NEW s \in Streams \ iter'.left
        PROVE  Covers(store, s)' /\ (quitting' \/ Matches(store, s)')
    BY <1>1, <2>2, ControllerChanges, SavedBuffer DEF ControllerEffect
  <2>3. ASSUME pc' = "count", task'.npz, NEW s \in Streams
        PROVE  Covers(store, s)' /\ (quitting' \/ Matches(store, s)')
    BY <1>1, <2>3, ControllerChanges, SavedBuffer DEF ControllerEffect
  <2>4. ASSUME pc' = "summary", task'.npz, NEW s \in Streams
        PROVE  Covers(store, s)' /\ (quitting' \/ draft'.counts[s] = Len(archive'[store'][s]))
    <3>1. CASE CountFrames
      <4>1. /\ pc = "count" /\ UNCHANGED <<store, archive, task>>
            /\ draft'.counts[s] = Len(rows[store][s])
        BY <3>1 DEF CountFrames, Main, demo, files
      <4>2. Covers(store, s) /\ (quitting \/ Matches(store, s))
        BY <2>4, <4>1 DEF Saved
      <4>3. QED
        BY <2>1, <4>1, <4>2 DEF Covers, Matches
    <3>2. CASE Summarize
      <4>1. pc = "summary" /\ UNCHANGED <<store, archive, task>> /\ draft'.counts = draft.counts
        BY <3>2 DEF Summarize, Main, demo, files, Typed, MainType
      <4>2. Covers(store, s) /\ (quitting \/ draft.counts[s] = Len(archive[store][s]))
        BY <2>4, <4>1 DEF Saved
      <4>3. QED
        BY <2>1, <4>1, <4>2 DEF Covers
    <3>3. QED
      BY <1>1, <2>4, <3>1, <3>2, ControllerChanges DEF ControllerEffect
  <2>5. ASSUME NEW d \in Demos, NEW s \in Streams, Written(d)', manifest'[d].npz
        PROVE  Covers(d, s)' /\ (quitting' \/ manifest'[d].counts[s] = Len(archive'[d][s]))
    <3>1. CASE WriteManifest /\ d = store
      <4>1. /\ pc = "summary" /\ archive' = archive
            /\ manifest'[d].npz = task.npz /\ manifest'[d].counts = draft.counts
        BY <3>1, ManifestEffect DEF WriteManifest
      <4>2. Covers(store, s) /\ (quitting \/ draft.counts[s] = Len(archive[store][s]))
        BY <2>5, <4>1 DEF Saved
      <4>3. QED
        BY <2>1, <3>1, <4>1, <4>2 DEF Covers
    <3>2. CASE ~(WriteManifest /\ d = store)
      <4>1. manifest'[d] = manifest[d]
        BY <1>1, <3>2, ControllerChanges, ManifestEffect DEF ControllerEffect
      <4>2. Written(d) /\ manifest[d].npz
        BY <2>5, <4>1 DEF Written
      <4>3. ~(SaveBuffer /\ d = store)
        BY <4>2, SaveBufferEffect DEF Settled
      <4>4. archive'[d][s] = archive[d][s]
        BY <1>1, <4>3, ControllerChanges, SaveBufferEffect DEF ControllerEffect
      <4>5. Covers(d, s) /\ (quitting \/ manifest[d].counts[s] = Len(archive[d][s]))
        BY <4>2 DEF Saved
      <4>6. QED
        BY <2>1, <4>1, <4>4, <4>5 DEF Covers
    <3>3. QED
      BY <3>1, <3>2
  <2>6. QED
    BY <2>2, <2>3, <2>4, <2>5 DEF Saved
<1>2. ASSUME NEW s \in Streams, Callback(s) PROVE Saved'
  <2>1. UNCHANGED <<store, archive, manifest, pc, task, iter, draft, quitting>>
    BY <1>2, CallbackChanges DEF CallbackEffect
  <2>2. ASSUME NEW d \in Demos, NEW r \in Streams, pc \notin {"loop", "abort"} \/ d # store, Covers(d, r)
        PROVE  Covers(d, r)'
    BY <1>2, <2>1, <2>2, SavedMeanwhile DEF Covers
  <2>3. ASSUME NEW d \in Demos, NEW r \in Streams, pc \in Saving, ~quitting, Matches(d, r)
        PROVE  Matches(d, r)'
    BY <1>2, <2>1, <2>3, SavedMeanwhile DEF Matches
  <2>4. pc \in Saving => store \in Demos
    BY CaptureAssumption DEF Placed, Saving, Typed, DemoType, Demos
  <2>5. ASSUME NEW d \in Demos, Written(d)' PROVE Written(d) /\ (pc \notin {"loop", "abort"} \/ d # store)
    BY <2>1, <2>5 DEF Settled, Written
  <2>6. ASSUME pc' = "save", NEW r \in Streams \ iter'.left
        PROVE  Covers(store, r)' /\ (quitting' \/ Matches(store, r)')
    BY <2>1, <2>2, <2>3, <2>4, <2>6 DEF Saved, Saving
  <2>7. ASSUME pc' = "count", task'.npz, NEW r \in Streams
        PROVE  Covers(store, r)' /\ (quitting' \/ Matches(store, r)')
    BY <2>1, <2>2, <2>3, <2>4, <2>7 DEF Saved, Saving
  <2>8. ASSUME pc' = "summary", task'.npz, NEW r \in Streams
        PROVE  Covers(store, r)' /\ (quitting' \/ draft'.counts[r] = Len(archive'[store'][r]))
    BY <2>1, <2>2, <2>3, <2>4, <2>8 DEF Saved, Saving
  <2>9. ASSUME NEW d \in Demos, NEW r \in Streams, Written(d)', manifest'[d].npz
        PROVE  Covers(d, r)' /\ (quitting' \/ manifest'[d].counts[r] = Len(archive'[d][r]))
    BY <2>1, <2>2, <2>5, <2>9 DEF Saved
  <2>10. QED
    BY <2>6, <2>7, <2>8, <2>9 DEF Saved
<1>3. CASE UNCHANGED vars
  BY <1>3 DEF vars, files, demo, buffers, main, receiver, past, Saved, Covers, Matches, Written
<1>4. QED
  BY <1>1, <1>2, <1>3 DEF Next

-----------------------------------------------------------------------------
\* What a monitor says after a callback has given it a frame.
LEMMA MonitorMoves ==
  ASSUME IInv, NEW s \in Streams, Callback(s), NEW d \in 0..MaxDemos, NEW r \in Streams
  PROVE  \/ monitor'[d][r] = monitor[d][r]
         \/ d = 0 /\ r = s /\ Receive(s) /\ monitor'[d][r] = Observed(monitor[d][r], frame'[s])
         \/ /\ d = store /\ d # 0 /\ r = s /\ ObserveDemo(s)
            /\ monitor'[d][r] = Observed(monitor[d][r], frame[s])
<1>1. Typed
  BY DEF IInv
<1>2. CASE Receive(s)
  BY <1>1, <1>2, ReceiveEffect
<1>3. CASE ObserveDemo(s)
  BY <1>1, <1>3, ObserveDemoEffect
<1>4. CASE monitor' = monitor
  BY <1>4
<1>5. QED
  BY <1>2, <1>3, <1>4, CallbackChanges DEF CallbackEffect

\* What a monitor says after a step of the main thread: it may have lost its previous frame.
LEMMA MonitorResets ==
  ASSUME IInv, Controller, NEW d \in 0..MaxDemos, NEW s \in Streams
  PROVE  /\ Missed(d, s)' = Missed(d, s) /\ Previous(d, s)' \in {0, Previous(d, s)}
         /\ monitor'[d][s].known = monitor[d][s].known
         /\ Previous(d, s)' # Previous(d, s) => pc \in {"reset_start", "reset_pause"}
<1>1. monitor[d][s] \in Monitors /\ Typed
  BY DEF IInv, Typed, BufferType
<1>2. CASE ResetBaseline
  <2>1. \/ monitor'[d][s] = monitor[d][s]
        \/ monitor'[d][s] = [monitor[d][s] EXCEPT !.previous = 0]
    BY <1>1, <1>2, ResetBaselineEffect
  <2>2. pc \in {"reset_start", "reset_pause"}
    BY <1>2 DEF ResetBaseline, Resetting
  <2>3. QED
    BY <1>1, <2>1, <2>2 DEF Missed, Previous, Monitors
<1>3. CASE monitor' = monitor
  BY <1>3 DEF Missed, Previous
<1>4. QED
  BY <1>2, <1>3, ControllerChanges DEF ControllerEffect

\* Frames and losses only grow.
LEMMA FramesGrow ==
  ASSUME IInv, [Next]_vars, NEW s \in Streams
  PROVE  /\ frame[s] \in Nat /\ lost[s] \in Nat /\ frame'[s] \in Nat /\ lost'[s] \in Nat
         /\ frame[s] <= frame'[s] /\ lost[s] <= lost'[s]
<1>1. frame[s] \in Nat /\ lost[s] \in Nat
  BY DEF IInv, Typed, ReceiverType
<1>2. CASE Controller
  BY <1>1, <1>2, ControllerChanges DEF ControllerEffect
<1>3. ASSUME NEW r \in Streams, Callback(r)
      PROVE  /\ frame'[s] \in Nat /\ lost'[s] \in Nat
             /\ frame[s] <= frame'[s] /\ lost[s] <= lost'[s]
  <2>1. CASE Receive(r)
    <3>1. PICK gap \in {0, 1} : /\ frame' = [frame EXCEPT ![r] = frame[r] + gap + 1]
                                /\ lost' = [lost EXCEPT ![r] = lost[r] + gap]
      BY <2>1, ReceiveEffect DEF IInv
    <3>2. QED
      BY <1>1, <3>1 DEF IInv, Typed, ReceiverType
  <2>2. CASE UNCHANGED <<frame, lost>>
    BY <1>1, <2>2
  <2>3. QED
    BY <1>3, <2>1, <2>2, CallbackChanges DEF CallbackEffect
<1>4. CASE UNCHANGED vars
  BY <1>1, <1>4 DEF vars, receiver
<1>5. QED
  BY <1>1, <1>2, <1>3, <1>4 DEF Next

\* No monitor reports more than was lost, and none knows a frame that has not come.
LEMMA MonitoredStep == ASSUME IInv, [Next]_vars PROVE Monitored'
<1>1. ASSUME NEW d \in 0..MaxDemos, NEW s \in Streams
      PROVE  /\ ~monitor'[d][s].known => Missed(d, s)' = 0 /\ Previous(d, s)' = 0
             /\ Previous(d, s)' <= frame'[s] /\ Missed(d, s)' <= lost'[s]
             /\ d = 0 => Previous(d, s)' \in {0, frame'[s]}
  <2>1. /\ ~monitor[d][s].known => Missed(d, s) = 0 /\ Previous(d, s) = 0
        /\ Previous(d, s) <= frame[s] /\ Missed(d, s) <= lost[s]
        /\ d = 0 => Previous(d, s) \in {0, frame[s]}
    BY DEF IInv, Monitored
  <2>2. /\ frame[s] \in Nat /\ lost[s] \in Nat /\ frame'[s] \in Nat /\ lost'[s] \in Nat
        /\ frame[s] <= frame'[s] /\ lost[s] <= lost'[s]
    BY FramesGrow
  <2>3. Missed(d, s) \in Nat /\ Previous(d, s) \in Nat /\ monitor[d][s] \in Monitors
    BY DEF IInv, Typed, BufferType, Monitors, Missed, Previous
  <2>4. CASE Controller
    <3>1. frame' = frame
      BY <2>4, ControllerChanges DEF ControllerEffect
    <3>2. QED
      BY <2>1, <2>2, <2>3, <2>4, <3>1, MonitorResets
  <2>5. ASSUME NEW r \in Streams, Callback(r), monitor'[d][s] = monitor[d][s], d = 0 => ~(Receive(r) /\ r = s)
        PROVE  /\ ~monitor'[d][s].known => Missed(d, s)' = 0 /\ Previous(d, s)' = 0
               /\ Previous(d, s)' <= frame'[s] /\ Missed(d, s)' <= lost'[s]
               /\ d = 0 => Previous(d, s)' \in {0, frame'[s]}
    <3>1. d = 0 => frame'[s] = frame[s]
      BY <2>5, CallbackChanges, ReceiveEffect DEF CallbackEffect, IInv, Typed, ReceiverType
    <3>2. Missed(d, s)' = Missed(d, s) /\ Previous(d, s)' = Previous(d, s)
      BY <2>5 DEF Missed, Previous
    <3>3. QED
      BY <2>1, <2>2, <2>3, <2>5, <3>1, <3>2
  <2>6. ASSUME NEW r \in Streams, Receive(r), d = 0, r = s
        PROVE  /\ ~monitor'[d][s].known => Missed(d, s)' = 0 /\ Previous(d, s)' = 0
               /\ Previous(d, s)' <= frame'[s] /\ Missed(d, s)' <= lost'[s]
               /\ d = 0 => Previous(d, s)' \in {0, frame'[s]}
    <3>1. monitor'[d][s] = Observed(monitor[d][s], frame'[s])
      BY <2>6, ReceiveEffect DEF IInv
    <3>2. PICK gap \in {0, 1} : frame'[s] = frame[s] + gap + 1 /\ lost'[s] = lost[s] + gap
      BY <2>6, ReceiveEffect DEF IInv, Typed, ReceiverType
    <3>3. /\ monitor'[d][s].known /\ Previous(d, s)' = frame'[s]
          /\ Previous(d, s) = 0 => Missed(d, s)' = Missed(d, s)
          /\ Previous(d, s) # 0 /\ Previous(d, s) < frame'[s] =>
               Missed(d, s)' = Missed(d, s) + (frame'[s] - Previous(d, s) - 1)
      <4> DEFINE m == Observed(monitor[d][s], frame'[s])
      <4>1. /\ m.known /\ m.previous = frame'[s]
            /\ monitor[d][s].previous = 0 => m.missing = monitor[d][s].missing
            /\ monitor[d][s].previous # 0 /\ monitor[d][s].previous < frame'[s] =>
                 m.missing = monitor[d][s].missing + (frame'[s] - monitor[d][s].previous - 1)
        BY <2>2, <2>3, ObservedTyped
      <4>2. QED
        BY <3>1, <4>1 DEF Missed, Previous
    <3>4. QED
      BY <2>1, <2>2, <2>3, <2>6, <3>2, <3>3
  <2>7. ASSUME NEW r \in Streams, ObserveDemo(r), d = store, d # 0, r = s,
               monitor'[d][s] = Observed(monitor[d][s], frame[s])
        PROVE  /\ ~monitor'[d][s].known => Missed(d, s)' = 0 /\ Previous(d, s)' = 0
               /\ Previous(d, s)' <= frame'[s] /\ Missed(d, s)' <= lost'[s]
               /\ d = 0 => Previous(d, s)' \in {0, frame'[s]}
    <3>1. /\ monitor'[d][s].known /\ Previous(d, s)' = frame[s]
          /\ Previous(d, s) = 0 => Missed(d, s)' = Missed(d, s)
          /\ Previous(d, s) # 0 /\ Previous(d, s) < frame[s] =>
               Missed(d, s)' = Missed(d, s) + (frame[s] - Previous(d, s) - 1)
      <4> DEFINE m == Observed(monitor[d][s], frame[s])
      <4>1. /\ m.known /\ m.previous = frame[s]
            /\ monitor[d][s].previous = 0 => m.missing = monitor[d][s].missing
            /\ monitor[d][s].previous # 0 /\ monitor[d][s].previous < frame[s] =>
                 m.missing = monitor[d][s].missing + (frame[s] - monitor[d][s].previous - 1)
        BY <2>2, <2>3, ObservedTyped
      <4>2. QED
        BY <2>7, <4>1 DEF Missed, Previous
    <3>2. /\ Previous(d, s) < frame[s]
          /\ Previous(d, s) # 0 => Missed(d, s) + (frame[s] - Previous(d, s) - 1) <= lost[s]
      <4>1. d \in Demos
        BY <2>7, CaptureAssumption DEF Demos
      <4>2. QED
        BY <2>7, <4>1, ObserveDemoEffect DEF IInv, Watched
    <3>3. QED
      BY <2>1, <2>2, <2>3, <2>7, <3>1, <3>2
  <2>8. CASE UNCHANGED vars
    BY <2>1, <2>8 DEF vars, buffers, receiver, Missed, Previous
  <2>9. ASSUME NEW r \in Streams, Callback(r)
        PROVE  /\ ~monitor'[d][s].known => Missed(d, s)' = 0 /\ Previous(d, s)' = 0
               /\ Previous(d, s)' <= frame'[s] /\ Missed(d, s)' <= lost'[s]
               /\ d = 0 => Previous(d, s)' \in {0, frame'[s]}
    BY <2>5, <2>6, <2>7, <2>9, MonitorMoves
  <2>10. QED
    BY <2>4, <2>8, <2>9 DEF Next
<1>2. 0 \in 0..MaxDemos
  BY CaptureAssumption
<1>3. QED
  BY <1>1, <1>2 DEF Monitored

\* A callback of one stream leaves the others alone.
LEMMA OtherStreamKept ==
  ASSUME IInv, NEW r \in Streams, Callback(r), NEW s \in Streams, s # r
  PROVE  /\ at'[s] = at[s] /\ frame'[s] = frame[s] /\ lost'[s] = lost[s] /\ (s \in inflight' <=> s \in inflight)
         /\ \A d \in 0..MaxDemos : monitor'[d][s] = monitor[d][s]
         /\ \A d \in Demos : whole'[d][s] = whole[d][s]
<1> USE DEF IInv
<1>1. at'[s] = at[s] /\ (s \in inflight' <=> s \in inflight)
  <2> USE DEF Typed, ReceiverType, Receiver, Goto, Return
  <2>1. CASE Receive(r)
    BY <2>1 DEF Receive
  <2>2. CASE ObserveDemo(r)
    BY <2>2 DEF ObserveDemo
  <2>3. CASE TestStateAgain(r)
    BY <2>3 DEF TestStateAgain
  <2>4. CASE AppendRow(r)
    BY <2>4 DEF AppendRow
  <2>5. CASE AppendFails(r)
    BY <2>5 DEF AppendFails
  <2>6. QED
    BY <2>1, <2>2, <2>3, <2>4, <2>5 DEF Callback
<1>2. frame'[s] = frame[s] /\ lost'[s] = lost[s]
  BY CallbackChanges DEF CallbackEffect, Receive, Typed, ReceiverType
<1>3. \A d \in 0..MaxDemos : monitor'[d][s] = monitor[d][s]
  BY MonitorMoves
<1>4. \A d \in Demos : whole'[d][s] = whole[d][s]
  BY CallbackChanges, OtherRowsKept DEF CallbackEffect
<1>5. QED
  BY <1>1, <1>2, <1>3, <1>4

\* The monitors of a collecting demo have seen every frame.
LEMMA WatchedStep == ASSUME IInv, [Next]_vars PROVE Watched'
<1> USE DEF IInv
<1> SUFFICES ASSUME NEW d \in Demos, NEW s \in Streams, d = store'
             PROVE  /\ state' = "COLLECTING" /\ at'[s] # "store" => Previous(d, s)' \in {0, frame'[s]}
                    /\ at'[s] = "store" =>
                         /\ Previous(d, s)' < frame'[s]
                         /\ Previous(d, s)' # 0 =>
                              Missed(d, s)' + (frame'[s] - Previous(d, s)' - 1) <= lost'[s]
  BY DEF Watched
<1>1. d # 0 /\ d \in 0..MaxDemos
  BY CaptureAssumption DEF Demos
<1>2. d = store => /\ state = "COLLECTING" /\ at[s] # "store" => Previous(d, s) \in {0, frame[s]}
                   /\ at[s] = "store" =>
                        /\ Previous(d, s) < frame[s]
                        /\ Previous(d, s) # 0 => Missed(d, s) + (frame[s] - Previous(d, s) - 1) <= lost[s]
  BY DEF Watched
<1>3. CASE Controller
  <2>1. UNCHANGED <<at, frame, lost>>
    BY <1>3, ControllerChanges DEF ControllerEffect
  <2>2. CASE NewDemo
    BY <2>1, <2>2 DEF NewDemo, Main, Quiet, Loud, Placed, Saving
  <2>3. ASSUME ~NewDemo PROVE d = store
    BY <1>1, <1>3, <2>3, ControllerChanges DEF ControllerEffect, ClearDemo, SetStore
  <2>4. CASE Collect
    <3>1. at[s] # "store" /\ UNCHANGED <<store, monitor>> /\ pc = "collect"
      BY <2>4 DEF Collect, Main, Quiet, Loud, Placed, Saving, buffers
    <3>2. QED
      BY <2>1, <3>1 DEF Rebased, Previous
  <2>5. CASE pc \in {"reset_start", "reset_pause"}
    <3>1. at[s] # "store" /\ state # "COLLECTING"
      BY <2>5 DEF Quiet, Loud, Placed, Saving
    <3>2. ~Collect
      BY <2>5 DEF Collect, Main
    <3>3. QED
      BY <1>3, <2>1, <3>1, <3>2, ControllerChanges DEF ControllerEffect
  <2>6. CASE ~NewDemo /\ ~Collect /\ pc \notin {"reset_start", "reset_pause"}
    <3>1. Missed(d, s)' = Missed(d, s) /\ Previous(d, s)' = Previous(d, s)
      BY <1>1, <1>3, <2>6, MonitorResets
    <3>2. state' = state \/ state' # "COLLECTING"
      BY <1>3, <2>6, ControllerChanges DEF ControllerEffect
    <3>3. QED
      BY <1>2, <2>1, <2>3, <2>6, <3>1, <3>2
  <2>7. QED
    BY <2>2, <2>4, <2>5, <2>6
<1>4. ASSUME NEW r \in Streams, Callback(r)
      PROVE  /\ state' = "COLLECTING" /\ at'[s] # "store" => Previous(d, s)' \in {0, frame'[s]}
             /\ at'[s] = "store" =>
                  /\ Previous(d, s)' < frame'[s]
                  /\ Previous(d, s)' # 0 =>
                       Missed(d, s)' + (frame'[s] - Previous(d, s)' - 1) <= lost'[s]
  <2>1. UNCHANGED <<store, state>> /\ d = store
    BY <1>4, CallbackChanges DEF CallbackEffect
  <2>2. CASE s # r
    BY <1>1, <1>2, <1>4, <2>1, <2>2, OtherStreamKept DEF Missed, Previous
  <2>3. CASE Receive(s)
    <3>1. monitor'[d][s] = monitor[d][s]
      BY <1>1, <2>3, ReceiveEffect
    <3>2. /\ at[s] = "idle" /\ at'[s] = IF state = "COLLECTING" THEN "store" ELSE "state_again"
      BY <2>3, ReceiveEffect DEF Typed, ReceiverType
    <3>3. PICK gap \in {0, 1} : frame'[s] = frame[s] + gap + 1 /\ lost'[s] = lost[s] + gap
      BY <2>3, ReceiveEffect DEF Typed, ReceiverType
    <3>4. /\ frame[s] \in Nat /\ lost[s] \in Nat /\ Missed(d, s) \in Nat /\ Previous(d, s) \in Nat
          /\ Missed(d, s) <= lost[s]
      BY <1>1 DEF Typed, ReceiverType, BufferType, Monitors, Missed, Previous, Monitored
    <3>5. Missed(d, s)' = Missed(d, s) /\ Previous(d, s)' = Previous(d, s)
      BY <3>1 DEF Missed, Previous
    <3>6. QED
      BY <1>2, <2>1, <3>2, <3>3, <3>4, <3>5
  <2>4. CASE ObserveDemo(s)
    <3>1. /\ at' = [at EXCEPT ![s] = "state_again"] /\ frame' = frame
          /\ monitor'[d][s] = Observed(monitor[d][s], frame[s])
      BY <1>1, <2>1, <2>4, ObserveDemoEffect
    <3>2. at'[s] = "state_again" /\ Previous(d, s)' = frame'[s]
      BY <3>1 DEF Typed, ReceiverType, Previous, Observed
    <3>3. QED
      BY <3>2
  <2>5. ASSUME TestStateAgain(s) \/ AppendRow(s) \/ AppendFails(s)
        PROVE  at[s] # "store" /\ at'[s] # "store" /\ UNCHANGED <<frame, lost, monitor>>
    BY <2>5
       DEF TestStateAgain, AppendRow, AppendFails, Receiver, Goto, Return, buffers, Typed,
           ReceiverType
  <2>6. CASE TestStateAgain(s) \/ AppendRow(s) \/ AppendFails(s)
    BY <1>2, <2>1, <2>5, <2>6 DEF Missed, Previous
  <2>7. QED
    BY <1>4, <2>2, <2>3, <2>4, <2>6 DEF Callback
<1>5. CASE UNCHANGED vars
  BY <1>2, <1>5 DEF vars, receiver, demo, buffers, Missed, Previous
<1>6. QED
  BY <1>3, <1>4, <1>5 DEF Next

\* A reset begins with the monitors of the run, and only its end leads to collecting.
LEMMA NextResets ==
  ASSUME Controller, ~ResetBaseline, ~ResetDemoMonitors, ~ResetDone
  PROVE  pc' # "collect" /\ (pc' \in {"reset_start", "reset_pause"} => iter'.of = 0)
<1> USE DEF Main, Answered, Iterate, main
<1>1. CASE NewDemo
  BY <1>1 DEF NewDemo
<1>2. CASE ResumeDemo
  BY <1>2 DEF ResumeDemo
<1>3. CASE PauseDemo
  BY <1>3 DEF PauseDemo
<1>4. CASE FinishDemo
  BY <1>4 DEF FinishDemo, Leave
<1>5. CASE DiscardDemo
  BY <1>5 DEF DiscardDemo, Leave
<1>6. CASE Quit
  BY <1>6 DEF Quit
<1>7. CASE Fatal
  BY <1>7 DEF Fatal
<1>8. CASE StartSucceeded
  BY <1>8 DEF StartSucceeded, Succeeded
<1>9. CASE StartFailed
  BY <1>9 DEF StartFailed, Settle
<1>10. CASE PauseSucceeded
  BY <1>10 DEF PauseSucceeded, Succeeded
<1>11. CASE PauseFailed
  BY <1>11 DEF PauseFailed, Settle
<1>12. CASE FinishAnswered
  BY <1>12 DEF FinishAnswered, Settle
<1>13. CASE DiscardAnswered
  BY <1>13 DEF DiscardAnswered, Settle
<1>14. CASE AbortAnswered
  BY <1>14 DEF AbortAnswered, Settle
<1>15. CASE Collect
  BY <1>15 DEF Collect
<1>16. CASE Raise
  BY <1>16 DEF Raise
<1>17. CASE SaveBuffer
  BY <1>17 DEF SaveBuffer
<1>18. CASE CountFrames
  BY <1>18 DEF CountFrames
<1>19. CASE Summarize
  BY <1>19 DEF Summarize
<1>20. CASE WriteManifest
  BY <1>20 DEF WriteManifest
<1>21. CASE ClearDemo
  BY <1>21 DEF ClearDemo
<1>22. CASE WaitStart
  BY <1>22 DEF WaitStart
<1>23. CASE BeginStop
  BY <1>23 DEF BeginStop
<1>24. CASE StopReceivers
  BY <1>24 DEF StopReceivers
<1>25. QED
  BY <1>1, <1>2, <1>3, <1>4, <1>5, <1>6, <1>7, <1>8, <1>9, <1>10, <1>11, <1>12, <1>13, <1>14,
     <1>15, <1>16, <1>17, <1>18, <1>19, <1>20, <1>21, <1>22, <1>23, <1>24
     DEF Controller

\* After a reset no monitor of the demo has a previous frame.
LEMMA RebasedStep == ASSUME IInv, [Next]_vars PROVE Rebased'
<1> USE DEF IInv
<1> SUFFICES ASSUME NEW d \in Demos, NEW s \in Streams, d = store'
             PROVE  /\ pc' \in {"reset_start", "reset_pause"} /\ iter'.of # 0 /\ s \notin iter'.left =>
                         Previous(d, s)' = 0
                    /\ pc' = "collect" => Previous(d, s)' = 0
  BY DEF Rebased
<1>1. d # 0 /\ d \in 0..MaxDemos
  BY CaptureAssumption DEF Demos
<1>2. d = store => /\ pc \in {"reset_start", "reset_pause"} /\ iter.of # 0 /\ s \notin iter.left => Previous(d, s) = 0
                   /\ pc = "collect" => Previous(d, s) = 0
  BY DEF Rebased
<1>3. CASE Controller
  <2>1. Previous(d, s)' \in {0, Previous(d, s)}
    BY <1>1, <1>3, MonitorResets
  <2>2. CASE ResetBaseline
    <3>1. PICK t \in iter.left : /\ \A e \in 0..MaxDemos, q \in Streams :
                                      monitor'[e][q] = IF e = iter.of /\ q = t
                                                         THEN [monitor[e][q] EXCEPT !.previous = 0]
                                                         ELSE monitor[e][q]
                                 /\ iter' = [iter EXCEPT !.left = iter.left \ {t}]
      BY <2>2, ResetBaselineEffect
    <3>2. /\ pc' = pc /\ store' = store /\ pc \in {"reset_start", "reset_pause"}
      BY <2>2 DEF ResetBaseline, Resetting, demo
    <3>3. iter'.of = iter.of /\ iter'.left = iter.left \ {t}
      BY <3>1 DEF Typed, MainType
    <3>4. iter.of \in {0, d}
      BY <3>2 DEF Placed
    <3>5. CASE iter.of = d /\ s = t
      <4>1. monitor'[d][s] = [monitor[d][s] EXCEPT !.previous = 0] /\ monitor[d][s] \in Monitors
        BY <1>1, <3>1, <3>5 DEF Typed, BufferType
      <4>2. Previous(d, s)' = 0
        BY <4>1 DEF Previous, Monitors
      <4>3. QED
        BY <4>2
    <3>6. CASE iter.of = d /\ s # t
      BY <1>1, <1>2, <2>1, <3>2, <3>3, <3>6
    <3>7. CASE iter.of = 0
      BY <3>2, <3>3, <3>7
    <3>8. QED
      BY <3>4, <3>5, <3>6, <3>7
  <2>3. CASE ResetDemoMonitors
    <3>1. UNCHANGED <<store, monitor, pc>> /\ iter'.left = Known(store) /\ pc \in {"reset_start", "reset_pause"}
      BY <2>3 DEF ResetDemoMonitors, Resetting, Iterate, demo, buffers
    <3>2. s \notin Known(d) => Previous(d, s) = 0
      BY <1>1 DEF Known, Monitored
    <3>3. QED
      BY <2>1, <3>1, <3>2
  <2>4. CASE ResetDone
    <3>1. store' = store /\ pc \in {"reset_start", "reset_pause"} /\ iter.left = {} /\ iter.of # 0
      BY <2>4 DEF ResetDone, Resetting, demo
    <3>2. QED
      BY <1>2, <2>1, <3>1
  <2>5. CASE ~ResetBaseline /\ ~ResetDemoMonitors /\ ~ResetDone
    <3>1. pc' # "collect" /\ (pc' \in {"reset_start", "reset_pause"} => iter'.of = 0)
      BY <1>3, <2>5, NextResets
    <3>2. QED
      BY <3>1
  <2>6. QED
    BY <2>2, <2>3, <2>4, <2>5
<1>4. ASSUME NEW r \in Streams, Callback(r)
      PROVE  /\ pc' \in {"reset_start", "reset_pause"} /\ iter'.of # 0 /\ s \notin iter'.left => Previous(d, s)' = 0
             /\ pc' = "collect" => Previous(d, s)' = 0
  <2>1. UNCHANGED <<store, pc, iter>> /\ d = store
    BY <1>4, CallbackChanges DEF CallbackEffect
  <2>2. SUFFICES ASSUME pc \in {"reset_start", "reset_pause", "collect"} PROVE monitor'[d][s] = monitor[d][s]
    BY <1>2, <2>1 DEF Previous
  <2>3. ~ObserveDemo(r)
    BY <2>2 DEF ObserveDemo, Receiver, Quiet, Loud, Placed, Saving
  <2>4. QED
    BY <1>1, <1>4, <2>3, MonitorMoves
<1>5. CASE UNCHANGED vars
  BY <1>2, <1>5 DEF vars, demo, buffers, main, Previous
<1>6. QED
  BY <1>3, <1>4, <1>5 DEF Next

-----------------------------------------------------------------------------
\* What lies between whole callbacks depends on them alone.
LEMMA BetweenKept ==
  ASSUME NEW d, NEW s, whole'[d][s] = whole[d][s]
  PROVE  Between(d, s)' = Between(d, s)
BY DEF Between

\* What a monitor reports as missing only grows.
LEMMA MissedGrows ==
  ASSUME IInv, [Next]_vars, NEW d \in 0..MaxDemos, NEW s \in Streams
  PROVE  Missed(d, s) \in Nat /\ Missed(d, s)' \in Nat /\ Missed(d, s) <= Missed(d, s)'
<1>1. monitor[d][s] \in Monitors /\ Missed(d, s) \in Nat
  BY DEF IInv, Typed, BufferType, Monitors, Missed
<1>2. CASE Controller
  BY <1>1, <1>2, MonitorResets
<1>3. ASSUME NEW r \in Streams, Callback(r) PROVE Missed(d, s)' \in Nat /\ Missed(d, s) <= Missed(d, s)'
  <2>1. PICK key \in Nat : monitor'[d][s] \in {monitor[d][s], Observed(monitor[d][s], key)}
    <3>1. frame[s] \in Nat /\ frame'[s] \in Nat
      BY FramesGrow
    <3>2. QED
      BY <1>3, <3>1, MonitorMoves
  <2>2. Observed(monitor[d][s], key).missing \in Nat
        /\ monitor[d][s].missing <= Observed(monitor[d][s], key).missing
    BY <1>1, ObservedTyped DEF Monitors
  <2>3. QED
    BY <1>1, <2>1, <2>2 DEF Missed
<1>4. CASE UNCHANGED vars
  BY <1>1, <1>4 DEF vars, buffers, Missed
<1>5. QED
  BY <1>1, <1>2, <1>3, <1>4 DEF Next

\* The first whole callback of a stretch has no other to lie between.
LEMMA FirstOfStretch ==
  ASSUME NEW d, NEW s \in Streams, Stretched(d, s) = {}, frame[s] \in Nat,
         whole'[d][s] = whole[d][s] \cup {<<stretch, frame[s]>>}
  PROVE  Between(d, s)' \subseteq Between(d, s)
<1> SUFFICES ASSUME NEW k \in 1..MaxFrames[s], NEW v \in whole'[d][s], NEW w \in whole'[d][s],
                    v[1] = w[1], v[2] < k, k < w[2], \A u \in whole'[d][s] : u[2] # k
             PROVE  k \in Between(d, s)
  BY DEF Between
<1> DEFINE new == <<stretch, frame[s]>>
<1>1. \A u \in whole[d][s] : u[1] # stretch
  BY DEF Stretched
<1>2. new[1] = stretch /\ new[2] = frame[s] /\ v \in whole[d][s] \cup {new} /\ w \in whole[d][s] \cup {new}
  OBVIOUS
<1>3. CASE v \in whole[d][s] /\ w \in whole[d][s]
  BY <1>3 DEF Between
<1>4. CASE v = new /\ w = new
  <2>1. frame[s] < k /\ k < frame[s]
    BY <1>2, <1>4
  <2>2. QED
    BY <2>1, CaptureAssumption
<1>5. QED
  BY <1>1, <1>2, <1>3, <1>4

\* A later one adds the keys between the last before it and its own.
LEMMA NextOfStretch ==
  ASSUME NEW d, NEW s \in Streams, NEW m \in Stretched(d, s), m[2] \in Nat, frame[s] \in Nat, m[2] < frame[s],
         \A v \in whole[d][s] : v[2] \in Nat,
         \A v \in Stretched(d, s) : v[2] <= m[2],
         whole'[d][s] = whole[d][s] \cup {<<stretch, frame[s]>>}
  PROVE  Between(d, s)' \subseteq Between(d, s) \cup (m[2] + 1)..(frame[s] - 1)
<1> SUFFICES ASSUME NEW k \in 1..MaxFrames[s], NEW v \in whole'[d][s], NEW w \in whole'[d][s],
                    v[1] = w[1], v[2] < k, k < w[2], \A u \in whole'[d][s] : u[2] # k,
                    k \notin (m[2] + 1)..(frame[s] - 1)
             PROVE  k \in Between(d, s)
  BY DEF Between
<1> DEFINE new == <<stretch, frame[s]>>
<1>1. m \in whole[d][s] /\ m[1] = stretch
  BY DEF Stretched
<1>2. k \in Nat /\ m[2] # k
  BY <1>1, CaptureAssumption
<1>3. v \in whole[d][s] \cup {new} /\ w \in whole[d][s] \cup {new} /\ new[1] = stretch /\ new[2] = frame[s]
  OBVIOUS
<1>4. \A u \in whole[d][s] : u[2] # k
  OBVIOUS
<1>5. CASE v \in whole[d][s] /\ w \in whole[d][s]
  BY <1>4, <1>5 DEF Between
<1>6. CASE v = new
  <2>1. frame[s] < k /\ w[1] = stretch /\ w # new
    BY <1>2, <1>3, <1>6
  <2>2. w \in whole[d][s]
    BY <1>3, <2>1
  <2>3. w \in Stretched(d, s)
    BY <2>1, <2>2 DEF Stretched
  <2>4. w[2] \in Nat /\ w[2] <= m[2]
    BY <2>2, <2>3
  <2>5. QED
    BY <1>2, <2>1, <2>4
<1>7. CASE v \in whole[d][s] /\ w = new
  <2>1. v[1] = stretch /\ k < frame[s]
    BY <1>3, <1>7
  <2>2. k < m[2]
    BY <1>2, <2>1
  <2>3. QED
    BY <1>1, <1>4, <1>7, <2>1, <2>2 DEF Between
<1>8. QED
  BY <1>3, <1>5, <1>6, <1>7

\* The rows of whole callbacks of the demo are earlier than the frame of a callback under way.
LEMMA WholeEarlier ==
  ASSUME IInv, NEW d \in Demos, NEW s \in Streams, NEW w \in whole[d][s]
  PROVE  /\ w[1] \in 1..stretch /\ stretch \in Nat /\ frame[s] \in Nat
         /\ w[2] \in Nat /\ (Busy(s) => w[2] < frame[s])
<1> USE DEF IInv
<1>1. w[1] \in 1..stretch /\ w[2] \in KeysIn(rows[d][s])
  BY DEF Buffered
<1>2. PICK i \in DOMAIN rows[d][s] : w[2] = rows[d][s][i][1]
  BY <1>1 DEF KeysIn
<1>3. w[2] \in 1..LastKey(s)
  BY <1>2 DEF Buffered, Ordered
<1>4. frame[s] \in Nat /\ stretch \in Nat
  BY CaptureAssumption DEF Typed, ReceiverType, DemoType
<1>5. QED
  BY <1>1, <1>3, <1>4 DEF LastKey

\* A whole callback that appends leaves no more keys in between than were counted as missing.
LEMMA BetweenAppended ==
  ASSUME IInv, NEW s \in Streams, AppendRow(s), Whole(s), NEW d \in Demos, d = store
  PROVE  Cardinality(Between(d, s)') <= Missed(d, s)
<1> USE DEF IInv
<1>1. at[s] = "append" /\ whole'[d][s] = whole[d][s] \cup {<<stretch, frame[s]>>}
  BY AppendRowEffect
<1>2. Spanning(d, s) /\ Observing(s) /\ Busy(s)
  BY <1>1 DEF Spanned, Whole, Observing, Busy
<1>3. Cardinality(Between(d, s)) <= Missed(d, s) /\ Missed(d, s) \in Nat
  <2>1. d \in 0..MaxDemos
    BY CaptureAssumption DEF Demos
  <2>2. QED
    BY <2>1 DEF Spanned, Typed, BufferType, Monitors, Missed
<1>4. IsFiniteSet(Between(d, s)) /\ Cardinality(Between(d, s)) \in Nat
  BY BetweenCounted
<1>5. frame[s] \in Nat
  BY DEF Typed, ReceiverType
<1>6. CASE Stretched(d, s) = {}
  <2>1. Between(d, s)' \subseteq Between(d, s)
    BY <1>1, <1>5, <1>6, FirstOfStretch
  <2>2. Cardinality(Between(d, s)') <= Cardinality(Between(d, s)) /\ Cardinality(Between(d, s)') \in Nat
    BY <1>4, <2>1, FS_Subset, FS_CardinalityType
  <2>3. QED
    BY <1>3, <1>4, <2>2
<1>7. CASE Stretched(d, s) # {}
  <2>1. PICK m \in Stretched(d, s) : CountedFrom(d, s, m) /\ \A v \in Stretched(d, s) : v[2] <= m[2]
    BY <1>2, <1>7 DEF Spanning
  <2>2. m[2] \in Nat /\ m[2] < frame[s]
    BY <1>2, WholeEarlier DEF Stretched
  <2>3. \A v \in whole[d][s] : v[2] \in Nat
    BY WholeEarlier
  <2> DEFINE gap == (m[2] + 1)..(frame[s] - 1)
  <2>4. Between(d, s)' \subseteq Between(d, s) \cup gap
    BY <1>1, <1>5, <2>1, <2>2, <2>3, NextOfStretch
  <2>5. IsFiniteSet(gap) /\ Cardinality(gap) = frame[s] - m[2] - 1
    <3>1. m[2] + 1 \in Int /\ frame[s] - 1 \in Int
      BY <1>5, <2>2
    <3>2. IsFiniteSet(gap)
          /\ Cardinality(gap) = IF m[2] + 1 > frame[s] - 1 THEN 0 ELSE (frame[s] - 1) - (m[2] + 1) + 1
      BY <3>1, FS_Interval
    <3>3. QED
      BY <1>5, <2>2, <3>2
  <2>6. /\ IsFiniteSet(Between(d, s) \cup gap)
        /\ Cardinality(Between(d, s) \cup gap) =
             Cardinality(Between(d, s)) + Cardinality(gap) - Cardinality(Between(d, s) \cap gap)
        /\ Cardinality(Between(d, s) \cap gap) \in Nat
    BY <1>4, <2>5, FS_Union, FS_Intersection, FS_CardinalityType
  <2>7. Cardinality(Between(d, s)') <= Cardinality(Between(d, s) \cup gap) /\ Cardinality(Between(d, s)') \in Nat
    BY <2>4, <2>6, FS_Subset, FS_CardinalityType
  <2>8. QED
    BY <1>3, <1>4, <1>5, <2>1, <2>2, <2>5, <2>6, <2>7 DEF CountedFrom
<1>8. QED
  BY <1>6, <1>7

\* The keys between whole callbacks of a demo are at most those its monitor counts as missing.
LEMMA BetweenStep ==
  ASSUME IInv, [Next]_vars, NEW d \in Demos, NEW s \in Streams
  PROVE  Cardinality(Between(d, s)') <= Missed(d, s)'
<1> USE DEF IInv
<1>1. d \in 0..MaxDemos
  BY CaptureAssumption DEF Demos
<1>2. Cardinality(Between(d, s)) <= Missed(d, s) /\ Cardinality(Between(d, s)) \in Nat
  BY BetweenCounted DEF Spanned
<1>3. Missed(d, s) \in Nat /\ Missed(d, s)' \in Nat /\ Missed(d, s) <= Missed(d, s)'
  BY <1>1, MissedGrows
<1>4. CASE whole'[d][s] = whole[d][s]
  <2>1. Between(d, s)' = Between(d, s)
    BY <1>4, BetweenKept
  <2>2. QED
    BY <1>2, <1>3, <2>1
<1>5. ASSUME NEW r \in Streams, AppendRow(r), whole'[d][s] # whole[d][s]
      PROVE  Cardinality(Between(d, s)') <= Missed(d, s)'
  <2>1. d = store /\ s = r
    BY <1>5, OtherRowsKept
  <2>2. Whole(s)
    BY <1>5, <2>1, AppendRowEffect
  <2>3. Cardinality(Between(d, s)') <= Missed(d, s)
    BY <1>5, <2>1, <2>2, BetweenAppended
  <2>4. Missed(d, s)' = Missed(d, s)
    BY <1>5, AppendRowEffect DEF Missed
  <2>5. QED
    BY <2>3, <2>4
<1>6. QED
  <2>1. Controller => whole' = whole
    BY ControllerChanges DEF ControllerEffect
  <2>2. UNCHANGED vars => whole' = whole
    BY DEF vars, receiver
  <2>3. \A r \in Streams : Callback(r) => whole' = whole \/ AppendRow(r)
    BY CallbackChanges DEF CallbackEffect
  <2>4. QED
    BY <1>4, <1>5, <2>1, <2>2, <2>3 DEF Next

\* A step that changes nothing of a stream, its demo or the stretch keeps what is known of the span.
LEMMA SpanningKept ==
  ASSUME NEW d, NEW s, Spanning(d, s), whole'[d][s] = whole[d][s], stretch' = stretch,
         monitor'[d][s] = monitor[d][s], at'[s] = at[s], frame'[s] = frame[s], s \in inflight' <=> s \in inflight
  PROVE  Spanning(d, s)'
<1>1. Between(d, s)' = Between(d, s)
  BY BetweenKept
<1>2. Stretched(d, s)' = Stretched(d, s)
  BY DEF Stretched
<1>3. Observing(s)' <=> Observing(s)
  BY DEF Observing
<1>4. Previous(d, s)' = Previous(d, s) /\ Missed(d, s)' = Missed(d, s)
  BY DEF Previous, Missed
<1>5. \A w : CountedFrom(d, s, w)' <=> CountedFrom(d, s, w)
  BY <1>1, <1>4 DEF CountedFrom
<1>6. QED
  BY <1>2, <1>3, <1>4, <1>5 DEF Spanning

\* The main thread begins a stretch with monitors that have no previous frame, and leaves it alone.
LEMMA SpanningMain ==
  ASSUME IInv, Controller, NEW d \in Demos, NEW s \in Streams,
         d = store', state' = "COLLECTING", pc' \in {"loop", "abort"}
  PROVE  Spanning(d, s)'
<1> USE DEF IInv
<1>1. UNCHANGED <<at, frame, whole>>
  BY ControllerChanges DEF ControllerEffect
<1>2. CASE Collect
  <2>1. /\ store' = store /\ pc = "collect" /\ monitor' = monitor /\ stretch' = stretch + 1
        /\ inflight' = {r \in Streams : at[r] \notin {"idle", "dead"}}
    BY <1>2 DEF Collect, Main, SetState, Change, buffers
  <2>2. Previous(d, s)' = 0
    BY <2>1 DEF Rebased, Previous
  <2>3. ~Observing(s)'
    BY <1>1, <2>1 DEF Observing
  <2>4. \A w \in whole[d][s] : w[1] \in 1..stretch /\ stretch \in Nat
    BY WholeEarlier
  <2>5. Stretched(d, s)' = {}
    BY <1>1, <2>1, <2>4 DEF Stretched
  <2>6. QED
    BY <2>2, <2>3, <2>5 DEF Spanning
<1>3. CASE Quit
  <2>1. UNCHANGED <<store, state, monitor, inflight, stretch>> /\ pc = "loop"
    BY <1>3 DEF Quit, Main, demo, buffers
  <2>2. Spanning(d, s)
    BY <2>1 DEF Spanned
  <2>3. QED
    BY <1>1, <2>1, <2>2, SpanningKept
<1>4. CASE pc = "reset_pause"
  BY <1>4, ControllerChanges DEF ControllerEffect, Placed, Saving, Collect, Main
<1>5. QED
  BY <1>2, <1>3, <1>4, ControllerChanges DEF ControllerEffect

\* A callback keeps what is known of the span of its stream: from the frame to the row.
LEMMA SpanningOwn ==
  ASSUME IInv, NEW d \in Demos, NEW s \in Streams, Callback(s), Spanning(d, s),
         d = store, state = "COLLECTING", pc \in {"loop", "abort"}
  PROVE  Spanning(d, s)'
<1> USE DEF IInv
<1>1. stretch' = stretch /\ d # 0 /\ d \in 0..MaxDemos
  BY CallbackChanges, CaptureAssumption DEF CallbackEffect, Demos
<1>2. frame[s] \in Nat /\ at \in [Streams -> {"idle", "store", "state_again", "append", "dead"}]
  BY DEF Typed, ReceiverType
<1>3. Missed(d, s) \in Nat /\ Previous(d, s) \in Nat /\ monitor[d][s] \in Monitors
  BY <1>1 DEF Typed, BufferType, Monitors, Missed, Previous
<1>4. CASE Receive(s)
  <2>1. at[s] = "idle" /\ at'[s] = "store" /\ monitor'[d][s] = monitor[d][s] /\ whole' = whole
    BY <1>1, <1>2, <1>4, ReceiveEffect
  <2>2. ~Observing(s) /\ ~Observing(s)'
    BY <2>1 DEF Observing
  <2>3. Previous(d, s)' = Previous(d, s) /\ Stretched(d, s)' = Stretched(d, s)
    BY <1>1, <2>1 DEF Previous, Stretched
  <2>4. QED
    BY <1>1, <2>1, <2>2, <2>3 DEF Spanning
<1>5. CASE ObserveDemo(s)
  <2>1. /\ at[s] = "store" /\ UNCHANGED <<whole, frame, inflight>>
        /\ monitor'[d][s] = Observed(monitor[d][s], frame[s]) /\ at' = [at EXCEPT ![s] = "state_again"]
    BY <1>1, <1>5, ObserveDemoEffect
  <2>2. /\ ~Observing(s) /\ Observing(s)' /\ frame[s] # 0
        /\ Previous(d, s) < frame[s]
    BY <1>1, <1>2, <2>1 DEF Observing, Current, Watched, Typed, ReceiverType, Busy
  <2>3. Stretched(d, s)' = Stretched(d, s) /\ Between(d, s)' = Between(d, s)
    BY <1>1, <2>1, BetweenKept DEF Stretched
  <2>4. /\ Previous(d, s)' = frame[s]
        /\ Previous(d, s) # 0 => Missed(d, s)' = Missed(d, s) + (frame[s] - Previous(d, s) - 1)
    <3> DEFINE m == Observed(monitor[d][s], frame[s])
    <3>1. /\ m.previous = frame[s]
          /\ monitor[d][s].previous # 0 /\ monitor[d][s].previous < frame[s] =>
               m.missing = monitor[d][s].missing + (frame[s] - monitor[d][s].previous - 1)
      BY <1>2, <1>3, ObservedTyped
    <3>2. QED
      BY <2>1, <2>2, <3>1 DEF Missed, Previous
  <2>5. \A w \in Stretched(d, s) : w[2] \in Nat /\ w[2] <= Previous(d, s) /\ Previous(d, s) # 0
    BY WholeEarlier DEF Spanning, Stretched
  <2>6. ASSUME Stretched(d, s) # {}
        PROVE  \E w \in Stretched(d, s) : CountedFrom(d, s, w)' /\ \A v \in Stretched(d, s) : v[2] <= w[2]
    <3>1. <<stretch, Previous(d, s)>> \in Stretched(d, s)
      BY <2>2, <2>5, <2>6 DEF Spanning, Stretched
    <3>2. PICK w \in Stretched(d, s) : w[2] = Previous(d, s)
      BY <3>1
    <3>3. Cardinality(Between(d, s)) + (frame[s] - w[2] - 1) <= Missed(d, s)'
      <4>1. Cardinality(Between(d, s)) <= Missed(d, s) /\ Cardinality(Between(d, s)) \in Nat
        BY BetweenCounted DEF Spanned
      <4>2. QED
        BY <1>2, <1>3, <2>4, <2>5, <3>2, <4>1
    <3>4. PICK n : n = w
      OBVIOUS
    <3>5. n \in Stretched(d, s) /\ CountedFrom(d, s, n)'
      BY <2>1, <2>3, <3>3, <3>4 DEF CountedFrom
    <3>6. QED
      BY <2>5, <3>2, <3>4, <3>5
  <2>7. \A w \in Stretched(d, s) : w[2] <= frame[s]
    BY <1>2, <1>3, <2>2, <2>5
  <2>8. QED
    BY <1>1, <2>1, <2>2, <2>3, <2>4, <2>6, <2>7 DEF Spanning
<1>6. CASE TestStateAgain(s)
  <2>1. at[s] = "state_again" /\ at' = [at EXCEPT ![s] = "append"] /\ UNCHANGED <<whole, frame, inflight, monitor>>
    BY <1>1, <1>6 DEF TestStateAgain, Receiver, Goto, buffers
  <2>2. Observing(s)' <=> Observing(s)
    BY <1>2, <2>1 DEF Observing
  <2>3. Stretched(d, s)' = Stretched(d, s) /\ Between(d, s)' = Between(d, s)
    BY <1>1, <2>1, BetweenKept DEF Stretched
  <2>4. Previous(d, s)' = Previous(d, s) /\ Missed(d, s)' = Missed(d, s)
    BY <2>1 DEF Previous, Missed
  <2>5. \A w : CountedFrom(d, s, w)' <=> CountedFrom(d, s, w)
    BY <2>1, <2>3, <2>4 DEF CountedFrom
  <2>6. QED
    BY <1>1, <2>1, <2>2, <2>3, <2>4, <2>5 DEF Spanning
<1>7. CASE AppendRow(s)
  <2>1. /\ at[s] = "append" /\ at' = [at EXCEPT ![s] = "idle"] /\ UNCHANGED <<monitor, frame>>
        /\ whole'[d][s] = IF Whole(s) THEN whole[d][s] \cup {<<stretch, frame[s]>>} ELSE whole[d][s]
    BY <1>1, <1>7, AppendRowEffect
  <2>2. ~Observing(s)' /\ Previous(d, s)' = Previous(d, s)
    BY <1>2, <2>1 DEF Observing, Previous
  <2>3. CASE Whole(s)
    <3>1. Observing(s) /\ Busy(s)
      BY <2>1, <2>3 DEF Observing, Whole, Busy
    <3>2. Previous(d, s) = frame[s] /\ frame[s] # 0
      BY <3>1 DEF Spanning, Typed, ReceiverType
    <3>3. <<stretch, frame[s]>> \in whole'[d][s]
      BY <2>1, <2>3
    <3>4. \A w \in Stretched(d, s)' : w[2] <= frame[s]
      <4>1. \A w \in Stretched(d, s)' : w \in Stretched(d, s) \/ w = <<stretch, frame[s]>>
        BY <1>1, <2>1, <2>3 DEF Stretched
      <4>2. QED
        BY <1>2, <3>2, <4>1 DEF Spanning
    <3>5. QED
      BY <1>1, <2>2, <3>2, <3>3, <3>4 DEF Spanning
  <2>4. CASE ~Whole(s)
    <3>1. ~Observing(s)
      BY <2>4 DEF Whole, Observing
    <3>2. Stretched(d, s)' = Stretched(d, s)
      BY <1>1, <2>1, <2>4 DEF Stretched
    <3>3. QED
      BY <1>1, <2>1, <2>2, <2>4, <3>1, <3>2 DEF Spanning
  <2>5. QED
    BY <2>3, <2>4
<1>8. CASE AppendFails(s)
  BY <1>1, <1>8 DEF AppendFails
<1>9. QED
  BY <1>4, <1>5, <1>6, <1>7, <1>8 DEF Callback

\* The gaps of a demo's whole callbacks were counted.
LEMMA SpannedStep == ASSUME IInv, [Next]_vars PROVE Spanned'
<1> SUFFICES ASSUME NEW d \in Demos, NEW s \in Streams,
                    d = store', state' = "COLLECTING", pc' \in {"loop", "abort"}
             PROVE  Spanning(d, s)'
  BY BetweenStep DEF Spanned
<1>1. CASE Controller
  BY <1>1, SpanningMain
<1>2. ASSUME NEW r \in Streams, Callback(r) PROVE Spanning(d, s)'
  <2>1. UNCHANGED <<store, state, pc, stretch>>
    BY <1>2, CallbackChanges DEF CallbackEffect
  <2>2. Spanning(d, s)
    BY <2>1 DEF IInv, Spanned
  <2>3. CASE r = s
    BY <1>2, <2>1, <2>2, <2>3, SpanningOwn
  <2>4. CASE r # s
    <3>1. d \in 0..MaxDemos
      BY CaptureAssumption DEF Demos
    <3>2. QED
      BY <1>2, <2>1, <2>2, <2>4, <3>1, OtherStreamKept, SpanningKept
  <2>5. QED
    BY <2>3, <2>4
<1>3. CASE UNCHANGED vars
  <2>1. UNCHANGED <<store, state, pc, stretch, monitor, whole, at, frame, inflight>>
    BY <1>3 DEF vars, demo, main, past, buffers, receiver
  <2>2. Spanning(d, s)
    BY <2>1 DEF IInv, Spanned
  <2>3. QED
    BY <2>1, <2>2, SpanningKept
<1>4. QED
  BY <1>1, <1>2, <1>3 DEF Next

\* What is reported as missing is between the gaps and the losses.
LEMMA SummedStep == ASSUME IInv, [Next]_vars PROVE Summed'
<1> USE DEF IInv
<1> SUFFICES ASSUME NEW d \in Demos, NEW s \in Streams
             PROVE  /\ d = store' /\ pc' = "summary" =>
                         /\ draft'.missing[s] <= lost'[s]
                         /\ s \notin iter'.left => Cardinality(Between(d, s)') <= draft'.missing[s]
                    /\ Written(d)' => /\ manifest'[d].missing[s] <= lost'[s]
                                      /\ Cardinality(Between(d, s)') <= manifest'[d].missing[s]
  BY DEF Summed
<1>1. d \in 0..MaxDemos
  BY CaptureAssumption DEF Demos
<1>2. /\ Missed(d, s) <= lost[s] /\ Missed(d, s) \in Nat /\ lost[s] \in Nat
      /\ Cardinality(Between(d, s)) <= Missed(d, s) /\ Cardinality(Between(d, s)) \in Nat
  <2>1. Missed(d, s) <= lost[s] /\ Missed(d, s) \in Nat
    BY <1>1 DEF Monitored, Typed, BufferType, Monitors, Missed
  <2>2. lost[s] \in Nat
    BY DEF Typed, ReceiverType
  <2>3. Cardinality(Between(d, s)) <= Missed(d, s) /\ Cardinality(Between(d, s)) \in Nat
    BY BetweenCounted DEF Spanned
  <2>4. QED
    BY <2>1, <2>2, <2>3
<1>3. /\ d = store /\ pc = "summary" =>
           /\ draft.missing[s] <= lost[s]
           /\ s \notin iter.left => Cardinality(Between(d, s)) <= draft.missing[s]
      /\ Written(d) => /\ manifest[d].missing[s] <= lost[s]
                       /\ Cardinality(Between(d, s)) <= manifest[d].missing[s]
  BY DEF Summed
<1>4. draft.missing[s] \in Nat /\ manifest[d].missing[s] \in Nat
  BY DEF Typed, MainType, BufferType, Manifests
<1>5. CASE Controller
  <2>1. lost' = lost /\ Between(d, s)' = Between(d, s)
    BY <1>5, ControllerChanges, BetweenKept DEF ControllerEffect
  <2>2. ASSUME d = store', pc' = "summary"
        PROVE  /\ draft'.missing[s] <= lost'[s]
               /\ s \notin iter'.left => Cardinality(Between(d, s)') <= draft'.missing[s]
    <3>1. CASE CountFrames
      <4>1. store' = store /\ draft'.missing[s] = 0 /\ iter'.left = Known(store)
        BY <3>1 DEF CountFrames, Iterate, PerStream, demo
      <4>2. s \notin Known(d) => Missed(d, s) = 0
        BY <1>1 DEF Known, Monitored
      <4>3. QED
        BY <1>2, <2>1, <2>2, <4>1, <4>2
    <3>2. CASE Summarize
      <4>1. store' = store /\ pc = "summary"
        BY <3>2 DEF Summarize, Main, demo
      <4>2. PICK t \in iter.left : /\ draft' = [draft EXCEPT !.missing[t] = monitor[store][t].missing]
                                   /\ iter' = [iter EXCEPT !.left = @ \ {t}]
        BY <3>2 DEF Summarize
      <4>3. iter'.left = iter.left \ {t} /\ t \in Streams
        BY <4>2 DEF Typed, MainType
      <4>4. draft'.missing[s] = IF s = t THEN Missed(d, s) ELSE draft.missing[s]
        BY <2>2, <4>1, <4>2, <4>3 DEF Typed, MainType, Missed
      <4>5. QED
        BY <1>2, <1>3, <2>1, <2>2, <4>1, <4>3, <4>4
    <3>3. QED
      BY <1>5, <2>2, <3>1, <3>2, ControllerChanges DEF ControllerEffect
  <2>3. ASSUME Written(d)'
        PROVE  /\ manifest'[d].missing[s] <= lost'[s]
               /\ Cardinality(Between(d, s)') <= manifest'[d].missing[s]
    <3>1. CASE WriteManifest /\ d = store
      <4>1. pc = "summary" /\ iter.left = {} /\ manifest'[d].missing = draft.missing
        BY <3>1, ManifestEffect
      <4>2. QED
        BY <1>3, <2>1, <3>1, <4>1
    <3>2. CASE ~(WriteManifest /\ d = store)
      <4>1. manifest'[d] = manifest[d]
        BY <1>5, <3>2, ControllerChanges, ManifestEffect DEF ControllerEffect
      <4>2. Written(d)
        BY <2>3, <4>1 DEF Written
      <4>3. QED
        BY <1>3, <2>1, <4>1, <4>2
    <3>3. QED
      BY <3>1, <3>2
  <2>4. QED
    BY <2>2, <2>3
<1>6. ASSUME NEW r \in Streams, Callback(r)
      PROVE  /\ d = store' /\ pc' = "summary" =>
                  /\ draft'.missing[s] <= lost'[s]
                  /\ s \notin iter'.left => Cardinality(Between(d, s)') <= draft'.missing[s]
             /\ Written(d)' => /\ manifest'[d].missing[s] <= lost'[s]
                               /\ Cardinality(Between(d, s)') <= manifest'[d].missing[s]
  <2>1. UNCHANGED <<store, pc, draft, iter, manifest>>
    BY <1>6, CallbackChanges DEF CallbackEffect
  <2>2. lost[s] <= lost'[s] /\ lost'[s] \in Nat
    BY FramesGrow
  <2>3. pc \notin {"loop", "abort"} \/ d # store => Between(d, s)' = Between(d, s)
    BY <1>6, SavedMeanwhile, BetweenKept
  <2>4. Written(d)' => Written(d) /\ (pc \notin {"loop", "abort"} \/ d # store)
    BY <2>1 DEF Settled, Written
  <2>5. QED
    BY <1>2, <1>3, <1>4, <2>1, <2>2, <2>3, <2>4
<1>7. CASE UNCHANGED vars
  <2>1. UNCHANGED <<store, pc, draft, iter, manifest, lost, whole>>
    BY <1>7 DEF vars, demo, main, files, receiver
  <2>2. Between(d, s)' = Between(d, s) /\ (Written(d)' <=> Written(d))
    BY <2>1, BetweenKept DEF Written
  <2>3. QED
    BY <1>3, <2>1, <2>2
<1>8. QED
  BY <1>5, <1>6, <1>7 DEF Next

-----------------------------------------------------------------------------
\* The run begins without a demo and without a frame.
LEMMA InitInvariant == Init => IInv
<1> SUFFICES ASSUME Init PROVE IInv
  OBVIOUS
<1> USE DEF Init, PerStream
<1>1. \A d \in Demos, s \in Streams : /\ rows[d][s] = <<>> /\ archive[d][s] = <<>> /\ whole[d][s] = {}
                                      /\ ~Written(d)
  BY DEF Written, NoManifest
<1>2. \A d \in 0..MaxDemos, s \in Streams : monitor[d][s] = NoMonitor
  OBVIOUS
<1>3. <<>> \in Rows /\ Len(<<>>) = 0 /\ DOMAIN <<>> = {}
  BY DEF Rows
<1>4. Typed
  <2>1. DemoType
    <3>1. 0 \in 0..MaxDemos /\ 0 \in 0..MaxStretches /\ 0 \in 0..0
      BY CaptureAssumption
    <3>2. QED
      BY <3>1 DEF DemoType
  <2>2. BufferType
    BY <1>3 DEF BufferType, NoMonitor, Monitors, NoManifest, Manifests
  <2>3. MainType
    BY CaptureAssumption, FS_CardinalityType DEF MainType
  <2>4. ReceiverType
    BY CaptureAssumption DEF ReceiverType, Busy
  <2>5. QED
    BY <2>1, <2>2, <2>3, <2>4 DEF Typed
<1>5. Placed /\ Current /\ Quiet /\ Own
  BY DEF Placed, Current, Quiet, Loud, Own, Busy, Saving
<1>6. Buffered
  BY <1>1, <1>3 DEF Buffered, Ordered
<1>7. Prefixed
  <2>1. SubSeq(<<>>, 1, 0) = <<>>
    OBVIOUS
  <2>2. QED
    BY <1>1, <1>3, <2>1 DEF Prefixed
<1>8. Settled /\ Saved /\ Sized
  <2>1. Settled
    BY <1>1, CaptureAssumption DEF Settled
  <2>2. Saved
    BY <1>1 DEF Saved, Saving
  <2>3. Sized
    BY DEF Sized
  <2>4. QED
    BY <2>1, <2>2, <2>3
<1>9. Monitored
  BY <1>2, CaptureAssumption DEF Monitored, NoMonitor, Missed, Previous
<1>10. Watched /\ Rebased
  BY CaptureAssumption DEF Watched, Rebased, Demos
<1>11. Spanned
  <2>1. ASSUME NEW d \in Demos, NEW s \in Streams PROVE Cardinality(Between(d, s)) <= Missed(d, s)
    <3>1. Between(d, s) = {}
      BY <1>1 DEF Between
    <3>2. d \in 0..MaxDemos
      BY CaptureAssumption DEF Demos
    <3>3. Missed(d, s) = 0
      BY <1>2, <3>2 DEF Missed, NoMonitor
    <3>4. QED
      BY <3>1, <3>3, FS_EmptySet
  <2>2. QED
    BY <2>1 DEF Spanned
<1>12. Summed
  BY <1>1 DEF Summed
<1>13. QED
  BY <1>4, <1>5, <1>6, <1>7, <1>8, <1>9, <1>10, <1>11, <1>12 DEF IInv

\* IInv is inductive: at each place of the main thread, what the callbacks may still do, what is
\* saved of the demo, and what its monitors have counted.
THEOREM CaptureInvariance == Spec => []IInv
<1>1. IInv /\ [Next]_vars => IInv'
  BY TypedStep, PlacedStep, CurrentStep, QuietStep, OwnStep, BufferedStep, PrefixedStep,
     SettledStep,
     SavedStep, SizedStep, MonitoredStep, WatchedStep, RebasedStep, SpannedStep, SummedStep DEF IInv
<1>2. QED
  BY <1>1, InitInvariant, PTL DEF Spec

\* Every reachable state is well typed: a buffer's rows are frames received, of demos begun, its
\* archive a prefix of it, and no monitor counts more than the frames there were.
THEOREM CaptureTypes == Spec => []TypeOK
<1>1. IInv => TypeOK
  <2> SUFFICES ASSUME IInv PROVE TypeOK
    OBVIOUS
  <2> USE DEF IInv, Typed
  <2>1. /\ state \in {"WAIT_START", "COLLECTING", "PAUSED", "FINALIZING", "DISCARDING", "ERROR", "STOPPING", "STOPPED"}
        /\ demos \in 0..MaxDemos /\ store \in 0..demos /\ demos \in Nat
        /\ {raised, quitting} \subseteq BOOLEAN /\ stretch \in 0..MaxStretches /\ stretch \in Nat
    BY CaptureAssumption DEF DemoType
  <2>2. ASSUME NEW s \in Streams
        PROVE  /\ frame[s] \in 0..MaxFrames[s] /\ lost[s] \in 0..frame[s] /\ origin[s] \in 0..demos
               /\ frame[s] \in Nat /\ lost[s] \in Nat
    BY <2>1, CaptureAssumption DEF ReceiverType
  <2>3. ASSUME NEW d \in 0..MaxDemos, NEW s \in Streams
        PROVE  /\ monitor[d][s].known \in BOOLEAN
               /\ monitor[d][s].previous \in 0..frame[s] /\ monitor[d][s].missing \in 0..frame[s]
    <3>1. monitor[d][s] \in Monitors
      BY DEF BufferType
    <3>2. monitor[d][s].previous <= frame[s] /\ monitor[d][s].missing <= lost[s]
      BY DEF Monitored, Previous, Missed
    <3>3. QED
      BY <2>2, <3>1, <3>2 DEF Monitors
  <2>4. ASSUME NEW d \in Demos, NEW s \in Streams
        PROVE  /\ \A i \in DOMAIN rows[d][s] : rows[d][s][i] \in (1..frame[s]) \X (0..demos)
               /\ archive[d][s] \in {SubSeq(rows[d][s], 1, n) : n \in 0..Len(rows[d][s])}
               /\ whole[d][s] \subseteq (1..stretch) \X (1..frame[s])
    <3>1. rows[d][s] \in Rows /\ whole[d][s] \subseteq Nat \X Nat /\ d \in Nat
      <4>1. rows[d] \in [Streams -> Rows] /\ whole[d] \in [Streams -> SUBSET (Nat \X Nat)]
        BY DEF BufferType
      <4>2. d \in Nat
        BY CaptureAssumption DEF Demos
      <4>3. QED
        BY <4>1, <4>2
    <3>2. LastKey(s) \in Nat /\ LastKey(s) <= frame[s]
      BY <2>2 DEF LastKey, ReceiverType
    <3>3. ASSUME NEW i \in DOMAIN rows[d][s] PROVE rows[d][s][i] \in (1..frame[s]) \X (0..demos)
      <4>1. rows[d][s][i] \in Nat \X Nat /\ rows[d][s] # <<>>
        BY <3>1 DEF Rows
      <4>2. rows[d][s][i][2] = d /\ rows[d][s][i][1] \in 1..LastKey(s) /\ d <= demos
        BY <4>1 DEF Buffered, Ordered
      <4>3. rows[d][s][i][1] \in 1..frame[s] /\ rows[d][s][i][2] \in 0..demos
        BY <2>1, <2>2, <3>1, <3>2, <4>2
      <4>4. QED
        BY <4>1, <4>3
    <3>4. archive[d][s] \in {SubSeq(rows[d][s], 1, n) : n \in 0..Len(rows[d][s])}
      BY DEF Prefixed
    <3>5. ASSUME NEW w \in whole[d][s] PROVE w \in (1..stretch) \X (1..frame[s])
      <4>1. w \in Nat \X Nat /\ w[1] \in 1..stretch
        BY <3>1, WholeEarlier
      <4>2. PICK i \in DOMAIN rows[d][s] : w[2] = rows[d][s][i][1]
        BY DEF Buffered, KeysIn
      <4>3. w[2] \in 1..LastKey(s)
        BY <4>2 DEF Buffered, Ordered
      <4>4. w[2] \in 1..frame[s]
        BY <2>2, <3>2, <4>3
      <4>5. QED
        BY <4>1, <4>4
    <3>6. QED
      BY <3>3, <3>4, <3>5
  <2>5. \A d \in Demos : /\ manifest[d].status \in {"none", "done", "failed", "discarded"}
                         /\ manifest[d].npz \in BOOLEAN
    BY DEF BufferType, Manifests
  <2>6. DOMAIN monitor = 0..MaxDemos
    BY DEF BufferType
  <2>7. /\ task.status \in {"none", "done", "failed", "discarded"} /\ {task.npz, task.clear, task.stop} \subseteq BOOLEAN
        /\ iter.of \in 0..MaxDemos /\ iter.left \subseteq Streams /\ iter.size \in 0..Cardinality(Streams)
        /\ pc \in {"loop", "start", "pause", "finish", "discard", "abort", "reset_start", "reset_pause", "collect",
                   "save", "count", "summary", "clear", "wait", "stop", "stopping", "end"}
    BY DEF MainType
  <2>8. /\ at \in [Streams -> {"idle", "store", "state_again", "append", "dead"}]
        /\ reported \subseteq Streams /\ inflight \subseteq Streams
    BY DEF ReceiverType
  <2>9. QED
    BY <2>1, <2>2, <2>3, <2>4, <2>5, <2>6, <2>7, <2>8 DEF TypeOK
<1>2. QED
  BY <1>1, CaptureInvariance, PTL

\* A demo's archive holds only frames that came while it was open, in order, and with its manifest
\* every frame whose callback ran while it was collecting, for every number of streams and demos.
THEOREM ArchivesHoldTheirDemo == Spec => []ArchiveIsTheDemo
<1>1. IInv => ArchiveIsTheDemo
  BY DEF IInv, Buffered, Ordered, Saved, Covers, KeysIn, KeysOf, ArchiveIsTheDemo
<1>2. QED
  BY <1>1, CaptureInvariance, PTL

\* A manifest counts the rows of its archives, unless a collecting demo was aborted.
THEOREM ManifestsCount == Spec => []CountsMatchArchive
<1>1. IInv => CountsMatchArchive
  BY DEF IInv, Saved, CountsMatchArchive
<1>2. QED
  BY <1>1, CaptureInvariance, PTL

\* A manifest reports no frame as missing that arrived, and every gap between frames that a demo
\* collected without a pause.
THEOREM GapsAreCounted == Spec => []GapsAreLosses
<1>1. IInv => GapsAreLosses
  BY DEF IInv, Summed, GapsAreLosses
<1>2. QED
  BY <1>1, CaptureInvariance, PTL

\* Only a loop that fails raises.
LEMMA RaisedChanges == Controller => raised' = raised \/ Raise
<1> SUFFICES ASSUME Controller PROVE raised' = raised \/ Raise
  OBVIOUS
<1>1. CASE NewDemo
  BY <1>1 DEF NewDemo
<1>2. CASE ResumeDemo
  BY <1>2 DEF ResumeDemo
<1>3. CASE PauseDemo
  BY <1>3 DEF PauseDemo
<1>4. CASE FinishDemo
  BY <1>4 DEF FinishDemo, Leave
<1>5. CASE DiscardDemo
  BY <1>5 DEF DiscardDemo, Leave
<1>6. CASE Quit
  BY <1>6 DEF Quit
<1>7. CASE Fatal
  BY <1>7 DEF Fatal
<1>8. CASE StartSucceeded
  BY <1>8 DEF StartSucceeded, Succeeded
<1>9. CASE StartFailed
  BY <1>9 DEF StartFailed, Settle
<1>10. CASE PauseSucceeded
  BY <1>10 DEF PauseSucceeded, Succeeded
<1>11. CASE PauseFailed
  BY <1>11 DEF PauseFailed, Settle
<1>12. CASE FinishAnswered
  BY <1>12 DEF FinishAnswered, Settle
<1>13. CASE DiscardAnswered
  BY <1>13 DEF DiscardAnswered, Settle
<1>14. CASE AbortAnswered
  BY <1>14 DEF AbortAnswered, Settle
<1>15. CASE ResetBaseline
  BY <1>15 DEF ResetBaseline
<1>16. CASE ResetDemoMonitors
  BY <1>16 DEF ResetDemoMonitors
<1>17. CASE ResetDone
  BY <1>17 DEF ResetDone
<1>18. CASE Collect
  BY <1>18 DEF Collect
<1>19. CASE Raise
  BY <1>19 DEF Raise
<1>20. CASE SaveBuffer
  BY <1>20 DEF SaveBuffer
<1>21. CASE CountFrames
  BY <1>21 DEF CountFrames
<1>22. CASE Summarize
  BY <1>22 DEF Summarize
<1>23. CASE WriteManifest
  BY <1>23 DEF WriteManifest
<1>24. CASE ClearDemo
  BY <1>24 DEF ClearDemo
<1>25. CASE WaitStart
  BY <1>25 DEF WaitStart
<1>26. CASE BeginStop
  BY <1>26 DEF BeginStop
<1>27. CASE StopReceivers
  BY <1>27 DEF StopReceivers
<1>28. QED
  BY <1>1, <1>2, <1>3, <1>4, <1>5, <1>6, <1>7, <1>8, <1>9, <1>10, <1>11, <1>12, <1>13, <1>14,
     <1>15, <1>16, <1>17, <1>18, <1>19, <1>20, <1>21, <1>22, <1>23, <1>24, <1>25, <1>26, <1>27
     DEF Controller

\* No callback meets a demo that is gone and no loop a dictionary that grew, but in the abort of a
\* collecting demo and in a reset of drop_monitors.
THEOREM BothSurvive == Spec => ThreadsSurvive
<1>1. ASSUME IInv, [Next]_vars
      PROVE  [/\ \A s \in Streams : at'[s] = "dead" => at[s] = "dead" \/ quitting
              /\ raised' => raised \/ quitting \/ iter.of = 0]_vars
  <2> USE DEF IInv
  <2>1. CASE Controller
    <3>1. at' = at
      BY <2>1, ControllerChanges DEF ControllerEffect
    <3>2. raised' = raised \/ Raise
      BY <2>1, RaisedChanges
    <3>3. Raise => quitting \/ iter.of = 0
      <4> SUFFICES ASSUME Raise, ~quitting PROVE iter.of = 0
        OBVIOUS
      <4>1. pc \in {"reset_start", "reset_pause", "summary"} /\ Cardinality(Known(iter.of)) # iter.size
        BY DEF Raise, Resized
      <4>2. QED
        BY <1>1, <4>1 DEF Sized
    <3>4. QED
      BY <3>1, <3>2, <3>3
  <2>2. ASSUME NEW s \in Streams, Callback(s)
        PROVE  /\ \A r \in Streams : at'[r] = "dead" => at[r] = "dead" \/ quitting
               /\ raised' = raised
    <3>1. raised' = raised
      BY <2>2, CallbackChanges DEF CallbackEffect
    <3>2. ASSUME NEW r \in Streams, r # s PROVE at'[r] = at[r]
      BY <1>1, <2>2, <3>2, OtherStreamKept
    <3>3. at'[s] = "dead" => AppendFails(s)
      <4>1. at \in [Streams -> {"idle", "store", "state_again", "append", "dead"}]
        BY <1>1 DEF Typed, ReceiverType
      <4>2. CASE Receive(s)
        <5>1. at' = [at EXCEPT ![s] = IF state = "COLLECTING" THEN "store" ELSE "state_again"]
          BY <4>2 DEF Receive, Goto
        <5>2. QED
          BY <4>1, <5>1
      <4>3. CASE ObserveDemo(s)
        <5>1. at' = [at EXCEPT ![s] = "state_again"]
          BY <4>3 DEF ObserveDemo, Goto
        <5>2. QED
          BY <4>1, <5>1
      <4>4. CASE TestStateAgain(s)
        <5>1. at' = [at EXCEPT ![s] = "append"] \/ at' = [at EXCEPT ![s] = "idle"]
          BY <4>4 DEF TestStateAgain, Goto, Return
        <5>2. QED
          BY <4>1, <5>1
      <4>5. CASE AppendRow(s)
        <5>1. at' = [at EXCEPT ![s] = "idle"]
          BY <4>5 DEF AppendRow, Goto, Return
        <5>2. QED
          BY <4>1, <5>1
      <4>6. QED
        BY <2>2, <4>2, <4>3, <4>4, <4>5 DEF Callback
    <3>4. AppendFails(s) => quitting
      <4> SUFFICES ASSUME AppendFails(s) PROVE quitting
        OBVIOUS
      <4>1. at[s] = "append" /\ store = 0
        BY DEF AppendFails, Receiver
      <4>2. pc \in {"loop", "wait", "stop", "stopping", "end"} /\ (pc = "loop" => state = "WAIT_START")
        BY <1>1, <4>1 DEF Placed
      <4>3. Loud
        BY <1>1, <4>1 DEF Quiet
      <4>4. QED
        BY <4>2, <4>3 DEF Loud
    <3>5. QED
      BY <3>1, <3>2, <3>3, <3>4
  <2>3. ASSUME UNCHANGED vars PROVE at' = at /\ raised' = raised
    BY <2>3 DEF vars, main, receiver
  <2>4. CASE \E s \in Streams : Callback(s)
    <3>1. PICK s \in Streams : Callback(s)
      BY <2>4
    <3>2. QED
      BY <3>1, <2>2
  <2>5. QED
    BY <1>1, <2>1, <2>3, <2>4 DEF Next
<1>2. QED
  BY <1>1, CaptureInvariance, PTL DEF Spec, ThreadsSurvive
=============================================================================
