--------------------------- MODULE LiteVadProofs ---------------------------
(***************************************************************************)
(* For every choice of the limits that LimitsAssumption allows: the        *)
(* detector decides at the first frame that reaches a threshold, and a     *)
(* segment lasts LeastSegment frames.  The second needs to know how fast   *)
(* the two thresholds for the end can be approached, which is Approach.    *)
(***************************************************************************)
EXTENDS LiteVad, TLAPS

\* Within a segment each frame adds at most one to the silence and takes at
\* most one from the weight.
Approach ==
  capturing /\ speech_detected =>
    \/ since = LeastSegment
    \/ silence_time <= since /\ speech_weight >= MaxWeight - since

\* A segment goes on only above the limits for its end, and none is found only
\* below those for its beginning.
Decided ==
  /\ speech_detected => silence_time < EosSilence /\ speech_weight > EosWeight
  /\ ~speech_detected => active_time < BosActive /\ speech_weight < BosWeight
  /\ lastVad # "SPEECH_BEGIN_AND_END"

IInv == TypeOK /\ Decided /\ Approach

LEMMA Limits ==
  /\ BosActive \in Nat /\ BosActive > 0 /\ BosWeight \in Nat /\ BosWeight > 0
  /\ EosSilence \in Nat /\ EosSilence > 0 /\ EosWeight \in Nat /\ EosWeight > 0
  /\ MaxWeight \in Nat /\ MaxWeight > 0 /\ BosWeight <= MaxWeight /\ EosWeight < MaxWeight
BY LimitsAssumption

LEMMA Least ==
  /\ LeastSegment \in Nat /\ LeastSegment > 0
  /\ LeastSegment <= EosSilence /\ LeastSegment <= MaxWeight - EosWeight
BY Limits DEF LeastSegment

\* What one frame does to the three counters before a segment begins or ends.
LEMMA FrameCounts ==
  ASSUME TypeOK, NEW v \in Verdict
  PROVE  /\ ActiveOf(v) \in 0 .. BosActive /\ SilenceOf(v) \in 0 .. EosSilence
         /\ WeightOf(v) \in 0 .. MaxWeight
         /\ ActiveOf(v) <= active_time + 1 /\ SilenceOf(v) <= silence_time + 1
         /\ WeightOf(v) >= speech_weight - 1
         /\ v = "silent" => ActiveOf(v) = 0
         /\ v = "active" => SilenceOf(v) = 0 /\ WeightOf(v) >= speech_weight
         /\ v = "silent" => WeightOf(v) <= speech_weight
BY Limits DEF TypeOK, ActiveOf, SilenceOf, WeightOf, UpTo, Verdict

\* A segment begins at an active frame, which does not end it.
LEMMA BeginsActive ==
  ASSUME TypeOK, Decided, NEW v \in Verdict, Begins(v)
  PROVE  v = "active" /\ Continues(v) /\ ~Ends(v)
<1>1. v = "active"
  BY FrameCounts, Limits DEF Decided, Begins, StaysSilent, Verdict, TypeOK
<1>2. Continues(v)
  BY Limits DEF Continues, SegmentSilence, SegmentWeight
<1> QED BY <1>1, <1>2 DEF Ends

\* An active frame within a segment takes it no nearer to either threshold.
LEMMA ActiveContinues ==
  ASSUME TypeOK, Decided, NEW v \in Verdict, speech_detected, v = "active"
  PROVE  Continues(v)
BY FrameCounts, Limits DEF Decided, Continues, SegmentSilence, SegmentWeight,
   Begins, TypeOK

LEMMA InitInvariant == Init => IInv
<1> SUFFICES ASSUME Init PROVE IInv OBVIOUS
<1>1. TypeOK
  <2>1. lastVad \in Result /\ text \in Text BY DEF Init, Result, Text
  <2>2. since \in 0 .. LeastSegment BY Least DEF Init
  <2>3. active_time \in 0 .. BosActive /\ silence_time \in 0 .. EosSilence
        /\ speech_weight \in 0 .. MaxWeight
    BY Limits DEF Init
  <2> QED BY <2>1, <2>2, <2>3 DEF Init, TypeOK
<1>2. Decided BY Limits DEF Init, Decided
<1>3. Approach BY DEF Init, Approach
<1> QED BY <1>1, <1>2, <1>3 DEF IInv

LEMMA CreateStep == IInv /\ litevad_create => IInv'
<1> SUFFICES ASSUME IInv, litevad_create PROVE IInv' OBVIOUS
<1>1. TypeOK'
  <2>1. since' \in 0 .. LeastSegment BY Least DEF litevad_create
  <2>2. active_time' \in 0 .. BosActive /\ silence_time' \in 0 .. EosSilence
        /\ speech_weight' \in 0 .. MaxWeight
    BY Limits DEF litevad_create
  <2> QED BY <2>1, <2>2 DEF IInv, TypeOK, litevad_create
<1>2. Decided' BY Limits, Least DEF IInv, Decided, litevad_create
<1>3. Approach' BY Limits, Least DEF IInv, Approach, LeastSegment, litevad_create
<1> QED BY <1>1, <1>2, <1>3 DEF IInv

LEMMA DestroyStep == IInv /\ litevad_destroy => IInv'
<1> SUFFICES ASSUME IInv, litevad_destroy PROVE IInv' OBVIOUS
<1>1. TypeOK' BY DEF IInv, TypeOK, litevad_destroy, counters
<1>2. Decided' BY DEF IInv, Decided, litevad_destroy, counters
<1>3. Approach' BY DEF IInv, Approach, LeastSegment, litevad_destroy, counters
<1> QED BY <1>1, <1>2, <1>3 DEF IInv

LEMMA FailsStep == IInv /\ FrameFails => IInv'
<1> SUFFICES ASSUME IInv, FrameFails PROVE IInv' OBVIOUS
<1>1. TypeOK' BY DEF IInv, TypeOK, FrameFails, counters, Reports, TextOf,
                   Result, Text
<1>2. Decided' BY DEF IInv, Decided, FrameFails, counters, Reports
<1>3. Approach' BY DEF IInv, Approach, LeastSegment, FrameFails, counters, Reports
<1> QED BY <1>1, <1>2, <1>3 DEF IInv

LEMMA FrameStep == ASSUME IInv, NEW v \in Verdict, CaptureFrame(v) PROVE IInv'
<1> USE DEF IInv
<1>1. speech_detected \in BOOLEAN BY DEF TypeOK
<1>2. speech_detected' = Detected(v) BY DEF CaptureFrame, Counts
<1>3. TypeOK'
  <2>1. active_time' \in 0 .. BosActive /\ silence_time' \in 0 .. EosSilence
        /\ speech_weight' \in 0 .. MaxWeight
    BY FrameCounts, Limits DEF CaptureFrame, Counts, SegmentWeight, SegmentSilence
  <2>2. ResultOf(v) \in Result
    BY <1>1 DEF ResultOf, Begins, StaysSilent, Result
  <2>3. lastVad' \in Result /\ text' \in Text
    BY <2>2, <1>1 DEF CaptureFrame, Reports, TextOf, Result, Text, TypeOK, ResultOf,
       Begins, StaysSilent
  <2>4. since' \in 0 .. LeastSegment
    BY Least DEF CaptureFrame, Earlier, TypeOK
  <2>5. speech_detected' \in BOOLEAN
    BY <1>2 DEF Detected
  <2> QED BY <2>1, <2>3, <2>4, <2>5 DEF TypeOK, CaptureFrame
<1>4. Decided'
  <2>1. ASSUME Detected(v)
        PROVE  silence_time' < EosSilence /\ speech_weight' > EosWeight
    <3>1. ~StaysSilent(v) /\ ~Ends(v) BY <2>1 DEF Detected
    <3>2. Continues(v)
      <4>1. CASE v = "silent" BY <3>1, <4>1 DEF Ends
      <4>2. CASE v = "active" /\ speech_detected BY <4>2, ActiveContinues
      <4>3. CASE v = "active" /\ ~speech_detected
        BY <4>3, <3>1, BeginsActive DEF Begins
      <4> QED BY <4>1, <4>2, <4>3 DEF Verdict
    <3> QED BY <3>1, <3>2 DEF CaptureFrame, Counts, Continues
  <2>2. ASSUME ~Detected(v)
        PROVE  active_time' < BosActive /\ speech_weight' < BosWeight
    <3>1. CASE Ends(v) BY <3>1, Limits DEF CaptureFrame, Counts
    <3>2. CASE ~Ends(v)
      <4>1. StaysSilent(v) BY <2>2, <3>2 DEF Detected
      <4>2. ~Begins(v) BY <4>1 DEF Begins
      <4> QED BY <3>2, <4>1, <4>2 DEF StaysSilent, CaptureFrame, Counts, SegmentWeight
    <3> QED BY <3>1, <3>2
  <2>3. lastVad' # "SPEECH_BEGIN_AND_END"
    BY BeginsActive, <1>1 DEF CaptureFrame, Reports, ResultOf, Begins, StaysSilent
  <2> QED BY <1>2, <2>1, <2>2, <2>3 DEF Decided
<1>5. Approach'
  <2> SUFFICES ASSUME Detected(v), since' # LeastSegment
               PROVE  silence_time' <= since' /\ speech_weight' >= MaxWeight - since'
    BY <1>2 DEF Approach
  <2>1. ~Ends(v) BY DEF Detected
  <2>2. silence_time' = SegmentSilence(v) /\ speech_weight' = SegmentWeight(v)
    BY <2>1 DEF CaptureFrame, Counts
  <2>3. CASE ~speech_detected
    <3>1. Begins(v) BY <2>3 DEF Begins, Detected
    <3> QED BY <2>2, <2>3, <3>1, Limits DEF CaptureFrame, SegmentSilence, SegmentWeight
  <2>4. CASE speech_detected
    <3>1. since' = since + 1 /\ since # LeastSegment /\ since \in Nat
      BY <2>4, Least DEF CaptureFrame, Earlier, TypeOK
    <3>2. silence_time <= since /\ speech_weight >= MaxWeight - since
      BY <2>4, <3>1 DEF Approach, CaptureFrame
    <3>3. SegmentSilence(v) = SilenceOf(v) /\ SegmentWeight(v) = WeightOf(v)
      BY <2>4 DEF SegmentSilence, SegmentWeight, Begins
    <3> QED BY <2>2, <3>1, <3>2, <3>3, FrameCounts, Limits DEF TypeOK
  <2> QED BY <2>3, <2>4
<1> QED BY <1>3, <1>4, <1>5

LEMMA StepInvariant == IInv /\ [Next]_vars => IInv'
<1> SUFFICES ASSUME IInv, [Next]_vars PROVE IInv' OBVIOUS
<1>1. CASE litevad_create BY <1>1, CreateStep
<1>2. CASE litevad_destroy BY <1>2, DestroyStep
<1>3. ASSUME NEW v \in Verdict, CaptureFrame(v) PROVE IInv' BY <1>3, FrameStep
<1>4. CASE FrameFails BY <1>4, FailsStep
<1>5. CASE UNCHANGED vars
  BY <1>5 DEF vars, counters, IInv, TypeOK, Decided, Approach
<1> QED BY <1>1, <1>2, <1>3, <1>4, <1>5 DEF Next

THEOREM Invariance == Spec => []IInv
<1>1. Init => IInv BY InitInvariant
<1>2. IInv /\ [Next]_vars => IInv' BY StepInvariant
<1> QED BY <1>1, <1>2, PTL DEF Spec

(* The counters stay within their limits.                                  *)
THEOREM TypeCorrect == Spec => []TypeOK
<1>1. IInv => TypeOK BY DEF IInv
<1> QED BY <1>1, Invariance, PTL

(* Whatever the limits are, no frame is judged later than the one that     *)
(* reaches a threshold, whichever way a weight of just the limit counts.   *)
(* (The code's own, stricter bound is Decided.)                            *)
THEOREM DecisionsAreInTime == Spec => []DecidedInTime
<1>1. IInv => DecidedInTime BY Limits DEF IInv, TypeOK, Decided, DecidedInTime
<1> QED BY <1>1, Invariance, PTL

LEMMA SegmentStep ==
  ASSUME IInv, [Next]_vars, capturing, capturing', speech_detected, ~speech_detected'
  PROVE  since' >= LeastSegment
<1> USE DEF IInv
<1>1. CASE litevad_create BY <1>1 DEF litevad_create
<1>2. CASE litevad_destroy BY <1>2 DEF litevad_destroy
<1>3. ASSUME NEW v \in Verdict, CaptureFrame(v) PROVE since' >= LeastSegment
  <2>1. Ends(v) BY <1>3 DEF CaptureFrame, Counts, Detected, StaysSilent
  <2>2. since' = Earlier /\ since \in 0 .. LeastSegment
    BY <1>3 DEF CaptureFrame, TypeOK
  <2>3. SegmentSilence(v) = SilenceOf(v) /\ SegmentWeight(v) = WeightOf(v)
    BY DEF SegmentSilence, SegmentWeight, Begins
  <2>4. SilenceOf(v) >= EosSilence \/ WeightOf(v) <= EosWeight
    BY <2>1, <2>3, FrameCounts, Limits DEF Ends, Continues
  <2>5. CASE since = LeastSegment BY <2>2, <2>5, Least DEF Earlier
  <2>6. CASE since # LeastSegment
    <3>1. silence_time <= since /\ speech_weight >= MaxWeight - since
      BY <2>6 DEF Approach
    <3>2. since + 1 >= LeastSegment
      BY <3>1, <2>2, <2>4, FrameCounts, Limits, Least DEF TypeOK
    <3> QED BY <2>2, <2>6, <3>2, Least DEF Earlier
  <2> QED BY <2>5, <2>6
<1>4. CASE FrameFails BY <1>4 DEF FrameFails, counters
<1>5. CASE UNCHANGED vars BY <1>5 DEF vars, counters
<1> QED BY <1>1, <1>2, <1>3, <1>4, <1>5 DEF Next

(* Whatever the limits are, speech that has begun lasts for the shorter of *)
(* the silence limit and the fall of the weight from its maximum to its    *)
(* limit.                                                                  *)
THEOREM SegmentsLast == Spec => SegmentLasts
<1>1. IInv /\ [Next]_vars
      => [capturing /\ capturing' /\ speech_detected /\ ~speech_detected'
            => since' >= LeastSegment]_vars
  BY SegmentStep
<1> QED BY <1>1, Invariance, PTL DEF Spec, SegmentLasts

-----------------------------------------------------------------------------
(* What the window shows.  The last result tells the text, in and between  *)
(* sessions (an active frame keeps the text of the beginning, or of the    *)
(* error, that came before it); and within a session it tells whether      *)
(* speech is detected, once there is one.                                  *)

TextOfLast ==
  /\ lastVad = "SPEECH_BEGIN"  => text = "Speech"
  /\ lastVad = "SPEECH_END"    => text = "Speech End"
  /\ lastVad = "FRAME_SILENCE" => text = "Silence"
  /\ lastVad = "ERROR"         => text = "VAD Error"
  /\ lastVad = "FRAME_ACTIVE"  => text \in {"Speech", "VAD Error"}

LastOfSession ==
  /\ capturing /\ speech_detected =>
       heard /\ lastVad \in {"SPEECH_BEGIN", "FRAME_ACTIVE", "ERROR"}
  /\ capturing /\ heard /\ ~speech_detected =>
       lastVad \in {"SPEECH_END", "FRAME_SILENCE", "ERROR"}

Shown == TextOfLast /\ LastOfSession

\* The result of a frame tells whether speech is detected after it, and an active
\* frame follows another frame of its segment.
LEMMA ResultTells ==
  ASSUME TypeOK, Decided, NEW v \in Verdict
  PROVE  /\ Detected(v) => ResultOf(v) \in {"SPEECH_BEGIN", "FRAME_ACTIVE"}
         /\ ~Detected(v) => ResultOf(v) \in {"SPEECH_END", "FRAME_SILENCE"}
         /\ ResultOf(v) = "FRAME_ACTIVE" => speech_detected
<1>1. speech_detected \in BOOLEAN BY DEF TypeOK
<1>2. Begins(v) => ~Ends(v) BY BeginsActive
<1> QED BY <1>1, <1>2 DEF ResultOf, Detected, Begins, StaysSilent

LEMMA ShownByFrame ==
  ASSUME IInv, Shown, NEW v \in Verdict, CaptureFrame(v)
  PROVE  Shown'
<1> DEFINE r == ResultOf(v)
<1>1. /\ capturing /\ capturing' = capturing /\ heard' = TRUE
      /\ speech_detected' = Detected(v) /\ lastVad' = r
      /\ text' = IF r = lastVad THEN text ELSE TextOf(r)
  BY DEF CaptureFrame, Counts, Reports
<1>2. /\ Detected(v) => r \in {"SPEECH_BEGIN", "FRAME_ACTIVE"}
      /\ ~Detected(v) => r \in {"SPEECH_END", "FRAME_SILENCE"}
      /\ r = "FRAME_ACTIVE" => speech_detected
  BY ResultTells DEF IInv
<1> HIDE DEF r
<1>3. LastOfSession' BY <1>1, <1>2 DEF LastOfSession
<1>4. TextOfLast'
  <2>1. CASE r = lastVad BY <1>1, <2>1 DEF Shown, TextOfLast
  <2>2. CASE r # lastVad
    <3>1. CASE r = "FRAME_ACTIVE"
      BY <1>1, <1>2, <2>2, <3>1 DEF Shown, LastOfSession, TextOfLast, TextOf
    <3>2. CASE r # "FRAME_ACTIVE"
      BY <1>1, <1>2, <2>2, <3>2 DEF TextOfLast, TextOf
    <3> QED BY <3>1, <3>2
  <2> QED BY <2>1, <2>2
<1> QED BY <1>3, <1>4 DEF Shown

LEMMA ShownStep == IInv /\ Shown /\ [Next]_vars => Shown'
<1> SUFFICES ASSUME IInv, Shown, [Next]_vars PROVE Shown' OBVIOUS
<1>1. CASE litevad_create
  BY <1>1 DEF litevad_create, Shown, TextOfLast, LastOfSession
<1>2. CASE litevad_destroy
  BY <1>2 DEF litevad_destroy, Shown, TextOfLast, LastOfSession
<1>3. ASSUME NEW v \in Verdict, CaptureFrame(v) PROVE Shown' BY <1>3, ShownByFrame
<1>4. CASE FrameFails
  BY <1>4 DEF FrameFails, Reports, TextOf, counters, Shown, TextOfLast, LastOfSession
<1>5. CASE UNCHANGED vars BY <1>5 DEF vars, counters, Shown, TextOfLast, LastOfSession
<1> QED BY <1>1, <1>2, <1>3, <1>4, <1>5 DEF Next

(* Whatever the limits are, the window says "Speech" exactly while a       *)
(* segment lasts, from the first frame of every session, as long as the    *)
(* detector has not failed in it.                                          *)
THEOREM TextIsRight == Spec => []TextFollowsSpeech
<1>1. Init => Shown BY DEF Init, Shown, TextOfLast, LastOfSession
<1>2. IInv /\ Shown => TextFollowsSpeech
  BY DEF IInv, TypeOK, Shown, TextOfLast, LastOfSession, TextFollowsSpeech
<1> QED BY <1>1, <1>2, ShownStep, Invariance, PTL DEF Spec
=============================================================================
