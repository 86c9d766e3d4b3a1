------------------------------ MODULE LiteVad ------------------------------
(***************************************************************************)
(* The voice activity detector of a voice session (litevad.cpp), as the    *)
(* microphone thread drives it (VoipVoice.cpp) and the main window shows   *)
(* it (LgVideoChatDemo.cpp).  The thread hands over one frame of 10 ms per *)
(* call, so the loop of litevad_process makes one turn.  What WebRTC says  *)
(* of a frame is the input.  Times are counted in frames; the two times    *)
(* are only compared with their limits, so they stay at the limit once     *)
(* they reach it (the code's ints go on growing).                          *)
(***************************************************************************)
EXTENDS Integers

CONSTANTS
  BosActive,      \* DEFAULT_BOS_ACTIVE_TIME in frames
  BosWeight,      \* DEFAULT_BOS_ACTIVE_WEIGHT
  EosSilence,     \* DEFAULT_EOS_SILENCE_TIME in frames
  EosWeight,      \* DEFAULT_EOS_SILENCE_WEIGHT
  MaxWeight       \* the bound 100 of speech_weight

ASSUME LimitsAssumption ==
  /\ {BosActive, BosWeight, EosSilence, EosWeight, MaxWeight} \subseteq Nat \ {0}
  /\ BosWeight <= MaxWeight /\ EosWeight < MaxWeight

VARIABLES
  active_time, silence_time, speech_weight, speech_detected,
  capturing,   \* the microphone thread runs and has a handle
  lastVad,     \* static: it survives the session
  text,        \* what the window shows once it has handled its messages
  heard,       \* history: a frame of this session has been processed
  since        \* history: frames since the segment began, at most LeastSegment

counters == <<active_time, silence_time, speech_weight, speech_detected>>
vars     == <<counters, capturing, lastVad, text, heard, since>>

Verdict == {"active", "silent"}     \* WebRtcVad_Process returns 1 or 0
Result  == {"NOTSET", "ERROR", "FRAME_SILENCE", "FRAME_ACTIVE", "SPEECH_BEGIN",
            "SPEECH_END", "SPEECH_BEGIN_AND_END"}
Text    == {"none", "Speech", "Speech End", "Speech Begin & End", "Silence", "VAD Error"}

\* The shortest segment the thresholds leave: by silence, or by weight.
LeastSegment == IF EosSilence < MaxWeight - EosWeight
                THEN EosSilence ELSE MaxWeight - EosWeight

UpTo(limit, n) == IF n < limit THEN n ELSE limit
Earlier        == IF since < LeastSegment THEN since + 1 ELSE since

Init ==
  /\ active_time = 0 /\ silence_time = 0 /\ speech_weight = 0
  /\ speech_detected = FALSE
  /\ capturing = FALSE /\ lastVad = "NOTSET" /\ text = "none" /\ heard = FALSE /\ since = 0

-----------------------------------------------------------------------------
(* The handle: created zeroed for each session, destroyed with it.         *)

litevad_create ==
  /\ ~capturing
  /\ active_time' = 0 /\ silence_time' = 0 /\ speech_weight' = 0
  /\ speech_detected' = FALSE
  /\ capturing' = TRUE /\ heard' = FALSE /\ since' = 0
  /\ UNCHANGED <<lastVad, text>>

litevad_destroy ==
  /\ capturing /\ capturing' = FALSE
  /\ UNCHANGED <<counters, lastVad, text, heard, since>>

-----------------------------------------------------------------------------
(* One frame.  ActiveOf, SilenceOf and WeightOf are what                   *)
(* litevad_process_frame makes of the counters.                            *)

ActiveOf(v)  == IF v = "active" THEN UpTo(BosActive, active_time + 1) ELSE 0
SilenceOf(v) == IF v = "active" THEN 0 ELSE UpTo(EosSilence, silence_time + 1)
WeightOf(v)  == IF v = "active" THEN UpTo(MaxWeight, speech_weight + 1)
                ELSE IF speech_weight > 0 THEN speech_weight - 1 ELSE 0

\* Nothing detected yet and neither threshold reached.
StaysSilent(v) == ~speech_detected /\ ActiveOf(v) < BosActive /\ WeightOf(v) < BosWeight

Begins(v) == ~speech_detected /\ ~StaysSilent(v)

\* Mutant: a segment begins with the weight it was detected at.
SegmentWeightUnraised(v) == WeightOf(v)

\* A frame that begins a segment raises the weight and forgets the silence.
SegmentWeight(v)  == IF Begins(v) THEN MaxWeight ELSE WeightOf(v)
SegmentSilence(v) == IF Begins(v) THEN 0 ELSE SilenceOf(v)

\* Mutant: it takes both thresholds to end a segment.
ContinuesByEither(v) == SegmentSilence(v) < EosSilence \/ SegmentWeight(v) > EosWeight

Continues(v) == SegmentSilence(v) < EosSilence /\ SegmentWeight(v) > EosWeight

\* A frame past a threshold that is not silent leaves the segment open.
Ends(v) == ~StaysSilent(v) /\ ~Continues(v) /\ v = "silent"

\* Mutant: the end of a segment leaves it detected.
DetectedStays(v) == ~StaysSilent(v)

Detected(v) == ~StaysSilent(v) /\ ~Ends(v)

Counts(v) ==
  /\ active_time'     = IF Ends(v) THEN 0 ELSE ActiveOf(v)
  /\ silence_time'    = IF Ends(v) THEN 0 ELSE SegmentSilence(v)
  /\ speech_weight'   = IF Ends(v) THEN 0 ELSE SegmentWeight(v)
  /\ speech_detected' = Detected(v)

ResultOf(v) ==
  CASE StaysSilent(v)             -> "FRAME_SILENCE"
    [] Begins(v) /\ Ends(v)       -> "SPEECH_BEGIN_AND_END"
    [] Begins(v) /\ ~Ends(v)      -> "SPEECH_BEGIN"
    [] speech_detected /\ Ends(v)  -> "SPEECH_END"
    [] speech_detected /\ ~Ends(v) -> "FRAME_ACTIVE"

-----------------------------------------------------------------------------
(* What is shown.  A result is posted when it differs from the last one,   *)
(* and the window's text follows it, except for an active frame.           *)

TextOf(r) ==
  CASE r = "SPEECH_BEGIN"         -> "Speech"
    [] r = "SPEECH_END"           -> "Speech End"
    [] r = "SPEECH_BEGIN_AND_END" -> "Speech Begin & End"
    [] r = "FRAME_SILENCE"        -> "Silence"
    [] r = "FRAME_ACTIVE"         -> text
    [] r = "ERROR"                -> "VAD Error"

Reports(r) ==
  /\ lastVad' = r
  /\ text' = IF r = lastVad THEN text ELSE TextOf(r)

CaptureFrame(v) ==
  /\ capturing
  /\ Counts(v) /\ Reports(ResultOf(v))
  /\ heard' = TRUE
  /\ since' = IF speech_detected THEN Earlier ELSE 0
  /\ UNCHANGED capturing

\* WebRtcVad_Process fails: no counter changes.
FrameFails ==
  /\ capturing /\ Reports("ERROR") /\ heard' = TRUE
  /\ UNCHANGED <<counters, capturing, since>>

Next ==
  \/ litevad_create
  \/ litevad_destroy
  \/ \E v \in Verdict : CaptureFrame(v)
  \/ FrameFails

Spec == Init /\ [][Next]_vars

-----------------------------------------------------------------------------
TypeOK ==
  /\ active_time \in 0 .. BosActive /\ silence_time \in 0 .. EosSilence
  /\ speech_weight \in 0 .. MaxWeight
  /\ speech_detected \in BOOLEAN /\ capturing \in BOOLEAN /\ heard \in BOOLEAN
  /\ lastVad \in Result /\ text \in Text /\ since \in 0 .. LeastSegment

(* Every frame's decision is the last one due: no segment goes on with as  *)
(* much silence as ends it or with a weight lower than ends it, whichever  *)
(* of the two comes first, and outside one neither threshold for its       *)
(* beginning has been reached; so the branches the code has for a frame    *)
(* past a threshold (litevad.cpp 268-285) end a segment no later than that *)
(* frame, and SPEECH_BEGIN_AND_END is never reported.  What a weight of    *)
(* exactly the limit does is left open here: see EndsAsDocumented.         *)
DecidedInTime ==
  /\ speech_detected => silence_time < EosSilence /\ speech_weight >= EosWeight
  /\ ~speech_detected => active_time < BosActive /\ speech_weight < BosWeight
  /\ lastVad # "SPEECH_BEGIN_AND_END"

(* What the comments beside the limits promise: a segment ends when the    *)
(* silence reaches its limit or "when the weight value is lower than 30"   *)
(* (litevad.cpp 52, 68).  The code ends it at 30 already.                  *)
EndsAsDocumented ==
  [][capturing /\ capturing' /\ speech_detected /\ ~speech_detected'
       => silence_time + 1 >= EosSilence \/ speech_weight - 1 < EosWeight]_vars

(* Speech that has begun lasts: whatever the frames after it are, at least *)
(* LeastSegment of them (700 ms with the code's limits) pass before the    *)
(* detector says it has ended (the weight of 100, litevad.cpp 253-275).    *)
SegmentLasts ==
  [][capturing /\ capturing' /\ speech_detected /\ ~speech_detected'
       => since' >= LeastSegment]_vars

(* The window says "Speech" exactly while a segment lasts, in every        *)
(* session, although only changes are posted, lastVad survives the session *)
(* and active frames do not touch the text; an error hides it until the    *)
(* segment ends (VoipVoice.cpp 713-716, LgVideoChatDemo.cpp 431-461).      *)
TextFollowsSpeech ==
  capturing /\ heard /\ text # "VAD Error" => (text = "Speech") = speech_detected
=============================================================================
