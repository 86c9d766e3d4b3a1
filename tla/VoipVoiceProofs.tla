-------------------------- MODULE VoipVoiceProofs --------------------------
(***************************************************************************)
(* For any set of callers, any number of slots, sessions and datagrams:    *)
(* the threads of a voice session end with it, the critical section is     *)
(* left by whoever entered it, and between the two threads the ring is a   *)
(* first-in first-out buffer.  The argument has two layers: who may be     *)
(* where (Control), and, resting on it, what the slots hold (Frames).      *)
(* Control also tells what a stop waits for, that the ways in which it     *)
(* waits in vain are for good, and what bounds the rest of it.             *)
(***************************************************************************)
EXTENDS VoipVoice, SequenceTheorems, TLAPS

ControlTypes ==
  /\ g_lock \in Callers \cup {NoOne}
  /\ pc \in [Callers -> {"idle", "starting", "setup"} \cup Joining]
  /\ VoipRunning \in BOOLEAN
  /\ micEnd \in Events /\ renderEnd \in Events /\ udpEnd \in Events
  /\ mic \in {"none", "running", "ended"}
  /\ render \in {"none", "starting", "playing", "locked", "popping", "draining", "ended"}
  /\ udp \in {"none", "starting", "waiting", "got", "filling", "leaving", "ended"}
  /\ cs \in {"uninit", "free", "udp", "render"}

\* A caller in the middle of a start or a stop holds g_lock, and VoipRunning
\* tells which of the two it is in.  A start has set up the critical section anew.
CallersHoldLock ==
  \A c \in Callers :
    /\ pc[c] # "idle" => g_lock = c
    /\ pc[c] \in {"starting", "setup"} => ~ VoipRunning
    /\ pc[c] = "setup" => cs = "free"
    /\ pc[c] \in Joining => VoipRunning

\* Threads, and the event that the receiver creates, are those of a session.
ThreadsOfSession ==
  ~ VoipRunning => mic = "none" /\ render = "none" /\ udp = "none" /\ udpEnd = "none"

\* The receiver is always seen out of the critical section; the speaker may have
\* died inside, and then only the next session takes it away.
Section ==
  /\ cs = "udp" <=> udp \in {"filling", "leaving"}
  /\ render \in {"locked", "popping"} => cs = "render"
  /\ cs = "render" => render \in {"locked", "popping", "ended", "none"}

Control == ControlTypes /\ CallersHoldLock /\ ThreadsOfSession /\ Section

LEMMA InitControl == Init => Control
BY DEF Init, Control, ControlTypes, CallersHoldLock, ThreadsOfSession, Section, Joining, Events

LEMMA CallerControl ==
  ASSUME Control, NEW c \in Callers, Caller(c)
  PROVE  Control'
<1> USE NoOneAssumption DEF Control, ControlTypes, CallersHoldLock, ThreadsOfSession, Section, Joining,
        Events, eventVars, renderVars, udpVars
<1>1. CASE StartLocks(c) BY <1>1 DEF StartLocks
<1>2. CASE StopSignals(c) BY <1>2 DEF StopSignals
<1>3. CASE StartKeepsLock(c) BY <1>3 DEF StartKeepsLock
<1>4. CASE StartSetsUp(c) BY <1>4 DEF StartSetsUp
<1>5. CASE StartOpusFails(c) BY <1>5 DEF StartOpusFails
<1>6. CASE StartCreatesThreads(c)
  <2>1. ControlTypes' BY <1>6 DEF StartCreatesThreads
  <2>2. CallersHoldLock' BY <1>6 DEF StartCreatesThreads
  <2>3. ThreadsOfSession' BY <1>6 DEF StartCreatesThreads
  <2>4. Section' BY <1>6 DEF StartCreatesThreads
  <2> QED BY <2>1, <2>2, <2>3, <2>4
<1>7. CASE StopJoinsRender(c) BY <1>7 DEF StopJoinsRender
<1>8. CASE StopJoinsMic(c) BY <1>8 DEF StopJoinsMic
<1>9. CASE StopJoinsUdp(c) BY <1>9 DEF StopJoinsUdp, Closing
<1> QED BY <1>1, <1>2, <1>3, <1>4, <1>5, <1>6, <1>7, <1>8, <1>9 DEF Caller, StartSteps, StopSteps

LEMMA ThreadControl ==
  ASSUME Control, UdpThread \/ RenderThread \/ MicThread \/ DatagramArrives
  PROVE  Control'
<1> USE DEF Control, ControlTypes, CallersHoldLock, ThreadsOfSession, Section, Events,
        sessionVars, eventVars, udpVars, renderVars
<1>1. UNCHANGED <<g_lock, pc, VoipRunning>>
  BY DEF UdpThread, UdpCreatesEvents, UdpReceives, UdpEnds, UdpPushes, UdpFills, UdpLeaves,
     RenderThread, RenderStarts, RenderFails, RenderEnters, RenderThrows, RenderPops, RenderLeaves,
     RenderEnds, RenderDrained, MicThread, MicEnds, MicFails, DatagramArrives
<1>2. CASE UdpCreatesEvents BY <1>1, <1>2 DEF UdpCreatesEvents
<1>3. CASE UdpReceives BY <1>1, <1>3 DEF UdpReceives
<1>4. CASE UdpEnds BY <1>1, <1>4 DEF UdpEnds
<1>5. CASE UdpPushes BY <1>1, <1>5 DEF UdpPushes
<1>6. CASE UdpFills BY <1>1, <1>6 DEF UdpFills
<1>7. CASE UdpLeaves BY <1>1, <1>7 DEF UdpLeaves
<1>8. CASE RenderStarts BY <1>1, <1>8 DEF RenderStarts
<1>9. CASE RenderFails BY <1>1, <1>9 DEF RenderFails
<1>10. CASE RenderEnters BY <1>1, <1>10 DEF RenderEnters
<1>11. CASE RenderThrows BY <1>1, <1>11 DEF RenderThrows
<1>12. CASE RenderPops BY <1>1, <1>12 DEF RenderPops
<1>13. CASE RenderLeaves BY <1>1, <1>13 DEF RenderLeaves
<1>14. CASE RenderEnds BY <1>1, <1>14 DEF RenderEnds
<1>15. CASE RenderDrained BY <1>1, <1>15 DEF RenderDrained
<1>16. CASE MicEnds BY <1>1, <1>16 DEF MicEnds
<1>17. CASE MicFails BY <1>1, <1>17 DEF MicFails
<1>18. CASE DatagramArrives BY <1>1, <1>18 DEF DatagramArrives
<1> QED
  BY <1>2, <1>3, <1>4, <1>5, <1>6, <1>7, <1>8, <1>9, <1>10, <1>11, <1>12, <1>13, <1>14, <1>15,
     <1>16, <1>17, <1>18 DEF UdpThread, RenderThread, MicThread

LEMMA NextControl == Control /\ [Next]_vars => Control'
<1> SUFFICES ASSUME Control, [Next]_vars PROVE Control' OBVIOUS
<1>1. CASE UNCHANGED vars
  BY <1>1 DEF vars, sessionVars, eventVars, udpVars, renderVars, Control, ControlTypes,
     CallersHoldLock, ThreadsOfSession, Section
<1>2. ASSUME NEW c \in Callers, Caller(c) PROVE Control' BY <1>2, CallerControl
<1> QED BY <1>1, <1>2, ThreadControl DEF Next

LEMMA ControlInvariance == Spec => []Control
BY InitControl, NextControl, PTL DEF Spec

\* No thread of a session, and no event, outlives it (VoipVoice.cpp 162-187).
THEOREM ThreadsEnd == Spec => []NoThreadOutlivesSession
<1>1. Control => NoThreadOutlivesSession
  BY DEF Control, ThreadsOfSession, NoThreadOutlivesSession
<1> QED BY <1>1, ControlInvariance, PTL

\* The critical section is left by the thread inside, or taken away by a new
\* session when there is no such thread (VoipVoice.cpp 115, 361, 808).
THEOREM OwnersRelease == Spec => ReleasedByItsOwner
<1>1. Control /\ [Next]_vars =>
        [/\ cs = "udp" /\ cs' # "udp" => udp = "leaving"
         /\ cs = "render" /\ cs' # "render" => render \in {"locked", "popping", "none"}]_vars
  <2> SUFFICES ASSUME Control, Next, cs' # cs
               PROVE  /\ cs = "udp" => udp = "leaving"
                      /\ cs = "render" => render \in {"locked", "popping", "none"}
    BY DEF vars
  <2> USE DEF Control, CallersHoldLock, ThreadsOfSession, Section
  <2>1. ASSUME NEW c \in Callers, Caller(c)
        PROVE  render = "none" /\ udp = "none"
    BY <2>1 DEF Caller, StartSteps, StopSteps, StartLocks, StopSignals, StartKeepsLock, StartSetsUp,
       StartOpusFails, StartCreatesThreads, StopJoinsRender, StopJoinsMic, StopJoinsUdp, Closing
  <2>2. CASE UdpThread
    BY <2>2 DEF UdpThread, UdpCreatesEvents, UdpReceives, UdpEnds, UdpPushes, UdpFills, UdpLeaves
  <2>3. CASE RenderThread
    BY <2>3 DEF RenderThread, RenderStarts, RenderFails, RenderEnters, RenderThrows, RenderPops,
       RenderLeaves, RenderEnds, RenderDrained
  <2>4. CASE MicThread \/ DatagramArrives
    BY <2>4 DEF MicThread, MicEnds, MicFails, DatagramArrives
  <2> QED BY <2>1, <2>2, <2>3, <2>4 DEF Next
<1> QED BY ControlInvariance, <1>1, PTL DEF Spec, ReleasedByItsOwner
-----------------------------------------------------------------------------
(* What a stop waits for, and the ways it waits for ever.                   *)

\* While the end events exist the threads look at them: each thread that a stop
\* has still to join has ended or has its signal, the receiver's apart.
ToldToEnd ==
  \A c \in Callers :
    /\ pc[c] = "joinRender" => render \in {"draining", "ended"} \/ renderEnd = "set"
    /\ pc[c] \in {"joinRender", "joinMic"} => mic = "ended" \/ micEnd = "set"
    /\ pc[c] \in {"joinMic", "joinUdp"} => render = "ended"
    /\ pc[c] = "joinUdp" => mic = "ended"

\* The receiver has its end event from its first step until it ends.
ReceiverHasEvent ==
  /\ udpEnd = "none" <=> udp \in {"none", "starting"}
  /\ VoipRunning => udp # "none"

StopInv == Control /\ ToldToEnd /\ ReceiverHasEvent

\* What only the named steps change.
LEMMA CallerStops ==
  ASSUME StopInv, NEW c \in Callers, Caller(c)
  PROVE  ToldToEnd' /\ ReceiverHasEvent'
<1> USE NoOneAssumption DEF StopInv, Control, ControlTypes, CallersHoldLock, ThreadsOfSession,
        ToldToEnd, ReceiverHasEvent, Joining, Events, eventVars, renderVars, udpVars
<1>1. CASE StartLocks(c) BY <1>1 DEF StartLocks
<1>2. CASE StopSignals(c)
  <2>1. /\ pc' = [pc EXCEPT ![c] = "joinRender"] /\ \A d \in Callers : pc[d] = "idle"
        /\ micEnd' = "set" /\ renderEnd' = "set" /\ UNCHANGED <<mic, render, udp>>
    BY <1>2 DEF StopSignals
  <2>2. ToldToEnd' BY <2>1
  <2>3. ReceiverHasEvent' BY <1>2, <2>1 DEF StopSignals
  <2> QED BY <2>2, <2>3
<1>3. CASE StartKeepsLock(c) BY <1>3 DEF StartKeepsLock
<1>4. CASE StartSetsUp(c) BY <1>4 DEF StartSetsUp
<1>5. CASE StartOpusFails(c) BY <1>5 DEF StartOpusFails
<1>6. CASE StartCreatesThreads(c)
  <2>1. \A d \in Callers : pc'[d] = "idle" BY <1>6 DEF StartCreatesThreads
  <2>2. udp' = "starting" /\ udpEnd' = "none" BY <1>6 DEF StartCreatesThreads
  <2> QED BY <2>1, <2>2
<1>7. CASE StopJoinsRender(c) BY <1>7 DEF StopJoinsRender
<1>8. CASE StopJoinsMic(c) BY <1>8 DEF StopJoinsMic
<1>9. CASE StopJoinsUdp(c)
  <2>1. \A d \in Callers : pc'[d] = "idle" BY <1>9 DEF StopJoinsUdp, Closing
  <2>2. udpEnd' = "none" /\ udp' = "none" /\ VoipRunning' = FALSE
    BY <1>9 DEF StopJoinsUdp, Closing
  <2> QED BY <2>1, <2>2
<1> QED BY <1>1, <1>2, <1>3, <1>4, <1>5, <1>6, <1>7, <1>8, <1>9 DEF Caller, StartSteps, StopSteps

LEMMA ThreadStops ==
  ASSUME StopInv, UdpThread \/ RenderThread \/ MicThread \/ DatagramArrives
  PROVE  ToldToEnd' /\ ReceiverHasEvent'
<1> USE DEF StopInv, Control, ControlTypes, CallersHoldLock, ThreadsOfSession, ToldToEnd,
        ReceiverHasEvent, Joining, Events
<1>1. UNCHANGED <<pc, VoipRunning>>
  BY DEF UdpThread, UdpCreatesEvents, UdpReceives, UdpEnds, UdpPushes, UdpFills, UdpLeaves,
     RenderThread, RenderStarts, RenderFails, RenderEnters, RenderThrows, RenderPops, RenderLeaves,
     RenderEnds, RenderDrained, MicThread, MicEnds, MicFails, DatagramArrives, sessionVars
<1>2. CASE UdpThread
  <2>1. UNCHANGED <<render, renderEnd, mic, micEnd>>
    BY <1>2 DEF UdpThread, UdpCreatesEvents, UdpReceives, UdpEnds, UdpPushes, UdpFills, UdpLeaves,
       eventVars, renderVars
  <2>2. ReceiverHasEvent'
    BY <1>2 DEF UdpThread, UdpCreatesEvents, UdpReceives, UdpEnds, UdpPushes, UdpFills, UdpLeaves,
       eventVars
  <2> QED BY <1>1, <2>1, <2>2
<1>3. CASE RenderThread
  <2>1. UNCHANGED <<mic, micEnd, udp, udpEnd>>
    BY <1>3 DEF RenderThread, RenderStarts, RenderFails, RenderEnters, RenderThrows, RenderPops,
       RenderLeaves, RenderEnds, RenderDrained, eventVars, udpVars
  <2>2. /\ render \in {"draining", "ended"} => render' = "ended"
        /\ render = "ended" => FALSE
        /\ renderEnd = "set" => renderEnd' = "set" \/ render' = "draining"
    BY <1>3 DEF RenderThread, RenderStarts, RenderFails, RenderEnters, RenderThrows, RenderPops,
       RenderLeaves, RenderEnds, RenderDrained, eventVars
  <2> QED BY <1>1, <2>1, <2>2
<1>4. CASE MicThread
  <2>1. UNCHANGED <<render, renderEnd, udp, udpEnd>> /\ mic' = "ended"
    BY <1>4 DEF MicThread, MicEnds, MicFails, eventVars, renderVars, udpVars
  <2> QED BY <1>1, <2>1
<1>5. CASE DatagramArrives
  <2>1. UNCHANGED <<render, renderEnd, mic, micEnd, udp, udpEnd>>
    BY <1>5 DEF DatagramArrives, eventVars, renderVars, udpVars
  <2> QED BY <1>1, <2>1
<1> QED BY <1>2, <1>3, <1>4, <1>5

LEMMA NextStops == StopInv /\ [Next]_vars => StopInv'
<1> SUFFICES ASSUME StopInv, [Next]_vars PROVE StopInv' OBVIOUS
<1>1. Control' BY NextControl DEF StopInv
<1>2. CASE UNCHANGED vars
  BY <1>1, <1>2 DEF vars, sessionVars, eventVars, udpVars, renderVars, StopInv, ToldToEnd,
     ReceiverHasEvent
<1>3. ASSUME NEW c \in Callers, Caller(c) PROVE StopInv' BY <1>1, <1>3, CallerStops DEF StopInv
<1>4. CASE UdpThread \/ RenderThread \/ MicThread \/ DatagramArrives
  BY <1>1, <1>4, ThreadStops DEF StopInv
<1> QED BY <1>2, <1>3, <1>4 DEF Next

LEMMA StopInvariance == Spec => []StopInv
<1>1. Init => StopInv
  BY InitControl DEF Init, StopInv, ToldToEnd, ReceiverHasEvent
<1> QED BY <1>1, NextStops, PTL DEF Spec

\* A join of VoipVoiceStop (VoipVoice.cpp 162-175) is for a thread that has
\* ended or been told to: neither the speaker nor the microphone thread can use
\* up its signal and run on, and the order of the joins does not matter.
THEOREM StopsAreHeard == Spec => []ToldToEnd
<1>1. StopInv => ToldToEnd BY DEF StopInv
<1> QED BY <1>1, StopInvariance, PTL


\* What the session's threads can change of that.
LEMMA ThreadsMove ==
  ASSUME UdpThread \/ RenderThread \/ MicThread \/ DatagramArrives
  PROVE  /\ UNCHANGED <<g_lock, pc>>
         /\ udp = "ended" => udp' = "ended"
         /\ udpEnd = "set" => udpEnd' = "set" \/ udp' = "ended" \/ udp = "starting"
         /\ udpEnd # "set" /\ udp # "ended" => udpEnd' # "set" /\ udp' # "ended"
         /\ SectionAbandoned => SectionAbandoned'
<1> USE DEF sessionVars, eventVars, udpVars, renderVars, SectionAbandoned
<1>1. CASE UdpThread
  BY <1>1 DEF UdpThread, UdpCreatesEvents, UdpReceives, UdpEnds, UdpPushes, UdpFills, UdpLeaves
<1>2. CASE RenderThread
  BY <1>2 DEF RenderThread, RenderStarts, RenderFails, RenderEnters, RenderThrows, RenderPops,
     RenderLeaves, RenderEnds, RenderDrained
<1>3. CASE MicThread BY <1>3 DEF MicThread, MicEnds, MicFails
<1>4. CASE DatagramArrives BY <1>4 DEF DatagramArrives
<1> QED BY <1>1, <1>2, <1>3, <1>4

\* A caller acts while all the others are outside.
LEMMA CallersAlone ==
  ASSUME StopInv, NEW d \in Callers, Caller(d)
  PROVE  \A c \in Callers : c # d => pc'[c] = "idle"
<1> USE NoOneAssumption DEF StopInv, Control, ControlTypes, CallersHoldLock
<1>1. \A c \in Callers : c # d => pc[c] = "idle"
  BY DEF Caller, StartSteps, StopSteps, StartLocks, StopSignals, StartKeepsLock, StartSetsUp,
     StartOpusFails, StartCreatesThreads, StopJoinsRender, StopJoinsMic, StopJoinsUdp
<1>2. \A c \in Callers : c # d => pc'[c] = pc[c]
  BY DEF Caller, StartSteps, StopSteps, StartLocks, StopSignals, StartKeepsLock, StartSetsUp,
     StartOpusFails, StartCreatesThreads, StopJoinsRender, StopJoinsMic, StopJoinsUdp, Closing
<1> QED BY <1>1, <1>2

\* The receiver's signal is lost in one case: the stop is made while the
\* receiver has not taken its first step, which creates the event
\* (VoipNetwork.cpp 41-48, 94-97).
OnlyEarlyStopsAreLost ==
  [][\A c \in Callers :
       EndSignalLost(c)' /\ ~ EndSignalLost(c) => StopSignals(c) /\ udp = "starting"]_vars

THEOREM EarlyStopsAreLost == Spec => OnlyEarlyStopsAreLost
<1>1. StopInv /\ [Next]_vars =>
        [\A c \in Callers :
           EndSignalLost(c)' /\ ~ EndSignalLost(c) => StopSignals(c) /\ udp = "starting"]_vars
  <2> SUFFICES ASSUME StopInv, Next, NEW c \in Callers, EndSignalLost(c)', ~ EndSignalLost(c)
               PROVE  StopSignals(c) /\ udp = "starting"
    OBVIOUS
  <2>1. pc'[c] \in Joining /\ udp' # "ended" /\ udpEnd' # "set" BY DEF EndSignalLost
  <2>2. udpEnd = "set" => udp # "starting" BY DEF StopInv, ReceiverHasEvent
  <2>3. CASE UdpThread \/ RenderThread \/ MicThread \/ DatagramArrives
    <3>1. pc' = pc BY <2>3, ThreadsMove
    <3>2. udpEnd' = "set" \/ udp' = "ended" BY <2>2, <2>3, <3>1, <2>1, ThreadsMove DEF EndSignalLost
    <3> QED BY <2>1, <3>2
  <2>4. ASSUME NEW d \in Callers, Caller(d) PROVE StopSignals(c) /\ udp = "starting"
    <3>1. c = d BY <2>1, <2>4, CallersAlone DEF Joining
    <3>2. CASE StopSignals(c)
      <4>1. udpEnd # "set" /\ VoipRunning /\ udp' = udp /\ pc[c] = "idle" /\ udpEnd = "none"
        BY <2>1, <3>2 DEF StopSignals, udpVars
      <4> QED BY <3>2, <4>1 DEF StopInv, ReceiverHasEvent
    <3>3. CASE ~ StopSignals(c)
      <4>1. pc[c] \in Joining /\ UNCHANGED <<udp, udpEnd>>
        BY <2>1, <2>4, <3>1, <3>3
           DEF Caller, StartSteps, StopSteps, StartLocks, StartKeepsLock, StartSetsUp, StartOpusFails,
               StartCreatesThreads, StopJoinsRender, StopJoinsMic, StopJoinsUdp, Closing, Joining,
               udpVars, eventVars, StopInv, Control, ControlTypes
      <4> QED BY <2>1, <4>1 DEF EndSignalLost
    <3> QED BY <3>2, <3>3
  <2> QED BY <2>3, <2>4 DEF Next
<1> QED BY <1>1, StopInvariance, PTL DEF OnlyEarlyStopsAreLost, Spec

\* The three ways in which g_lock is not given back: its holder has returned,
\* waits for a receiver that was not told to end, or for one that waits for a
\* critical section whose owner is gone.
NeverReturns(c) == g_lock = c /\ (LockKept(c) \/ EndSignalLost(c) \/ SectionAbandoned)

LEMMA StaysStuck ==
  ASSUME StopInv, [Next]_vars, NEW c \in Callers, NeverReturns(c)
  PROVE  NeverReturns(c)'
<1>1. g_lock = c BY DEF NeverReturns
<1>2. CASE UNCHANGED vars
  BY <1>1, <1>2 DEF vars, sessionVars, eventVars, udpVars, renderVars, NeverReturns, LockKept,
     EndSignalLost, SectionAbandoned
<1>3. CASE UdpThread \/ RenderThread \/ MicThread \/ DatagramArrives
  BY <1>1, <1>3, ThreadsMove DEF NeverReturns, LockKept, EndSignalLost
<1>4. ASSUME NEW d \in Callers, Caller(d) PROVE NeverReturns(c)'
  <2>1. pc[d] \in {"starting", "setup"} \cup Joining /\ (StartSteps(d) \/ StopSteps(d))
    BY <1>1, <1>4, NoOneAssumption
       DEF Caller, StartSteps, StopSteps, StartLocks, StopSignals, StartKeepsLock, StartSetsUp,
           StartOpusFails, StartCreatesThreads, StopJoinsRender, StopJoinsMic, StopJoinsUdp, Joining
  <2>2. d = c BY <1>1, <2>1 DEF StopInv, Control, CallersHoldLock, Joining
  <2>3. pc[c] \in Joining /\ udp # "ended"
    <3>1. SectionAbandoned => VoipRunning
      BY DEF SectionAbandoned, StopInv, Control, ThreadsOfSession
    <3>2. pc[c] \in {"starting", "setup"} => ~ VoipRunning
      BY DEF StopInv, Control, CallersHoldLock
    <3> QED
      BY <2>1, <2>2, <3>1, <3>2 DEF NeverReturns, LockKept, EndSignalLost, SectionAbandoned, Joining
  <2>4. StopJoinsRender(c) \/ StopJoinsMic(c)
    BY <2>1, <2>2, <2>3 DEF StartSteps, StopSteps, StartKeepsLock, StartSetsUp, StartOpusFails,
       StartCreatesThreads, StopJoinsUdp, Joining
  <2>5. pc'[c] \in Joining /\ UNCHANGED <<g_lock, udp, udpEnd, render, cs>>
    BY <2>4 DEF StopJoinsRender, StopJoinsMic, Joining, udpVars, eventVars, renderVars, StopInv,
       Control, ControlTypes
  <2> QED BY <1>1, <2>3, <2>5 DEF NeverReturns, LockKept, EndSignalLost, SectionAbandoned, Joining
<1> QED BY <1>1, <1>2, <1>3, <1>4 DEF Next

\* Each of them is for good: LockIsGivenBack excepts nothing that could still
\* come right, and no step of any thread mends such a session (VoipVoice.cpp
\* 115-119, 162-186, 326, 790).
THEOREM HangsAreForGood ==
  ASSUME NEW c \in Callers
  PROVE  Spec => [](NeverReturns(c) => []NeverReturns(c))
<1>1. StopInv /\ [Next]_vars /\ NeverReturns(c) => NeverReturns(c)' BY StaysStuck
<1>2. Spec => [][Next]_vars BY PTL DEF Spec
<1> QED BY <1>1, <1>2, StopInvariance, PTL
-----------------------------------------------------------------------------
(* The ring, as two threads see it.                                         *)

Ring ==
  /\ start_index_ \in Queue!Slot \cup {-1} /\ end_index_ \in Queue!Slot \cup {-1}
  /\ num_queued_ \in 0 .. size_
  /\ Queue!CountMatchesIndices

LEMMA RingShape ==
  ASSUME Ring
  PROVE  /\ Queue!isFull <=> num_queued_ = size_
         /\ Queue!isEmpty <=> num_queued_ = 0
         /\ num_queued_ > 0 => Queue!SlotOf(1) = start_index_
         /\ \A k \in 1 .. num_queued_ : Queue!SlotOf(k) \in Queue!Slot
         /\ \A j, k \in 1 .. num_queued_ : j # k => Queue!SlotOf(j) # Queue!SlotOf(k)
BY BoundsAssumption, SizeAssumption
   DEF Ring, Queue!CountMatchesIndices, Queue!Slot, Queue!isFull, Queue!isEmpty, Queue!SlotOf

LEMMA PushMovesRing ==
  ASSUME Ring, ~ Queue!isFull, Queue!pushIndices
  PROVE  /\ Ring' /\ num_queued_' = num_queued_ + 1
         /\ Queue!PushIndex \in Queue!Slot
         /\ \A k \in 1 .. num_queued_ :
              Queue!SlotOf(k)' = Queue!SlotOf(k) /\ Queue!SlotOf(k) # Queue!PushIndex
         /\ \A k \in {num_queued_ + 1} : Queue!SlotOf(k)' = Queue!PushIndex
<1> USE BoundsAssumption, SizeAssumption
    DEF Ring, Queue!CountMatchesIndices, Queue!Slot, Queue!isFull, Queue!isEmpty, Queue!pushIndices,
        Queue!PushIndex
<1>1. Ring' OBVIOUS
<1>2. num_queued_' = num_queued_ + 1 /\ Queue!PushIndex \in Queue!Slot OBVIOUS
<1>3. ASSUME NEW k \in 1 .. num_queued_
      PROVE  Queue!SlotOf(k)' = Queue!SlotOf(k) /\ Queue!SlotOf(k) # Queue!PushIndex
  BY DEF Queue!SlotOf
<1>4. ASSUME NEW k \in {num_queued_ + 1} PROVE Queue!SlotOf(k)' = Queue!PushIndex
  BY DEF Queue!SlotOf
<1> QED BY <1>1, <1>2, <1>3, <1>4

LEMMA PopMovesRing ==
  ASSUME Ring, ~ Queue!isEmpty, Queue!popIndices
  PROVE  /\ Ring' /\ num_queued_' = num_queued_ - 1 /\ num_queued_ > 0
         /\ \A k \in 1 .. (num_queued_ - 1) : Queue!SlotOf(k)' = Queue!SlotOf(k + 1)
<1> USE BoundsAssumption, SizeAssumption
    DEF Ring, Queue!CountMatchesIndices, Queue!Slot, Queue!isEmpty, Queue!popIndices
<1>1. Ring' OBVIOUS
<1>2. num_queued_' = num_queued_ - 1 /\ num_queued_ > 0 OBVIOUS
<1>3. ASSUME NEW k \in 1 .. (num_queued_ - 1) PROVE Queue!SlotOf(k)' = Queue!SlotOf(k + 1)
  BY DEF Queue!SlotOf
<1> QED BY <1>1, <1>2, <1>3
-----------------------------------------------------------------------------
(* What the slots hold.                                                     *)

DataTypes ==
  /\ sessions \in 0 .. MaxSessions /\ arrived \in 0 .. MaxFrames
  /\ wire \in Seq(Frame) /\ Buffer \in Frame \cup {NoFrame}
  /\ udpIndex \in Queue!Slot \cup {-1}
  /\ VoipStarted \in BOOLEAN /\ left \in 0 .. size_ /\ played \in Frame \cup {NoFrame}
  /\ start_p_ \in [Queue!Slot -> Frame \cup {Unwritten}]

\* The receiver fills the newest slot, with a datagram it has read.
Filling ==
  /\ udp \in {"got", "filling"} => Buffer \in Frame
  /\ udp = "filling" => num_queued_ > 0 /\ udpIndex = Queue!SlotOf(num_queued_)

\* Every queued slot but that one is written.
Written ==
  \A k \in 1 .. num_queued_ :
    (udp = "filling" /\ k = num_queued_) \/ start_p_[Queue!SlotOf(k)] \in Frame

Frames == DataTypes /\ Ring /\ Filling /\ Written /\ PopsAreCovered

LEMMA InitFrames == Init => Frames
<1> SUFFICES ASSUME Init PROVE Frames OBVIOUS
<1> USE BoundsAssumption, SizeAssumption DEF Init
<1>1. DataTypes
  <2>1. sessions \in 0 .. MaxSessions /\ arrived \in 0 .. MaxFrames /\ left \in 0 .. size_ OBVIOUS
  <2>2. wire \in Seq(Frame) /\ udpIndex \in Queue!Slot \cup {-1} OBVIOUS
  <2>3. Buffer \in Frame \cup {NoFrame} /\ played \in Frame \cup {NoFrame} OBVIOUS
  <2>4. start_p_ \in [Queue!Slot -> Frame \cup {Unwritten}] BY Zenon
  <2> QED BY <2>1, <2>2, <2>3, <2>4, Zenon DEF DataTypes
<1>2. Ring BY DEF Ring, Queue!CountMatchesIndices
<1>3. Filling /\ Written /\ PopsAreCovered BY DEF Filling, Written, PopsAreCovered
<1> QED BY <1>1, <1>2, <1>3 DEF Frames

\* Steps that neither move the ring nor begin or end the filling of a slot.
LEMMA StillFrames ==
  ASSUME Frames, UNCHANGED <<queueVars, udpIndex, left, played, Buffer>>,
         udp' = "filling" <=> udp = "filling", udp' = "got" => udp = "got",
         render' \in {"locked", "popping"} => render \in {"locked", "popping"},
         sessions' \in 0 .. MaxSessions, arrived' \in 0 .. MaxFrames, wire' \in Seq(Frame),
         VoipStarted' \in BOOLEAN
  PROVE  Frames'
<1> USE DEF Frames, queueVars, indices
<1>1. DataTypes' BY DEF DataTypes
<1>2. Ring' BY DEF Ring, Queue!CountMatchesIndices
<1>3. Filling' /\ Written' BY DEF Filling, Written, Queue!SlotOf
<1>4. PopsAreCovered' BY DEF PopsAreCovered
<1> QED BY <1>1, <1>2, <1>3, <1>4

LEMMA CallerFrames ==
  ASSUME Control, Frames, NEW c \in Callers, Caller(c)
  PROVE  Frames'
<1> USE DEF Caller, StartSteps, StopSteps, StartLocks, StopSignals, StartKeepsLock, StartSetsUp,
        StartOpusFails, StartCreatesThreads, StopJoinsRender, StopJoinsMic, StopJoinsUdp, Closing,
        queueVars, renderVars, udpVars, netVars, sessionVars
<1>1. UNCHANGED <<queueVars, udpIndex, left, played, Buffer, VoipStarted, arrived>> OBVIOUS
<1>2. wire' \in Seq(Frame) /\ sessions' \in 0 .. MaxSessions
  <2>1. wire' = wire \/ wire' = <<>> OBVIOUS
  <2>2. sessions' = sessions \/ (sessions' = sessions + 1 /\ sessions < MaxSessions) OBVIOUS
  <2> QED
    <3> HIDE DEF Caller
    <3>1. wire \in Seq(Frame) /\ sessions \in 0 .. MaxSessions BY Zenon DEF Frames, DataTypes
    <3>2. wire' \in Seq(Frame)
      <4>1. <<>> \in Seq(Frame) BY EmptySeq
      <4> QED BY <2>1, <3>1, <4>1, Zenon
    <3>3. sessions' \in 0 .. MaxSessions BY <2>2, <3>1, BoundsAssumption, SizeAssumption
    <3> QED BY <3>2, <3>3
<1>3. /\ udp' = udp \/ (udp' \in {"none", "starting"} /\ udp \in {"none", "ended"})
      /\ render' = render \/ render' \in {"none", "starting"}
  BY DEF Control, ThreadsOfSession, CallersHoldLock
<1> HIDE DEF Caller
<1> QED BY <1>1, <1>2, <1>3, StillFrames DEF Frames, DataTypes

LEMMA PushFrames ==
  ASSUME Control, Frames, UdpPushes
  PROVE  Frames'
<1>1. /\ udp = "got" /\ Queue!pushIndices /\ Buffer' = Buffer /\ start_p_' = start_p_
      /\ UNCHANGED <<sessions, arrived, wire, VoipStarted, left, played, render>>
      /\ Buffer \in Frame
  BY DEF UdpPushes, Frames, Filling, sessionVars, netVars, renderVars
<1>2. CASE Queue!isFull
  <2>1. udpIndex' = -1 /\ udp' = "leaving" /\ UNCHANGED indices
    BY <1>2 DEF UdpPushes, Queue!pushIndices, Queue!indices, indices
  <2>2. DataTypes' BY <1>1, <2>1 DEF Frames, DataTypes
  <2>3. Ring' BY <2>1 DEF Frames, Ring, Queue!CountMatchesIndices, indices
  <2>4. Filling' BY <2>1 DEF Filling
  <2>5. Written'
    BY <1>1, <2>1 DEF Frames, Written, indices, Queue!SlotOf
  <2>6. PopsAreCovered' BY <1>1, <2>1 DEF Frames, PopsAreCovered, indices
  <2> QED BY <2>2, <2>3, <2>4, <2>5, <2>6 DEF Frames
<1>3. CASE ~ Queue!isFull
  <2>1. udpIndex' = Queue!PushIndex /\ udp' = "filling"
    BY <1>3 DEF UdpPushes
  <2>2. /\ Ring' /\ num_queued_' = num_queued_ + 1 /\ Queue!PushIndex \in Queue!Slot
        /\ \A k \in 1 .. num_queued_ : Queue!SlotOf(k)' = Queue!SlotOf(k)
        /\ \A k \in {num_queued_ + 1} : Queue!SlotOf(k)' = Queue!PushIndex
        /\ num_queued_ \in Nat
    BY <1>1, <1>3, PushMovesRing DEF Frames, Ring
  <2>3. DataTypes' BY <1>1, <2>1, <2>2 DEF Frames, DataTypes
  <2>4. Filling'
    <3>1. Queue!SlotOf(num_queued_)' = Queue!PushIndex BY <2>2 DEF Queue!SlotOf
    <3> QED BY <1>1, <2>1, <2>2, <3>1 DEF Filling
  <2>5. Written' BY <1>1, <2>1, <2>2 DEF Frames, Written
  <2>6. PopsAreCovered' BY <1>1, <2>2 DEF Frames, PopsAreCovered, DataTypes
  <2> QED BY <2>2, <2>3, <2>4, <2>5, <2>6 DEF Frames
<1> QED BY <1>2, <1>3

LEMMA FillFrames ==
  ASSUME Control, Frames, UdpFills
  PROVE  Frames'
<1>1. /\ udp = "filling" /\ udp' = "leaving" /\ start_p_' = [start_p_ EXCEPT ![udpIndex] = Buffer]
      /\ UNCHANGED <<sessions, arrived, wire, VoipStarted, left, played, render, Buffer, udpIndex,
                     start_index_, end_index_, num_queued_>>
      /\ Buffer \in Frame /\ num_queued_ > 0 /\ udpIndex = Queue!SlotOf(num_queued_)
  BY DEF UdpFills, Frames, Filling, sessionVars, netVars, renderVars, indices
<1>2. num_queued_ \in Nat /\ \A k \in 1 .. num_queued_ : Queue!SlotOf(k) \in Queue!Slot
  BY RingShape DEF Frames, Ring
<1>3. DataTypes' BY <1>1, <1>2 DEF Frames, DataTypes
<1>4. Ring' BY <1>1 DEF Frames, Ring, Queue!CountMatchesIndices
<1>5. Filling' BY <1>1 DEF Filling
<1>6. Written'
  <2>1. \A k \in 1 .. num_queued_ : Queue!SlotOf(k)' = Queue!SlotOf(k) BY <1>1 DEF Queue!SlotOf
  <2> QED BY <1>1, <1>2, <2>1 DEF Frames, Written, DataTypes
<1>7. PopsAreCovered' BY <1>1 DEF Frames, PopsAreCovered
<1> QED BY <1>3, <1>4, <1>5, <1>6, <1>7 DEF Frames

LEMMA PopFrames ==
  ASSUME Control, Frames, RenderPops
  PROVE  Frames' /\ ~ Queue!isEmpty /\ udp # "filling"
<1>1. /\ left > 0 /\ left' = left - 1 /\ left <= num_queued_ /\ Queue!popIndices
      /\ played' = IF Queue!isEmpty THEN played ELSE start_p_[start_index_]
      /\ UNCHANGED <<sessions, arrived, wire, VoipStarted, udp, Buffer, udpIndex, start_p_>>
      /\ num_queued_ \in Nat /\ left \in 0 .. size_
  BY DEF RenderPops, Frames, PopsAreCovered, DataTypes, Ring, sessionVars, netVars, udpVars
<1>2. udp # "filling" BY DEF RenderPops, Control, Section
<1>3. ~ Queue!isEmpty /\ Queue!SlotOf(1) = start_index_
  BY <1>1, RingShape DEF Frames
<1>4. /\ Ring' /\ num_queued_' = num_queued_ - 1 /\ num_queued_ > 0
      /\ \A k \in 1 .. (num_queued_ - 1) : Queue!SlotOf(k)' = Queue!SlotOf(k + 1)
  BY <1>1, <1>3, PopMovesRing DEF Frames
<1>5. played' \in Frame BY <1>1, <1>2, <1>3, <1>4 DEF Frames, Written
<1>6. DataTypes'
  <2>1. left' \in 0 .. size_ BY <1>1, BoundsAssumption, SizeAssumption
  <2>2. played' \in Frame \cup {NoFrame} BY <1>5
  <2>3. UNCHANGED <<sessions, arrived, wire, Buffer, udpIndex, VoipStarted, start_p_>> BY <1>1
  <2> QED BY <2>1, <2>2, <2>3, Zenon DEF Frames, DataTypes
<1>7. Filling' BY <1>1, <1>2 DEF Frames, Filling
<1>8. Written' BY <1>1, <1>2, <1>4 DEF Frames, Written
<1>9. PopsAreCovered' BY <1>1, <1>4 DEF PopsAreCovered
<1> QED BY <1>2, <1>3, <1>4, <1>6, <1>7, <1>8, <1>9 DEF Frames

\* The speaker decides how many frames to pop while it is inside with the queue.
LEMMA EnterFrames ==
  ASSUME Control, Frames, RenderEnters
  PROVE  Frames'
<1>1. /\ VoipStarted' = (VoipStarted \/ num_queued_ > Prefill)
      /\ UNCHANGED <<sessions, arrived, wire, udp, Buffer, udpIndex, start_p_, played,
                     start_index_, end_index_, num_queued_>>
  BY DEF RenderEnters, sessionVars, netVars, udpVars, queueVars, indices
<1>2. VoipStarted' \in BOOLEAN BY <1>1, Zenon
<1>3. left' \in 0 .. size_ /\ left' <= num_queued_
  BY BoundsAssumption, SizeAssumption DEF RenderEnters, Frames, Ring
<1>4. DataTypes' BY <1>1, <1>2, <1>3, Zenon DEF Frames, DataTypes
<1>5. Ring' BY <1>1 DEF Frames, Ring, Queue!CountMatchesIndices
<1>6. Filling' /\ Written' BY <1>1 DEF Frames, Filling, Written, Queue!SlotOf
<1>7. PopsAreCovered' BY <1>1, <1>3 DEF PopsAreCovered
<1> QED BY <1>4, <1>5, <1>6, <1>7 DEF Frames

LEMMA ReceiveFrames ==
  ASSUME Control, Frames, UdpReceives
  PROVE  Frames'
<1>1. /\ udp = "waiting" /\ wire # <<>> /\ udp' = "got" /\ Buffer' = Head(wire) /\ wire' = Tail(wire)
      /\ UNCHANGED <<sessions, arrived, VoipStarted, left, render, udpIndex, start_p_, played,
                     start_index_, end_index_, num_queued_>>
  BY DEF UdpReceives, sessionVars, renderVars, queueVars, indices
<1>2. Buffer' \in Frame /\ wire' \in Seq(Frame)
  BY <1>1, HeadTailProperties DEF Frames, DataTypes
<1>3. DataTypes' BY <1>1, <1>2 DEF Frames, DataTypes
<1>4. Ring' BY <1>1 DEF Frames, Ring, Queue!CountMatchesIndices
<1>5. Filling' /\ Written' BY <1>1, <1>2 DEF Frames, Filling, Written, Queue!SlotOf
<1>6. PopsAreCovered' BY <1>1 DEF Frames, PopsAreCovered
<1> QED BY <1>3, <1>4, <1>5, <1>6 DEF Frames

LEMMA ArrivalFrames ==
  ASSUME Frames, DatagramArrives
  PROVE  Frames'
<1>1. arrived' = arrived + 1 /\ wire' = Append(wire, arrived + 1) /\ arrived < MaxFrames
      /\ arrived \in Nat /\ wire \in Seq(Frame) /\ sessions' = sessions
  BY DEF DatagramArrives, Frames, DataTypes, sessionVars
<1>2. arrived' \in 0 .. MaxFrames /\ wire' \in Seq(Frame)
  <2>1. arrived + 1 \in Frame BY <1>1, BoundsAssumption, SizeAssumption DEF Frame
  <2> QED BY <1>1, <2>1, AppendProperties, BoundsAssumption, SizeAssumption
<1> QED
  BY <1>1, <1>2, StillFrames
     DEF DatagramArrives, Frames, DataTypes, renderVars, udpVars

\* The other steps of the three threads, none of which touches the queue.
OtherThreadStep ==
  \/ UdpCreatesEvents \/ UdpEnds \/ UdpLeaves \/ RenderStarts \/ RenderFails \/ RenderThrows
  \/ RenderLeaves \/ RenderEnds \/ RenderDrained \/ MicThread

LEMMA OtherKeeps ==
  ASSUME OtherThreadStep
  PROVE  /\ UNCHANGED <<queueVars, udpIndex, left, played, Buffer, sessions, arrived, wire>>
         /\ udp' = "filling" <=> udp = "filling"
         /\ udp' = "got" => udp = "got"
         /\ render' \in {"locked", "popping"} => render \in {"locked", "popping"}
         /\ VoipStarted' = VoipStarted \/ VoipStarted' = FALSE
BY DEF OtherThreadStep, UdpCreatesEvents, UdpEnds, UdpLeaves, RenderStarts, RenderFails, RenderThrows,
   RenderLeaves, RenderEnds, RenderDrained, MicThread, MicEnds, MicFails, sessionVars, netVars,
   renderVars, udpVars

LEMMA OtherFrames ==
  ASSUME Frames, OtherThreadStep
  PROVE  Frames'
<1>1. VoipStarted' \in BOOLEAN BY OtherKeeps DEF Frames, DataTypes
<1> QED BY <1>1, OtherKeeps, StillFrames DEF Frames, DataTypes

LEMMA NextFrames == Control /\ Frames /\ [Next]_vars => Frames'
<1> SUFFICES ASSUME Control, Frames, [Next]_vars PROVE Frames' OBVIOUS
<1>1. CASE UNCHANGED vars
  BY <1>1, StillFrames DEF vars, sessionVars, udpVars, renderVars, netVars, Frames, DataTypes
<1>2. ASSUME NEW c \in Callers, Caller(c) PROVE Frames' BY <1>2, CallerFrames
<1>3. CASE UdpThread
  BY <1>3, ReceiveFrames, PushFrames, FillFrames, OtherFrames DEF UdpThread, OtherThreadStep
<1>4. CASE RenderThread
  BY <1>4, EnterFrames, PopFrames, OtherFrames DEF RenderThread, OtherThreadStep
<1>5. CASE MicThread BY <1>5, OtherFrames DEF OtherThreadStep
<1> QED BY <1>1, <1>2, <1>3, <1>4, <1>5, ArrivalFrames DEF Next

LEMMA FramesInvariance == Spec => [](Control /\ Frames)
BY InitControl, NextControl, InitFrames, NextFrames, PTL DEF Spec

\* The variables keep their types; in particular what the speaker copies has been
\* written by the receiver, and the count stays within the ring.
THEOREM TypeCorrect == Spec => []TypeOK
<1>1. Control /\ Frames => TypeOK
  BY DEF Control, ControlTypes, Frames, DataTypes, Ring, TypeOK
<1> QED BY <1>1, FramesInvariance, PTL

\* The speaker's pops are covered by the count it read (VoipVoice.cpp 326-361).
THEOREM PopsCovered == Spec => []PopsAreCovered
<1>1. Frames => PopsAreCovered BY DEF Frames
<1> QED BY <1>1, FramesInvariance, PTL
-----------------------------------------------------------------------------
(* How long a stop takes.  Until the speaker has ended there is no bound:   *)
(* it may go round its loop while the device asks for frames.  From then on *)
(* every step of anybody is one of finitely many.                           *)

UdpPhase ==
  CASE udp = "got" -> 4 [] udp = "filling" -> 3 [] udp = "leaving" -> 2 [] udp = "waiting" -> 1
    [] OTHER -> 0

\* A datagram that may still arrive costs one step more than one that has
\* arrived, and that is read, pushed, filled in and left behind.
UdpWork == 5 * (MaxFrames - arrived) + 4 * Len(wire) + UdpPhase

SpeakerJoined(c) == pc[c] \in {"joinMic", "joinUdp"}

MicWork     == IF mic = "running" THEN 1 ELSE 0
JoinWork(c) == IF pc[c] = "joinMic" THEN 1 ELSE 0

RestOfStop(c) == UdpWork + MicWork + JoinWork(c)

\* Once the speaker is joined a stop is over after at most RestOfStop steps,
\* whoever takes them, if the receiver has its signal (VoipVoice.cpp 175-186).
StopRunsOut ==
  [][\A c \in Callers :
       SpeakerJoined(c) /\ ~ EndSignalLost(c) =>
         \/ pc'[c] = "idle"
         \/ /\ SpeakerJoined(c)' /\ ~ EndSignalLost(c)'
            /\ RestOfStop(c)' \in Nat /\ RestOfStop(c)' < RestOfStop(c)]_vars

LEMMA DatagramWork ==
  ASSUME NEW a \in 0 .. MaxFrames, NEW w \in Seq(Frame)
  PROVE  MaxFrames - a \in Nat /\ Len(w) \in Nat
BY BoundsAssumption, SizeAssumption

LEMMA WorkIsNatural == TypeOK => UdpWork \in Nat
<1> SUFFICES ASSUME TypeOK PROVE UdpWork \in Nat OBVIOUS
<1>1. MaxFrames - arrived \in Nat /\ Len(wire) \in Nat BY DatagramWork DEF TypeOK
<1>2. UdpPhase \in Nat BY DEF UdpPhase
<1> QED BY <1>1, <1>2 DEF UdpWork

LEMMA WorkStaysNatural == TypeOK' => UdpWork' \in Nat
<1> SUFFICES ASSUME TypeOK' PROVE UdpWork' \in Nat OBVIOUS
<1>1. arrived' \in 0 .. MaxFrames /\ wire' \in Seq(Frame) BY DEF TypeOK
<1>2. MaxFrames - arrived' \in Nat /\ Len(wire') \in Nat BY <1>1, DatagramWork
<1>3. UdpPhase' \in Nat BY DEF UdpPhase
<1> QED BY <1>2, <1>3 DEF UdpWork

LEMMA SmallWork == \A c \in Callers : {MicWork, MicWork', JoinWork(c), JoinWork(c)'} \subseteq Nat
BY DEF MicWork, JoinWork

LEMMA ThreadsWork ==
  ASSUME TypeOK, UdpThread \/ DatagramArrives, udp # "starting"
  PROVE  UdpWork' < UdpWork /\ UNCHANGED <<mic, pc>>
<1> USE DEF UdpPhase, sessionVars, eventVars, udpVars
<1>1. MaxFrames - arrived \in Nat /\ Len(wire) \in Nat /\ MaxFrames \in Nat /\ arrived \in Nat
  BY BoundsAssumption, SizeAssumption DEF TypeOK
<1>2. CASE DatagramArrives
  <2>1. arrived' = arrived + 1 /\ Len(wire') = Len(wire) + 1 /\ UNCHANGED <<udp, mic, pc>>
    BY <1>2 DEF DatagramArrives, TypeOK
  <2>2. UdpPhase' = UdpPhase /\ UdpPhase \in Nat BY <2>1
  <2> HIDE DEF UdpPhase
  <2> QED BY <1>1, <2>1, <2>2 DEF UdpWork
<1>3. CASE UdpReceives
  <2>1. udp = "waiting" /\ udp' = "got" /\ UNCHANGED <<arrived, mic, pc>> BY <1>3 DEF UdpReceives
  <2>2. Len(wire') = Len(wire) - 1 BY <1>3 DEF UdpReceives, TypeOK
  <2> QED BY <1>1, <2>1, <2>2 DEF UdpWork
<1>4. CASE UdpEnds \/ UdpPushes \/ UdpFills \/ UdpLeaves
  <2>1. UNCHANGED <<arrived, wire, mic, pc>>
    BY <1>4 DEF UdpEnds, UdpPushes, UdpFills, UdpLeaves, netVars
  <2>2. UdpPhase' < UdpPhase BY <1>4 DEF UdpEnds, UdpPushes, UdpFills, UdpLeaves
  <2>3. UdpPhase \in Nat /\ UdpPhase' \in Nat OBVIOUS
  <2> HIDE DEF UdpPhase
  <2> QED BY <1>1, <2>1, <2>2, <2>3 DEF UdpWork
<1> QED BY <1>2, <1>3, <1>4 DEF UdpThread, UdpCreatesEvents

\* One step after the speaker is joined.
LEMMA StopStep ==
  ASSUME StopInv, TypeOK, TypeOK', Next, NEW c \in Callers, SpeakerJoined(c), ~ EndSignalLost(c)
  PROVE  \/ pc'[c] = "idle"
         \/ /\ SpeakerJoined(c)' /\ ~ EndSignalLost(c)'
            /\ RestOfStop(c)' \in Nat /\ RestOfStop(c)' < RestOfStop(c)
<1>1. /\ UdpWork \in Nat /\ UdpWork' \in Nat
      /\ MicWork \in Nat /\ MicWork' \in Nat /\ JoinWork(c) \in Nat /\ JoinWork(c)' \in Nat
  BY WorkIsNatural, WorkStaysNatural, SmallWork
<1>2. /\ pc[c] \in Joining /\ g_lock = c /\ render = "ended" /\ udp # "starting"
      /\ udp # "none" /\ VoipRunning
  <2>1. pc[c] \in Joining BY DEF SpeakerJoined, Joining
  <2> QED BY <2>1 DEF StopInv, Control, CallersHoldLock, ToldToEnd, ReceiverHasEvent, SpeakerJoined,
             EndSignalLost, Joining
<1>3. CASE UdpThread \/ DatagramArrives
  <2>1. UdpWork' < UdpWork /\ UNCHANGED <<mic, pc>> BY <1>2, <1>3, ThreadsWork
  <2>2. ~ EndSignalLost(c)' BY <1>2, <1>3, <2>1, ThreadsMove DEF EndSignalLost
  <2>3. MicWork' = MicWork /\ JoinWork(c)' = JoinWork(c) BY <2>1 DEF MicWork, JoinWork
  <2>4. RestOfStop(c)' \in Nat /\ RestOfStop(c)' < RestOfStop(c)
    BY <1>1, <2>1, <2>3 DEF RestOfStop
  <2>5. SpeakerJoined(c)' BY <2>1 DEF SpeakerJoined
  <2> QED BY <2>2, <2>4, <2>5
<1>4. CASE MicThread
  <2>1. mic = "running" /\ mic' = "ended" /\ UNCHANGED <<pc, arrived, wire, udp, udpEnd>>
    BY <1>4 DEF MicThread, MicEnds, MicFails, sessionVars, eventVars, udpVars, netVars
  <2>2. UdpWork' = UdpWork BY <2>1 DEF UdpWork, UdpPhase
  <2>3. MicWork = 1 /\ MicWork' = 0 /\ JoinWork(c)' = JoinWork(c)
    BY <2>1 DEF MicWork, JoinWork
  <2>4. RestOfStop(c)' \in Nat /\ RestOfStop(c)' < RestOfStop(c)
    BY <1>1, <2>2, <2>3 DEF RestOfStop
  <2>5. SpeakerJoined(c)' /\ ~ EndSignalLost(c)' BY <2>1 DEF SpeakerJoined, EndSignalLost
  <2> QED BY <2>4, <2>5
<1>5. ~ RenderThread
  BY <1>2 DEF RenderThread, RenderStarts, RenderFails, RenderEnters, RenderThrows, RenderPops,
     RenderLeaves, RenderEnds, RenderDrained
<1>6. ASSUME NEW d \in Callers, Caller(d)
      PROVE  \/ pc'[c] = "idle"
             \/ /\ SpeakerJoined(c)' /\ ~ EndSignalLost(c)'
                /\ RestOfStop(c)' \in Nat /\ RestOfStop(c)' < RestOfStop(c)
  <2>1. CASE d # c BY <1>6, <2>1, CallersAlone
  <2>2. CASE d = c
    <3>1. StopJoinsMic(c) \/ StopJoinsUdp(c)
      BY <1>2, <1>6, <2>2, NoOneAssumption
         DEF SpeakerJoined, Caller, StartSteps, StopSteps, StartLocks, StopSignals, StartKeepsLock,
             StartSetsUp, StartOpusFails, StartCreatesThreads, StopJoinsRender
    <3>2. CASE StopJoinsUdp(c) BY <3>2 DEF StopJoinsUdp, Closing, TypeOK
    <3>3. CASE StopJoinsMic(c)
      <4>1. pc[c] = "joinMic" /\ pc'[c] = "joinUdp"
        BY <3>3 DEF StopJoinsMic, TypeOK
      <4>2. UNCHANGED <<mic, arrived, wire, udp, udpEnd>>
        BY <3>3 DEF StopJoinsMic, eventVars, udpVars, netVars
      <4>3. UdpWork' = UdpWork BY <4>2 DEF UdpWork, UdpPhase
      <4>4. JoinWork(c) = 1 /\ JoinWork(c)' = 0 /\ MicWork' = MicWork
        BY <4>1, <4>2 DEF MicWork, JoinWork
      <4>5. RestOfStop(c)' \in Nat /\ RestOfStop(c)' < RestOfStop(c)
        BY <1>1, <4>3, <4>4 DEF RestOfStop
      <4>6. SpeakerJoined(c)' BY <4>1 DEF SpeakerJoined
      <4>7. ~ EndSignalLost(c)' BY <1>2, <4>2 DEF EndSignalLost
      <4> QED BY <4>5, <4>6, <4>7
    <3> QED BY <3>1, <3>2, <3>3
  <2> QED BY <2>1, <2>2
<1> QED BY <1>3, <1>4, <1>5, <1>6 DEF Next

\* What a single step contributes to LockIsGivenBack, for any number of
\* datagrams: the rest of a stop becomes shorter with it.
THEOREM StopsRunOut == Spec => StopRunsOut
<1>1. StopInv /\ TypeOK /\ TypeOK' /\ [Next]_vars =>
        [\A c \in Callers :
           SpeakerJoined(c) /\ ~ EndSignalLost(c) =>
             \/ pc'[c] = "idle"
             \/ /\ SpeakerJoined(c)' /\ ~ EndSignalLost(c)'
                /\ RestOfStop(c)' \in Nat /\ RestOfStop(c)' < RestOfStop(c)]_vars
  BY StopStep
<1>2. Spec => [][Next]_vars BY PTL DEF Spec
<1> QED BY <1>1, <1>2, StopInvariance, TypeCorrect, PTL DEF StopRunsOut

\* A session that runs has its threads and its critical section.
SessionIsWhole == VoipRunning => render # "none" /\ mic # "none" /\ cs # "uninit"

LEMMA NextWhole == StopInv /\ SessionIsWhole /\ [Next]_vars => SessionIsWhole'
<1> SUFFICES ASSUME StopInv, SessionIsWhole, [Next]_vars PROVE SessionIsWhole' OBVIOUS
<1> USE DEF SessionIsWhole, sessionVars, eventVars, renderVars
<1>1. CASE UNCHANGED vars BY <1>1 DEF vars
<1>2. ASSUME NEW c \in Callers, Caller(c) PROVE SessionIsWhole'
  <2>1. CASE StartCreatesThreads(c)
    <3>1. cs = "free" BY <2>1 DEF StartCreatesThreads, StopInv, Control, CallersHoldLock
    <3> QED BY <2>1, <3>1 DEF StartCreatesThreads
  <2>2. CASE ~ StartCreatesThreads(c)
    BY <1>2, <2>2 DEF Caller, StartSteps, StopSteps, StartLocks, StopSignals, StartKeepsLock,
       StartSetsUp, StartOpusFails, StopJoinsRender, StopJoinsMic, StopJoinsUdp, Closing
  <2> QED BY <2>1, <2>2
<1>3. CASE UdpThread
  BY <1>3 DEF UdpThread, UdpCreatesEvents, UdpReceives, UdpEnds, UdpPushes, UdpFills, UdpLeaves
<1>4. CASE RenderThread
  BY <1>4 DEF RenderThread, RenderStarts, RenderFails, RenderEnters, RenderThrows, RenderPops,
     RenderLeaves, RenderEnds, RenderDrained
<1>5. CASE MicThread \/ DatagramArrives
  BY <1>5 DEF MicThread, MicEnds, MicFails, DatagramArrives
<1> QED BY <1>1, <1>2, <1>3, <1>4, <1>5 DEF Next

\* And there is such a step: at each join the thread that is waited for has
\* ended, or has a branch to take, or is in one of the two named situations.
StopHasAStep ==
  \A c \in Callers :
    /\ pc[c] = "joinRender" =>
         \/ render \in {"ended", "starting", "locked", "popping", "draining"}
         \/ render = "playing" /\ renderEnd = "set"
    /\ pc[c] = "joinMic" => mic = "ended" \/ (mic = "running" /\ micEnd = "set")
    /\ pc[c] = "joinUdp" =>
         \/ udp \in {"ended", "filling", "leaving"}
         \/ udp = "got" /\ cs = "free"
         \/ udp = "waiting" /\ (wire # <<>> \/ udpEnd = "set")
         \/ EndSignalLost(c) \/ SectionAbandoned

\* No join of VoipVoiceStop is for a thread that waits for something else than
\* its end event, the two situations apart: in particular nobody but a dead
\* speaker keeps the receiver out of the critical section (VoipVoice.cpp
\* 162-176, 326-361, VoipNetwork.cpp 71-92).
THEOREM StopsHaveAStep == Spec => []StopHasAStep
<1>1. StopInv /\ SessionIsWhole => StopHasAStep
  <2> SUFFICES ASSUME StopInv, SessionIsWhole, NEW c \in Callers
               PROVE  /\ pc[c] = "joinRender" =>
                           \/ render \in {"ended", "starting", "locked", "popping", "draining"}
                           \/ render = "playing" /\ renderEnd = "set"
                      /\ pc[c] = "joinMic" => mic = "ended" \/ (mic = "running" /\ micEnd = "set")
                      /\ pc[c] = "joinUdp" =>
                           \/ udp \in {"ended", "filling", "leaving"}
                           \/ udp = "got" /\ cs = "free"
                           \/ udp = "waiting" /\ (wire # <<>> \/ udpEnd = "set")
                           \/ EndSignalLost(c) \/ SectionAbandoned
    BY DEF StopHasAStep
  <2> USE DEF StopInv, Control, ControlTypes, ToldToEnd
  <2>1. pc[c] \in Joining => udp # "none" /\ render # "none" /\ mic # "none"
    BY DEF CallersHoldLock, ReceiverHasEvent, SessionIsWhole
  <2>2. pc[c] = "joinUdp" => render = "ended" OBVIOUS
  <2>3. ASSUME pc[c] = "joinUdp", udp = "got", cs # "free" PROVE SectionAbandoned
    <3>1. render = "ended" BY <2>2, <2>3
    <3>2. cs # "udp" BY <2>3 DEF Section
    <3>3. cs # "uninit"
      BY <2>3 DEF CallersHoldLock, SessionIsWhole, Joining
    <3> QED BY <2>3, <3>1, <3>2, <3>3 DEF SectionAbandoned
  <2>4. pc[c] = "joinUdp" /\ udp \in {"starting", "waiting"} =>
          (udp = "waiting" /\ udpEnd = "set") \/ EndSignalLost(c)
    BY DEF EndSignalLost, Joining, ReceiverHasEvent
  <2>5. pc[c] = "joinUdp" => udp \in {"starting", "waiting", "got", "filling", "leaving", "ended"}
    BY <2>1 DEF Joining
  <2> QED BY <2>1, <2>3, <2>4, <2>5 DEF Joining
<1>2. Init => SessionIsWhole BY DEF Init, SessionIsWhole
<1>3. Spec => [][Next]_vars /\ Init BY PTL DEF Spec
<1> QED BY <1>1, <1>2, <1>3, NextWhole, StopInvariance, PTL
-----------------------------------------------------------------------------
(* The shared queue is a bounded first-in first-out buffer.                 *)

HeldShape ==
  /\ Held \in Seq(Frame) /\ Len(Held) = num_queued_ /\ num_queued_ \in Nat
  /\ \A k \in 1 .. num_queued_ :
       /\ Queue!SlotOf(k) \in Queue!Slot
       /\ Held[k] = IF udp = "filling" /\ Queue!SlotOf(k) = udpIndex
                    THEN Buffer ELSE start_p_[Queue!SlotOf(k)]

LEMMA HeldSeq == Frames => HeldShape
<1> SUFFICES ASSUME Frames PROVE HeldShape OBVIOUS
<1>1. num_queued_ \in Nat /\ \A k \in 1 .. num_queued_ : Queue!SlotOf(k) \in Queue!Slot
  BY RingShape, BoundsAssumption, SizeAssumption DEF Frames, Ring
<1>2. \A k \in 1 .. num_queued_ :
        (IF udp = "filling" /\ Queue!SlotOf(k) = udpIndex
         THEN Buffer ELSE start_p_[Queue!SlotOf(k)]) \in Frame
  BY DEF Frames, Filling, Written
<1>3. Held \in [1 .. num_queued_ -> Frame] BY <1>2 DEF Held
<1>4. Held \in Seq(Frame) BY <1>1, <1>3, IsASeq
<1>5. Len(Held) = num_queued_ BY <1>1, <1>3, <1>4, LenProperties
<1> QED BY <1>1, <1>4, <1>5 DEF Held, HeldShape

LEMMA HeldSeqNext == Frames' => HeldShape'
BY HeldSeq, PTL

\* Two states with the same slots behind the queue hold the same frames.
LEMMA SameHeld ==
  ASSUME Frames, Frames', num_queued_' = num_queued_,
         \A k \in 1 .. num_queued_ : Held'[k] = Held[k]
  PROVE  Held' = Held
BY HeldSeq, HeldSeqNext, SeqEqual DEF HeldShape

LEMMA PushOffers ==
  ASSUME Control, Frames, UdpPushes
  PROVE  Fifo!Offer(Buffer) /\ Buffer \in Frame
<1>0. Frames' /\ HeldShape /\ HeldShape'
  BY PushFrames, HeldSeq, HeldSeqNext
<1>1. /\ udp = "got" /\ Queue!pushIndices /\ Buffer' = Buffer /\ start_p_' = start_p_
      /\ played' = played /\ Buffer \in Frame
  BY DEF UdpPushes, Frames, Filling, renderVars
<1>2. CASE Queue!isFull
  <2>1. udpIndex' = -1 /\ udp' = "leaving" /\ UNCHANGED <<start_index_, end_index_, num_queued_>>
    BY <1>2 DEF UdpPushes, Queue!pushIndices, Queue!indices
  <2>2. \A k \in 1 .. num_queued_ : Queue!SlotOf(k)' = Queue!SlotOf(k) BY <2>1 DEF Queue!SlotOf
  <2>3. Held' = Held BY <1>0, <1>1, <2>1, <2>2, SameHeld DEF HeldShape
  <2>4. Len(Held) = size_ BY <1>0, <1>2, RingShape DEF HeldShape, Frames
  <2> QED BY <1>1, <2>1, <2>3, <2>4, BoundsAssumption, SizeAssumption DEF Fifo!Offer
<1>3. CASE ~ Queue!isFull
  <2>1. udpIndex' = Queue!PushIndex /\ udp' = "filling" BY <1>3 DEF UdpPushes
  <2>2. /\ num_queued_' = num_queued_ + 1 /\ Queue!PushIndex \in Queue!Slot
        /\ \A k \in 1 .. num_queued_ :
             Queue!SlotOf(k)' = Queue!SlotOf(k) /\ Queue!SlotOf(k) # Queue!PushIndex
        /\ \A k \in {num_queued_ + 1} : Queue!SlotOf(k)' = Queue!PushIndex
    BY <1>1, <1>3, PushMovesRing DEF Frames
  <2>3. num_queued_ < size_ /\ num_queued_ \in Nat
    BY <1>0, <1>3, RingShape, BoundsAssumption, SizeAssumption DEF HeldShape, Frames, Ring
  <2>4. \A k \in 1 .. num_queued_ : Held'[k] = Held[k]
    BY <1>0, <1>1, <2>1, <2>2, <2>3 DEF HeldShape
  <2>5. Held'[num_queued_ + 1] = Buffer
    BY <1>0, <1>1, <2>1, <2>2, <2>3 DEF HeldShape
  <2>6. Held' = Append(Held, Buffer)
    <3>1. /\ Append(Held, Buffer) \in Seq(Frame) /\ Len(Append(Held, Buffer)) = num_queued_ + 1
          /\ \A k \in 1 .. num_queued_ : Append(Held, Buffer)[k] = Held[k]
          /\ Append(Held, Buffer)[num_queued_ + 1] = Buffer
      BY <1>0, <1>1, AppendProperties DEF HeldShape
    <3>2. Held' \in Seq(Frame) /\ Len(Held') = num_queued_ + 1 BY <1>0, <2>2 DEF HeldShape
    <3>3. \A k \in 1 .. Len(Held') : Held'[k] = Append(Held, Buffer)[k]
      BY <2>3, <2>4, <2>5, <3>1, <3>2
    <3> QED BY <3>1, <3>2, <3>3, SeqEqual
  <2>7. (udpIndex # -1)' = TRUE
    <3>1. udpIndex' # -1 BY <2>1, <2>2, BoundsAssumption, SizeAssumption DEF Queue!Slot
    <3> QED BY <3>1
  <2>8. Len(Held) < size_ BY <1>0, <2>3 DEF HeldShape
  <2> QED BY <1>1, <2>6, <2>7, <2>8 DEF Fifo!Offer
<1> QED BY <1>1, <1>2, <1>3

\* The copy changes nothing: the frame counts as held since push.
LEMMA FillHolds ==
  ASSUME Control, Frames, UdpFills
  PROVE  UNCHANGED <<Held, udpIndex, played>>
<1>0. Frames' /\ HeldShape /\ HeldShape'
  BY FillFrames, HeldSeq, HeldSeqNext
<1>1. /\ udp = "filling" /\ udp' = "leaving" /\ start_p_' = [start_p_ EXCEPT ![udpIndex] = Buffer]
      /\ UNCHANGED <<played, udpIndex, start_index_, end_index_, num_queued_>>
      /\ start_p_ \in [Queue!Slot -> Frame \cup {Unwritten}]
  BY DEF UdpFills, Frames, DataTypes, renderVars, indices
<1>2. \A k \in 1 .. num_queued_ : Queue!SlotOf(k)' = Queue!SlotOf(k) BY <1>1 DEF Queue!SlotOf
<1>3. \A k \in 1 .. num_queued_ : Held'[k] = Held[k] BY <1>0, <1>1, <1>2 DEF HeldShape
<1> QED BY <1>0, <1>1, <1>3, SameHeld

LEMMA PopTakes ==
  ASSUME Control, Frames, RenderPops
  PROVE  Fifo!Take
<1>0. Frames' /\ HeldShape /\ HeldShape' /\ ~ Queue!isEmpty /\ udp # "filling"
  BY PopFrames, HeldSeq, HeldSeqNext
<1>1. /\ Queue!popIndices /\ played' = start_p_[start_index_]
      /\ UNCHANGED <<udp, Buffer, udpIndex, start_p_>>
  BY <1>0 DEF RenderPops, udpVars
<1>2. /\ num_queued_' = num_queued_ - 1 /\ num_queued_ > 0
      /\ \A k \in 1 .. (num_queued_ - 1) : Queue!SlotOf(k)' = Queue!SlotOf(k + 1)
      /\ Queue!SlotOf(1) = start_index_
  BY <1>0, <1>1, PopMovesRing, RingShape DEF Frames
<1>3. Held # <<>> /\ played' = Head(Held)
  BY <1>0, <1>1, <1>2, EmptySeq DEF HeldShape
<1>4. \A k \in 1 .. (num_queued_ - 1) : Held'[k] = Held[k + 1]
  BY <1>0, <1>1, <1>2 DEF HeldShape
<1>5. /\ Tail(Held) \in Seq(Frame) /\ Len(Tail(Held)) = num_queued_ - 1
      /\ \A k \in 1 .. (num_queued_ - 1) : Tail(Held)[k] = Held[k + 1]
  BY <1>0, <1>3, HeadTailProperties DEF HeldShape
<1>6. Held' = Tail(Held)
  BY <1>0, <1>2, <1>4, <1>5, SeqEqual DEF HeldShape
<1> QED BY <1>1, <1>3, <1>6 DEF Fifo!Take

\* Any other step leaves the queue and the slots alone.
LEMMA OtherHolds ==
  ASSUME Control, Frames, Frames', UNCHANGED <<queueVars, udpIndex, played>>,
         udp' = "filling" <=> udp = "filling", udp = "filling" => Buffer' = Buffer
  PROVE  UNCHANGED <<Held, udpIndex, played>>
<1>1. HeldShape /\ HeldShape' BY HeldSeq, HeldSeqNext
<1>2. UNCHANGED <<start_p_, start_index_, end_index_, num_queued_>> BY DEF queueVars, indices
<1>3. \A k \in 1 .. num_queued_ : Queue!SlotOf(k)' = Queue!SlotOf(k) BY <1>2 DEF Queue!SlotOf
<1>4. \A k \in 1 .. num_queued_ : Held'[k] = Held[k] BY <1>1, <1>2, <1>3 DEF HeldShape
<1> QED BY <1>2, <1>4, SameHeld

LEMMA CallerHolds ==
  ASSUME Control, NEW c \in Callers, Caller(c)
  PROVE  /\ UNCHANGED <<queueVars, udpIndex, played, Buffer>>
         /\ udp' = "filling" <=> udp = "filling"
<1>1. UNCHANGED <<queueVars, udpIndex, played, Buffer>>
  BY DEF Caller, StartSteps, StopSteps, StartLocks, StopSignals, StartKeepsLock, StartSetsUp,
     StartOpusFails, StartCreatesThreads, StopJoinsRender, StopJoinsMic, StopJoinsUdp, Closing,
     queueVars, renderVars, udpVars
<1>2. udp' = udp \/ (udp' \in {"none", "starting"} /\ udp \in {"none", "ended"})
  BY DEF Caller, StartSteps, StopSteps, StartLocks, StopSignals, StartKeepsLock, StartSetsUp,
     StartOpusFails, StartCreatesThreads, StopJoinsRender, StopJoinsMic, StopJoinsUdp, Closing,
     udpVars, Control, ThreadsOfSession, CallersHoldLock
<1> QED BY <1>1, <1>2

LEMMA NextFifo ==
  Control /\ Frames /\ Frames' /\ [Next]_vars => [Fifo!FifoNext]_Fifo!fifoVars
<1> SUFFICES ASSUME Control, Frames, Frames', [Next]_vars
             PROVE  [Fifo!FifoNext]_Fifo!fifoVars
  OBVIOUS
<1>1. UNCHANGED <<Held, udpIndex, played>> => UNCHANGED Fifo!fifoVars
  BY DEF Fifo!fifoVars
<1>2. CASE UdpPushes BY <1>2, PushOffers DEF Fifo!FifoNext
<1>3. CASE RenderPops BY <1>3, PopTakes DEF Fifo!FifoNext
<1>4. CASE UdpFills BY <1>1, <1>4, FillHolds
<1>5. CASE UNCHANGED vars
  BY <1>1, <1>5, OtherHolds DEF vars, renderVars, udpVars
<1>6. ASSUME NEW c \in Callers, Caller(c) PROVE UNCHANGED <<Held, udpIndex, played>>
  BY <1>6, CallerHolds, OtherHolds
<1>7. CASE UdpReceives BY <1>1, <1>7, OtherHolds DEF UdpReceives, renderVars
<1>8. CASE RenderEnters BY <1>1, <1>8, OtherHolds DEF RenderEnters, udpVars
<1>9. CASE DatagramArrives BY <1>1, <1>9, OtherHolds DEF DatagramArrives, udpVars, renderVars
<1>10. CASE OtherThreadStep BY <1>1, <1>10, OtherKeeps, OtherHolds
<1> QED
  BY <1>1, <1>2, <1>3, <1>4, <1>5, <1>6, <1>7, <1>8, <1>9, <1>10
     DEF Next, UdpThread, RenderThread, OtherThreadStep

\* What the receiver pushes the speaker gets, whole, once and in that order, for
\* any number of slots, sessions and datagrams (VoipVoice.cpp 326-361, 790-808).
THEOREM QueueIsFifo == Spec => SharedQueueIsFifo
<1>1. Init => Fifo!FifoInit
  <2> SUFFICES ASSUME Init PROVE Fifo!FifoInit OBVIOUS
  <2>1. Held = <<>> BY InitFrames, HeldSeq, EmptySeq DEF Init, HeldShape
  <2> QED BY <2>1 DEF Init, Fifo!FifoInit
<1> QED
  BY FramesInvariance, <1>1, NextFifo, PTL DEF Spec, SharedQueueIsFifo, Fifo!FifoSpec
=============================================================================
