----------------------------- MODULE VoipVoice -----------------------------
(***************************************************************************)
(* A voice session (VoipVoice.cpp, VoipNetwork.cpp).  VoipVoiceStart and   *)
(* VoipVoiceStop are called from two threads: the GUI thread for a call    *)
(* this user made, the video server's thread for one it answered; a mutex  *)
(* g_lock serialises them.  A session has three threads: the UDP receiver  *)
(* pushes decoded frames into VoipBufferQueue, the speaker thread pops     *)
(* them, both inside CriticalSection, and the microphone thread sends.     *)
(* The queue is a global: it outlives the session.                         *)
(***************************************************************************)
EXTENDS QueueSize, Sequences

CONSTANTS
  Callers,      \* the threads that start and stop sessions
  NoOne,        \* g_lock is free
  Prefill,      \* the speaker starts once more than this many are queued (2)
  MaxFrames,    \* bound: datagrams that arrive, numbered in that order
  MaxSessions   \* bound: calls of VoipVoiceStart that get past VoipRunning

ASSUME BoundsAssumption ==
  /\ Prefill \in Nat /\ MaxFrames \in Nat /\ MaxSessions \in Nat
ASSUME NoOneAssumption == NoOne \notin Callers

VARIABLES
  g_lock,       \* its holder
  pc,           \* where each caller is in VoipVoiceStart / VoipVoiceStop
  VoipRunning,
  sessions,     \* VoipVoiceStart calls so far
  micEnd, renderEnd, udpEnd,  \* the three end events: "none", "unset", "set"
  mic, render, udp,           \* the three threads
  cs,           \* CriticalSection: "uninit", "free", or who is inside
  arrived,      \* datagrams so far
  wire,         \* those waiting in VoipSocket
  Buffer,       \* the datagram the receiver has read
  udpIndex,     \* its index: what push returned
  VoipStarted,  \* the speaker thread has passed its prefill
  left,         \* frames the speaker has still to pop in this pass
  played,       \* the last frame it copied to the device
  start_index_, end_index_, num_queued_, start_p_   \* VoipBufferQueue

sessionVars == <<g_lock, pc, VoipRunning, sessions>>
eventVars   == <<micEnd, renderEnd, udpEnd>>
indices     == <<start_index_, end_index_, num_queued_>>
queueVars   == <<indices, start_p_>>
netVars     == <<arrived, wire>>
udpVars     == <<udp, Buffer, udpIndex>>
renderVars  == <<render, VoipStarted, left, played>>
vars == <<sessionVars, eventVars, mic, renderVars, udpVars, cs, netVars, queueVars>>

Frame     == 1 .. MaxFrames
NoFrame   == 0
Unwritten == -1

Queue == INSTANCE FixedSizeQueue
           WITH Nothing <- NoFrame, pushed <- udpIndex # -1, popped <- played

Joining == {"joinRender", "joinMic", "joinUdp"}
Events  == {"none", "unset", "set"}

TypeOK ==
  /\ g_lock \in Callers \cup {NoOne}
  /\ pc \in [Callers -> {"idle", "starting", "setup"} \cup Joining]
  /\ VoipRunning \in BOOLEAN /\ sessions \in 0 .. MaxSessions
  /\ micEnd \in Events /\ renderEnd \in Events /\ udpEnd \in Events
  /\ mic \in {"none", "running", "ended"}
  /\ render \in {"none", "starting", "playing", "locked", "popping", "draining", "ended"}
  /\ udp \in {"none", "starting", "waiting", "got", "filling", "leaving", "ended"}
  /\ cs \in {"uninit", "free", "udp", "render"}
  /\ arrived \in 0 .. MaxFrames /\ wire \in Seq(Frame)
  /\ Buffer \in Frame \cup {NoFrame} /\ udpIndex \in Queue!Slot \cup {-1}
  /\ VoipStarted \in BOOLEAN /\ left \in 0 .. size_ /\ played \in Frame \cup {NoFrame}
  /\ start_index_ \in Queue!Slot \cup {-1} /\ end_index_ \in Queue!Slot \cup {-1}
  /\ num_queued_ \in 0 .. size_
  /\ start_p_ \in [Queue!Slot -> Frame \cup {Unwritten}]

Init ==
  /\ g_lock = NoOne /\ pc = [c \in Callers |-> "idle"]
  /\ VoipRunning = FALSE /\ sessions = 0
  /\ micEnd = "none" /\ renderEnd = "none" /\ udpEnd = "none"
  /\ mic = "none" /\ render = "none" /\ udp = "none" /\ cs = "uninit"
  /\ arrived = 0 /\ wire = <<>>
  /\ Buffer = NoFrame /\ udpIndex = -1
  /\ VoipStarted = FALSE /\ left = 0 /\ played = NoFrame
  /\ start_index_ = -1 /\ end_index_ = -1 /\ num_queued_ = 0
  /\ start_p_ = [i \in Queue!Slot |-> Unwritten]
-----------------------------------------------------------------------------
(* VoipVoiceStart.  A call that finds VoipRunning set, and a VoipVoiceStop   *)
(* that finds it clear, change nothing.                                      *)

\* Mutant: a second session may start while one runs.
StartLocksUnchecked(c) ==
  /\ pc[c] = "idle" /\ g_lock = NoOne /\ sessions < MaxSessions
  /\ g_lock' = c /\ pc' = [pc EXCEPT ![c] = "starting"]
  /\ sessions' = sessions + 1
  /\ UNCHANGED <<VoipRunning, eventVars, mic, renderVars, udpVars, cs, netVars, queueVars>>

StartLocks(c) ==
  /\ pc[c] = "idle" /\ g_lock = NoOne /\ ~ VoipRunning /\ sessions < MaxSessions
  /\ g_lock' = c /\ pc' = [pc EXCEPT ![c] = "starting"]
  /\ sessions' = sessions + 1
  /\ UNCHANGED <<VoipRunning, eventVars, mic, renderVars, udpVars, cs, netVars, queueVars>>

\* The critical section cannot be initialised: the one return that keeps g_lock.
StartKeepsLock(c) ==
  /\ pc[c] = "starting"
  /\ pc' = [pc EXCEPT ![c] = "idle"]
  /\ UNCHANGED <<g_lock, VoipRunning, sessions, eventVars, mic, renderVars, udpVars, cs,
                 netVars, queueVars>>

\* Critical section, socket, two of the end events.  The receiver's own end
\* event is created by the receiver; the handle of the last session is closed.
StartSetsUp(c) ==
  /\ pc[c] = "starting"
  /\ pc' = [pc EXCEPT ![c] = "setup"]
  /\ cs' = "free" /\ wire' = <<>>
  /\ micEnd' = "unset" /\ renderEnd' = "unset"
  /\ UNCHANGED <<g_lock, VoipRunning, sessions, udpEnd, mic, renderVars, udpVars, arrived,
                 queueVars>>

\* The encoder or the decoder cannot be created.
StartOpusFails(c) ==
  /\ pc[c] = "setup"
  /\ g_lock' = NoOne /\ pc' = [pc EXCEPT ![c] = "idle"]
  /\ UNCHANGED <<VoipRunning, sessions, eventVars, mic, renderVars, udpVars, cs, netVars,
                 queueVars>>

StartCreatesThreads(c) ==
  /\ pc[c] = "setup"
  /\ udp' = "starting" /\ render' = "starting" /\ mic' = "running"
  /\ VoipRunning' = TRUE
  /\ g_lock' = NoOne /\ pc' = [pc EXCEPT ![c] = "idle"]
  /\ UNCHANGED <<sessions, eventVars, VoipStarted, left, played, Buffer, udpIndex, cs, netVars,
                 queueVars>>
-----------------------------------------------------------------------------
(* VoipVoiceStop. *)

\* Mutant: the speaker thread is joined without being told to end.
StopForgetsRender(c) ==
  /\ pc[c] = "idle" /\ g_lock = NoOne /\ VoipRunning
  /\ g_lock' = c /\ pc' = [pc EXCEPT ![c] = "joinRender"]
  /\ micEnd' = "set"
  /\ udpEnd' = IF udpEnd = "none" THEN "none" ELSE "set"
  /\ UNCHANGED <<VoipRunning, sessions, renderEnd, mic, renderVars, udpVars, cs, netVars,
                 queueVars>>

\* All three threads are told to end; the signal to the receiver goes to no
\* event when it has not created its own yet.
StopSignals(c) ==
  /\ pc[c] = "idle" /\ g_lock = NoOne /\ VoipRunning
  /\ g_lock' = c /\ pc' = [pc EXCEPT ![c] = "joinRender"]
  /\ micEnd' = "set" /\ renderEnd' = "set"
  /\ udpEnd' = IF udpEnd = "none" THEN "none" ELSE "set"
  /\ UNCHANGED <<VoipRunning, sessions, mic, renderVars, udpVars, cs, netVars, queueVars>>

StopJoinsRender(c) ==
  /\ pc[c] = "joinRender" /\ render = "ended"
  /\ pc' = [pc EXCEPT ![c] = "joinMic"]
  /\ UNCHANGED <<g_lock, VoipRunning, sessions, eventVars, mic, renderVars, udpVars, cs,
                 netVars, queueVars>>

StopJoinsMic(c) ==
  /\ pc[c] = "joinMic" /\ mic = "ended"
  /\ pc' = [pc EXCEPT ![c] = "joinUdp"]
  /\ UNCHANGED <<g_lock, VoipRunning, sessions, eventVars, mic, renderVars, udpVars, cs,
                 netVars, queueVars>>

\* The closing steps of VoipVoiceStop; VoipBufferQueue is left as it is.
Closing(c) ==
  /\ mic' = "none" /\ render' = "none" /\ udp' = "none"
  /\ micEnd' = "none" /\ renderEnd' = "none" /\ udpEnd' = "none"
  /\ wire' = <<>>
  /\ VoipRunning' = FALSE
  /\ g_lock' = NoOne /\ pc' = [pc EXCEPT ![c] = "idle"]
  /\ UNCHANGED <<sessions, VoipStarted, left, played, Buffer, udpIndex, cs, arrived, queueVars>>

\* Mutant: VoipVoiceStop does not wait for the receiver and leaves it running.
StopLeavesUdp(c) ==
  /\ pc[c] = "joinUdp"
  /\ mic' = "none" /\ render' = "none"
  /\ micEnd' = "none" /\ renderEnd' = "none"
  /\ VoipRunning' = FALSE
  /\ g_lock' = NoOne /\ pc' = [pc EXCEPT ![c] = "idle"]
  /\ UNCHANGED <<sessions, VoipStarted, left, played, udpVars, udpEnd, cs, netVars, queueVars>>

StopJoinsUdp(c) == pc[c] = "joinUdp" /\ udp = "ended" /\ Closing(c)
-----------------------------------------------------------------------------
(* The UDP receiver. *)

UdpCreatesEvents ==
  /\ udp = "starting"
  /\ udp' = "waiting" /\ udpEnd' = "unset"
  /\ UNCHANGED <<sessionVars, micEnd, renderEnd, mic, renderVars, Buffer, udpIndex, cs, netVars,
                 queueVars>>

\* Data comes first in the array of events: the end event is looked at only
\* when no datagram waits.
UdpReceives ==
  /\ udp = "waiting" /\ wire # <<>>
  /\ udp' = "got" /\ Buffer' = Head(wire) /\ wire' = Tail(wire)
  /\ UNCHANGED <<sessionVars, eventVars, mic, renderVars, udpIndex, cs, arrived, queueVars>>

UdpEnds ==
  /\ udp = "waiting" /\ wire = <<>> /\ udpEnd = "set"
  /\ udp' = "ended" /\ udpEnd' = "unset"
  /\ UNCHANGED <<sessionVars, micEnd, renderEnd, mic, renderVars, Buffer, udpIndex, cs, netVars,
                 queueVars>>

\* Mutant: the receiver pushes without entering the critical section.
UdpPushesUnlocked ==
  /\ udp = "got"
  /\ Queue!pushIndices
  /\ udpIndex' = IF Queue!isFull THEN -1 ELSE Queue!PushIndex
  /\ udp' = IF Queue!isFull THEN "leaving" ELSE "filling"
  /\ UNCHANGED <<sessionVars, eventVars, mic, renderVars, Buffer, cs, netVars, start_p_>>

\* EnterCriticalSection and push; a full queue drops the frame.
UdpPushes ==
  /\ udp = "got" /\ cs = "free"
  /\ cs' = "udp"
  /\ Queue!pushIndices
  /\ udpIndex' = IF Queue!isFull THEN -1 ELSE Queue!PushIndex
  /\ udp' = IF Queue!isFull THEN "leaving" ELSE "filling"
  /\ UNCHANGED <<sessionVars, eventVars, mic, renderVars, Buffer, netVars, start_p_>>

\* opus_decode, then the copy into the slot.
UdpFills ==
  /\ udp = "filling"
  /\ start_p_' = [start_p_ EXCEPT ![udpIndex] = Buffer]
  /\ udp' = "leaving"
  /\ UNCHANGED <<sessionVars, eventVars, mic, renderVars, Buffer, udpIndex, cs, netVars, indices>>

UdpLeaves ==
  /\ udp = "leaving"
  /\ cs' = "free" /\ udp' = "waiting"
  /\ UNCHANGED <<sessionVars, eventVars, mic, renderVars, Buffer, udpIndex, netVars, queueVars>>
-----------------------------------------------------------------------------
(* The speaker thread. *)

RenderStarts ==
  /\ render = "starting"
  /\ render' = "playing" /\ VoipStarted' = FALSE
  /\ UNCHANGED <<sessionVars, eventVars, mic, left, played, udpVars, cs, netVars, queueVars>>

\* An exception outside the critical section, wherever the audio client fails.
RenderFails ==
  /\ render \in {"starting", "playing", "draining"}
  /\ render' = "ended"
  /\ UNCHANGED <<sessionVars, eventVars, mic, VoipStarted, left, played, udpVars, cs, netVars,
                 queueVars>>

\* Mutant: the frame count asked of the device is not capped by NumQueued.
RenderEntersUncapped ==
  /\ render = "playing" /\ cs = "free"
  /\ cs' = "render" /\ render' = "locked"
  /\ VoipStarted' = (VoipStarted \/ num_queued_ > Prefill)
  /\ left' \in IF VoipStarted' /\ num_queued_ > 0 THEN 1 .. size_ ELSE {0}
  /\ UNCHANGED <<sessionVars, eventVars, mic, played, udpVars, netVars, queueVars>>

\* The device has room for at least one frame: EnterCriticalSection, the
\* prefill decision, and how many frames to pop, which is at most NumQueued.
RenderEnters ==
  /\ render = "playing" /\ cs = "free"
  /\ cs' = "render" /\ render' = "locked"
  /\ VoipStarted' = (VoipStarted \/ num_queued_ > Prefill)
  /\ left' \in IF VoipStarted' /\ num_queued_ > 0 THEN 1 .. num_queued_ ELSE {0}
  /\ UNCHANGED <<sessionVars, eventVars, mic, played, udpVars, netVars, queueVars>>

\* GetBuffer fails: the exception leaves the thread inside the critical section.
RenderThrows ==
  /\ render = "locked"
  /\ render' = "ended"
  /\ UNCHANGED <<sessionVars, eventVars, mic, VoipStarted, left, played, udpVars, cs, netVars,
                 queueVars>>

\* One turn of the copy loop.
RenderPops ==
  /\ render \in {"locked", "popping"} /\ left > 0
  /\ render' = "popping" /\ left' = left - 1
  /\ Queue!popIndices
  /\ played' = IF Queue!isEmpty THEN played ELSE start_p_[start_index_]
  /\ UNCHANGED <<sessionVars, eventVars, mic, VoipStarted, udpVars, cs, netVars, start_p_>>

RenderLeaves ==
  /\ render \in {"locked", "popping"} /\ left = 0
  /\ cs' = "free" /\ render' = "playing"
  /\ UNCHANGED <<sessionVars, eventVars, mic, VoipStarted, left, played, udpVars, netVars,
                 queueVars>>

\* Between two periods of the audio device only the end event is signalled.
RenderEnds ==
  /\ render = "playing" /\ renderEnd = "set"
  /\ render' = "draining" /\ renderEnd' = "unset"
  /\ UNCHANGED <<sessionVars, micEnd, udpEnd, mic, VoipStarted, left, played, udpVars, cs,
                 netVars, queueVars>>

RenderDrained ==
  /\ render = "draining"
  /\ render' = "ended"
  /\ UNCHANGED <<sessionVars, eventVars, mic, VoipStarted, left, played, udpVars, cs, netVars,
                 queueVars>>
-----------------------------------------------------------------------------
(* The microphone thread only matters here for when it ends, and the network *)
(* for what it puts in the socket while a session has one.                   *)

MicEnds ==
  /\ mic = "running" /\ micEnd = "set"
  /\ mic' = "ended" /\ micEnd' = "unset"
  /\ UNCHANGED <<sessionVars, renderEnd, udpEnd, renderVars, udpVars, cs, netVars, queueVars>>

MicFails ==
  /\ mic = "running"
  /\ mic' = "ended"
  /\ UNCHANGED <<sessionVars, eventVars, renderVars, udpVars, cs, netVars, queueVars>>

DatagramArrives ==
  /\ VoipRunning \/ \E c \in Callers : pc[c] = "setup"
  /\ arrived < MaxFrames
  /\ arrived' = arrived + 1 /\ wire' = Append(wire, arrived + 1)
  /\ UNCHANGED <<sessionVars, eventVars, mic, renderVars, udpVars, cs, queueVars>>
-----------------------------------------------------------------------------
StartSteps(c) == StartKeepsLock(c) \/ StartSetsUp(c) \/ StartOpusFails(c) \/ StartCreatesThreads(c)
StopSteps(c)  == StopJoinsRender(c) \/ StopJoinsMic(c) \/ StopJoinsUdp(c)
Caller(c)     == StartLocks(c) \/ StopSignals(c) \/ StartSteps(c) \/ StopSteps(c)
UdpThread     == UdpCreatesEvents \/ UdpReceives \/ UdpEnds \/ UdpPushes \/ UdpFills \/ UdpLeaves
RenderThread  == \/ RenderStarts \/ RenderFails \/ RenderEnters \/ RenderThrows \/ RenderPops
                 \/ RenderLeaves \/ RenderEnds \/ RenderDrained
MicThread     == MicEnds \/ MicFails

Next == \/ \E c \in Callers : Caller(c)
        \/ UdpThread \/ RenderThread \/ MicThread \/ DatagramArrives

Spec == Init /\ [][Next]_vars

\* Every thread keeps running; a user need not start or stop anything.  The
\* strong fairness of RenderEnds says that the speaker thread, which spends
\* microseconds in its loop and milliseconds waiting, is at some time waiting
\* with the end event signalled and the device event not.
FairSpec ==
  /\ Spec
  /\ \A c \in Callers : WF_vars(StartSteps(c) \/ StopSteps(c))
  /\ WF_vars(UdpThread) /\ WF_vars(RenderThread) /\ WF_vars(MicThread)
  /\ SF_vars(RenderEnds)
-----------------------------------------------------------------------------
(* Properties. *)

\* VoipBufferQueue shared by the two threads is a first-in first-out buffer of
\* decoded frames, across sessions too: the speaker never copies a slot that
\* push has handed out and the receiver has not filled yet, and a frame is
\* dropped only when size_ frames wait.
Held == [k \in 1 .. num_queued_ |->
           IF udp = "filling" /\ Queue!SlotOf(k) = udpIndex
           THEN Buffer ELSE start_p_[Queue!SlotOf(k)]]
Fifo == INSTANCE BoundedFifo
          WITH Capacity <- size_, Nothing <- NoFrame, items <- Held,
               offered <- udpIndex # -1, taken <- played
SharedQueueIsFifo == Fifo!FifoSpec

\* NumQueued is read once and pops follow one by one: the queue never runs dry
\* under them, so the device buffer is never released with an unwritten part.
PopsAreCovered == render \in {"locked", "popping"} => left <= num_queued_

\* No thread of a session outlives it, whichever caller stopped it: when g_lock
\* is free and VoipRunning is clear there is no session thread, and the receiver has
\* given up its end event.
NoThreadOutlivesSession ==
  g_lock = NoOne /\ ~ VoipRunning =>
    mic = "none" /\ render = "none" /\ udp = "none" /\ udpEnd = "none"

\* The critical section is released only by the thread inside it; only a new
\* session, when that thread is gone, takes it away (VoipVoiceStart initialises
\* it again without deleting it).
ReleasedByItsOwner ==
  [][/\ cs = "udp" /\ cs' # "udp" => udp = "leaving"
     /\ cs = "render" /\ cs' # "render" => render \in {"locked", "popping", "none"}]_vars

\* The two ways a stop can wait for ever, and the one a start can: the receiver
\* had no end event to signal, the speaker died inside the critical section and
\* the receiver waits for it, or the lock was kept by a failed start.
EndSignalLost(c) == pc[c] \in Joining /\ udp # "ended" /\ udpEnd # "set"
SectionAbandoned == render = "ended" /\ cs = "render" /\ udp = "got"
LockKept(c)      == g_lock = c /\ pc[c] = "idle"

\* Apart from those, whoever takes g_lock gives it back: the three joins do not
\* wait for each other, and neither does the order in which they are made.
LockIsGivenBack ==
  \A c \in Callers :
    g_lock = c ~> g_lock # c \/ LockKept(c) \/ EndSignalLost(c) \/ SectionAbandoned
=============================================================================
