---------------------------- MODULE VideoServer ----------------------------
(***************************************************************************)
(* The video server (VideoServer.cpp): the GUI thread that starts and      *)
(* stops it, its thread, and the programs that call it, of which it serves *)
(* one at a time.  The images that one sends are an ImageStream, whose     *)
(* receiver is the server's thread.  The images the server itself sends    *)
(* are only written or not: a write that succeeds changes nothing here.    *)
(***************************************************************************)
EXTENDS ImageLengths, Sequences

CONSTANTS
  Client,       \* connections other programs may make
  NoClient,     \* INVALID_SOCKET in Accept
  MaxCalls,     \* bound: connects in a run
  MaxStarts     \* bound: starts of the server

ASSUME NoClientAssumption == NoClient \notin Client
ASSUME BoundsAssumption   == MaxCalls \in Nat /\ MaxStarts \in Nat

VARIABLES
  hThread,    \* hThreadVideoServer is not INVALID_HANDLE_VALUE
  joining,    \* the GUI thread waits for the thread in StopVideoServer
  pc,         \* the thread
  hEnd,       \* hEndVideoServerEvent: "none", "clear" or "set"
  listening,  \* Listen is not INVALID_SOCKET
  backlog,    \* connections Listen has not accepted
  Accept,
  NumEvents,
  echo,       \* the connection is echoed: Loopback or LoopbackOverRide
  RealConnectionActive,
  devices,    \* the camera and the voice session this thread started
  connects, losts,    \* history: WM_REMOTE_CONNECT and WM_REMOTE_LOST posted
  failed,     \* history: connections that were gone when they were accepted
  missed,     \* history: a stop came before the end event existed
  calls, starts

control == <<hThread, joining, pc, hEnd, listening>>
service == <<Accept, NumEvents, echo, RealConnectionActive, devices, connects, losts, failed>>
counts  == <<missed, calls, starts>>

VARIABLES senderOpen, receiverOpen, sendbuff, size, sending, written, retry_count,
          wire, Mode, InputBuffer, InputBytesNeeded, shown

stream == <<senderOpen, receiverOpen, sendbuff, size, sending, written, retry_count,
            wire, Mode, InputBuffer, InputBytesNeeded, shown>>

Up == INSTANCE ImageStream

vars == <<control, backlog, service, counts, stream>>

Init ==
  /\ hThread = FALSE /\ joining = FALSE /\ pc = "none" /\ hEnd = "none" /\ listening = FALSE
  /\ backlog = {} /\ Accept = NoClient /\ NumEvents = 2 /\ echo = FALSE
  /\ RealConnectionActive = FALSE /\ devices = FALSE
  /\ connects = 0 /\ losts = 0 /\ failed = 0
  /\ missed = FALSE /\ calls = 0 /\ starts = 0
  /\ Up!Init

-----------------------------------------------------------------------------
(* The GUI thread.                                                         *)

VideoServerCleanup ==
  /\ hEnd' = "none" /\ listening' = FALSE /\ backlog' = {}

\* Mutant: what is looked at is whether the server listens, not the handle.
StartsUnlessListening ==
  /\ ~joining /\ ~listening /\ starts < MaxStarts
  /\ hThread' = TRUE /\ pc' = "starting" /\ starts' = starts + 1
  /\ UNCHANGED <<joining, hEnd, listening, backlog, service, missed, calls, stream>>

\* With a handle, of a thread that may have ended, nothing is started.
StartVideoServer ==
  /\ ~joining /\ ~hThread /\ starts < MaxStarts
  /\ hThread' = TRUE /\ pc' = "starting" /\ starts' = starts + 1
  /\ UNCHANGED <<joining, hEnd, listening, backlog, service, missed, calls, stream>>

StopVideoServer ==
  /\ ~joining /\ hThread
  /\ joining' = TRUE
  /\ hEnd' = IF hEnd = "none" THEN "none" ELSE "set"
  /\ missed' = (pc = "starting")
  /\ UNCHANGED <<hThread, pc, listening, backlog, service, calls, starts, stream>>

\* Accept is closed here too, but the thread has never left it open.
Joined ==
  /\ joining /\ pc = "ended"
  /\ joining' = FALSE /\ hThread' = FALSE /\ pc' = "none"
  /\ VideoServerCleanup
  /\ Accept' = NoClient
  /\ UNCHANGED <<NumEvents, echo, RealConnectionActive, devices, connects, losts, failed,
                 counts, stream>>

-----------------------------------------------------------------------------
(* The thread before its loop.  What fails here returns at once, without   *)
(* cleaning up.                                                            *)

StartFails ==
  /\ pc = "starting" /\ pc' = "ended"
  /\ UNCHANGED <<hThread, joining, hEnd, listening, backlog, service, counts, stream>>

Listens ==
  /\ pc = "starting" /\ pc' = "binding"
  /\ listening' = TRUE /\ hEnd' = "clear"
  /\ UNCHANGED <<hThread, joining, backlog, service, counts, stream>>

BindFails ==
  /\ pc = "binding" /\ pc' = "ended"
  /\ UNCHANGED <<hThread, joining, hEnd, listening, backlog, service, counts, stream>>

\* Mutant: the event that ends the loop is cleared as the loop is entered.
BindsClearsEvent ==
  /\ pc = "binding" /\ pc' = "looping"
  /\ NumEvents' = 2 /\ hEnd' = "clear"
  /\ UNCHANGED <<hThread, joining, listening, backlog, Accept, echo, RealConnectionActive,
                 devices, connects, losts, failed, counts, stream>>

Binds ==
  /\ pc = "binding" /\ pc' = "looping"
  /\ NumEvents' = 2
  /\ UNCHANGED <<hThread, joining, hEnd, listening, backlog, Accept, echo, RealConnectionActive,
                 devices, connects, losts, failed, counts, stream>>

-----------------------------------------------------------------------------
(* A connection is given up: closed, announced as lost, its camera and its *)
(* voice session ended.                                                    *)

EndsStream == IF receiverOpen THEN Up!Closes ELSE UNCHANGED stream

\* Mutant: nothing is done without a connection.
CleanUpOnlyOpen ==
  IF Accept = NoClient
  THEN UNCHANGED <<service, stream>>
  ELSE /\ Accept' = NoClient /\ losts' = losts + 1
       /\ devices' = (devices /\ ~RealConnectionActive)
       /\ RealConnectionActive' = FALSE
       /\ NumEvents' = 2
       /\ EndsStream
       /\ UNCHANGED <<echo, connects, failed>>

\* Mutant: the flag is reset before it is looked at.
CleanUpFlagFirst ==
  /\ Accept' = NoClient
  /\ losts' = IF Accept # NoClient THEN losts + 1 ELSE losts
  /\ RealConnectionActive' = FALSE
  /\ NumEvents' = 2
  /\ EndsStream
  /\ UNCHANGED <<echo, connects, failed, devices>>

CleanUpClosedConnection ==
  /\ Accept' = NoClient
  /\ losts' = IF Accept # NoClient THEN losts + 1 ELSE losts
  /\ devices' = (devices /\ ~RealConnectionActive)
  /\ RealConnectionActive' = FALSE
  /\ NumEvents' = 2
  /\ EndsStream
  /\ UNCHANGED <<echo, connects, failed>>

\* Mutant: an error in the loop returns as the errors before it do.
LeavesAtOnce ==
  /\ VideoServerCleanup
  /\ pc' = "ended"
  /\ UNCHANGED <<hThread, joining, service, counts, stream>>

\* The loop has been left: the thread closes everything but its own handle.
Leaves ==
  /\ CleanUpClosedConnection /\ VideoServerCleanup
  /\ pc' = "ended"
  /\ UNCHANGED <<hThread, joining, counts>>

Serves(slot) ==
  /\ pc = "looping" /\ hEnd # "set"
  /\ CASE slot = 1 -> backlog # {}
       [] slot = 2 -> backlog = {} /\ NumEvents > 2
       [] slot = 3 -> backlog = {} /\ NumEvents > 3

EndLoop ==
  /\ pc = "looping" /\ hEnd = "set"
  /\ Leaves

-----------------------------------------------------------------------------
(* Slot 1, a connection is waiting.  Its client may be gone, in which case *)
(* accept fails; its result is not looked at.                              *)

Takes(c, got) ==
  /\ backlog' = backlog \ {c}
  /\ Accept' = IF got THEN c ELSE NoClient
  /\ connects' = connects + 1
  /\ failed' = IF got THEN failed ELSE failed + 1

AcceptConn(c, got) ==
  /\ Serves(1) /\ c \in backlog /\ Accept = NoClient
  /\ Takes(c, got)
  /\ RealConnectionActive' = TRUE /\ devices' = TRUE /\ NumEvents' = 4 /\ echo' = FALSE
  /\ IF got THEN Up!Connects ELSE UNCHANGED stream
  /\ UNCHANGED <<control, losts, counts>>

AcceptEcho(c, got) ==
  /\ Serves(1) /\ c \in backlog /\ Accept = NoClient
  /\ Takes(c, got)
  /\ NumEvents' = 3 /\ echo' = TRUE
  /\ UNCHANGED <<control, RealConnectionActive, devices, losts, counts, stream>>

\* The camera does not open, or, with it and the voice session started, there is
\* no timer: the loop is left.
AcceptBreaks(c, got, started) ==
  /\ Serves(1) /\ c \in backlog /\ Accept = NoClient
  /\ Takes(c, got)
  /\ RealConnectionActive' = (RealConnectionActive \/ started)
  /\ devices' = (devices \/ started) /\ echo' = FALSE
  /\ pc' = "breaking"
  /\ UNCHANGED <<hThread, joining, hEnd, listening, NumEvents, losts, counts, stream>>

Breaks == pc = "breaking" /\ Leaves

Refuse(c) ==
  /\ Serves(1) /\ c \in backlog /\ Accept # NoClient
  /\ backlog' = backlog \ {c}
  /\ UNCHANGED <<control, service, counts, stream>>

-----------------------------------------------------------------------------
(* Slots 2 and 3, of the connection that is served.                        *)

ServesImages == Serves(2) /\ receiverOpen

ReadsConn ==
  /\ ServesImages /\ Up!Reads
  /\ UNCHANGED <<control, backlog, service, counts>>

\* recv returning 0 leaves the loop.
ReadsNothing ==
  /\ ServesImages /\ wire # <<>> /\ InputBytesNeeded = 0
  /\ Leaves

SeesClose ==
  /\ ServesImages /\ ~senderOpen
  /\ CleanUpClosedConnection
  /\ UNCHANGED <<control, backlog, counts>>

EchoCloses ==
  /\ Serves(2) /\ echo /\ Accept # NoClient
  /\ CleanUpClosedConnection
  /\ UNCHANGED <<control, backlog, counts>>

\* The server's own image cannot be written: the peer does not read or is gone.
TimerWriteFails ==
  /\ Serves(3) /\ Accept # NoClient
  /\ CleanUpClosedConnection
  /\ UNCHANGED <<control, backlog, counts>>

\* Or there is no peer, because accept had failed; nothing is announced as lost.
TimerFindsNoPeer ==
  /\ Serves(3) /\ Accept = NoClient
  /\ CleanUpClosedConnection
  /\ UNCHANGED <<control, backlog, counts>>

-----------------------------------------------------------------------------
(* The other programs.                                                     *)

Calls(c) ==
  /\ pc = "looping" /\ calls < MaxCalls /\ c \notin backlog \cup {Accept}
  /\ backlog' = backlog \cup {c} /\ calls' = calls + 1
  /\ UNCHANGED <<control, service, missed, starts, stream>>

ClientStep ==
  /\ Up!SenderStep
  /\ UNCHANGED <<control, backlog, service, counts>>

-----------------------------------------------------------------------------
AcceptStep ==
  \E c \in Client, got \in BOOLEAN :
    \/ AcceptConn(c, got)
    \/ AcceptEcho(c, got)
    \/ \E started \in BOOLEAN : AcceptBreaks(c, got, started)

\* What the thread does without waiting for anybody.  Reading is not among it: a
\* program that is called may be one that does not read.
ThreadStep ==
  \/ StartFails \/ Listens \/ BindFails \/ Binds
  \/ EndLoop \/ AcceptStep \/ Breaks \/ (\E c \in Client : Refuse(c))
  \/ SeesClose \/ TimerFindsNoPeer

Next ==
  \/ StartVideoServer \/ StopVideoServer \/ Joined
  \/ ThreadStep \/ ReadsConn \/ ReadsNothing \/ EchoCloses \/ TimerWriteFails
  \/ (\E c \in Client : Calls(c)) \/ ClientStep

ClientWrites == Up!WriteStep /\ UNCHANGED <<control, backlog, service, counts>>

Spec ==
  /\ Init /\ [][Next]_vars
  /\ WF_vars(ThreadStep) /\ WF_vars(Joined) /\ WF_vars(ClientWrites)

-----------------------------------------------------------------------------
TypeOK ==
  /\ hThread \in BOOLEAN /\ joining \in BOOLEAN
  /\ pc \in {"none", "starting", "binding", "looping", "breaking", "ended"}
  /\ hEnd \in {"none", "clear", "set"} /\ listening \in BOOLEAN
  /\ backlog \subseteq Client /\ Accept \in Client \cup {NoClient}
  /\ NumEvents \in {2, 3, 4} /\ echo \in BOOLEAN
  /\ RealConnectionActive \in BOOLEAN /\ devices \in BOOLEAN
  /\ connects \in Nat /\ losts \in Nat /\ failed \in Nat
  /\ missed \in BOOLEAN /\ calls \in 0 .. MaxCalls /\ starts \in 0 .. MaxStarts
  /\ Up!TypeOK

(* Whichever way the thread ended - stopped, by an error in its loop or    *)
(* before it, by an image of no bytes - no connection, camera or voice     *)
(* session is left on, and after a stop no socket or event either.         *)
NothingLeftBehind ==
  /\ pc \in {"none", "ended"} => Accept = NoClient /\ ~devices /\ ~receiverOpen
  /\ ~hThread => hEnd = "none" /\ ~listening /\ backlog = {} /\ pc = "none"

(* The main window, which greys its call button between the two messages,  *)
(* is told of the loss of every connection it was told of, except of one   *)
(* that was gone when it was accepted (VideoServer.cpp 201, 222, 446).     *)
ConnectsAreMatched ==
  connects = losts + failed + (IF Accept # NoClient THEN 1 ELSE 0)

(* The images a caller sends are shown whole and in order by whichever     *)
(* server thread serves it, across hang-ups, stops and restarts.           *)
ImagesArriveWhole == Up!ImplementsChannel

(* A caller's write ends although the server it calls may never read: a    *)
(* blocked send is repeated a bounded number of times (TcpSendRecv.cpp 64).*)
CallersWritesEnd == Up!WritesEnd

(* StopVideoServer returns, except when it came before the thread had      *)
(* created the event it sets (VideoServer.cpp 47-57, 136).                 *)
StopReturns == joining /\ ~missed ~> ~joining

(* While such a stop waits there is always a next step towards its end, of *)
(* the thread or, once that has ended, of the wait.                        *)
StopCanProceed ==
  joining /\ ~missed =>
    IF pc = "ended" THEN ENABLED <<Joined>>_vars ELSE ENABLED <<ThreadStep>>_vars

(* An image that is being written can always be tried once more.           *)
WriteCanProceed == sending # "nothing" => ENABLED <<ClientWrites>>_vars

(* The camera and the voice session do not stay on without a caller; a     *)
(* connection that is echoed in between may keep those of one that failed. *)
Abandoned == devices /\ ~echo /\ ~(receiverOpen /\ senderOpen)

DevicesFollowCaller == Abandoned ~> ~Abandoned

(* In that situation, too, the thread can go on.                           *)
LossCanProceed == Abandoned => ENABLED <<ThreadStep>>_vars

(* What waits for a step of a thread that fairness is assumed of does not  *)
(* wait in vain: in a stop, in a write and when a caller is gone that step *)
(* can be taken.                                                           *)
ThreadsCanProceed == StopCanProceed /\ WriteCanProceed /\ LossCanProceed

(* To the GUI thread and the callers the server is one thread that is      *)
(* started, ends by itself or is stopped: a stop that was heard is over as *)
(* it begins, since nothing of what the thread still does is seen from     *)
(* outside; one that came too early waits until the thread ends by itself. *)
ThreadSeen ==
  IF pc = "none" \/ (joining /\ (~missed \/ pc = "ended")) THEN "none"
  ELSE IF pc \in {"starting", "binding"} THEN "starting"
  ELSE IF pc \in {"looping", "breaking"} THEN "running" ELSE "ended"

Thread == INSTANCE ThreadLife WITH life <- ThreadSeen, waits <- joining /\ missed /\ pc # "ended"

LivesAsThread == Thread!Spec
=============================================================================
