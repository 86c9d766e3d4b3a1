--------------------------- MODULE AcServerLoop ---------------------------
(***************************************************************************)
(* The access control server's thread: StartACServer / StopACServer on the *)
(* GUI thread, and the loop of ThreadACServer that waits on an array of    *)
(* event handles, accepts connections, reads one message per FD_READ and   *)
(* drops a connection on FD_CLOSE (AccessControlServer.cpp).               *)
(*                                                                         *)
(* The loop keeps two lists: sockmng, the vector of open connections, and  *)
(* ghEvents, a six-slot array on the thread's stack.  Slot 0 is the end    *)
(* event, slot 1 the listener, and slot i >= 2 is meant to be the event of *)
(* sockmng[i - 2].  CloseConnectionACS erases from the vector and leaves   *)
(* the array as it is.  What a message means (RecvHandler) is the subject  *)
(* of other modules; here a message is one more unread record.             *)
(***************************************************************************)
EXTENDS Integers, Sequences, SequencesExt

CONSTANTS
  Conns,       \* TCP connections clients may open; a reconnect is a new one
  NoEvent,     \* an element of ghEvents that was never written
  EventSlots,  \* size of ghEvents
  SslSlots,    \* size of ssl[] and sslContext[]
  MaxSends     \* bound: messages a client sends over one connection

ASSUME SlotsAssumption ==
  /\ EventSlots \in Nat /\ EventSlots >= 2
  /\ SslSlots \in Nat
  /\ MaxSends \in Nat
ASSUME NoEventAssumption == NoEvent \notin Conns

VARIABLES
  gui,        \* "free", or "joining": inside StopACServer's wait for the thread
  thread,     \* "none": hThreadACServer is INVALID_HANDLE_VALUE
  endEvent,   \* hEndACServerEvent: "invalid", "unset" or "set"
  missed,     \* history: the stop that waits found no end event to signal
  NumEvents,  \* how many elements of ghEvents the loop waits on
  ghEvents,   \* slot -> connection whose AcceptEvent it holds
  sockmng,    \* the vector of open connections
  sslInx,     \* next element of ssl[]; sslCTXInx always has the same value
  listening,  \* whether Listener is open and listening
  sock,       \* the server's end of each connection
  alive,      \* whether the client still holds its end open
  sent,       \* messages the client has sent
  unread,     \* those of them the server has not read
  record,     \* network events Winsock has recorded for the socket
  shift       \* history: no entry before this position of sockmng was erased
              \* from under a later one

serverVars == <<NumEvents, ghEvents, sockmng, sslInx, shift>>
netVars    == <<listening, sock, alive, sent, unread, record>>
vars       == <<gui, thread, endEvent, missed, serverVars, netVars>>

Slots      == 2 .. (EventSlots - 1)
NetEvents  == {"FD_READ", "FD_WRITE", "FD_CLOSE"}
SockStates == {"none", "queued", "accepted", "leaked", "gone"}

TypeOK ==
  /\ gui \in {"free", "joining"}
  /\ thread \in {"none", "started", "created", "running", "ended", "corrupt"}
  /\ endEvent \in {"invalid", "unset", "set"} /\ missed \in BOOLEAN
  /\ NumEvents \in Nat
  /\ ghEvents \in [Slots -> Conns \cup {NoEvent}]
  /\ sockmng \in Seq(Conns)
  /\ sslInx \in 0 .. SslSlots
  /\ sock \in [Conns -> SockStates]
  /\ alive \in [Conns -> BOOLEAN]
  /\ listening \in BOOLEAN
  /\ sent \in [Conns -> 0 .. MaxSends]
  /\ unread \in [Conns -> 0 .. MaxSends]
  /\ record \in [Conns -> SUBSET NetEvents]
  /\ shift \in Nat

Init ==
  /\ gui = "free" /\ thread = "none" /\ endEvent = "invalid" /\ missed = FALSE
  /\ NumEvents = 0
  /\ ghEvents = [i \in Slots |-> NoEvent]
  /\ sockmng = <<>>
  /\ sslInx = 0
  /\ sock = [c \in Conns |-> "none"]
  /\ alive = [c \in Conns |-> FALSE]
  /\ listening = FALSE
  /\ sent = [c \in Conns |-> 0]
  /\ unread = [c \in Conns |-> 0]
  /\ record = [c \in Conns |-> {}]
  /\ shift = 0
-----------------------------------------------------------------------------
(* The GUI thread. *)

\* The thread is created only when the handle says there is none.
StartACServer ==
  /\ gui = "free" /\ thread = "none"
  /\ thread' = "started"
  /\ UNCHANGED <<gui, missed, endEvent, serverVars, netVars>>

\* The end event is signalled only if the thread has created it by now.
StopACServer ==
  /\ gui = "free" /\ thread # "none"
  /\ gui' = "joining"
  /\ endEvent' = IF endEvent = "invalid" THEN "invalid" ELSE "set"
  /\ missed' = (endEvent = "invalid")
  /\ UNCHANGED <<thread, serverVars, netVars>>

\* Mutant: the vector keeps its entries across a restart.
CleanUpWithoutClear ==
  /\ gui = "joining" /\ thread = "ended"
  /\ gui' = "free" /\ thread' = "none" /\ endEvent' = "invalid" /\ missed' = FALSE
  /\ sock' = [c \in Conns |-> IF sock[c] \in {"queued", "accepted"} THEN "gone" ELSE sock[c]]
  /\ record' = [c \in Conns |-> {}]
  /\ listening' = FALSE
  /\ UNCHANGED <<serverVars, alive, sent, unread>>

\* The wait for the thread is over: close the handles, the listener (and with
\* it the connections it has not accepted) and every entry of sockmng.
CleanUpACServer ==
  /\ gui = "joining" /\ thread = "ended"
  /\ gui' = "free" /\ thread' = "none" /\ endEvent' = "invalid" /\ missed' = FALSE
  /\ LET closed == {c \in Conns : sock[c] = "queued"}
                     \cup {sockmng[k] : k \in DOMAIN sockmng}
     IN /\ sock' = [c \in Conns |-> IF c \in closed THEN "gone" ELSE sock[c]]
        /\ record' = [c \in Conns |-> IF c \in closed THEN {} ELSE record[c]]
  /\ sockmng' = <<>>
  /\ listening' = FALSE
  /\ UNCHANGED <<NumEvents, ghEvents, sslInx, shift, alive, sent, unread>>
-----------------------------------------------------------------------------
(* The thread, up to its loop. *)

\* socket() and its options, then the two event handles.
CreateEvents ==
  /\ thread = "started"
  /\ thread' = "created" /\ endEvent' = "unset"
  /\ UNCHANGED <<gui, missed, serverVars, netVars>>

\* Mutant: the end event is reset before the loop, as if it were left from a stop.
ListenResets ==
  /\ thread = "created"
  /\ thread' = "running" /\ endEvent' = "unset"
  /\ NumEvents' = 2
  /\ ghEvents' = [i \in Slots |-> NoEvent]
  /\ shift' = EventSlots
  /\ listening' = TRUE
  /\ UNCHANGED <<gui, missed, sockmng, sslInx, sock, alive, sent, unread, record>>

\* WSAEventSelect, bind and listen succeed; the loop starts on two events.
Listen ==
  /\ thread = "created"
  /\ thread' = "running"
  /\ NumEvents' = 2
  /\ ghEvents' = [i \in Slots |-> NoEvent]
  /\ shift' = EventSlots
  /\ listening' = TRUE
  /\ UNCHANGED <<gui, missed, endEvent, sockmng, sslInx, sock, alive, sent, unread, record>>

\* A return before the loop: socket() fails before the events exist, the
\* others after.
StartFails ==
  /\ thread \in {"started", "created"}
  /\ thread' = "ended"
  /\ UNCHANGED <<gui, missed, endEvent, serverVars, netVars>>
-----------------------------------------------------------------------------
(* The loop.  WaitForMultipleObjects reports the lowest signalled slot: the  *)
(* end event first, then the listener, then the connections.                 *)

Signalled(e) == e # NoEvent /\ record[e] # {}
Pending      == {c \in Conns : sock[c] = "queued"}
AtListener   == thread = "running" /\ endEvent # "set" /\ Pending # {}

\* Mutant: the end event is the last of the array instead of the first.
EndLoopLast ==
  /\ thread = "running" /\ endEvent = "set" /\ Pending = {}
  /\ \A i \in 2 .. (NumEvents - 1) : ~ Signalled(ghEvents[i])
  /\ thread' = "ended" /\ endEvent' = "unset"
  /\ UNCHANGED <<gui, missed, serverVars, netVars>>

\* Slot 0: the end event resets itself and the loop breaks.
EndLoop ==
  /\ thread = "running" /\ endEvent = "set"
  /\ thread' = "ended" /\ endEvent' = "unset"
  /\ UNCHANGED <<gui, missed, serverVars, netVars>>

\* Mutant: NumEvents is incremented before the handle is stored.
AcceptConnAfterIncrement(c) ==
  /\ AtListener /\ c \in Pending
  /\ NumEvents < EventSlots /\ sslInx < SslSlots
  /\ ghEvents' = [ghEvents EXCEPT ![NumEvents + 1] = c]
  /\ sockmng' = Append(sockmng, c)
  /\ NumEvents' = NumEvents + 1
  /\ sslInx' = sslInx + 1
  /\ sock' = [sock EXCEPT ![c] = "accepted"]
  /\ record' = [record EXCEPT ![c] = {"FD_WRITE"}]
  /\ UNCHANGED <<gui, missed, thread, endEvent, shift, listening, alive, sent, unread>>

\* Slot 1: the new connection is appended to both lists.  FD_WRITE is recorded
\* as soon as the socket is associated with its event, and whatever the client
\* did while it was queued is recorded with it.
AcceptConn(c) ==
  /\ AtListener /\ c \in Pending
  /\ NumEvents < EventSlots /\ sslInx < SslSlots
  /\ ghEvents' = [ghEvents EXCEPT ![NumEvents] = c]
  /\ sockmng' = Append(sockmng, c)
  /\ NumEvents' = NumEvents + 1
  /\ sslInx' = sslInx + 1
  /\ sock' = [sock EXCEPT ![c] = "accepted"]
  /\ record' = [record EXCEPT ![c] =
                  {"FD_WRITE"} \cup (IF unread[c] > 0 THEN {"FD_READ"} ELSE {})
                               \cup (IF alive[c] THEN {} ELSE {"FD_CLOSE"})]
  /\ UNCHANGED <<gui, missed, thread, endEvent, shift, listening, alive, sent, unread>>

\* A return out of the accept branch.  The certificate is loaded before
\* accept(); a failure after it leaves the socket open and in no list, except
\* that a failing BIO_set_tcp_ndelay closes it.
AcceptFails(c) ==
  /\ AtListener /\ c \in Pending
  /\ sslInx < SslSlots
  /\ thread' = "ended"
  /\ \E outcome \in {"queued", "leaked", "gone"} : sock' = [sock EXCEPT ![c] = outcome]
  /\ UNCHANGED <<gui, missed, endEvent, serverVars, listening, alive, sent, unread, record>>

\* ghEvents[NumEvents] or ssl[sslInx] is written past its array: what the
\* thread does from here on is undefined, and not modelled further.
AcceptOverrun ==
  /\ AtListener
  /\ NumEvents >= EventSlots \/ sslInx >= SslSlots
  /\ thread' = "corrupt"
  /\ UNCHANGED <<gui, missed, endEvent, serverVars, netVars>>

\* The lowest connection slot that is signalled, when nothing before it is.
Reported(i) ==
  /\ thread = "running" /\ endEvent # "set" /\ Pending = {}
  /\ i \in 2 .. (NumEvents - 1)
  /\ Signalled(ghEvents[i])
  /\ \A j \in 2 .. (i - 1) : ~ Signalled(ghEvents[j])

\* Mutant: NumEvents keeps its value when an entry is erased.
CloseWithoutDecrement(k) ==
  /\ sockmng' = RemoveAt(sockmng, k)
  /\ NumEvents' = NumEvents
  /\ shift' = IF k < Len(sockmng) /\ k < shift THEN k ELSE shift

\* Erasing an entry moves every later one down by one; ghEvents stays.
CloseConnectionACS(k) ==
  /\ sockmng' = RemoveAt(sockmng, k)
  /\ NumEvents' = NumEvents - 1
  /\ shift' = IF k < Len(sockmng) /\ k < shift THEN k ELSE shift

\* Mutants of ServeConn: a close decided by the slot's own connection, and a close
\* that fills the freed slot with the last handle without waiting on one handle less.
ServeConnClosesBySlot(i) ==
  /\ Reported(i)
  /\ LET c == sockmng[i - 1]
     IN /\ record' = [record EXCEPT ![c] = {}]
        /\ IF "FD_CLOSE" \in record[ghEvents[i]]
           THEN /\ CloseConnectionACS(i - 1)
                /\ sock' = [sock EXCEPT ![c] = "gone"]
           ELSE UNCHANGED <<sockmng, NumEvents, shift, sock>>
  /\ UNCHANGED <<gui, missed, thread, endEvent, ghEvents, sslInx, listening, alive, sent, unread>>

ServeConnBadCompaction(i) ==
  /\ Reported(i)
  /\ LET c == sockmng[i - 1]
     IN /\ record' = [record EXCEPT ![c] = {}]
        /\ IF "FD_CLOSE" \in record[c]
           THEN /\ ghEvents' = [ghEvents EXCEPT ![i] = ghEvents[NumEvents - 1]]
                /\ sockmng' = RemoveAt(sockmng, i - 1)
                /\ sock' = [sock EXCEPT ![c] = "gone"]
           ELSE UNCHANGED <<ghEvents, sockmng, sock>>
  /\ UNCHANGED <<gui, missed, thread, endEvent, NumEvents, sslInx, shift, listening, alive, sent, unread>>

\* Slot i >= 2: enumerate the events of sockmng[i - 2] (whichever slot its own
\* event is in), read one message on FD_READ, close on FD_CLOSE.
ServeConn(i) ==
  /\ Reported(i)
  /\ LET c      == sockmng[i - 1]
         left   == IF "FD_READ" \in record[c] THEN unread[c] - 1 ELSE unread[c]
         closes == "FD_CLOSE" \in record[c]
     IN /\ unread' = [unread EXCEPT ![c] = left]
        /\ record' = [record EXCEPT ![c] =
                        IF left > 0 /\ ~ closes THEN {"FD_READ"} ELSE {}]
        /\ IF closes
           THEN /\ CloseConnectionACS(i - 1)
                /\ sock' = [sock EXCEPT ![c] = "gone"]
           ELSE UNCHANGED <<sockmng, NumEvents, shift, sock>>
  /\ UNCHANGED <<gui, missed, thread, endEvent, ghEvents, sslInx, listening, alive, sent>>
-----------------------------------------------------------------------------
(* The clients.  Winsock records an event for a socket once it is associated *)
(* with an event handle, which is when the server has accepted it.           *)

Recorded(c, e) ==
  record' = IF sock[c] = "accepted"
            THEN [record EXCEPT ![c] = @ \cup {e}] ELSE record

ClientConnects(c) ==
  /\ listening /\ sock[c] = "none" /\ thread # "corrupt"
  /\ sock' = [sock EXCEPT ![c] = "queued"]
  /\ alive' = [alive EXCEPT ![c] = TRUE]
  /\ UNCHANGED <<gui, missed, thread, endEvent, serverVars, listening, sent, unread, record>>

ClientSends(c) ==
  /\ sock[c] \in {"queued", "accepted"} /\ alive[c] /\ thread # "corrupt"
  /\ sent[c] < MaxSends
  /\ sent' = [sent EXCEPT ![c] = @ + 1]
  /\ unread' = [unread EXCEPT ![c] = @ + 1]
  /\ Recorded(c, "FD_READ")
  /\ UNCHANGED <<gui, missed, thread, endEvent, serverVars, listening, sock, alive>>

ClientCloses(c) ==
  /\ sock[c] \in {"queued", "accepted"} /\ alive[c] /\ thread # "corrupt"
  /\ alive' = [alive EXCEPT ![c] = FALSE]
  /\ Recorded(c, "FD_CLOSE")
  /\ UNCHANGED <<gui, missed, thread, endEvent, serverVars, listening, sock, sent, unread>>
-----------------------------------------------------------------------------
Gui    == StartACServer \/ StopACServer \/ CleanUpACServer
Server == \/ CreateEvents \/ Listen \/ StartFails \/ EndLoop
          \/ \E c \in Conns : AcceptConn(c) \/ AcceptFails(c)
          \/ AcceptOverrun
          \/ \E i \in Slots : ServeConn(i)
Client == \E c \in Conns : ClientConnects(c) \/ ClientSends(c) \/ ClientCloses(c)

Next == Gui \/ Server \/ Client

Spec == Init /\ [][Next]_vars

\* The operating system keeps running the server's thread, and wakes the GUI
\* thread from its wait.  Users and clients owe nothing.
FairSpec == Spec /\ WF_vars(Server) /\ WF_vars(CleanUpACServer)
-----------------------------------------------------------------------------
(* Properties. *)

\* The event a waited slot reports always leads to an entry of the vector:
\* sockmng[dwEvent - 2] is never read past its end, and no slot below
\* NumEvents is unwritten.  (sockmng[dwEvent - 2], after any sequence of
\* accepts and closes.)
DispatchInRange ==
  thread = "running" =>
    /\ NumEvents = Len(sockmng) + 2
    /\ NumEvents <= EventSlots
    /\ \A i \in 2 .. (NumEvents - 1) : ghEvents[i] # NoEvent

\* No event handle is waited on in two slots, which WaitForMultipleObjects
\* refuses, although a close leaves handles behind above NumEvents and later
\* accepts overwrite them.
WaitedOnce ==
  thread = "running" =>
    \A i, j \in 2 .. (NumEvents - 1) : ghEvents[i] = ghEvents[j] => i = j

\* Below the first entry that was erased from under a later one, the two lists
\* agree: slot i waits on the event of sockmng[i - 2].
AgreeBelowShift ==
  thread = "running" =>
    \A k \in DOMAIN sockmng : k < shift => ghEvents[k + 1] = sockmng[k]

\* The vector lists exactly the sockets the server holds open, each once, as
\* long as the thread has not been cut short in the accept branch; a socket of
\* an earlier run of the server is never in it.
TableIsOpenSockets ==
  thread # "corrupt" =>
    /\ \A c \in Conns : sock[c] = "accepted" <=> c \in ToSet(sockmng)
    /\ \A k, l \in DOMAIN sockmng : sockmng[k] = sockmng[l] => k = l

\* What the comment in the accept branch says: a new connection is added to
\* the socket list and to the event list, so every open connection has its
\* event among those the loop waits on.
EveryOpenSocketWaitedOn ==
  thread = "running" =>
    \A k \in DOMAIN sockmng : \E i \in 2 .. (NumEvents - 1) : ghEvents[i] = sockmng[k]

\* While the server keeps running, a connection leaves the vector only when
\* its own client has closed it, however far the slots have drifted from the
\* entries they report.
ClosedOnlyByItsClient ==
  [][\A c \in Conns :
       sock[c] = "accepted" /\ sock'[c] = "gone" /\ thread # "ended" => ~ alive[c]]_vars

\* StopACServer returns once its end event has been signalled, whatever the
\* clients do meanwhile.  (A stop that comes before the thread has created the
\* event signals nothing, and may wait for ever.)
StopReturns ==
  gui = "joining" /\ endEvent = "set" ~> gui = "free" \/ thread = "corrupt"

\* A stop that found the end event waits for nobody but the thread and its own
\* wake-up: one of the two has a step at any moment, so the signal is never taken
\* away by anything but the end of the loop (AccessControlServer.cpp 94-103).
StopCanProceed ==
  gui = "joining" /\ ~ missed /\ thread # "corrupt" =>
    IF thread = "ended" THEN ENABLED <<CleanUpACServer>>_vars ELSE ENABLED <<Server>>_vars

\* A client below the first shifted entry is served: what it has sent is read,
\* or its connection is over, or an entry before it is closed, or the server
\* stops.  This needs clients that do not send for ever: the loop always takes
\* the lowest signalled slot.
ServedBelowShift ==
  \A c \in Conns :
    (\E k \in DOMAIN sockmng : k < shift /\ sockmng[k] = c /\ unread[c] > 0)
      ~> \/ unread[c] = 0
         \/ sock[c] # "accepted"
         \/ \E k \in DOMAIN sockmng : sockmng[k] = c /\ k >= shift
         \/ thread # "running"

\* To the GUI thread the server is one thread that is started, ends by itself or
\* is stopped: a stop that is signalled is over as it begins, and one that comes
\* before the event waits until the thread ends by itself.
Stopped == gui = "joining" /\ (endEvent = "set" \/ thread = "ended")

ThreadSeen ==
  IF thread = "none" \/ Stopped THEN "none"
  ELSE IF thread \in {"started", "created"} THEN "starting"
  ELSE IF thread = "ended" THEN "ended" ELSE "running"

Thread == INSTANCE ThreadLife WITH life <- ThreadSeen, waits <- gui = "joining" /\ ~ Stopped

LivesAsThread == Thread!Spec
=============================================================================
