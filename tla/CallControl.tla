---------------------------- MODULE CallControl ----------------------------
(***************************************************************************)
(* How users who have logged in call each other: the contact list and the  *)
(* call notification windows of the GUI thread (ContactList.cpp,           *)
(* NotifyCall.cpp, LgVideoChatDemo.cpp), the relay in the access control   *)
(* server (AccessControlServer.cpp) and the access control client's thread *)
(* that handles what the server sends (AccessControlClient.cpp).           *)
(*                                                                         *)
(* The two threads of an instance share devStatus, and the client's thread *)
(* posts the GUI pointers into its one input buffer, which the next        *)
(* message overwrites.  Several notification windows may be open at once,  *)
(* each showing the caller's name it was opened with; their buttons answer *)
(* the one global callMsg, which is that of the window opened last.        *)
(*                                                                         *)
(* A read that finds no whole message leaves the buffer as it is, and the  *)
(* message in it is handled once more.                                     *)
(*                                                                         *)
(* The toolbar does not restrict a user: its call and deny buttons enable  *)
(* each other, so the contact list can be opened, and the call hung up, at *)
(* any time.  A user's address is written as the user.                     *)
(***************************************************************************)
EXTENDS Integers, Sequences, FiniteSetsExt, SequencesExt

CONSTANTS
  Users,     \* the registered users: the contact list
  Online,    \* those logged in, each over one connection it owns
  NoUser,    \* no name, no address, no video client
  MaxCalls   \* bound: presses of the Call button and requests handled once more

ASSUME OnlineAssumption == Online \subseteq Users
ASSUME NoUserAssumption == NoUser \notin Users
ASSUME MaxCallsAssumption == MaxCalls \in Nat

VARIABLES
  devStatus,
  toServer, toUser,   \* each user's TCP connection, in both directions
  heldType, heldFrom, heldAddr, \* MessageType, FromDevID and IPAddress of the client's InputBuffer
  posted,             \* the GUI thread's message queue
  notices,            \* open notification windows: the names they show
  newestOpen,         \* history: the window that was opened last is open
  callMsg,
  server,             \* the video server's thread: the life of ThreadLife
  client,             \* the peer a video client was started for, until joined
  clientUp,           \* whether its thread runs
  stuck,              \* the GUI thread waits for a thread that was not told to end
  placed, asked,      \* history: calls placed, by each caller and to each callee
  called,             \* history: <<u, v>> when u pressed Call for v
  again,              \* history: requests to each user that were handled once more
  calls,              \* both: bounded by MaxCalls
  closed,             \* history: notification windows answered or closed
  accepted,           \* history: <<v, u>> when v pressed Accept in a window that showed u
  overtaken,          \* history: <<v, u>> when v did in a window that was not the newest,
                      \* and u was answered
  dials               \* history: video client openings posted

netVars   == <<toServer, toUser>>
heldVars  == <<heldType, heldFrom, heldAddr>>
videoVars == <<server, client, clientUp, stuck>>
noteVars  == <<notices, newestOpen, callMsg, closed>>
callVars  == <<placed, asked, called>>
answers   == <<accepted, overtaken>>
history   == <<callVars, answers, dials, again, calls>>
vars == <<devStatus, netVars, heldVars, posted, noteVars, videoVars, history>>

Message(t, u, v) == [type |-> t, from |-> u, to |-> v]
Types    == {"RequestCall", "AcceptCall", "RejectCall"}
Messages == [type : Types, from : Users, to : Users]
Posts    == {"WM_OPEN_CALLREQUEST", "WM_OPEN_VIDEOSERVER", "WM_OPEN_VIDEOCLIENT", "WM_CLIENT_LOST"}

TypeOK ==
  /\ devStatus \in [Online -> {"Connected", "Caller", "Callee", "Calling"}]
  /\ toServer \in [Online -> Seq(Messages)] /\ toUser \in [Online -> Seq(Messages)]
  /\ heldType \in [Online -> Types \cup {"none"}]
  /\ heldFrom \in [Online -> Users \cup {NoUser}] /\ heldAddr \in [Online -> Online \cup {NoUser}]
  /\ posted \in [Online -> Seq(Posts)]
  /\ notices \in [Online -> Seq(Users)] /\ newestOpen \in [Online -> BOOLEAN]
  /\ callMsg \in [Online -> Users \cup {NoUser}]
  /\ server \in [Online -> {"none", "starting", "running", "ended"}]
  /\ client \in [Online -> Online \cup {NoUser}] /\ clientUp \in [Online -> BOOLEAN]
  /\ stuck \in [Online -> BOOLEAN]
  /\ placed \in [Online -> Nat] /\ asked \in [Users -> Nat] /\ calls \in 0 .. MaxCalls
  /\ called \subseteq Online \X Users /\ again \in [Online -> Nat]
  /\ closed \in [Online -> Nat]
  /\ accepted \subseteq Online \X Users /\ overtaken \subseteq Online \X Users
  /\ dials \in [Online -> Nat]

Init ==
  /\ devStatus = [u \in Online |-> "Connected"]
  /\ toServer = [u \in Online |-> <<>>] /\ toUser = [u \in Online |-> <<>>]
  /\ heldType = [u \in Online |-> "none"]
  /\ heldFrom = [u \in Online |-> NoUser] /\ heldAddr = [u \in Online |-> NoUser]
  /\ posted = [u \in Online |-> <<>>]
  /\ notices = [u \in Online |-> <<>>] /\ newestOpen = [u \in Online |-> FALSE]
  /\ callMsg = [u \in Online |-> NoUser]
  /\ server = [u \in Online |-> "none"]
  /\ client = [u \in Online |-> NoUser] /\ clientUp = [u \in Online |-> FALSE]
  /\ stuck = [u \in Online |-> FALSE]
  /\ placed = [u \in Online |-> 0] /\ asked = [v \in Users |-> 0] /\ calls = 0
  /\ called = {} /\ again = [u \in Online |-> 0]
  /\ closed = [u \in Online |-> 0]
  /\ accepted = {} /\ overtaken = {} /\ dials = [u \in Online |-> 0]
-----------------------------------------------------------------------------
(* The GUI thread: what the user presses. *)

Post(u, m) == posted' = [posted EXCEPT ![u] = Append(@, m)]
sendMsgtoACS(u, ms) == toServer' = [toServer EXCEPT ![u] = @ \o ms]

\* BUTTON_CALL, whatever the status is.
Call(u, v) ==
  /\ ~ stuck[u] /\ v # u /\ calls < MaxCalls
  /\ devStatus' = [devStatus EXCEPT ![u] = "Caller"]
  /\ sendMsgtoACS(u, <<Message("RequestCall", u, v)>>)
  /\ placed' = [placed EXCEPT ![u] = @ + 1] /\ asked' = [asked EXCEPT ![v] = @ + 1]
  /\ called' = called \cup {<<u, v>>} /\ calls' = calls + 1
  /\ UNCHANGED <<toUser, heldVars, posted, noteVars, videoVars, answers, dials, again>>

CloseNotice(u, k) ==
  /\ ~ stuck[u] /\ k \in DOMAIN notices[u]
  /\ notices' = [notices EXCEPT ![u] = RemoveAt(@, k)]
  /\ newestOpen' = [newestOpen EXCEPT ![u] = @ /\ k < Len(notices[u])]
  /\ closed' = [closed EXCEPT ![u] = @ + 1]
  /\ UNCHANGED callMsg

\* A window has been opened after this one.
Overtaken(u, k) == k < Len(notices[u]) \/ ~ newestOpen[u]

\* BUTTON_ACCEPT: the case has no break, and goes on into BUTTON_DENY.
Accept(u, k) ==
  /\ CloseNotice(u, k)
  /\ devStatus' = [devStatus EXCEPT ![u] = "Callee"]
  /\ Post(u, "WM_OPEN_VIDEOSERVER")
  /\ sendMsgtoACS(u, <<Message("AcceptCall", u, callMsg[u]), Message("RejectCall", u, callMsg[u])>>)
  /\ accepted' = accepted \cup {<<u, notices[u][k]>>}
  /\ overtaken' = IF Overtaken(u, k) THEN overtaken \cup {<<u, callMsg[u]>>} ELSE overtaken
  /\ UNCHANGED <<toUser, heldVars, videoVars, callVars, dials, again, calls>>

\* Mutant: the wrong message type.
DenySendsAccept(u, k) ==
  /\ CloseNotice(u, k)
  /\ sendMsgtoACS(u, <<Message("AcceptCall", u, callMsg[u])>>)
  /\ UNCHANGED <<devStatus, toUser, heldVars, posted, videoVars, history>>

\* BUTTON_DENY.
Deny(u, k) ==
  /\ CloseNotice(u, k)
  /\ sendMsgtoACS(u, <<Message("RejectCall", u, callMsg[u])>>)
  /\ UNCHANGED <<devStatus, toUser, heldVars, posted, videoVars, history>>

\* WM_CLOSE: nobody is told.
Ignore(u, k) ==
  /\ CloseNotice(u, k)
  /\ UNCHANGED <<devStatus, netVars, heldVars, posted, videoVars, history>>

\* StopVideoServer.  A thread that has not created its end event yet is not
\* told to end, and is waited for until it ends by itself.
StopVideoServer(u) ==
  /\ \/ server' = [server EXCEPT ![u] = "none"] /\ UNCHANGED stuck
     \/ server[u] = "starting" /\ stuck' = [stuck EXCEPT ![u] = TRUE] /\ UNCHANGED server
  /\ UNCHANGED <<client, clientUp>>

\* OnDisconnect.
StopVideoClient(u) ==
  /\ client' = [client EXCEPT ![u] = NoUser] /\ clientUp' = [clientUp EXCEPT ![u] = FALSE]
  /\ UNCHANGED <<server, stuck>>

\* IDM_CALL_DENY: which end of the call this is, it takes from devStatus.
HangUp(u) ==
  \/ devStatus[u] = "Caller" /\ StopVideoClient(u)
  \/ devStatus[u] = "Callee" /\ StopVideoServer(u)
  \/ devStatus[u] \notin {"Caller", "Callee"} /\ UNCHANGED videoVars

PressDeny(u) ==
  /\ ~ stuck[u]
  /\ HangUp(u)
  /\ UNCHANGED <<devStatus, netVars, heldVars, posted, noteVars, history>>
-----------------------------------------------------------------------------
(* The GUI thread: what is posted to it. *)

Handles(u, m) ==
  /\ ~ stuck[u] /\ posted[u] # <<>> /\ Head(posted[u]) = m
  /\ posted' = [posted EXCEPT ![u] = Tail(@)]
  /\ UNCHANGED <<devStatus, netVars, heldVars, history>>

\* Mutant: only one notification at a time.
CreateCallNotificationOnce(u) ==
  /\ Handles(u, "WM_OPEN_CALLREQUEST")
  /\ notices' = [notices EXCEPT ![u] = IF @ = <<>> THEN <<heldFrom[u]>> ELSE @]
  /\ newestOpen' = [newestOpen EXCEPT ![u] = TRUE]
  /\ callMsg' = [callMsg EXCEPT ![u] = heldFrom[u]]
  /\ UNCHANGED <<closed, videoVars>>

\* The name is copied from the client's input buffer as it is now.
CreateCallNotification(u) ==
  /\ Handles(u, "WM_OPEN_CALLREQUEST")
  /\ notices' = [notices EXCEPT ![u] = Append(@, heldFrom[u])]
  /\ newestOpen' = [newestOpen EXCEPT ![u] = TRUE]
  /\ callMsg' = [callMsg EXCEPT ![u] = heldFrom[u]]
  /\ UNCHANGED <<closed, videoVars>>

\* StartVideoServer does nothing while it has a thread handle.
OnStartServer(u) ==
  /\ Handles(u, "WM_OPEN_VIDEOSERVER")
  /\ server' = [server EXCEPT ![u] = IF @ = "none" THEN "starting" ELSE @]
  /\ UNCHANGED <<noteVars, client, clientUp, stuck>>

\* OnConnect, with the address that is in the buffer now.  The camera or the
\* connection may fail, and does when the peer does not listen.
OnConnect(u) ==
  /\ Handles(u, "WM_OPEN_VIDEOCLIENT")
  /\ \/ /\ client[u] = NoUser /\ server[heldAddr[u]] = "running"
        /\ client' = [client EXCEPT ![u] = heldAddr[u]]
        /\ clientUp' = [clientUp EXCEPT ![u] = TRUE]
     \/ UNCHANGED <<client, clientUp>>
  /\ UNCHANGED <<noteVars, server, stuck>>

OnClientLost(u) ==
  /\ Handles(u, "WM_CLIENT_LOST")
  /\ HangUp(u)
  /\ UNCHANGED noteVars
-----------------------------------------------------------------------------
(* The video threads, as far as a call depends on them. *)

VideoServerListens(u) ==
  /\ server[u] = "starting"
  /\ server' = [server EXCEPT ![u] = "running"]
  /\ UNCHANGED <<devStatus, netVars, heldVars, posted, noteVars, client, clientUp, stuck, history>>

\* The thread ends by itself: by a return before its loop, or from the loop by an
\* image of no bytes, a camera that does not open or a timer that fails.  Its handle
\* stays as it is, or the wait of StopVideoServer is over.
VideoServerEnds(u) ==
  /\ server[u] \in {"starting", "running"}
  /\ server' = [server EXCEPT ![u] = IF stuck[u] THEN "none" ELSE "ended"]
  /\ stuck' = [stuck EXCEPT ![u] = FALSE]
  /\ UNCHANGED <<devStatus, netVars, heldVars, posted, noteVars, client, clientUp, history>>

\* The connection is closed by the peer, refused by a server that has a client
\* already, or lost.
VideoClientEnds(u) ==
  /\ clientUp[u]
  /\ clientUp' = [clientUp EXCEPT ![u] = FALSE]
  /\ Post(u, "WM_CLIENT_LOST")
  /\ UNCHANGED <<devStatus, netVars, heldVars, noteVars, server, client, stuck, history>>
-----------------------------------------------------------------------------
(* The access control server: RecvHandler on the message of user u.          *)

Relayed(u, t) == toServer[u] # <<>> /\ Head(toServer[u]).type = t
Relays(u, to) ==
  /\ toServer' = [toServer EXCEPT ![u] = Tail(@)]
  /\ toUser' = [w \in Online |-> IF w = to THEN Append(toUser[w], Head(toServer[u])) ELSE toUser[w]]
  /\ UNCHANGED <<devStatus, heldVars, posted, noteVars, videoVars, history>>

\* Nobody owns a connection under the name of a user who is not logged in.
RelayRequest(u) == Relayed(u, "RequestCall") /\ Relays(u, Head(toServer[u]).to)

\* Mutant: the connection is looked up by FromDevID.
RelayAcceptToSender(u) == Relayed(u, "AcceptCall") /\ Relays(u, u)

RelayAccept(u) == Relayed(u, "AcceptCall") /\ Relays(u, Head(toServer[u]).to)

\* Mutant: the answer goes to the user whose call was denied.
RelayRejectToCaller(u) == Relayed(u, "RejectCall") /\ Relays(u, Head(toServer[u]).to)

\* A denial is written back over the connection it came from.
RelayReject(u) == Relayed(u, "RejectCall") /\ Relays(u, u)
-----------------------------------------------------------------------------
(* The access control client's thread: RecvHandler, over the one buffer.     *)

Receives(u, t) ==
  /\ toUser[u] # <<>> /\ Head(toUser[u]).type = t
  /\ toUser' = [toUser EXCEPT ![u] = Tail(@)]
  /\ heldType' = [heldType EXCEPT ![u] = t]
  /\ heldFrom' = [heldFrom EXCEPT ![u] = Head(toUser[u]).from]
  /\ UNCHANGED <<toServer, noteVars, videoVars, callVars, answers, again, calls>>

\* Mutant: a user who is not idle is not notified.
ReceiveRequestWhenIdle(u) ==
  /\ Receives(u, "RequestCall")
  /\ posted' = IF devStatus[u] = "Connected"
               THEN [posted EXCEPT ![u] = Append(@, "WM_OPEN_CALLREQUEST")] ELSE posted
  /\ UNCHANGED <<devStatus, heldAddr, dials>>

ReceiveRequest(u) ==
  /\ Receives(u, "RequestCall")
  /\ Post(u, "WM_OPEN_CALLREQUEST")
  /\ UNCHANGED <<devStatus, heldAddr, dials>>

\* Mutant: the status is not looked at.
ReceiveAcceptAnyTime(u) ==
  /\ Receives(u, "AcceptCall")
  /\ heldAddr' = [heldAddr EXCEPT ![u] = Head(toUser[u]).from]
  /\ devStatus' = [devStatus EXCEPT ![u] = "Calling"]
  /\ Post(u, "WM_OPEN_VIDEOCLIENT")
  /\ dials' = [dials EXCEPT ![u] = @ + 1]

\* Only a caller opens the video client, and is one no more.
Dials(u) == IF devStatus[u] = "Caller"
            THEN /\ devStatus' = [devStatus EXCEPT ![u] = "Calling"]
                 /\ Post(u, "WM_OPEN_VIDEOCLIENT")
                 /\ dials' = [dials EXCEPT ![u] = @ + 1]
            ELSE UNCHANGED <<devStatus, posted, dials>>

\* Only this message is long enough to reach IPAddress in the buffer.
ReceiveAccept(u) ==
  /\ Receives(u, "AcceptCall")
  /\ heldAddr' = [heldAddr EXCEPT ![u] = Head(toUser[u]).from]
  /\ Dials(u)

ReceiveReject(u) ==
  /\ Receives(u, "RejectCall")
  /\ devStatus' = [devStatus EXCEPT ![u] = "Connected"]
  /\ UNCHANGED <<heldAddr, posted, dials>>

\* RecvHandler without a message: SSL_read_ex failed, or found only a part of one,
\* as after FD_READ is signalled once more for the record just read.
HandlesAgain(u) ==
  /\ \/ /\ heldType[u] = "RequestCall" /\ calls < MaxCalls
        /\ Post(u, "WM_OPEN_CALLREQUEST")
        /\ again' = [again EXCEPT ![u] = @ + 1] /\ calls' = calls + 1
        /\ UNCHANGED <<devStatus, dials>>
     \/ heldType[u] = "AcceptCall" /\ Dials(u) /\ UNCHANGED <<again, calls>>
     \/ /\ heldType[u] = "RejectCall"
        /\ devStatus' = [devStatus EXCEPT ![u] = "Connected"]
        /\ UNCHANGED <<posted, dials, again, calls>>
  /\ UNCHANGED <<netVars, heldVars, noteVars, videoVars, callVars, answers>>
-----------------------------------------------------------------------------
User(u)   == \/ \E v \in Users : Call(u, v)
             \/ \E k \in DOMAIN notices[u] : Accept(u, k) \/ Deny(u, k) \/ Ignore(u, k)
             \/ PressDeny(u)
Gui(u)    == CreateCallNotification(u) \/ OnStartServer(u) \/ OnConnect(u) \/ OnClientLost(u)
Video(u)  == VideoServerListens(u) \/ VideoServerEnds(u) \/ VideoClientEnds(u)
Relay(u)  == RelayRequest(u) \/ RelayAccept(u) \/ RelayReject(u)
Receive(u) == ReceiveRequest(u) \/ ReceiveAccept(u) \/ ReceiveReject(u)

Next == \E u \in Online : User(u) \/ Gui(u) \/ Video(u) \/ Relay(u) \/ Receive(u) \/ HandlesAgain(u)

Spec == Init /\ [][Next]_vars

\* The threads and the network keep going; a user need not do anything.
FairSpec == Spec /\ \A u \in Online : WF_vars(Gui(u)) /\ WF_vars(Relay(u)) /\ WF_vars(Receive(u))
-----------------------------------------------------------------------------
(* Properties. *)

Acquainted(u, v) == u = v \/ <<u, v>> \in called \/ <<v, u>> \in called

\* Video needs consent.  A client is started only for a user who pressed Call, and
\* towards one who pressed Accept in a window that showed this user's name.  The one
\* exception is a window older than the newest: accepting there answers the newest
\* window's user.  The two have called each other in one direction at least: since
\* the buffer is overwritten before its name is read, a window may show, instead of
\* its caller, another user who has been called or has called, or the user itself.
\* A video server exists only where Accept was pressed.
VideoNeedsConsent ==
  \A u \in Online :
    /\ client[u] # NoUser => /\ <<client[u], u>> \in accepted \cup overtaken
                             /\ Acquainted(u, client[u])
                             /\ placed[u] > 0
    /\ server[u] # "none" => \E v \in Users : <<u, v>> \in accepted

\* A late, repeated or second acceptance opens nothing: the video client is
\* opened at most once for each press of Call.
OneDialPerCall == \A u \in Online : dials[u] <= placed[u]

\* The places in the queues of U that hold a member of S.
Places(queue, U, S) == UNION {{u} \X {i \in DOMAIN queue[u] : queue[u][i] \in S} : u \in U}
Count(queue, U, S)  == Cardinality(Places(queue, U, S))

Requests      == {m \in Messages : m.type = "RequestCall"}
RequestsTo(v) == {m \in Requests : m.to = v}

\* Every call to a user who is logged in is at exactly one place: on its way to
\* the server or to the user, posted, shown, or answered; none is lost, or shown
\* more often than it was handled once more, whatever the status of the two users is.
CallsAreConserved ==
  \A v \in Online :
    asked[v] + again[v] = closed[v] + Len(notices[v])
               + Count(posted, {v}, {"WM_OPEN_CALLREQUEST"})
               + Count(toUser, {v}, Requests)
               + Count(toServer, Online, RequestsTo(v))

\* A call to a user who is logged in gets its window, unless that user's GUI
\* thread waits for ever.
CallIsShown ==
  \A u, v \in Online :
    (\E i \in DOMAIN toServer[u] : toServer[u][i] = Message("RequestCall", u, v))
      ~> notices[v] # <<>> \/ stuck[v]

\* An acceptance reaches the user it answers: that user does not stay a caller.
AcceptanceArrives ==
  \A u, v \in Online :
    (\E i \in DOMAIN toServer[v] : toServer[v][i] = Message("AcceptCall", v, u))
      ~> devStatus[u] # "Caller"

\* A user who has accepted does not stay a callee: the denial that follows each
\* acceptance comes back.  From then on the deny button stops nothing.
CalleeIsTransient ==
  \A u \in Online : devStatus[u] = "Callee" ~> devStatus[u] # "Callee"

\* Every user's video server is started, ends by itself and is stopped as a
\* thread that is joined is, whatever the calls are: what VideoServer implements.
Thread(u) == INSTANCE ThreadLife WITH life <- server[u], waits <- stuck[u]

ServersLiveAsThreads ==
  /\ \A u \in Online : Thread(u)!Init
  /\ [][\A u \in Online : Thread(u)!Next \/ UNCHANGED <<server[u], stuck[u]>>]_vars
=============================================================================
