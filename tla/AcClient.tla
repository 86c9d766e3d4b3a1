------------------------------ MODULE AcClient ------------------------------
(***************************************************************************)
(* The access control client of one program: the GUI thread, which         *)
(* connects, logs out and waits for the client's thread to end, and that   *)
(* thread, which handles what the server answers, posts and sends messages *)
(* to the windows of the GUI thread and opens message boxes of its own     *)
(* (AccessControlClient.cpp, LgVideoChatDemo.cpp, Login.cpp).              *)
(*                                                                         *)
(* A post goes through the GUI thread's queue, which is empty when the     *)
(* user's next input is taken.  A message that is sent keeps the client's  *)
(* thread until the GUI thread takes messages, which it does not while it  *)
(* waits.  Several login windows may be open; hwndLogin names the last     *)
(* one.  Calls are in CallControl.                                         *)
(***************************************************************************)
EXTENDS Naturals, Sequences

CONSTANTS
  MaxStarts,      \* bound: starts of the client's thread
  MaxReads,       \* bound: reads in a run
  MaxLogins       \* bound: login windows open at a time

ASSUME BoundsAssumption == MaxStarts \in Nat /\ MaxReads \in Nat /\ MaxLogins \in Nat

VARIABLES
  hThread,        \* hThreadACClient is not INVALID_HANDLE_VALUE
  joining,        \* the GUI thread waits for the client's thread
  devStatus,
  logins,         \* login windows that are open
  forms,          \* hwndLogin and hwndCreateRegister, when they name an open window
  posted,         \* the GUI thread's message queue
  winsock,        \* WSAStartup has not been undone
  pc,             \* the client's thread
  hEnd,           \* hEndACClientEvent: "none", "clear" or "set"
  Client,         \* "invalid", "open", or closed without being reset
  held,           \* the answer in the thread's InputBuffer
  missed,         \* history: a stop came before the end event existed
  late,           \* history: answers handled since the stop was signalled
  raced,          \* history: logged in while, or after, a disconnect was decided
  starts, reads

gui     == <<hThread, joining, winsock, starts>>
windows == <<logins, forms>>
thread  == <<pc, hEnd, Client, held>>
history == <<missed, late, raced>>
vars    == <<gui, devStatus, windows, posted, thread, history, reads>>

\* What the server answers, as far as the client acts on it: RegistrationResponse
\* with true and false, LoginResponse with VaildTwoFactor and without, and
\* TwoFactorResponse with Connected and without.  "other" changes nothing here.
Answers == {"registered", "refused", "loginFailed", "admitted", "notAdmitted",
            "ResetPasswordResponse", "RejectCall", "other"}

Init ==
  /\ hThread = FALSE /\ joining = FALSE /\ winsock = TRUE /\ starts = 0
  /\ devStatus = "Disconnected" /\ logins = 0 /\ forms = {} /\ posted = <<>>
  /\ pc = "none" /\ hEnd = "none" /\ Client = "invalid" /\ held = "other"
  /\ missed = FALSE /\ late = 0 /\ raced = FALSE /\ reads = 0

-----------------------------------------------------------------------------
(* The GUI thread: connecting.                                             *)

TakesInput == ~joining /\ posted = <<>>

\* IDM_LOGIN opens a login window, whatever became of the connection.
LoginCreateForm == logins' = logins + 1 /\ forms' = forms \cup {"login"}

\* Without a handle the client connects and starts its thread; a connection whose
\* SSL part fails is closed, and Winsock with it, but reported as made.  What is
\* in a new InputBuffer is whatever the heap holds there.
OnConnectACS(socket) ==
  /\ ~hThread /\ starts < MaxStarts
  /\ socket = "open" => winsock
  /\ winsock' = (socket = "open")
  /\ Client' = socket
  /\ hThread' = TRUE /\ pc' = "starting" /\ held' \in Answers /\ starts' = starts + 1

StaysDisconnected ==
  /\ Client' \in IF ~hThread /\ winsock THEN {Client, "invalid"} ELSE {Client}
  /\ UNCHANGED <<hThread, winsock, pc, held, starts>>

IDM_LOGIN ==
  /\ TakesInput /\ logins < MaxLogins
  /\ (\E socket \in {"open", "closed"} : OnConnectACS(socket)) \/ StaysDisconnected
  /\ LoginCreateForm
  /\ UNCHANGED <<joining, devStatus, posted, hEnd, history, reads>>

-----------------------------------------------------------------------------
(* The GUI thread: disconnecting.                                          *)

\* Mutant: the thread is joined without being told to end.
StopAccessControlClientUntold ==
  /\ hThread
  /\ joining' = TRUE
  /\ missed' = (pc = "starting") /\ late' = 0
  /\ UNCHANGED hEnd

StopAccessControlClient ==
  /\ hThread
  /\ joining' = TRUE
  /\ hEnd' = IF hEnd = "none" THEN "none" ELSE "set"
  /\ missed' = (pc = "starting") /\ late' = 0

OnDisconnectACS ==
  \/ StopAccessControlClient
  \/ ~hThread /\ UNCHANGED <<joining, hEnd, missed, late>>

\* Mutant: the status is left to the answers.
LogsOutKeepingStatus == OnDisconnectACS /\ UNCHANGED <<devStatus, raced>>

LogsOut == devStatus' = "Disconnected" /\ OnDisconnectACS /\ UNCHANGED raced

IDM_LOGOUT ==
  /\ TakesInput /\ LogsOut
  /\ UNCHANGED <<hThread, winsock, starts, windows, posted, pc, Client, held, reads>>

\* Stopping the server ends the client too, whatever devStatus is.
StopACServer ==
  /\ TakesInput /\ StopAccessControlClient
  /\ raced' = (raced \/ devStatus = "Connected")
  /\ UNCHANGED <<hThread, winsock, starts, devStatus, windows, posted, pc, Client, held, reads>>

Joined ==
  /\ joining /\ pc = "ended"
  /\ joining' = FALSE /\ hThread' = FALSE /\ pc' = "none"
  /\ UNCHANGED <<winsock, starts, devStatus, windows, posted, hEnd, Client, held, history, reads>>

-----------------------------------------------------------------------------
(* The GUI thread: windows.                                                *)

\* One of the login windows goes, and the registration window it owns.
LoginWindowGoes ==
  /\ logins > 0 /\ logins' = logins - 1
  /\ forms' \in IF logins = 1 THEN {{}} ELSE SUBSET forms

\* WM_CLOSE of a login window.
CloseLogin ==
  /\ TakesInput /\ LoginWindowGoes
  /\ posted' = IF devStatus = "Disconnected" THEN Append(posted, "WM_CLOSE_ACSCONNECT") ELSE posted
  /\ UNCHANGED <<gui, devStatus, thread, history, reads>>

\* The administrator's name and password make this program the server.
AdminLogsIn ==
  /\ TakesInput /\ LoginWindowGoes
  /\ devStatus' = "Server"
  /\ UNCHANGED <<gui, posted, thread, history, reads>>

RegisterCreateForm ==
  /\ TakesInput /\ logins > 0
  /\ forms' = forms \cup {"register"}
  /\ UNCHANGED <<gui, devStatus, logins, posted, thread, history, reads>>

\* By its own button, or by closing it.
RegisterFormGoes ==
  /\ TakesInput /\ "register" \in forms
  /\ forms' = forms \ {"register"}
  /\ UNCHANGED <<gui, devStatus, logins, posted, thread, history, reads>>

\* The next message of the queue.  WM_CLIENT_LOST is about calls; the window that
\* WM_DESTROY was posted to may be gone.
HandlesPosted ==
  /\ ~joining /\ posted # <<>>
  /\ posted' = Tail(posted)
  /\ \/ Head(posted) = "IDM_LOGOUT" /\ LogsOut /\ UNCHANGED windows
     \/ Head(posted) = "WM_CLOSE_ACSCONNECT" /\ OnDisconnectACS
        /\ UNCHANGED <<devStatus, raced, windows>>
     \/ Head(posted) = "WM_DESTROY" /\ LoginWindowGoes
        /\ UNCHANGED <<devStatus, joining, hEnd, history>>
     \/ Head(posted) \in {"WM_CLIENT_LOST", "WM_DESTROY"}
        /\ UNCHANGED <<devStatus, joining, hEnd, history, windows>>
  /\ UNCHANGED <<hThread, winsock, starts, pc, Client, held, reads>>

-----------------------------------------------------------------------------
(* The client's thread before its loop: what fails here returns without    *)
(* cleaning up.                                                            *)

StartFails ==
  /\ pc = "starting" /\ pc' = "ended"
  /\ UNCHANGED <<gui, devStatus, windows, posted, hEnd, Client, held, history, reads>>

Creates ==
  /\ pc = "starting" /\ pc' = "selecting" /\ hEnd' = "clear"
  /\ UNCHANGED <<gui, devStatus, windows, posted, Client, held, history, reads>>

SelectFails ==
  /\ pc = "selecting" /\ pc' = "ended" /\ Client' = "invalid"
  /\ UNCHANGED <<gui, devStatus, windows, posted, hEnd, held, history, reads>>

Selects ==
  /\ pc = "selecting" /\ Client = "open" /\ pc' = "looping"
  /\ UNCHANGED <<gui, devStatus, windows, posted, hEnd, Client, held, history, reads>>

-----------------------------------------------------------------------------
(* The client's thread in its loop.  The end event is its slot 0, which    *)
(* goes before the socket's.                                               *)

CleanUpAccessControlClient ==
  /\ pc' = "ended" /\ hEnd' = "none" /\ Client' = "invalid"

SeesEnd ==
  /\ pc = "looping" /\ hEnd = "set"
  /\ CleanUpAccessControlClient
  /\ UNCHANGED <<gui, devStatus, windows, posted, held, history, reads>>

SocketSignalled == pc = "looping" /\ hEnd # "set"

SeesClose ==
  /\ SocketSignalled
  /\ posted' = Append(posted, "WM_CLIENT_LOST")
  /\ CleanUpAccessControlClient
  /\ UNCHANGED <<gui, devStatus, windows, held, history, reads>>

\* Mutant: the socket's event goes first.
ReadsFirst ==
  /\ pc = "looping" /\ reads < MaxReads
  /\ held' \in Answers
  /\ pc' = "handling" /\ reads' = reads + 1
  /\ UNCHANGED <<gui, devStatus, windows, posted, hEnd, Client, history>>

\* A read that brings no whole record leaves the last answer in the buffer, and it
\* is handled as a new one.
Reads ==
  /\ SocketSignalled /\ reads < MaxReads
  /\ held' \in Answers
  /\ pc' = "handling" /\ reads' = reads + 1
  /\ UNCHANGED <<gui, devStatus, windows, posted, hEnd, Client, history>>

-----------------------------------------------------------------------------
(* RecvHandler.                                                            *)

Posts(m) == posted' = Append(posted, m)

\* Sending waits for the GUI thread only if the window exists.
FirstWait(waits) ==
  CASE "register" \in waits -> "sendsRegister"
    [] "register" \notin waits /\ "login" \in waits -> "sendsLogin"
    [] OTHER -> "box"

ClosePosted == \E i \in DOMAIN posted : posted[i] = "WM_CLOSE_ACSCONNECT"

LogsIn == devStatus' = "Connected" /\ raced' = (raced \/ joining \/ ClosePosted)

RecvHandler ==
  \/ held = "registered" /\ pc' = FirstWait(forms) /\ UNCHANGED <<devStatus, raced, posted>>
  \/ held = "refused" /\ pc' = "box" /\ UNCHANGED <<devStatus, raced, posted>>
  \/ held = "loginFailed" /\ Posts("WM_DESTROY") /\ pc' = "box" /\ UNCHANGED <<devStatus, raced>>
  \/ held = "admitted" /\ LogsIn /\ Posts("WM_DESTROY") /\ pc' = "box"
  \/ /\ held = "notAdmitted" /\ devStatus' = "Disconnected" /\ Posts("IDM_LOGOUT") /\ pc' = "box"
     /\ UNCHANGED raced
  \/ /\ held = "ResetPasswordResponse" /\ devStatus' = "ResetPassword" /\ pc' = "looping"
     /\ UNCHANGED <<raced, posted>>
  \/ held = "RejectCall" /\ LogsIn /\ pc' = "looping" /\ UNCHANGED posted
  \/ held = "other" /\ pc' = "looping" /\ UNCHANGED <<devStatus, raced, posted>>

Handles ==
  /\ pc = "handling"
  /\ RecvHandler
  /\ late' = IF joining THEN late + 1 ELSE late
  /\ UNCHANGED <<gui, windows, hEnd, Client, held, missed, reads>>

\* The window is gone, or its thread takes the message and destroys it.
SendReturns ==
  \/ /\ pc = "sendsRegister" /\ ("register" \in forms => ~joining)
     /\ forms' = forms \ {"register"} /\ pc' = FirstWait(forms') /\ UNCHANGED logins
  \/ /\ pc = "sendsLogin" /\ "login" \notin forms
     /\ pc' = "box" /\ UNCHANGED windows
  \/ /\ pc = "sendsLogin" /\ "login" \in forms /\ ~joining
     /\ LoginWindowGoes /\ pc' = "box"

Sends ==
  /\ SendReturns
  /\ UNCHANGED <<gui, devStatus, posted, hEnd, Client, held, history, reads>>

\* The user closes the box.
BoxCloses ==
  /\ pc = "box" /\ pc' = "looping"
  /\ UNCHANGED <<gui, devStatus, windows, posted, hEnd, Client, held, history, reads>>

-----------------------------------------------------------------------------
\* What the thread does without waiting for the GUI thread, the user or the server.
ThreadStep == StartFails \/ Creates \/ SelectFails \/ Selects \/ SeesEnd \/ Handles

Next ==
  \/ IDM_LOGIN \/ IDM_LOGOUT \/ StopACServer \/ Joined
  \/ CloseLogin \/ AdminLogsIn \/ RegisterCreateForm \/ RegisterFormGoes \/ HandlesPosted
  \/ ThreadStep \/ SeesClose \/ Reads \/ Sends \/ BoxCloses

Spec == Init /\ [][Next]_vars /\ WF_vars(ThreadStep) /\ WF_vars(Joined)

-----------------------------------------------------------------------------
TypeOK ==
  /\ hThread \in BOOLEAN /\ joining \in BOOLEAN /\ winsock \in BOOLEAN /\ starts \in 0 .. MaxStarts
  /\ devStatus \in {"Disconnected", "Connected", "Server", "ResetPassword"}
  /\ logins \in 0 .. MaxLogins /\ forms \subseteq {"login", "register"}
  /\ posted \in Seq({"IDM_LOGOUT", "WM_CLOSE_ACSCONNECT", "WM_DESTROY", "WM_CLIENT_LOST"})
  /\ pc \in {"none", "starting", "selecting", "looping", "handling", "sendsRegister",
             "sendsLogin", "box", "ended"}
  /\ hEnd \in {"none", "clear", "set"} /\ Client \in {"invalid", "open", "closed"}
  /\ held \in Answers
  /\ missed \in BOOLEAN /\ late \in Nat /\ raced \in BOOLEAN /\ reads \in 0 .. MaxReads

(* A program without an access control client is not logged in, unless the *)
(* answer that logged it in was being handled when the disconnect had been *)
(* decided, or the server of this program was stopped                      *)
(* (LgVideoChatDemo.cpp 392, Login.cpp 239, AccessControlClient.cpp 494).  *)
StatusNeedsClient == ~hThread /\ devStatus = "Connected" => raced

(* Of the answers that are waiting when the GUI thread tells the client to *)
(* end, at most the one already read is handled.                           *)
AtMostOneLateAnswer == joining /\ ~missed => late <= 1

(* The GUI thread comes back from waiting for the client's thread, unless  *)
(* that thread missed the event, sends a message to a window of the GUI    *)
(* thread, which is a deadlock, or has a message box open.                 *)
WaitsForThread == joining /\ ~missed /\ pc \notin {"sendsRegister", "sendsLogin", "box"}

JoinEnds == WaitsForThread ~> ~WaitsForThread

(* While it waits, apart from these, there is always a next step: of the   *)
(* thread or, once that has ended, of the wait.                            *)
JoinCanProceed ==
  WaitsForThread =>
    IF pc = "ended" THEN ENABLED <<Joined>>_vars ELSE ENABLED <<ThreadStep>>_vars

(* To the GUI thread the client is one thread that is started, ends by     *)
(* itself or is stopped; a stop that came before the thread's event waits  *)
(* until the thread ends by itself.                                        *)
ThreadSeen ==
  IF pc = "none" \/ (joining /\ (~missed \/ pc = "ended")) THEN "none"
  ELSE IF pc \in {"starting", "selecting"} THEN "starting"
  ELSE IF pc = "ended" THEN "ended" ELSE "running"

Thread == INSTANCE ThreadLife WITH life <- ThreadSeen, waits <- joining /\ missed /\ pc # "ended"

LivesAsThread == Thread!Spec
=============================================================================
