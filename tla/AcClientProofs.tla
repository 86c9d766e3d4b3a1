--------------------------- MODULE AcClientProofs ---------------------------
(***************************************************************************)
(* For any number of starts, reads and login windows: a program without an *)
(* access control client is logged in only by one of the named races, and  *)
(* a stop that is signalled lets at most one more answer through, and      *)
(* under fairness the join ends but for the situations it names.  What the *)
(* rest of the program sees of the thread is ThreadLife.                   *)
(***************************************************************************)
EXTENDS AcClient, TLAPS

Running == {"selecting", "looping", "handling", "sendsRegister", "sendsLogin", "box"}

\* There is a thread exactly as long as there is a handle.
HandleOfThread == (hThread <=> pc # "none") /\ (joining => hThread)

\* The end event exists while the thread runs, and a stop it can see has set it.
EndEvent ==
  /\ pc \in Running => hEnd # "none"
  /\ joining /\ pc = "starting" => missed
  /\ joining /\ ~missed /\ pc \in Running => hEnd = "set"

\* The answer that was read before the stop is handled, and no other is read.
LateOnce == joining /\ ~missed => (late = 0 \/ (late = 1 /\ pc # "handling"))

\* Whoever is logged in without a client, or with one that is about to be ended,
\* got there by a race.
Raced == devStatus = "Connected" /\ (~hThread \/ joining \/ ClosePosted) => raced

IInv == TypeOK /\ HandleOfThread /\ EndEvent /\ LateOnce /\ Raced

Post == {"IDM_LOGOUT", "WM_CLOSE_ACSCONNECT", "WM_DESTROY", "WM_CLIENT_LOST"}

-----------------------------------------------------------------------------
(* The queue.                                                              *)

LEMMA TailPosted ==
  ASSUME posted \in Seq(Post), posted # <<>>, posted' = Tail(posted)
  PROVE  /\ posted' \in Seq(Post)
         /\ ClosePosted' => ClosePosted
         /\ Head(posted) = "WM_CLOSE_ACSCONNECT" => ClosePosted
<1>1. posted' \in Seq(Post) OBVIOUS
<1>2. ClosePosted' => ClosePosted BY DEF ClosePosted
<1>3. Head(posted) = "WM_CLOSE_ACSCONNECT" => ClosePosted BY DEF ClosePosted
<1> QED BY <1>1, <1>2, <1>3

LEMMA AppendPosted ==
  ASSUME posted \in Seq(Post), NEW m \in Post, posted' = Append(posted, m)
  PROVE  /\ posted' \in Seq(Post)
         /\ ClosePosted' => ClosePosted \/ m = "WM_CLOSE_ACSCONNECT"
BY DEF ClosePosted

LEMMA SamePosted == UNCHANGED posted => (ClosePosted' <=> ClosePosted)
BY DEF ClosePosted

-----------------------------------------------------------------------------
LEMMA InitInvariant == Init => IInv
<1> SUFFICES ASSUME Init PROVE IInv OBVIOUS
<1>1. TypeOK
  <2>1. starts \in 0 .. MaxStarts /\ reads \in 0 .. MaxReads /\ logins \in 0 .. MaxLogins /\ late \in Nat
    BY BoundsAssumption DEF Init
  <2>2. held \in Answers BY DEF Init, Answers
  <2>3. posted \in Seq(Post) BY DEF Init
  <2>4. hThread \in BOOLEAN /\ joining \in BOOLEAN /\ winsock \in BOOLEAN /\ missed \in BOOLEAN
        /\ raced \in BOOLEAN
    BY DEF Init
  <2>5. /\ devStatus \in {"Disconnected", "Connected", "Server", "ResetPassword"}
        /\ forms \subseteq {"login", "register"} /\ pc \in Running \cup {"none"}
        /\ hEnd \in {"none", "clear", "set"} /\ Client \in {"invalid", "open", "closed"}
    BY DEF Init
  <2> QED BY <2>1, <2>2, <2>3, <2>4, <2>5 DEF TypeOK, Post, Running
<1>2. HandleOfThread /\ EndEvent /\ LateOnce /\ Raced
  BY DEF Init, HandleOfThread, EndEvent, LateOnce, Raced, Running
<1> QED BY <1>1, <1>2 DEF IInv

LEMMA LoginStep == IInv /\ IDM_LOGIN => IInv'
<1> SUFFICES ASSUME IInv, IDM_LOGIN PROVE IInv' OBVIOUS
<1> USE DEF IInv, IDM_LOGIN, TakesInput
<1>1. \/ \E socket \in {"open", "closed"} : OnConnectACS(socket)
      \/ StaysDisconnected
  OBVIOUS
<1>2. logins' \in 0 .. MaxLogins /\ forms' \subseteq {"login", "register"}
  BY BoundsAssumption DEF LoginCreateForm, TypeOK
<1>3. CASE StaysDisconnected
  <2>1. TypeOK' BY <1>2, <1>3 DEF StaysDisconnected, TypeOK, history
  <2>2. Raced' BY <1>3, SamePosted DEF StaysDisconnected, Raced, history
  <2> QED BY <2>1, <2>2, <1>3 DEF StaysDisconnected, HandleOfThread, EndEvent, LateOnce, history
<1>4. ASSUME NEW socket \in {"open", "closed"}, OnConnectACS(socket) PROVE IInv'
  <2>1. winsock' \in BOOLEAN /\ starts' \in 0 .. MaxStarts
    BY <1>4, BoundsAssumption DEF OnConnectACS, TypeOK
  <2>2. TypeOK' BY <1>2, <1>4, <2>1 DEF OnConnectACS, TypeOK, history
  <2>3. Raced' BY <1>4, SamePosted DEF OnConnectACS, Raced, history
  <2>4. HandleOfThread' BY <1>4 DEF OnConnectACS, HandleOfThread
  <2>5. EndEvent' /\ LateOnce'
    BY <1>4 DEF OnConnectACS, EndEvent, LateOnce, Running, HandleOfThread, history
  <2> QED BY <2>2, <2>3, <2>4, <2>5
<1> QED BY <1>1, <1>3, <1>4

\* What a stop does to the thread and to the history, whoever asks for it.
LEMMA StopEffect ==
  ASSUME IInv, ~joining, StopAccessControlClient, UNCHANGED <<hThread, pc>>
  PROVE  /\ hEnd' \in {"none", "clear", "set"} /\ joining' \in BOOLEAN /\ missed' \in BOOLEAN
         /\ late' \in Nat /\ HandleOfThread' /\ EndEvent' /\ LateOnce'
<1> USE DEF StopAccessControlClient
<1>1. /\ hEnd' \in {"none", "clear", "set"} /\ joining' \in BOOLEAN /\ missed' \in BOOLEAN
      /\ late' \in Nat
  <2>1. missed' \in BOOLEAN BY ZenonT(20)
  <2> QED BY <2>1 DEF IInv, TypeOK
<1>2. HandleOfThread' BY DEF IInv, HandleOfThread
<1>3. EndEvent'
  <2>1. pc \in Running => hEnd' = "set" BY DEF IInv, EndEvent, Running
  <2>2. pc = "starting" => missed' BY ZenonT(20)
  <2>3. pc' \in Running => hEnd' # "none" BY <2>1
  <2> QED BY <2>1, <2>2, <2>3 DEF EndEvent
<1>4. LateOnce'
  <2>1. late' = 0 OBVIOUS
  <2> QED
    <3> HIDE DEF StopAccessControlClient
    <3> QED BY <2>1, <1>1 DEF LateOnce
<1> QED BY <1>1, <1>2, <1>3, <1>4

LEMMA DisconnectEffect ==
  ASSUME IInv, ~joining, OnDisconnectACS, UNCHANGED <<hThread, pc>>
  PROVE  /\ hEnd' \in {"none", "clear", "set"} /\ joining' \in BOOLEAN /\ missed' \in BOOLEAN
         /\ late' \in Nat /\ HandleOfThread' /\ EndEvent' /\ LateOnce'
<1>1. CASE StopAccessControlClient BY <1>1, StopEffect
<1>2. CASE ~hThread /\ UNCHANGED <<joining, hEnd, missed, late>>
  BY <1>2 DEF IInv, TypeOK, HandleOfThread, EndEvent, LateOnce
<1> QED BY <1>1, <1>2 DEF OnDisconnectACS

LEMMA LogoutStep == IInv /\ IDM_LOGOUT => IInv'
<1> SUFFICES ASSUME IInv, IDM_LOGOUT PROVE IInv' OBVIOUS
<1> USE DEF IInv, IDM_LOGOUT, LogsOut, TakesInput
<1>1. TypeOK' BY DisconnectEffect DEF TypeOK, windows
<1>2. Raced' BY DEF Raced
<1> QED BY <1>1, <1>2, DisconnectEffect

LEMMA StopServerStep == IInv /\ StopACServer => IInv'
<1> SUFFICES ASSUME IInv, StopACServer PROVE IInv' OBVIOUS
<1> USE DEF IInv, StopACServer, TakesInput
<1>1. TypeOK' BY StopEffect DEF TypeOK, windows
<1>2. Raced' BY DEF Raced
<1> QED BY <1>1, <1>2, StopEffect

LEMMA JoinedStep == IInv /\ Joined => IInv'
<1> SUFFICES ASSUME IInv, Joined PROVE IInv' OBVIOUS
<1> USE DEF IInv, Joined, windows, history
<1>1. TypeOK' BY DEF TypeOK
<1>2. Raced' BY SamePosted DEF Raced
<1> QED BY <1>1, <1>2 DEF HandleOfThread, EndEvent, LateOnce, Running

LEMMA WindowGoes ==
  ASSUME TypeOK, LoginWindowGoes
  PROVE  logins' \in 0 .. MaxLogins /\ forms' \subseteq {"login", "register"}
<1>1. logins' \in 0 .. MaxLogins BY BoundsAssumption DEF TypeOK, LoginWindowGoes
<1>2. CASE logins = 1 BY <1>1, <1>2 DEF LoginWindowGoes
<1>3. CASE logins # 1
  <2>1. forms' \in SUBSET forms BY <1>3 DEF LoginWindowGoes
  <2> QED BY <1>1, <2>1 DEF TypeOK
<1> QED BY <1>2, <1>3

LEMMA CloseLoginStep == IInv /\ CloseLogin => IInv'
<1> SUFFICES ASSUME IInv, CloseLogin PROVE IInv' OBVIOUS
<1> USE DEF IInv, CloseLogin, gui, thread, history
<1>1. posted \in Seq(Post) BY DEF TypeOK, Post
<1>2. CASE devStatus = "Disconnected"
  <2>1. posted' \in Seq(Post) BY <1>1, <1>2, AppendPosted DEF Post
  <2>2. TypeOK' BY <2>1, WindowGoes DEF TypeOK, Post
  <2> QED BY <1>2, <2>2 DEF Raced, HandleOfThread, EndEvent, LateOnce
<1>3. CASE devStatus # "Disconnected"
  <2>1. TypeOK' BY <1>3, WindowGoes DEF TypeOK
  <2>2. Raced' BY <1>3, SamePosted DEF Raced
  <2> QED BY <2>1, <2>2 DEF HandleOfThread, EndEvent, LateOnce
<1> QED BY <1>2, <1>3

LEMMA AdminStep == IInv /\ AdminLogsIn => IInv'
<1> SUFFICES ASSUME IInv, AdminLogsIn PROVE IInv' OBVIOUS
<1> USE DEF IInv, AdminLogsIn, gui, thread, history
<1>1. TypeOK' BY WindowGoes DEF TypeOK
<1> QED BY <1>1 DEF Raced, HandleOfThread, EndEvent, LateOnce

LEMMA RegisterStep == IInv /\ (RegisterCreateForm \/ RegisterFormGoes) => IInv'
<1> SUFFICES ASSUME IInv, RegisterCreateForm \/ RegisterFormGoes PROVE IInv' OBVIOUS
<1> USE DEF IInv, RegisterCreateForm, RegisterFormGoes, gui, thread, history
<1>1. TypeOK'
  <2>1. forms' \subseteq {"login", "register"} BY DEF TypeOK
  <2> QED BY <2>1 DEF TypeOK
<1>2. Raced' BY SamePosted DEF Raced
<1> QED BY <1>1, <1>2 DEF HandleOfThread, EndEvent, LateOnce

LEMMA PostedStep == IInv /\ HandlesPosted => IInv'
<1> SUFFICES ASSUME IInv, HandlesPosted PROVE IInv' OBVIOUS
<1> USE DEF IInv, HandlesPosted
<1>1. posted' \in Seq(Post) /\ (ClosePosted' => ClosePosted)
      /\ (Head(posted) = "WM_CLOSE_ACSCONNECT" => ClosePosted)
  BY TailPosted DEF TypeOK, Post
<1>2. CASE Head(posted) = "IDM_LOGOUT" /\ LogsOut /\ UNCHANGED windows
  <2>1. TypeOK' BY <1>1, <1>2, DisconnectEffect DEF LogsOut, TypeOK, Post, windows
  <2>2. Raced' BY <1>2 DEF LogsOut, Raced
  <2> QED BY <2>1, <2>2, <1>2, DisconnectEffect DEF LogsOut
<1>3. CASE /\ Head(posted) = "WM_CLOSE_ACSCONNECT" /\ OnDisconnectACS
           /\ UNCHANGED <<devStatus, raced, windows>>
  <2>1. TypeOK' BY <1>1, <1>3, DisconnectEffect DEF TypeOK, Post, windows
  <2>2. Raced' BY <1>1, <1>3 DEF Raced
  <2> QED BY <2>1, <2>2, <1>3, DisconnectEffect
<1>4. CASE UNCHANGED <<devStatus, joining, hEnd, history>> /\ (LoginWindowGoes \/ UNCHANGED windows)
  <2>1. logins' \in 0 .. MaxLogins /\ forms' \subseteq {"login", "register"}
    BY <1>4, WindowGoes DEF TypeOK, windows
  <2>2. TypeOK' BY <1>1, <1>4, <2>1 DEF TypeOK, Post, history
  <2>3. Raced' BY <1>1, <1>4 DEF Raced, history
  <2> QED BY <2>2, <2>3, <1>4 DEF HandleOfThread, EndEvent, LateOnce, history
<1> QED BY <1>2, <1>3, <1>4

\* The steps of the thread that leave the status and the queue alone.
LEMMA QuietStep ==
  IInv /\ (StartFails \/ Creates \/ SelectFails \/ Selects \/ SeesEnd \/ Reads \/ BoxCloses) => IInv'
<1> SUFFICES ASSUME IInv,
                    StartFails \/ Creates \/ SelectFails \/ Selects \/ SeesEnd \/ Reads \/ BoxCloses
             PROVE IInv'
  OBVIOUS
<1> USE DEF IInv, StartFails, Creates, SelectFails, Selects, SeesEnd, Reads, BoxCloses,
        CleanUpAccessControlClient, SocketSignalled, gui, windows, history
<1>1. TypeOK'
  <2>1. reads' \in 0 .. MaxReads BY BoundsAssumption DEF TypeOK
  <2>2. held' \in Answers BY DEF TypeOK
  <2>3. /\ pc' \in Running \cup {"ended"} /\ hEnd' \in {"none", "clear", "set"}
        /\ Client' \in {"invalid", "open", "closed"}
    BY DEF TypeOK, Running
  <2>4. UNCHANGED <<gui, devStatus, windows, posted, history>> OBVIOUS
  <2> QED
    <3> HIDE DEF StartFails, Creates, SelectFails, Selects, SeesEnd, Reads, BoxCloses
    <3> QED BY <2>1, <2>2, <2>3, <2>4 DEF TypeOK, Running
<1>2. Raced' BY SamePosted DEF Raced
<1>3. HandleOfThread' BY DEF HandleOfThread
<1>4. EndEvent' /\ LateOnce' BY DEF EndEvent, LateOnce, Running
<1> QED BY <1>1, <1>2, <1>3, <1>4

LEMMA SeesCloseStep == IInv /\ SeesClose => IInv'
<1> SUFFICES ASSUME IInv, SeesClose PROVE IInv' OBVIOUS
<1> USE DEF IInv, SeesClose, SocketSignalled, CleanUpAccessControlClient, gui, windows, history
<1>1. posted' \in Seq(Post) /\ (ClosePosted' => ClosePosted)
  BY AppendPosted DEF TypeOK, Post
<1>2. TypeOK' BY <1>1 DEF TypeOK, Post
<1>3. Raced' BY <1>1 DEF Raced
<1> QED BY <1>2, <1>3 DEF HandleOfThread, EndEvent, LateOnce, Running

LEMMA HandlesStep == IInv /\ Handles => IInv'
<1> SUFFICES ASSUME IInv, Handles PROVE IInv' OBVIOUS
<1> USE DEF IInv, Handles, gui, windows
<1>1. pc' \in Running \ {"selecting", "handling"}
  BY DEF RecvHandler, FirstWait, Running
<1>2. /\ posted' \in Seq(Post) /\ (ClosePosted' => ClosePosted)
  <2>1. CASE UNCHANGED posted BY <2>1, SamePosted DEF TypeOK, Post
  <2>2. CASE Posts("WM_DESTROY") BY <2>2, AppendPosted DEF TypeOK, Post, Posts
  <2>3. CASE Posts("IDM_LOGOUT") BY <2>3, AppendPosted DEF TypeOK, Post, Posts
  <2> QED BY <2>1, <2>2, <2>3 DEF RecvHandler
<1>3. raced' \in BOOLEAN /\ devStatus' \in {"Disconnected", "Connected", "Server", "ResetPassword"}
  BY DEF RecvHandler, LogsIn, TypeOK
<1>4. late' \in Nat BY DEF TypeOK
<1>5. TypeOK' BY <1>1, <1>2, <1>3, <1>4 DEF TypeOK, Post, Running
<1>6. Raced'
  <2>1. pc # "none" BY DEF Handles
  <2>2. CASE UNCHANGED raced /\ devStatus' # "Connected" BY <2>2 DEF Raced
  <2>3. CASE UNCHANGED <<raced, devStatus>> BY <2>3, <1>2 DEF Raced
  <2>4. CASE LogsIn BY <2>1, <2>4, <1>2 DEF LogsIn, Raced, HandleOfThread
  <2> QED BY <2>2, <2>3, <2>4 DEF RecvHandler
<1>7. HandleOfThread' BY <1>1 DEF HandleOfThread, Running
<1>8. EndEvent' BY <1>1 DEF EndEvent, Running
<1>9. LateOnce' BY <1>1 DEF LateOnce, Running, TypeOK
<1> QED BY <1>5, <1>6, <1>7, <1>8, <1>9

LEMMA SendsStep == IInv /\ Sends => IInv'
<1> SUFFICES ASSUME IInv, Sends PROVE IInv' OBVIOUS
<1> USE DEF IInv, Sends, gui, windows, history
<1>1. pc' \in {"sendsRegister", "sendsLogin", "box"} /\ pc \in {"sendsRegister", "sendsLogin"}
  BY DEF SendReturns, FirstWait
<1>2. logins' \in 0 .. MaxLogins /\ forms' \subseteq {"login", "register"}
  BY WindowGoes DEF SendReturns, TypeOK
<1>3. TypeOK' BY <1>1, <1>2 DEF TypeOK
<1>4. Raced' BY SamePosted DEF Raced
<1> QED BY <1>1, <1>3, <1>4 DEF HandleOfThread, EndEvent, LateOnce, Running

LEMMA NextInvariant == IInv /\ [Next]_vars => IInv'
<1> SUFFICES ASSUME IInv, [Next]_vars PROVE IInv' OBVIOUS
<1>1. CASE UNCHANGED vars
  <2>1. TypeOK' BY <1>1 DEF IInv, TypeOK, vars, gui, windows, thread, history
  <2>2. Raced' BY <1>1, SamePosted DEF IInv, Raced, vars, gui, history
  <2> QED BY <2>1, <2>2, <1>1 DEF IInv, HandleOfThread, EndEvent, LateOnce, vars, gui, thread, history
<1>2. CASE Next
  BY <1>2, LoginStep, LogoutStep, StopServerStep, JoinedStep, CloseLoginStep, AdminStep,
     RegisterStep, PostedStep, QuietStep, SeesCloseStep, HandlesStep, SendsStep
     DEF Next, ThreadStep
<1> QED BY <1>1, <1>2

\* Every reachable state satisfies the invariant above.
THEOREM Invariance == Spec => []IInv
BY InitInvariant, NextInvariant, PTL DEF Spec

\* The variables keep their types, for every bound.
THEOREM TypeCorrect == Spec => []TypeOK
<1>1. IInv => TypeOK BY DEF IInv
<1> QED BY <1>1, Invariance, PTL

\* A program without a client is logged in only by a race.
THEOREM StatusFollowsClient == Spec => []StatusNeedsClient
<1>1. IInv => StatusNeedsClient BY DEF IInv, Raced, StatusNeedsClient
<1> QED BY <1>1, Invariance, PTL

\* A stop that is signalled lets at most one more answer through.
THEOREM StopsAreHeeded == Spec => []AtMostOneLateAnswer
<1>1. IInv => AtMostOneLateAnswer BY DEF IInv, LateOnce, AtMostOneLateAnswer, TypeOK
<1> QED BY <1>1, Invariance, PTL
-----------------------------------------------------------------------------
(* The join ends.  That a fair step is enabled is beyond the provers and   *)
(* is the hypothesis JoinCanProceed, an invariant TLC checks; that its     *)
(* steps lead to the end of the join, and no other step away from it, is   *)
(* proved.                                                                 *)

\* The stages of a thread that has been told to end.
Stage(places) == joining /\ ~missed /\ pc \in places
ToSelect  == Stage({"selecting"})
ToHandle  == Stage({"handling"})
ToSeeEnd  == Stage({"looping"})
ToBeJoined == Stage({"ended"})

\* In its loop, the thread has nothing left to do but to see the end event; while
\* the GUI thread waits, it handles nothing else.
LEMMA OthersWait ==
  ASSUME IInv, WaitsForThread, [Next]_vars, ~ThreadStep, ~Joined
  PROVE  UNCHANGED <<joining, missed, pc>>
<1> USE DEF WaitsForThread
<1>1. ~IDM_LOGIN /\ ~IDM_LOGOUT /\ ~StopACServer /\ ~CloseLogin /\ ~AdminLogsIn
      /\ ~RegisterCreateForm /\ ~RegisterFormGoes /\ ~HandlesPosted
  BY DEF IDM_LOGIN, IDM_LOGOUT, StopACServer, CloseLogin, AdminLogsIn, RegisterCreateForm,
     RegisterFormGoes, HandlesPosted, TakesInput
<1>2. ~SeesClose /\ ~Reads
  BY DEF SeesClose, Reads, SocketSignalled, IInv, EndEvent, Running
<1>3. ~Sends /\ ~BoxCloses BY DEF Sends, SendReturns, BoxCloses
<1> QED BY <1>1, <1>2, <1>3 DEF Next, vars, gui, thread, history

\* Where the thread goes next, by itself.
LEMMA ThreadGoes ==
  ASSUME IInv, WaitsForThread, ThreadStep
  PROVE  /\ UNCHANGED <<joining, missed>>
         /\ \/ pc = "selecting" /\ pc' \in {"looping", "ended"}
            \/ pc = "looping" /\ pc' = "ended"
            \/ pc = "handling" /\ pc' \in {"looping", "sendsRegister", "sendsLogin", "box"}
<1>1. pc # "starting" BY DEF WaitsForThread, IInv, EndEvent
<1>2. CASE SelectFails \/ Selects \/ SeesEnd
  BY <1>2 DEF SelectFails, Selects, SeesEnd, CleanUpAccessControlClient, gui, history
<1>3. CASE Handles BY <1>3 DEF Handles, RecvHandler, FirstWait, gui
<1> QED BY <1>1, <1>2, <1>3 DEF ThreadStep, StartFails, Creates

LEMMA StageMoves ==
  ASSUME IInv, [Next]_vars, NEW places, Stage(places),
         places \subseteq {"selecting", "handling", "looping"}
  PROVE  /\ Stage(places)' \/ Stage({"looping", "ended"})' \/ ~WaitsForThread'
         /\ ThreadStep => \/ pc = "selecting" /\ Stage({"looping", "ended"})'
                          \/ pc = "handling" /\ (Stage({"looping"})' \/ ~WaitsForThread')
                          \/ pc = "looping" /\ Stage({"ended"})'
<1> USE DEF Stage, WaitsForThread
<1>1. WaitsForThread /\ joining /\ ~missed /\ pc # "ended" OBVIOUS
<1>2. ~Joined BY <1>1 DEF Joined
<1>3. CASE ThreadStep
  <2>1. joining' /\ ~missed' BY <1>1, <1>3, ThreadGoes
  <2> QED BY <1>1, <1>3, <2>1, ThreadGoes
<1>4. CASE ~ThreadStep
  <2>1. UNCHANGED <<joining, missed, pc>> BY <1>1, <1>2, <1>4, OthersWait
  <2>2. joining' /\ ~missed' /\ pc' = pc BY <1>1, <2>1
  <2> QED BY <1>4, <2>2
<1> QED BY <1>3, <1>4

LEMMA JoinMoves ==
  ASSUME IInv, [Next]_vars, ToBeJoined
  PROVE  /\ ToBeJoined' \/ ~WaitsForThread'
         /\ Joined => ~WaitsForThread'
<1> USE DEF ToBeJoined, Stage, WaitsForThread
<1>1. WaitsForThread /\ joining /\ ~missed /\ pc = "ended" OBVIOUS
<1>2. ~ThreadStep BY <1>1, ThreadGoes
<1>3. Joined => ~joining' BY DEF Joined
<1>4. CASE ~Joined
  <2>1. UNCHANGED <<joining, missed, pc>> BY <1>1, <1>2, <1>4, OthersWait
  <2>2. joining' /\ ~missed' /\ pc' = "ended" BY <1>1, <2>1
  <2> QED BY <1>4, <2>2
<1> QED BY <1>3, <1>4

\* The GUI thread comes back from its join (AccessControlClient.cpp 78-89),
\* apart from the situations WaitsForThread excludes, for any number of answers
\* and windows: provided that the scheduler does not forget the thread, and that
\* TLC's JoinCanProceed holds for any number of them.
THEOREM JoinsEnd == Spec /\ []JoinCanProceed => JoinEnds
<1>1. IInv /\ ToSelect /\ [Next]_vars => ToSelect' \/ ToSeeEnd' \/ ToBeJoined' \/ ~WaitsForThread'
  BY StageMoves DEF ToSelect, ToSeeEnd, ToBeJoined, Stage
<1>2. IInv /\ ToSelect /\ <<ThreadStep>>_vars => ToSeeEnd' \/ ToBeJoined'
  BY StageMoves DEF Next, ToSelect, ToSeeEnd, ToBeJoined, Stage
<1>3. IInv /\ ToHandle /\ [Next]_vars => ToHandle' \/ ToSeeEnd' \/ ToBeJoined' \/ ~WaitsForThread'
  BY StageMoves DEF ToHandle, ToSeeEnd, ToBeJoined, Stage
<1>4. IInv /\ ToHandle /\ <<ThreadStep>>_vars => ToSeeEnd' \/ ~WaitsForThread'
  BY StageMoves DEF Next, ToHandle, ToSeeEnd, Stage
<1>5. IInv /\ ToSeeEnd /\ [Next]_vars => ToSeeEnd' \/ ToBeJoined' \/ ~WaitsForThread'
  BY StageMoves DEF ToSeeEnd, ToBeJoined, Stage
<1>6. IInv /\ ToSeeEnd /\ <<ThreadStep>>_vars => ToBeJoined'
  BY StageMoves DEF Next, ToSeeEnd, ToBeJoined, Stage
<1>7. IInv /\ ToBeJoined /\ [Next]_vars => ToBeJoined' \/ ~WaitsForThread' BY JoinMoves
<1>8. IInv /\ ToBeJoined /\ <<Joined>>_vars => ~WaitsForThread' BY JoinMoves DEF Next
<1>9. IInv /\ WaitsForThread => ToSelect \/ ToHandle \/ ToSeeEnd \/ ToBeJoined
  BY DEF IInv, TypeOK, HandleOfThread, EndEvent, WaitsForThread, Stage, ToSelect, ToHandle,
     ToSeeEnd, ToBeJoined
<1>10. JoinCanProceed /\ (ToSelect \/ ToHandle \/ ToSeeEnd) => ENABLED <<ThreadStep>>_vars
  BY DEF JoinCanProceed, WaitsForThread, Stage, ToSelect, ToHandle, ToSeeEnd
<1>11. JoinCanProceed /\ ToBeJoined => ENABLED <<Joined>>_vars
  BY DEF JoinCanProceed, WaitsForThread, Stage, ToBeJoined
<1>12. Spec => [][Next]_vars /\ WF_vars(ThreadStep) /\ WF_vars(Joined) BY PTL DEF Spec
<1>13. /\ []IInv /\ []JoinCanProceed /\ [][Next]_vars /\ WF_vars(ThreadStep) /\ WF_vars(Joined)
       => (WaitsForThread ~> ~WaitsForThread)
  BY <1>1, <1>2, <1>3, <1>4, <1>5, <1>6, <1>7, <1>8, <1>9, <1>10, <1>11, PTL
<1> QED BY <1>12, <1>13, Invariance, PTL DEF JoinEnds
-----------------------------------------------------------------------------
(* Seen from the GUI thread the client is a thread that is started, ends   *)
(* by itself or is stopped: it implements ThreadLife.                      *)

InLoop == {"looping", "handling", "sendsRegister", "sendsLogin", "box"}

\* A stop that came in time is over for others: what the thread still does until
\* it is joined is not seen.
Unseen == joining /\ ~missed

Seen == <<ThreadSeen, joining /\ missed /\ pc # "ended">>

LEMMA SeenUnchanged == UNCHANGED <<joining, missed, pc>> => UNCHANGED Seen
BY DEF Seen, ThreadSeen

LEMMA UnseenStep ==
  ASSUME Unseen, Unseen'
  PROVE  UNCHANGED Seen
BY DEF Unseen, Seen, ThreadSeen

\* The places the thread goes through.
ThreadMoves ==
  \/ pc = "starting" /\ pc' = "selecting"
  \/ pc = "selecting" /\ pc' = "looping"
  \/ pc \in InLoop /\ pc' \in InLoop
  \/ pc \in Running \cup {"starting"} /\ pc' = "ended"

LEMMA ThreadSteps ==
  ASSUME UNCHANGED <<joining, missed>>, ThreadMoves
  PROVE  Thread!Next \/ UNCHANGED Seen
<1>1. CASE Unseen BY <1>1, UnseenStep DEF Unseen
<1>2. CASE ~Unseen
  BY <1>2 DEF ThreadMoves, InLoop, Running, Unseen, Seen, ThreadSeen, Thread!Next, Thread!Runs,
     Thread!Ends
<1> QED BY <1>1, <1>2

\* The client's thread makes no other moves, and leaves the handle alone.
LEMMA ThreadStepMoves ==
  ASSUME ThreadStep \/ SeesClose \/ Reads \/ Sends \/ BoxCloses
  PROVE  UNCHANGED <<joining, missed>> /\ ThreadMoves
<1> USE DEF ThreadMoves, InLoop, Running, gui, history
<1>1. CASE StartFails \/ Creates \/ SelectFails \/ Selects
  BY <1>1 DEF StartFails, Creates, SelectFails, Selects
<1>2. CASE SeesEnd \/ SeesClose
  BY <1>2 DEF SeesEnd, SeesClose, SocketSignalled, CleanUpAccessControlClient
<1>3. CASE Reads \/ BoxCloses BY <1>3 DEF Reads, SocketSignalled, BoxCloses
<1>4. CASE Handles BY <1>4 DEF Handles, RecvHandler, FirstWait
<1>5. CASE Sends BY <1>5 DEF Sends, SendReturns, FirstWait
<1> QED BY <1>1, <1>2, <1>3, <1>4, <1>5 DEF ThreadStep

LEMMA StopSeen ==
  ASSUME HandleOfThread, ~joining, StopAccessControlClient, pc' = pc
  PROVE  Thread!Next \/ UNCHANGED Seen
<1> USE DEF Seen, ThreadSeen
<1>1. pc # "none" /\ joining' /\ missed' = (pc = "starting")
  BY DEF HandleOfThread, StopAccessControlClient
<1>2. CASE pc = "starting" BY <1>1, <1>2 DEF Thread!Next, Thread!StopTooEarly
<1>3. CASE pc # "starting" BY <1>1, <1>3 DEF Thread!Next, Thread!Stop
<1> QED BY <1>2, <1>3

LEMMA DisconnectSeen ==
  ASSUME HandleOfThread, ~joining, OnDisconnectACS, pc' = pc
  PROVE  Thread!Next \/ UNCHANGED Seen
BY StopSeen, SeenUnchanged DEF OnDisconnectACS

LEMMA SeenStep ==
  ASSUME IInv, [Next]_vars
  PROVE  Thread!Next \/ UNCHANGED Seen
<1>1. HandleOfThread BY DEF IInv
<1>2. CASE IDM_LOGIN
  <2>1. ~joining /\ UNCHANGED <<joining, missed>> BY <1>2 DEF IDM_LOGIN, TakesInput, history
  <2>2. CASE \E socket \in {"open", "closed"} : OnConnectACS(socket)
    <3>1. pc = "none" /\ pc' = "starting" BY <1>1, <2>2 DEF OnConnectACS, HandleOfThread
    <3> QED BY <2>1, <3>1 DEF Seen, ThreadSeen, Thread!Next, Thread!Start
  <2>3. CASE StaysDisconnected BY <2>1, <2>3, SeenUnchanged DEF StaysDisconnected
  <2> QED BY <1>2, <2>2, <2>3 DEF IDM_LOGIN
<1>3. CASE IDM_LOGOUT
  BY <1>1, <1>3, DisconnectSeen DEF IDM_LOGOUT, LogsOut, TakesInput
<1>4. CASE StopACServer BY <1>1, <1>4, StopSeen DEF StopACServer, TakesInput
<1>5. CASE HandlesPosted
  <2>1. ~joining /\ pc' = pc BY <1>5 DEF HandlesPosted
  <2>2. OnDisconnectACS \/ UNCHANGED <<joining, missed>>
    BY <1>5 DEF HandlesPosted, LogsOut, history
  <2> QED BY <1>1, <2>1, <2>2, DisconnectSeen, SeenUnchanged
<1>6. CASE Joined
  <2>1. joining /\ pc = "ended" /\ ~joining' /\ pc' = "none" BY <1>6 DEF Joined
  <2> QED BY <2>1 DEF Seen, ThreadSeen
<1>7. CASE CloseLogin \/ AdminLogsIn \/ RegisterCreateForm \/ RegisterFormGoes
  BY <1>7, SeenUnchanged
     DEF CloseLogin, AdminLogsIn, RegisterCreateForm, RegisterFormGoes, gui, thread, history
<1>8. CASE ThreadStep \/ SeesClose \/ Reads \/ Sends \/ BoxCloses
  BY <1>8, ThreadStepMoves, ThreadSteps
<1>9. CASE UNCHANGED vars BY <1>9, SeenUnchanged DEF vars, gui, thread, history
<1> QED
  BY <1>2, <1>3, <1>4, <1>5, <1>6, <1>7, <1>8, <1>9 DEF Next

\* Whatever the server answers and the user does, the client is to the rest of
\* the program one thread with a handle: started only without one, ended only by
\* itself or by a stop (AccessControlClient.cpp 78-89, 199-300).
THEOREM ClientLivesAsThread == Spec => LivesAsThread
<1>1. Init => Thread!Init BY DEF Init, Thread!Init, ThreadSeen
<1>2. IInv /\ [Next]_vars => [Thread!Next]_<<ThreadSeen, joining /\ missed /\ pc # "ended">>
  BY SeenStep DEF Seen
<1>3. Spec => Init /\ [][Next]_vars BY PTL DEF Spec
<1> QED BY <1>1, <1>2, <1>3, Invariance, PTL DEF LivesAsThread, Thread!Spec
=============================================================================
