------------------------ MODULE CallControlProofs ------------------------
(***************************************************************************)
(* The invariants of CallControl, for any set of users and any number of   *)
(* calls.  Consent has a long way to go: from the Accept button through    *)
(* the server to the caller's input buffer, its message queue, and the     *)
(* video client.  IInv says of each place on that way that what is there   *)
(* is backed by the buttons pressed; Acquaintance, that who is named there *)
(* has called or been called.  Balanced counts, as finite sets, the        *)
(* places where the calls to a user are; Dialled bounds the video clients  *)
(* that were opened.  Then come the answers and the calls: each stays on   *)
(* its way until it has changed its receiver's status, or is shown.  Last, *)
(* every user's video server lives as ThreadLife says.                     *)
(***************************************************************************)
EXTENDS CallControl, SequenceTheorems, FiniteSetTheorems, FunctionTheorems, TLAPS

Called(u)    == placed[u] > 0
Answering(u) == \E v \in Users : <<u, v>> \in accepted
Consent      == accepted \cup overtaken

\* What is posted to a GUI thread can be carried out, and was caused by the
\* buttons pressed here and at the other end.
PostsBacked ==
  \A u \in Online :
    /\ "WM_OPEN_CALLREQUEST" \in ToSet(posted[u]) => heldFrom[u] # NoUser
    /\ "WM_OPEN_VIDEOSERVER" \in ToSet(posted[u]) => Answering(u)
    /\ "WM_OPEN_VIDEOCLIENT" \in ToSet(posted[u]) => heldAddr[u] # NoUser /\ Called(u)

\* An acceptance on its way was pressed by its sender, for its receiver.
MessagesBacked ==
  \A u \in Online :
    /\ \A m \in ToSet(toServer[u]) : m.type = "AcceptCall" => m.from = u /\ <<u, m.to>> \in Consent
    /\ \A m \in ToSet(toUser[u]) : m.type = "AcceptCall" => <<m.from, u>> \in Consent

\* The address in the buffer is that of a user who accepted this one's call.
AddressBacked == \A u \in Online : heldAddr[u] # NoUser => <<heldAddr[u], u>> \in Consent

\* The message in the buffer can be handled once more.
BufferBacked ==
  \A u \in Online :
    /\ heldType[u] = "RequestCall" => heldFrom[u] # NoUser
    /\ heldType[u] = "AcceptCall" => heldAddr[u] # NoUser

\* While a window is open there is a name to answer, and the newest shows it.
NoticeNamed ==
  \A u \in Online :
    /\ notices[u] # <<>> => callMsg[u] # NoUser
    /\ newestOpen[u] => notices[u] # <<>> /\ notices[u][Len(notices[u])] = callMsg[u]

CallerCalled == \A u \in Online : devStatus[u] = "Caller" => Called(u)

\* VideoNeedsConsent in these words, but for the acquaintance.
VideoBacked ==
  \A u \in Online :
    /\ client[u] # NoUser => <<client[u], u>> \in Consent /\ Called(u)
    /\ server[u] # "none" => Answering(u)

\* The inductive invariant.
IInv ==
  /\ TypeOK
  /\ PostsBacked /\ MessagesBacked /\ AddressBacked /\ BufferBacked /\ NoticeNamed
  /\ CallerCalled /\ VideoBacked
-----------------------------------------------------------------------------
(* What is in a sequence after the operations the model uses.                *)

LEMMA AppendToSet ==
  ASSUME NEW S, NEW s \in Seq(S), NEW e \in S
  PROVE  Append(s, e) \in Seq(S) /\ ToSet(Append(s, e)) = ToSet(s) \cup {e}
<1>1. /\ Append(s, e) \in Seq(S) /\ Len(Append(s, e)) = Len(s) + 1
      /\ \A i \in 1 .. Len(s) : Append(s, e)[i] = s[i]
      /\ Append(s, e)[Len(s) + 1] = e
  OBVIOUS
<1>2. DOMAIN Append(s, e) = 1 .. (Len(s) + 1) /\ DOMAIN s = 1 .. Len(s)
  BY <1>1
<1> QED  BY <1>1, <1>2 DEF ToSet

LEMMA TailToSet ==
  ASSUME NEW S, NEW s \in Seq(S), s # <<>>
  PROVE  /\ Tail(s) \in Seq(S) /\ ToSet(Tail(s)) \subseteq ToSet(s)
         /\ Head(s) \in ToSet(s) /\ Head(s) \in S
<1>1. /\ Tail(s) \in Seq(S) /\ Len(Tail(s)) = Len(s) - 1
      /\ \A i \in 1 .. (Len(s) - 1) : Tail(s)[i] = s[i + 1]
  BY HeadTailProperties
<1>2. DOMAIN Tail(s) = 1 .. (Len(s) - 1) /\ DOMAIN s = 1 .. Len(s)
  BY <1>1
<1>3. Head(s) = s[1] /\ 1 \in DOMAIN s /\ s[1] \in S
  BY <1>2, EmptySeq
<1> QED  BY <1>1, <1>2, <1>3 DEF ToSet

LEMMA ConcatToSet ==
  ASSUME NEW S, NEW s \in Seq(S), NEW t \in Seq(S)
  PROVE  s \o t \in Seq(S) /\ ToSet(s \o t) = ToSet(s) \cup ToSet(t)
<1>1. /\ s \o t \in Seq(S) /\ Len(s \o t) = Len(s) + Len(t)
      /\ \A i \in 1 .. (Len(s) + Len(t)) :
           (s \o t)[i] = IF i <= Len(s) THEN s[i] ELSE t[i - Len(s)]
  BY ConcatProperties
<1>2. DOMAIN (s \o t) = 1 .. (Len(s) + Len(t)) /\ DOMAIN s = 1 .. Len(s) /\ DOMAIN t = 1 .. Len(t)
  BY <1>1
<1>3. ASSUME NEW i \in DOMAIN s PROVE s[i] \in ToSet(s \o t)
  BY <1>1, <1>2, (s \o t)[i] = s[i] DEF ToSet
<1>4. ASSUME NEW i \in DOMAIN t PROVE t[i] \in ToSet(s \o t)
  <2>1. Len(s) + i \in DOMAIN (s \o t) /\ (s \o t)[Len(s) + i] = t[i]
    BY <1>1, <1>2
  <2> QED  BY <2>1 DEF ToSet
<1>5. ASSUME NEW i \in DOMAIN (s \o t) PROVE (s \o t)[i] \in ToSet(s) \cup ToSet(t)
  BY <1>1, <1>2 DEF ToSet
<1> QED  BY <1>1, <1>3, <1>4, <1>5 DEF ToSet

\* A message more on a connection.
LEMMA SendToSet ==
  ASSUME NEW S, NEW s \in Seq(S), NEW e \in S
  PROVE  s \o <<e>> \in Seq(S) /\ ToSet(s \o <<e>>) = ToSet(s) \cup {e}
<1> DEFINE t == <<e>>
<1>1. t \in Seq(S) /\ ToSet(t) = {e}
  BY DEF ToSet
<1> HIDE DEF t
<1>2. s \o t \in Seq(S) /\ ToSet(s \o t) = ToSet(s) \cup ToSet(t)
  BY <1>1, ConcatToSet
<1> QED  BY <1>1, <1>2 DEF t

LEMMA RemoveAtSeq ==
  ASSUME NEW S, NEW s \in Seq(S), NEW k \in DOMAIN s
  PROVE  RemoveAt(s, k) \in Seq(S)
<1>1. k \in 1 .. Len(s)
  OBVIOUS
<1>2. SubSeq(s, 1, k - 1) \in Seq(S) /\ SubSeq(s, k + 1, Len(s)) \in Seq(S)
  BY <1>1, SubSeqProperties
<1> QED  BY <1>2, ConcatProperties DEF RemoveAt

LEMMA RemoveAtLen ==
  ASSUME NEW S, NEW s \in Seq(S), NEW k \in DOMAIN s
  PROVE  Len(RemoveAt(s, k)) = Len(s) - 1
<1>1. k \in 1 .. Len(s) /\ Len(s) \in Nat
  OBVIOUS
<1> DEFINE a == SubSeq(s, 1, k - 1)
           b == SubSeq(s, k + 1, Len(s))
<1>2. a \in Seq(S) /\ Len(a) = k - 1
  BY <1>1, SubSeqProperties
<1>3. b \in Seq(S) /\ Len(b) = Len(s) - k
  BY <1>1, SubSeqProperties
<1> HIDE DEF a, b
<1>4. Len(a \o b) = Len(a) + Len(b)
  BY <1>2, <1>3, ConcatProperties
<1>5. RemoveAt(s, k) = a \o b
  BY DEF RemoveAt, a, b
<1> QED BY <1>1, <1>2, <1>3, <1>4, <1>5

\* The last element stays the last when another is removed.
LEMMA RemoveAtLast ==
  ASSUME NEW S, NEW s \in Seq(S), NEW k \in DOMAIN s, k < Len(s)
  PROVE  RemoveAt(s, k) # <<>> /\ RemoveAt(s, k)[Len(RemoveAt(s, k))] = s[Len(s)]
<1>1. k \in 1 .. Len(s) /\ Len(s) \in Nat
  OBVIOUS
<1> DEFINE a == SubSeq(s, 1, k - 1)
           b == SubSeq(s, k + 1, Len(s))
<1>2. a \in Seq(S) /\ Len(a) = k - 1
  BY <1>1, SubSeqProperties
<1>3. b \in Seq(S) /\ Len(b) = Len(s) - k /\ b[Len(s) - k] = s[Len(s)]
  <2>1. b \in Seq(S) /\ Len(b) = Len(s) - k /\ \A i \in 1 .. Len(b) : b[i] = s[k + i]
    BY <1>1, SubSeqProperties
  <2> DEFINE n == Len(s)
             i == n - k
  <2> HIDE DEF b
  <2>2. i \in 1 .. Len(b) /\ k + i = Len(s)
    <3>1. n \in Nat /\ k \in Nat /\ k < n
      BY <1>1
    <3> HIDE DEF n
    <3>2. i \in Nat /\ i >= 1 /\ k + i = n
      BY <3>1
    <3> HIDE DEF i
    <3>3. i \in 1 .. i
      BY <3>2
    <3> QED BY <2>1, <3>2, <3>3 DEF i, n
  <2> HIDE DEF i
  <2>3. b[i] = s[k + i]
    BY <2>1, <2>2
  <2>4. b[i] = s[Len(s)]
    BY <2>2, <2>3
  <2> QED BY <2>1, <2>4 DEF i
<1> HIDE DEF a, b
<1>4. Len(a \o b) = Len(s) - 1 /\ (a \o b)[Len(s) - 1] = b[Len(s) - k] /\ Len(s) - 1 > 0
  <2>1. Len(a \o b) = Len(a) + Len(b)
        /\ \A i \in 1 .. (Len(a) + Len(b)) : (a \o b)[i] = IF i <= Len(a) THEN a[i] ELSE b[i - Len(a)]
    BY <1>2, <1>3, ConcatProperties
  <2>2. Len(a) + Len(b) = Len(s) - 1 /\ Len(s) - 1 \in 1 .. (Len(a) + Len(b))
    BY <1>1, <1>2, <1>3
  <2>3. ~ (Len(s) - 1 <= Len(a)) /\ (Len(s) - 1) - Len(a) = Len(s) - k
    BY <1>1, <1>2
  <2> QED BY <2>1, <2>2, <2>3
<1>5. RemoveAt(s, k) = a \o b
  BY DEF RemoveAt, a, b
<1>6. a \o b # <<>>
  BY <1>4
<1> QED BY <1>3, <1>4, <1>5, <1>6

LEMMA EmptyToSet == ToSet(<<>>) = {}
  BY DEF ToSet

\* A function one of whose values is incremented.
LEMMA Increment ==
  ASSUME NEW S, NEW f \in [S -> Nat], NEW e \in S
  PROVE  /\ [f EXCEPT ![e] = @ + 1] \in [S -> Nat]
         /\ \A p \in S : [f EXCEPT ![e] = @ + 1][p] >= f[p]
         /\ [f EXCEPT ![e] = @ + 1][e] > 0
  OBVIOUS

\* The channels, the queue and the windows of one user, with their elements.
LEMMA Sequences ==
  ASSUME TypeOK, NEW u \in Online
  PROVE  /\ toServer[u] \in Seq(Messages) /\ toUser[u] \in Seq(Messages)
         /\ posted[u] \in Seq(Posts) /\ notices[u] \in Seq(Users)
  BY DEF TypeOK
-----------------------------------------------------------------------------
LEMMA InitIInv == Init => IInv
<1> SUFFICES ASSUME Init PROVE IInv
  OBVIOUS
<1>1. TypeOK
  <2>1. <<>> \in Seq(Messages) /\ <<>> \in Seq(Posts) /\ <<>> \in Seq(Users)
    OBVIOUS
  <2>2. 0 \in 0 .. MaxCalls
    BY MaxCallsAssumption
  <2> QED  BY <2>1, <2>2 DEF Init, TypeOK
<1>2. \A u \in Online : ToSet(posted[u]) = {} /\ ToSet(toServer[u]) = {} /\ ToSet(toUser[u]) = {}
  BY EmptyToSet DEF Init
<1>3. PostsBacked /\ MessagesBacked
  BY <1>2 DEF PostsBacked, MessagesBacked
<1>4. AddressBacked /\ BufferBacked /\ NoticeNamed /\ CallerCalled /\ VideoBacked
  BY DEF Init, AddressBacked, BufferBacked, NoticeNamed, CallerCalled, VideoBacked
<1> QED  BY <1>1, <1>3, <1>4 DEF IInv
-----------------------------------------------------------------------------
(* The user's actions.                                                       *)

LEMMA CallKeeps ==
  ASSUME IInv, NEW u \in Online, NEW v \in Users, Call(u, v)
  PROVE  IInv'
<1> DEFINE m == Message("RequestCall", u, v)
<1>1. m \in Messages /\ m.type = "RequestCall"
  BY OnlineAssumption DEF Message, Messages, Types
<1> HIDE DEF m
<1>2. toServer' = [toServer EXCEPT ![u] = @ \o <<m>>]
  BY DEF Call, sendMsgtoACS, m
<1>3. /\ toServer[u] \o <<m>> \in Seq(Messages)
      /\ ToSet(toServer[u] \o <<m>>) = ToSet(toServer[u]) \cup {m}
  <2>1. toServer[u] \in Seq(Messages)
    BY Sequences DEF IInv
  <2> QED  BY <1>1, <2>1, SendToSet
<1>4. /\ placed' \in [Online -> Nat] /\ asked' \in [Users -> Nat] /\ calls' \in 0 .. MaxCalls
      /\ \A w \in Online : placed'[w] >= placed[w]
      /\ placed'[u] > 0
  <2>1. placed \in [Online -> Nat] /\ asked \in [Users -> Nat] /\ calls \in 0 .. MaxCalls
    BY DEF IInv, TypeOK
  <2>2. /\ placed' = [placed EXCEPT ![u] = @ + 1] /\ asked' = [asked EXCEPT ![v] = @ + 1]
        /\ calls' = calls + 1 /\ calls < MaxCalls
    BY DEF Call
  <2>3. calls' \in 0 .. MaxCalls
    BY <2>1, <2>2, MaxCallsAssumption
  <2> QED  BY <2>1, <2>2, <2>3, Increment
<1>5. ASSUME NEW w \in Online, Called(w) PROVE Called(w)'
  <2>1. placed[w] > 0 /\ placed[w] \in Nat
    BY <1>5 DEF Called, IInv, TypeOK
  <2>2. placed'[w] \in Nat /\ placed'[w] >= placed[w]
    BY <1>4
  <2>3. placed'[w] > 0
    BY <2>1, <2>2
  <2> QED BY <2>3 DEF Called
<1>6. Called(u)'
  BY <1>4 DEF Called
<1>13. Consent' = Consent
  BY DEF Call, answers, Consent
<1>7. TypeOK'
  <2>1. called' \subseteq Online \X Users
    BY DEF Call, IInv, TypeOK
  <2>2. toServer' \in [Online -> Seq(Messages)]
    BY <1>2, <1>3 DEF IInv, TypeOK
  <2>3. devStatus' \in [Online -> {"Connected", "Caller", "Callee", "Calling"}]
    BY DEF Call, IInv, TypeOK
  <2> QED  BY <1>4, <2>1, <2>2, <2>3 DEF Call, IInv, TypeOK, heldVars, noteVars, videoVars, answers
<1>8. PostsBacked'
  BY <1>5 DEF Call, IInv, PostsBacked, heldVars, answers, Answering
<1>9. MessagesBacked'
  BY <1>1, <1>2, <1>3, <1>13 DEF Call, IInv, TypeOK, MessagesBacked
<1>10. AddressBacked' /\ BufferBacked' /\ NoticeNamed'
  BY DEF Call, IInv, AddressBacked, BufferBacked, NoticeNamed, heldVars, noteVars, answers, Consent
<1>11. CallerCalled'
  BY <1>5, <1>6 DEF Call, IInv, TypeOK, CallerCalled
<1>12. VideoBacked'
  BY <1>5 DEF Call, IInv, VideoBacked, videoVars, answers, Consent, Answering
<1> QED  BY <1>7, <1>8, <1>9, <1>10, <1>11, <1>12 DEF IInv

\* The window that is closed has a caller, and the others keep theirs.
LEMMA CloseNoticeKeeps ==
  ASSUME IInv, NEW u \in Online, NEW k \in DOMAIN notices[u], CloseNotice(u, k)
  PROVE  /\ notices' \in [Online -> Seq(Users)] /\ closed' \in [Online -> Nat]
         /\ newestOpen' \in [Online -> BOOLEAN]
         /\ callMsg' = callMsg /\ callMsg[u] \in Users /\ notices[u][k] \in Users
         /\ ~ Overtaken(u, k) => notices[u][k] = callMsg[u]
         /\ NoticeNamed'
<1>1. notices[u] \in Seq(Users)
  BY Sequences DEF IInv
<1>2. RemoveAt(notices[u], k) \in Seq(Users) /\ notices[u] # <<>>
  BY <1>1, RemoveAtSeq
<1>3. /\ notices' = [notices EXCEPT ![u] = RemoveAt(notices[u], k)] /\ callMsg' = callMsg
      /\ newestOpen' = [newestOpen EXCEPT ![u] = newestOpen[u] /\ k < Len(notices[u])]
  BY DEF CloseNotice
<1>4. notices' \in [Online -> Seq(Users)]
  BY <1>2, <1>3 DEF IInv, TypeOK
<1>5. closed' \in [Online -> Nat]
  BY DEF CloseNotice, IInv, TypeOK
<1>6. callMsg[u] \in Users /\ notices[u][k] \in Users
  <2>1. callMsg[u] \in Users
    BY <1>2 DEF IInv, TypeOK, NoticeNamed
  <2>2. notices[u][k] \in Users
    BY <1>1
  <2> QED  BY <2>1, <2>2
<1>7. NoticeNamed'
  <2>1. ASSUME NEW w \in Online, notices'[w] # <<>> PROVE callMsg[w] # NoUser
    <3>1. notices[w] # <<>>
      BY <1>2, <1>3, <2>1 DEF IInv, TypeOK
    <3> QED  BY <3>1 DEF IInv, NoticeNamed
  <2>2. ASSUME NEW w \in Online, newestOpen'[w]
        PROVE  notices'[w] # <<>> /\ notices'[w][Len(notices'[w])] = callMsg[w]
    <3>1. CASE w = u
      <4>1. newestOpen[u] /\ k < Len(notices[u])
        BY <1>3, <2>2, <3>1 DEF IInv, TypeOK
      <4>2. notices[u][Len(notices[u])] = callMsg[u]
        BY <4>1 DEF IInv, NoticeNamed
      <4>3. notices'[u] = RemoveAt(notices[u], k)
        BY <1>3 DEF IInv, TypeOK
      <4>4. RemoveAt(notices[u], k) # <<>>
            /\ RemoveAt(notices[u], k)[Len(RemoveAt(notices[u], k))] = notices[u][Len(notices[u])]
        BY <1>1, <4>1, RemoveAtLast
      <4> QED  BY <3>1, <4>2, <4>3, <4>4
    <3>2. CASE w # u
      BY <1>3, <2>2, <3>2 DEF IInv, TypeOK, NoticeNamed
    <3> QED  BY <3>1, <3>2
  <2> QED  BY <1>3, <2>1, <2>2 DEF NoticeNamed
<1>8. newestOpen' \in [Online -> BOOLEAN]
  BY <1>3 DEF IInv, TypeOK
<1>9. ~ Overtaken(u, k) => notices[u][k] = callMsg[u]
  <2> SUFFICES ASSUME ~ Overtaken(u, k) PROVE notices[u][k] = callMsg[u]
    OBVIOUS
  <2>1. ~ (k < Len(notices[u])) /\ newestOpen[u]
    BY DEF Overtaken
  <2>2. notices[u][Len(notices[u])] = callMsg[u]
    BY <2>1 DEF IInv, NoticeNamed
  <2>3. k = Len(notices[u])
    BY <1>1, <2>1
  <2> QED  BY <2>2, <2>3
<1> QED  BY <1>3, <1>4, <1>5, <1>6, <1>7, <1>8, <1>9

LEMMA PostKeeps ==
  ASSUME IInv, NEW u \in Online, NEW m \in Posts, Post(u, m)
  PROVE  /\ posted' \in [Online -> Seq(Posts)]
         /\ \A w \in Online :
              ToSet(posted'[w]) = IF w = u THEN ToSet(posted[w]) \cup {m} ELSE ToSet(posted[w])
<1>1. posted[u] \in Seq(Posts)
  BY Sequences DEF IInv
<1>2. Append(posted[u], m) \in Seq(Posts) /\ ToSet(Append(posted[u], m)) = ToSet(posted[u]) \cup {m}
  BY <1>1, AppendToSet
<1>3. posted' = [posted EXCEPT ![u] = Append(posted[u], m)]
  BY DEF Post
<1> QED  BY <1>2, <1>3 DEF IInv, TypeOK

\* A user who answers the name that is in callMsg.
LEMMA AcceptKeeps ==
  ASSUME IInv, NEW u \in Online, NEW k \in DOMAIN notices[u], Accept(u, k)
  PROVE  IInv'
<1> DEFINE a == Message("AcceptCall", u, callMsg[u])
           r == Message("RejectCall", u, callMsg[u])
<1>1. /\ notices' \in [Online -> Seq(Users)] /\ closed' \in [Online -> Nat]
      /\ newestOpen' \in [Online -> BOOLEAN]
      /\ callMsg' = callMsg /\ callMsg[u] \in Users /\ notices[u][k] \in Users
      /\ ~ Overtaken(u, k) => notices[u][k] = callMsg[u]
      /\ NoticeNamed'
  BY CloseNoticeKeeps DEF Accept
<1>2. /\ a \in Messages /\ a.from = u /\ a.to = callMsg[u]
      /\ r \in Messages /\ r.type = "RejectCall"
  BY <1>1, OnlineAssumption DEF Message, Messages, Types
<1>3. toServer' = [toServer EXCEPT ![u] = @ \o <<a, r>>]
  BY DEF Accept, sendMsgtoACS
<1> HIDE DEF a, r
<1>4. /\ toServer[u] \o <<a, r>> \in Seq(Messages)
      /\ ToSet(toServer[u] \o <<a, r>>) = ToSet(toServer[u]) \cup {a, r}
  <2> DEFINE t == <<a, r>>
             s == toServer[u]
  <2>1. t \in Seq(Messages) /\ ToSet(t) = {a, r}
    BY <1>2 DEF ToSet
  <2>2. s \in Seq(Messages)
    BY Sequences DEF IInv
  <2> HIDE DEF t, s
  <2>3. s \o t \in Seq(Messages) /\ ToSet(s \o t) = ToSet(s) \cup ToSet(t)
    BY <2>1, <2>2, ConcatToSet
  <2> QED  BY <2>1, <2>3 DEF s, t
<1>5. /\ posted' \in [Online -> Seq(Posts)]
      /\ \A w \in Online : ToSet(posted'[w]) = IF w = u THEN ToSet(posted[w]) \cup {"WM_OPEN_VIDEOSERVER"}
                                                       ELSE ToSet(posted[w])
  <2>1. "WM_OPEN_VIDEOSERVER" \in Posts
    BY DEF Posts
  <2> QED  BY <2>1, PostKeeps DEF Accept
<1>6. /\ accepted' = accepted \cup {<<u, notices[u][k]>>}
      /\ overtaken' = IF Overtaken(u, k) THEN overtaken \cup {<<u, callMsg[u]>>} ELSE overtaken
      /\ UNCHANGED callVars
  BY DEF Accept
<1>7. \A w \in Online : (Called(w)' <=> Called(w)) /\ (Answering(w) => Answering(w)')
  BY <1>6 DEF Called, Answering, callVars
<1>8. Answering(u)'
  BY <1>1, <1>6 DEF Answering
<1>14. Consent \subseteq Consent' /\ <<u, callMsg[u]>> \in Consent'
  <2>1. CASE Overtaken(u, k)
    BY <1>6, <2>1 DEF Consent
  <2>2. CASE ~ Overtaken(u, k)
    BY <1>1, <1>6, <2>2 DEF Consent
  <2> QED  BY <2>1, <2>2
<1>9. TypeOK'
  <2>1. toServer' \in [Online -> Seq(Messages)]
    BY <1>3, <1>4 DEF IInv, TypeOK
  <2>2. accepted' \subseteq Online \X Users /\ overtaken' \subseteq Online \X Users
    BY <1>1, <1>6 DEF IInv, TypeOK
  <2>3. devStatus' \in [Online -> {"Connected", "Caller", "Callee", "Calling"}]
    BY DEF Accept, IInv, TypeOK
  <2> QED  BY <1>1, <1>5, <1>6, <2>1, <2>2, <2>3 DEF Accept, IInv, TypeOK, heldVars, videoVars, callVars
<1>10. PostsBacked'
  BY <1>5, <1>7, <1>8 DEF Accept, IInv, PostsBacked, heldVars
<1>11. MessagesBacked'
  <2>1. ASSUME NEW w \in Online, NEW x \in ToSet(toServer'[w]), x.type = "AcceptCall"
        PROVE  x.from = w /\ <<w, x.to>> \in Consent'
    <3>1. x \in ToSet(toServer[w]) \/ (w = u /\ x \in {a, r})
      BY <1>3, <1>4 DEF IInv, TypeOK
    <3>2. CASE x \in ToSet(toServer[w])
      BY <1>14, <2>1, <3>2 DEF IInv, MessagesBacked
    <3>3. CASE w = u /\ x \in {a, r}
      BY <1>2, <1>14, <2>1, <3>3
    <3> QED BY <3>1, <3>2, <3>3
  <2>2. toUser' = toUser
    BY DEF Accept
  <2>3. ASSUME NEW w \in Online, NEW x \in ToSet(toUser'[w]), x.type = "AcceptCall"
        PROVE  <<x.from, w>> \in Consent'
    BY <1>14, <2>2, <2>3 DEF IInv, MessagesBacked
  <2> QED BY <2>1, <2>3 DEF MessagesBacked
<1>12. AddressBacked' /\ BufferBacked' /\ VideoBacked'
  BY <1>7, <1>14 DEF Accept, IInv, AddressBacked, BufferBacked, VideoBacked, heldVars, videoVars
<1>13. CallerCalled'
  BY <1>7 DEF Accept, IInv, TypeOK, CallerCalled
<1> QED  BY <1>1, <1>9, <1>10, <1>11, <1>12, <1>13 DEF IInv

LEMMA DenyKeeps ==
  ASSUME IInv, NEW u \in Online, NEW k \in DOMAIN notices[u], Deny(u, k)
  PROVE  IInv'
<1> DEFINE r == Message("RejectCall", u, callMsg[u])
<1>1. /\ notices' \in [Online -> Seq(Users)] /\ closed' \in [Online -> Nat]
      /\ newestOpen' \in [Online -> BOOLEAN]
      /\ callMsg' = callMsg /\ callMsg[u] \in Users /\ notices[u][k] \in Users
      /\ ~ Overtaken(u, k) => notices[u][k] = callMsg[u]
      /\ NoticeNamed'
  BY CloseNoticeKeeps DEF Deny
<1>2. r \in Messages /\ r.type = "RejectCall"
  BY <1>1, OnlineAssumption DEF Message, Messages, Types
<1>3. toServer' = [toServer EXCEPT ![u] = @ \o <<r>>]
  BY DEF Deny, sendMsgtoACS
<1> HIDE DEF r
<1>4. toServer[u] \o <<r>> \in Seq(Messages) /\ ToSet(toServer[u] \o <<r>>) = ToSet(toServer[u]) \cup {r}
  <2>1. toServer[u] \in Seq(Messages)
    BY Sequences DEF IInv
  <2> QED  BY <1>2, <2>1, SendToSet
<1>5. TypeOK'
  BY <1>1, <1>3, <1>4 DEF Deny, IInv, TypeOK, heldVars, videoVars, history, callVars, answers
<1>6. MessagesBacked'
  BY <1>2, <1>3, <1>4 DEF Deny, IInv, TypeOK, MessagesBacked, history, answers, Consent
<1>7. PostsBacked' /\ AddressBacked' /\ BufferBacked' /\ CallerCalled' /\ VideoBacked'
  BY DEF Deny, IInv, PostsBacked, AddressBacked, BufferBacked, CallerCalled, VideoBacked, Called, Answering,
         Consent, heldVars, videoVars, history, callVars, answers
<1> QED  BY <1>1, <1>5, <1>6, <1>7 DEF IInv

LEMMA IgnoreKeeps ==
  ASSUME IInv, NEW u \in Online, NEW k \in DOMAIN notices[u], Ignore(u, k)
  PROVE  IInv'
<1>1. /\ notices' \in [Online -> Seq(Users)] /\ closed' \in [Online -> Nat]
      /\ newestOpen' \in [Online -> BOOLEAN]
      /\ callMsg' = callMsg /\ callMsg[u] \in Users /\ notices[u][k] \in Users
      /\ ~ Overtaken(u, k) => notices[u][k] = callMsg[u]
      /\ NoticeNamed'
  BY CloseNoticeKeeps DEF Ignore
<1>2. TypeOK'
  BY <1>1 DEF Ignore, IInv, TypeOK, netVars, heldVars, videoVars, history, callVars, answers
<1>3. PostsBacked' /\ MessagesBacked' /\ AddressBacked' /\ BufferBacked' /\ CallerCalled' /\ VideoBacked'
  BY DEF Ignore, IInv, PostsBacked, MessagesBacked, AddressBacked, BufferBacked, CallerCalled, VideoBacked,
         Called, Answering, Consent, netVars, heldVars, videoVars, history, callVars, answers
<1> QED  BY <1>1, <1>2, <1>3 DEF IInv

\* Stopping video, at either end, leaves nothing new to consent to.
LEMMA HangUpKeeps ==
  ASSUME IInv, NEW u \in Online, HangUp(u), UNCHANGED history
  PROVE  /\ server' \in [Online -> {"none", "starting", "running", "ended"}]
         /\ client' \in [Online -> Online \cup {NoUser}]
         /\ clientUp' \in [Online -> BOOLEAN] /\ stuck' \in [Online -> BOOLEAN]
         /\ VideoBacked'
<1>1. /\ \A w \in Online : (Called(w)' <=> Called(w)) /\ (Answering(w)' <=> Answering(w))
      /\ Consent' = Consent
  BY DEF history, callVars, answers, Called, Answering, Consent
<1>2. CASE StopVideoClient(u)
  BY <1>1, <1>2 DEF StopVideoClient, IInv, TypeOK, VideoBacked
<1>3. CASE StopVideoServer(u)
  BY <1>1, <1>3 DEF StopVideoServer, IInv, TypeOK, VideoBacked
<1>4. CASE UNCHANGED videoVars
  BY <1>1, <1>4 DEF videoVars, IInv, TypeOK, VideoBacked
<1> QED  BY <1>2, <1>3, <1>4 DEF HangUp

LEMMA PressDenyKeeps ==
  ASSUME IInv, NEW u \in Online, PressDeny(u)
  PROVE  IInv'
<1>1. /\ server' \in [Online -> {"none", "starting", "running", "ended"}]
      /\ client' \in [Online -> Online \cup {NoUser}]
      /\ clientUp' \in [Online -> BOOLEAN] /\ stuck' \in [Online -> BOOLEAN]
      /\ VideoBacked'
  BY HangUpKeeps DEF PressDeny
<1>2. TypeOK'
  BY <1>1 DEF PressDeny, IInv, TypeOK, netVars, heldVars, noteVars, history, callVars, answers
<1>3. PostsBacked' /\ MessagesBacked' /\ AddressBacked' /\ BufferBacked' /\ NoticeNamed' /\ CallerCalled'
  BY DEF PressDeny, IInv, PostsBacked, MessagesBacked, AddressBacked, BufferBacked, NoticeNamed, CallerCalled,
         Called, Answering, Consent, netVars, heldVars, noteVars, history, callVars, answers
<1> QED  BY <1>1, <1>2, <1>3 DEF IInv
-----------------------------------------------------------------------------
(* The GUI thread's other actions.                                           *)

LEMMA HandlesKeeps ==
  ASSUME IInv, NEW u \in Online, NEW m, Handles(u, m)
  PROVE  /\ posted' \in [Online -> Seq(Posts)]
         /\ m \in ToSet(posted[u])
         /\ \A w \in Online : ToSet(posted'[w]) \subseteq ToSet(posted[w])
         /\ PostsBacked' /\ MessagesBacked' /\ AddressBacked' /\ BufferBacked' /\ CallerCalled'
         /\ \A w \in Online : (Called(w)' <=> Called(w)) /\ (Answering(w)' <=> Answering(w))
         /\ Consent' = Consent
<1>1. posted[u] \in Seq(Posts) /\ posted[u] # <<>> /\ Head(posted[u]) = m
  BY Sequences DEF IInv, Handles
<1>2. /\ Tail(posted[u]) \in Seq(Posts) /\ ToSet(Tail(posted[u])) \subseteq ToSet(posted[u])
      /\ m \in ToSet(posted[u])
  BY <1>1, TailToSet
<1>3. posted' = [posted EXCEPT ![u] = Tail(posted[u])]
  BY DEF Handles
<1>4. posted' \in [Online -> Seq(Posts)] /\ \A w \in Online : ToSet(posted'[w]) \subseteq ToSet(posted[w])
  BY <1>2, <1>3 DEF IInv, TypeOK
<1>5. /\ \A w \in Online : (Called(w)' <=> Called(w)) /\ (Answering(w)' <=> Answering(w))
      /\ Consent' = Consent
  BY DEF Handles, history, callVars, answers, Called, Answering, Consent
<1>6. PostsBacked'
  BY <1>4, <1>5 DEF Handles, IInv, PostsBacked, heldVars
<1>7. MessagesBacked' /\ AddressBacked' /\ BufferBacked'
  BY <1>5 DEF Handles, IInv, MessagesBacked, AddressBacked, BufferBacked, netVars, heldVars
<1>8. CallerCalled'
  BY <1>5 DEF Handles, IInv, CallerCalled
<1> QED  BY <1>2, <1>4, <1>5, <1>6, <1>7, <1>8

\* Whoever is in the buffer, there is a name in it.
LEMMA CreateCallNotificationKeeps ==
  ASSUME IInv, NEW u \in Online, CreateCallNotification(u)
  PROVE  IInv'
<1>1. /\ posted' \in [Online -> Seq(Posts)]
      /\ "WM_OPEN_CALLREQUEST" \in ToSet(posted[u])
      /\ PostsBacked' /\ MessagesBacked' /\ AddressBacked' /\ BufferBacked' /\ CallerCalled'
      /\ \A w \in Online : (Called(w)' <=> Called(w)) /\ (Answering(w)' <=> Answering(w))
      /\ Consent' = Consent
  BY HandlesKeeps DEF CreateCallNotification
<1>2. heldFrom[u] \in Users
  BY <1>1 DEF IInv, TypeOK, PostsBacked
<1>3. /\ notices' = [notices EXCEPT ![u] = Append(@, heldFrom[u])] /\ callMsg' = [callMsg EXCEPT ![u] = heldFrom[u]]
      /\ newestOpen' = [newestOpen EXCEPT ![u] = TRUE]
  BY DEF CreateCallNotification
<1>4. /\ notices' \in [Online -> Seq(Users)] /\ newestOpen' \in [Online -> BOOLEAN]
      /\ notices'[u] # <<>> /\ notices'[u][Len(notices'[u])] = heldFrom[u]
  <2>1. notices[u] \in Seq(Users)
    BY Sequences DEF IInv
  <2> DEFINE n == Append(notices[u], heldFrom[u])
  <2>2. n \in Seq(Users) /\ n # <<>> /\ n[Len(n)] = heldFrom[u]
    BY <1>2, <2>1, AppendProperties
  <2> HIDE DEF n
  <2>3. notices' = [notices EXCEPT ![u] = n]
    BY <1>3 DEF n
  <2> QED  BY <1>3, <2>2, <2>3 DEF IInv, TypeOK
<1>5. callMsg' \in [Online -> Users \cup {NoUser}]
  BY <1>2, <1>3 DEF IInv, TypeOK
<1>6. TypeOK'
  BY <1>1, <1>4, <1>5 DEF CreateCallNotification, Handles, IInv, TypeOK, netVars, heldVars, videoVars, history, callVars, answers
<1>7. NoticeNamed'
  <2> SUFFICES ASSUME NEW w \in Online
               PROVE  /\ notices'[w] # <<>> => callMsg'[w] # NoUser
                      /\ newestOpen'[w] => notices'[w] # <<>> /\ notices'[w][Len(notices'[w])] = callMsg'[w]
    BY DEF NoticeNamed
  <2>1. CASE w = u
    BY <1>2, <1>3, <1>4, <2>1, NoUserAssumption DEF IInv, TypeOK
  <2>2. CASE w # u
    <3>1. notices'[w] = notices[w] /\ callMsg'[w] = callMsg[w] /\ newestOpen'[w] = newestOpen[w]
      BY <1>3, <2>2 DEF IInv, TypeOK
    <3> QED  BY <3>1 DEF IInv, NoticeNamed
  <2> QED  BY <2>1, <2>2
<1>8. VideoBacked'
  BY <1>1 DEF CreateCallNotification, Handles, IInv, VideoBacked, videoVars
<1> QED  BY <1>1, <1>6, <1>7, <1>8 DEF IInv

LEMMA OnStartServerKeeps ==
  ASSUME IInv, NEW u \in Online, OnStartServer(u)
  PROVE  IInv'
<1>1. /\ posted' \in [Online -> Seq(Posts)]
      /\ "WM_OPEN_VIDEOSERVER" \in ToSet(posted[u])
      /\ PostsBacked' /\ MessagesBacked' /\ AddressBacked' /\ BufferBacked' /\ CallerCalled'
      /\ \A w \in Online : (Called(w)' <=> Called(w)) /\ (Answering(w)' <=> Answering(w))
      /\ Consent' = Consent
  BY HandlesKeeps DEF OnStartServer
<1>2. Answering(u)
  BY <1>1 DEF IInv, PostsBacked
<1>3. server' = [server EXCEPT ![u] = IF @ = "none" THEN "starting" ELSE @]
  BY DEF OnStartServer
<1>4. TypeOK'
  BY <1>1, <1>3 DEF OnStartServer, Handles, IInv, TypeOK, netVars, heldVars, noteVars, history, callVars, answers
<1>5. NoticeNamed'
  BY DEF OnStartServer, IInv, NoticeNamed, noteVars
<1>6. VideoBacked'
  BY <1>1, <1>2, <1>3 DEF OnStartServer, Handles, IInv, TypeOK, VideoBacked, history, callVars, answers
<1> QED  BY <1>1, <1>4, <1>5, <1>6 DEF IInv

LEMMA OnConnectKeeps ==
  ASSUME IInv, NEW u \in Online, OnConnect(u)
  PROVE  IInv'
<1>1. /\ posted' \in [Online -> Seq(Posts)]
      /\ "WM_OPEN_VIDEOCLIENT" \in ToSet(posted[u])
      /\ PostsBacked' /\ MessagesBacked' /\ AddressBacked' /\ BufferBacked' /\ CallerCalled'
      /\ \A w \in Online : (Called(w)' <=> Called(w)) /\ (Answering(w)' <=> Answering(w))
      /\ Consent' = Consent
  BY HandlesKeeps DEF OnConnect
<1>2. heldAddr[u] \in Online /\ <<heldAddr[u], u>> \in Consent /\ Called(u)
  BY <1>1 DEF IInv, TypeOK, PostsBacked, AddressBacked
<1>3. \/ client' = [client EXCEPT ![u] = heldAddr[u]] /\ clientUp' = [clientUp EXCEPT ![u] = TRUE]
      \/ client' = client /\ clientUp' = clientUp
  BY DEF OnConnect
<1>4. client' \in [Online -> Online \cup {NoUser}] /\ clientUp' \in [Online -> BOOLEAN]
  BY <1>2, <1>3 DEF IInv, TypeOK
<1>5. TypeOK'
  BY <1>1, <1>4 DEF OnConnect, Handles, IInv, TypeOK, netVars, heldVars, noteVars, history, callVars, answers
<1>6. NoticeNamed'
  BY DEF OnConnect, IInv, NoticeNamed, noteVars
<1>7. VideoBacked'
  BY <1>1, <1>2, <1>3 DEF OnConnect, Handles, IInv, TypeOK, VideoBacked, history, callVars, answers
<1> QED  BY <1>1, <1>5, <1>6, <1>7 DEF IInv

LEMMA OnClientLostKeeps ==
  ASSUME IInv, NEW u \in Online, OnClientLost(u)
  PROVE  IInv'
<1>1. /\ posted' \in [Online -> Seq(Posts)]
      /\ PostsBacked' /\ MessagesBacked' /\ AddressBacked' /\ BufferBacked' /\ CallerCalled'
  BY HandlesKeeps DEF OnClientLost
<1>2. /\ server' \in [Online -> {"none", "starting", "running", "ended"}]
      /\ client' \in [Online -> Online \cup {NoUser}]
      /\ clientUp' \in [Online -> BOOLEAN] /\ stuck' \in [Online -> BOOLEAN]
      /\ VideoBacked'
  BY HangUpKeeps DEF OnClientLost, Handles
<1>3. TypeOK'
  BY <1>1, <1>2 DEF OnClientLost, Handles, IInv, TypeOK, netVars, heldVars, noteVars, history, callVars, answers
<1>4. NoticeNamed'
  BY DEF OnClientLost, IInv, NoticeNamed, noteVars
<1> QED  BY <1>1, <1>2, <1>3, <1>4 DEF IInv
-----------------------------------------------------------------------------
(* The video threads.                                                        *)

LEMMA VideoServerKeeps ==
  ASSUME IInv, NEW u \in Online, VideoServerListens(u) \/ VideoServerEnds(u)
  PROVE  IInv'
<1>1. /\ server[u] \in {"starting", "running"}
      /\ \/ server' = [server EXCEPT ![u] = "running"] /\ stuck' = stuck
         \/ /\ server' = [server EXCEPT ![u] = IF stuck[u] THEN "none" ELSE "ended"]
            /\ stuck' = [stuck EXCEPT ![u] = FALSE]
  BY DEF VideoServerListens, VideoServerEnds
<1>2. UNCHANGED <<devStatus, netVars, heldVars, posted, noteVars, client, clientUp, history>>
  BY DEF VideoServerListens, VideoServerEnds
<1>3. TypeOK'
  BY <1>1, <1>2 DEF IInv, TypeOK, netVars, heldVars, noteVars, history, callVars, answers
<1>4. PostsBacked' /\ MessagesBacked' /\ AddressBacked' /\ BufferBacked' /\ NoticeNamed' /\ CallerCalled'
  BY <1>2 DEF IInv, PostsBacked, MessagesBacked, AddressBacked, BufferBacked, NoticeNamed, CallerCalled,
              Called, Answering, Consent, netVars, heldVars, noteVars, history, callVars, answers
<1>5. \A w \in Online : server'[w] # "none" => server[w] # "none"
  BY <1>1 DEF IInv, TypeOK
<1>6. VideoBacked'
  BY <1>2, <1>5 DEF IInv, VideoBacked, Called, Answering, Consent, history, callVars, answers
<1> QED  BY <1>3, <1>4, <1>6 DEF IInv

LEMMA VideoClientEndsKeeps ==
  ASSUME IInv, NEW u \in Online, VideoClientEnds(u)
  PROVE  IInv'
<1>1. /\ posted' \in [Online -> Seq(Posts)]
      /\ \A w \in Online : ToSet(posted'[w]) = IF w = u THEN ToSet(posted[w]) \cup {"WM_CLIENT_LOST"}
                                                       ELSE ToSet(posted[w])
  <2>1. "WM_CLIENT_LOST" \in Posts
    BY DEF Posts
  <2> QED  BY <2>1, PostKeeps DEF VideoClientEnds
<1>2. TypeOK'
  BY <1>1 DEF VideoClientEnds, IInv, TypeOK, netVars, heldVars, noteVars, history, callVars, answers
<1>3. PostsBacked'
  <2>1. \A w \in Online : \A x \in ToSet(posted'[w]) : x # "WM_CLIENT_LOST" => x \in ToSet(posted[w])
    BY <1>1
  <2>2. \A w \in Online : (Called(w)' <=> Called(w)) /\ (Answering(w)' <=> Answering(w))
    BY DEF VideoClientEnds, history, callVars, answers, Called, Answering
  <2>3. heldFrom' = heldFrom /\ heldAddr' = heldAddr
    BY DEF VideoClientEnds, heldVars
  <2> QED  BY <2>1, <2>2, <2>3 DEF IInv, PostsBacked
<1>4. MessagesBacked' /\ AddressBacked' /\ BufferBacked' /\ NoticeNamed' /\ CallerCalled' /\ VideoBacked'
  BY DEF VideoClientEnds, IInv, MessagesBacked, AddressBacked, BufferBacked, NoticeNamed, CallerCalled,
         VideoBacked, Called, Answering, Consent, netVars, heldVars, noteVars, history, callVars, answers
<1> QED  BY <1>2, <1>3, <1>4 DEF IInv
-----------------------------------------------------------------------------
(* The server relays, the client's thread receives.                          *)

\* A message goes to one user; an acceptance, to the one it is for.
LEMMA RelaysKeeps ==
  ASSUME IInv, NEW u \in Online, NEW to, toServer[u] # <<>>, Relays(u, to),
         Head(toServer[u]).type = "AcceptCall" => to = Head(toServer[u]).to
  PROVE  IInv'
<1> DEFINE m == Head(toServer[u])
<1>1. toServer[u] \in Seq(Messages)
  BY Sequences DEF IInv
<1>2. /\ Tail(toServer[u]) \in Seq(Messages) /\ ToSet(Tail(toServer[u])) \subseteq ToSet(toServer[u])
      /\ m \in ToSet(toServer[u]) /\ m \in Messages
  BY <1>1, TailToSet
<1>3. toServer' = [toServer EXCEPT ![u] = Tail(toServer[u])]
  BY DEF Relays
<1>4. toUser' = [w \in Online |-> IF w = to THEN Append(toUser[w], m) ELSE toUser[w]]
  BY DEF Relays
<1>5. m.type = "AcceptCall" => to = m.to
  OBVIOUS
<1>6. m.type = "AcceptCall" => <<m.from, m.to>> \in Consent
  BY <1>2 DEF IInv, MessagesBacked
<1>7. UNCHANGED <<devStatus, heldVars, posted, noteVars, videoVars, history>>
  BY DEF Relays
<1> HIDE DEF m
<1>8. ASSUME NEW w \in Online
      PROVE  /\ Append(toUser[w], m) \in Seq(Messages)
             /\ ToSet(Append(toUser[w], m)) = ToSet(toUser[w]) \cup {m}
  <2>1. toUser[w] \in Seq(Messages)
    BY Sequences DEF IInv
  <2> QED  BY <1>2, <2>1, AppendToSet
<1>9. toServer' \in [Online -> Seq(Messages)] /\ toUser' \in [Online -> Seq(Messages)]
  BY <1>2, <1>3, <1>4, <1>8 DEF IInv, TypeOK
<1>10. TypeOK'
  BY <1>7, <1>9 DEF IInv, TypeOK, heldVars, noteVars, videoVars, history, callVars, answers
<1>11. MessagesBacked'
  <2>1. ASSUME NEW w \in Online, NEW n \in ToSet(toServer'[w]), n.type = "AcceptCall"
        PROVE  n.from = w /\ <<w, n.to>> \in Consent
    BY <1>2, <1>3, <2>1 DEF IInv, TypeOK, MessagesBacked
  <2>2. ASSUME NEW w \in Online, NEW n \in ToSet(toUser'[w]), n.type = "AcceptCall"
        PROVE  <<n.from, w>> \in Consent
    <3>1. toUser'[w] = IF w = to THEN Append(toUser[w], m) ELSE toUser[w]
      BY <1>4
    <3>2. n \in ToSet(toUser[w]) \/ (n = m /\ w = to)
      <4>1. CASE w = to
        BY <1>8, <2>2, <3>1, <4>1
      <4>2. CASE w # to
        BY <2>2, <3>1, <4>2
      <4> QED  BY <4>1, <4>2
    <3> QED  BY <1>5, <1>6, <2>2, <3>2 DEF IInv, MessagesBacked
  <2> QED  BY <1>7, <2>1, <2>2 DEF MessagesBacked, history, answers, Consent
<1>12. PostsBacked' /\ AddressBacked' /\ BufferBacked' /\ NoticeNamed' /\ CallerCalled' /\ VideoBacked'
  BY <1>7 DEF IInv, PostsBacked, AddressBacked, BufferBacked, NoticeNamed, CallerCalled, VideoBacked,
              Called, Answering, Consent, heldVars, noteVars, videoVars, history, callVars, answers
<1> QED  BY <1>10, <1>11, <1>12 DEF IInv

LEMMA RelayKeeps ==
  ASSUME IInv, NEW u \in Online, Relay(u)
  PROVE  IInv'
<1>1. CASE RelayRequest(u)
  BY <1>1, RelaysKeeps DEF RelayRequest, Relayed
<1>2. CASE RelayAccept(u)
  BY <1>2, RelaysKeeps DEF RelayAccept, Relayed
<1>3. CASE RelayReject(u)
  BY <1>3, RelaysKeeps DEF RelayReject, Relayed
<1> QED  BY <1>1, <1>2, <1>3 DEF Relay

\* What every message does to the channel and to the name in the buffer.
LEMMA ReceivesKeeps ==
  ASSUME IInv, NEW u \in Online, NEW t, Receives(u, t)
  PROVE  /\ toUser' \in [Online -> Seq(Messages)]
         /\ Head(toUser[u]) \in Messages /\ Head(toUser[u]).type = t
         /\ Head(toUser[u]).from \in Users
         /\ t = "AcceptCall" => <<Head(toUser[u]).from, u>> \in Consent
         /\ t \in Types /\ heldType' = [heldType EXCEPT ![u] = t]
         /\ heldFrom' \in [Online -> Users \cup {NoUser}]
         /\ \A w \in Online : heldFrom[w] # NoUser => heldFrom'[w] # NoUser
         /\ heldFrom'[u] # NoUser
         /\ MessagesBacked' /\ NoticeNamed' /\ VideoBacked'
         /\ \A w \in Online : (Called(w)' <=> Called(w)) /\ (Answering(w)' <=> Answering(w))
         /\ Consent' = Consent
<1> DEFINE m == Head(toUser[u])
<1>1. toUser[u] \in Seq(Messages) /\ toUser[u] # <<>> /\ m.type = t
  BY Sequences DEF IInv, Receives
<1>2. /\ Tail(toUser[u]) \in Seq(Messages) /\ ToSet(Tail(toUser[u])) \subseteq ToSet(toUser[u])
      /\ m \in ToSet(toUser[u]) /\ m \in Messages
  BY <1>1, TailToSet
<1>3. /\ toUser' = [toUser EXCEPT ![u] = Tail(toUser[u])] /\ heldFrom' = [heldFrom EXCEPT ![u] = m.from]
      /\ heldType' = [heldType EXCEPT ![u] = t]
  BY DEF Receives
<1>4. t = "AcceptCall" => <<m.from, u>> \in Consent
  BY <1>1, <1>2 DEF IInv, MessagesBacked
<1> HIDE DEF m
<1>5. m.from \in Users /\ m.from # NoUser /\ m.type \in Types
  BY <1>2, NoUserAssumption DEF Messages
<1>6. /\ toUser' \in [Online -> Seq(Messages)]
      /\ \A w \in Online : ToSet(toUser'[w]) \subseteq ToSet(toUser[w])
  BY <1>2, <1>3 DEF IInv, TypeOK
<1>7. /\ heldFrom' \in [Online -> Users \cup {NoUser}] /\ heldFrom'[u] # NoUser
      /\ \A w \in Online : heldFrom[w] # NoUser => heldFrom'[w] # NoUser
  BY <1>3, <1>5 DEF IInv, TypeOK
<1>8. UNCHANGED <<toServer, noteVars, videoVars, callVars, answers>>
  BY DEF Receives
<1>9. /\ \A w \in Online : (Called(w)' <=> Called(w)) /\ (Answering(w)' <=> Answering(w))
      /\ Consent' = Consent
  BY <1>8 DEF Called, Answering, Consent, callVars, answers
<1>10. MessagesBacked'
  BY <1>6, <1>8, <1>9 DEF IInv, MessagesBacked
<1>11. NoticeNamed' /\ VideoBacked'
  BY <1>8, <1>9 DEF IInv, NoticeNamed, VideoBacked, noteVars, videoVars
<1> QED  BY <1>1, <1>2, <1>3, <1>4, <1>5, <1>6, <1>7, <1>9, <1>10, <1>11 DEF m

LEMMA ReceiveRequestKeeps ==
  ASSUME IInv, NEW u \in Online, ReceiveRequest(u)
  PROVE  IInv'
<1>1. /\ toUser' \in [Online -> Seq(Messages)]
      /\ heldFrom' \in [Online -> Users \cup {NoUser}]
      /\ \A w \in Online : heldFrom[w] # NoUser => heldFrom'[w] # NoUser
      /\ heldFrom'[u] # NoUser
      /\ heldType' = [heldType EXCEPT ![u] = "RequestCall"] /\ "RequestCall" \in Types
      /\ MessagesBacked' /\ NoticeNamed' /\ VideoBacked'
      /\ \A w \in Online : (Called(w)' <=> Called(w)) /\ (Answering(w)' <=> Answering(w))
      /\ Consent' = Consent
  BY ReceivesKeeps DEF ReceiveRequest
<1>2. /\ posted' \in [Online -> Seq(Posts)]
      /\ \A w \in Online : ToSet(posted'[w]) = IF w = u THEN ToSet(posted[w]) \cup {"WM_OPEN_CALLREQUEST"}
                                                       ELSE ToSet(posted[w])
  <2>1. "WM_OPEN_CALLREQUEST" \in Posts
    BY DEF Posts
  <2> QED  BY <2>1, PostKeeps DEF ReceiveRequest
<1>3. TypeOK'
  <2>1. heldType' \in [Online -> Types \cup {"none"}]
    BY <1>1 DEF IInv, TypeOK
  <2> QED  BY <1>1, <1>2, <2>1 DEF ReceiveRequest, Receives, IInv, TypeOK, noteVars, videoVars, callVars, answers
<1>4. PostsBacked'
  <2>1. \A w \in Online : \A x \in ToSet(posted'[w]) :
          x \in ToSet(posted[w]) \/ (w = u /\ x = "WM_OPEN_CALLREQUEST")
    BY <1>2
  <2>2. heldAddr' = heldAddr
    BY DEF ReceiveRequest
  <2> QED  BY <1>1, <2>1, <2>2 DEF IInv, PostsBacked
<1>5. AddressBacked' /\ CallerCalled'
  BY <1>1 DEF ReceiveRequest, IInv, AddressBacked, CallerCalled
<1>6. BufferBacked'
  BY <1>1 DEF ReceiveRequest, IInv, TypeOK, BufferBacked
<1> QED  BY <1>1, <1>3, <1>4, <1>5, <1>6 DEF IInv

\* Only a caller dials.
LEMMA DialsKeeps ==
  ASSUME IInv, NEW u \in Online, Dials(u)
  PROVE  /\ devStatus' \in [Online -> {"Connected", "Caller", "Callee", "Calling"}]
         /\ dials' \in [Online -> Nat] /\ posted' \in [Online -> Seq(Posts)]
         /\ \A w \in Online : devStatus'[w] = "Caller" => devStatus[w] = "Caller"
         /\ \A w \in Online : \/ ToSet(posted'[w]) = ToSet(posted[w])
                             \/ /\ w = u /\ devStatus[u] = "Caller"
                                /\ ToSet(posted'[w]) = ToSet(posted[w]) \cup {"WM_OPEN_VIDEOCLIENT"}
<1>1. \/ /\ devStatus[u] = "Caller" /\ devStatus' = [devStatus EXCEPT ![u] = "Calling"]
         /\ Post(u, "WM_OPEN_VIDEOCLIENT") /\ dials' = [dials EXCEPT ![u] = @ + 1]
      \/ UNCHANGED <<devStatus, posted, dials>>
  BY DEF Dials
<1>2. /\ devStatus' \in [Online -> {"Connected", "Caller", "Callee", "Calling"}]
      /\ dials' \in [Online -> Nat]
      /\ \A w \in Online : devStatus'[w] = "Caller" => devStatus[w] = "Caller"
  <2>1. CASE UNCHANGED <<devStatus, posted, dials>>
    BY <2>1 DEF IInv, TypeOK
  <2>2. CASE devStatus' = [devStatus EXCEPT ![u] = "Calling"] /\ dials' = [dials EXCEPT ![u] = @ + 1]
    <3>1. dials' \in [Online -> Nat]
      BY <2>2, Increment DEF IInv, TypeOK
    <3>2. devStatus' \in [Online -> {"Connected", "Caller", "Callee", "Calling"}]
      BY <2>2 DEF IInv, TypeOK
    <3>3. \A w \in Online : devStatus'[w] = "Caller" => devStatus[w] = "Caller"
      BY <2>2 DEF IInv, TypeOK
    <3> QED  BY <3>1, <3>2, <3>3
  <2> QED  BY <1>1, <2>1, <2>2
<1>3. /\ posted' \in [Online -> Seq(Posts)]
      /\ \A w \in Online : \/ ToSet(posted'[w]) = ToSet(posted[w])
                          \/ /\ w = u /\ devStatus[u] = "Caller"
                             /\ ToSet(posted'[w]) = ToSet(posted[w]) \cup {"WM_OPEN_VIDEOCLIENT"}
  <2>1. "WM_OPEN_VIDEOCLIENT" \in Posts
    BY DEF Posts
  <2>2. CASE Post(u, "WM_OPEN_VIDEOCLIENT") /\ devStatus[u] = "Caller"
    BY <2>1, <2>2, PostKeeps
  <2>3. CASE UNCHANGED posted
    BY <2>3 DEF IInv, TypeOK
  <2> QED  BY <1>1, <2>2, <2>3
<1> QED  BY <1>2, <1>3

\* What a dial is, for an address that is in the buffer.
LEMMA DialsBacked ==
  ASSUME IInv, NEW u \in Online, Dials(u), heldAddr'[u] # NoUser, heldFrom' \in [Online -> Users \cup {NoUser}],
         \A w \in Online : heldAddr[w] # NoUser => heldAddr'[w] # NoUser,
         \A w \in Online : heldFrom[w] # NoUser => heldFrom'[w] # NoUser,
         \A w \in Online : (Called(w)' <=> Called(w)) /\ (Answering(w)' <=> Answering(w))
  PROVE  PostsBacked' /\ CallerCalled'
<1>1. /\ \A w \in Online : devStatus'[w] = "Caller" => devStatus[w] = "Caller"
      /\ \A w \in Online : \/ ToSet(posted'[w]) = ToSet(posted[w])
                          \/ /\ w = u /\ devStatus[u] = "Caller"
                             /\ ToSet(posted'[w]) = ToSet(posted[w]) \cup {"WM_OPEN_VIDEOCLIENT"}
  BY DialsKeeps
<1>2. PostsBacked'
  BY <1>1 DEF IInv, PostsBacked, CallerCalled
<1>3. CallerCalled'
  BY <1>1 DEF IInv, CallerCalled
<1> QED  BY <1>2, <1>3

\* Only a caller opens a video client, and the address is the accepter's.
LEMMA ReceiveAcceptKeeps ==
  ASSUME IInv, NEW u \in Online, ReceiveAccept(u)
  PROVE  IInv'
<1> DEFINE a == Head(toUser[u]).from
<1>1. /\ toUser' \in [Online -> Seq(Messages)]
      /\ heldFrom' \in [Online -> Users \cup {NoUser}]
      /\ <<a, u>> \in Consent
      /\ \A w \in Online : heldFrom[w] # NoUser => heldFrom'[w] # NoUser
      /\ heldType' = [heldType EXCEPT ![u] = "AcceptCall"] /\ "AcceptCall" \in Types
      /\ MessagesBacked' /\ NoticeNamed' /\ VideoBacked'
      /\ \A w \in Online : (Called(w)' <=> Called(w)) /\ (Answering(w)' <=> Answering(w))
      /\ Consent' = Consent
  BY ReceivesKeeps DEF ReceiveAccept
<1>2. heldAddr' = [heldAddr EXCEPT ![u] = a] /\ Dials(u)
  BY DEF ReceiveAccept
<1>3. UNCHANGED <<toServer, noteVars, videoVars, callVars, answers, again, calls>>
  BY DEF ReceiveAccept, Receives
<1> HIDE DEF a
<1>4. a \in Online /\ a # NoUser
  BY <1>1, OnlineAssumption, NoUserAssumption DEF IInv, TypeOK, Consent
<1>5. heldAddr' \in [Online -> Online \cup {NoUser}] /\ AddressBacked'
  BY <1>1, <1>2, <1>4 DEF IInv, TypeOK, AddressBacked
<1>6. heldAddr'[u] # NoUser /\ \A w \in Online : heldAddr[w] # NoUser => heldAddr'[w] # NoUser
  BY <1>2, <1>4 DEF IInv, TypeOK
<1>7. BufferBacked'
  BY <1>1, <1>6 DEF IInv, TypeOK, BufferBacked
<1>8. PostsBacked' /\ CallerCalled'
  BY <1>1, <1>2, <1>6, DialsBacked
<1>9. /\ devStatus' \in [Online -> {"Connected", "Caller", "Callee", "Calling"}]
      /\ dials' \in [Online -> Nat] /\ posted' \in [Online -> Seq(Posts)]
  BY <1>2, DialsKeeps
<1>10. heldType' \in [Online -> Types \cup {"none"}]
  BY <1>1 DEF IInv, TypeOK
<1>11. TypeOK'
  BY <1>1, <1>3, <1>5, <1>9, <1>10 DEF IInv, TypeOK, noteVars, videoVars, callVars, answers
<1> QED  BY <1>1, <1>5, <1>7, <1>8, <1>11 DEF IInv

LEMMA ReceiveRejectKeeps ==
  ASSUME IInv, NEW u \in Online, ReceiveReject(u)
  PROVE  IInv'
<1>1. /\ toUser' \in [Online -> Seq(Messages)]
      /\ heldFrom' \in [Online -> Users \cup {NoUser}]
      /\ \A w \in Online : heldFrom[w] # NoUser => heldFrom'[w] # NoUser
      /\ heldType' = [heldType EXCEPT ![u] = "RejectCall"] /\ "RejectCall" \in Types
      /\ MessagesBacked' /\ NoticeNamed' /\ VideoBacked'
      /\ \A w \in Online : (Called(w)' <=> Called(w)) /\ (Answering(w)' <=> Answering(w))
      /\ Consent' = Consent
  BY ReceivesKeeps DEF ReceiveReject
<1>2. TypeOK'
  <2>1. heldType' \in [Online -> Types \cup {"none"}]
    BY <1>1 DEF IInv, TypeOK
  <2>2. devStatus' \in [Online -> {"Connected", "Caller", "Callee", "Calling"}]
    BY DEF ReceiveReject, IInv, TypeOK
  <2> QED  BY <1>1, <2>1, <2>2 DEF ReceiveReject, Receives, IInv, TypeOK, noteVars, videoVars, callVars, answers
<1>3. PostsBacked'
  BY <1>1 DEF ReceiveReject, IInv, PostsBacked
<1>4. AddressBacked' /\ CallerCalled'
  BY <1>1 DEF ReceiveReject, IInv, TypeOK, AddressBacked, CallerCalled
<1>5. BufferBacked'
  BY <1>1 DEF ReceiveReject, IInv, TypeOK, BufferBacked
<1> QED  BY <1>1, <1>2, <1>3, <1>4, <1>5 DEF IInv

\* Whatever is handled once more, what it needs is still in the buffer.
LEMMA HandlesAgainKeeps ==
  ASSUME IInv, NEW u \in Online, HandlesAgain(u)
  PROVE  IInv'
<1>1. UNCHANGED <<netVars, heldVars, noteVars, videoVars, callVars, answers>>
  BY DEF HandlesAgain
<1>2. /\ \A w \in Online : (Called(w)' <=> Called(w)) /\ (Answering(w)' <=> Answering(w))
      /\ Consent' = Consent
  BY <1>1 DEF Called, Answering, Consent, callVars, answers
<1>3. MessagesBacked' /\ AddressBacked' /\ BufferBacked' /\ NoticeNamed' /\ VideoBacked'
  BY <1>1, <1>2 DEF IInv, MessagesBacked, AddressBacked, BufferBacked, NoticeNamed, VideoBacked,
                    netVars, heldVars, noteVars, videoVars
<1>4. CASE /\ heldType[u] = "RequestCall" /\ calls < MaxCalls /\ Post(u, "WM_OPEN_CALLREQUEST")
           /\ again' = [again EXCEPT ![u] = @ + 1] /\ calls' = calls + 1
           /\ UNCHANGED <<devStatus, dials>>
  <2>1. /\ posted' \in [Online -> Seq(Posts)]
        /\ \A w \in Online : ToSet(posted'[w]) = IF w = u THEN ToSet(posted[w]) \cup {"WM_OPEN_CALLREQUEST"}
                                                         ELSE ToSet(posted[w])
    <3>1. "WM_OPEN_CALLREQUEST" \in Posts
      BY DEF Posts
    <3> QED  BY <1>4, <3>1, PostKeeps
  <2>2. heldFrom[u] # NoUser /\ UNCHANGED <<heldFrom, heldAddr>>
    BY <1>1, <1>4 DEF IInv, BufferBacked, heldVars
  <2>3. PostsBacked'
    <3>1. \A w \in Online : \A x \in ToSet(posted'[w]) :
            x \in ToSet(posted[w]) \/ (w = u /\ x = "WM_OPEN_CALLREQUEST")
      BY <2>1
    <3> QED  BY <1>2, <2>2, <3>1 DEF IInv, PostsBacked
  <2>4. again' \in [Online -> Nat] /\ calls' \in 0 .. MaxCalls
    <3>1. again \in [Online -> Nat] /\ calls \in 0 .. MaxCalls
      BY DEF IInv, TypeOK
    <3>2. calls' \in 0 .. MaxCalls
      BY <1>4, <3>1, MaxCallsAssumption
    <3> QED  BY <1>4, <3>1, <3>2, Increment
  <2>5. TypeOK'
    BY <1>1, <1>4, <2>1, <2>4 DEF IInv, TypeOK, netVars, heldVars, noteVars, videoVars, callVars, answers
  <2>6. CallerCalled'
    BY <1>2, <1>4 DEF IInv, CallerCalled
  <2> QED  BY <1>3, <2>3, <2>5, <2>6 DEF IInv
<1>5. CASE heldType[u] = "AcceptCall" /\ Dials(u) /\ UNCHANGED <<again, calls>>
  <2>1. heldAddr[u] # NoUser /\ UNCHANGED <<heldFrom, heldAddr>>
    BY <1>1, <1>5 DEF IInv, BufferBacked, heldVars
  <2>2. heldFrom' \in [Online -> Users \cup {NoUser}]
    BY <2>1 DEF IInv, TypeOK
  <2>3. PostsBacked' /\ CallerCalled'
    BY <1>2, <1>5, <2>1, <2>2, DialsBacked
  <2>4. /\ devStatus' \in [Online -> {"Connected", "Caller", "Callee", "Calling"}]
        /\ dials' \in [Online -> Nat] /\ posted' \in [Online -> Seq(Posts)]
    BY <1>5, DialsKeeps
  <2>5. TypeOK'
    BY <1>1, <1>5, <2>4 DEF IInv, TypeOK, netVars, heldVars, noteVars, videoVars, callVars, answers
  <2> QED  BY <1>3, <2>3, <2>5 DEF IInv
<1>6. CASE /\ heldType[u] = "RejectCall" /\ devStatus' = [devStatus EXCEPT ![u] = "Connected"]
           /\ UNCHANGED <<posted, dials, again, calls>>
  <2>1. TypeOK'
    BY <1>1, <1>6 DEF IInv, TypeOK, netVars, heldVars, noteVars, videoVars, callVars, answers
  <2>2. PostsBacked'
    BY <1>1, <1>2, <1>6 DEF IInv, PostsBacked, heldVars
  <2>3. CallerCalled'
    BY <1>2, <1>6 DEF IInv, TypeOK, CallerCalled
  <2> QED  BY <1>3, <2>1, <2>2, <2>3 DEF IInv
<1> QED  BY <1>4, <1>5, <1>6 DEF HandlesAgain
-----------------------------------------------------------------------------
\* The invariant is inductive: it holds at first, and every step keeps it.
THEOREM Invariance == Spec => []IInv
<1>1. IInv /\ [Next]_vars => IInv'
  <2> SUFFICES ASSUME IInv, [Next]_vars PROVE IInv'
    OBVIOUS
  <2>1. ASSUME NEW u \in Online, User(u) PROVE IInv'
    BY <2>1, CallKeeps, AcceptKeeps, DenyKeeps, IgnoreKeeps, PressDenyKeeps DEF User
  <2>2. ASSUME NEW u \in Online, Gui(u) PROVE IInv'
    BY <2>2, CreateCallNotificationKeeps, OnStartServerKeeps, OnConnectKeeps, OnClientLostKeeps DEF Gui
  <2>3. ASSUME NEW u \in Online, Video(u) PROVE IInv'
    BY <2>3, VideoServerKeeps, VideoClientEndsKeeps DEF Video
  <2>4. ASSUME NEW u \in Online, Receive(u) PROVE IInv'
    BY <2>4, ReceiveRequestKeeps, ReceiveAcceptKeeps, ReceiveRejectKeeps DEF Receive
  <2>5. CASE UNCHANGED vars
    BY <2>5 DEF IInv, TypeOK, PostsBacked, MessagesBacked, AddressBacked, BufferBacked, NoticeNamed, CallerCalled,
                VideoBacked, Called, Answering, Consent, vars, netVars, heldVars, noteVars, videoVars, history,
                callVars, answers
  <2> QED  BY <2>1, <2>2, <2>3, <2>4, <2>5, RelayKeeps, HandlesAgainKeeps DEF Next
<1> QED  BY <1>1, InitIInv, PTL DEF Spec

\* Type correctness: the GUI threads handle only what they know, the buffer
\* names users, and a user is called over a connection that exists.
THEOREM TypeCorrect == Spec => []TypeOK
<1>1. IInv => TypeOK
  BY DEF IInv
<1> QED  BY <1>1, Invariance, PTL

\* What a user sends is added to its connection.
LEMMA SentToSet ==
  ASSUME IInv, NEW u \in Online, NEW ms \in Seq(Messages), sendMsgtoACS(u, ms)
  PROVE  \A w \in Online :
           ToSet(toServer'[w]) = IF w = u THEN ToSet(toServer[w]) \cup ToSet(ms)
                                          ELSE ToSet(toServer[w])
<1>1. toServer[u] \in Seq(Messages) BY Sequences DEF IInv
<1>2. ToSet(toServer[u] \o ms) = ToSet(toServer[u]) \cup ToSet(ms) BY <1>1, ConcatToSet
<1>3. toServer' = [toServer EXCEPT ![u] = toServer[u] \o ms] BY DEF sendMsgtoACS
<1> QED BY <1>2, <1>3 DEF IInv, TypeOK
-----------------------------------------------------------------------------
(* Who is named anywhere has called, or been called by, the user at whose  *)
(* end the name is, or is that user.                                       *)

\* A user's own messages are for acquaintances, and those it gets are from them.
MessagesAcquainted ==
  \A u \in Online :
    /\ \A m \in ToSet(toServer[u]) : m.from = u /\ Acquainted(u, m.to)
    /\ \A m \in ToSet(toUser[u]) : Acquainted(u, m.from)

\* So are the names in the buffer, in callMsg and in the video client.
NamesAcquainted ==
  \A u \in Online :
    /\ heldFrom[u] # NoUser => Acquainted(u, heldFrom[u])
    /\ heldAddr[u] # NoUser => Acquainted(u, heldAddr[u])
    /\ callMsg[u] # NoUser => Acquainted(u, callMsg[u])
    /\ client[u] # NoUser => Acquainted(u, client[u])

Acquaintance == MessagesAcquainted /\ NamesAcquainted

\* What a step may put in those places.
NamesKept ==
  \A w \in Online :
    /\ heldFrom'[w] = heldFrom[w] \/ Acquainted(w, heldFrom[w])'
    /\ heldAddr'[w] = heldAddr[w] \/ Acquainted(w, heldAddr[w])'
    /\ callMsg'[w] = callMsg[w] \/ Acquainted(w, callMsg[w])'
    /\ client'[w] \in {client[w], NoUser} \/ Acquainted(w, client[w])'

SendsToAcquaintances ==
  \A w \in Online : \A m \in ToSet(toServer'[w]) :
    m \in ToSet(toServer[w]) \/ (m.from = w /\ Acquainted(w, m.to)')

GetsFromAcquaintances ==
  \A w \in Online : \A m \in ToSet(toUser'[w]) :
    m \in ToSet(toUser[w]) \/ Acquainted(w, m.from)'

OnlyAcquaintances ==
  called \subseteq called' /\ NamesKept /\ SendsToAcquaintances /\ GetsFromAcquaintances

LEMMA AcquaintanceKept ==
  ASSUME Acquaintance, OnlyAcquaintances
  PROVE  Acquaintance'
<1>1. \A a, b : Acquainted(a, b) => Acquainted(a, b)'
  BY DEF OnlyAcquaintances, Acquainted
<1>2. MessagesAcquainted'
  BY <1>1 DEF Acquaintance, MessagesAcquainted, OnlyAcquaintances, SendsToAcquaintances, GetsFromAcquaintances
<1>3. NamesAcquainted'
  <2> SUFFICES ASSUME NEW u \in Online
               PROVE  /\ heldFrom'[u] # NoUser => Acquainted(u, heldFrom[u])'
                      /\ heldAddr'[u] # NoUser => Acquainted(u, heldAddr[u])'
                      /\ callMsg'[u] # NoUser => Acquainted(u, callMsg[u])'
                      /\ client'[u] # NoUser => Acquainted(u, client[u])'
    BY DEF NamesAcquainted
  <2>1. \A a, b : a = b /\ Acquainted(u, b) => Acquainted(u, a)'
    BY <1>1
  <2> QED  BY <2>1 DEF Acquaintance, NamesAcquainted, OnlyAcquaintances, NamesKept, Acquainted
<1> QED  BY <1>2, <1>3 DEF Acquaintance

\* Messages to one user whom the sender has called, or who is in its callMsg.
LEMMA SendAcquaints ==
  ASSUME IInv, NEW u \in Online, NEW v, NEW ms \in Seq(Messages), sendMsgtoACS(u, ms),
         \A m \in ToSet(ms) : m.from = u /\ m.to = v,
         Acquainted(u, v)', called \subseteq called', UNCHANGED <<toUser, heldVars, callMsg, client>>
  PROVE  OnlyAcquaintances
<1>1. \A w \in Online :
        ToSet(toServer'[w]) = IF w = u THEN ToSet(toServer[w]) \cup ToSet(ms) ELSE ToSet(toServer[w])
  BY SentToSet
<1>2. SendsToAcquaintances
  <2> SUFFICES ASSUME NEW w \in Online, NEW m \in ToSet(toServer'[w]), m \notin ToSet(toServer[w])
               PROVE  m.from = w /\ Acquainted(w, m.to)'
    BY DEF SendsToAcquaintances
  <2>1. w = u /\ m \in ToSet(ms)
    BY <1>1
  <2> QED  BY <2>1 DEF Acquainted
<1>3. NamesKept /\ GetsFromAcquaintances
  BY DEF NamesKept, GetsFromAcquaintances, heldVars
<1> QED  BY <1>2, <1>3 DEF OnlyAcquaintances

LEMMA UserAcquaints ==
  ASSUME IInv, Acquaintance, NEW u \in Online, User(u)
  PROVE  OnlyAcquaintances
<1>1. ASSUME NEW v \in Users, Call(u, v) PROVE OnlyAcquaintances
  <2> DEFINE m == Message("RequestCall", u, v)
             ms == <<m>>
  <2>1. m \in Messages /\ m.from = u /\ m.to = v
    BY OnlineAssumption DEF Message, Messages, Types
  <2> HIDE DEF m
  <2>2. ms \in Seq(Messages) /\ ToSet(ms) = {m}
    BY <2>1 DEF ToSet
  <2>3. sendMsgtoACS(u, ms) /\ UNCHANGED <<toUser, heldVars, callMsg, client>>
    BY <1>1 DEF Call, noteVars, videoVars, m
  <2>4. Acquainted(u, v)' /\ called \subseteq called'
    BY <1>1 DEF Call, Acquainted
  <2> HIDE DEF ms
  <2> QED  BY <2>1, <2>2, <2>3, <2>4, SendAcquaints
<1>2. ASSUME NEW k \in DOMAIN notices[u], CloseNotice(u, k), UNCHANGED <<toUser, heldVars, client, called>>,
             NEW ms \in Seq(Messages), sendMsgtoACS(u, ms),
             \A m \in ToSet(ms) : m.from = u /\ m.to = callMsg[u]
      PROVE  OnlyAcquaintances
  <2>1. callMsg[u] \in Users /\ callMsg' = callMsg
    BY <1>2, CloseNoticeKeeps
  <2>2. Acquainted(u, callMsg[u])
    BY <2>1, NoUserAssumption DEF Acquaintance, NamesAcquainted
  <2>3. PICK v : v = callMsg[u]
    OBVIOUS
  <2>4. Acquainted(u, v)' /\ called \subseteq called'
    BY <1>2, <2>2, <2>3 DEF Acquainted
  <2>5. \A m \in ToSet(ms) : m.from = u /\ m.to = v
    BY <1>2, <2>3
  <2> QED  BY <1>2, <2>1, <2>4, <2>5, SendAcquaints
<1>3. ASSUME NEW k \in DOMAIN notices[u], Accept(u, k) PROVE OnlyAcquaintances
  <2> DEFINE a == Message("AcceptCall", u, callMsg[u])
             r == Message("RejectCall", u, callMsg[u])
             ms == <<a, r>>
  <2>1. callMsg[u] \in Users
    BY <1>3, CloseNoticeKeeps DEF Accept
  <2>2. /\ a \in Messages /\ a.from = u /\ a.to = callMsg[u]
        /\ r \in Messages /\ r.from = u /\ r.to = callMsg[u]
    BY <2>1, OnlineAssumption DEF Message, Messages, Types
  <2>3. /\ CloseNotice(u, k) /\ sendMsgtoACS(u, ms)
        /\ UNCHANGED <<toUser, heldVars, client, called>>
    BY <1>3 DEF Accept, videoVars, callVars
  <2> HIDE DEF a, r
  <2>4. ms \in Seq(Messages) /\ ToSet(ms) = {a, r}
    BY <2>2 DEF ToSet
  <2> HIDE DEF ms
  <2> QED  BY <1>2, <2>2, <2>3, <2>4
<1>4. ASSUME NEW k \in DOMAIN notices[u], Deny(u, k) PROVE OnlyAcquaintances
  <2> DEFINE r == Message("RejectCall", u, callMsg[u])
             ms == <<r>>
  <2>1. callMsg[u] \in Users
    BY <1>4, CloseNoticeKeeps DEF Deny
  <2>2. r \in Messages /\ r.from = u /\ r.to = callMsg[u]
    BY <2>1, OnlineAssumption DEF Message, Messages, Types
  <2>3. /\ CloseNotice(u, k) /\ sendMsgtoACS(u, ms)
        /\ UNCHANGED <<toUser, heldVars, client, called>>
    BY <1>4 DEF Deny, videoVars, history, callVars
  <2> HIDE DEF r
  <2>4. ms \in Seq(Messages) /\ ToSet(ms) = {r}
    BY <2>2 DEF ToSet
  <2> HIDE DEF ms
  <2> QED  BY <1>2, <2>2, <2>3, <2>4
<1>5. ASSUME NEW k \in DOMAIN notices[u], Ignore(u, k) PROVE OnlyAcquaintances
  BY <1>5 DEF Ignore, CloseNotice, netVars, heldVars, videoVars, history, callVars, OnlyAcquaintances, NamesKept,
              SendsToAcquaintances, GetsFromAcquaintances
<1>6. ASSUME PressDeny(u) PROVE OnlyAcquaintances
  <2>1. \A w \in Online : client'[w] \in {client[w], NoUser}
    BY <1>6 DEF PressDeny, HangUp, StopVideoClient, StopVideoServer, videoVars, IInv, TypeOK
  <2> QED  BY <1>6, <2>1 DEF PressDeny, netVars, heldVars, noteVars, history, callVars, OnlyAcquaintances, NamesKept,
                             SendsToAcquaintances, GetsFromAcquaintances
<1> QED  BY <1>1, <1>3, <1>4, <1>5, <1>6 DEF User

LEMMA GuiAcquaints ==
  ASSUME IInv, Acquaintance, NEW u \in Online, Gui(u)
  PROVE  OnlyAcquaintances
<1>1. PICK m : Handles(u, m)
  BY DEF Gui, CreateCallNotification, OnStartServer, OnConnect, OnClientLost
<1>2. UNCHANGED <<toServer, toUser, heldFrom, heldAddr, called>>
  BY <1>1 DEF Handles, netVars, heldVars, history, callVars
<1>3. SendsToAcquaintances /\ GetsFromAcquaintances
  BY <1>2 DEF SendsToAcquaintances, GetsFromAcquaintances
<1>4. \A w, b : Acquainted(w, b) => Acquainted(w, b)'
  BY <1>2 DEF Acquainted
<1>5. CASE CreateCallNotification(u)
  <2>1. callMsg' = [callMsg EXCEPT ![u] = heldFrom[u]] /\ client' = client
    BY <1>5 DEF CreateCallNotification, videoVars
  <2>2. heldFrom[u] # NoUser
    BY <1>5, HandlesKeeps DEF CreateCallNotification, IInv, PostsBacked
  <2>3. Acquainted(u, heldFrom[u])'
    BY <1>2, <2>2 DEF Acquaintance, NamesAcquainted, Acquainted
  <2>4. \A w \in Online : callMsg'[w] = callMsg[w] \/ (w = u /\ callMsg'[w] = heldFrom[u] /\ heldFrom'[u] = heldFrom[u])
    BY <1>2, <2>1 DEF IInv, TypeOK
  <2> QED  BY <1>2, <1>3, <2>1, <2>3, <2>4 DEF OnlyAcquaintances, NamesKept, Acquainted
<1>6. CASE OnConnect(u)
  <2>1. callMsg' = callMsg /\ (client' = [client EXCEPT ![u] = heldAddr[u]] \/ client' = client)
    BY <1>6 DEF OnConnect, noteVars
  <2>2. heldAddr[u] # NoUser
    BY <1>6, HandlesKeeps DEF OnConnect, IInv, PostsBacked
  <2>3. Acquainted(u, heldAddr[u])'
    BY <1>2, <2>2 DEF Acquaintance, NamesAcquainted, Acquainted
  <2>4. \A w \in Online : client'[w] = client[w] \/ (w = u /\ client'[w] = heldAddr[u] /\ heldAddr'[u] = heldAddr[u])
    BY <1>2, <2>1 DEF IInv, TypeOK
  <2> QED  BY <1>2, <1>3, <2>1, <2>3, <2>4 DEF OnlyAcquaintances, NamesKept, Acquainted
<1>7. CASE OnStartServer(u)
  BY <1>2, <1>3, <1>7 DEF OnStartServer, noteVars, OnlyAcquaintances, NamesKept
<1>8. CASE OnClientLost(u)
  <2>1. \A w \in Online : client'[w] \in {client[w], NoUser}
    BY <1>8 DEF OnClientLost, HangUp, StopVideoClient, StopVideoServer, videoVars, IInv, TypeOK
  <2> QED  BY <1>2, <1>3, <1>8, <2>1 DEF OnClientLost, noteVars, OnlyAcquaintances, NamesKept
<1> QED  BY <1>5, <1>6, <1>7, <1>8 DEF Gui

\* Whoever gets a message is the one it is for, or the one it is from.
LEMMA RelayAcquaints ==
  ASSUME IInv, Acquaintance, NEW u \in Online, Relay(u)
  PROVE  OnlyAcquaintances
<1>1. PICK to : toServer[u] # <<>> /\ Relays(u, to) /\ to \in {Head(toServer[u]).to, u}
  BY DEF Relay, RelayRequest, RelayAccept, RelayReject, Relayed
<1>9. PICK h : h = Head(toServer[u])
  OBVIOUS
<1>2. /\ toServer[u] \in Seq(Messages) /\ h \in Messages /\ h \in ToSet(toServer[u])
      /\ ToSet(Tail(toServer[u])) \subseteq ToSet(toServer[u])
  <2>1. toServer[u] \in Seq(Messages)
    BY Sequences DEF IInv
  <2> QED  BY <1>1, <1>9, <2>1, TailToSet
<1>3. h.from = u /\ Acquainted(u, h.to)
  BY <1>2 DEF Acquaintance, MessagesAcquainted
<1>4. /\ toServer' = [toServer EXCEPT ![u] = Tail(toServer[u])]
      /\ toUser' = [w \in Online |-> IF w = to THEN Append(toUser[w], h) ELSE toUser[w]]
      /\ UNCHANGED <<heldFrom, heldAddr, callMsg, client, called>>
  BY <1>1, <1>9 DEF Relays, heldVars, noteVars, videoVars, history, callVars
<1>5. SendsToAcquaintances
  BY <1>2, <1>4 DEF SendsToAcquaintances, IInv, TypeOK
<1>6. Acquainted(to, h.from)'
  BY <1>1, <1>3, <1>4, <1>9 DEF Acquainted
<1>7. GetsFromAcquaintances
  <2> SUFFICES ASSUME NEW w \in Online, NEW m \in ToSet(toUser'[w]), m \notin ToSet(toUser[w])
               PROVE  Acquainted(w, m.from)'
    BY DEF GetsFromAcquaintances
  <2>1. toUser'[w] = IF w = to THEN Append(toUser[w], h) ELSE toUser[w]
    BY <1>4
  <2>2. ToSet(Append(toUser[w], h)) = ToSet(toUser[w]) \cup {h}
    <3>1. toUser[w] \in Seq(Messages)
      BY Sequences DEF IInv
    <3> QED  BY <1>2, <3>1, AppendToSet
  <2>3. w = to /\ m = h
    <3>1. CASE w = to
      BY <2>1, <2>2, <3>1
    <3>2. CASE w # to
      BY <2>1, <3>2
    <3> QED  BY <3>1, <3>2
  <2> QED  BY <1>6, <2>3
<1>8. NamesKept
  BY <1>4 DEF NamesKept
<1> QED  BY <1>4, <1>5, <1>7, <1>8 DEF OnlyAcquaintances

\* The sender of what is received is one, and its name and address are kept.
LEMMA ReceiveAcquaints ==
  ASSUME IInv, Acquaintance, NEW u \in Online, Receive(u)
  PROVE  OnlyAcquaintances
<1>8. PICK a : a = Head(toUser[u]).from
  OBVIOUS
<1>1. /\ toUser[u] # <<>> /\ toUser' = [toUser EXCEPT ![u] = Tail(toUser[u])]
      /\ heldFrom' = [heldFrom EXCEPT ![u] = a]
      /\ heldAddr' = [heldAddr EXCEPT ![u] = a] \/ heldAddr' = heldAddr
      /\ UNCHANGED <<toServer, callMsg, client, called>>
  BY <1>8 DEF Receive, ReceiveRequest, ReceiveAccept, ReceiveReject, Receives, noteVars, videoVars, callVars
<1>2. Head(toUser[u]) \in ToSet(toUser[u]) /\ ToSet(Tail(toUser[u])) \subseteq ToSet(toUser[u])
  <2>1. toUser[u] \in Seq(Messages)
    BY Sequences DEF IInv
  <2> QED  BY <1>1, <2>1, TailToSet
<1>3. Acquainted(u, a)
  BY <1>2, <1>8 DEF Acquaintance, MessagesAcquainted
<1>4. Acquainted(u, a)'
  BY <1>1, <1>3 DEF Acquainted
<1>5. SendsToAcquaintances /\ GetsFromAcquaintances
  BY <1>1, <1>2 DEF SendsToAcquaintances, GetsFromAcquaintances, IInv, TypeOK
<1>6. \A w \in Online :
        /\ heldFrom'[w] = heldFrom[w] \/ (w = u /\ heldFrom'[w] = a)
        /\ heldAddr'[w] = heldAddr[w] \/ (w = u /\ heldAddr'[w] = a)
  BY <1>1 DEF IInv, TypeOK
<1>7. NamesKept
  BY <1>1, <1>4, <1>6 DEF NamesKept, Acquainted
<1> QED  BY <1>1, <1>5, <1>7 DEF OnlyAcquaintances

LEMMA StepAcquaints ==
  ASSUME IInv, Acquaintance, [Next]_vars
  PROVE  Acquaintance'
<1>1. ASSUME UNCHANGED <<toServer, toUser, heldFrom, heldAddr, callMsg, client, called>> PROVE OnlyAcquaintances
  BY <1>1 DEF OnlyAcquaintances, NamesKept, SendsToAcquaintances, GetsFromAcquaintances
<1>2. ASSUME NEW u \in Online, Video(u) PROVE OnlyAcquaintances
  BY <1>1, <1>2 DEF Video, VideoServerListens, VideoServerEnds, VideoClientEnds, netVars, heldVars, noteVars,
                    history, callVars
<1>3. ASSUME NEW u \in Online, HandlesAgain(u) PROVE OnlyAcquaintances
  BY <1>1, <1>3 DEF HandlesAgain, netVars, heldVars, noteVars, videoVars, callVars
<1>4. ASSUME UNCHANGED vars PROVE OnlyAcquaintances
  BY <1>1, <1>4 DEF vars, netVars, heldVars, noteVars, videoVars, history, callVars
<1>5. OnlyAcquaintances
  BY <1>2, <1>3, <1>4, UserAcquaints, GuiAcquaints, RelayAcquaints, ReceiveAcquaints DEF Next
<1> QED  BY <1>5, AcquaintanceKept

LEMMA InitAcquaintance == Init => Acquaintance
<1> SUFFICES ASSUME Init PROVE Acquaintance
  OBVIOUS
<1>1. \A u \in Online : ToSet(toServer[u]) = {} /\ ToSet(toUser[u]) = {}
  BY EmptyToSet DEF Init
<1> QED  BY <1>1 DEF Init, Acquaintance, MessagesAcquainted, NamesAcquainted

\* Video needs consent, however many users call each other, and however their
\* calls, answers, windows and reads interleave.  A video client is started only
\* for a user who pressed Call, and towards one who pressed Accept in a window
\* that showed this user, or in a window older than the newest, while the newest
\* was for this user; and one of the two has called the other, or they are one
\* (NotifyCall.cpp 18-110, AccessControlClient.cpp 595-608, LgVideoChatDemo.cpp).
THEOREM ConsentHolds == Spec => []VideoNeedsConsent
<1>1. Spec => []Acquaintance
  <2>1. IInv /\ Acquaintance /\ [Next]_vars => Acquaintance'
    BY StepAcquaints
  <2> QED  BY <2>1, InitAcquaintance, Invariance, PTL DEF Spec
<1>2. IInv /\ Acquaintance => VideoNeedsConsent
  BY DEF IInv, VideoBacked, Called, Answering, Consent, Acquaintance, NamesAcquainted, VideoNeedsConsent
<1> QED  BY <1>1, <1>2, Invariance, PTL
-----------------------------------------------------------------------------
(* Counting.  A place in some queues is added by an append, and a tail     *)
(* takes the first place of its queue away and moves the others up.        *)

LEMMA PlacesAre ==
  ASSUME NEW q, NEW U, NEW S, NEW x
  PROVE  x \in Places(q, U, S) <=>
           \E u, i : u \in U /\ i \in DOMAIN q[u] /\ x = <<u, i>> /\ q[u][i] \in S
<1>1. x \in Places(q, U, S) <=> \E u \in U : x \in {u} \X {i \in DOMAIN q[u] : q[u][i] \in S}
  BY DEF Places
<1> QED BY <1>1

\* The queue of u has got e, or has lost its head; the others are as they were.
Appended(T, q, r, U, S, u, e) ==
  /\ e \in T /\ \A w \in U : q[w] \in Seq(T)
  /\ \A w \in U \ {u} : r[w] = q[w]
  /\ u \in U => r[u] = Append(q[u], e)
  /\ IsFiniteSet(Places(q, U, S))

Consumed(T, q, r, U, S, u) ==
  /\ q[u] \in Seq(T) /\ q[u] # <<>> /\ \A w \in U : q[w] \in Seq(T)
  /\ \A w \in U \ {u} : r[w] = q[w]
  /\ u \in U => r[u] = Tail(q[u])
  /\ IsFiniteSet(Places(q, U, S))

LEMMA CountAppend ==
  ASSUME NEW T, NEW q, NEW r, NEW U, NEW S, NEW u, NEW e, Appended(T, q, r, U, S, u, e)
  PROVE  /\ IsFiniteSet(Places(r, U, S))
         /\ Count(q, U, S) \in Nat
         /\ Count(r, U, S) = Count(q, U, S) + (IF u \in U /\ e \in S THEN 1 ELSE 0)
<1> DEFINE P == Places(q, U, S)
           R == Places(r, U, S)
           n == <<u, Len(q[u]) + 1>>
<1>0. /\ e \in T /\ \A w \in U : q[w] \in Seq(T)
      /\ \A w \in U \ {u} : r[w] = q[w]
      /\ u \in U => r[u] = Append(q[u], e)
      /\ IsFiniteSet(Places(q, U, S))
  BY DEF Appended
<1> USE <1>0
<1>1. ASSUME u \in U
      PROVE  /\ DOMAIN q[u] = 1 .. Len(q[u]) /\ DOMAIN r[u] = 1 .. (Len(q[u]) + 1)
             /\ Len(q[u]) \in Nat
             /\ \A i \in 1 .. Len(q[u]) : r[u][i] = q[u][i]
             /\ r[u][Len(q[u]) + 1] = e
  BY <1>1
<1>2. CASE u \in U /\ e \in S
  <2>1. n \notin P
    BY <1>1, <1>2, PlacesAre
  <2>2. ASSUME NEW x PROVE x \in R <=> x \in P \cup {n}
    <3>1. ASSUME x \in R PROVE x \in P \cup {n}
      <4>1. PICK w, i : w \in U /\ i \in DOMAIN r[w] /\ x = <<w, i>> /\ r[w][i] \in S
        BY <3>1, PlacesAre, Zenon
      <4>2. CASE w # u BY <4>1, <4>2, PlacesAre
      <4>3. CASE w = u /\ i = Len(q[u]) + 1 BY <4>1, <4>3
      <4>4. CASE w = u /\ i # Len(q[u]) + 1
        <5>1. i \in 1 .. (Len(q[u]) + 1) /\ r[u][i] \in S
          BY <1>1, <1>2, <4>1, <4>4
        <5>2. i \in 1 .. Len(q[u])
          BY <1>1, <1>2, <4>4, <5>1
        <5>3. i \in DOMAIN q[u] /\ q[u][i] \in S
          BY <1>1, <1>2, <5>1, <5>2
        <5> QED BY <1>2, <4>1, <4>4, <5>3, PlacesAre
      <4> QED BY <4>2, <4>3, <4>4
    <3>2. ASSUME x \in P PROVE x \in R
      <4>1. PICK w, i : w \in U /\ i \in DOMAIN q[w] /\ x = <<w, i>> /\ q[w][i] \in S
        BY <3>2, PlacesAre, Zenon
      <4>2. i \in DOMAIN r[w] /\ r[w][i] = q[w][i]
        <5>1. CASE w # u BY <4>1, <5>1
        <5>2. CASE w = u
          <6>1. i \in 1 .. Len(q[u]) BY <1>1, <4>1, <5>2
          <6> QED BY <1>1, <4>1, <5>2, <6>1
        <5> QED BY <5>1, <5>2
      <4> QED BY <4>1, <4>2, PlacesAre
    <3>3. n \in R
      <4>1. Len(q[u]) + 1 \in DOMAIN r[u] BY <1>1, <1>2
      <4> QED BY <1>1, <1>2, <4>1, PlacesAre
    <3> QED BY <3>1, <3>2, <3>3
  <2>3. R = P \cup {n}
    BY <2>2
  <2> HIDE DEF P, R, n
  <2>4. IsFiniteSet(R) /\ Cardinality(R) = Cardinality(P) + 1 /\ Cardinality(P) \in Nat
    BY <2>1, <2>3, FS_AddElement, FS_CardinalityType DEF P
  <2> QED BY <1>2, <2>4 DEF Count, P, R
<1>3. CASE ~ (u \in U /\ e \in S)
  <2>1. ASSUME NEW x PROVE x \in R <=> x \in P
    <3>1. ASSUME x \in R PROVE x \in P
      <4>1. PICK w, i : w \in U /\ i \in DOMAIN r[w] /\ x = <<w, i>> /\ r[w][i] \in S
        BY <3>1, PlacesAre, Zenon
      <4>2. i \in DOMAIN q[w] /\ r[w][i] = q[w][i]
        <5>1. CASE w # u BY <4>1, <5>1
        <5>2. CASE w = u
          <6>1. i \in 1 .. (Len(q[u]) + 1) /\ i # Len(q[u]) + 1
            BY <1>1, <1>3, <4>1, <5>2
          <6>2. i \in 1 .. Len(q[u])
            BY <1>1, <4>1, <5>2, <6>1
          <6>3. i \in DOMAIN q[u] /\ r[u][i] = q[u][i]
            BY <1>1, <4>1, <5>2, <6>2
          <6> QED BY <5>2, <6>3
        <5> QED BY <5>1, <5>2
      <4> QED BY <4>1, <4>2, PlacesAre
    <3>2. ASSUME x \in P PROVE x \in R
      <4>1. PICK w, i : w \in U /\ i \in DOMAIN q[w] /\ x = <<w, i>> /\ q[w][i] \in S
        BY <3>2, PlacesAre, Zenon
      <4>2. i \in DOMAIN r[w] /\ r[w][i] = q[w][i]
        <5>1. CASE w # u BY <4>1, <5>1
        <5>2. CASE w = u
          <6>1. i \in 1 .. Len(q[u]) BY <1>1, <4>1, <5>2
          <6> QED BY <1>1, <4>1, <5>2, <6>1
        <5> QED BY <5>1, <5>2
      <4> QED BY <4>1, <4>2, PlacesAre
    <3> QED BY <3>1, <3>2
  <2>2. R = P
    BY <2>1
  <2> HIDE DEF P, R
  <2>3. Cardinality(P) \in Nat
    BY FS_CardinalityType DEF P
  <2> QED BY <1>3, <2>2, <2>3 DEF Count, P, R
<1> QED BY <1>2, <1>3

LEMMA CountTail ==
  ASSUME NEW T, NEW q, NEW r, NEW U, NEW S, NEW u, Consumed(T, q, r, U, S, u)
  PROVE  /\ IsFiniteSet(Places(r, U, S))
         /\ Count(r, U, S) \in Nat
         /\ Count(q, U, S) = Count(r, U, S) + (IF u \in U /\ Head(q[u]) \in S THEN 1 ELSE 0)
<1> DEFINE P == Places(q, U, S)
           R == Places(r, U, S)
           h == <<u, 1>>
<1>0. /\ q[u] \in Seq(T) /\ q[u] # <<>> /\ \A w \in U : q[w] \in Seq(T)
      /\ \A w \in U \ {u} : r[w] = q[w]
      /\ u \in U => r[u] = Tail(q[u])
      /\ IsFiniteSet(Places(q, U, S))
  BY DEF Consumed
<1> USE <1>0
<1>1. CASE u \notin U
  <2>1. \A w \in U : r[w] = q[w]
    BY <1>1
  <2>2. R = P
    BY <2>1 DEF Places
  <2> HIDE DEF P, R
  <2>3. Cardinality(P) \in Nat
    BY FS_CardinalityType DEF P
  <2> QED BY <1>1, <2>2, <2>3 DEF Count, P, R
<1>2. CASE u \in U
  <2>1. /\ DOMAIN q[u] = 1 .. Len(q[u]) /\ DOMAIN r[u] = 1 .. (Len(q[u]) - 1)
        /\ Len(q[u]) \in Nat /\ Len(q[u]) > 0
        /\ \A i \in 1 .. (Len(q[u]) - 1) : r[u][i] = q[u][i + 1]
        /\ Head(q[u]) = q[u][1]
    <3>1. /\ q[u] \in Seq(T) /\ q[u] # <<>> /\ r[u] = Tail(q[u])
      BY <1>2
    <3>2. /\ Len(q[u]) \in Nat /\ Len(q[u]) > 0 /\ DOMAIN q[u] = 1 .. Len(q[u])
          /\ Head(q[u]) = q[u][1]
      BY <3>1, EmptySeq, LenProperties
    <3>3. /\ Tail(q[u]) \in Seq(T) /\ Len(Tail(q[u])) = Len(q[u]) - 1
          /\ \A i \in 1 .. Len(Tail(q[u])) : Tail(q[u])[i] = q[u][i + 1]
      BY <3>1, HeadTailProperties
    <3>4. DOMAIN Tail(q[u]) = 1 .. (Len(q[u]) - 1)
      BY <3>3, LenProperties
    <3> QED BY <3>1, <3>2, <3>3, <3>4
  <2> DEFINE up(x) == IF x[1] = u THEN <<u, x[2] - 1>> ELSE x
             Q == P \ {h}
             f == [x \in Q |-> up(x)]
  <2>2. h \in P <=> Head(q[u]) \in S
    <3>1. ASSUME h \in P PROVE Head(q[u]) \in S
      <4>1. PICK w, i : w \in U /\ i \in DOMAIN q[w] /\ h = <<w, i>> /\ q[w][i] \in S
        BY <3>1, PlacesAre
      <4> QED BY <2>1, <4>1
    <3>2. ASSUME Head(q[u]) \in S PROVE h \in P
      <4>1. 1 \in DOMAIN q[u] /\ q[u][1] \in S BY <2>1, <3>2
      <4> QED BY <1>2, <4>1, PlacesAre
    <3> QED BY <3>1, <3>2
  <2>3. ASSUME NEW x \in Q
        PROVE  \E w, i :
                 /\ w \in U /\ i \in DOMAIN q[w] /\ x = <<w, i>> /\ q[w][i] \in S
                 /\ w = u => i \in Nat /\ i > 1
    <3>1. PICK w, i : w \in U /\ i \in DOMAIN q[w] /\ x = <<w, i>> /\ q[w][i] \in S
      BY <2>3, PlacesAre
    <3>2. w = u => i \in Nat /\ i > 1
      BY <2>1, <3>1
    <3> QED BY <3>1, <3>2
  <2>4. ASSUME NEW x \in Q PROVE up(x) \in R
    <3>1. PICK w, i : w \in U /\ i \in DOMAIN q[w] /\
            x = <<w, i>> /\ q[w][i] \in S /\ (w = u => i \in Nat /\ i > 1)
      BY <2>3
    <3>2. CASE w # u
      <4>1. up(x) = x /\ r[w] = q[w] BY <3>1, <3>2
      <4> QED BY <3>1, <4>1, PlacesAre
    <3>3. CASE w = u
      <4>1. up(x) = <<u, i - 1>> BY <3>1, <3>3
      <4>2. i - 1 \in DOMAIN r[u] /\ r[u][i - 1] = q[u][i]
        BY <2>1, <3>1, <3>3
      <4> HIDE DEF up
      <4> QED BY <1>2, <3>1, <3>3, <4>1, <4>2, PlacesAre
    <3> QED BY <3>2, <3>3
  <2>5. ASSUME NEW x \in Q, NEW y \in Q, up(x) = up(y) PROVE x = y
    <3>1. PICK w, i : w \in U /\ i \in DOMAIN q[w] /\
            x = <<w, i>> /\ q[w][i] \in S /\ (w = u => i \in Nat /\ i > 1)
      BY <2>3
    <3>2. PICK v, j : v \in U /\ j \in DOMAIN q[v] /\
            y = <<v, j>> /\ q[v][j] \in S /\ (v = u => j \in Nat /\ j > 1)
      BY <2>3
    <3> QED BY <2>5, <3>1, <3>2
  <2>6. ASSUME NEW y \in R PROVE \E x \in Q : up(x) = y
    <3>1. PICK w, i : w \in U /\ i \in DOMAIN r[w] /\ y = <<w, i>> /\ r[w][i] \in S
      BY <2>6, PlacesAre
    <3>2. CASE w # u
      <4>1. y \in P BY <3>1, <3>2, PlacesAre
      <4>2. y # h /\ up(y) = y BY <3>1, <3>2
      <4> QED BY <4>1, <4>2
    <3>3. CASE w = u
      <4>1. i \in Nat /\ i > 0 /\ i + 1 \in DOMAIN q[u] /\ q[u][i + 1] \in S
        BY <2>1, <3>1, <3>3
      <4> DEFINE z == <<u, i + 1>>
      <4>2. z \in P BY <1>2, <4>1, PlacesAre
      <4>3. z # h /\ up(z) = <<u, i>> BY <4>1
      <4> QED BY <3>1, <3>3, <4>2, <4>3
    <3> QED BY <3>2, <3>3
  <2> HIDE DEF P, R, h, up
  <2>7. f \in Bijection(Q, R)
    <3>1. f \in [Q -> R] BY <2>4
    <3>2. \A x, y \in Q : f[x] = f[y] => x = y BY <2>5
    <3>3. \A y \in R : \E x \in Q : f[x] = y BY <2>6
    <3> HIDE DEF f, Q
    <3> QED BY <3>1, <3>2, <3>3, Fun_IsBij
  <2> HIDE DEF f, Q
  <2>8. /\ IsFiniteSet(Q) /\ Cardinality(Q) \in Nat
        /\ Cardinality(P) = Cardinality(Q) + (IF Head(q[u]) \in S THEN 1 ELSE 0)
    <3>1. IsFiniteSet(P)
      BY DEF P
    <3>2. Cardinality(P) \in Nat
      BY <3>1, FS_CardinalityType
    <3>3. /\ IsFiniteSet(Q)
          /\ Cardinality(Q) = IF h \in P THEN Cardinality(P) - 1 ELSE Cardinality(P)
      BY <3>1, FS_RemoveElement DEF Q
    <3>4. Cardinality(Q) \in Nat
      BY <3>3, FS_CardinalityType
    <3> QED BY <2>2, <3>2, <3>3, <3>4
  <2>9. IsFiniteSet(R) /\ Cardinality(R) = Cardinality(Q)
    BY <2>7, <2>8, FS_Bijection DEF ExistsBijection
  <2> QED BY <1>2, <2>8, <2>9 DEF Count, P, R
<1> QED BY <1>1, <1>2
-----------------------------------------------------------------------------
(* Where the calls to v are: in the message queue of its GUI thread, on    *)
(* the connection to it, on the connections to the server.                 *)

AtGui(v)    == Count(posted, {v}, {"WM_OPEN_CALLREQUEST"})
AtUser(v)   == Count(toUser, {v}, Requests)
AtServer(v) == Count(toServer, Online, RequestsTo(v))

FinitePlaces(v) ==
  /\ IsFiniteSet(Places(posted, {v}, {"WM_OPEN_CALLREQUEST"}))
  /\ IsFiniteSet(Places(toUser, {v}, Requests))
  /\ IsFiniteSet(Places(toServer, Online, RequestsTo(v)))

\* The calls to v, and those that were handled once more.
Due(v) == asked[v] + again[v]

Conserved(v) == Due(v) = closed[v] + Len(notices[v]) + AtGui(v) + AtUser(v) + AtServer(v)

Balanced == \A v \in Online : FinitePlaces(v) /\ Conserved(v)

\* A user who is calling has one call left to dial for.
Dialled ==
  \A u \in Online : dials[u] + (IF devStatus[u] = "Caller" THEN 1 ELSE 0) <= placed[u]

LEMMA Naturals ==
  ASSUME IInv, NEW v \in Online, FinitePlaces(v)
  PROVE  /\ Due(v) \in Nat /\ closed[v] \in Nat /\ Len(notices[v]) \in Nat
         /\ AtGui(v) \in Nat /\ AtUser(v) \in Nat /\ AtServer(v) \in Nat
<1>1. Due(v) \in Nat /\ closed[v] \in Nat
  <2>1. asked[v] \in Nat /\ again[v] \in Nat /\ closed[v] \in Nat
    BY OnlineAssumption DEF IInv, TypeOK
  <2> QED BY <2>1 DEF Due
<1>2. Len(notices[v]) \in Nat
  BY Sequences, LenProperties DEF IInv
<1>3. AtGui(v) \in Nat /\ AtUser(v) \in Nat /\ AtServer(v) \in Nat
  BY FS_CardinalityType DEF FinitePlaces, AtGui, AtUser, AtServer, Count
<1> QED BY <1>1, <1>2, <1>3

LEMMA GuiPosted ==
  ASSUME IInv, NEW v \in Online, FinitePlaces(v), NEW u \in Online, NEW m \in Posts, Post(u, m)
  PROVE  /\ IsFiniteSet(Places(posted', {v}, {"WM_OPEN_CALLREQUEST"}))
         /\ AtGui(v)' = AtGui(v) + (IF u = v /\ m = "WM_OPEN_CALLREQUEST" THEN 1 ELSE 0)
<1> DEFINE S == {"WM_OPEN_CALLREQUEST"}
<1>1. posted \in [Online -> Seq(Posts)] /\ posted' = [posted EXCEPT ![u] = Append(@, m)]
  BY DEF IInv, TypeOK, Post
<1>2. /\ posted[v] \in Seq(Posts) /\ posted'[u] = Append(posted[u], m)
      /\ \A w \in {v} \ {u} : posted'[w] = posted[w]
  BY <1>1
<1>3. IsFiniteSet(Places(posted, {v}, S))
  BY DEF FinitePlaces
<1> HIDE DEF S
<1>9. Appended(Posts, posted, posted', {v}, S, u, m)
  BY <1>2, <1>3 DEF Appended
<1>4. /\ IsFiniteSet(Places(posted', {v}, S))
      /\ Count(posted', {v}, S) = Count(posted, {v}, S) + (IF u \in {v} /\ m \in S THEN 1 ELSE 0)
  BY <1>9, CountAppend
<1> QED BY <1>4 DEF AtGui, S

LEMMA GuiHandled ==
  ASSUME IInv, NEW v \in Online, FinitePlaces(v), NEW u \in Online, NEW m, Handles(u, m)
  PROVE  /\ IsFiniteSet(Places(posted', {v}, {"WM_OPEN_CALLREQUEST"}))
         /\ AtGui(v)' \in Nat
         /\ AtGui(v) = AtGui(v)' + (IF u = v /\ m = "WM_OPEN_CALLREQUEST" THEN 1 ELSE 0)
<1> DEFINE S == {"WM_OPEN_CALLREQUEST"}
<1>1. posted \in [Online -> Seq(Posts)] /\ posted' = [posted EXCEPT ![u] = Tail(@)]
  BY DEF IInv, TypeOK, Handles
<1>2. /\ posted[v] \in Seq(Posts) /\ posted[u] \in Seq(Posts) /\ posted'[u] = Tail(posted[u])
      /\ \A w \in {v} \ {u} : posted'[w] = posted[w]
  BY <1>1
<1>3. posted[u] # <<>> /\ Head(posted[u]) = m
  BY DEF Handles
<1>4. IsFiniteSet(Places(posted, {v}, S))
  BY DEF FinitePlaces
<1> HIDE DEF S
<1>9. Consumed(Posts, posted, posted', {v}, S, u)
  BY <1>2, <1>3, <1>4 DEF Consumed
<1>5. /\ IsFiniteSet(Places(posted', {v}, S)) /\ Count(posted', {v}, S) \in Nat
      /\ Count(posted, {v}, S) = Count(posted', {v}, S) + (IF u \in {v} /\ Head(posted[u]) \in S THEN 1 ELSE 0)
  BY <1>9, CountTail
<1> QED BY <1>3, <1>5 DEF AtGui, S

\* One more message on a user's connection to the server.
Sent(q, r, u, m) == r = [q EXCEPT ![u] = @ \o <<m>>]

LEMMA ServerSent ==
  ASSUME NEW q \in [Online -> Seq(Messages)], NEW v \in Online, NEW u \in Online,
         NEW m \in Messages, IsFiniteSet(Places(q, Online, RequestsTo(v))),
         NEW r, Sent(q, r, u, m)
  PROVE  /\ r \in [Online -> Seq(Messages)]
         /\ IsFiniteSet(Places(r, Online, RequestsTo(v)))
         /\ Count(r, Online, RequestsTo(v)) =
              Count(q, Online, RequestsTo(v)) + (IF m.type = "RequestCall" /\ m.to = v THEN 1 ELSE 0)
<1> DEFINE S == RequestsTo(v)
<1>1. m \in S <=> m.type = "RequestCall" /\ m.to = v
  BY DEF RequestsTo, Requests
<1>2. q[u] \o <<m>> = Append(q[u], m) /\ Append(q[u], m) \in Seq(Messages)
  OBVIOUS
<1>3. r[u] = Append(q[u], m) /\ r \in [Online -> Seq(Messages)]
  BY <1>2 DEF Sent
<1>4. \A w \in Online \ {u} : r[w] = q[w]
  BY DEF Sent
<1>5. \A w \in Online : q[w] \in Seq(Messages)
  OBVIOUS
<1> HIDE DEF S
<1>6. /\ IsFiniteSet(Places(r, Online, S))
      /\ Count(r, Online, S) = Count(q, Online, S) + (IF u \in Online /\ m \in S THEN 1 ELSE 0)
  <2>1. IsFiniteSet(Places(q, Online, S))
    BY DEF S
  <2>2. Appended(Messages, q, r, Online, S, u, m)
    BY <1>3, <1>4, <1>5, <2>1 DEF Appended
  <2> QED BY <2>2, CountAppend
<1> QED BY <1>1, <1>3, <1>6 DEF S

LEMMA UserReceived ==
  ASSUME IInv, NEW v \in Online, FinitePlaces(v), NEW u \in Online, NEW t, Receives(u, t)
  PROVE  /\ IsFiniteSet(Places(toUser', {v}, Requests))
         /\ AtUser(v)' \in Nat
         /\ AtUser(v) = AtUser(v)' + (IF u = v /\ t = "RequestCall" THEN 1 ELSE 0)
<1>1. toUser \in [Online -> Seq(Messages)] /\ toUser' = [toUser EXCEPT ![u] = Tail(@)]
  BY DEF IInv, TypeOK, Receives
<1>2. /\ toUser[v] \in Seq(Messages) /\ toUser[u] \in Seq(Messages) /\ toUser'[u] = Tail(toUser[u])
      /\ \A w \in {v} \ {u} : toUser'[w] = toUser[w]
  BY <1>1
<1>3. toUser[u] # <<>> /\ Head(toUser[u]).type = t /\ Head(toUser[u]) \in Messages
  BY <1>2, TailToSet DEF Receives
<1>4. IsFiniteSet(Places(toUser, {v}, Requests))
  BY DEF FinitePlaces
<1>9. Consumed(Messages, toUser, toUser', {v}, Requests, u)
  BY <1>2, <1>3, <1>4 DEF Consumed
<1>5. /\ IsFiniteSet(Places(toUser', {v}, Requests)) /\ Count(toUser', {v}, Requests) \in Nat
      /\ Count(toUser, {v}, Requests) =
           Count(toUser', {v}, Requests) + (IF u \in {v} /\ Head(toUser[u]) \in Requests THEN 1 ELSE 0)
  BY <1>9, CountTail
<1> QED BY <1>3, <1>5 DEF AtUser, Requests

\* A message goes from one connection to another; a request to v that is
\* relayed to its receiver stays one.
LEMMA ServerRelayed ==
  ASSUME IInv, NEW v \in Online, FinitePlaces(v), NEW u \in Online, NEW to, toServer[u] # <<>>,
         Relays(u, to), Head(toServer[u]).type = "RequestCall" => to = Head(toServer[u]).to
  PROVE  /\ IsFiniteSet(Places(toServer', Online, RequestsTo(v)))
         /\ IsFiniteSet(Places(toUser', {v}, Requests))
         /\ AtServer(v)' \in Nat /\ AtUser(v)' \in Nat
         /\ AtServer(v)' + AtUser(v)' = AtServer(v) + AtUser(v)
<1> DEFINE m == Head(toServer[u])
           d == IF m.type = "RequestCall" /\ m.to = v THEN 1 ELSE 0
<1>1. toServer \in [Online -> Seq(Messages)] /\ toUser \in [Online -> Seq(Messages)]
  BY DEF IInv, TypeOK
<1>2. m \in Messages
  BY <1>1, TailToSet
<1>3. /\ toServer' = [toServer EXCEPT ![u] = Tail(@)]
      /\ toUser' = [w \in Online |-> IF w = to THEN Append(toUser[w], m) ELSE toUser[w]]
  BY DEF Relays
<1>4. m \in RequestsTo(v) <=> m.type = "RequestCall" /\ m.to = v
  BY <1>2 DEF RequestsTo, Requests
<1>5. to = v /\ m \in Requests <=> m.type = "RequestCall" /\ m.to = v
  <2>1. CASE m.type = "RequestCall" BY <1>2, <2>1 DEF Requests
  <2>2. CASE m.type # "RequestCall" BY <2>2 DEF Requests
  <2> QED BY <2>1, <2>2
<1>6. /\ IsFiniteSet(Places(toServer', Online, RequestsTo(v))) /\ AtServer(v)' \in Nat
      /\ AtServer(v) = AtServer(v)' + d
  <2>1. toServer[u] \in Seq(Messages) /\ toServer'[u] = Tail(toServer[u])
    BY <1>1, <1>3
  <2>2. \A w \in Online : toServer[w] \in Seq(Messages)
    BY <1>1
  <2>3. \A w \in Online \ {u} : toServer'[w] = toServer[w]
    BY <1>1, <1>3
  <2>4. IsFiniteSet(Places(toServer, Online, RequestsTo(v)))
    BY DEF FinitePlaces
  <2> DEFINE S == RequestsTo(v)
  <2>5. m \in S <=> m.type = "RequestCall" /\ m.to = v BY <1>4
  <2>6. IsFiniteSet(Places(toServer, Online, S)) BY <2>4
  <2> HIDE DEF S
  <2>9. Consumed(Messages, toServer, toServer', Online, S, u)
    BY <2>1, <2>2, <2>3, <2>6 DEF Consumed
  <2>7. /\ IsFiniteSet(Places(toServer', Online, S)) /\ Count(toServer', Online, S) \in Nat
        /\ Count(toServer, Online, S) =
             Count(toServer', Online, S) + (IF u \in Online /\ Head(toServer[u]) \in S THEN 1 ELSE 0)
    BY <2>9, CountTail
  <2> QED BY <2>5, <2>7 DEF AtServer, S
<1>7. /\ IsFiniteSet(Places(toUser', {v}, Requests)) /\ AtUser(v) \in Nat
      /\ AtUser(v)' = AtUser(v) + d
  <2>1. \A w \in {v} : toUser[w] \in Seq(Messages)
    BY <1>1
  <2>2. \A w \in {v} \ {to} : toUser'[w] = toUser[w]
    BY <1>3
  <2>3. to \in {v} => toUser'[to] = Append(toUser[to], m)
    BY <1>3
  <2>4. IsFiniteSet(Places(toUser, {v}, Requests))
    BY DEF FinitePlaces
  <2> HIDE DEF m
  <2>9. Appended(Messages, toUser, toUser', {v}, Requests, to, m)
    BY <1>2, <2>1, <2>2, <2>3, <2>4 DEF Appended
  <2>5. /\ IsFiniteSet(Places(toUser', {v}, Requests)) /\ Count(toUser, {v}, Requests) \in Nat
        /\ Count(toUser', {v}, Requests) =
             Count(toUser, {v}, Requests) + (IF to \in {v} /\ m \in Requests THEN 1 ELSE 0)
    BY <2>9, CountAppend
  <2> QED BY <1>5, <2>5 DEF AtUser
<1> HIDE DEF d
<1>8. d \in Nat
  BY DEF d
<1> QED BY <1>6, <1>7, <1>8

\* What is not touched is counted as before.
LEMMA PlacesKept ==
  ASSUME NEW v \in Online, FinitePlaces(v)
  PROVE  /\ posted' = posted => /\ IsFiniteSet(Places(posted', {v}, {"WM_OPEN_CALLREQUEST"}))
                               /\ AtGui(v)' = AtGui(v)
         /\ toUser' = toUser => /\ IsFiniteSet(Places(toUser', {v}, Requests))
                               /\ AtUser(v)' = AtUser(v)
         /\ toServer' = toServer => /\ IsFiniteSet(Places(toServer', Online, RequestsTo(v)))
                                   /\ AtServer(v)' = AtServer(v)
  BY DEF FinitePlaces, AtGui, AtUser, AtServer
-----------------------------------------------------------------------------
(* Every step keeps the calls to v where they are counted.                   *)

LEMMA CallBalances ==
  ASSUME IInv, NEW v \in Online, FinitePlaces(v), Conserved(v),
         NEW u \in Online, NEW w \in Users, Call(u, w)
  PROVE  FinitePlaces(v)' /\ Conserved(v)'
<1> DEFINE m == Message("RequestCall", u, w)
<1>1. m \in Messages /\ m.type = "RequestCall" /\ m.to = w
  BY OnlineAssumption DEF Message, Messages, Types
<1>2. Sent(toServer, toServer', u, m)
  BY DEF Call, sendMsgtoACS, Sent
<1> HIDE DEF m
<1>3. toServer \in [Online -> Seq(Messages)] /\ IsFiniteSet(Places(toServer, Online, RequestsTo(v)))
  BY DEF IInv, TypeOK, FinitePlaces
<1>4. /\ IsFiniteSet(Places(toServer', Online, RequestsTo(v)))
      /\ AtServer(v)' = AtServer(v) + (IF w = v THEN 1 ELSE 0)
  BY <1>1, <1>2, <1>3, ServerSent DEF AtServer
<1>5. Due(v)' = Due(v) + (IF w = v THEN 1 ELSE 0)
  <2>1. asked \in [Users -> Nat] /\ v \in Users /\ asked[v] \in Nat /\ again[v] \in Nat
    BY OnlineAssumption DEF IInv, TypeOK
  <2>2. asked' = [asked EXCEPT ![w] = @ + 1] /\ again' = again
    BY DEF Call
  <2>3. CASE w = v
    BY <2>1, <2>2, <2>3 DEF Due
  <2>4. CASE w # v
    BY <2>1, <2>2, <2>4 DEF Due
  <2> QED BY <2>3, <2>4
<1>6. UNCHANGED <<posted, toUser, notices, closed>>
  BY DEF Call, noteVars
<1>7. FinitePlaces(v)'
  BY <1>4, <1>6, PlacesKept DEF FinitePlaces
<1>8. AtGui(v)' = AtGui(v) /\ AtUser(v)' = AtUser(v)
  BY <1>6, PlacesKept
<1>9. Conserved(v)'
  <2>1. /\ Due(v) \in Nat /\ closed[v] \in Nat /\ Len(notices[v]) \in Nat
        /\ AtGui(v) \in Nat /\ AtUser(v) \in Nat /\ AtServer(v) \in Nat
    BY Naturals
  <2>2. Due(v) = closed[v] + Len(notices[v]) + AtGui(v) + AtUser(v) + AtServer(v)
    BY DEF Conserved
  <2>3. Due(v)' = closed[v] + Len(notices[v]) + AtGui(v) + AtUser(v) + AtServer(v)'
    <3>1. CASE w = v
      <4>1. Due(v)' = Due(v) + 1 /\ AtServer(v)' = AtServer(v) + 1
        BY <1>4, <1>5, <3>1
      <4> QED BY <2>1, <2>2, <4>1
    <3>2. CASE w # v
      <4>1. Due(v)' = Due(v) + 0 /\ AtServer(v)' = AtServer(v) + 0
        BY <1>4, <1>5, <3>2
      <4> QED BY <2>1, <2>2, <4>1
    <3> QED BY <3>1, <3>2
  <2> QED BY <1>6, <1>8, <2>3 DEF Conserved
<1> QED BY <1>7, <1>9

\* A window that is closed is counted as closed.
LEMMA NoticeClosed ==
  ASSUME IInv, NEW v \in Online, NEW u \in Online, NEW k \in DOMAIN notices[u], CloseNotice(u, k)
  PROVE  closed'[v] + Len(notices'[v]) = closed[v] + Len(notices[v])
<1>1. notices[u] \in Seq(Users) /\ notices[v] \in Seq(Users) /\ notices \in [Online -> Seq(Users)]
  BY DEF IInv, TypeOK
<1>2. closed \in [Online -> Nat] /\ closed[v] \in Nat
  BY DEF IInv, TypeOK
<1>3. /\ notices' = [notices EXCEPT ![u] = RemoveAt(notices[u], k)]
      /\ closed' = [closed EXCEPT ![u] = @ + 1]
  BY DEF CloseNotice
<1>4. Len(RemoveAt(notices[u], k)) = Len(notices[u]) - 1 /\ Len(notices[v]) \in Nat
  BY <1>1, RemoveAtLen, LenProperties
<1>5. CASE v = u
  <2>1. notices'[v] = RemoveAt(notices[u], k)
    BY <1>1, <1>3, <1>5
  <2>2. closed'[v] = closed[v] + 1
    BY <1>2, <1>3, <1>5
  <2>3. Len(notices'[v]) = Len(notices[v]) - 1
    BY <1>4, <1>5, <2>1
  <2> QED BY <1>2, <1>4, <2>2, <2>3
<1>6. CASE v # u
  <2>1. notices'[v] = notices[v] /\ closed'[v] = closed[v]
    BY <1>1, <1>2, <1>3, <1>6
  <2> QED BY <2>1
<1> QED BY <1>5, <1>6

\* The two answers of an acceptance are no calls, nor is what it posts.
LEMMA AcceptBalances ==
  ASSUME IInv, NEW v \in Online, FinitePlaces(v), Conserved(v),
         NEW u \in Online, NEW k \in DOMAIN notices[u], Accept(u, k)
  PROVE  FinitePlaces(v)' /\ Conserved(v)'
<1> DEFINE a == Message("AcceptCall", u, callMsg[u])
           b == Message("RejectCall", u, callMsg[u])
           q == [toServer EXCEPT ![u] = @ \o <<a>>]
<1>1. CloseNotice(u, k) /\ Post(u, "WM_OPEN_VIDEOSERVER")
  BY DEF Accept
<1>2. callMsg[u] \in Users
  BY <1>1, CloseNoticeKeeps
<1>3. /\ a \in Messages /\ a.type # "RequestCall"
      /\ b \in Messages /\ b.type # "RequestCall"
  BY <1>2, OnlineAssumption DEF Message, Messages, Types
<1>4. toServer \in [Online -> Seq(Messages)] /\ IsFiniteSet(Places(toServer, Online, RequestsTo(v)))
  BY DEF IInv, TypeOK, FinitePlaces
<1>5. toServer' = [toServer EXCEPT ![u] = @ \o <<a, b>>]
  BY DEF Accept, sendMsgtoACS
<1> HIDE DEF a, b
<1>6. toServer[u] \o <<a, b>> = (toServer[u] \o <<a>>) \o <<b>>
  <2> DEFINE s == <<a>>
             t == <<b>>
  <2>1. s \in Seq(Messages) /\ t \in Seq(Messages) /\ toServer[u] \in Seq(Messages)
    BY <1>3, <1>4
  <2>2. s \o t = <<a, b>>
    <3>1. Append(s, b) = s \o <<b>>
      BY <1>3, <2>1, AppendIsConcat
    <3>2. Append(s, b) = <<a, b>>
      <4>1. Append(s, b) \in Seq(Messages) /\ <<a, b>> \in Seq(Messages)
        BY <1>3
      <4>2. Len(Append(s, b)) = 2 /\ Append(s, b)[1] = a /\ Append(s, b)[2] = b
        BY <1>3, <2>1, AppendProperties
      <4>3. Len(<<a, b>>) = 2 /\ <<a, b>>[1] = a /\ <<a, b>>[2] = b
        OBVIOUS
      <4> DEFINE x == Append(s, b)
                 y == <<a, b>>
      <4> HIDE DEF x, y
      <4>4. x \in Seq(Messages) /\ y \in Seq(Messages) /\ Len(x) = Len(y)
        BY <4>1, <4>2, <4>3 DEF x, y
      <4>5. \A i \in 1 .. Len(x) : x[i] = y[i]
        <5>1. Len(x) = 2 /\ x[1] = y[1] /\ x[2] = y[2]
          BY <4>2, <4>3 DEF x, y
        <5> QED BY <5>1
      <4>6. x = y
        BY <4>4, <4>5, SeqEqual
      <4> QED BY <4>6 DEF x, y
    <3> QED BY <3>1, <3>2
  <2> HIDE DEF s, t
  <2> DEFINE z == toServer[u]
  <2>3. z \in Seq(Messages)
    BY <2>1
  <2> HIDE DEF z
  <2>4. (z \o s) \o t = z \o (s \o t)
    BY <2>1, <2>3, ConcatAssociative
  <2> QED BY <2>2, <2>4 DEF s, t, z
<1>7. Sent(toServer, q, u, a)
  BY DEF Sent
<1>8. Sent(q, toServer', u, b)
  BY <1>4, <1>5, <1>6 DEF Sent
<1> HIDE DEF q
<1>9. /\ q \in [Online -> Seq(Messages)] /\ IsFiniteSet(Places(q, Online, RequestsTo(v)))
      /\ Count(q, Online, RequestsTo(v)) = AtServer(v) + 0
  BY <1>3, <1>4, <1>7, ServerSent DEF AtServer
<1>10. /\ IsFiniteSet(Places(toServer', Online, RequestsTo(v)))
       /\ AtServer(v)' = Count(q, Online, RequestsTo(v)) + 0
  BY <1>3, <1>8, <1>9, ServerSent DEF AtServer
<1>11. "WM_OPEN_VIDEOSERVER" \in Posts
  BY DEF Posts
<1>12. /\ IsFiniteSet(Places(posted', {v}, {"WM_OPEN_CALLREQUEST"}))
       /\ AtGui(v)' = AtGui(v) + 0
  BY <1>1, <1>11, GuiPosted
<1>13. closed'[v] + Len(notices'[v]) = closed[v] + Len(notices[v])
  BY <1>1, NoticeClosed
<1>14. UNCHANGED <<toUser, asked, again>>
  BY DEF Accept, callVars
<1>15. FinitePlaces(v)'
  BY <1>10, <1>12, <1>14, PlacesKept DEF FinitePlaces
<1>16. AtUser(v)' = AtUser(v)
  BY <1>14, PlacesKept
<1>17. AtServer(v)' = AtServer(v) /\ AtGui(v)' = AtGui(v)
  BY <1>9, <1>10, <1>12, Naturals
<1>18. Conserved(v)'
  BY <1>13, <1>14, <1>16, <1>17 DEF Conserved, Due
<1> QED BY <1>15, <1>18

LEMMA DenyBalances ==
  ASSUME IInv, NEW v \in Online, FinitePlaces(v), Conserved(v),
         NEW u \in Online, NEW k \in DOMAIN notices[u], Deny(u, k) \/ Ignore(u, k)
  PROVE  FinitePlaces(v)' /\ Conserved(v)'
<1>1. CloseNotice(u, k) /\ UNCHANGED <<posted, toUser, asked, again>>
  BY DEF Deny, Ignore, netVars, history, callVars, answers
<1>2. closed'[v] + Len(notices'[v]) = closed[v] + Len(notices[v])
  BY <1>1, NoticeClosed
<1>3. /\ IsFiniteSet(Places(toServer', Online, RequestsTo(v)))
      /\ AtServer(v)' = AtServer(v)
  <2>1. CASE Deny(u, k)
    <3> DEFINE m == Message("RejectCall", u, callMsg[u])
    <3>1. callMsg[u] \in Users
      BY <1>1, CloseNoticeKeeps
    <3>2. m \in Messages /\ m.type # "RequestCall"
      BY <3>1, OnlineAssumption DEF Message, Messages, Types
    <3>3. Sent(toServer, toServer', u, m)
      BY <2>1 DEF Deny, sendMsgtoACS, Sent
    <3> HIDE DEF m
    <3>4. toServer \in [Online -> Seq(Messages)] /\ IsFiniteSet(Places(toServer, Online, RequestsTo(v)))
      BY DEF IInv, TypeOK, FinitePlaces
    <3>5. /\ IsFiniteSet(Places(toServer', Online, RequestsTo(v)))
          /\ AtServer(v)' = AtServer(v) + 0
      BY <3>2, <3>3, <3>4, ServerSent DEF AtServer
    <3> QED BY <3>5, Naturals
  <2>2. CASE Ignore(u, k)
    BY <2>2, PlacesKept DEF Ignore, netVars
  <2> QED BY <2>1, <2>2
<1>4. FinitePlaces(v)'
  BY <1>1, <1>3, PlacesKept DEF FinitePlaces
<1>5. AtUser(v)' = AtUser(v) /\ AtGui(v)' = AtGui(v)
  BY <1>1, PlacesKept
<1>6. Conserved(v)'
  BY <1>1, <1>2, <1>3, <1>5 DEF Conserved, Due
<1> QED BY <1>4, <1>6

\* A request that is handled becomes a window.
LEMMA CreateCallNotificationBalances ==
  ASSUME IInv, NEW v \in Online, FinitePlaces(v), Conserved(v),
         NEW u \in Online, CreateCallNotification(u)
  PROVE  FinitePlaces(v)' /\ Conserved(v)'
<1>1. /\ IsFiniteSet(Places(posted', {v}, {"WM_OPEN_CALLREQUEST"}))
      /\ AtGui(v)' \in Nat
      /\ AtGui(v) = AtGui(v)' + (IF u = v THEN 1 ELSE 0)
  BY GuiHandled DEF CreateCallNotification
<1>2. UNCHANGED <<toUser, toServer, asked, again, closed>>
  BY DEF CreateCallNotification, Handles, netVars, history, callVars, answers
<1>3. AtUser(v)' = AtUser(v) /\ AtServer(v)' = AtServer(v)
  BY <1>2, PlacesKept
<1>4. FinitePlaces(v)'
  BY <1>1, <1>2, PlacesKept DEF FinitePlaces
<1>5. heldFrom[u] \in Users
  <2>1. posted[u] \in Seq(Posts) /\ posted[u] # <<>> /\ Head(posted[u]) = "WM_OPEN_CALLREQUEST"
    BY Sequences DEF IInv, CreateCallNotification, Handles
  <2>2. "WM_OPEN_CALLREQUEST" \in ToSet(posted[u])
    BY <2>1, TailToSet
  <2> QED BY <2>2 DEF IInv, TypeOK, PostsBacked
<1>6. notices[v] \in Seq(Users) /\ notices \in [Online -> Seq(Users)] /\ notices[u] \in Seq(Users)
  BY DEF IInv, TypeOK
<1>7. notices' = [notices EXCEPT ![u] = Append(@, heldFrom[u])]
  BY DEF CreateCallNotification
<1>8. /\ Due(v) \in Nat /\ closed[v] \in Nat /\ Len(notices[v]) \in Nat
      /\ AtGui(v) \in Nat /\ AtUser(v) \in Nat /\ AtServer(v) \in Nat
  BY Naturals
<1>9. Due(v) = closed[v] + Len(notices[v]) + AtGui(v) + AtUser(v) + AtServer(v)
  BY DEF Conserved
<1>10. Len(notices'[v]) + AtGui(v)' = Len(notices[v]) + AtGui(v)
  <2>1. CASE u = v
    <3>1. Len(notices'[v]) = Len(notices[v]) + 1
      BY <1>5, <1>6, <1>7, <2>1
    <3> DEFINE n == Len(notices[v])
               g == AtGui(v)'
    <3> HIDE DEF n, g
    <3>2. g \in Nat /\ n \in Nat /\ AtGui(v) = g + 1 /\ Len(notices'[v]) = n + 1
      BY <1>1, <1>8, <2>1, <3>1 DEF n, g
    <3>3. (n + 1) + g = n + (g + 1)
      BY <3>2
    <3> QED BY <3>2, <3>3 DEF n, g
  <2>2. CASE u # v
    <3>1. notices'[v] = notices[v]
      BY <1>6, <1>7, <2>2
    <3>2. AtGui(v) = AtGui(v)' + 0
      BY <1>1, <2>2
    <3> QED BY <1>1, <3>1, <3>2
  <2> QED BY <2>1, <2>2
<1>11. Len(notices'[v]) \in Nat
  <2>1. Append(notices[u], heldFrom[u]) \in Seq(Users)
    BY <1>5, <1>6
  <2>2. notices'[v] \in Seq(Users)
    BY <1>6, <1>7, <2>1
  <2> QED BY <2>2, LenProperties
<1>12. Due(v) = closed[v] + Len(notices'[v]) + AtGui(v)' + AtUser(v) + AtServer(v)
  <2> DEFINE c == closed[v]
             n == Len(notices[v])
             g == AtGui(v)
             n2 == Len(notices'[v])
             g2 == AtGui(v)'
  <2>1. c \in Nat /\ n \in Nat /\ g \in Nat /\ n2 \in Nat /\ g2 \in Nat /\ n2 + g2 = n + g
    BY <1>1, <1>8, <1>10, <1>11
  <2>2. Due(v) = c + n + g + AtUser(v) + AtServer(v)
    BY <1>9
  <2> HIDE DEF c, n, g, n2, g2
  <2>3. c + n + g = c + n2 + g2
    BY <2>1
  <2>4. Due(v) = c + n2 + g2 + AtUser(v) + AtServer(v)
    BY <2>2, <2>3
  <2> QED BY <2>4 DEF c, n2, g2
<1>13. Conserved(v)'
  BY <1>2, <1>3, <1>12 DEF Conserved, Due
<1> QED BY <1>4, <1>13

\* What is posted about video is no call: neither handling nor posting it counts.
LEMMA OtherPostsBalance ==
  ASSUME IInv, NEW v \in Online, FinitePlaces(v), Conserved(v), NEW u \in Online,
         NEW m \in Posts, m # "WM_OPEN_CALLREQUEST", Handles(u, m) \/ Post(u, m),
         UNCHANGED <<asked, again, closed, notices, toUser, toServer>>
  PROVE  FinitePlaces(v)' /\ Conserved(v)'
<1>1. /\ IsFiniteSet(Places(posted', {v}, {"WM_OPEN_CALLREQUEST"}))
      /\ AtGui(v)' = AtGui(v)
  <2>1. CASE Handles(u, m)
    <3>1. /\ IsFiniteSet(Places(posted', {v}, {"WM_OPEN_CALLREQUEST"}))
          /\ AtGui(v)' \in Nat /\ AtGui(v) = AtGui(v)' + 0
      BY <2>1, GuiHandled
    <3> QED BY <3>1
  <2>2. CASE Post(u, m)
    <3>1. /\ IsFiniteSet(Places(posted', {v}, {"WM_OPEN_CALLREQUEST"}))
          /\ AtGui(v)' = AtGui(v) + 0
      BY <2>2, GuiPosted
    <3> QED BY <3>1, Naturals
  <2> QED BY <2>1, <2>2
<1>2. AtUser(v)' = AtUser(v) /\ AtServer(v)' = AtServer(v)
  BY PlacesKept
<1>3. FinitePlaces(v)'
  BY <1>1, PlacesKept DEF FinitePlaces
<1>4. Conserved(v)'
  BY <1>1, <1>2 DEF Conserved, Due
<1> QED BY <1>3, <1>4

\* A request is relayed to the user it is for; the answers are no calls.
LEMMA RelayBalances ==
  ASSUME IInv, NEW v \in Online, FinitePlaces(v), Conserved(v), NEW u \in Online, Relay(u)
  PROVE  FinitePlaces(v)' /\ Conserved(v)'
<1>1. PICK to : /\ toServer[u] # <<>> /\ Relays(u, to)
                /\ Head(toServer[u]).type = "RequestCall" => to = Head(toServer[u]).to
  BY DEF Relay, RelayRequest, RelayAccept, RelayReject, Relayed
<1>2. /\ IsFiniteSet(Places(toServer', Online, RequestsTo(v)))
      /\ IsFiniteSet(Places(toUser', {v}, Requests))
      /\ AtServer(v)' \in Nat /\ AtUser(v)' \in Nat
      /\ AtServer(v)' + AtUser(v)' = AtServer(v) + AtUser(v)
  BY <1>1, ServerRelayed
<1>3. UNCHANGED <<posted, notices, closed, asked, again>>
  BY <1>1 DEF Relays, noteVars, history, callVars, answers
<1>4. AtGui(v)' = AtGui(v)
  BY <1>3, PlacesKept
<1>5. FinitePlaces(v)'
  BY <1>2, <1>3, PlacesKept DEF FinitePlaces
<1>6. /\ Due(v) \in Nat /\ closed[v] \in Nat /\ Len(notices[v]) \in Nat
      /\ AtGui(v) \in Nat /\ AtUser(v) \in Nat /\ AtServer(v) \in Nat
  BY Naturals
<1>7. Due(v) = closed[v] + Len(notices[v]) + AtGui(v) + AtUser(v) + AtServer(v)
  BY DEF Conserved
<1>8. Due(v) = closed[v] + Len(notices[v]) + AtGui(v) + AtUser(v)' + AtServer(v)'
  <2> DEFINE c == closed[v] + Len(notices[v]) + AtGui(v)
             t == AtUser(v)
             s == AtServer(v)
             t2 == AtUser(v)'
             s2 == AtServer(v)'
  <2>1. c \in Nat /\ t \in Nat /\ s \in Nat
    BY <1>6
  <2>2. t2 \in Nat /\ s2 \in Nat /\ s2 + t2 = s + t
    BY <1>2
  <2>3. Due(v) = c + t + s
    BY <1>7
  <2> HIDE DEF c, t, s, t2, s2
  <2>4. Due(v) = c + t2 + s2
    BY <2>1, <2>2, <2>3
  <2> QED BY <2>4 DEF c, t2, s2
<1>9. Conserved(v)'
  BY <1>3, <1>4, <1>8 DEF Conserved, Due
<1> QED BY <1>5, <1>9

\* A request that is received is posted.
LEMMA ReceiveRequestBalances ==
  ASSUME IInv, NEW v \in Online, FinitePlaces(v), Conserved(v), NEW u \in Online, ReceiveRequest(u)
  PROVE  FinitePlaces(v)' /\ Conserved(v)'
<1>1. Receives(u, "RequestCall") /\ Post(u, "WM_OPEN_CALLREQUEST")
  BY DEF ReceiveRequest
<1>2. /\ IsFiniteSet(Places(toUser', {v}, Requests))
      /\ AtUser(v)' \in Nat
      /\ AtUser(v) = AtUser(v)' + (IF u = v THEN 1 ELSE 0)
  BY <1>1, UserReceived
<1>3. "WM_OPEN_CALLREQUEST" \in Posts
  BY DEF Posts
<1>4. /\ IsFiniteSet(Places(posted', {v}, {"WM_OPEN_CALLREQUEST"}))
      /\ AtGui(v)' = AtGui(v) + (IF u = v THEN 1 ELSE 0)
  BY <1>1, <1>3, GuiPosted
<1>5. UNCHANGED <<toServer, asked, again, closed, notices>>
  BY <1>1 DEF Receives, noteVars, callVars
<1>6. AtServer(v)' = AtServer(v)
  BY <1>5, PlacesKept
<1>7. FinitePlaces(v)'
  BY <1>2, <1>4, <1>5, PlacesKept DEF FinitePlaces
<1>8. Due(v) = closed[v] + Len(notices[v]) + AtGui(v)' + AtUser(v)' + AtServer(v)
  <2> DEFINE c == closed[v] + Len(notices[v])
             g == AtGui(v)
             t == AtUser(v)
             g2 == AtGui(v)'
             t2 == AtUser(v)'
             d == IF u = v THEN 1 ELSE 0
  <2>1. c \in Nat /\ g \in Nat /\ t \in Nat /\ AtServer(v) \in Nat
    BY Naturals
  <2>2. t2 \in Nat /\ t = t2 + d /\ g2 = g + d /\ d \in Nat
    BY <1>2, <1>4
  <2>3. Due(v) = c + g + t + AtServer(v)
    BY DEF Conserved
  <2> HIDE DEF c, g, t, g2, t2, d
  <2>4. c + g + t = c + g2 + t2
    BY <2>1, <2>2
  <2>5. Due(v) = c + g2 + t2 + AtServer(v)
    BY <2>3, <2>4
  <2> QED BY <2>5 DEF c, g2, t2
<1>9. Conserved(v)'
  BY <1>5, <1>6, <1>8 DEF Conserved, Due
<1> QED BY <1>7, <1>9

\* The answers a client receives are no calls.
LEMMA ReceiveAnswerBalances ==
  ASSUME IInv, NEW v \in Online, FinitePlaces(v), Conserved(v), NEW u \in Online,
         ReceiveAccept(u) \/ ReceiveReject(u)
  PROVE  FinitePlaces(v)' /\ Conserved(v)'
<1>1. PICK t : Receives(u, t) /\ t # "RequestCall"
  BY DEF ReceiveAccept, ReceiveReject
<1>2. /\ IsFiniteSet(Places(toUser', {v}, Requests))
      /\ AtUser(v)' = AtUser(v)
  <2>1. /\ IsFiniteSet(Places(toUser', {v}, Requests)) /\ AtUser(v)' \in Nat
        /\ AtUser(v) = AtUser(v)' + 0
    BY <1>1, UserReceived
  <2> QED BY <2>1
<1>3. /\ IsFiniteSet(Places(posted', {v}, {"WM_OPEN_CALLREQUEST"}))
      /\ AtGui(v)' = AtGui(v)
  <2>1. CASE Post(u, "WM_OPEN_VIDEOCLIENT")
    <3>1. "WM_OPEN_VIDEOCLIENT" \in Posts
      BY DEF Posts
    <3>2. /\ IsFiniteSet(Places(posted', {v}, {"WM_OPEN_CALLREQUEST"}))
          /\ AtGui(v)' = AtGui(v) + 0
      BY <2>1, <3>1, GuiPosted
    <3> QED BY <3>2, Naturals
  <2>2. CASE UNCHANGED posted
    BY <2>2, PlacesKept
  <2> QED BY <2>1, <2>2 DEF ReceiveAccept, ReceiveReject, Dials
<1>4. UNCHANGED <<toServer, asked, again, closed, notices>>
  BY <1>1 DEF Receives, noteVars, callVars
<1>5. AtServer(v)' = AtServer(v)
  BY <1>4, PlacesKept
<1>6. FinitePlaces(v)'
  BY <1>2, <1>3, <1>4, PlacesKept DEF FinitePlaces
<1>7. Conserved(v)'
  BY <1>2, <1>3, <1>4, <1>5 DEF Conserved, Due
<1> QED BY <1>6, <1>7

LEMMA NothingMovesBalances ==
  ASSUME NEW v \in Online, FinitePlaces(v), Conserved(v),
         UNCHANGED <<asked, again, closed, notices, posted, toUser, toServer>>
  PROVE  FinitePlaces(v)' /\ Conserved(v)'
<1>1. FinitePlaces(v)'
  BY PlacesKept DEF FinitePlaces
<1>2. AtGui(v)' = AtGui(v) /\ AtUser(v)' = AtUser(v) /\ AtServer(v)' = AtServer(v)
  BY PlacesKept
<1> QED BY <1>1, <1>2 DEF Conserved, Due

\* A request that is handled once more is posted once more, and counted so.
LEMMA HandlesAgainBalances ==
  ASSUME IInv, NEW v \in Online, FinitePlaces(v), Conserved(v), NEW u \in Online, HandlesAgain(u)
  PROVE  FinitePlaces(v)' /\ Conserved(v)'
<1>1. UNCHANGED <<toUser, toServer, asked, closed, notices>>
  BY DEF HandlesAgain, netVars, noteVars, callVars
<1>2. CASE Post(u, "WM_OPEN_CALLREQUEST") /\ again' = [again EXCEPT ![u] = @ + 1]
  <2>1. "WM_OPEN_CALLREQUEST" \in Posts
    BY DEF Posts
  <2>2. /\ IsFiniteSet(Places(posted', {v}, {"WM_OPEN_CALLREQUEST"}))
        /\ AtGui(v)' = AtGui(v) + (IF u = v THEN 1 ELSE 0)
    BY <1>2, <2>1, GuiPosted
  <2>3. AtUser(v)' = AtUser(v) /\ AtServer(v)' = AtServer(v)
    BY <1>1, PlacesKept
  <2>4. FinitePlaces(v)'
    BY <1>1, <2>2, PlacesKept DEF FinitePlaces
  <2>5. Due(v)' = Due(v) + (IF u = v THEN 1 ELSE 0)
    <3>1. again \in [Online -> Nat] /\ again[v] \in Nat /\ asked[v] \in Nat /\ asked' = asked
      BY <1>1, OnlineAssumption DEF IInv, TypeOK
    <3>2. CASE u = v
      BY <1>2, <3>1, <3>2 DEF Due
    <3>3. CASE u # v
      BY <1>2, <3>1, <3>3 DEF Due
    <3> QED BY <3>2, <3>3
  <2>6. Due(v)' = closed[v] + Len(notices[v]) + AtGui(v)' + AtUser(v) + AtServer(v)
    <3> DEFINE c == closed[v] + Len(notices[v])
               g == AtGui(v)
               g2 == AtGui(v)'
               d == IF u = v THEN 1 ELSE 0
    <3>1. c \in Nat /\ g \in Nat /\ AtUser(v) \in Nat /\ AtServer(v) \in Nat /\ d \in Nat /\ g2 = g + d
      BY <2>2, Naturals
    <3>2. Due(v) = c + g + AtUser(v) + AtServer(v) /\ Due(v)' = Due(v) + d
      BY <2>5 DEF Conserved
    <3> HIDE DEF c, g, g2, d
    <3>3. Due(v)' = c + g2 + AtUser(v) + AtServer(v)
      BY <3>1, <3>2
    <3> QED BY <3>3 DEF c, g2
  <2>7. Conserved(v)'
    BY <1>1, <2>3, <2>6 DEF Conserved
  <2> QED BY <2>4, <2>7
<1>3. CASE Post(u, "WM_OPEN_VIDEOCLIENT") /\ UNCHANGED again
  BY <1>1, <1>3, OtherPostsBalance DEF Posts
<1>4. CASE UNCHANGED <<posted, again>>
  BY <1>1, <1>4, NothingMovesBalances
<1> QED BY <1>2, <1>3, <1>4 DEF HandlesAgain, Dials

LEMMA InitBalanced == Init => Balanced
<1> SUFFICES ASSUME Init, NEW v \in Online PROVE FinitePlaces(v) /\ Conserved(v)
  BY DEF Balanced
<1>1. ASSUME NEW q, NEW U, NEW S, \A w \in U : q[w] = <<>>
      PROVE  IsFiniteSet(Places(q, U, S)) /\ Count(q, U, S) = 0
  <2>1. Places(q, U, S) = {}
    BY <1>1 DEF Places
  <2> QED BY <2>1, FS_EmptySet DEF Count
<1>2. /\ \A w \in {v} : posted[w] = <<>> /\ toUser[w] = <<>>
      /\ \A w \in Online : toServer[w] = <<>>
  BY DEF Init
<1>3. /\ IsFiniteSet(Places(posted, {v}, {"WM_OPEN_CALLREQUEST"})) /\ AtGui(v) = 0
      /\ IsFiniteSet(Places(toUser, {v}, Requests)) /\ AtUser(v) = 0
      /\ IsFiniteSet(Places(toServer, Online, RequestsTo(v))) /\ AtServer(v) = 0
  BY <1>1, <1>2 DEF AtGui, AtUser, AtServer
<1>4. asked[v] = 0 /\ again[v] = 0 /\ closed[v] = 0 /\ Len(notices[v]) = 0
  BY OnlineAssumption DEF Init
<1> QED BY <1>3, <1>4 DEF FinitePlaces, Conserved, Due

LEMMA StepBalances ==
  ASSUME IInv, Balanced, [Next]_vars
  PROVE  Balanced'
<1> SUFFICES ASSUME NEW v \in Online PROVE FinitePlaces(v)' /\ Conserved(v)'
  BY DEF Balanced
<1>1. FinitePlaces(v) /\ Conserved(v)
  BY DEF Balanced
<1>2. ASSUME NEW u \in Online, User(u) PROVE FinitePlaces(v)' /\ Conserved(v)'
  <2>1. ASSUME PressDeny(u) PROVE UNCHANGED <<asked, again, closed, notices, posted, toUser, toServer>>
    BY <2>1 DEF PressDeny, netVars, noteVars, history, callVars, answers
  <2> QED BY <1>1, <1>2, <2>1, CallBalances, AcceptBalances, DenyBalances, NothingMovesBalances DEF User
<1>3. ASSUME NEW u \in Online, Gui(u) PROVE FinitePlaces(v)' /\ Conserved(v)'
  <2>1. CASE CreateCallNotification(u)
    BY <1>1, <2>1, CreateCallNotificationBalances
  <2>2. CASE OnStartServer(u) \/ OnConnect(u) \/ OnClientLost(u)
    <3>1. PICK m \in Posts : m # "WM_OPEN_CALLREQUEST" /\ Handles(u, m)
      BY <2>2 DEF OnStartServer, OnConnect, OnClientLost, Posts
    <3>2. UNCHANGED noteVars
      BY <2>2 DEF OnStartServer, OnConnect, OnClientLost
    <3>3. UNCHANGED <<asked, again, closed, notices, toUser, toServer>>
      BY <3>1, <3>2 DEF Handles, netVars, noteVars, history, callVars, answers
    <3> QED BY <1>1, <3>1, <3>3, OtherPostsBalance
  <2> QED BY <1>3, <2>1, <2>2 DEF Gui
<1>4. ASSUME NEW u \in Online, Video(u) PROVE FinitePlaces(v)' /\ Conserved(v)'
  <2>1. CASE VideoServerListens(u) \/ VideoServerEnds(u)
    <3>1. UNCHANGED <<asked, again, closed, notices, posted, toUser, toServer>>
      BY <2>1 DEF VideoServerListens, VideoServerEnds, netVars, noteVars, history, callVars, answers
    <3> QED BY <1>1, <3>1, NothingMovesBalances
  <2>2. CASE VideoClientEnds(u)
    <3>1. Post(u, "WM_CLIENT_LOST") /\ "WM_CLIENT_LOST" \in Posts
      BY <2>2 DEF VideoClientEnds, Posts
    <3>2. UNCHANGED <<asked, again, closed, notices, toUser, toServer>>
      BY <2>2 DEF VideoClientEnds, netVars, noteVars, history, callVars, answers
    <3> QED BY <1>1, <3>1, <3>2, OtherPostsBalance
  <2> QED BY <1>4, <2>1, <2>2 DEF Video
<1>5. ASSUME NEW u \in Online, Receive(u) PROVE FinitePlaces(v)' /\ Conserved(v)'
  BY <1>1, <1>5, ReceiveRequestBalances, ReceiveAnswerBalances DEF Receive
<1>6. CASE UNCHANGED vars
  <2>1. UNCHANGED <<asked, again, closed, notices, posted, toUser, toServer>>
    BY <1>6 DEF vars, netVars, noteVars, history, callVars, answers
  <2> QED BY <1>1, <2>1, NothingMovesBalances
<1> QED BY <1>1, <1>2, <1>3, <1>4, <1>5, <1>6, RelayBalances, HandlesAgainBalances DEF Next

\* No call is lost, or shown more often than it was handled, for any number of
\* users and calls: a call to a user who is logged in is on its way to the server
\* or to that user, posted, shown, or answered, and so is each that was handled
\* once more.
THEOREM CallsConserved == Spec => []CallsAreConserved
<1>1. IInv /\ Balanced /\ [Next]_vars => Balanced'
  BY StepBalances
<1>2. Balanced => CallsAreConserved
  BY DEF Balanced, Conserved, Due, CallsAreConserved, AtGui, AtUser, AtServer
<1> QED BY <1>1, <1>2, InitBalanced, Invariance, PTL DEF Spec
-----------------------------------------------------------------------------
(* One dial for a call: only a Call makes a caller, only a caller dials, and *)
(* a caller who has dialled is one no more.                                  *)

LEMMA StepDialled ==
  ASSUME IInv, Dialled, [Next]_vars
  PROVE  Dialled'
<1> SUFFICES ASSUME NEW v \in Online
             PROVE  dials'[v] + (IF devStatus'[v] = "Caller" THEN 1 ELSE 0) <= placed'[v]
  BY DEF Dialled
<1>1. /\ dials[v] + (IF devStatus[v] = "Caller" THEN 1 ELSE 0) <= placed[v]
      /\ dials[v] \in Nat /\ placed[v] \in Nat
  BY DEF Dialled, IInv, TypeOK
<1>2. dials \in [Online -> Nat] /\ placed \in [Online -> Nat] /\ DOMAIN devStatus = Online
  BY DEF IInv, TypeOK
<1>3. CASE UNCHANGED <<devStatus, dials, placed>>
  BY <1>1, <1>3
<1>4. ASSUME NEW u \in Online, NEW w \in Users, Call(u, w)
      PROVE  dials'[v] + (IF devStatus'[v] = "Caller" THEN 1 ELSE 0) <= placed'[v]
  <2>1. placed' = [placed EXCEPT ![u] = @ + 1] /\ devStatus' = [devStatus EXCEPT ![u] = "Caller"]
        /\ dials' = dials
    BY <1>4 DEF Call
  <2> QED BY <1>1, <1>2, <2>1
<1>5. ASSUME NEW u \in Online, NEW s, s # "Caller", UNCHANGED <<dials, placed>>,
             devStatus' = [devStatus EXCEPT ![u] = s]
      PROVE  dials'[v] + (IF devStatus'[v] = "Caller" THEN 1 ELSE 0) <= placed'[v]
  BY <1>1, <1>2, <1>5
<1>10. ASSUME NEW u \in Online, Dials(u), placed' = placed
       PROVE  dials'[v] + (IF devStatus'[v] = "Caller" THEN 1 ELSE 0) <= placed'[v]
  <2>1. CASE devStatus[u] = "Caller"
    <3>1. devStatus' = [devStatus EXCEPT ![u] = "Calling"] /\ dials' = [dials EXCEPT ![u] = @ + 1]
      BY <1>10, <2>1 DEF Dials
    <3>2. CASE v = u
      <4>1. devStatus'[v] = "Calling" /\ dials'[v] = dials[v] + 1
        BY <1>2, <3>1, <3>2
      <4>2. dials[v] + 1 <= placed[v]
        BY <1>1, <2>1, <3>2
      <4>3. dials'[v] + 0 <= placed[v]
        BY <1>1, <4>1, <4>2
      <4> QED BY <1>10, <4>1, <4>3
    <3>3. CASE v # u
      <4>1. devStatus'[v] = devStatus[v] /\ dials'[v] = dials[v]
        BY <1>2, <3>1, <3>3
      <4> QED BY <1>1, <1>10, <4>1
    <3> QED BY <3>2, <3>3
  <2>2. CASE devStatus[u] # "Caller"
    BY <1>3, <1>10, <2>2 DEF Dials
  <2> QED BY <2>1, <2>2
<1>6. ASSUME NEW u \in Online, User(u)
      PROVE  dials'[v] + (IF devStatus'[v] = "Caller" THEN 1 ELSE 0) <= placed'[v]
  <2>1. ASSUME NEW k \in DOMAIN notices[u], Accept(u, k)
        PROVE  dials'[v] + (IF devStatus'[v] = "Caller" THEN 1 ELSE 0) <= placed'[v]
    <3>1. devStatus' = [devStatus EXCEPT ![u] = "Callee"] /\ UNCHANGED <<dials, placed>>
      BY <2>1 DEF Accept, callVars
    <3> QED BY <1>5, <3>1
  <2>2. ASSUME NEW k \in DOMAIN notices[u], Deny(u, k) \/ Ignore(u, k)
        PROVE  UNCHANGED <<devStatus, dials, placed>>
    BY <2>2 DEF Deny, Ignore, history, callVars, answers
  <2>3. ASSUME PressDeny(u) PROVE UNCHANGED <<devStatus, dials, placed>>
    BY <2>3 DEF PressDeny, history, callVars, answers
  <2> QED BY <1>3, <1>4, <1>6, <2>1, <2>2, <2>3 DEF User
<1>7. ASSUME NEW u \in Online, Gui(u) \/ Video(u) \/ Relay(u)
      PROVE  UNCHANGED <<devStatus, dials, placed>>
  <2>1. CASE Gui(u)
    BY <2>1 DEF Gui, CreateCallNotification, OnStartServer, OnConnect, OnClientLost, Handles,
                history, callVars, answers
  <2>2. CASE Video(u)
    BY <2>2 DEF Video, VideoServerListens, VideoServerEnds, VideoClientEnds, history, callVars, answers
  <2>3. CASE Relay(u)
    BY <2>3 DEF Relay, RelayRequest, RelayAccept, RelayReject, Relays, history, callVars, answers
  <2> QED BY <1>7, <2>1, <2>2, <2>3
<1>8. ASSUME NEW u \in Online, Receive(u)
      PROVE  dials'[v] + (IF devStatus'[v] = "Caller" THEN 1 ELSE 0) <= placed'[v]
  <2>1. CASE ReceiveRequest(u)
    BY <1>3, <2>1 DEF ReceiveRequest, Receives, callVars
  <2>2. CASE ReceiveReject(u)
    <3>1. devStatus' = [devStatus EXCEPT ![u] = "Connected"] /\ UNCHANGED <<dials, placed>>
      BY <2>2 DEF ReceiveReject, Receives, callVars
    <3> QED BY <1>5, <3>1
  <2>3. CASE ReceiveAccept(u)
    BY <1>10, <2>3 DEF ReceiveAccept, Receives, callVars
  <2> QED BY <1>8, <2>1, <2>2, <2>3 DEF Receive
<1>11. ASSUME NEW u \in Online, HandlesAgain(u)
       PROVE  dials'[v] + (IF devStatus'[v] = "Caller" THEN 1 ELSE 0) <= placed'[v]
  <2>1. placed' = placed
    BY <1>11 DEF HandlesAgain, callVars
  <2>2. CASE UNCHANGED <<devStatus, dials>>
    BY <1>3, <2>1, <2>2
  <2>3. CASE Dials(u)
    BY <1>10, <2>1, <2>3
  <2>4. CASE devStatus' = [devStatus EXCEPT ![u] = "Connected"] /\ UNCHANGED dials
    BY <1>5, <2>1, <2>4
  <2> QED BY <1>11, <2>2, <2>3, <2>4 DEF HandlesAgain
<1>9. CASE UNCHANGED vars
  BY <1>3, <1>9 DEF vars, history, callVars, answers
<1> QED BY <1>3, <1>6, <1>7, <1>8, <1>9, <1>11 DEF Next

\* The video client is opened at most once for each press of Call, whatever
\* answers arrive, how late and how often.
THEOREM DialsBounded == Spec => []OneDialPerCall
<1>1. Init => Dialled
  BY DEF Init, Dialled
<1>2. IInv /\ Dialled /\ [Next]_vars => Dialled'
  BY StepDialled
<1>3. IInv /\ Dialled => OneDialPerCall
  <2> SUFFICES ASSUME IInv, Dialled, NEW u \in Online PROVE dials[u] <= placed[u]
    BY DEF OneDialPerCall
  <2>1. /\ dials[u] \in Nat /\ placed[u] \in Nat
        /\ dials[u] + (IF devStatus[u] = "Caller" THEN 1 ELSE 0) <= placed[u]
    BY DEF IInv, TypeOK, Dialled
  <2> QED BY <2>1
<1> QED BY <1>1, <1>2, <1>3, Invariance, PTL DEF Spec
-----------------------------------------------------------------------------
(* Messages on their way.  What is in a connection leaves it only at its    *)
(* head, and only when the server or the client's thread takes it out.      *)

LEMMA HeadOrTail ==
  ASSUME NEW S, NEW s \in Seq(S), s # <<>>
  PROVE  ToSet(s) \subseteq {Head(s)} \cup ToSet(Tail(s))
<1>1. /\ Tail(s) \in Seq(S) /\ Len(Tail(s)) = Len(s) - 1
      /\ \A i \in 1 .. (Len(s) - 1) : Tail(s)[i] = s[i + 1]
  BY HeadTailProperties
<1>2. DOMAIN Tail(s) = 1 .. (Len(s) - 1) /\ DOMAIN s = 1 .. Len(s) /\ Head(s) = s[1]
  BY <1>1
<1>3. ASSUME NEW i \in DOMAIN s PROVE s[i] \in {Head(s)} \cup ToSet(Tail(s))
  <2>1. CASE i = 1 BY <1>2, <2>1
  <2>2. CASE i # 1
    <3>1. i - 1 \in 1 .. (Len(s) - 1) /\ (i - 1) + 1 = i BY <1>2, <2>2
    <3>2. s[i] = Tail(s)[i - 1] BY <1>1, <3>1
    <3> QED BY <1>2, <3>1, <3>2 DEF ToSet
  <2> QED BY <2>1, <2>2
<1> QED BY <1>3 DEF ToSet

\* The denial that each acceptance sends behind itself, until it is received.
DenialOnItsWay(u) ==
  \E m \in ToSet(toServer[u]) \cup ToSet(toUser[u]) : m.type = "RejectCall"

CalleesAreDenied == \A u \in Online : devStatus[u] = "Callee" => DenialOnItsWay(u)

\* Nothing is taken out of the two connections, and no user becomes a callee,
\* but by an acceptance.
OnlyAdds ==
  /\ \A w \in Online : ToSet(toServer[w]) \subseteq ToSet(toServer'[w])
  /\ \A w \in Online : ToSet(toUser[w]) \subseteq ToSet(toUser'[w])
  /\ \A w \in Online : devStatus'[w] = "Callee" =>
       devStatus[w] = "Callee" \/ \E m \in ToSet(toServer'[w]) : m.type = "RejectCall"

LEMMA AcceptAdds ==
  ASSUME IInv, NEW u \in Online, NEW k \in DOMAIN notices[u], Accept(u, k)
  PROVE  OnlyAdds
<1> DEFINE a == Message("AcceptCall", u, callMsg[u])
           r == Message("RejectCall", u, callMsg[u])
           ms == <<a, r>>
<1>1. callMsg[u] \in Users BY CloseNoticeKeeps DEF Accept
<1>2. a \in Messages /\ r \in Messages /\ r.type = "RejectCall"
  BY <1>1, OnlineAssumption DEF Message, Messages, Types
<1>3. sendMsgtoACS(u, ms) BY DEF Accept
<1>4. UNCHANGED toUser /\ devStatus' = [devStatus EXCEPT ![u] = "Callee"] BY DEF Accept
<1> HIDE DEF a, r
<1>5. ms \in Seq(Messages) /\ r \in ToSet(ms) BY <1>2 DEF ToSet
<1> HIDE DEF ms
<1>6. \A w \in Online :
        ToSet(toServer'[w]) = IF w = u THEN ToSet(toServer[w]) \cup ToSet(ms) ELSE ToSet(toServer[w])
  BY <1>3, <1>5, SentToSet
<1>7. r \in ToSet(toServer'[u]) BY <1>5, <1>6
<1> QED BY <1>2, <1>4, <1>6, <1>7 DEF OnlyAdds, IInv, TypeOK

LEMMA UserAdds ==
  ASSUME IInv, NEW u \in Online, User(u)
  PROVE  OnlyAdds
<1>1. ASSUME NEW m \in Messages, sendMsgtoACS(u, <<m>>), UNCHANGED toUser,
             \A w \in Online : devStatus'[w] = "Callee" => devStatus[w] = "Callee"
      PROVE  OnlyAdds
  <2>1. <<m>> \in Seq(Messages) OBVIOUS
  <2>2. \A w \in Online : ToSet(toServer[w]) \subseteq ToSet(toServer'[w])
    BY <1>1, <2>1, SentToSet
  <2> QED BY <1>1, <2>2 DEF OnlyAdds
<1>2. ASSUME NEW v \in Users, Call(u, v) PROVE OnlyAdds
  <2>1. Message("RequestCall", u, v) \in Messages BY OnlineAssumption DEF Message, Messages, Types
  <2>2. \A w \in Online : devStatus'[w] = "Callee" => devStatus[w] = "Callee"
    BY <1>2 DEF Call, IInv, TypeOK
  <2> QED BY <1>1, <1>2, <2>1, <2>2 DEF Call
<1>3. ASSUME NEW k \in DOMAIN notices[u], Deny(u, k) PROVE OnlyAdds
  <2>1. callMsg[u] \in Users BY <1>3, CloseNoticeKeeps DEF Deny
  <2>2. Message("RejectCall", u, callMsg[u]) \in Messages
    BY <2>1, OnlineAssumption DEF Message, Messages, Types
  <2> QED BY <1>1, <1>3, <2>2 DEF Deny
<1>4. ASSUME UNCHANGED <<devStatus, netVars>> PROVE OnlyAdds BY <1>4 DEF OnlyAdds, netVars
<1> QED BY <1>2, <1>3, <1>4, AcceptAdds DEF User, Ignore, PressDeny

LEMMA OthersAdd ==
  ASSUME NEW u \in Online, Gui(u) \/ Video(u) \/ UNCHANGED vars
  PROVE  OnlyAdds
BY DEF Gui, Video, CreateCallNotification, OnStartServer, OnConnect, OnClientLost, Handles,
   VideoServerListens, VideoServerEnds, VideoClientEnds, OnlyAdds, vars, netVars

\* What is handled once more is in no connection, and makes nobody a callee.
LEMMA AgainAdds ==
  ASSUME IInv, NEW u \in Online, HandlesAgain(u)
  PROVE  OnlyAdds
<1>1. \A w \in Online : devStatus'[w] = "Callee" => devStatus[w] = "Callee"
  BY DEF HandlesAgain, Dials, IInv, TypeOK
<1> QED BY <1>1 DEF HandlesAgain, OnlyAdds, netVars

\* The server takes the first message of one connection.
LEMMA RelayMoves ==
  ASSUME IInv, NEW u \in Online, NEW to, toServer[u] # <<>>, Relays(u, to)
  PROVE  /\ \A w \in Online : \A m \in ToSet(toServer[w]) :
              m \in ToSet(toServer'[w]) \/ (w = u /\ m = Head(toServer[u]))
         /\ \A w \in Online : ToSet(toUser[w]) \subseteq ToSet(toUser'[w])
         /\ to \in Online => Head(toServer[u]) \in ToSet(toUser'[to])
         /\ devStatus' = devStatus
<1> DEFINE h == Head(toServer[u])
<1>1. toServer[u] \in Seq(Messages) /\ h \in Messages
  <2>1. toServer[u] \in Seq(Messages) BY Sequences DEF IInv
  <2> QED BY <2>1, TailToSet
<1>2. ToSet(toServer[u]) \subseteq {h} \cup ToSet(Tail(toServer[u])) BY <1>1, HeadOrTail
<1>3. toServer' = [toServer EXCEPT ![u] = Tail(toServer[u])] /\ devStatus' = devStatus
      /\ toUser' = [w \in Online |-> IF w = to THEN Append(toUser[w], h) ELSE toUser[w]]
  BY DEF Relays
<1> HIDE DEF h
<1>4. ASSUME NEW w \in Online
      PROVE  ToSet(Append(toUser[w], h)) = ToSet(toUser[w]) \cup {h}
  <2>1. toUser[w] \in Seq(Messages) BY Sequences DEF IInv
  <2> QED BY <1>1, <2>1, AppendToSet
<1>5. \A w \in Online : toServer'[w] = IF w = u THEN Tail(toServer[u]) ELSE toServer[w]
  BY <1>3 DEF IInv, TypeOK
<1>6. \A w \in Online : toUser'[w] = IF w = to THEN Append(toUser[w], h) ELSE toUser[w]
  BY <1>3
<1>7. \A w \in Online : \A m \in ToSet(toServer[w]) : m \in ToSet(toServer'[w]) \/ (w = u /\ m = h)
  BY <1>2, <1>5
<1>8. \A w \in Online : ToSet(toUser[w]) \subseteq ToSet(toUser'[w])
  <2> TAKE w \in Online
  <2>1. CASE w = to BY <1>4, <1>6, <2>1
  <2>2. CASE w # to BY <1>6, <2>2
  <2> QED BY <2>1, <2>2
<1>9. to \in Online => h \in ToSet(toUser'[to]) BY <1>4, <1>6
<1> QED BY <1>3, <1>7, <1>8, <1>9 DEF h

\* The client's thread takes the first message of its connection.
LEMMA ReceiveMoves ==
  ASSUME IInv, NEW u \in Online, NEW t, Receives(u, t)
  PROVE  /\ toServer' = toServer
         /\ \A w \in Online : \A m \in ToSet(toUser[w]) :
              m \in ToSet(toUser'[w]) \/ (w = u /\ m.type = t)
<1>1. toUser[u] \in Seq(Messages) BY Sequences DEF IInv
<1>2. toUser[u] # <<>> /\ Head(toUser[u]).type = t /\ toServer' = toServer
      /\ toUser' = [toUser EXCEPT ![u] = Tail(toUser[u])]
  BY DEF Receives
<1>3. ToSet(toUser[u]) \subseteq {Head(toUser[u])} \cup ToSet(Tail(toUser[u]))
  BY <1>1, <1>2, HeadOrTail
<1>4. \A w \in Online : toUser'[w] = IF w = u THEN Tail(toUser[u]) ELSE toUser[w]
  BY <1>2 DEF IInv, TypeOK
<1> QED BY <1>2, <1>3, <1>4

\* What a received message does to the status.
LEMMA ReceiveStatus ==
  ASSUME IInv, NEW u \in Online, Receive(u)
  PROVE  /\ \A w \in Online : devStatus'[w] = "Callee" => devStatus[w] = "Callee"
         /\ ReceiveReject(u) => devStatus'[u] = "Connected"
         /\ ReceiveAccept(u) => devStatus'[u] # "Caller"
BY DEF Receive, ReceiveRequest, ReceiveAccept, ReceiveReject, Receives, Dials, IInv, TypeOK

LEMMA CalleesStayDenied ==
  ASSUME IInv, CalleesAreDenied, [Next]_vars
  PROVE  CalleesAreDenied'
<1>1. ASSUME OnlyAdds PROVE CalleesAreDenied'
  BY <1>1 DEF OnlyAdds, CalleesAreDenied, DenialOnItsWay
<1>2. ASSUME NEW u \in Online, Relay(u) PROVE CalleesAreDenied'
  <2> SUFFICES ASSUME NEW w \in Online, devStatus'[w] = "Callee" PROVE DenialOnItsWay(w)'
    BY DEF CalleesAreDenied
  <2> DEFINE h == Head(toServer[u])
  <2>1. PICK to : toServer[u] # <<>> /\ Relays(u, to) /\ (h.type = "RejectCall" => to = u)
    BY <1>2 DEF Relay, RelayRequest, RelayAccept, RelayReject, Relayed
  <2>2. /\ \A m \in ToSet(toServer[w]) : m \in ToSet(toServer'[w]) \/ (w = u /\ m = h)
        /\ ToSet(toUser[w]) \subseteq ToSet(toUser'[w])
        /\ to \in Online => h \in ToSet(toUser'[to])
        /\ devStatus' = devStatus
    BY <2>1, RelayMoves
  <2> HIDE DEF h
  <2>3. PICK m \in ToSet(toServer[w]) \cup ToSet(toUser[w]) : m.type = "RejectCall"
    BY <2>2 DEF CalleesAreDenied, DenialOnItsWay
  <2>4. m \in ToSet(toServer'[w]) \cup ToSet(toUser'[w]) BY <2>1, <2>2, <2>3
  <2> QED BY <2>3, <2>4 DEF DenialOnItsWay
<1>3. ASSUME NEW u \in Online, Receive(u) PROVE CalleesAreDenied'
  <2> SUFFICES ASSUME NEW w \in Online, devStatus'[w] = "Callee" PROVE DenialOnItsWay(w)'
    BY DEF CalleesAreDenied
  <2>1. PICK t : Receives(u, t) /\ (t = "RejectCall" => ReceiveReject(u))
    BY <1>3 DEF Receive, ReceiveRequest, ReceiveAccept, ReceiveReject
  <2>2. PICK m \in ToSet(toServer[w]) \cup ToSet(toUser[w]) : m.type = "RejectCall"
    BY <1>3, ReceiveStatus DEF CalleesAreDenied, DenialOnItsWay
  <2>3. toServer' = toServer /\ (m \in ToSet(toUser[w]) => m \in ToSet(toUser'[w]) \/ (w = u /\ m.type = t))
    BY <2>1, ReceiveMoves
  <2>4. m \in ToSet(toServer'[w]) \cup ToSet(toUser'[w])
    BY <1>3, <2>1, <2>2, <2>3, ReceiveStatus
  <2> QED BY <2>2, <2>4 DEF DenialOnItsWay
<1>4. CASE UNCHANGED vars BY <1>4 DEF vars, netVars, CalleesAreDenied, DenialOnItsWay
<1> QED BY <1>1, <1>2, <1>3, <1>4, UserAdds, OthersAdd, AgainAdds DEF Next

\* A callee has a denial on its way, its own, which comes back and makes it
\* idle (NotifyCall.cpp 88-118, AccessControlServer.cpp 875-893): a call
\* is never answered by a user whose status lasts, and CalleeIsTransient asks
\* only that the two connections deliver.
THEOREM CalleesDenied == Spec => []CalleesAreDenied
<1>1. Init => CalleesAreDenied BY DEF Init, CalleesAreDenied
<1>2. Spec => Init /\ [][Next]_vars BY PTL DEF Spec
<1> QED BY <1>1, <1>2, Invariance, CalleesStayDenied, PTL

\* An acceptance is never lost: it leaves the answering user's connection for
\* that of the user it answers, and leaves that one only when its receiver is
\* not a caller any more, whatever else the two users do.
AcceptancesAreKept ==
  [][\A u, v \in Online :
       LET m == Message("AcceptCall", v, u) IN
       /\ m \in ToSet(toServer[v]) => m \in ToSet(toServer'[v]) \/ m \in ToSet(toUser'[u])
       /\ m \in ToSet(toUser[u]) => m \in ToSet(toUser'[u]) \/ devStatus'[u] # "Caller"]_vars

LEMMA AcceptanceKept ==
  ASSUME IInv, [Next]_vars, NEW a \in Online, NEW v \in Online, NEW m,
         m.type = "AcceptCall", m.to = a
  PROVE  /\ m \in ToSet(toServer[v]) => m \in ToSet(toServer'[v]) \/ m \in ToSet(toUser'[a])
         /\ m \in ToSet(toUser[a]) => m \in ToSet(toUser'[a]) \/ devStatus'[a] # "Caller"
<1> DEFINE Kept == /\ m \in ToSet(toServer[v]) => m \in ToSet(toServer'[v]) \/ m \in ToSet(toUser'[a])
                   /\ m \in ToSet(toUser[a]) => m \in ToSet(toUser'[a]) \/ devStatus'[a] # "Caller"
<1>1. ASSUME OnlyAdds PROVE Kept BY <1>1 DEF OnlyAdds
<1>2. ASSUME NEW u \in Online, Relay(u) PROVE Kept
  <2> DEFINE h == Head(toServer[u])
  <2>1. PICK to : toServer[u] # <<>> /\ Relays(u, to) /\ (h.type = "AcceptCall" => to = h.to)
    BY <1>2 DEF Relay, RelayRequest, RelayAccept, RelayReject, Relayed
  <2>2. /\ m \in ToSet(toServer[v]) => m \in ToSet(toServer'[v]) \/ m = h
        /\ ToSet(toUser[a]) \subseteq ToSet(toUser'[a])
        /\ to \in Online => h \in ToSet(toUser'[to])
    BY <2>1, RelayMoves
  <2> HIDE DEF h
  <2> QED BY <2>1, <2>2
<1>3. ASSUME NEW u \in Online, Receive(u) PROVE Kept
  <2>1. PICK t : Receives(u, t) /\ (t = "AcceptCall" => ReceiveAccept(u))
    BY <1>3 DEF Receive, ReceiveRequest, ReceiveAccept, ReceiveReject
  <2>2. toServer' = toServer /\ (m \in ToSet(toUser[a]) => m \in ToSet(toUser'[a]) \/ (a = u /\ m.type = t))
    BY <2>1, ReceiveMoves
  <2> QED BY <1>3, <2>1, <2>2, ReceiveStatus
<1>4. CASE UNCHANGED vars BY <1>4 DEF vars, netVars
<1> QED BY <1>1, <1>2, <1>3, <1>4, UserAdds, OthersAdd, AgainAdds DEF Next

THEOREM AcceptancesKept == Spec => AcceptancesAreKept
<1>1. IInv /\ [Next]_vars =>
        [\A u, v \in Online :
           LET m == Message("AcceptCall", v, u) IN
           /\ m \in ToSet(toServer[v]) => m \in ToSet(toServer'[v]) \/ m \in ToSet(toUser'[u])
           /\ m \in ToSet(toUser[u]) => m \in ToSet(toUser'[u]) \/ devStatus'[u] # "Caller"]_vars
  BY AcceptanceKept DEF Message
<1>2. Spec => [][Next]_vars BY PTL DEF Spec
<1> QED BY <1>1, <1>2, Invariance, PTL DEF AcceptancesAreKept
-----------------------------------------------------------------------------
(* The same for a call: it leaves each place on its way only for the next. *)

Asked == "WM_OPEN_CALLREQUEST"

\* The callee's GUI thread has the call before it, or shows one.
AtItsWindow(v) == Asked \in ToSet(posted[v]) \/ notices[v] # <<>>

\* What is posted to a GUI thread leaves its queue only by being handled.
LEMMA PostKept ==
  ASSUME IInv, NEW u \in Online, NEW m \in Posts, Post(u, m)
  PROVE  /\ \A w \in Online : ToSet(posted[w]) \subseteq ToSet(posted'[w])
         /\ m \in ToSet(posted'[u])
<1>1. posted \in [Online -> Seq(Posts)] /\ posted' = [posted EXCEPT ![u] = Append(posted[u], m)]
  BY DEF IInv, TypeOK, Post
<1>2. ToSet(Append(posted[u], m)) = ToSet(posted[u]) \cup {m} BY <1>1, AppendToSet
<1> QED BY <1>1, <1>2

LEMMA HandledPost ==
  ASSUME IInv, NEW u \in Online, NEW m, Handles(u, m)
  PROVE  \A w \in Online : \A p \in ToSet(posted[w]) : p \in ToSet(posted'[w]) \/ (w = u /\ p = m)
<1>1. /\ posted \in [Online -> Seq(Posts)] /\ posted' = [posted EXCEPT ![u] = Tail(posted[u])]
      /\ posted[u] # <<>> /\ Head(posted[u]) = m
  BY DEF IInv, TypeOK, Handles
<1>2. ToSet(posted[u]) \subseteq {m} \cup ToSet(Tail(posted[u])) BY <1>1, HeadOrTail
<1> QED BY <1>1, <1>2

\* Only its notification takes a posted call out of the queue.
LEMMA AskedKept ==
  ASSUME IInv, [Next]_vars, NEW v \in Online, Asked \in ToSet(posted[v])
  PROVE  AtItsWindow(v)'
<1> SUFFICES ASSUME Asked \notin ToSet(posted'[v]) PROVE notices'[v] # <<>>
  BY DEF AtItsWindow
<1>1. ~ UNCHANGED posted OBVIOUS
<1>2. ~ \E u \in Online : \E m \in Posts : Post(u, m) BY PostKept
<1>3. PICK u \in Online : User(u) \/ Gui(u) \/ Video(u) \/ Relay(u) \/ Receive(u) \/ HandlesAgain(u)
  BY <1>1 DEF Next, vars
<1>4. ~User(u)
  <2>1. ASSUME NEW w \in Users, Call(u, w) PROVE FALSE BY <1>1, <2>1 DEF Call
  <2>2. ASSUME NEW k \in DOMAIN notices[u], Accept(u, k) \/ Deny(u, k) \/ Ignore(u, k) PROVE FALSE
    BY <1>1, <1>2, <2>2 DEF Accept, Deny, Ignore, Posts
  <2>3. ~PressDeny(u) BY <1>1 DEF PressDeny
  <2> QED BY <2>1, <2>2, <2>3 DEF User
<1>5. ~Video(u)
  BY <1>1, <1>2 DEF Video, VideoServerListens, VideoServerEnds, VideoClientEnds, Posts
<1>6. ~Relay(u) BY <1>1 DEF Relay, RelayRequest, RelayAccept, RelayReject, Relays
<1>7. ~Receive(u)
  BY <1>1, <1>2 DEF Receive, ReceiveRequest, ReceiveAccept, ReceiveReject, Dials, Posts
<1>10. ~HandlesAgain(u) BY <1>1, <1>2 DEF HandlesAgain, Dials, Posts
<1>8. CASE CreateCallNotification(u)
  <2>1. u = v BY <1>8, HandledPost DEF CreateCallNotification
  <2>2. /\ notices \in [Online -> Seq(Users)]
        /\ notices' = [notices EXCEPT ![u] = Append(notices[u], heldFrom[u])]
    BY <1>8 DEF CreateCallNotification, IInv, TypeOK
  <2>3. notices'[v] = Append(notices[v], heldFrom[v]) /\ notices[v] \in Seq(Users) BY <2>1, <2>2
  <2> QED BY <2>3
<1>9. CASE OnStartServer(u) \/ OnConnect(u) \/ OnClientLost(u)
  <2>1. PICK m \in {"WM_OPEN_VIDEOSERVER", "WM_OPEN_VIDEOCLIENT", "WM_CLIENT_LOST"} : Handles(u, m)
    BY <1>9 DEF OnStartServer, OnConnect, OnClientLost
  <2> QED BY <2>1, HandledPost DEF Asked
<1> QED BY <1>3, <1>4, <1>5, <1>6, <1>7, <1>8, <1>9, <1>10 DEF Gui

\* A call to a user who is logged in goes from its caller's connection to its
\* callee's, from there to the callee's GUI thread, and is shown: no step of
\* anybody takes it out before, whatever the status of the two users is
\* (AccessControlServer.cpp 800-839, AccessControlClient.cpp 588-594,
\* NotifyCall.cpp 18-77).
RequestsAreKept ==
  [][\A u, v \in Online :
       LET m == Message("RequestCall", u, v) IN
       /\ m \in ToSet(toServer[u]) => m \in ToSet(toServer'[u]) \/ m \in ToSet(toUser'[v])
       /\ m \in ToSet(toUser[v]) => m \in ToSet(toUser'[v]) \/ Asked \in ToSet(posted'[v])
       /\ Asked \in ToSet(posted[v]) => AtItsWindow(v)']_vars

LEMMA RequestKept ==
  ASSUME IInv, [Next]_vars, NEW a \in Online, NEW v \in Online, NEW m,
         m.type = "RequestCall", m.to = v
  PROVE  /\ m \in ToSet(toServer[a]) => m \in ToSet(toServer'[a]) \/ m \in ToSet(toUser'[v])
         /\ m \in ToSet(toUser[v]) => m \in ToSet(toUser'[v]) \/ Asked \in ToSet(posted'[v])
<1> DEFINE Kept == /\ m \in ToSet(toServer[a]) => m \in ToSet(toServer'[a]) \/ m \in ToSet(toUser'[v])
                   /\ m \in ToSet(toUser[v]) => m \in ToSet(toUser'[v]) \/ Asked \in ToSet(posted'[v])
<1>1. ASSUME OnlyAdds PROVE Kept BY <1>1 DEF OnlyAdds
<1>2. ASSUME NEW u \in Online, Relay(u) PROVE Kept
  <2> DEFINE h == Head(toServer[u])
  <2>1. PICK to : toServer[u] # <<>> /\ Relays(u, to) /\ (h.type = "RequestCall" => to = h.to)
    BY <1>2 DEF Relay, RelayRequest, RelayAccept, RelayReject, Relayed
  <2>2. /\ m \in ToSet(toServer[a]) => m \in ToSet(toServer'[a]) \/ m = h
        /\ ToSet(toUser[v]) \subseteq ToSet(toUser'[v])
        /\ to \in Online => h \in ToSet(toUser'[to])
    BY <2>1, RelayMoves
  <2> HIDE DEF h
  <2> QED BY <2>1, <2>2
<1>3. ASSUME NEW u \in Online, Receive(u) PROVE Kept
  <2>1. PICK t : Receives(u, t) /\ (t = "RequestCall" => ReceiveRequest(u))
    BY <1>3 DEF Receive, ReceiveRequest, ReceiveAccept, ReceiveReject
  <2>2. toServer' = toServer /\ (m \in ToSet(toUser[v]) => m \in ToSet(toUser'[v]) \/ (v = u /\ m.type = t))
    BY <2>1, ReceiveMoves
  <2>3. ReceiveRequest(u) => Asked \in ToSet(posted'[u])
    BY PostKept DEF ReceiveRequest, Posts, Asked
  <2> QED BY <2>1, <2>2, <2>3
<1>4. CASE UNCHANGED vars BY <1>4 DEF vars, netVars
<1> QED BY <1>1, <1>2, <1>3, <1>4, UserAdds, OthersAdd, AgainAdds DEF Next

THEOREM RequestsKept == Spec => RequestsAreKept
<1>1. IInv /\ [Next]_vars =>
        [\A u, v \in Online :
           LET m == Message("RequestCall", u, v) IN
           /\ m \in ToSet(toServer[u]) => m \in ToSet(toServer'[u]) \/ m \in ToSet(toUser'[v])
           /\ m \in ToSet(toUser[v]) => m \in ToSet(toUser'[v]) \/ Asked \in ToSet(posted'[v])
           /\ Asked \in ToSet(posted[v]) => AtItsWindow(v)']_vars
  BY RequestKept, AskedKept DEF Message
<1>2. Spec => [][Next]_vars BY PTL DEF Spec
<1> QED BY <1>1, <1>2, Invariance, PTL DEF RequestsAreKept
-----------------------------------------------------------------------------
(* The video servers: those of VideoServer, seen from outside.  Each does  *)
(* what ThreadLife allows, and may do all that ThreadLife allows, so that  *)
(* no behaviour of a server is left out of the calls.                      *)

LEMMA LifeUnchanged ==
  ASSUME NEW w \in Online, UNCHANGED <<server, stuck>>
  PROVE  UNCHANGED <<server[w], stuck[w]>>
OBVIOUS

\* A stop by the user of a video server who does not wait for another.
LEMMA StopIsSeen ==
  ASSUME TypeOK, NEW u \in Online, ~ stuck[u], HangUp(u), NEW w \in Online
  PROVE  Thread(w)!Next \/ UNCHANGED <<server[w], stuck[w]>>
<1>1. CASE StopVideoServer(u)
  <2>1. CASE server' = [server EXCEPT ![u] = "none"] /\ UNCHANGED stuck
    BY <2>1 DEF TypeOK, Thread!Next, Thread!Stop
  <2>2. CASE server[u] = "starting" /\ stuck' = [stuck EXCEPT ![u] = TRUE] /\ UNCHANGED server
    BY <2>2 DEF TypeOK, Thread!Next, Thread!StopTooEarly
  <2> QED BY <1>1, <2>1, <2>2 DEF StopVideoServer
<1>2. CASE UNCHANGED <<server, stuck>> BY <1>2, LifeUnchanged
<1> QED BY <1>1, <1>2 DEF HangUp, StopVideoClient, videoVars

LEMMA StartIsSeen ==
  ASSUME TypeOK, NEW u \in Online, OnStartServer(u), NEW w \in Online
  PROVE  Thread(w)!Next \/ UNCHANGED <<server[w], stuck[w]>>
<1>1. /\ ~ stuck[u] /\ stuck' = stuck
      /\ server' = [server EXCEPT ![u] = IF @ = "none" THEN "starting" ELSE @]
  BY DEF OnStartServer, Handles
<1> QED BY <1>1 DEF TypeOK, Thread!Next, Thread!Start

LEMMA ServerIsSeen ==
  ASSUME TypeOK, NEW u \in Online, VideoServerListens(u) \/ VideoServerEnds(u), NEW w \in Online
  PROVE  Thread(w)!Next \/ UNCHANGED <<server[w], stuck[w]>>
<1>1. CASE VideoServerListens(u)
  BY <1>1 DEF VideoServerListens, TypeOK, Thread!Next, Thread!Runs
<1>2. CASE VideoServerEnds(u)
  <2>1. /\ server[u] \in {"starting", "running"}
        /\ server' = [server EXCEPT ![u] = IF stuck[u] THEN "none" ELSE "ended"]
        /\ stuck' = [stuck EXCEPT ![u] = FALSE]
    BY <1>2 DEF VideoServerEnds
  <2> QED BY <2>1 DEF TypeOK, Thread!Next, Thread!Ends
<1> QED BY <1>1, <1>2

LEMMA StepIsSeen ==
  ASSUME TypeOK, [Next]_vars, NEW w \in Online
  PROVE  Thread(w)!Next \/ UNCHANGED <<server[w], stuck[w]>>
<1>1. CASE UNCHANGED vars BY <1>1, LifeUnchanged DEF vars, videoVars
<1>2. ASSUME NEW u \in Online, User(u) \/ Gui(u) \/ Video(u) \/ Relay(u) \/ Receive(u) \/ HandlesAgain(u)
      PROVE  Thread(w)!Next \/ UNCHANGED <<server[w], stuck[w]>>
  <2>1. CASE PressDeny(u) BY <2>1, StopIsSeen DEF PressDeny
  <2>2. CASE OnClientLost(u) BY <2>2, StopIsSeen DEF OnClientLost, Handles
  <2>3. CASE OnStartServer(u) BY <2>3, StartIsSeen
  <2>4. CASE VideoServerListens(u) \/ VideoServerEnds(u) BY <2>4, ServerIsSeen
  <2>5. ASSUME NEW v \in Users, Call(u, v) PROVE UNCHANGED <<server, stuck>>
    BY <2>5 DEF Call, videoVars
  <2>6. ASSUME NEW k \in DOMAIN notices[u], Accept(u, k) \/ Deny(u, k) \/ Ignore(u, k)
        PROVE  UNCHANGED <<server, stuck>>
    BY <2>6 DEF Accept, Deny, Ignore, videoVars
  <2>7. CreateCallNotification(u) \/ OnConnect(u) \/ VideoClientEnds(u) => UNCHANGED <<server, stuck>>
    BY DEF CreateCallNotification, OnConnect, VideoClientEnds, videoVars
  <2>8. Relay(u) \/ Receive(u) \/ HandlesAgain(u) => UNCHANGED <<server, stuck>>
    BY DEF HandlesAgain, Relay, RelayRequest, RelayAccept, RelayReject, Relays, Receive, ReceiveRequest,
       ReceiveAccept, ReceiveReject, Receives, videoVars
  <2> QED
    BY <1>2, <2>1, <2>2, <2>3, <2>4, <2>5, <2>6, <2>7, <2>8, LifeUnchanged DEF User, Gui, Video
<1> QED BY <1>1, <1>2 DEF Next

\* The video server of every user lives as a thread that is started, ends by
\* itself and is stopped by the hang-up (LgVideoChatDemo.cpp 348, VideoServer.cpp
\* 39-57): the life that VideoServerProofs proves of the server's own module.
THEOREM ServersAreThreads ==
  ASSUME NEW u \in Online
  PROVE  Spec => Thread(u)!Spec
<1>1. Init => Thread(u)!Init BY DEF Init, Thread!Init
<1>2. TypeOK /\ [Next]_vars => [Thread(u)!Next]_<<server[u], stuck[u]>> BY StepIsSeen
<1> QED BY <1>1, <1>2, TypeCorrect, PTL DEF Spec, Thread!Spec

\* The same for all users at once.
THEOREM AllServersAreThreads == Spec => ServersLiveAsThreads
<1>1. Init => \A u \in Online : Thread(u)!Init BY DEF Init, Thread!Init
<1>2. TypeOK /\ [Next]_vars
        => [\A u \in Online : Thread(u)!Next \/ UNCHANGED <<server[u], stuck[u]>>]_vars
  BY StepIsSeen
<1> QED BY <1>1, <1>2, TypeCorrect, PTL DEF Spec, ServersLiveAsThreads

\* And nothing that such a thread may do by itself, or a stop of it may lead to,
\* is left out here: whenever ThreadLife lets the server of u begin to listen or
\* end, Video(u) does, and whenever it lets a stop return or wait, so does
\* StopVideoServer.
THEOREM NoLifeIsLeftOut ==
  ASSUME TypeOK, NEW u \in Online, NEW s, NEW b \in BOOLEAN,
         server' = [server EXCEPT ![u] = s], stuck' = [stuck EXCEPT ![u] = b]
  PROVE  /\ /\ Thread(u)!Runs \/ Thread(u)!Ends
            /\ UNCHANGED <<devStatus, netVars, heldVars, posted, noteVars, client, clientUp, history>>
            => Video(u)
         /\ /\ Thread(u)!Stop \/ Thread(u)!StopTooEarly
            /\ UNCHANGED <<client, clientUp>>
            => StopVideoServer(u)
<1>1. server'[u] = s /\ stuck'[u] = b BY DEF TypeOK
<1>2. s = server[u] => UNCHANGED server BY DEF TypeOK
<1>3. b = stuck[u] => UNCHANGED stuck BY DEF TypeOK
<1>4. ASSUME Thread(u)!Runs,
             UNCHANGED <<devStatus, netVars, heldVars, posted, noteVars, client, clientUp, history>>
      PROVE  VideoServerListens(u)
  BY <1>1, <1>3, <1>4 DEF Thread!Runs, VideoServerListens
<1>5. ASSUME Thread(u)!Ends,
             UNCHANGED <<devStatus, netVars, heldVars, posted, noteVars, client, clientUp, history>>
      PROVE  VideoServerEnds(u)
  BY <1>1, <1>5 DEF Thread!Ends, VideoServerEnds
<1>6. ASSUME Thread(u)!Stop, UNCHANGED <<client, clientUp>> PROVE StopVideoServer(u)
  BY <1>1, <1>3, <1>6 DEF Thread!Stop, StopVideoServer
<1>7. ASSUME Thread(u)!StopTooEarly, UNCHANGED <<client, clientUp>> PROVE StopVideoServer(u)
  BY <1>1, <1>2, <1>7 DEF Thread!StopTooEarly, StopVideoServer
<1> QED BY <1>4, <1>5, <1>6, <1>7 DEF Video
=============================================================================
