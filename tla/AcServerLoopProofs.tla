------------------------ MODULE AcServerLoopProofs ------------------------
(***************************************************************************)
(* The safety properties of AcServerLoop for any set of connections and    *)
(* any array sizes, from one inductive invariant; that no wake-up of a     *)
(* client is lost; that the thread lives as ThreadLife says; and that      *)
(* under fairness a stop returns.                                          *)
(***************************************************************************)
EXTENDS AcServerLoop, SequenceTheorems, WellFoundedInduction, TLAPS

\* The vector is empty whenever no loop has filled it: what a new run of the
\* server starts from.
EmptyBeforeLoop == thread \in {"none", "started", "created"} => sockmng = <<>>

\* Every handle ever stored in ghEvents is that of a connection already
\* accepted, so a connection still in the backlog is in no slot, stale ones
\* included.
HandlesWereAccepted ==
  \A i \in Slots : ghEvents[i] \in Conns => sock[ghEvents[i]] \notin {"none", "queued"}

\* A recorded event is always due: FD_READ to unread messages, FD_CLOSE to a
\* client that has closed; nothing is recorded before the accept.
RecordSound ==
  \A c \in Conns : /\ sock[c] \in {"none", "queued"} => record[c] = {}
                   /\ "FD_READ" \in record[c] => unread[c] > 0
                   /\ "FD_CLOSE" \in record[c] => ~ alive[c]

UnreadWereSent == \A c \in Conns : unread[c] <= sent[c]

\* The inductive invariant.
IInv ==
  /\ TypeOK
  /\ DispatchInRange /\ WaitedOnce /\ AgreeBelowShift /\ TableIsOpenSockets
  /\ EmptyBeforeLoop /\ HandlesWereAccepted /\ RecordSound /\ UnreadWereSent
-----------------------------------------------------------------------------
\* What erasing position k of a vector leaves: the entries before k in place,
\* those after it one position lower.
LEMMA RemoveAtProperties ==
  ASSUME NEW S, NEW s \in Seq(S), NEW k \in 1 .. Len(s)
  PROVE  /\ RemoveAt(s, k) \in Seq(S)
         /\ Len(RemoveAt(s, k)) = Len(s) - 1
         /\ \A j \in 1 .. (Len(s) - 1) :
              RemoveAt(s, k)[j] = IF j < k THEN s[j] ELSE s[j + 1]
<1> DEFINE front == SubSeq(s, 1, k - 1)
           back  == SubSeq(s, k + 1, Len(s))
<1>1. /\ front \in Seq(S) /\ Len(front) = k - 1
      /\ \A j \in 1 .. (k - 1) : front[j] = s[j]
  BY SubSeqProperties
<1>2. /\ back \in Seq(S) /\ Len(back) = Len(s) - k
      /\ \A j \in 1 .. (Len(s) - k) : back[j] = s[k + j]
  BY SubSeqProperties
<1> HIDE DEF front, back
<1>3. RemoveAt(s, k) = front \o back
  BY DEF RemoveAt, front, back
<1> DEFINE whole == front \o back
<1>4. /\ whole \in Seq(S)
      /\ Len(whole) = Len(front) + Len(back)
      /\ \A j \in 1 .. (Len(front) + Len(back)) :
           whole[j] = IF j <= Len(front) THEN front[j] ELSE back[j - Len(front)]
  BY <1>1, <1>2, ConcatProperties, Zenon
<1> HIDE DEF whole
<1>5. Len(whole) = Len(s) - 1
  BY <1>1, <1>2, <1>4
<1>6. ASSUME NEW j \in 1 .. (Len(s) - 1)
      PROVE  whole[j] = IF j < k THEN s[j] ELSE s[j + 1]
  <2>1. whole[j] = IF j <= k - 1 THEN front[j] ELSE back[j - (k - 1)]
    BY <1>1, <1>2, <1>4, Len(front) + Len(back) = Len(s) - 1
  <2>2. CASE j < k
    BY <1>1, <2>1, <2>2
  <2>3. CASE j >= k
    <3>1. j - (k - 1) \in 1 .. (Len(s) - k) /\ k + (j - (k - 1)) = j + 1
      BY <2>3
    <3> QED  BY <1>2, <2>1, <2>3, <3>1
  <2> QED  BY <2>2, <2>3
<1> QED  BY <1>3, <1>4, <1>5, <1>6 DEF whole

\* Erasing position k of a vector without repetitions removes that element
\* and no other, and repeats none.
LEMMA RemoveAtDistinct ==
  ASSUME NEW S, NEW s \in Seq(S), NEW k \in 1 .. Len(s),
         \A i, j \in 1 .. Len(s) : s[i] = s[j] => i = j
  PROVE  /\ ToSet(RemoveAt(s, k)) = ToSet(s) \ {s[k]}
         /\ \A i, j \in DOMAIN RemoveAt(s, k) :
              RemoveAt(s, k)[i] = RemoveAt(s, k)[j] => i = j
<1> DEFINE t == RemoveAt(s, k)
<1>1. /\ t \in Seq(S) /\ Len(t) = Len(s) - 1
      /\ \A j \in 1 .. (Len(s) - 1) : t[j] = IF j < k THEN s[j] ELSE s[j + 1]
  BY RemoveAtProperties
<1> HIDE DEF t
<1>2. DOMAIN t = 1 .. (Len(s) - 1) /\ DOMAIN s = 1 .. Len(s)
  BY <1>1
<1>3. ASSUME NEW e \in ToSet(s) \ {s[k]}
      PROVE  e \in ToSet(t)
  <2>1. PICK i \in 1 .. Len(s) : s[i] = e /\ i # k
    BY <1>2, <1>3 DEF ToSet
  <2>2. CASE i < k
    BY <2>1, <2>2, <1>1, <1>2 DEF ToSet
  <2>3. CASE i > k
    <3>1. i - 1 \in DOMAIN t /\ t[i - 1] = s[i]
      BY <2>1, <2>3, <1>1, <1>2
    <3> QED  BY <3>1, <2>1 DEF ToSet
  <2> QED  BY <2>1, <2>2, <2>3
<1>4. ASSUME NEW e \in ToSet(t)
      PROVE  e \in ToSet(s) \ {s[k]}
  <2>1. PICK j \in 1 .. (Len(s) - 1) : t[j] = e
    BY <1>2, <1>4 DEF ToSet
  <2>2. PICK i \in 1 .. Len(s) : t[j] = s[i] /\ i # k
    <3>1. CASE j < k
      BY <3>1, <1>1
    <3>2. CASE j >= k
      <4>1. t[j] = s[j + 1] /\ j + 1 \in 1 .. Len(s) /\ j + 1 # k
        BY <3>2, <1>1
      <4> QED  BY <4>1
    <3> QED  BY <3>1, <3>2
  <2>3. s[i] # s[k]
    BY <2>2
  <2> QED  BY <2>1, <2>2, <2>3, <1>2 DEF ToSet
<1>5. \A i, j \in DOMAIN t : t[i] = t[j] => i = j
  BY <1>1, <1>2
<1> QED  BY <1>3, <1>4, <1>5 DEF t
-----------------------------------------------------------------------------
LEMMA InitIInv == Init => IInv
<1> SUFFICES ASSUME Init PROVE IInv
  OBVIOUS
<1> USE DEF Init
<1>1. TypeOK
  <2>1. sockmng \in Seq(Conns)
    OBVIOUS
  <2>2. ghEvents \in [Slots -> Conns \cup {NoEvent}]
    OBVIOUS
  <2>3. sslInx \in 0 .. SslSlots /\ sent \in [Conns -> 0 .. MaxSends]
                                /\ unread \in [Conns -> 0 .. MaxSends]
    BY SlotsAssumption
  <2>4. sock \in [Conns -> SockStates] /\ record \in [Conns -> SUBSET NetEvents]
    BY DEF SockStates
  <2> QED  BY <2>1, <2>2, <2>3, <2>4 DEF TypeOK
<1>2. DispatchInRange /\ WaitedOnce /\ AgreeBelowShift /\ EmptyBeforeLoop
  BY DEF DispatchInRange, WaitedOnce, AgreeBelowShift, EmptyBeforeLoop
<1>3. TableIsOpenSockets
  BY DEF TableIsOpenSockets, ToSet
<1>4. HandlesWereAccepted /\ RecordSound /\ UnreadWereSent
  BY NoEventAssumption DEF HandlesWereAccepted, RecordSound, UnreadWereSent
<1> QED  BY <1>1, <1>2, <1>3, <1>4 DEF IInv

\* The steps of the GUI thread and the thread's own steps outside the dispatch
\* of one event.
LEMMA GuiStep == IInv /\ Gui => IInv'
<1> SUFFICES ASSUME IInv, Gui PROVE IInv'
  OBVIOUS
<1> USE DEF IInv, TypeOK, DispatchInRange, WaitedOnce, AgreeBelowShift, TableIsOpenSockets,
            EmptyBeforeLoop, HandlesWereAccepted, RecordSound, UnreadWereSent,
            serverVars, netVars
<1>1. CASE StartACServer
  BY <1>1 DEF StartACServer
<1>2. CASE StopACServer
  BY <1>2 DEF StopACServer
<1>3. CASE CleanUpACServer
  <2> USE <1>3 DEF CleanUpACServer
  <2>1. TypeOK'
    <3>1. sock' \in [Conns -> SockStates] /\ record' \in [Conns -> SUBSET NetEvents]
      BY DEF SockStates
    <3>2. <<>> \in Seq(Conns)
      OBVIOUS
    <3> QED  BY <3>1, <3>2
  <2>2. TableIsOpenSockets'
    BY DEF ToSet
  <2>3. HandlesWereAccepted' /\ RecordSound' /\ UnreadWereSent'
    OBVIOUS
  <2> QED  BY <2>1, <2>2, <2>3
<1> QED  BY <1>1, <1>2, <1>3 DEF Gui

LEMMA ThreadStep ==
  IInv /\ (CreateEvents \/ Listen \/ StartFails \/ EndLoop \/ AcceptOverrun) => IInv'
<1> SUFFICES ASSUME IInv, CreateEvents \/ Listen \/ StartFails \/ EndLoop \/ AcceptOverrun
             PROVE  IInv'
  OBVIOUS
<1> USE DEF IInv, TypeOK, DispatchInRange, WaitedOnce, AgreeBelowShift, TableIsOpenSockets,
            EmptyBeforeLoop, HandlesWereAccepted, RecordSound, UnreadWereSent,
            serverVars, netVars
<1>1. CASE CreateEvents
  BY <1>1 DEF CreateEvents
<1>2. CASE Listen
  BY <1>2, SlotsAssumption, NoEventAssumption DEF Listen, Slots
<1>3. CASE StartFails
  BY <1>3 DEF StartFails
<1>4. CASE EndLoop
  BY <1>4 DEF EndLoop
<1>5. CASE AcceptOverrun
  BY <1>5 DEF AcceptOverrun, AtListener
<1> QED  BY <1>1, <1>2, <1>3, <1>4, <1>5

LEMMA ClientStep == IInv /\ Client => IInv'
<1> SUFFICES ASSUME IInv, NEW c \in Conns,
                    ClientConnects(c) \/ ClientSends(c) \/ ClientCloses(c)
             PROVE  IInv'
  BY DEF Client
<1> USE DEF IInv, TypeOK, DispatchInRange, WaitedOnce, AgreeBelowShift, TableIsOpenSockets,
            EmptyBeforeLoop, HandlesWereAccepted, RecordSound, UnreadWereSent,
            serverVars, netVars
<1>1. CASE ClientConnects(c)
  BY <1>1 DEF ClientConnects, SockStates
<1>2. CASE ClientSends(c)
  <2> USE <1>2 DEF ClientSends, Recorded
  <2>1. TypeOK'
    BY SlotsAssumption DEF NetEvents
  <2>2. RecordSound' /\ UnreadWereSent'
    OBVIOUS
  <2> QED  BY <2>1, <2>2
<1>3. CASE ClientCloses(c)
  BY <1>3 DEF ClientCloses, Recorded, NetEvents
<1> QED  BY <1>1, <1>2, <1>3

\* A connection leaves the backlog: accepted, or lost with the thread.
LEMMA AcceptStep ==
  ASSUME IInv, NEW c \in Conns, AcceptConn(c) \/ AcceptFails(c)
  PROVE  IInv'
<1> USE DEF IInv, serverVars, netVars
<1>1. CASE AcceptConn(c)
  <2> USE <1>1 DEF AcceptConn, AtListener, Pending
  <2>1. /\ sock[c] = "queued" /\ thread = "running"
        /\ NumEvents = Len(sockmng) + 2 /\ NumEvents \in Slots
        /\ Len(sockmng) \in Nat
    BY SlotsAssumption DEF TypeOK, DispatchInRange, Slots
  <2>2. /\ sockmng' \in Seq(Conns) /\ Len(sockmng') = Len(sockmng) + 1
        /\ \A k \in 1 .. Len(sockmng) : sockmng'[k] = sockmng[k]
        /\ sockmng'[Len(sockmng) + 1] = c
        /\ DOMAIN sockmng = 1 .. Len(sockmng)
        /\ DOMAIN sockmng' = 1 .. (Len(sockmng) + 1)
    BY AppendProperties DEF TypeOK
  <2>3. TypeOK'
    <3>1. sock' \in [Conns -> SockStates]
      BY DEF TypeOK, SockStates
    <3>3. record' \in [Conns -> SUBSET NetEvents]
      <4> DEFINE now == {"FD_WRITE"} \cup (IF unread[c] > 0 THEN {"FD_READ"} ELSE {})
                                    \cup (IF alive[c] THEN {} ELSE {"FD_CLOSE"})
      <4>1. now \in SUBSET NetEvents
        BY DEF NetEvents
      <4>2. record' = [record EXCEPT ![c] = now]
        OBVIOUS
      <4> HIDE DEF now
      <4> QED  BY <4>1, <4>2 DEF TypeOK
    <3>2. ghEvents' \in [Slots -> Conns \cup {NoEvent}]
      BY DEF TypeOK
    <3>4. sslInx' \in 0 .. SslSlots /\ NumEvents' \in Nat
      BY <2>1, SlotsAssumption DEF TypeOK
    <3> QED  BY <2>2, <3>1, <3>2, <3>3, <3>4 DEF TypeOK
  <2>4. /\ ghEvents'[NumEvents] = c
        /\ \A i \in 2 .. (NumEvents - 1) : i \in Slots /\ ghEvents'[i] = ghEvents[i]
    <3>1. \A i \in 2 .. (NumEvents - 1) : i \in Slots /\ i # NumEvents
      BY <2>1, SlotsAssumption DEF Slots
    <3> QED  BY <2>1, <3>1 DEF TypeOK
  <2>5. DispatchInRange'
    <3>1. NumEvents' = Len(sockmng') + 2 /\ NumEvents' <= EventSlots
      BY <2>1, <2>2, SlotsAssumption
    <3>2. \A i \in 2 .. NumEvents : ghEvents'[i] # NoEvent
      BY <2>1, <2>4, NoEventAssumption DEF DispatchInRange
    <3>3. NumEvents' - 1 = NumEvents
      BY <2>1
    <3> QED  BY <3>1, <3>2, <3>3 DEF DispatchInRange
  <2>6. \A i \in 2 .. (NumEvents - 1) : ghEvents[i] # c
    BY <2>1, <2>4 DEF HandlesWereAccepted
  <2>7. WaitedOnce'
    BY <2>1, <2>4, <2>6 DEF WaitedOnce
  <2>8. AgreeBelowShift'
    <3> SUFFICES ASSUME NEW k \in 1 .. (Len(sockmng) + 1), k < shift
                 PROVE  ghEvents'[k + 1] = sockmng'[k]
      BY <2>2 DEF AgreeBelowShift
    <3>1. CASE k = Len(sockmng) + 1
      BY <2>1, <2>2, <2>4, <3>1
    <3>2. CASE k \in 1 .. Len(sockmng)
      BY <2>1, <2>2, <2>4, <3>2 DEF AgreeBelowShift
    <3> QED  BY <2>1, <3>1, <3>2
  <2>9. TableIsOpenSockets'
    <3>1. ToSet(sockmng') = ToSet(sockmng) \cup {c}
      BY <2>1, <2>2 DEF ToSet
    <3>2. c \notin ToSet(sockmng)
      BY <2>1 DEF TableIsOpenSockets
    <3>3. \A k \in 1 .. Len(sockmng) : sockmng[k] # c
      BY <2>2, <3>2 DEF ToSet
    <3>4. \A k, l \in DOMAIN sockmng' : sockmng'[k] = sockmng'[l] => k = l
      BY <2>1, <2>2, <3>3 DEF TableIsOpenSockets
    <3>5. \A d \in Conns : sock'[d] = "accepted" <=> d \in ToSet(sockmng')
      BY <2>1, <3>1 DEF TableIsOpenSockets, TypeOK
    <3> QED  BY <3>4, <3>5 DEF TableIsOpenSockets
  <2>10. EmptyBeforeLoop' /\ UnreadWereSent'
    BY <2>1 DEF EmptyBeforeLoop, UnreadWereSent
  <2>11. HandlesWereAccepted'
    BY <2>1 DEF HandlesWereAccepted, TypeOK
  <2>12. RecordSound'
    BY DEF RecordSound, TypeOK
  <2> QED  BY <2>3, <2>5, <2>7, <2>8, <2>9, <2>10, <2>11, <2>12
<1>2. CASE AcceptFails(c)
  <2> USE <1>2 DEF AcceptFails, AtListener, Pending
  <2>1. sock[c] = "queued" /\ thread = "running"
    OBVIOUS
  <2>2. TypeOK'
    BY DEF TypeOK, SockStates
  <2>3. DispatchInRange' /\ WaitedOnce' /\ AgreeBelowShift' /\ EmptyBeforeLoop' /\ UnreadWereSent'
    BY DEF DispatchInRange, WaitedOnce, AgreeBelowShift, EmptyBeforeLoop, UnreadWereSent
  <2>4. TableIsOpenSockets'
    BY <2>1 DEF TableIsOpenSockets, TypeOK
  <2>5. HandlesWereAccepted' /\ RecordSound'
    BY <2>1 DEF HandlesWereAccepted, RecordSound, TypeOK
  <2> QED  BY <2>2, <2>3, <2>4, <2>5
<1> QED  BY <1>1, <1>2

\* What the dispatch of slot i relies on: it names an entry of the vector, an
\* open connection whose recorded events are due.
LEMMA Dispatched ==
  ASSUME IInv, NEW i \in Slots, Reported(i)
  PROVE  /\ thread = "running"
         /\ i - 1 \in 1 .. Len(sockmng)
         /\ sockmng[i - 1] \in Conns
         /\ sock[sockmng[i - 1]] = "accepted"
<1>1. /\ thread = "running" /\ i \in 2 .. (NumEvents - 1)
      /\ NumEvents = Len(sockmng) + 2 /\ Len(sockmng) \in Nat
  BY DEF IInv, TypeOK, DispatchInRange, Reported
<1>2. i - 1 \in 1 .. Len(sockmng)
  BY <1>1
<1>3. sockmng[i - 1] \in Conns /\ sockmng[i - 1] \in ToSet(sockmng)
  BY <1>2, ElementOfSeq DEF IInv, TypeOK, ToSet
<1> QED  BY <1>1, <1>2, <1>3 DEF IInv, TableIsOpenSockets

\* Erasing an entry: the four list properties survive it.
LEMMA CloseStep ==
  ASSUME IInv, NEW i \in Slots, Reported(i),
         CloseConnectionACS(i - 1),
         sock' = [sock EXCEPT ![sockmng[i - 1]] = "gone"],
         thread' = thread, ghEvents' = ghEvents
  PROVE  /\ sockmng' \in Seq(Conns) /\ NumEvents' \in Nat /\ shift' \in Nat
         /\ DispatchInRange' /\ WaitedOnce' /\ AgreeBelowShift' /\ TableIsOpenSockets'
<1> DEFINE k == i - 1
           n == Len(sockmng)
<1>1. /\ thread = "running" /\ k \in 1 .. n /\ sockmng[k] \in Conns
      /\ n \in Nat /\ NumEvents = n + 2 /\ NumEvents <= EventSlots
      /\ \A j \in 2 .. (n + 1) : ghEvents[j] # NoEvent
      /\ sockmng \in Seq(Conns) /\ DOMAIN sockmng = 1 .. n /\ shift \in Nat
  BY Dispatched DEF IInv, TypeOK, DispatchInRange
<1>2. /\ sockmng' = RemoveAt(sockmng, k)
      /\ NumEvents' = n + 1
      /\ shift' = IF k < n /\ k < shift THEN k ELSE shift
  BY <1>1 DEF CloseConnectionACS
<1>3. /\ sockmng' \in Seq(Conns) /\ Len(sockmng') = n - 1
      /\ DOMAIN sockmng' = 1 .. (n - 1)
      /\ \A j \in 1 .. (n - 1) : sockmng'[j] = IF j < k THEN sockmng[j] ELSE sockmng[j + 1]
  <2> DEFINE t == RemoveAt(sockmng, k)
  <2>1. /\ t \in Seq(Conns) /\ Len(t) = n - 1
        /\ \A j \in 1 .. (n - 1) : t[j] = IF j < k THEN sockmng[j] ELSE sockmng[j + 1]
    BY <1>1, RemoveAtProperties, Zenon
  <2> HIDE DEF t
  <2>2. DOMAIN t = 1 .. (n - 1)
    BY <2>1
  <2>3. sockmng' = t
    BY <1>2 DEF t
  <2> QED  BY <2>1, <2>2, <2>3
<1>4. \A j, l \in 1 .. n : sockmng[j] = sockmng[l] => j = l
  BY <1>1 DEF IInv, TableIsOpenSockets
<1>5. /\ ToSet(sockmng') = ToSet(sockmng) \ {sockmng[k]}
      /\ \A j, l \in DOMAIN sockmng' : sockmng'[j] = sockmng'[l] => j = l
  BY <1>1, <1>2, <1>4, RemoveAtDistinct
<1> HIDE DEF k, n
<1>6. DispatchInRange'
  BY <1>1, <1>2, <1>3, SlotsAssumption DEF DispatchInRange
<1>7. WaitedOnce'
  BY <1>1, <1>2 DEF IInv, WaitedOnce
<1>8. AgreeBelowShift'
  <2> SUFFICES ASSUME NEW j \in 1 .. (n - 1), j < shift'
               PROVE  ghEvents[j + 1] = sockmng'[j]
    BY <1>3 DEF AgreeBelowShift
  <2>1. j < k /\ j < shift
    BY <1>1, <1>2
  <2>2. ghEvents[j + 1] = sockmng[j]
    BY <1>1, <2>1 DEF IInv, AgreeBelowShift
  <2> QED  BY <1>3, <2>1, <2>2
<1>9. TableIsOpenSockets'
  <2>1. \A d \in Conns : sock'[d] = "accepted" <=> d \in ToSet(sockmng')
    BY <1>1, <1>5 DEF IInv, TypeOK, TableIsOpenSockets, k
  <2> QED  BY <1>5, <2>1 DEF TableIsOpenSockets
<1> QED  BY <1>1, <1>2, <1>3, <1>6, <1>7, <1>8, <1>9

LEMMA ServeStep ==
  ASSUME IInv, NEW i \in Slots, ServeConn(i)
  PROVE  IInv'
<1> DEFINE c      == sockmng[i - 1]
           left   == IF "FD_READ" \in record[c] THEN unread[c] - 1 ELSE unread[c]
           closes == "FD_CLOSE" \in record[c]
           after  == IF left > 0 /\ ~ closes THEN {"FD_READ"} ELSE {}
<1>1. /\ Reported(i)
      /\ unread' = [unread EXCEPT ![c] = left]
      /\ record' = [record EXCEPT ![c] = after]
      /\ \/ /\ CloseConnectionACS(i - 1) /\ sock' = [sock EXCEPT ![c] = "gone"]
            /\ closes
         \/ UNCHANGED <<sockmng, NumEvents, shift, sock>>
      /\ UNCHANGED <<gui, thread, endEvent, missed, ghEvents, sslInx, listening, alive, sent>>
  BY DEF ServeConn
<1>2. thread = "running" /\ c \in Conns /\ sock[c] = "accepted"
  BY <1>1, Dispatched
<1>3. left \in 0 .. MaxSends /\ left <= sent[c]
  BY <1>2, SlotsAssumption DEF IInv, TypeOK, RecordSound, UnreadWereSent
<1>4. /\ after \subseteq NetEvents
      /\ "FD_READ" \in after => left > 0
      /\ "FD_CLOSE" \notin after
  BY DEF NetEvents
<1> HIDE DEF c, left, after, closes
<1>5. /\ unread' \in [Conns -> 0 .. MaxSends] /\ record' \in [Conns -> SUBSET NetEvents]
      /\ sock' \in [Conns -> SockStates]
  BY <1>1, <1>2, <1>3, <1>4 DEF IInv, TypeOK, SockStates
<1>6. UnreadWereSent'
  BY <1>1, <1>2, <1>3 DEF IInv, TypeOK, UnreadWereSent
<1>7. RecordSound'
  <2> SUFFICES ASSUME NEW d \in Conns
               PROVE  /\ sock'[d] \in {"none", "queued"} => record'[d] = {}
                      /\ "FD_READ" \in record'[d] => unread'[d] > 0
                      /\ "FD_CLOSE" \in record'[d] => ~ alive'[d]
    BY DEF RecordSound
  <2>1. CASE d = c
    BY <1>1, <1>2, <1>3, <1>4, <2>1 DEF IInv, TypeOK
  <2>2. CASE d # c
    BY <1>1, <2>2 DEF IInv, TypeOK, RecordSound
  <2> QED  BY <2>1, <2>2
<1>8. HandlesWereAccepted'
  BY <1>1, <1>2 DEF IInv, TypeOK, HandlesWereAccepted
<1>9. EmptyBeforeLoop'
  BY <1>1, <1>2 DEF EmptyBeforeLoop
<1>10. /\ sockmng' \in Seq(Conns) /\ NumEvents' \in Nat /\ shift' \in Nat
       /\ DispatchInRange' /\ WaitedOnce' /\ AgreeBelowShift' /\ TableIsOpenSockets'
  <2>1. CASE CloseConnectionACS(i - 1) /\ sock' = [sock EXCEPT ![c] = "gone"]
    BY <1>1, <2>1, CloseStep DEF c
  <2>2. CASE UNCHANGED <<sockmng, NumEvents, shift, sock>>
    BY <1>1, <2>2
       DEF IInv, TypeOK, DispatchInRange, WaitedOnce, AgreeBelowShift, TableIsOpenSockets
  <2> QED  BY <1>1, <2>1, <2>2
<1>11. TypeOK'
  BY <1>1, <1>5, <1>10 DEF IInv, TypeOK
<1> QED  BY <1>6, <1>7, <1>8, <1>9, <1>10, <1>11 DEF IInv
-----------------------------------------------------------------------------
LEMMA NextIInv == IInv /\ [Next]_vars => IInv'
<1> SUFFICES ASSUME IInv, [Next]_vars PROVE IInv'
  OBVIOUS
<1>1. CASE Gui
  BY <1>1, GuiStep
<1>2. CASE Server
  BY <1>2, ThreadStep, AcceptStep, ServeStep DEF Server
<1>3. CASE Client
  BY <1>3, ClientStep
<1>4. CASE UNCHANGED vars
  BY <1>4
     DEF vars, serverVars, netVars, IInv, TypeOK, DispatchInRange, WaitedOnce,
         AgreeBelowShift, TableIsOpenSockets, EmptyBeforeLoop, HandlesWereAccepted,
         RecordSound, UnreadWereSent
<1> QED  BY <1>1, <1>2, <1>3, <1>4 DEF Next

\* The invariant holds in every reachable state, for any set of connections and
\* any sizes of the arrays.
THEOREM Invariance == Spec => []IInv
<1> QED  BY InitIInv, NextIInv, PTL DEF Spec

\* Every variable keeps its type: no unread count or SSL index leaves its range.
THEOREM TypeCorrect == Spec => []TypeOK
<1>1. IInv => TypeOK
  BY DEF IInv
<1> QED  BY Invariance, <1>1, PTL

\* A reported slot always leads to an entry of sockmng, after any history of
\* accepts and closes, and WaitForMultipleObjects is never given more than the
\* array holds.
THEOREM DispatchStaysInRange == Spec => []DispatchInRange
<1>1. IInv => DispatchInRange
  BY DEF IInv
<1> QED  BY Invariance, <1>1, PTL

\* The handles passed to WaitForMultipleObjects are always distinct, although
\* CloseConnectionACS leaves the array as it was.
THEOREM HandlesWaitedOnce == Spec => []WaitedOnce
<1>1. IInv => WaitedOnce
  BY DEF IInv
<1> QED  BY Invariance, <1>1, PTL

\* The event array and the connection vector agree below the first position an
\* entry was erased from under a later one.
THEOREM ListsAgreeBelowShift == Spec => []AgreeBelowShift
<1>1. IInv => AgreeBelowShift
  BY DEF IInv
<1> QED  BY Invariance, <1>1, PTL

\* sockmng is the set of sockets the server holds open, across restarts.
THEOREM TableMatchesSockets == Spec => []TableIsOpenSockets
<1>1. IInv => TableIsOpenSockets
  BY DEF IInv
<1> QED  BY Invariance, <1>1, PTL

\* While the server runs, it closes a connection only after its client did,
\* however far the slots have drifted from the entries they are taken for.
THEOREM ClosesOnlyClosedClients == Spec => ClosedOnlyByItsClient
<1>1. ASSUME IInv, [Next]_vars
      PROVE  [\A c \in Conns :
                sock[c] = "accepted" /\ sock'[c] = "gone" /\ thread # "ended" => ~ alive[c]]_vars
  <2> SUFFICES ASSUME Next, NEW d \in Conns,
                      sock[d] = "accepted", sock'[d] = "gone", thread # "ended"
               PROVE  ~ alive[d]
    BY <1>1
  <2>1. CASE Gui
    BY <2>1 DEF Gui, StartACServer, StopACServer, CleanUpACServer, netVars
  <2>2. CASE Client
    BY <1>1, <2>2
       DEF Client, ClientConnects, ClientSends, ClientCloses, IInv, TypeOK
  <2>3. CASE Server
    <3>1. CASE CreateEvents \/ Listen \/ StartFails \/ EndLoop \/ AcceptOverrun
      BY <3>1 DEF CreateEvents, Listen, StartFails, EndLoop, AcceptOverrun, netVars
    <3>2. ASSUME NEW c \in Conns, AcceptConn(c) \/ AcceptFails(c)
          PROVE  FALSE
      BY <1>1, <3>2 DEF AcceptConn, AcceptFails, Pending, IInv, TypeOK
    <3>3. ASSUME NEW i \in Slots, ServeConn(i)
          PROVE  ~ alive[d]
      <4>1. Reported(i) /\ sockmng[i - 1] \in Conns
        BY <1>1, <3>3, Dispatched DEF ServeConn
      <4>2. d = sockmng[i - 1] /\ "FD_CLOSE" \in record[d]
        BY <1>1, <3>3, <4>1 DEF ServeConn, IInv, TypeOK
      <4> QED  BY <1>1, <4>2 DEF IInv, RecordSound
    <3> QED  BY <2>3, <3>1, <3>2, <3>3 DEF Server
  <2> QED  BY <2>1, <2>2, <2>3 DEF Next
<1> QED  BY Invariance, <1>1, PTL DEF Spec, ClosedOnlyByItsClient
-----------------------------------------------------------------------------
(* No wake-up is lost.  Enumerating a socket's events clears them, so what  *)
(* one pass leaves unread has to be recorded again, and a pass that was     *)
(* started by another connection's handle must not clear more than it does. *)

\* What a client is owed by the server is recorded for its socket.
NothingForgotten ==
  \A c \in Conns :
    sock[c] = "accepted" => /\ unread[c] > 0 => "FD_READ" \in record[c]
                            /\ ~ alive[c] => "FD_CLOSE" \in record[c]

LEMMA ForgottenClient == IInv /\ NothingForgotten /\ Client => NothingForgotten'
<1> SUFFICES ASSUME IInv, NothingForgotten, NEW c \in Conns,
                    ClientConnects(c) \/ ClientSends(c) \/ ClientCloses(c)
             PROVE  NothingForgotten'
  BY DEF Client
<1> USE DEF NothingForgotten, IInv, TypeOK, NetEvents
<1>1. CASE ClientConnects(c) BY <1>1 DEF ClientConnects
<1>2. CASE ClientSends(c) BY <1>2 DEF ClientSends, Recorded
<1>3. CASE ClientCloses(c) BY <1>3 DEF ClientCloses, Recorded
<1> QED BY <1>1, <1>2, <1>3

LEMMA ForgottenAccept ==
  ASSUME IInv, NothingForgotten, NEW c \in Conns, AcceptConn(c) \/ AcceptFails(c)
  PROVE  NothingForgotten'
<1> USE DEF NothingForgotten, IInv, TypeOK, NetEvents
<1>1. CASE AcceptConn(c)
  <2> SUFFICES ASSUME NEW d \in Conns, sock'[d] = "accepted"
               PROVE  /\ unread[d] > 0 => "FD_READ" \in record'[d]
                      /\ ~ alive[d] => "FD_CLOSE" \in record'[d]
    BY <1>1 DEF AcceptConn
  <2>1. CASE d = c BY <1>1, <2>1 DEF AcceptConn
  <2>2. CASE d # c
    <3>1. sock[d] = "accepted" /\ record'[d] = record[d] BY <1>1, <2>2 DEF AcceptConn
    <3> QED BY <3>1
  <2> QED BY <2>1, <2>2
<1>2. CASE AcceptFails(c) BY <1>2 DEF AcceptFails
<1> QED BY <1>1, <1>2

LEMMA ForgottenServe ==
  ASSUME IInv, NothingForgotten, NEW i \in Slots, ServeConn(i)
  PROVE  NothingForgotten'
<1> DEFINE c      == sockmng[i - 1]
           left   == IF "FD_READ" \in record[c] THEN unread[c] - 1 ELSE unread[c]
           closes == "FD_CLOSE" \in record[c]
           after  == IF left > 0 /\ ~ closes THEN {"FD_READ"} ELSE {}
<1>1. /\ Reported(i) /\ alive' = alive
      /\ unread' = [unread EXCEPT ![c] = left]
      /\ record' = [record EXCEPT ![c] = after]
      /\ IF closes THEN sock' = [sock EXCEPT ![c] = "gone"] ELSE sock' = sock
  BY DEF ServeConn
<1>2. c \in Conns /\ sock[c] = "accepted" BY <1>1, Dispatched
<1>3. ~ closes => alive[c] BY <1>2 DEF NothingForgotten
<1>4. left > 0 /\ ~ closes => "FD_READ" \in after OBVIOUS
<1> HIDE DEF c, left, closes, after
<1> SUFFICES ASSUME NEW d \in Conns, sock'[d] = "accepted"
             PROVE  /\ unread'[d] > 0 => "FD_READ" \in record'[d]
                    /\ ~ alive'[d] => "FD_CLOSE" \in record'[d]
  BY DEF NothingForgotten
<1>5. CASE d = c
  <2>1. ~ closes BY <1>1, <1>2, <1>5 DEF IInv, TypeOK
  <2>2. unread'[d] = left /\ record'[d] = after BY <1>1, <1>2, <1>5 DEF IInv, TypeOK
  <2> QED BY <1>1, <1>3, <1>4, <1>5, <2>1, <2>2
<1>6. CASE d # c
  <2>1. unread'[d] = unread[d] /\ record'[d] = record[d] /\ sock[d] = "accepted"
    BY <1>1, <1>2, <1>6 DEF IInv, TypeOK
  <2> QED BY <1>1, <2>1 DEF NothingForgotten
<1> QED BY <1>5, <1>6

LEMMA ForgottenStep == IInv /\ NothingForgotten /\ [Next]_vars => NothingForgotten'
<1> SUFFICES ASSUME IInv, NothingForgotten, [Next]_vars PROVE NothingForgotten' OBVIOUS
<1>1. CASE UNCHANGED netVars BY <1>1 DEF NothingForgotten, netVars
<1>2. CASE CleanUpACServer
  BY <1>2 DEF CleanUpACServer, NothingForgotten, IInv, TypeOK
<1>3. StartACServer \/ StopACServer \/ CreateEvents \/ StartFails \/ EndLoop \/ AcceptOverrun
      \/ UNCHANGED vars => UNCHANGED netVars
  BY DEF StartACServer, StopACServer, CreateEvents, StartFails, EndLoop, AcceptOverrun, vars
<1>4. CASE Listen BY <1>4 DEF Listen, NothingForgotten
<1> QED
  BY <1>1, <1>2, <1>3, <1>4, ForgottenClient, ForgottenAccept, ForgottenServe
     DEF Next, Gui, Server

\* A loop with something to do: its wait returns, and for a slot no later than i.
Wakes(i) ==
  \/ endEvent = "set" \/ Pending # {}
  \/ \E j \in 2 .. i : Reported(j)

LEMMA LeastExists ==
  ASSUME NEW I \in SUBSET Nat, I # {}
  PROVE  \E m \in I : \A k \in I : m <= k
<1> DEFINE R == OpToRel(<, Nat)
<1>1. PICK m \in I : \A k \in I : <<k, m>> \notin R
  BY WFMin, NatLessThanWellFounded, Zenon
<1>2. ASSUME NEW k \in I PROVE ~ (k < m) BY <1>2, <1>1 DEF OpToRel
<1> QED BY <1>2

\* The lowest signalled slot is the one that is reported.
LEMMA LowestIsReported ==
  ASSUME IInv, thread = "running", NEW i \in 2 .. (NumEvents - 1), Signalled(ghEvents[i])
  PROVE  Wakes(i)
<1> DEFINE S == {j \in 2 .. i : Signalled(ghEvents[j])}
<1>1. NumEvents \in Nat /\ i \in Nat BY DEF IInv, TypeOK
<1>2. i \in S /\ S \subseteq Nat BY <1>1
<1> HIDE DEF S
<1>3. PICK m \in S : \A j \in S : m <= j BY <1>2, LeastExists
<1> USE DEF S
<1>4. /\ m \in 2 .. i /\ m \in 2 .. (NumEvents - 1) /\ Signalled(ghEvents[m])
      /\ \A j \in 2 .. (m - 1) : ~ Signalled(ghEvents[j])
  BY <1>1, <1>2, <1>3
<1> QED BY <1>4 DEF Wakes, Reported

\* While a client whose entry has not been shifted has a message unread or has
\* closed its end, the loop's wait returns, for its slot or for one before it
\* (AccessControlServer.cpp 301-312, 451-500): the safety half of ServedBelowShift.
WaitsAreWoken ==
  thread = "running" =>
    \A k \in DOMAIN sockmng :
      k < shift /\ (unread[sockmng[k]] > 0 \/ ~ alive[sockmng[k]]) => Wakes(k + 1)

THEOREM WaitingClientsWake == Spec => []WaitsAreWoken
<1>1. Init => NothingForgotten BY DEF Init, NothingForgotten
<1>2. IInv /\ NothingForgotten => WaitsAreWoken
  <2> SUFFICES ASSUME IInv, NothingForgotten, thread = "running", NEW k \in DOMAIN sockmng,
                      k < shift, unread[sockmng[k]] > 0 \/ ~ alive[sockmng[k]]
               PROVE  Wakes(k + 1)
    BY DEF WaitsAreWoken
  <2>1. /\ k \in 1 .. Len(sockmng) /\ Len(sockmng) \in Nat /\ NumEvents = Len(sockmng) + 2
        /\ ghEvents[k + 1] = sockmng[k] /\ sockmng[k] \in Conns /\ sockmng[k] \in ToSet(sockmng)
    BY ElementOfSeq DEF IInv, TypeOK, DispatchInRange, AgreeBelowShift, ToSet
  <2>2. record[sockmng[k]] # {}
    BY <2>1 DEF IInv, TableIsOpenSockets, NothingForgotten
  <2>3. Signalled(ghEvents[k + 1]) /\ k + 1 \in 2 .. (NumEvents - 1)
    BY <2>1, <2>2, NoEventAssumption DEF Signalled
  <2> QED BY <2>3, LowestIsReported
<1>3. Spec => Init /\ [][Next]_vars BY PTL DEF Spec
<1> QED BY <1>1, <1>2, <1>3, Invariance, ForgottenStep, PTL
-----------------------------------------------------------------------------
(* A stop ends.  What a fair step needs is that it is enabled, and ENABLED *)
(* is beyond the provers: it is the hypothesis StopCanProceed, which TLC   *)
(* checks.  The rest is that the thread's own steps lead to the end of the *)
(* wait, and that no client's step leads away from it.                     *)

\* The end event exists from CreateEvents to CleanUpACServer, and who waits has
\* a thread to wait for.
EndEventOfThread ==
  /\ thread \in {"none", "started"} => endEvent = "invalid"
  /\ gui = "joining" => thread # "none"
  /\ endEvent = "set" => ~ missed

\* The loop's branches other than its end need the end event not to be set.
LEMMA ServingStep ==
  \/ \E c \in Conns : AcceptConn(c) \/ AcceptFails(c)
  \/ AcceptOverrun
  \/ \E i \in Slots : ServeConn(i)
  => /\ thread = "running" /\ endEvent # "set"
     /\ thread' \in {"running", "ended", "corrupt"} /\ UNCHANGED <<gui, endEvent, missed>>
<1>1. ASSUME NEW c \in Conns, AcceptConn(c) \/ AcceptFails(c)
      PROVE  /\ thread = "running" /\ endEvent # "set"
             /\ thread' \in {"running", "ended"} /\ UNCHANGED <<gui, endEvent, missed>>
  BY <1>1 DEF AcceptConn, AcceptFails, AtListener
<1>2. AcceptOverrun => /\ thread = "running" /\ endEvent # "set"
                       /\ thread' = "corrupt" /\ UNCHANGED <<gui, endEvent, missed>>
  BY DEF AcceptOverrun, AtListener
<1>3. ASSUME NEW i \in Slots, ServeConn(i)
      PROVE  /\ thread = "running" /\ endEvent # "set"
             /\ UNCHANGED <<gui, thread, endEvent, missed>>
  BY <1>3 DEF ServeConn, Reported
<1> QED BY <1>1, <1>2, <1>3

LEMMA ClientsKeep == Client => UNCHANGED <<gui, thread, endEvent, missed>>
BY DEF Client, ClientConnects, ClientSends, ClientCloses

LEMMA EndEventStep == EndEventOfThread /\ [Next]_vars => EndEventOfThread'
<1> SUFFICES ASSUME EndEventOfThread, [Next]_vars PROVE EndEventOfThread' OBVIOUS
<1> USE DEF EndEventOfThread
<1>1. CASE StartACServer BY <1>1 DEF StartACServer
<1>2. CASE StopACServer BY <1>2 DEF StopACServer
<1>3. CASE CleanUpACServer BY <1>3 DEF CleanUpACServer
<1>4. CASE CreateEvents \/ Listen \/ StartFails \/ EndLoop
  BY <1>4 DEF CreateEvents, Listen, StartFails, EndLoop
<1>5. CASE UNCHANGED <<gui, thread, endEvent, missed>> BY <1>5
<1>6. UNCHANGED vars => UNCHANGED <<gui, thread, endEvent, missed>> BY DEF vars
<1> QED
  BY <1>1, <1>2, <1>3, <1>4, <1>5, <1>6, ServingStep, ClientsKeep DEF Next, Gui, Server

\* The stages of a thread that is to end.
Waiting   == gui = "joining" /\ ~ missed
ToListen  == Waiting /\ endEvent = "set" /\ thread = "created"
ToEndLoop == Waiting /\ endEvent = "set" /\ thread = "running"
ToCleanUp == Waiting /\ thread = "ended"
Returned  == gui = "free" \/ thread = "corrupt"

\* Server is what it does before the loop, and what ends the loop, if the end
\* event is set.
LEMMA ToldToEnd ==
  ASSUME endEvent = "set", Server
  PROVE  \/ thread \in {"started", "created"} /\ (CreateEvents \/ Listen \/ StartFails)
         \/ thread = "running" /\ EndLoop
BY ServingStep DEF Server, CreateEvents, Listen, StartFails, EndLoop

\* Whatever is not a step of the server's thread keeps the stage, apart from the
\* end of the wait.
LEMMA OthersKeep ==
  ASSUME Waiting, [Next]_vars, ~Server, ~CleanUpACServer
  PROVE  UNCHANGED <<gui, thread, endEvent, missed>>
<1>1. ~StartACServer /\ ~StopACServer BY DEF Waiting, StartACServer, StopACServer
<1> QED BY <1>1, ClientsKeep DEF Next, Gui, vars

LEMMA StartEnds ==
  ASSUME ToListen, [Next]_vars
  PROVE  /\ ToListen' \/ ToEndLoop' \/ ToCleanUp'
         /\ Server => ToEndLoop' \/ ToCleanUp'
<1> USE DEF ToListen, ToEndLoop, ToCleanUp, Waiting
<1>1. ~CleanUpACServer BY DEF CleanUpACServer
<1>2. CASE Server
  <2>1. CreateEvents \/ Listen \/ StartFails BY <1>2, ToldToEnd
  <2>2. ~CreateEvents BY DEF CreateEvents
  <2>3. CASE Listen BY <2>3 DEF Listen
  <2>4. CASE StartFails BY <2>4 DEF StartFails
  <2> QED BY <2>1, <2>2, <2>3, <2>4
<1>3. CASE ~Server BY <1>1, <1>3, OthersKeep
<1> QED BY <1>2, <1>3

LEMMA LoopEnds ==
  ASSUME ToEndLoop, [Next]_vars
  PROVE  /\ ToEndLoop' \/ ToCleanUp'
         /\ Server => ToCleanUp'
<1> USE DEF ToEndLoop, ToCleanUp, Waiting
<1>1. ~CleanUpACServer BY DEF CleanUpACServer
<1>2. CASE Server BY <1>2, ToldToEnd DEF EndLoop
<1>3. CASE ~Server BY <1>1, <1>3, OthersKeep
<1> QED BY <1>2, <1>3

LEMMA WaitEnds ==
  ASSUME ToCleanUp, [Next]_vars
  PROVE  /\ ToCleanUp' \/ Returned'
         /\ CleanUpACServer => Returned'
<1> USE DEF ToCleanUp, Returned, Waiting
<1>1. ~Server
  BY ServingStep DEF Server, CreateEvents, Listen, StartFails, EndLoop
<1>2. CleanUpACServer => gui' = "free" BY DEF CleanUpACServer
<1>3. CASE ~CleanUpACServer BY <1>1, <1>3, OthersKeep
<1> QED BY <1>2, <1>3

\* StopACServer returns once its end event has been signalled
\* (AccessControlServer.cpp 92-106), for any number of clients and whatever
\* they do, provided that the scheduler does not forget the thread and that
\* TLC's StopCanProceed holds of any number of them too.
THEOREM StopsReturn == FairSpec /\ []StopCanProceed => StopReturns
<1> DEFINE Inv == TypeOK /\ EndEventOfThread
<1>1. ToListen /\ [Next]_vars => ToListen' \/ ToEndLoop' \/ ToCleanUp' BY StartEnds
<1>2. ToListen /\ <<Server>>_vars => ToEndLoop' \/ ToCleanUp' BY StartEnds DEF Next
<1>3. ToEndLoop /\ [Next]_vars => ToEndLoop' \/ ToCleanUp' BY LoopEnds
<1>4. ToEndLoop /\ <<Server>>_vars => ToCleanUp' BY LoopEnds DEF Next
<1>5. ToCleanUp /\ [Next]_vars => ToCleanUp' \/ Returned' BY WaitEnds
<1>6. ToCleanUp /\ <<CleanUpACServer>>_vars => Returned' BY WaitEnds DEF Next, Gui
<1>7. Inv /\ gui = "joining" /\ endEvent = "set"
        => ToListen \/ ToEndLoop \/ ToCleanUp \/ Returned
  BY DEF TypeOK, EndEventOfThread, ToListen, ToEndLoop, ToCleanUp, Returned, Waiting
<1>8. StopCanProceed /\ (ToListen \/ ToEndLoop) => ENABLED <<Server>>_vars
  BY DEF StopCanProceed, ToListen, ToEndLoop, Waiting
<1>9. StopCanProceed /\ ToCleanUp => ENABLED <<CleanUpACServer>>_vars
  BY DEF StopCanProceed, ToCleanUp, Waiting
<1>10. Spec => []Inv
  <2>1. Init => EndEventOfThread BY DEF Init, EndEventOfThread
  <2> QED BY <2>1, EndEventStep, TypeCorrect, PTL DEF Spec, Inv
<1>11. FairSpec => Spec /\ [][Next]_vars /\ WF_vars(Server) /\ WF_vars(CleanUpACServer)
  BY PTL DEF FairSpec, Spec
<1> HIDE DEF Inv
<1>12. /\ []Inv /\ []StopCanProceed /\ [][Next]_vars
       /\ WF_vars(Server) /\ WF_vars(CleanUpACServer)
       => (gui = "joining" /\ endEvent = "set" ~> Returned)
  BY <1>1, <1>2, <1>3, <1>4, <1>5, <1>6, <1>7, <1>8, <1>9, PTL
<1> QED BY <1>10, <1>11, <1>12, PTL DEF StopReturns, Returned
-----------------------------------------------------------------------------
(* Seen from outside the server is a thread that is started, ends by       *)
(* itself or is stopped: it implements ThreadLife.                         *)

\* The end event exists while the thread may be told to end by it, and is set
\* only by a stop.
EndEventCreated ==
  /\ thread \in {"created", "running", "corrupt"} => endEvent # "invalid"
  /\ endEvent = "set" => gui = "joining"

LEMMA EndEventCreatedStep == EndEventCreated /\ [Next]_vars => EndEventCreated'
<1> SUFFICES ASSUME EndEventCreated, [Next]_vars PROVE EndEventCreated' OBVIOUS
<1> USE DEF EndEventCreated
<1>1. CASE StartACServer BY <1>1 DEF StartACServer
<1>2. CASE StopACServer BY <1>2 DEF StopACServer
<1>3. CASE CleanUpACServer BY <1>3 DEF CleanUpACServer
<1>4. CASE CreateEvents \/ Listen \/ StartFails \/ EndLoop
  BY <1>4 DEF CreateEvents, Listen, StartFails, EndLoop
<1>5. CASE UNCHANGED <<gui, thread, endEvent, missed>> BY <1>5
<1>6. UNCHANGED vars => UNCHANGED <<gui, thread, endEvent, missed>> BY DEF vars
<1> QED
  BY <1>1, <1>2, <1>3, <1>4, <1>5, <1>6, ServingStep, ClientsKeep DEF Next, Gui, Server

Seen == <<ThreadSeen, gui = "joining" /\ ~ Stopped>>

LEMMA SeenUnchanged == UNCHANGED <<gui, thread, endEvent, missed>> => UNCHANGED Seen
BY DEF Seen, ThreadSeen, Stopped

LEMMA SeenStep ==
  ASSUME TypeOK, EndEventOfThread, EndEventCreated, [Next]_vars
  PROVE  Thread!Next \/ UNCHANGED Seen
<1> USE DEF Seen, ThreadSeen, Stopped
<1>1. CASE StartACServer
  <2>1. gui = "free" /\ thread = "none" /\ gui' = "free" /\ thread' = "started"
    BY <1>1 DEF StartACServer
  <2> QED BY <2>1 DEF Thread!Next, Thread!Start
<1>2. CASE StopACServer
  <2>1. /\ gui = "free" /\ gui' = "joining" /\ thread # "none" /\ thread' = thread
        /\ endEvent' = IF endEvent = "invalid" THEN "invalid" ELSE "set"
    BY <1>2 DEF StopACServer
  <2>2. CASE thread = "started"
    BY <2>1, <2>2 DEF EndEventOfThread, Thread!Next, Thread!StopTooEarly
  <2>3. CASE thread # "started"
    <3>1. endEvent' = "set" \/ thread = "ended"
      BY <2>1, <2>3 DEF TypeOK, EndEventCreated
    <3> QED BY <2>1, <3>1 DEF Thread!Next, Thread!Stop
  <2> QED BY <2>2, <2>3
<1>3. CASE CleanUpACServer
  <2>1. gui = "joining" /\ thread = "ended" /\ gui' = "free" /\ thread' = "none"
    BY <1>3 DEF CleanUpACServer
  <2> QED BY <2>1
<1>4. CASE CreateEvents
  <2>1. thread = "started" /\ thread' = "created" /\ endEvent' = "unset" /\ gui' = gui
    BY <1>4 DEF CreateEvents
  <2>2. endEvent = "invalid" BY <2>1 DEF EndEventOfThread
  <2> QED BY <2>1, <2>2
<1>5. CASE Listen
  BY <1>5 DEF Listen, TypeOK, Thread!Next, Thread!Runs
<1>6. CASE StartFails
  <2>1. thread \in {"started", "created"} /\ thread' = "ended" /\ UNCHANGED <<gui, endEvent, missed>>
    BY <1>6 DEF StartFails
  <2> QED BY <2>1 DEF Thread!Next, Thread!Ends
<1>7. CASE EndLoop
  <2>1. thread = "running" /\ endEvent = "set" /\ thread' = "ended" /\ gui' = gui
    BY <1>7 DEF EndLoop
  <2> QED BY <2>1 DEF EndEventCreated
<1>8. CASE /\ thread = "running" /\ endEvent # "set"
           /\ thread' \in {"running", "ended", "corrupt"} /\ UNCHANGED <<gui, endEvent, missed>>
  BY <1>8 DEF Thread!Next, Thread!Ends
<1>9. UNCHANGED vars => UNCHANGED <<gui, thread, endEvent, missed>> BY DEF vars
<1> QED
  BY <1>1, <1>2, <1>3, <1>4, <1>5, <1>6, <1>7, <1>8, <1>9, SeenUnchanged, ServingStep, ClientsKeep
     DEF Next, Gui, Server

\* Whatever its connections do, the server is to the GUI thread one thread with a
\* handle: started only without one, ended only by itself or by a stop
\* (AccessControlServer.cpp 77-106, 185-300).
THEOREM ServerLivesAsThread == Spec => LivesAsThread
<1>1. Init => Thread!Init /\ EndEventOfThread /\ EndEventCreated
  BY DEF Init, Thread!Init, ThreadSeen, Stopped, EndEventOfThread, EndEventCreated
<1>2. TypeOK /\ EndEventOfThread /\ EndEventCreated /\ [Next]_vars
        => [Thread!Next]_<<ThreadSeen, gui = "joining" /\ ~ Stopped>>
  BY SeenStep DEF Seen
<1>3. Spec => Init /\ [][Next]_vars BY PTL DEF Spec
<1> QED
  BY <1>1, <1>2, <1>3, TypeCorrect, EndEventStep, EndEventCreatedStep, PTL
     DEF LivesAsThread, Thread!Spec
=============================================================================
