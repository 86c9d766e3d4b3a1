------------------------- MODULE VideoServerProofs -------------------------
(***************************************************************************)
(* For any set of clients, any lengths of images and any number of starts  *)
(* and connects.  First the server: whichever way its thread ends it       *)
(* leaves nothing behind, and the main window hears of the end of every    *)
(* connection it heard the beginning of.  Both come down to what the one   *)
(* clean-up relies on: the flag it looks at is set whenever a device is    *)
(* on, and the stream has a receiver only while there is a socket.         *)
(*                                                                         *)
(* Then the images.  The framing has no marker in it, so the argument      *)
(* follows every byte: the bytes in the transport are consecutive, the     *)
(* first is the one that the receiver's buffer lacks, and after the last   *)
(* comes the one that is written next.                                     *)
(*                                                                         *)
(* Then what ends: that a stop which was not too early is heard, that      *)
(* devices without a caller leave the thread a branch to take, and that a  *)
(* write has a budget.  What is ENABLED the provers cannot compute: that a *)
(* fair step can be taken is a hypothesis, and an invariant of TLC's run.  *)
(* Last, what the rest of the program sees of the server is ThreadLife.    *)
(***************************************************************************)
EXTENDS VideoServer, FiniteSetTheorems, SequenceTheorems, TLAPS

\* The handle stands for the thread; a stop needs one.
HandleOfThread == (hThread <=> pc # "none") /\ (joining => hThread)

\* CleanUpClosedConnection stops the devices only if RealConnectionActive is set.
DevicesKnown == devices => RealConnectionActive

\* It ends the stream only if there is one, which has a socket.
StreamHasSocket == receiverOpen => Accept # NoClient

Idle == {"none", "starting", "binding", "ended"}

\* Outside the loop nothing is held, and before the thread has run nothing listens.
Outside ==
  /\ pc \in Idle => Accept = NoClient /\ ~devices /\ ~receiverOpen /\ backlog = {}
  /\ pc = "none" => hEnd = "none" /\ ~listening

Counted == connects \in Nat /\ losts \in Nat /\ failed \in Nat

IInv ==
  /\ Counted /\ Accept \in Client \cup {NoClient}
  /\ HandleOfThread /\ DevicesKnown /\ StreamHasSocket /\ Outside
  /\ ConnectsAreMatched

LEMMA InitInvariant == Init => IInv
BY DEF Init, Up!Init, IInv, Counted, HandleOfThread, DevicesKnown, StreamHasSocket, Outside,
   ConnectsAreMatched

-----------------------------------------------------------------------------
(* The actions of the stream seen from the server: only its two ends move. *)

LEMMA SenderKeeps == Up!SenderStep => UNCHANGED receiverOpen
BY DEF Up!SenderStep, Up!TakesFrame, Up!Writes, Up!WouldBlock, Up!SendFails, Up!SenderCloses,
   Up!GivesUp, Up!receiver

LEMMA ReadKeeps == Up!Reads => UNCHANGED receiverOpen
BY DEF Up!Reads

LEMMA EndsCloses == EndsStream => ~receiverOpen'
BY DEF EndsStream, Up!Closes, stream

\* The clean-up does its work whatever it finds.
LEMMA CleansUp ==
  ASSUME IInv, CleanUpClosedConnection
  PROVE  /\ Accept' = NoClient /\ ~devices' /\ ~receiverOpen' /\ Counted'
         /\ ConnectsAreMatched'
<1>1. ~receiverOpen' BY EndsCloses DEF CleanUpClosedConnection
<1>2. ~devices' BY DEF CleanUpClosedConnection, IInv, DevicesKnown
<1>3. Counted' /\ ConnectsAreMatched'
  BY DEF CleanUpClosedConnection, IInv, Counted, ConnectsAreMatched
<1> QED BY <1>1, <1>2, <1>3 DEF CleanUpClosedConnection

LEMMA LeavesStep ==
  ASSUME IInv, Leaves, pc # "none"
  PROVE  IInv'
<1>1. CleanUpClosedConnection /\ VideoServerCleanup /\ pc' = "ended"
      /\ UNCHANGED <<hThread, joining>>
  BY DEF Leaves
<1> QED
  BY <1>1, CleansUp
     DEF VideoServerCleanup, IInv, HandleOfThread, DevicesKnown, StreamHasSocket, Outside, Idle

LEMMA ClosesStep ==
  ASSUME IInv, CleanUpClosedConnection, pc = "looping", UNCHANGED <<control, backlog>>
  PROVE  IInv'
BY CleansUp DEF IInv, HandleOfThread, DevicesKnown, StreamHasSocket, Outside, Idle, control

LEMMA AcceptStepHolds == IInv /\ AcceptStep => IInv'
<1> SUFFICES ASSUME IInv, NEW c \in Client, NEW got \in BOOLEAN,
                    \/ AcceptConn(c, got) \/ AcceptEcho(c, got)
                    \/ \E started \in BOOLEAN : AcceptBreaks(c, got, started)
             PROVE  IInv'
  BY DEF AcceptStep
<1>1. pc = "looping" /\ Accept = NoClient /\ ~receiverOpen /\ Takes(c, got)
      /\ losts' = losts /\ UNCHANGED <<hThread, joining>> /\ pc' \in {"looping", "breaking"}
  BY DEF AcceptConn, AcceptEcho, AcceptBreaks, Serves, IInv, StreamHasSocket, counts, control
<1>2. Counted' /\ ConnectsAreMatched' /\ Accept' \in Client \cup {NoClient}
  BY <1>1, NoClientAssumption DEF Takes, IInv, Counted, ConnectsAreMatched
<1>3. HandleOfThread' /\ Outside' BY <1>1 DEF IInv, HandleOfThread, Outside, Idle
<1>4. DevicesKnown'
  BY DEF AcceptConn, AcceptEcho, AcceptBreaks, IInv, DevicesKnown
<1>5. StreamHasSocket'
  <2>1. CASE got BY <2>1, <1>1, NoClientAssumption DEF Takes, StreamHasSocket
  <2>2. CASE ~got BY <2>2, <1>1 DEF AcceptConn, AcceptEcho, AcceptBreaks, stream, StreamHasSocket
  <2> QED BY <2>1, <2>2
<1> QED BY <1>2, <1>3, <1>4, <1>5 DEF IInv

\* What the GUI thread does, and the thread before its loop.
LEMMA GuiStep == IInv /\ (StartVideoServer \/ StopVideoServer \/ Joined) => IInv'
<1> SUFFICES ASSUME IInv, StartVideoServer \/ StopVideoServer \/ Joined PROVE IInv' OBVIOUS
<1>1. CASE StartVideoServer
  BY <1>1 DEF StartVideoServer, IInv, Counted, HandleOfThread, DevicesKnown, StreamHasSocket,
     Outside, Idle, ConnectsAreMatched, service, stream
<1>2. CASE StopVideoServer
  BY <1>2 DEF StopVideoServer, IInv, Counted, HandleOfThread, DevicesKnown, StreamHasSocket,
     Outside, Idle, ConnectsAreMatched, service, stream
<1>3. CASE Joined
  BY <1>3 DEF Joined, VideoServerCleanup, IInv, Counted, HandleOfThread, DevicesKnown,
     StreamHasSocket, Outside, Idle, ConnectsAreMatched, stream
<1> QED BY <1>1, <1>2, <1>3

LEMMA BeforeLoopStep == IInv /\ (StartFails \/ Listens \/ BindFails \/ Binds) => IInv'
<1> SUFFICES ASSUME IInv, StartFails \/ Listens \/ BindFails \/ Binds PROVE IInv' OBVIOUS
<1>1. /\ pc \in {"starting", "binding"} /\ pc' \in {"binding", "looping", "ended"}
      /\ UNCHANGED <<hThread, joining, backlog, Accept, RealConnectionActive, devices, connects,
                     losts, failed, receiverOpen>>
  BY DEF StartFails, Listens, BindFails, Binds, service, stream
<1> QED
  BY <1>1 DEF IInv, Counted, HandleOfThread, DevicesKnown, StreamHasSocket, Outside, Idle,
     ConnectsAreMatched

\* Steps within the loop that leave the connection as it is.
LEMMA QuietStep ==
  ASSUME IInv, pc = "looping" \/ UNCHANGED backlog, UNCHANGED <<control, service, receiverOpen>>
  PROVE  IInv'
BY DEF IInv, Counted, HandleOfThread, DevicesKnown, StreamHasSocket, Outside, Idle,
   ConnectsAreMatched, control, service

LEMMA NextInvariant == IInv /\ [Next]_vars => IInv'
<1> SUFFICES ASSUME IInv, [Next]_vars PROVE IInv' OBVIOUS
<1>1. CASE EndLoop BY <1>1, LeavesStep DEF EndLoop
<1>2. CASE Breaks BY <1>2, LeavesStep DEF Breaks
<1>3. CASE ReadsNothing BY <1>3, LeavesStep DEF ReadsNothing, ServesImages, Serves
<1>4. CASE SeesClose BY <1>4, ClosesStep DEF SeesClose, ServesImages, Serves
<1>5. CASE EchoCloses BY <1>5, ClosesStep DEF EchoCloses, Serves
<1>6. CASE TimerWriteFails BY <1>6, ClosesStep DEF TimerWriteFails, Serves
<1>7. CASE TimerFindsNoPeer BY <1>7, ClosesStep DEF TimerFindsNoPeer, Serves
<1>8. CASE ReadsConn BY <1>8, QuietStep, ReadKeeps DEF ReadsConn
<1>9. CASE ClientStep BY <1>9, QuietStep, SenderKeeps DEF ClientStep
<1>10. ASSUME NEW c \in Client, Refuse(c) PROVE IInv'
  BY <1>10, QuietStep DEF Refuse, Serves, stream
<1>11. ASSUME NEW c \in Client, Calls(c) PROVE IInv'
  BY <1>11, QuietStep DEF Calls, stream
<1>12. CASE UNCHANGED vars BY <1>12, QuietStep DEF vars, stream
<1> QED
  BY <1>1, <1>2, <1>3, <1>4, <1>5, <1>6, <1>7, <1>8, <1>9, <1>10, <1>11, <1>12, AcceptStepHolds,
     GuiStep, BeforeLoopStep DEF Next, ThreadStep

\* Every reachable state satisfies the invariant above.
THEOREM Invariance == Spec => []IInv
<1>1. Spec => Init /\ [][Next]_vars BY PTL DEF Spec
<1> QED BY <1>1, InitInvariant, NextInvariant, PTL

\* However the thread ended it holds no connection, camera or voice session,
\* and after a stop there is no socket or event (VideoServer.cpp 440-470).
THEOREM LeavesNothingBehind == Spec => []NothingLeftBehind
<1>1. IInv => NothingLeftBehind
  BY DEF IInv, NothingLeftBehind, Outside, HandleOfThread, Idle
<1> QED BY <1>1, Invariance, PTL

\* Each WM_REMOTE_CONNECT is followed by its WM_REMOTE_LOST, except for a
\* connection that accept failed to give (VideoServer.cpp 201, 222, 446).
THEOREM ConnectsMatch == Spec => []ConnectsAreMatched
<1>1. IInv => ConnectsAreMatched BY DEF IInv
<1> QED BY <1>1, Invariance, PTL

-----------------------------------------------------------------------------
(* The images of a connection.                                             *)

DataTypes ==
  /\ size \in Seq(0 .. MaxSize) /\ written \in Nat /\ wire \in Seq(Up!Byte)
  /\ InputBuffer \in Seq(Up!Byte) /\ InputBytesNeeded \in Nat /\ shown \in Seq(Seq(Up!Byte))
  /\ Mode \in {"ImageSize", "Image"} /\ sending \in {"nothing", "size", "data"}

\* The image that the receiver is putting together.
Current == Len(shown) + 1

\* What has been displayed, and the part of the current image in the buffer.
Framing ==
  /\ Len(shown) <= Len(size) /\ \A k \in 1 .. Len(shown) : shown[k] = Up!Data(k)
  /\ Mode = "ImageSize" =>
       /\ InputBytesNeeded > 0 /\ Len(InputBuffer) + InputBytesNeeded = HeaderLen
       /\ \A i \in 1 .. Len(InputBuffer) : InputBuffer[i] = <<Current, i>>
  /\ Mode = "Image" =>
       /\ Current <= Len(size) /\ Len(InputBuffer) + InputBytesNeeded = size[Current]
       /\ \A i \in 1 .. Len(InputBuffer) : InputBuffer[i] = <<Current, HeaderLen + i>>

\* Without a connection the transport is empty and the framing starts anew.
Fresh == ~receiverOpen => wire = <<>> /\ Mode = "ImageSize" /\ InputBuffer = <<>>

StillWriting == sending # "nothing" => Len(size) > 0 /\ written < HeaderLen + size[Len(size)]

NextIn  == <<Current, IF Mode = "ImageSize" THEN Len(InputBuffer) + 1
                                            ELSE HeaderLen + Len(InputBuffer) + 1>>
NextOut == IF sending = "nothing" THEN <<Len(size) + 1, 1>> ELSE <<Len(size), written + 1>>

After(b) == IF b[2] < HeaderLen + size[b[1]] THEN <<b[1], b[2] + 1>> ELSE <<b[1] + 1, 1>>
IsTaken(b) == b[1] \in 1 .. Len(size) /\ b[2] \in 1 .. (HeaderLen + size[b[1]])

\* An image of no bytes ends this: nothing is read after its size.
Consecutive ==
  receiverOpen /\ InputBytesNeeded > 0 =>
    /\ \A i \in 1 .. Len(wire) : IsTaken(wire[i])
    /\ Len(wire) > 0 => wire[1] = NextIn
    /\ \A i \in 1 .. (Len(wire) - 1) : wire[i + 1] = After(wire[i])
    /\ senderOpen => NextOut = IF Len(wire) = 0 THEN NextIn ELSE After(wire[Len(wire)])

SInv == DataTypes /\ Framing /\ Fresh /\ StillWriting /\ Consecutive

Streaming == Up!Connects \/ Up!SenderStep \/ Up!Reads \/ Up!Closes

-----------------------------------------------------------------------------
LEMMA InitStream == Up!Init => SInv
<1> SUFFICES ASSUME Up!Init PROVE SInv OBVIOUS
<1> USE LengthAssumption DEF Up!Init
<1>1. Len(size) = 0 /\ Len(shown) = 0 /\ Len(wire) = 0 /\ Len(InputBuffer) = 0 BY EmptySeq
<1>2. DataTypes BY EmptySeq DEF DataTypes
<1>3. Framing BY <1>1 DEF Framing
<1>4. Fresh /\ StillWriting /\ Consecutive BY DEF Fresh, StillWriting, Consecutive
<1> QED BY <1>2, <1>3, <1>4 DEF SInv

LEMMA ConnectStream == ASSUME SInv, Up!Connects PROVE SInv'
<1> USE LengthAssumption DEF SInv, Up!Connects
<1>1. /\ Mode' = "ImageSize" /\ InputBuffer' = <<>> /\ InputBytesNeeded' = HeaderLen
      /\ size' = <<>> /\ shown' = <<>> /\ wire' = <<>> /\ sending' = "nothing" /\ written' = 0
  <2>1. Len(<<>>) = 0 BY EmptySeq
  <2> QED BY <2>1 DEF Fresh, Framing, DataTypes
<1>2. Len(size') = 0 /\ Len(shown') = 0 /\ Len(wire') = 0 /\ Len(InputBuffer') = 0
  BY <1>1, EmptySeq
<1> HIDE DEF SInv, Up!Connects
<1>3. DataTypes' BY <1>1, EmptySeq DEF DataTypes
<1>4. Framing' BY <1>1, <1>2 DEF Framing
<1>5. Fresh' /\ StillWriting' BY <1>1 DEF Fresh, StillWriting
<1>6. Consecutive' BY <1>1, <1>2 DEF Consecutive, NextIn, NextOut, Current
<1> QED BY <1>3, <1>4, <1>5, <1>6 DEF SInv

LEMMA CloseStream == ASSUME SInv, Up!Closes PROVE SInv'
<1> USE LengthAssumption DEF Up!Closes, Up!ResetFraming, Up!sender
<1>1. /\ Mode' = "ImageSize" /\ InputBuffer' = <<>> /\ InputBytesNeeded' = HeaderLen
      /\ wire' = <<>> /\ ~receiverOpen' /\ UNCHANGED <<size, shown, sending, written>>
  OBVIOUS
<1>2. Len(InputBuffer') = 0 BY <1>1, EmptySeq
<1> HIDE DEF Up!Closes
<1>3. DataTypes' BY <1>1, EmptySeq DEF SInv, DataTypes
<1>4. Framing' BY <1>1, <1>2 DEF SInv, Framing, Up!Data
<1>5. Fresh' /\ StillWriting' BY <1>1 DEF SInv, Fresh, StillWriting
<1>6. Consecutive' BY <1>1 DEF Consecutive
<1> QED BY <1>3, <1>4, <1>5, <1>6 DEF SInv

-----------------------------------------------------------------------------
(* The sender.                                                             *)

LEMMA TakeStream == ASSUME SInv, NEW n \in 0 .. MaxSize, Up!TakesFrame(n) PROVE SInv'
<1>1. /\ size' = Append(size, n) /\ sending = "nothing" /\ sending' = "size" /\ written' = 0
      /\ UNCHANGED <<senderOpen, wire, receiverOpen, Mode, InputBuffer, InputBytesNeeded, shown>>
  BY DEF Up!TakesFrame, Up!receiver
<1>2. /\ size' \in Seq(0 .. MaxSize) /\ Len(size') = Len(size) + 1 /\ Len(size) \in Nat
      /\ \A k \in 1 .. Len(size) : size'[k] = size[k]
      /\ size'[Len(size) + 1] = n
  BY <1>1, AppendProperties, LenProperties DEF SInv, DataTypes
<1>3. DataTypes' BY <1>1, <1>2 DEF SInv, DataTypes
<1>4. Len(shown) \in Nat /\ Len(wire) \in Nat BY LenProperties DEF SInv, DataTypes
<1>5. Framing'
  <2>1. \A k \in 1 .. Len(size) : Up!Data(k)' = Up!Data(k) BY <1>2 DEF Up!Data
  <2>2. Len(shown)' <= Len(size)' /\ \A k \in 1 .. Len(shown) : shown'[k] = Up!Data(k)'
    BY <1>1, <1>2, <1>4, <2>1 DEF SInv, Framing
  <2>3. Mode = "Image" => size'[Current] = size[Current] /\ Current <= Len(size')
    BY <1>2, <1>4 DEF SInv, Framing, Current
  <2> QED BY <1>1, <2>2, <2>3 DEF SInv, Framing, Current
<1>6. Fresh' BY <1>1 DEF SInv, Fresh
<1>7. StillWriting' BY <1>1, <1>2, LengthAssumption DEF StillWriting
<1>8. Consecutive'
  <2> SUFFICES ASSUME receiverOpen, InputBytesNeeded > 0 PROVE Consecutive'
    BY <1>1 DEF Consecutive
  <2>1. \A i \in 1 .. Len(wire) : IsTaken(wire[i])' /\ After(wire[i])' = After(wire[i])
    BY <1>1, <1>2 DEF SInv, Consecutive, IsTaken, After
  <2>2. NextIn' = NextIn /\ NextOut' = NextOut
    BY <1>1, <1>2 DEF NextIn, NextOut, Current
  <2> QED BY <1>1, <1>4, <2>1, <2>2 DEF SInv, Consecutive
<1> QED BY <1>3, <1>5, <1>6, <1>7, <1>8 DEF SInv

LEMMA WriteStream == ASSUME SInv, Up!Writes PROVE SInv'
<1> DEFINE byte == <<Len(size), written + 1>>
           m == Len(wire)
           last == HeaderLen + size[Len(size)]
<1>1. /\ senderOpen /\ receiverOpen /\ sending # "nothing"
      /\ wire' = Append(wire, byte) /\ written' = written + 1
      /\ UNCHANGED <<senderOpen, size, receiverOpen, Mode, InputBuffer, InputBytesNeeded, shown>>
  BY DEF Up!Writes, Up!receiver, Up!Image
<1>2. /\ Len(size) \in Nat /\ Len(size) > 0 /\ size[Len(size)] \in Nat /\ written \in Nat
      /\ written < last /\ HeaderLen \in Nat
  BY <1>1, LenProperties, LengthAssumption DEF SInv, DataTypes, StillWriting
<1>3. /\ sending' \in {"nothing", "size", "data"}
      /\ sending' = "nothing" <=> written + 1 >= last
  BY <1>2 DEF Up!Writes, Up!StillSending, Up!Length, Up!Image
<1>4. byte \in Up!Byte BY <1>2 DEF Up!Byte
<1>5. /\ wire' \in Seq(Up!Byte) /\ m \in Nat /\ Len(wire') = m + 1
      /\ \A i \in 1 .. m : wire'[i] = wire[i]
      /\ wire'[m + 1] = byte
  BY <1>1, <1>4, AppendProperties, LenProperties DEF SInv, DataTypes
<1>6. DataTypes' BY <1>1, <1>2, <1>3, <1>5 DEF SInv, DataTypes
<1>7. Framing' BY <1>1 DEF SInv, Framing, Current, Up!Data
<1>8. Fresh' /\ StillWriting' BY <1>1, <1>2, <1>3 DEF Fresh, StillWriting
<1>9. Consecutive'
  <2> SUFFICES ASSUME InputBytesNeeded > 0 PROVE Consecutive'
    BY <1>1 DEF Consecutive
  <2>1. IsTaken(byte) /\ After(byte) = NextOut'
    BY <1>1, <1>2, <1>3 DEF IsTaken, After, NextOut
  <2>2. byte = IF m = 0 THEN NextIn ELSE After(wire[m])
    BY <1>1, <1>5 DEF SInv, Consecutive, NextOut
  <2>3. \A i \in 1 .. (m + 1) : IsTaken(wire'[i])
    BY <1>1, <1>5, <2>1 DEF SInv, Consecutive
  <2>4. wire'[1] = NextIn BY <1>1, <1>5, <2>2 DEF SInv, Consecutive
  <2>5. ASSUME NEW i \in 1 .. m PROVE wire'[i + 1] = After(wire'[i])
    <3>1. wire'[i] = wire[i] BY <1>5
    <3>2. CASE i = m BY <1>5, <2>2, <3>1, <3>2
    <3>3. CASE i # m
      <4>1. i \in 1 .. (m - 1) /\ i + 1 \in 1 .. m BY <1>5, <3>3
      <4>2. wire'[i + 1] = wire[i + 1] BY <1>5, <4>1
      <4>3. wire[i + 1] = After(wire[i]) BY <1>1, <4>1 DEF SInv, Consecutive
      <4> QED BY <3>1, <4>2, <4>3
    <3> QED BY <3>2, <3>3
  <2>6. /\ NextIn' = NextIn
        /\ \A b \in Up!Byte : IsTaken(b)' = IsTaken(b) /\ After(b)' = After(b)
    BY <1>1 DEF NextIn, Current, IsTaken, After
  <2>7. \A i \in 1 .. (m + 1) : wire'[i] \in Up!Byte BY <1>5
  <2> HIDE DEF byte, m
  <2> QED BY <1>1, <1>5, <2>1, <2>3, <2>4, <2>5, <2>6, <2>7 DEF Consecutive
<1> QED BY <1>6, <1>7, <1>8, <1>9 DEF SInv

\* The steps of the sender that put no byte into the transport: the attempts that
\* block, and those that end its half of the connection.
LEMMA NoByteStream ==
  ASSUME SInv,
         UNCHANGED <<size, written, wire, receiverOpen, Mode, InputBuffer, InputBytesNeeded, shown>>,
         \/ UNCHANGED <<senderOpen, sending>>
         \/ ~senderOpen' /\ sending' = "nothing"
  PROVE  SInv'
<1>1. DataTypes' BY DEF SInv, DataTypes
<1>2. Framing' BY DEF SInv, Framing, Current, Up!Data
<1>3. Fresh' /\ StillWriting' BY DEF SInv, Fresh, StillWriting
<1>4. Consecutive' BY DEF SInv, Consecutive, NextIn, NextOut, Current, IsTaken, After
<1> QED BY <1>1, <1>2, <1>3, <1>4 DEF SInv

LEMMA SenderStream == ASSUME SInv, Up!SenderStep PROVE SInv'
<1>1. CASE Up!WouldBlock BY <1>1, NoByteStream DEF Up!WouldBlock, Up!GivesUp, Up!receiver
<1>2. CASE Up!SendFails BY <1>2, NoByteStream DEF Up!SendFails, Up!GivesUp, Up!receiver
<1>3. CASE Up!SenderCloses BY <1>3, NoByteStream DEF Up!SenderCloses, Up!receiver
<1> QED BY <1>1, <1>2, <1>3, TakeStream, WriteStream DEF Up!SenderStep

-----------------------------------------------------------------------------
(* The receiver.                                                           *)

\* A byte that is read is the one the buffer lacks.
NextByte ==
  /\ Len(wire) > 0 /\ Len(wire) \in Nat /\ Head(wire) = NextIn /\ Head(wire) \in Up!Byte
  /\ Tail(wire) \in Seq(Up!Byte) /\ Len(Tail(wire)) = Len(wire) - 1
  /\ \A i \in 1 .. (Len(wire) - 1) : Tail(wire)[i] = wire[i + 1]
  /\ IsTaken(NextIn) /\ Current \in 1 .. Len(size) /\ Current = Len(shown) + 1
  /\ Len(shown) \in Nat /\ Len(size) \in Nat /\ size[Current] \in Nat
  /\ Len(InputBuffer) \in Nat

LEMMA ReadsNext == SInv /\ Up!Reads => NextByte
<1> SUFFICES ASSUME SInv, Up!Reads PROVE NextByte OBVIOUS
<1>1. receiverOpen /\ InputBytesNeeded > 0 /\ wire # <<>> BY DEF Up!Reads
<1>2. /\ Len(wire) \in Nat /\ Len(wire) > 0 /\ Head(wire) = wire[1] /\ Head(wire) \in Up!Byte
      /\ Tail(wire) \in Seq(Up!Byte) /\ Len(Tail(wire)) = Len(wire) - 1
      /\ \A i \in 1 .. (Len(wire) - 1) : Tail(wire)[i] = wire[i + 1]
  BY <1>1, EmptySeq, HeadTailProperties, LenProperties DEF SInv, DataTypes
<1>3. Head(wire) = NextIn /\ IsTaken(NextIn) BY <1>1, <1>2 DEF SInv, Consecutive
<1>4. Len(shown) \in Nat /\ Len(size) \in Nat /\ Len(InputBuffer) \in Nat
  BY LenProperties DEF SInv, DataTypes
<1>5. Current \in 1 .. Len(size)
  <2>1. NextIn[1] = Current
    <3>1. CASE Mode = "ImageSize" BY <3>1 DEF NextIn
    <3>2. CASE Mode # "ImageSize" BY <3>2 DEF NextIn
    <3> QED BY <3>1, <3>2
  <2> QED BY <1>3, <2>1 DEF IsTaken
<1>6. size[Current] \in Nat BY <1>4, <1>5, LengthAssumption DEF SInv, DataTypes
<1> QED BY <1>2, <1>3, <1>4, <1>5, <1>6 DEF NextByte, Current

\* Reading a byte moves the front of the transport, and nothing behind it.
LEMMA ReadKeepsOrder ==
  ASSUME SInv, NextByte, receiverOpen, InputBytesNeeded > 0, wire' = Tail(wire),
         UNCHANGED <<senderOpen, receiverOpen, size, sending, written>>,
         InputBytesNeeded' > 0 => NextIn' = After(NextIn)
  PROVE  Consecutive'
<1> SUFFICES ASSUME InputBytesNeeded' > 0 PROVE Consecutive' BY DEF Consecutive
<1> DEFINE m == Len(wire)
<1>1. /\ m \in Nat /\ m > 0 /\ Len(wire') = m - 1
      /\ \A i \in 1 .. (m - 1) : wire'[i] = wire[i + 1]
  BY DEF NextByte
<1>2. /\ \A i \in 1 .. m : IsTaken(wire[i])
      /\ wire[1] = NextIn
      /\ \A i \in 1 .. (m - 1) : wire[i + 1] = After(wire[i])
      /\ senderOpen => NextOut = After(wire[m])
  BY <1>1 DEF SInv, Consecutive
<1>3. NextOut' = NextOut BY DEF NextOut
<1>4. NextIn' = After(wire[1]) BY <1>2
<1>5. ASSUME NEW i \in 1 .. (m - 1)
      PROVE  wire'[i] = wire[i + 1] /\ IsTaken(wire[i])' /\ After(wire[i])' = After(wire[i + 1])
  <2>1. wire'[i] = wire[i + 1] /\ i + 1 \in 1 .. m BY <1>1
  <2>2. IsTaken(wire[i + 1]) BY <1>2, <2>1
  <2>3. IsTaken(wire[i])' BY <2>1, <2>2 DEF IsTaken
  <2>4. After(wire[i])' = After(wire[i + 1]) BY <2>1 DEF After
  <2> QED BY <2>1, <2>3, <2>4
<1>6. ASSUME NEW i \in 1 .. (m - 2) PROVE wire'[i + 1] = After(wire[i])'
  <2>1. i \in 1 .. (m - 1) /\ i + 1 \in 1 .. (m - 1) BY <1>1
  <2>2. wire'[i + 1] = wire[(i + 1) + 1] /\ After(wire[i])' = After(wire[i + 1]) BY <1>5, <2>1
  <2>3. wire[(i + 1) + 1] = After(wire[i + 1]) BY <1>2, <2>1
  <2> QED BY <2>2, <2>3
<1>7. m = 1 => (senderOpen => NextOut' = NextIn') BY <1>2, <1>3, <1>4
<1>8. m > 1 => /\ wire'[1] = NextIn'
               /\ senderOpen => NextOut' = After(wire[Len(wire)])'
  <2> SUFFICES ASSUME m > 1 PROVE wire'[1] = NextIn' /\ (senderOpen => NextOut' = After(wire[Len(wire)])')
    OBVIOUS
  <2>1. wire'[1] = wire[2] /\ wire[2] = After(wire[1]) BY <1>1, <1>2
  <2>2. Len(wire') \in 1 .. (m - 1) /\ Len(wire') + 1 = m BY <1>1
  <2>3. wire'[Len(wire')] = wire[m] BY <1>5, <2>2
  <2>4. After(wire[Len(wire)])' = After(wire[m]) BY <2>3 DEF After
  <2> QED BY <1>2, <1>3, <1>4, <2>1, <2>4
<1> HIDE DEF m
<1>9. Len(wire') = m - 1 /\ m \in Nat /\ m > 0 BY <1>1
<1>10. \A i \in 1 .. Len(wire') : IsTaken(wire[i])' BY <1>5, <1>9
<1>11. \A i \in 1 .. (Len(wire') - 1) : wire'[i + 1] = After(wire[i])' BY <1>6, <1>9
<1>12. Len(wire') > 0 => wire'[1] = NextIn' BY <1>8, <1>9
<1>13. senderOpen => NextOut' = IF Len(wire') = 0 THEN NextIn' ELSE After(wire[Len(wire)])'
  <2>1. CASE m = 1 BY <2>1, <1>7, <1>9
  <2>2. CASE m > 1
    <3>1. Len(wire') # 0 BY <2>2, <1>9
    <3> QED BY <2>2, <3>1, <1>8, Zenon
  <2>3. m = 1 \/ m > 1 BY <1>9
  <2> QED BY <2>1, <2>2, <2>3, Zenon
<1> QED BY <1>10, <1>11, <1>12, <1>13 DEF Consecutive

\* What a read does, by where the byte stands: inside the size or the data, at the
\* end of the size, at the end of the data.
LEMMA ReadInside ==
  ASSUME SInv, Up!Reads, InputBytesNeeded # 1
  PROVE  SInv' /\ UNCHANGED <<size, shown>>
<1> DEFINE buffer == Append(InputBuffer, Head(wire))
<1>1. NextByte BY ReadsNext
<1>2. /\ receiverOpen /\ InputBytesNeeded > 1 /\ wire' = Tail(wire) /\ InputBuffer' = buffer
      /\ InputBytesNeeded' = InputBytesNeeded - 1 /\ InputBytesNeeded \in Nat
      /\ UNCHANGED <<Mode, shown, senderOpen, receiverOpen, size, sending, written>>
  BY DEF Up!Reads, Up!sender, SInv, DataTypes
<1>3. /\ InputBuffer' \in Seq(Up!Byte) /\ Len(InputBuffer') = Len(InputBuffer) + 1
      /\ \A i \in 1 .. Len(InputBuffer) : InputBuffer'[i] = InputBuffer[i]
      /\ InputBuffer'[Len(InputBuffer) + 1] = NextIn
  BY <1>1, <1>2, AppendProperties DEF SInv, DataTypes, NextByte
<1>4. DataTypes' BY <1>1, <1>2, <1>3 DEF SInv, DataTypes, NextByte
<1>5. Current' = Current BY <1>2 DEF Current
<1>6. Framing'
  <2>1. Len(shown)' <= Len(size)' /\ \A k \in 1 .. Len(shown)' : shown'[k] = Up!Data(k)'
    BY <1>2 DEF SInv, Framing, Up!Data
  <2>2. CASE Mode = "ImageSize"
    <3>1. NextIn = <<Current, Len(InputBuffer) + 1>> BY <2>2 DEF NextIn
    <3> QED BY <1>1, <1>2, <1>3, <1>5, <2>1, <2>2, <3>1 DEF SInv, Framing, NextByte
  <2>3. CASE Mode = "Image"
    <3>1. NextIn = <<Current, HeaderLen + Len(InputBuffer) + 1>> BY <2>3 DEF NextIn
    <3>2. Current <= Len(size) /\ Len(InputBuffer) + InputBytesNeeded = size[Current]
      BY <2>3 DEF SInv, Framing
    <3>3. Len(InputBuffer)' + InputBytesNeeded' = size[Current]
      BY <1>1, <1>2, <1>3, <3>2 DEF NextByte
    <3>4. \A i \in 1 .. Len(InputBuffer) : InputBuffer'[i] = <<Current, HeaderLen + i>>
      BY <1>3, <2>3 DEF SInv, Framing
    <3>5. InputBuffer'[Len(InputBuffer) + 1] = <<Current, HeaderLen + (Len(InputBuffer) + 1)>>
      <4>1. HeaderLen + Len(InputBuffer) + 1 = HeaderLen + (Len(InputBuffer) + 1)
        BY <1>1, LengthAssumption DEF NextByte
      <4> QED BY <1>3, <3>1, <4>1
    <3>6. \A i \in 1 .. (Len(InputBuffer) + 1) : InputBuffer'[i] = <<Current, HeaderLen + i>>
      BY <1>1, <3>4, <3>5 DEF NextByte
    <3> QED BY <1>2, <1>3, <1>5, <2>1, <2>3, <3>2, <3>3, <3>6 DEF Framing
  <2> QED BY <2>2, <2>3 DEF SInv, DataTypes
<1>7. Fresh' /\ StillWriting' BY <1>2 DEF SInv, Fresh, StillWriting
<1>8. NextIn' = After(NextIn)
  <2> USE LengthAssumption DEF NextByte, After
  <2>1. CASE Mode = "ImageSize"
    <3>1. NextIn = <<Current, Len(InputBuffer) + 1>> /\ NextIn' = <<Current, Len(InputBuffer) + 2>>
      BY <1>1, <1>2, <1>3, <1>5, <2>1 DEF NextIn
    <3>2. Len(InputBuffer) + 1 < HeaderLen BY <1>1, <1>2, <2>1 DEF SInv, Framing
    <3> QED BY <1>1, <3>1, <3>2
  <2>2. CASE Mode = "Image"
    <3>1. /\ NextIn = <<Current, HeaderLen + Len(InputBuffer) + 1>>
          /\ NextIn' = <<Current, HeaderLen + Len(InputBuffer) + 2>>
      BY <1>1, <1>2, <1>3, <1>5, <2>2 DEF NextIn
    <3>2. Len(InputBuffer) + 1 < size[Current] BY <1>1, <1>2, <2>2 DEF SInv, Framing
    <3> QED BY <1>1, <3>1, <3>2
  <2> QED BY <2>1, <2>2 DEF SInv, DataTypes
<1>9. Consecutive' BY <1>1, <1>2, <1>8, ReadKeepsOrder
<1> QED BY <1>2, <1>4, <1>6, <1>7, <1>9 DEF SInv

LEMMA ReadSizeEnds ==
  ASSUME SInv, Up!Reads, InputBytesNeeded = 1, Mode = "ImageSize"
  PROVE  SInv' /\ UNCHANGED <<size, shown>>
<1> DEFINE buffer == Append(InputBuffer, Head(wire))
<1>1. NextByte BY ReadsNext
<1>2. NextIn = <<Current, HeaderLen>> /\ Len(InputBuffer) = HeaderLen - 1
  BY <1>1, LengthAssumption DEF NextIn, NextByte, SInv, Framing
<1>3. buffer[1] = <<Current, 1>>
  <2>1. /\ \A i \in 1 .. Len(InputBuffer) : buffer[i] = InputBuffer[i]
        /\ buffer[Len(InputBuffer) + 1] = NextIn
    BY <1>1, AppendProperties DEF SInv, DataTypes, NextByte
  <2>2. CASE HeaderLen = 1 BY <1>2, <2>1, <2>2
  <2>3. CASE HeaderLen # 1
    <3>1. 1 \in 1 .. Len(InputBuffer) BY <1>2, <2>3, LengthAssumption
    <3> QED BY <2>1, <3>1 DEF SInv, Framing
  <2> QED BY <2>2, <2>3
<1>4. /\ receiverOpen /\ wire' = Tail(wire) /\ Mode' = "Image" /\ InputBuffer' = <<>>
      /\ InputBytesNeeded' = size[Current]
      /\ UNCHANGED <<shown, senderOpen, receiverOpen, size, sending, written>>
  BY <1>3 DEF Up!Reads, Up!Completes, Up!SizeIn, Up!sender
<1>5. Len(InputBuffer') = 0 /\ InputBuffer' \in Seq(Up!Byte) BY <1>4, EmptySeq
<1>6. Current' = Current BY <1>4 DEF Current
<1>7. DataTypes' BY <1>1, <1>4, <1>5 DEF SInv, DataTypes, NextByte
<1>8. Framing'
  <2>1. Len(shown)' <= Len(size)' /\ \A k \in 1 .. Len(shown)' : shown'[k] = Up!Data(k)'
    BY <1>4 DEF SInv, Framing, Up!Data
  <2> QED BY <1>1, <1>4, <1>5, <1>6, <2>1 DEF Framing, NextByte
<1>9. Fresh' /\ StillWriting' BY <1>4 DEF SInv, Fresh, StillWriting
<1>10. InputBytesNeeded' > 0 => NextIn' = After(NextIn)
  <2> SUFFICES ASSUME size[Current] > 0 PROVE NextIn' = After(NextIn) BY <1>4
  <2>1. NextIn' = <<Current, HeaderLen + 1>> BY <1>4, <1>5, <1>6, LengthAssumption DEF NextIn
  <2> QED BY <1>1, <1>2, <2>1, LengthAssumption DEF After, NextByte
<1>11. Consecutive' BY <1>1, <1>4, <1>10, ReadKeepsOrder
<1> QED BY <1>4, <1>7, <1>8, <1>9, <1>11 DEF SInv

LEMMA ReadImageEnds ==
  ASSUME SInv, Up!Reads, InputBytesNeeded = 1, Mode = "Image"
  PROVE  SInv' /\ shown' = Append(shown, Up!Data(Current)) /\ Len(shown) < Len(size) /\ size' = size
<1> DEFINE buffer == Append(InputBuffer, Head(wire))
<1>1. NextByte BY ReadsNext
<1>2. /\ NextIn = <<Current, HeaderLen + size[Current]>> /\ Len(InputBuffer) = size[Current] - 1
      /\ Current \in 1 .. Len(size) /\ HeaderLen \in Nat /\ HeaderLen > 0
  <2>1. HeaderLen \in Nat /\ HeaderLen > 0 BY LengthAssumption
  <2>2. Len(InputBuffer) + 1 = size[Current] BY DEF SInv, Framing
  <2>3. NextIn = <<Current, HeaderLen + Len(InputBuffer) + 1>> BY DEF NextIn
  <2>4. HeaderLen + Len(InputBuffer) + 1 = HeaderLen + size[Current] BY <1>1, <2>1, <2>2 DEF NextByte
  <2>5. Len(InputBuffer) = size[Current] - 1 BY <1>1, <2>2 DEF NextByte
  <2> QED BY <1>1, <2>1, <2>3, <2>4, <2>5 DEF NextByte
<1>3. /\ receiverOpen /\ wire' = Tail(wire) /\ Mode' = "ImageSize" /\ InputBuffer' = <<>>
      /\ InputBytesNeeded' = HeaderLen /\ shown' = Append(shown, buffer)
      /\ UNCHANGED <<senderOpen, receiverOpen, size, sending, written>>
  BY DEF Up!Reads, Up!Completes, Up!ResetFraming, Up!sender
<1>4. buffer = Up!Data(Current) /\ buffer \in Seq(Up!Byte)
  <2>1. /\ buffer \in Seq(Up!Byte) /\ Len(buffer) = size[Current]
        /\ \A i \in 1 .. Len(InputBuffer) : buffer[i] = InputBuffer[i]
        /\ buffer[Len(InputBuffer) + 1] = NextIn
    <3>1. /\ InputBuffer \in Seq(Up!Byte) /\ NextIn \in Up!Byte /\ Head(wire) = NextIn
          /\ Len(InputBuffer) + 1 = size[Current]
      <4>1. InputBuffer \in Seq(Up!Byte) BY DEF SInv, DataTypes
      <4>2. NextIn \in Up!Byte /\ Head(wire) = NextIn BY <1>1 DEF NextByte
      <4>3. Len(InputBuffer) + 1 = size[Current] BY <1>1, <1>2 DEF NextByte
      <4> QED BY <4>1, <4>2, <4>3
    <3>2. /\ Append(InputBuffer, NextIn) \in Seq(Up!Byte)
          /\ Len(Append(InputBuffer, NextIn)) = Len(InputBuffer) + 1
          /\ \A i \in 1 .. Len(InputBuffer) : Append(InputBuffer, NextIn)[i] = InputBuffer[i]
          /\ Append(InputBuffer, NextIn)[Len(InputBuffer) + 1] = NextIn
      BY <3>1, AppendProperties
    <3>3. buffer = Append(InputBuffer, NextIn) BY <3>1
    <3> HIDE DEF buffer
    <3> QED BY <3>1, <3>2, <3>3
  <2>2. \A i \in 1 .. size[Current] : buffer[i] = <<Current, HeaderLen + i>>
    <3> SUFFICES ASSUME NEW i \in 1 .. size[Current] PROVE buffer[i] = <<Current, HeaderLen + i>>
      OBVIOUS
    <3>1. CASE i = size[Current] BY <1>1, <1>2, <2>1, <3>1 DEF NextByte
    <3>2. CASE i # size[Current]
      <4>1. i \in 1 .. Len(InputBuffer) BY <1>1, <1>2, <3>2 DEF NextByte
      <4> QED BY <2>1, <4>1 DEF SInv, Framing
    <3> QED BY <3>1, <3>2
  <2>3. buffer = [i \in 1 .. size[Current] |-> buffer[i]] BY <2>1, LenProperties
  <2> HIDE DEF buffer
  <2> QED BY <2>1, <2>2, <2>3 DEF Up!Data
<1> HIDE DEF buffer
<1>5. /\ shown' \in Seq(Seq(Up!Byte)) /\ Len(shown') = Len(shown) + 1
      /\ \A k \in 1 .. Len(shown) : shown'[k] = shown[k]
      /\ shown'[Len(shown) + 1] = Up!Data(Current)
  BY <1>3, <1>4, AppendProperties DEF SInv, DataTypes
<1>6. Len(InputBuffer') = 0 /\ InputBuffer' \in Seq(Up!Byte) BY <1>3, EmptySeq
<1>7. DataTypes' BY <1>1, <1>2, <1>3, <1>5, <1>6 DEF SInv, DataTypes, NextByte
<1>8. Framing'
  <2>1. Len(shown') <= Len(size) BY <1>1, <1>2, <1>5 DEF NextByte
  <2>2. ASSUME NEW k \in 1 .. Len(shown') PROVE shown'[k] = Up!Data(k)
    <3>1. CASE k = Len(shown) + 1 BY <1>1, <1>5, <3>1 DEF NextByte
    <3>2. CASE k # Len(shown) + 1
      <4>1. k \in 1 .. Len(shown) BY <1>1, <1>5, <3>2 DEF NextByte
      <4> QED BY <1>5, <4>1 DEF SInv, Framing
    <3> QED BY <3>1, <3>2
  <2>3. \A k \in 1 .. Len(shown') : shown'[k] = Up!Data(k)' BY <1>3, <2>2 DEF Up!Data
  <2> QED BY <1>2, <1>3, <1>6, <2>1, <2>3 DEF Framing
<1>9. Fresh' /\ StillWriting' BY <1>3 DEF SInv, Fresh, StillWriting
<1>10. NextIn' = After(NextIn)
  <2>1. NextIn' = <<Current + 1, 1>> BY <1>1, <1>3, <1>5, <1>6 DEF NextIn, Current, NextByte
  <2> QED BY <1>1, <1>2, <2>1 DEF After, NextByte
<1>11. Consecutive' BY <1>1, <1>3, <1>10, ReadKeepsOrder
<1>12. Len(shown) < Len(size) BY <1>1 DEF NextByte
<1> QED BY <1>3, <1>4, <1>7, <1>8, <1>9, <1>11, <1>12 DEF SInv

-----------------------------------------------------------------------------
(* The server drives the stream by these steps only.                       *)

LEMMA ServerStreams == [Next]_vars => Streaming \/ UNCHANGED stream
<1> SUFFICES ASSUME [Next]_vars PROVE Streaming \/ UNCHANGED stream OBVIOUS
<1>1. EndsStream => Streaming \/ UNCHANGED stream BY DEF EndsStream, Streaming
<1>2. CleanUpClosedConnection => EndsStream BY DEF CleanUpClosedConnection
<1>3. CASE UNCHANGED vars BY <1>3 DEF vars
<1>4. CASE StartVideoServer \/ StopVideoServer \/ Joined
  BY <1>4 DEF StartVideoServer, StopVideoServer, Joined
<1>5. CASE StartFails \/ Listens \/ BindFails \/ Binds
  BY <1>5 DEF StartFails, Listens, BindFails, Binds
<1>6. CASE EndLoop \/ Breaks \/ ReadsNothing \/ SeesClose
  BY <1>1, <1>2, <1>6 DEF EndLoop, Breaks, ReadsNothing, SeesClose, Leaves
<1>7. CASE EchoCloses \/ TimerWriteFails \/ TimerFindsNoPeer
  BY <1>1, <1>2, <1>7 DEF EchoCloses, TimerWriteFails, TimerFindsNoPeer
<1>8. CASE AcceptStep BY <1>8 DEF AcceptStep, AcceptConn, AcceptEcho, AcceptBreaks, Streaming
<1>9. CASE ReadsConn \/ ClientStep BY <1>9 DEF ReadsConn, ClientStep, Streaming
<1>10. ASSUME NEW c \in Client, Refuse(c) \/ Calls(c) PROVE UNCHANGED stream
  BY <1>10 DEF Refuse, Calls
<1> QED BY <1>3, <1>4, <1>5, <1>6, <1>7, <1>8, <1>9, <1>10 DEF Next, ThreadStep

LEMMA StreamStep == SInv /\ (Streaming \/ UNCHANGED stream) => SInv'
<1> SUFFICES ASSUME SInv, Streaming \/ UNCHANGED stream PROVE SInv' OBVIOUS
<1>1. CASE UNCHANGED stream BY <1>1, NoByteStream DEF stream
<1>2. CASE Up!Reads BY <1>2, ReadInside, ReadSizeEnds, ReadImageEnds DEF SInv, DataTypes
<1> QED BY <1>1, <1>2, ConnectStream, CloseStream, SenderStream DEF Streaming

LEMMA StreamInvariance == Spec => []SInv
<1>1. Init => SInv BY InitStream DEF Init
<1>2. SInv /\ [Next]_vars => SInv' BY ServerStreams, StreamStep
<1>3. Spec => Init /\ [][Next]_vars BY PTL DEF Spec
<1> QED BY <1>1, <1>2, <1>3, PTL

-----------------------------------------------------------------------------
(* And so it is the channel of ImageChannel.                               *)

Taken == [k \in DOMAIN size |-> Up!Data(k)]

LEMMA TakenSeq ==
  ASSUME SInv
  PROVE  /\ Len(size) \in Nat /\ DOMAIN size = 1 .. Len(size)
         /\ Taken \in Seq(Seq(Up!Byte)) /\ Len(Taken) = Len(size)
         /\ \A k \in 1 .. Len(size) : Taken[k] = Up!Data(k) /\ size[k] \in 0 .. MaxSize
<1>1. size \in Seq(0 .. MaxSize) /\ MaxSize \in Nat /\ HeaderLen \in Nat
  BY LengthAssumption DEF SInv, DataTypes
<1>2. Len(size) \in Nat /\ DOMAIN size = 1 .. Len(size)
      /\ \A k \in 1 .. Len(size) : size[k] \in 0 .. MaxSize
  BY <1>1, LenProperties
<1>3. ASSUME NEW k \in 1 .. Len(size) PROVE Up!Data(k) \in Seq(Up!Byte)
  <2>1. size[k] \in Nat BY <1>1, <1>2
  <2>2. \A j \in 1 .. size[k] : <<k, HeaderLen + j>> \in Up!Byte BY <1>1, <1>2, <2>1 DEF Up!Byte
  <2>3. Up!Data(k) \in [1 .. size[k] -> Up!Byte] BY <2>2 DEF Up!Data
  <2> QED BY <2>1, <2>3, IsASeq
<1>4. Taken \in [1 .. Len(size) -> Seq(Up!Byte)] BY <1>2, <1>3 DEF Taken
<1>5. Taken \in Seq(Seq(Up!Byte)) BY <1>2, <1>4, IsASeq
<1>6. Len(Taken) = Len(size) BY <1>2, <1>4, <1>5, LenProperties
<1> QED BY <1>2, <1>4, <1>5, <1>6 DEF Taken

TakenShape ==
  /\ Len(size) \in Nat /\ Taken \in Seq(Seq(Up!Byte)) /\ Len(Taken) = Len(size)
  /\ \A k \in 1 .. Len(size) : Taken[k] = Up!Data(k)

LEMMA TakenSeqNext == SInv' => TakenShape'
<1>1. SInv => TakenShape BY TakenSeq DEF TakenShape
<1> QED BY <1>1, PTL

LEMMA TakesPicture ==
  ASSUME SInv, SInv', NEW n \in 0 .. MaxSize, Up!TakesFrame(n)
  PROVE  Up!Channel!Next
<1> DEFINE image == [j \in 1 .. n |-> <<Len(size) + 1, HeaderLen + j>>]
<1>1. /\ Len(size) < MaxImages /\ size' = Append(size, n) /\ shown' = shown
  BY DEF Up!TakesFrame, Up!receiver
<1>2. /\ Len(size) \in Nat /\ Len(size') = Len(size) + 1
      /\ \A k \in 1 .. Len(size) : size'[k] = size[k]
      /\ size'[Len(size) + 1] = n
  BY <1>1, TakenSeq, AppendProperties DEF SInv, DataTypes
<1>3. image \in Up!Picture
  <2>1. Len(size) + 1 \in 1 .. MaxImages BY <1>1, <1>2, LengthAssumption
  <2> QED BY <2>1 DEF Up!Picture
<1>4. Taken' = Append(Taken, image)
  <2>1. \A k \in {Len(size) + 1} : Up!Data(k)' = image BY <1>2 DEF Up!Data
  <2>2. \A k \in 1 .. Len(size) : Up!Data(k)' = Up!Data(k) BY <1>2 DEF Up!Data
  <2>3. /\ Taken \in Seq(Seq(Up!Byte)) /\ Len(Taken) = Len(size)
        /\ \A k \in 1 .. Len(size) : Taken[k] = Up!Data(k)
    BY TakenSeq
  <2>4. /\ Taken' \in Seq(Seq(Up!Byte)) /\ Len(Taken') = Len(size) + 1
        /\ \A k \in 1 .. (Len(size) + 1) : Taken'[k] = Up!Data(k)'
    BY <1>2, TakenSeqNext DEF TakenShape
  <2>5. Taken'[Len(size) + 1] = image BY <1>2, <2>1, <2>4
  <2>6. image \in Seq(Up!Byte)
    <3>1. Taken'[Len(size) + 1] \in Seq(Up!Byte) BY <1>2, <2>4
    <3> QED BY <2>5, <3>1
  <2> HIDE DEF image
  <2>7. /\ Append(Taken, image) \in Seq(Seq(Up!Byte))
        /\ Len(Append(Taken, image)) = Len(size) + 1
        /\ \A k \in 1 .. Len(size) : Append(Taken, image)[k] = Taken[k]
        /\ Append(Taken, image)[Len(size) + 1] = image
    BY <2>3, <2>6, AppendProperties
  <2>8. \A k \in 1 .. (Len(size) + 1) : Taken'[k] = Append(Taken, image)[k]
    BY <1>2, <2>2, <2>3, <2>4, <2>5, <2>7
  <2> QED BY <2>4, <2>7, <2>8, SeqEqual
<1> HIDE DEF image
<1> QED BY <1>1, <1>3, <1>4 DEF Up!Channel!Next, Up!Channel!Take, Taken

LEMMA ShowsPicture ==
  ASSUME SInv, Up!Reads
  PROVE  [Up!Channel!Next]_<<Taken, shown>>
<1>1. CASE UNCHANGED <<size, shown>> BY <1>1 DEF Taken, Up!Data
<1>2. CASE /\ shown' = Append(shown, Up!Data(Current)) /\ Len(shown) < Len(size) /\ size' = size
  <2>1. Taken' = Taken BY <1>2 DEF Taken, Up!Data
  <2>2. Len(Taken) = Len(size) /\ Taken[Len(shown) + 1] = Up!Data(Current)
    <3>1. Len(shown) \in Nat BY LenProperties DEF SInv, DataTypes
    <3> QED BY <1>2, <3>1, TakenSeq DEF Current
  <2> QED BY <1>2, <2>1, <2>2 DEF Up!Channel!Next, Up!Channel!Show, Taken
<1> QED BY <1>1, <1>2, ReadInside, ReadSizeEnds, ReadImageEnds DEF SInv, DataTypes

LEMMA ChannelStep ==
  SInv /\ SInv' /\ (Streaming \/ UNCHANGED stream) => [Up!Channel!Next]_<<Taken, shown>>
<1> SUFFICES ASSUME SInv, SInv', Streaming \/ UNCHANGED stream
             PROVE  [Up!Channel!Next]_<<Taken, shown>>
  OBVIOUS
<1>1. UNCHANGED <<size, shown>> => UNCHANGED <<Taken, shown>> BY DEF Taken, Up!Data
<1>2. CASE Up!Connects
  <2>1. size' = <<>> /\ shown' = <<>> BY <1>2 DEF Up!Connects
  <2>2. Taken' = <<>> BY <2>1, TakenSeqNext, EmptySeq DEF TakenShape
  <2> QED BY <2>1, <2>2 DEF Up!Channel!Next, Up!Channel!NewConnection, Taken
<1>3. ASSUME NEW n \in 0 .. MaxSize, Up!TakesFrame(n) PROVE Up!Channel!Next
  BY <1>3, TakesPicture
<1>4. CASE Up!Writes \/ Up!WouldBlock \/ Up!SendFails \/ Up!SenderCloses
  BY <1>1, <1>4 DEF Up!Writes, Up!WouldBlock, Up!SendFails, Up!SenderCloses, Up!GivesUp, Up!receiver
<1>5. CASE Up!Reads BY <1>5, ShowsPicture
<1>6. CASE Up!Closes BY <1>1, <1>6 DEF Up!Closes, Up!sender
<1>7. CASE UNCHANGED stream BY <1>1, <1>7 DEF stream
<1> QED BY <1>2, <1>3, <1>4, <1>5, <1>6, <1>7 DEF Streaming, Up!SenderStep

\* Whatever the lengths, what the server displays of a connection is the images
\* that its caller took, whole and in that order (VideoServer.cpp 335-376,
\* TcpSendRecv.cpp 47-73).
THEOREM ImagesWhole == Spec => ImagesArriveWhole
<1>1. Init => Up!Channel!Init
  <2> SUFFICES ASSUME Init PROVE Up!Channel!Init OBVIOUS
  <2>1. size = <<>> /\ shown = <<>> BY DEF Init, Up!Init
  <2>2. Taken = <<>> BY <2>1, InitStream, TakenSeq, EmptySeq DEF Init
  <2> QED BY <2>1, <2>2 DEF Up!Channel!Init, Taken
<1>2. SInv /\ SInv' /\ [Next]_vars => [Up!Channel!Next]_<<Taken, shown>>
  BY ServerStreams, ChannelStep
<1>3. Spec => Init /\ [][Next]_vars BY PTL DEF Spec
<1>4. Up!Channel!Init /\ [][Up!Channel!Next]_<<Taken, shown>> => ImagesArriveWhole
  BY PTL DEF ImagesArriveWhole, Up!ImplementsChannel, Up!Channel!Spec, Taken
<1> QED BY <1>1, <1>2, <1>3, <1>4, StreamInvariance, PTL
-----------------------------------------------------------------------------
(* Types.  The booleans are apart: they are assigned formulas.             *)

ServerTypes ==
  /\ pc \in {"none", "starting", "binding", "looping", "breaking", "ended"}
  /\ hEnd \in {"none", "clear", "set"}
  /\ backlog \subseteq Client /\ NumEvents \in {2, 3, 4}
  /\ calls \in 0 .. MaxCalls /\ starts \in 0 .. MaxStarts

Flags ==
  /\ hThread \in BOOLEAN /\ joining \in BOOLEAN /\ listening \in BOOLEAN /\ echo \in BOOLEAN
  /\ RealConnectionActive \in BOOLEAN /\ devices \in BOOLEAN /\ missed \in BOOLEAN

StreamTypes ==
  /\ senderOpen \in BOOLEAN /\ receiverOpen \in BOOLEAN
  /\ sendbuff \in 0 .. MaxSize /\ retry_count \in 0 .. Retries

Types == ServerTypes /\ Flags /\ StreamTypes

LEMMA InitTypes == Init => Types
<1> SUFFICES ASSUME Init PROVE Types OBVIOUS
<1>1. ServerTypes BY BoundsAssumption DEF Init, ServerTypes
<1>2. Flags BY DEF Init, Flags
<1>3. StreamTypes
  <2>1. 0 \in 0 .. Retries BY LengthAssumption
  <2>2. senderOpen = FALSE /\ receiverOpen = FALSE /\ sendbuff \in 0 .. MaxSize /\ retry_count = 0
    BY DEF Init, Up!Init
  <2> QED BY <2>1, <2>2 DEF StreamTypes
<1> QED BY <1>1, <1>2, <1>3 DEF Types

LEMMA StreamTypesHold == StreamTypes /\ (Streaming \/ UNCHANGED stream) => StreamTypes'
<1> SUFFICES ASSUME StreamTypes, Streaming \/ UNCHANGED stream PROVE StreamTypes' OBVIOUS
<1> USE LengthAssumption DEF StreamTypes
<1>1. CASE UNCHANGED stream BY <1>1 DEF stream
<1>2. CASE Up!Connects BY <1>2 DEF Up!Connects
<1>3. CASE Up!Closes BY <1>3 DEF Up!Closes, Up!sender
<1>4. CASE Up!Reads BY <1>4 DEF Up!Reads, Up!sender
<1>5. ASSUME NEW n \in 0 .. MaxSize, Up!TakesFrame(n) PROVE StreamTypes'
  BY <1>5 DEF Up!TakesFrame, Up!receiver
<1>6. CASE Up!Writes BY <1>6 DEF Up!Writes, Up!receiver
<1>7. CASE Up!WouldBlock
  <2>1. CASE retry_count + 1 > Retries
    BY <1>7, <2>1 DEF Up!WouldBlock, Up!GivesUp, Up!receiver
  <2>2. CASE ~ (retry_count + 1 > Retries)
    <3>1. /\ retry_count' = retry_count + 1
          /\ UNCHANGED <<senderOpen, sendbuff, receiverOpen>>
      BY <1>7, <2>2 DEF Up!WouldBlock, Up!receiver
    <3>2. retry_count' \in 0 .. Retries BY <2>2, <3>1
    <3> QED BY <3>1, <3>2
  <2> QED BY <2>1, <2>2
<1>8. CASE Up!SendFails \/ Up!SenderCloses
  BY <1>8 DEF Up!SendFails, Up!SenderCloses, Up!GivesUp, Up!receiver
<1> QED BY <1>1, <1>2, <1>3, <1>4, <1>5, <1>6, <1>7, <1>8 DEF Streaming, Up!SenderStep

LEMMA ServerTypesHold == ServerTypes /\ [Next]_vars => ServerTypes'
<1> SUFFICES ASSUME ServerTypes, [Next]_vars PROVE ServerTypes' OBVIOUS
<1> USE BoundsAssumption DEF ServerTypes, control, service, counts, VideoServerCleanup
<1>1. CASE UNCHANGED vars BY <1>1 DEF vars
<1>2. CASE StartVideoServer BY <1>2 DEF StartVideoServer
<1>3. CASE StopVideoServer BY <1>3 DEF StopVideoServer
<1>4. CASE Joined BY <1>4 DEF Joined
<1>5. CASE StartFails \/ Listens \/ BindFails \/ Binds
  BY <1>5 DEF StartFails, Listens, BindFails, Binds
<1>6. CASE Leaves BY <1>6 DEF Leaves, CleanUpClosedConnection
<1>7. CASE EndLoop \/ Breaks \/ ReadsNothing BY <1>6, <1>7 DEF EndLoop, Breaks, ReadsNothing
<1>8. CASE SeesClose \/ EchoCloses \/ TimerWriteFails \/ TimerFindsNoPeer
  BY <1>8 DEF SeesClose, EchoCloses, TimerWriteFails, TimerFindsNoPeer, CleanUpClosedConnection
<1>9. CASE AcceptStep BY <1>9 DEF AcceptStep, AcceptConn, AcceptEcho, AcceptBreaks, Takes
<1>10. CASE ReadsConn \/ ClientStep BY <1>10 DEF ReadsConn, ClientStep
<1>11. ASSUME NEW c \in Client, Refuse(c) \/ Calls(c) PROVE ServerTypes'
  BY <1>11 DEF Refuse, Calls
<1> QED
  BY <1>1, <1>2, <1>3, <1>4, <1>5, <1>7, <1>8, <1>9, <1>10, <1>11 DEF Next, ThreadStep

LEMMA FlagsHold == Flags /\ [Next]_vars => Flags'
<1> SUFFICES ASSUME Flags, [Next]_vars PROVE Flags' OBVIOUS
<1> USE DEF Flags, control, service, counts, VideoServerCleanup
<1>1. CASE UNCHANGED vars BY <1>1 DEF vars
<1>2. CASE StartVideoServer BY <1>2 DEF StartVideoServer
<1>3. CASE StopVideoServer BY <1>3, ZenonT(20) DEF StopVideoServer
<1>4. CASE Joined BY <1>4 DEF Joined
<1>5. CASE StartFails \/ Listens \/ BindFails \/ Binds
  BY <1>5 DEF StartFails, Listens, BindFails, Binds
<1>6. CASE CleanUpClosedConnection /\ UNCHANGED <<hThread, joining, missed>>
           /\ (UNCHANGED listening \/ VideoServerCleanup)
  <2>1. devices' \in BOOLEAN BY <1>6, ZenonT(20) DEF CleanUpClosedConnection
  <2> QED BY <1>6, <2>1 DEF CleanUpClosedConnection
<1>7. CASE EndLoop \/ Breaks \/ ReadsNothing
  BY <1>6, <1>7 DEF EndLoop, Breaks, ReadsNothing, Leaves
<1>8. CASE SeesClose \/ EchoCloses \/ TimerWriteFails \/ TimerFindsNoPeer
  BY <1>6, <1>8 DEF SeesClose, EchoCloses, TimerWriteFails, TimerFindsNoPeer
<1>9. CASE AcceptStep
  <2> SUFFICES ASSUME NEW c \in Client, NEW got \in BOOLEAN,
                      \/ AcceptConn(c, got) \/ AcceptEcho(c, got)
                      \/ \E started \in BOOLEAN : AcceptBreaks(c, got, started)
               PROVE  Flags'
    BY <1>9 DEF AcceptStep
  <2>1. CASE AcceptConn(c, got) BY <2>1 DEF AcceptConn
  <2>2. CASE AcceptEcho(c, got)
    <3>1. echo' = TRUE /\ UNCHANGED <<hThread, joining, listening, RealConnectionActive, devices, missed>>
      BY <2>2 DEF AcceptEcho
    <3> QED BY <3>1
  <2>3. ASSUME NEW started \in BOOLEAN, AcceptBreaks(c, got, started) PROVE Flags'
    <3>1. devices' \in BOOLEAN /\ RealConnectionActive' \in BOOLEAN
      BY <2>3, ZenonT(20) DEF AcceptBreaks
    <3> QED BY <2>3, <3>1 DEF AcceptBreaks
  <2> QED BY <2>1, <2>2, <2>3
<1>10. CASE ReadsConn \/ ClientStep BY <1>10 DEF ReadsConn, ClientStep
<1>11. ASSUME NEW c \in Client, Refuse(c) \/ Calls(c) PROVE Flags'
  BY <1>11 DEF Refuse, Calls
<1> QED
  BY <1>1, <1>2, <1>3, <1>4, <1>5, <1>7, <1>8, <1>9, <1>10, <1>11 DEF Next, ThreadStep

LEMMA TypesHold == Spec => []Types
<1>1. Types /\ [Next]_vars => Types'
  BY ServerTypesHold, FlagsHold, StreamTypesHold, ServerStreams DEF Types
<1>2. Spec => Init /\ [][Next]_vars BY PTL DEF Spec
<1> QED BY InitTypes, <1>1, <1>2, PTL

\* The variables keep their types, for every bound and length.
THEOREM TypeCorrect == Spec => []TypeOK
<1>1. Types /\ IInv /\ SInv => TypeOK
  BY DEF Types, ServerTypes, Flags, StreamTypes, IInv, Counted, SInv, DataTypes, TypeOK, Up!TypeOK
<1> QED BY TypesHold, Invariance, StreamInvariance, <1>1, PTL
-----------------------------------------------------------------------------
(* A stop ends.  Fairness asks of a step only that it is taken if it stays *)
(* enabled, and what is enabled is beyond the provers: that is the         *)
(* hypothesis StopCanProceed, an invariant that TLC checks.  What is left  *)
(* is that each step brings the wait nearer to its end, and that nothing   *)
(* anybody else does takes it back.                                        *)

Created == {"binding", "looping", "breaking"}

\* A stop that found the end event has set it, and nobody clears it again while
\* the thread has yet to look at it.
StopIsHeard ==
  /\ pc \in Created => hEnd # "none"
  /\ joining /\ ~missed => pc = "ended" \/ (pc \in Created /\ hEnd = "set")

LEMMA OutsideLoopKeeps ==
  ASSUME NEW c \in Client, Refuse(c) \/ Calls(c) PROVE UNCHANGED <<control, missed>>
BY DEF Refuse, Calls, counts

LEMMA AcceptKeeps ==
  AcceptStep => pc = "looping" /\ hEnd # "set" /\ pc' \in Created
                /\ UNCHANGED <<hEnd, joining, missed>>
BY DEF AcceptStep, AcceptConn, AcceptEcho, AcceptBreaks, Serves, control, counts, Created

LEMMA LeavesEnds == Leaves => pc' = "ended" /\ UNCHANGED <<joining, missed>>
BY DEF Leaves, counts

LEMMA ServiceKeeps ==
  SeesClose \/ EchoCloses \/ TimerWriteFails \/ TimerFindsNoPeer \/ ReadsConn \/ ClientStep
    => UNCHANGED <<control, missed>>
BY DEF SeesClose, EchoCloses, TimerWriteFails, TimerFindsNoPeer, ReadsConn, ClientStep, counts

\* What is neither the GUI thread's nor the server thread's way on.
LEMMA OthersKeep ==
  [Next]_vars => \/ StartVideoServer \/ StopVideoServer \/ Joined
                 \/ ThreadStep \/ ReadsNothing
                 \/ UNCHANGED <<joining, missed, pc>>
<1>1. UNCHANGED vars => UNCHANGED <<joining, missed, pc>> BY DEF vars, control, counts
<1>2. UNCHANGED control => UNCHANGED <<joining, pc>> BY DEF control
<1> QED BY <1>1, <1>2, OutsideLoopKeeps, ServiceKeeps DEF Next

LEMMA HeardStep == IInv /\ ServerTypes /\ StopIsHeard /\ [Next]_vars => StopIsHeard'
<1> SUFFICES ASSUME IInv, ServerTypes, StopIsHeard, [Next]_vars PROVE StopIsHeard' OBVIOUS
<1> USE DEF StopIsHeard, Created
<1>1. CASE UNCHANGED <<control, missed>> BY <1>1 DEF control
<1>2. CASE StartVideoServer BY <1>2 DEF StartVideoServer
<1>3. CASE StopVideoServer
  <2>1. pc # "none" /\ pc' = pc /\ hEnd' = (IF hEnd = "none" THEN "none" ELSE "set")
    BY <1>3 DEF StopVideoServer, IInv, HandleOfThread
  <2>2. ~missed' => pc # "starting" BY <1>3 DEF StopVideoServer
  <2> QED BY <2>1, <2>2 DEF ServerTypes
<1>4. CASE Joined BY <1>4 DEF Joined
<1>5. CASE StartFails \/ BindFails \/ Binds
  BY <1>5 DEF StartFails, BindFails, Binds, counts
<1>6. CASE Listens BY <1>6 DEF Listens, counts
<1>7. CASE Leaves BY <1>7, LeavesEnds
<1>8. CASE AcceptStep BY <1>8, AcceptKeeps
<1> QED
  BY <1>1, <1>2, <1>3, <1>4, <1>5, <1>6, <1>7, <1>8, OutsideLoopKeeps, ServiceKeeps
     DEF Next, ThreadStep, EndLoop, Breaks, ReadsNothing, vars, counts

LEMMA HeardInvariance == Spec => [](IInv /\ StopIsHeard)
<1>1. Init => StopIsHeard BY DEF Init, StopIsHeard, Created
<1>2. Types => ServerTypes BY DEF Types
<1>3. Spec => Init /\ [][Next]_vars BY PTL DEF Spec
<1> QED
  BY <1>1, <1>2, <1>3, Invariance, TypesHold, HeardStep, PTL

\* A stop that came in time is never forgotten: until it returns, its event is
\* set or the thread has ended (VideoServer.cpp 47-57, 136, 440-444).
THEOREM StopsAreHeard == Spec => []StopIsHeard
BY HeardInvariance, PTL

\* The three stages of a thread that is to end.
ToEnterLoop == joining /\ ~missed /\ pc = "binding"
ToLeaveLoop == joining /\ ~missed /\ pc \in {"looping", "breaking"}
ToBeJoined  == joining /\ ~missed /\ pc = "ended"

LEMMA LoopIsLeft ==
  ASSUME StopIsHeard, ToLeaveLoop, [Next]_vars
  PROVE  /\ ToLeaveLoop' \/ ToBeJoined'
         /\ ThreadStep => ToBeJoined'
<1> USE DEF ToLeaveLoop, ToBeJoined, StopIsHeard
<1>1. joining /\ ~missed /\ hEnd = "set" /\ pc \in {"looping", "breaking"} OBVIOUS
<1>2. ~AcceptStep BY <1>1, AcceptKeeps
<1>3. ~ReadsNothing /\ ~SeesClose /\ ~TimerFindsNoPeer
  BY <1>1 DEF ReadsNothing, SeesClose, TimerFindsNoPeer, ServesImages, Serves
<1>4. ~(StartVideoServer \/ StopVideoServer \/ Joined)
  BY <1>1 DEF StartVideoServer, StopVideoServer, Joined
<1>5. ~(StartFails \/ Listens \/ BindFails \/ Binds)
  BY <1>1 DEF StartFails, Listens, BindFails, Binds
<1>6. ASSUME NEW c \in Client PROVE ~Refuse(c) BY <1>1 DEF Refuse, Serves
<1>7. EndLoop \/ Breaks => joining' /\ ~missed' /\ pc' = "ended"
  BY <1>1, LeavesEnds DEF EndLoop, Breaks
<1>8. ThreadStep => EndLoop \/ Breaks BY <1>2, <1>3, <1>5, <1>6 DEF ThreadStep
<1>9. ~ThreadStep => UNCHANGED <<joining, missed, pc>>
  BY <1>3, <1>4, OthersKeep
<1>10. ~ThreadStep => joining' /\ ~missed' /\ pc' \in {"looping", "breaking"} BY <1>1, <1>9
<1> QED BY <1>7, <1>8, <1>10

LEMMA LoopIsEntered ==
  ASSUME ToEnterLoop, [Next]_vars
  PROVE  /\ ToEnterLoop' \/ ToLeaveLoop' \/ ToBeJoined'
         /\ ThreadStep => ToLeaveLoop' \/ ToBeJoined'
<1> USE DEF ToEnterLoop, ToLeaveLoop, ToBeJoined
<1>1. joining /\ ~missed /\ pc = "binding" OBVIOUS
<1>2. ~AcceptStep BY <1>1, AcceptKeeps
<1>3. ~ReadsNothing /\ ~SeesClose /\ ~TimerFindsNoPeer
  BY <1>1 DEF ReadsNothing, SeesClose, TimerFindsNoPeer, ServesImages, Serves
<1>4. ~(StartVideoServer \/ StopVideoServer \/ Joined)
  BY <1>1 DEF StartVideoServer, StopVideoServer, Joined
<1>5. ~(StartFails \/ Listens \/ EndLoop \/ Breaks)
  BY <1>1 DEF StartFails, Listens, EndLoop, Breaks
<1>6. ASSUME NEW c \in Client PROVE ~Refuse(c) BY <1>1 DEF Refuse, Serves
<1>7. BindFails \/ Binds => joining' /\ ~missed' /\ pc' \in {"looping", "ended"}
  <2>1. BindFails \/ Binds => UNCHANGED <<joining, missed>> /\ pc' \in {"looping", "ended"}
    BY DEF BindFails, Binds, counts
  <2> QED BY <1>1, <2>1
<1>8. ThreadStep => BindFails \/ Binds BY <1>2, <1>3, <1>5, <1>6 DEF ThreadStep
<1>9. ~ThreadStep => UNCHANGED <<joining, missed, pc>>
  BY <1>3, <1>4, OthersKeep
<1>10. ~ThreadStep => joining' /\ ~missed' /\ pc' = "binding" BY <1>1, <1>9
<1> QED BY <1>7, <1>8, <1>10

LEMMA ThreadIsJoined ==
  ASSUME ToBeJoined, [Next]_vars
  PROVE  /\ ToBeJoined' \/ ~joining'
         /\ Joined => ~joining'
<1> USE DEF ToBeJoined
<1>1. joining /\ ~missed /\ pc = "ended" OBVIOUS
<1>2. ~AcceptStep BY <1>1, AcceptKeeps
<1>3. ~ReadsNothing BY <1>1 DEF ReadsNothing, ServesImages, Serves
<1>4. ~(StartVideoServer \/ StopVideoServer) BY <1>1 DEF StartVideoServer, StopVideoServer
<1>5. ~(StartFails \/ Listens \/ BindFails \/ Binds \/ EndLoop \/ Breaks)
  BY <1>1 DEF StartFails, Listens, BindFails, Binds, EndLoop, Breaks
<1>6. Joined => ~joining' BY DEF Joined
<1>7. ~Joined => UNCHANGED <<joining, missed, pc>>
  <2>1. ASSUME NEW c \in Client, Refuse(c) PROVE UNCHANGED <<joining, missed, pc>>
    BY <2>1, OutsideLoopKeeps DEF control
  <2>2. SeesClose \/ TimerFindsNoPeer => UNCHANGED <<joining, missed, pc>>
    BY ServiceKeeps DEF control
  <2> QED BY <1>2, <1>3, <1>4, <1>5, <2>1, <2>2, OthersKeep DEF ThreadStep
<1>8. ~Joined => joining' /\ ~missed' /\ pc' = "ended" BY <1>1, <1>7
<1> QED BY <1>6, <1>8

\* StopVideoServer returns if it did not come before the event it sets
\* (VideoServer.cpp 47-57, 136), whatever callers and their images do, and
\* whatever the bounds: provided that the scheduler does not forget the thread,
\* and that TLC's StopCanProceed holds for them too.
THEOREM StopsReturn == Spec /\ []StopCanProceed => StopReturns
<1> DEFINE Inv == IInv /\ StopIsHeard
<1>1. Inv /\ ToEnterLoop /\ [Next]_vars => ToEnterLoop' \/ ToLeaveLoop' \/ ToBeJoined'
  BY LoopIsEntered
<1>2. Inv /\ ToEnterLoop /\ <<ThreadStep>>_vars => ToLeaveLoop' \/ ToBeJoined'
  BY LoopIsEntered DEF Next
<1>3. Inv /\ ToLeaveLoop /\ [Next]_vars => ToLeaveLoop' \/ ToBeJoined'
  BY LoopIsLeft
<1>4. Inv /\ ToLeaveLoop /\ <<ThreadStep>>_vars => ToBeJoined'
  BY LoopIsLeft DEF Next
<1>5. ToBeJoined /\ [Next]_vars => ToBeJoined' \/ ~joining'
  BY ThreadIsJoined
<1>6. ToBeJoined /\ <<Joined>>_vars => ~joining'
  BY ThreadIsJoined DEF Next
<1>7. Inv /\ joining /\ ~missed => ToEnterLoop \/ ToLeaveLoop \/ ToBeJoined
  BY DEF StopIsHeard, Created, ToEnterLoop, ToLeaveLoop, ToBeJoined
<1>8. StopCanProceed /\ (ToEnterLoop \/ ToLeaveLoop) => ENABLED <<ThreadStep>>_vars
  BY DEF StopCanProceed, ToEnterLoop, ToLeaveLoop
<1>9. StopCanProceed /\ ToBeJoined => ENABLED <<Joined>>_vars
  BY DEF StopCanProceed, ToBeJoined
<1> HIDE DEF Inv
<1>10. Spec => []Inv BY HeardInvariance DEF Inv
<1>11. Spec => [][Next]_vars /\ WF_vars(ThreadStep) /\ WF_vars(Joined) BY PTL DEF Spec
<1>12. /\ []Inv /\ []StopCanProceed /\ [][Next]_vars /\ WF_vars(ThreadStep) /\ WF_vars(Joined)
       => (joining /\ ~missed ~> ~joining)
  BY <1>1, <1>2, <1>3, <1>4, <1>5, <1>6, <1>7, <1>8, <1>9, PTL
<1> QED BY <1>10, <1>11, <1>12, PTL DEF StopReturns
-----------------------------------------------------------------------------
(* Seen from outside the server is a thread that is started, ends by       *)
(* itself or is stopped: it implements ThreadLife.                         *)

\* A stop that was heard is over for others: what the thread still does until
\* it is joined is not seen.
Unseen == joining /\ ~missed

Seen == <<ThreadSeen, joining /\ missed /\ pc # "ended">>

LEMMA SeenUnchanged == UNCHANGED <<joining, missed, pc>> => UNCHANGED Seen
BY DEF Seen, ThreadSeen

LEMMA UnseenStep ==
  ASSUME Unseen, Unseen'
  PROVE  UNCHANGED Seen
BY DEF Unseen, Seen, ThreadSeen

\* The thread's own steps, while they are seen.
LEMMA ThreadSteps ==
  ASSUME ~Unseen, UNCHANGED <<joining, missed>>, pc # "none",
         \/ pc = "starting" /\ pc' = "binding"
         \/ pc = "binding" /\ pc' = "looping"
         \/ pc = "looping" /\ pc' \in {"looping", "breaking"}
         \/ pc \in {"starting", "binding", "looping", "breaking"} /\ pc' = "ended"
  PROVE  Thread!Next \/ UNCHANGED Seen
BY DEF Unseen, Seen, ThreadSeen, Thread!Next, Thread!Runs, Thread!Ends

\* Those of the GUI thread.
LEMMA GuiSteps ==
  ASSUME IInv, ServerTypes, StopIsHeard, StartVideoServer \/ StopVideoServer \/ Joined
  PROVE  Thread!Next \/ UNCHANGED Seen
<1> USE DEF IInv, HandleOfThread, Seen, ThreadSeen
<1>1. CASE StartVideoServer
  <2>1. ~joining /\ pc = "none" /\ pc' = "starting" /\ UNCHANGED <<joining, missed>>
    BY <1>1 DEF StartVideoServer
  <2> QED BY <2>1 DEF Thread!Next, Thread!Start
<1>2. CASE StopVideoServer
  <2>1. ~joining /\ joining' /\ pc # "none" /\ pc' = pc /\ missed' = (pc = "starting")
    BY <1>2 DEF StopVideoServer
  <2>2. CASE pc = "starting" BY <2>1, <2>2 DEF Thread!Next, Thread!StopTooEarly
  <2>3. CASE pc # "starting" BY <2>1, <2>3 DEF Thread!Next, Thread!Stop
  <2> QED BY <2>2, <2>3
<1>3. CASE Joined
  <2>1. joining /\ pc = "ended" /\ pc' = "none" /\ ~joining' BY <1>3 DEF Joined
  <2> QED BY <2>1
<1> QED BY <1>1, <1>2, <1>3

LEMMA SeenStep ==
  ASSUME IInv, ServerTypes, StopIsHeard, [Next]_vars
  PROVE  Thread!Next \/ UNCHANGED Seen
<1>1. CASE UNCHANGED <<joining, missed, pc>> BY <1>1, SeenUnchanged
<1>2. CASE StartVideoServer \/ StopVideoServer \/ Joined BY <1>2, GuiSteps
<1>3. ASSUME UNCHANGED <<joining, missed>>, pc # "none",
             \/ pc = "starting" /\ pc' = "binding"
             \/ pc = "binding" /\ pc' = "looping"
             \/ pc = "looping" /\ pc' \in {"looping", "breaking"}
             \/ pc \in {"starting", "binding", "looping", "breaking"} /\ pc' = "ended"
      PROVE  Thread!Next \/ UNCHANGED Seen
  <2>1. CASE Unseen BY <1>3, <2>1, UnseenStep DEF Unseen
  <2>2. CASE ~Unseen BY <1>3, <2>2, ThreadSteps
  <2> QED BY <2>1, <2>2
<1>4. CASE StartFails \/ Listens \/ BindFails \/ Binds
  BY <1>3, <1>4 DEF StartFails, Listens, BindFails, Binds, counts
<1>5. CASE EndLoop \/ Breaks \/ ReadsNothing
  <2>1. pc \in {"looping", "breaking"} /\ pc' = "ended" /\ UNCHANGED <<joining, missed>>
    BY <1>5, LeavesEnds DEF EndLoop, Breaks, ReadsNothing, ServesImages, Serves
  <2> QED BY <1>3, <2>1
<1>6. CASE AcceptStep
  <2>1. pc = "looping" /\ pc' \in {"looping", "breaking"} /\ UNCHANGED <<joining, missed>>
    BY <1>6 DEF AcceptStep, AcceptConn, AcceptEcho, AcceptBreaks, Serves, control, counts
  <2> QED BY <1>3, <2>1
<1>7. ASSUME NEW c \in Client, Refuse(c) PROVE UNCHANGED <<joining, missed, pc>>
  BY <1>7, OutsideLoopKeeps DEF control
<1>8. SeesClose \/ TimerFindsNoPeer => UNCHANGED <<joining, missed, pc>>
  BY ServiceKeeps DEF control
<1> QED BY <1>1, <1>2, <1>4, <1>5, <1>6, <1>7, <1>8, OthersKeep DEF ThreadStep

\* Whatever its loop, its callers and its errors do, the server is to the rest of
\* the program one thread with a handle (VideoServer.cpp 39-57, 104-172, 439-443).
\* This is the server that each user of CallControl has.
THEOREM ServerLivesAsThread == Spec => LivesAsThread
<1>1. Init => Thread!Init BY DEF Init, Thread!Init, ThreadSeen
<1>2. IInv /\ ServerTypes /\ StopIsHeard /\ [Next]_vars
        => [Thread!Next]_<<ThreadSeen, joining /\ missed /\ pc # "ended">>
  BY SeenStep DEF Seen
<1>3. Types => ServerTypes BY DEF Types
<1>4. Spec => Init /\ [][Next]_vars BY PTL DEF Spec
<1> QED
  BY <1>1, <1>2, <1>3, <1>4, HeardInvariance, TypesHold, PTL DEF LivesAsThread, Thread!Spec
-----------------------------------------------------------------------------
(* What is left on without a caller is seen: the loop always has a branch  *)
(* to take.                                                                *)

\* In the loop, a connection that is not echoed has its stream and its slot, and
\* devices without a connection have the timer's slot.
SlotsOfLoop ==
  pc = "looping" =>
    /\ Accept # NoClient => NumEvents > 2
    /\ Accept # NoClient /\ ~echo => receiverOpen
    /\ Accept = NoClient /\ devices /\ ~echo => NumEvents = 4

LEMMA SlotsStep == IInv /\ SlotsOfLoop /\ [Next]_vars => SlotsOfLoop'
<1> SUFFICES ASSUME IInv, SlotsOfLoop, [Next]_vars, pc' = "looping" PROVE SlotsOfLoop'
  BY DEF SlotsOfLoop
<1> USE DEF SlotsOfLoop
<1>1. CASE UNCHANGED <<pc, Accept, NumEvents, echo, devices, receiverOpen>> BY <1>1
<1>2. CASE StartVideoServer \/ StopVideoServer
  BY <1>2 DEF StartVideoServer, StopVideoServer, service, stream
<1>3. CASE Joined \/ StartFails \/ Listens \/ BindFails
  BY <1>3 DEF Joined, StartFails, Listens, BindFails
<1>4. CASE Binds BY <1>4 DEF Binds, IInv, Outside, Idle
<1>5. CASE Leaves BY <1>5 DEF Leaves
<1>6. CASE CleanUpClosedConnection BY <1>6, CleansUp
<1>7. ASSUME NEW c \in Client, NEW got \in BOOLEAN, AcceptConn(c, got) PROVE SlotsOfLoop'
  <2>1. Accept' = (IF got THEN c ELSE NoClient) /\ NumEvents' = 4
    BY <1>7 DEF AcceptConn, Takes
  <2>2. got => receiverOpen' BY <1>7 DEF AcceptConn, Up!Connects
  <2> QED BY <2>1, <2>2
<1>8. ASSUME NEW c \in Client, NEW got \in BOOLEAN, AcceptEcho(c, got) PROVE SlotsOfLoop'
  <2>1. echo' = TRUE /\ NumEvents' = 3 BY <1>8 DEF AcceptEcho
  <2> QED BY <2>1
<1>9. ASSUME NEW c \in Client, NEW got \in BOOLEAN, NEW started \in BOOLEAN,
             AcceptBreaks(c, got, started)
      PROVE  FALSE
  BY <1>9 DEF AcceptBreaks
<1>10. CASE ReadsConn BY <1>10, ReadKeeps DEF ReadsConn, control, service
<1>11. CASE ClientStep BY <1>11, SenderKeeps DEF ClientStep, control, service
<1>12. ASSUME NEW c \in Client, Refuse(c) \/ Calls(c) PROVE SlotsOfLoop'
  BY <1>12 DEF Refuse, Calls, control, service, stream
<1>13. UNCHANGED vars => UNCHANGED <<pc, Accept, NumEvents, echo, devices, receiverOpen>>
  BY DEF vars, control, service, stream
<1> QED
  BY <1>1, <1>2, <1>3, <1>4, <1>5, <1>6, <1>7, <1>8, <1>9, <1>10, <1>11, <1>12, <1>13
     DEF Next, ThreadStep, AcceptStep, EndLoop, Breaks, ReadsNothing, SeesClose, EchoCloses,
         TimerWriteFails, TimerFindsNoPeer

\* A branch of the loop that ends the connection, or takes somebody out of the
\* backlog, and waits for nobody.
BranchToTake ==
  \/ pc = "breaking"
  \/ pc = "looping" /\ hEnd = "set"
  \/ Serves(1)
  \/ ServesImages /\ ~senderOpen
  \/ Serves(3) /\ Accept = NoClient

\* The camera and the voice session are never on without a caller and without
\* the thread having a branch to take that may end them (VideoServer.cpp
\* 201-330): what DevicesFollowCaller asks of every behaviour starts from there.
THEOREM AbandonedIsSeen == Spec => [](Abandoned => BranchToTake)
<1>1. Init => SlotsOfLoop BY DEF Init, SlotsOfLoop
<1>2. IInv /\ ServerTypes /\ SlotsOfLoop => (Abandoned => BranchToTake)
  <2> SUFFICES ASSUME IInv, ServerTypes, SlotsOfLoop, Abandoned, ~BranchToTake PROVE FALSE
    OBVIOUS
  <2>1. devices /\ ~echo /\ pc = "looping" /\ hEnd # "set" /\ backlog = {}
    BY DEF Abandoned, IInv, Outside, Idle, ServerTypes, BranchToTake, Serves
  <2>2. CASE Accept # NoClient
    <3>1. receiverOpen /\ NumEvents > 2 BY <2>1, <2>2 DEF SlotsOfLoop
    <3>2. ~senderOpen BY <3>1 DEF Abandoned
    <3> QED BY <2>1, <3>1, <3>2 DEF BranchToTake, ServesImages, Serves
  <2>3. CASE Accept = NoClient
    <3>1. NumEvents = 4 BY <2>1, <2>3 DEF SlotsOfLoop
    <3> QED BY <2>1, <2>3, <3>1 DEF BranchToTake, Serves
  <2> QED BY <2>2, <2>3
<1>3. Types => ServerTypes BY DEF Types
<1>4. Spec => Init /\ [][Next]_vars BY PTL DEF Spec
<1> QED BY <1>1, <1>2, <1>3, <1>4, Invariance, TypesHold, SlotsStep, PTL
-----------------------------------------------------------------------------
(* A write ends although nobody may read: what there is still to do.       *)

BytesOfImage == HeaderLen + size[Len(size)]
BytesLeft    == BytesOfImage - written

\* Every byte may be tried Retries + 1 times.
Budget == BytesLeft * (Retries + 1) + (Retries - retry_count)

LEMMA Product ==
  ASSUME NEW b \in Nat, NEW r \in Nat
  PROVE  b * r \in Nat /\ (b - 1) * r = b * r - r
OBVIOUS

LEMMA BudgetTypes ==
  ASSUME SInv, StreamTypes, sending # "nothing"
  PROVE  BytesLeft \in Nat \ {0} /\ retry_count \in 0 .. Retries /\ Budget \in Nat
<1>1. size[Len(size)] \in Nat /\ written \in Nat /\ HeaderLen \in Nat /\ Retries \in Nat
  <2>1. Len(size) \in 1 .. Len(size) BY LenProperties DEF SInv, DataTypes, StillWriting
  <2>2. size[Len(size)] \in Nat BY <2>1, TakenSeq, LengthAssumption
  <2> QED BY <2>2, LengthAssumption DEF SInv, DataTypes
<1>2. written < HeaderLen + size[Len(size)] BY DEF SInv, StillWriting
<1>3. BytesLeft \in Nat \ {0} BY <1>1, <1>2 DEF BytesLeft, BytesOfImage
<1>4. retry_count \in 0 .. Retries BY DEF StreamTypes
<1>5. BytesLeft * (Retries + 1) \in Nat
  <2>1. BytesLeft \in Nat /\ Retries + 1 \in Nat BY <1>1, <1>3
  <2> QED BY <2>1, Product
<1> QED BY <1>1, <1>3, <1>4, <1>5 DEF Budget

\* A byte that is taken costs a byte of the budget with all its tries.
LEMMA ByteCosts ==
  ASSUME NEW b \in Nat \ {0}, NEW r \in 0 .. Retries
  PROVE  (b - 1) * (Retries + 1) + (Retries - 0) < b * (Retries + 1) + (Retries - r)
<1> DEFINE m == b * (Retries + 1)
<1>1. Retries \in Nat /\ Retries + 1 \in Nat /\ b \in Nat BY LengthAssumption
<1>2. m \in Nat /\ (b - 1) * (Retries + 1) = m - (Retries + 1) BY <1>1, Product
<1> HIDE DEF m
<1>3. (m - (Retries + 1)) + (Retries - 0) < m + (Retries - r) BY <1>1, <1>2
<1> QED BY <1>2, <1>3 DEF m

LEMMA WriteSpends ==
  ASSUME SInv, StreamTypes, Up!WriteStep, sending' # "nothing"
  PROVE  sending # "nothing" /\ Budget' < Budget
<1>1. sending # "nothing" BY DEF Up!WriteStep, Up!Writes, Up!WouldBlock, Up!SendFails
<1>2. BytesLeft \in Nat \ {0} /\ retry_count \in 0 .. Retries /\ written \in Nat /\ Retries \in Nat
  BY <1>1, BudgetTypes, LengthAssumption DEF SInv, DataTypes
<1>3. CASE Up!Writes
  <2>1. size' = size /\ written' = written + 1 /\ retry_count' = 0 BY <1>3 DEF Up!Writes
  <2>2. BytesLeft' = BytesLeft - 1
    <3>1. BytesOfImage' = BytesOfImage BY <2>1 DEF BytesOfImage
    <3>2. BytesOfImage \in Nat
      <4>1. Len(size) \in 1 .. Len(size)
        BY <1>1, LenProperties DEF SInv, DataTypes, StillWriting
      <4>2. size[Len(size)] \in Nat BY <4>1, TakenSeq, LengthAssumption
      <4> QED BY <4>2, LengthAssumption DEF BytesOfImage
    <3> QED BY <1>2, <2>1, <3>1, <3>2 DEF BytesLeft
  <2>3. Budget' = (BytesLeft - 1) * (Retries + 1) + (Retries - 0) BY <2>1, <2>2 DEF Budget
  <2> QED BY <1>1, <1>2, <2>3, ByteCosts DEF Budget
<1>4. CASE Up!WouldBlock
  <2>1. retry_count' = retry_count + 1 /\ UNCHANGED <<size, written>>
    BY <1>4 DEF Up!WouldBlock, Up!GivesUp
  <2>2. BytesLeft' = BytesLeft BY <2>1 DEF BytesLeft, BytesOfImage
  <2> DEFINE m == BytesLeft * (Retries + 1)
  <2>3. m' = m BY <2>2
  <2>4. m \in Nat
    <3>1. BytesLeft \in Nat /\ Retries + 1 \in Nat BY <1>2
    <3> QED BY <3>1, Product
  <2>5. Budget = m + (Retries - retry_count) /\ Budget' = m' + (Retries - retry_count')
    BY DEF Budget
  <2> HIDE DEF m
  <2> QED BY <1>1, <1>2, <2>1, <2>3, <2>4, <2>5
<1>5. CASE Up!SendFails BY <1>5 DEF Up!SendFails, Up!GivesUp
<1> QED BY <1>3, <1>4, <1>5 DEF Up!WriteStep

\* While an image is written only the write itself moves.
LEMMA OnlyWritesSpend ==
  ASSUME Streaming \/ UNCHANGED stream, ~Up!WriteStep, sending # "nothing"
  PROVE  sending' = "nothing" \/ UNCHANGED <<sending, size, written, retry_count>>
<1>1. CASE Up!Connects BY <1>1 DEF Up!Connects
<1>2. CASE Up!SenderStep BY <1>2 DEF Up!SenderStep, Up!WriteStep, Up!TakesFrame, Up!SenderCloses
<1>3. CASE Up!Reads \/ Up!Closes BY <1>3 DEF Up!Reads, Up!Closes, Up!sender
<1>4. CASE UNCHANGED stream BY <1>4 DEF stream
<1> QED BY <1>1, <1>2, <1>3, <1>4 DEF Streaming

\* The same of a step's second state.
BudgetIsNat == sending # "nothing" => Budget \in Nat

LEMMA BudgetTypesNext == SInv' /\ StreamTypes' => BudgetIsNat'
<1>1. SInv /\ StreamTypes => BudgetIsNat BY BudgetTypes DEF BudgetIsNat
<1> QED BY <1>1, PTL

LEMMA BudgetKept ==
  ASSUME SInv, StreamTypes, [Next]_vars, sending # "nothing", sending' # "nothing"
  PROVE  /\ Budget \in Nat /\ Budget' \in Nat /\ Budget' <= Budget
         /\ ClientWrites => Budget' < Budget
<1>1. Streaming \/ UNCHANGED stream BY ServerStreams
<1>2. SInv' /\ StreamTypes' BY <1>1, StreamStep, StreamTypesHold
<1>3. Budget \in Nat BY BudgetTypes
<1>4. Budget' \in Nat
  BY <1>2, BudgetTypesNext DEF BudgetIsNat
<1>5. CASE Up!WriteStep BY <1>3, <1>4, <1>5, WriteSpends
<1>6. CASE ~Up!WriteStep
  <2>1. UNCHANGED <<size, written, retry_count>> BY <1>1, <1>6, OnlyWritesSpend
  <2>2. Budget' = Budget BY <2>1 DEF Budget, BytesLeft, BytesOfImage
  <2> QED BY <1>3, <1>6, <2>2 DEF ClientWrites
<1> QED BY <1>5, <1>6

\* Whatever the receiver does, a caller's write has a budget that only its own
\* tries change, and each of them lowers it (TcpSendRecv.cpp 47-73).
WriteSpendsBudget ==
  [][sending # "nothing" /\ sending' # "nothing" =>
       Budget' <= Budget /\ (ClientWrites => Budget' < Budget)]_vars

THEOREM WritesAreBounded ==
  Spec => [](sending # "nothing" => Budget \in Nat) /\ WriteSpendsBudget
<1>1. SInv /\ Types => (sending # "nothing" => Budget \in Nat) BY BudgetTypes DEF Types
<1>2. SInv /\ Types /\ [Next]_vars =>
        [sending # "nothing" /\ sending' # "nothing" =>
           Budget' <= Budget /\ (ClientWrites => Budget' < Budget)]_vars
  BY BudgetKept DEF Types
<1>3. Spec => [][Next]_vars BY PTL DEF Spec
<1> QED BY <1>1, <1>2, <1>3, StreamInvariance, TypesHold, PTL DEF WriteSpendsBudget

\* From every budget a write gets to a lower one or to its end: what is missing
\* of CallersWritesEnd is that a budget cannot be lowered for ever.
THEOREM WritesGoOn ==
  ASSUME NEW n \in Nat
  PROVE  Spec /\ []WriteCanProceed
           => (sending # "nothing" /\ Budget = n ~> sending = "nothing" \/ Budget < n)
<1> DEFINE At == sending # "nothing" /\ Budget = n
           Lower == sending = "nothing" \/ Budget < n
           Inv == SInv /\ StreamTypes
<1>1. Inv /\ At /\ [Next]_vars => At' \/ Lower'
  <2> SUFFICES ASSUME Inv, At, [Next]_vars, sending' # "nothing" PROVE At' \/ Lower'
    OBVIOUS
  <2>1. Budget' \in Nat /\ Budget' <= n BY BudgetKept
  <2> QED BY <2>1
<1>2. Inv /\ At /\ <<ClientWrites>>_vars => Lower'
  <2> SUFFICES ASSUME Inv, At, ClientWrites, sending' # "nothing" PROVE Budget' < n
    OBVIOUS
  <2> QED BY WriteSpends DEF ClientWrites
<1>3. Spec => []Inv
  <2>1. Types => StreamTypes BY DEF Types
  <2> QED BY <2>1, StreamInvariance, TypesHold, PTL DEF Inv
<1>4. WriteCanProceed /\ At => ENABLED <<ClientWrites>>_vars BY DEF WriteCanProceed
<1>5. Spec => [][Next]_vars /\ WF_vars(ClientWrites) BY PTL DEF Spec
<1> HIDE DEF At, Lower, Inv
<1>6. /\ []Inv /\ [][Next]_vars /\ WF_vars(ClientWrites)
      /\ []WriteCanProceed
      => (At ~> Lower)
  BY <1>1, <1>2, <1>4, PTL
<1> QED BY <1>3, <1>5, <1>6, PTL DEF At, Lower
-----------------------------------------------------------------------------
(* The devices are ended although other programs go on calling: each call, *)
(* waiting or still to be made, costs what is left to do.                  *)

\* What a step may do with the connections that wait, and with the bound on calls.
LEMMA BacklogStep ==
  ASSUME [Next]_vars
  PROVE  \/ UNCHANGED <<backlog, calls>>
         \/ Leaves /\ backlog' = {} /\ UNCHANGED calls
         \/ Joined /\ backlog' = {} /\ UNCHANGED calls
         \/ \E c \in backlog : (AcceptStep \/ Refuse(c)) /\ backlog' = backlog \ {c} /\ UNCHANGED calls
         \/ \E c \in Client : Calls(c)
<1> DEFINE Goal == \/ UNCHANGED <<backlog, calls>>
                   \/ Leaves /\ backlog' = {} /\ UNCHANGED calls
                   \/ Joined /\ backlog' = {} /\ UNCHANGED calls
                   \/ \E c \in backlog : /\ AcceptStep \/ Refuse(c)
                                         /\ backlog' = backlog \ {c} /\ UNCHANGED calls
                   \/ \E c \in Client : Calls(c)
<1>1. CASE StartVideoServer \/ StopVideoServer
  BY <1>1 DEF StartVideoServer, StopVideoServer
<1>2. CASE StartFails \/ Listens \/ BindFails \/ Binds
  BY <1>2 DEF StartFails, Listens, BindFails, Binds, counts
<1>3. CASE Leaves \/ Joined BY <1>3 DEF Leaves, Joined, VideoServerCleanup, counts
<1>4. CASE AcceptStep
  <2>1. PICK c \in Client, got \in BOOLEAN :
          \/ AcceptConn(c, got) \/ AcceptEcho(c, got)
          \/ \E started \in BOOLEAN : AcceptBreaks(c, got, started)
    BY <1>4 DEF AcceptStep
  <2>2. c \in backlog /\ backlog' = backlog \ {c} /\ UNCHANGED calls
    BY <2>1 DEF AcceptConn, AcceptEcho, AcceptBreaks, Takes, counts
  <2> QED BY <1>4, <2>2
<1>5. ASSUME NEW c \in Client, Refuse(c) PROVE Goal
  BY <1>5 DEF Refuse, counts
<1>6. CASE SeesClose \/ EchoCloses \/ TimerWriteFails \/ TimerFindsNoPeer \/ ReadsConn \/ ClientStep
  BY <1>6 DEF SeesClose, EchoCloses, TimerWriteFails, TimerFindsNoPeer, ReadsConn, ClientStep, counts
<1>7. CASE UNCHANGED vars BY <1>7 DEF vars, counts
<1> QED
  BY <1>1, <1>2, <1>3, <1>4, <1>5, <1>6, <1>7
     DEF Next, ThreadStep, EndLoop, Breaks, ReadsNothing

BacklogIsFinite == IsFiniteSet(backlog)

LEMMA BacklogFinite == Spec => []BacklogIsFinite
<1>1. Init => BacklogIsFinite BY FS_EmptySet DEF Init, BacklogIsFinite
<1>2. BacklogIsFinite /\ [Next]_vars => BacklogIsFinite'
  <2> SUFFICES ASSUME IsFiniteSet(backlog), [Next]_vars PROVE IsFiniteSet(backlog')
    BY DEF BacklogIsFinite
  <2>1. CASE UNCHANGED backlog BY <2>1
  <2>2. CASE backlog' = {} BY <2>2, FS_EmptySet
  <2>3. ASSUME NEW c \in backlog, backlog' = backlog \ {c} PROVE IsFiniteSet(backlog')
    BY <2>3, FS_RemoveElement
  <2>4. ASSUME NEW c \in Client, Calls(c) PROVE IsFiniteSet(backlog')
    BY <2>4, FS_AddElement DEF Calls
  <2> QED BY <2>1, <2>2, <2>3, <2>4, BacklogStep
<1>3. Spec => Init /\ [][Next]_vars BY PTL DEF Spec
<1> QED BY <1>1, <1>2, <1>3, PTL

\* A call that is made moves one from the first count to the second.
CallsLeft == 2 * (MaxCalls - calls) + Cardinality(backlog)

\* One that waits is taken, or one more is made.
LEMMA CallsAreSpent ==
  ASSUME ServerTypes, ServerTypes', IsFiniteSet(backlog),
         \/ \E c \in backlog : backlog' = backlog \ {c} /\ UNCHANGED calls
         \/ \E c \in Client : Calls(c)
  PROVE  CallsLeft' < CallsLeft
<1>1. calls \in Nat /\ calls' \in Nat /\ MaxCalls \in Nat BY BoundsAssumption DEF ServerTypes
<1>2. Cardinality(backlog) \in Nat BY FS_CardinalityType
<1>3. ASSUME NEW c \in backlog, backlog' = backlog \ {c}, UNCHANGED calls
      PROVE  CallsLeft' < CallsLeft
  <2>1. Cardinality(backlog') = Cardinality(backlog) - 1 BY <1>3, FS_RemoveElement
  <2> QED BY <1>1, <1>2, <1>3, <2>1 DEF CallsLeft
<1>4. ASSUME NEW c \in Client, Calls(c) PROVE CallsLeft' < CallsLeft
  <2>1. Cardinality(backlog') = Cardinality(backlog) + 1 /\ calls' = calls + 1
    BY <1>4, FS_AddElement DEF Calls
  <2> QED BY <1>1, <1>2, <2>1 DEF CallsLeft
<1> QED BY <1>3, <1>4

\* A clean-up, in the loop or on leaving it, ends what was left on.
LEMMA CleanUpEnds == IInv /\ (Leaves \/ CleanUpClosedConnection) => ~Abandoned'
BY CleansUp DEF Leaves, Abandoned

\* Whatever happens meanwhile, there is not more to do than before.
LEMMA AbandonedKept ==
  ASSUME IInv, ServerTypes, ServerTypes', IsFiniteSet(backlog), Abandoned, [Next]_vars, Abandoned'
  PROVE  UNCHANGED CallsLeft \/ CallsLeft' < CallsLeft
<1>1. ~Leaves BY CleanUpEnds
<1>2. ~Joined BY DEF Joined, Abandoned, IInv, Outside, Idle
<1>3. UNCHANGED <<backlog, calls>> => UNCHANGED CallsLeft BY DEF CallsLeft
<1> QED BY <1>1, <1>2, <1>3, BacklogStep, CallsAreSpent

\* And every step of the thread ends it or takes a connection out of the backlog.
LEMMA ThreadHelps ==
  ASSUME IInv, ServerTypes, ServerTypes', IsFiniteSet(backlog), Abandoned, ThreadStep, Abandoned'
  PROVE  CallsLeft' < CallsLeft
<1>1. pc \notin Idle BY DEF Abandoned, IInv, Outside
<1>2. ~(EndLoop \/ Breaks \/ SeesClose \/ TimerFindsNoPeer)
  BY CleanUpEnds DEF EndLoop, Breaks, SeesClose, TimerFindsNoPeer
<1>3. ~(StartFails \/ Listens \/ BindFails \/ Binds)
  BY <1>1 DEF StartFails, Listens, BindFails, Binds, Idle
<1>4. \E c \in backlog : backlog' = backlog \ {c} /\ UNCHANGED calls
  <2>1. CASE AcceptStep
    <3>1. PICK c \in Client, got \in BOOLEAN :
            \/ AcceptConn(c, got) \/ AcceptEcho(c, got)
            \/ \E started \in BOOLEAN : AcceptBreaks(c, got, started)
      BY <2>1 DEF AcceptStep
    <3>2. c \in backlog /\ backlog' = backlog \ {c} /\ UNCHANGED calls
      BY <3>1 DEF AcceptConn, AcceptEcho, AcceptBreaks, Takes, counts
    <3> QED BY <3>2
  <2>2. ASSUME NEW c \in Client, Refuse(c)
        PROVE  \E d \in backlog : backlog' = backlog \ {d} /\ UNCHANGED calls
    BY <2>2 DEF Refuse, counts
  <2> QED BY <1>2, <1>3, <2>1, <2>2 DEF ThreadStep
<1> QED BY <1>4, CallsAreSpent

\* With the camera and the voice session on and nobody there, each number of calls
\* that wait or may come leads to a lower one or to their end (VideoServer.cpp
\* 192-265, 396-434): what is missing of DevicesFollowCaller is the induction.
THEOREM AbandonedGoesOn ==
  ASSUME NEW n \in Nat
  PROVE  Spec /\ []LossCanProceed
           => (Abandoned /\ CallsLeft = n ~> ~Abandoned \/ CallsLeft < n)
<1> DEFINE At == Abandoned /\ CallsLeft = n
           Lower == ~Abandoned \/ CallsLeft < n
           Inv == IInv /\ ServerTypes /\ BacklogIsFinite
<1>1. Inv /\ Inv' /\ At /\ [Next]_vars => At' \/ Lower'
  BY AbandonedKept DEF BacklogIsFinite
<1>2. Inv /\ Inv' /\ At /\ <<ThreadStep>>_vars => Lower'
  BY ThreadHelps DEF BacklogIsFinite
<1>3. Spec => []Inv
  <2>1. Types => ServerTypes BY DEF Types
  <2> QED BY <2>1, Invariance, TypesHold, BacklogFinite, PTL DEF Inv
<1>4. LossCanProceed /\ At => ENABLED <<ThreadStep>>_vars BY DEF LossCanProceed
<1>5. Spec => [][Next]_vars /\ WF_vars(ThreadStep) BY PTL DEF Spec
<1> HIDE DEF At, Lower, Inv
<1>6. /\ []Inv /\ [][Next]_vars /\ WF_vars(ThreadStep)
      /\ []LossCanProceed
      => (At ~> Lower)
  BY <1>1, <1>2, <1>4, PTL
<1> QED BY <1>3, <1>5, <1>6, PTL DEF At, Lower
=============================================================================
