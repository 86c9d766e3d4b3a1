---------------------------- MODULE ImageStream ----------------------------
(***************************************************************************)
(* One direction of the video connection: a thread that writes an image as *)
(* four bytes of size and the compressed data (WriteDataTcp), a TCP        *)
(* connection, and a thread that puts the images together again from what  *)
(* recv returns (VideoServer.cpp 335-376, VideoClient.cpp 221-265).        *)
(*                                                                         *)
(* A byte is the pair <<k, j>> of the image it belongs to and its place,   *)
(* counted from the size.  send and recv move one byte at a time: a call   *)
(* that moves several is that many steps in a row.                         *)
(***************************************************************************)
EXTENDS ImageLengths, Sequences

VARIABLES
  senderOpen, receiverOpen,   \* the two ends of the connection
  sendbuff,       \* bytes in the sender's static buffer, 0 until the camera delivers
  size,           \* history: the sizes of the images written on this connection
  sending,        \* the image is being written: neither, its size, its data
  written,        \* bytes of this image, size included, the transport has taken
  retry_count,
  wire,           \* bytes taken and not yet received
  Mode, InputBuffer, InputBytesNeeded,
  shown           \* history: what the receiver has displayed

sender   == <<senderOpen, sendbuff, size, sending, written, retry_count>>
receiver == <<receiverOpen, Mode, InputBuffer, InputBytesNeeded, shown>>
vars     == <<sender, wire, receiver>>

Byte == (Nat \ {0}) \X (Nat \ {0})

\* Mutant: a new connection goes on where the last one was cut off.
ResetForgotten == UNCHANGED <<Mode, InputBytesNeeded, InputBuffer>>

ResetFraming ==
  Mode' = "ImageSize" /\ InputBytesNeeded' = HeaderLen /\ InputBuffer' = <<>>

Init ==
  /\ senderOpen = FALSE /\ receiverOpen = FALSE
  /\ sendbuff \in 0 .. MaxSize
  /\ size = <<>> /\ sending = "nothing" /\ written = 0 /\ retry_count = 0
  /\ wire = <<>>
  /\ Mode = "ImageSize" /\ InputBytesNeeded = HeaderLen /\ InputBuffer = <<>>
  /\ shown = <<>>

\* A new connection, perhaps with another program, whose camera may have
\* delivered already.  A sender of the connection before that has not noticed
\* its end is on its own from here.
Connects ==
  /\ ~receiverOpen
  /\ senderOpen' = TRUE /\ receiverOpen' = TRUE
  /\ sendbuff' \in 0 .. MaxSize
  /\ size' = <<>> /\ sending' = "nothing" /\ written' = 0 /\ retry_count' = 0
  /\ wire' = <<>> /\ shown' = <<>>
  /\ UNCHANGED <<Mode, InputBuffer, InputBytesNeeded>>

-----------------------------------------------------------------------------
(* The sender.                                                             *)

\* The timer: a frame of n bytes, or the last one again if the camera has none,
\* and the size is sent first.
TakesFrame(n) ==
  /\ senderOpen /\ sending = "nothing" /\ Len(size) < MaxImages
  /\ n \in 1 .. MaxSize \/ n = sendbuff
  /\ sendbuff' = n /\ size' = Append(size, n)
  /\ sending' = "size" /\ written' = 0 /\ retry_count' = 0
  /\ UNCHANGED <<senderOpen, wire, receiver>>

Image == Len(size)
Length(k) == HeaderLen + size[k]

\* What is being written once n bytes of the image have been taken.
StillSending(n) ==
  IF n < HeaderLen THEN "size" ELSE IF n < Length(Image) THEN "data" ELSE "nothing"

Writes ==
  /\ senderOpen /\ sending # "nothing" /\ receiverOpen
  /\ Len(wire) < Capacity
  /\ wire' = Append(wire, <<Image, written + 1>>)
  /\ written' = written + 1 /\ sending' = StillSending(written + 1)
  /\ retry_count' = 0
  /\ UNCHANGED <<senderOpen, sendbuff, size, receiver>>

\* WriteDataTcp gives up, and the connection is closed in the middle of an image.
GivesUp ==
  /\ senderOpen' = FALSE /\ sending' = "nothing"
  /\ UNCHANGED <<sendbuff, size, written, retry_count, wire, receiver>>

\* Mutant: nobody counts the attempts.
WouldBlockForEver ==
  /\ senderOpen /\ sending # "nothing" /\ receiverOpen
  /\ Len(wire) >= Capacity
  /\ UNCHANGED vars

WouldBlock ==
  /\ senderOpen /\ sending # "nothing" /\ receiverOpen
  /\ Len(wire) >= Capacity
  /\ IF retry_count + 1 > Retries
     THEN GivesUp
     ELSE /\ retry_count' = retry_count + 1
          /\ UNCHANGED <<senderOpen, sendbuff, size, sending, written, wire, receiver>>

\* The receiver has closed: send returns an error of another kind.
SendFails ==
  /\ senderOpen /\ sending # "nothing" /\ ~receiverOpen
  /\ GivesUp

\* The sender's thread ends, or sees that the receiver has closed.
SenderCloses ==
  /\ senderOpen /\ sending = "nothing"
  /\ senderOpen' = FALSE
  /\ UNCHANGED <<sendbuff, size, sending, written, retry_count, wire, receiver>>

-----------------------------------------------------------------------------
(* The receiver.                                                           *)

Closes == receiverOpen' = FALSE /\ wire' = <<>> /\ ResetFraming /\ UNCHANGED <<sender, shown>>

\* The byte that completes the size, or the image.
SizeIn(buffer) == size[buffer[1][1]]

Completes(buffer) ==
  IF Mode = "ImageSize"
  THEN /\ Mode' = "Image" /\ InputBytesNeeded' = SizeIn(buffer)
       /\ InputBuffer' = <<>> /\ UNCHANGED shown
  ELSE /\ shown' = Append(shown, buffer)
       /\ ResetFraming

Reads ==
  /\ receiverOpen /\ wire # <<>> /\ InputBytesNeeded > 0
  /\ wire' = Tail(wire)
  /\ LET buffer == Append(InputBuffer, Head(wire)) IN
     IF InputBytesNeeded = 1
     THEN Completes(buffer)
     ELSE /\ InputBuffer' = buffer /\ InputBytesNeeded' = InputBytesNeeded - 1
          /\ UNCHANGED <<Mode, shown>>
  /\ UNCHANGED <<receiverOpen, sender>>

\* recv is asked for no bytes and returns 0, which reads as a closed connection.
ReadsNothing ==
  /\ receiverOpen /\ wire # <<>> /\ InputBytesNeeded = 0
  /\ Closes

\* FD_CLOSE, which may come with bytes still unread.
SeesClose == receiverOpen /\ ~senderOpen /\ Closes

\* The receiver closes for a reason of its own.
ReceiverCloses == receiverOpen /\ Closes

SenderStep   == (\E n \in 0 .. MaxSize : TakesFrame(n)) \/ Writes \/ WouldBlock
                  \/ SendFails \/ SenderCloses
ReceiverStep == Reads \/ ReadsNothing \/ SeesClose \/ ReceiverCloses

Next == Connects \/ SenderStep \/ ReceiverStep

\* The thread that writes is running, whatever it finds.
WriteStep == Writes \/ WouldBlock \/ SendFails

Spec == Init /\ [][Next]_vars /\ WF_vars(WriteStep)

-----------------------------------------------------------------------------
TypeOK ==
  /\ senderOpen \in BOOLEAN /\ receiverOpen \in BOOLEAN
  /\ sendbuff \in 0 .. MaxSize /\ size \in Seq(0 .. MaxSize)
  /\ sending \in {"nothing", "size", "data"} /\ written \in Nat /\ retry_count \in 0 .. Retries
  /\ wire \in Seq(Byte)
  /\ Mode \in {"ImageSize", "Image"} /\ InputBuffer \in Seq(Byte) /\ InputBytesNeeded \in Nat
  /\ shown \in Seq(Seq(Byte))

\* The data of the k-th image of the connection.
Data(k) == [j \in 1 .. size[k] |-> <<k, HeaderLen + j>>]

Picture == {[j \in 1 .. n |-> <<k, HeaderLen + j>>] : k \in 1 .. MaxImages, n \in 0 .. MaxSize}

Channel == INSTANCE ImageChannel
             WITH Image <- Picture, taken <- [k \in DOMAIN size |-> Data(k)], shown <- shown

(* The framing rests on every byte: what is displayed is the images that   *)
(* were taken, whole and in order, through partial writes, blocked writes, *)
(* connections cut within an image and images of no bytes.                 *)
ImplementsChannel == Channel!Spec

(* The thread that writes comes back from WriteDataTcp although nobody may *)
(* be reading: at most Retries + 1 blocked sends in a row.                 *)
WritesEnd == sending # "nothing" ~> sending = "nothing"
=============================================================================
