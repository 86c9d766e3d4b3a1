--------------------------- MODULE ImageChannel ---------------------------
(***************************************************************************)
(* What the video connection between two programs promises, with no bytes  *)
(* in it: the images of a connection are shown whole, in the order they    *)
(* were taken, none twice and none left out, until the connection ends,    *)
(* which may lose any number of the last ones.                             *)
(***************************************************************************)
EXTENDS Naturals, Sequences

CONSTANT Image

VARIABLES
  taken,    \* the images of this connection, in the order they were taken
  shown     \* those the receiver has displayed

Init == taken = <<>> /\ shown = <<>>

Take(i) == taken' = Append(taken, i) /\ UNCHANGED shown

Show ==
  /\ Len(shown) < Len(taken)
  /\ shown' = Append(shown, taken[Len(shown) + 1])
  /\ UNCHANGED taken

NewConnection == taken' = <<>> /\ shown' = <<>>

Next == (\E i \in Image : Take(i)) \/ Show \/ NewConnection

Spec == Init /\ [][Next]_<<taken, shown>>
=============================================================================
