---------------------------- MODULE BoundedFifo ----------------------------
(***************************************************************************)
(* What the jitter buffer between the UDP receiver and the speaker thread  *)
(* promises: a first-in first-out buffer that holds at most Capacity       *)
(* frames, refuses a frame only when it holds that many, and gives every   *)
(* frame it took exactly once.                                             *)
(***************************************************************************)
EXTENDS Integers, Sequences

CONSTANTS
  Frame,     \* what is stored
  Capacity,  \* how many frames fit
  Nothing    \* the answer to a Take when there is no frame; not a frame

VARIABLES
  items,    \* the frames held, oldest first
  offered,  \* the answer to the last Offer: was the frame taken in
  taken     \* the answer to the last Take

fifoVars == <<items, offered, taken>>

FifoInit == items = <<>> /\ offered = FALSE /\ taken = Nothing

Offer(v) ==
  /\ IF Len(items) < Capacity
     THEN items' = Append(items, v) /\ offered' = TRUE
     ELSE items' = items /\ offered' = FALSE
  /\ UNCHANGED taken

Take ==
  /\ IF items = <<>>
     THEN items' = <<>> /\ taken' = Nothing
     ELSE items' = Tail(items) /\ taken' = Head(items)
  /\ UNCHANGED offered

FifoNext == Take \/ \E v \in Frame : Offer(v)

FifoSpec == FifoInit /\ [][FifoNext]_fifoVars
=============================================================================
