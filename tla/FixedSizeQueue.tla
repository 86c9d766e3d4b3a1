-------------------------- MODULE FixedSizeQueue --------------------------
(***************************************************************************)
(* The template class FixedSizeQueue (FixedSizeQueue.h): a ring of size_   *)
(* slots described by the indices of its oldest and newest element, both   *)
(* -1 when it is empty, and a separate count.  push and pop only move the  *)
(* indices and return one; the caller copies the frame into or out of      *)
(* start_p_[index] while it still holds the lock (VoipVoice.cpp), so here  *)
(* one step is the call and the copy.                                      *)
(***************************************************************************)
EXTENDS QueueSize, Sequences

CONSTANTS
  Frame,    \* the values of type T
  Nothing   \* what a caller gets from a pop that returns -1

VARIABLES
  start_index_,
  end_index_,
  num_queued_,
  start_p_,     \* the slots; new T[size] leaves them uninitialised
  pushed,       \* whether the last push returned an index
  popped        \* the frame the last pop's caller read, or Nothing

indices == <<start_index_, end_index_, num_queued_>>
vars    == <<indices, start_p_, pushed, popped>>

Slot == 0 .. (size_ - 1)

Init ==
  /\ start_index_ = -1 /\ end_index_ = -1 /\ num_queued_ = 0
  /\ start_p_ \in [Slot -> Frame]
  /\ pushed = FALSE /\ popped = Nothing

isEmpty == start_index_ = -1

isFull == \/ end_index_ + 1 = start_index_
          \/ start_index_ = 0 /\ end_index_ = size_ - 1

\* The index push returns when there is room.
PushIndex == IF isEmpty \/ end_index_ = size_ - 1 THEN 0 ELSE end_index_ + 1

pushIndices ==
  IF isFull
  THEN UNCHANGED indices
  ELSE /\ start_index_' = IF isEmpty THEN 0 ELSE start_index_
       /\ end_index_' = PushIndex
       /\ num_queued_' = num_queued_ + 1

push(v) ==
  /\ pushIndices
  /\ pushed' = ~ isFull
  /\ start_p_' = IF isFull THEN start_p_ ELSE [start_p_ EXCEPT ![PushIndex] = v]
  /\ UNCHANGED popped

popIndices ==
  \/ isEmpty /\ UNCHANGED indices
  \/ /\ ~ isEmpty
     /\ num_queued_' = num_queued_ - 1
     /\ IF start_index_ = end_index_
        THEN start_index_' = -1 /\ end_index_' = -1
        ELSE /\ start_index_' = IF start_index_ = size_ - 1 THEN 0 ELSE start_index_ + 1
             /\ UNCHANGED end_index_

pop ==
  /\ popIndices
  /\ popped' = IF isEmpty THEN Nothing ELSE start_p_[start_index_]
  /\ UNCHANGED <<start_p_, pushed>>

Next == pop \/ \E v \in Frame : push(v)

Spec == Init /\ [][Next]_vars
-----------------------------------------------------------------------------
TypeOK ==
  /\ start_index_ \in Slot \cup {-1} /\ end_index_ \in Slot \cup {-1}
  /\ num_queued_ \in 0 .. size_
  /\ start_p_ \in [Slot -> Frame]
  /\ pushed \in BOOLEAN /\ popped \in Frame \cup {Nothing}

\* The count, which the speaker thread uses to decide how many frames to pop,
\* is the number of slots from start_index_ round to end_index_, through every
\* wrap; in particular num_queued_ = 0 says the same as isEmpty, and
\* num_queued_ = size_ the same as isFull.
CountMatchesIndices ==
  IF start_index_ = -1 THEN end_index_ = -1 /\ num_queued_ = 0
  ELSE /\ end_index_ # -1
       /\ num_queued_ = IF start_index_ <= end_index_
                        THEN end_index_ - start_index_ + 1
                        ELSE end_index_ - start_index_ + 1 + size_

\* The slot that holds the k-th oldest frame.
SlotOf(k) == IF start_index_ + k - 1 < size_ THEN start_index_ + k - 1
                                              ELSE start_index_ + k - 1 - size_
Contents  == [k \in 1 .. num_queued_ |-> start_p_[SlotOf(k)]]

Fifo == INSTANCE BoundedFifo
          WITH Capacity <- size_, items <- Contents, offered <- pushed, taken <- popped

\* push and pop with their callers' copies are a bounded first-in first-out
\* buffer: no frame is lost, repeated, reordered or read before it is written,
\* and one is refused only when the ring is full.
ImplementsFifo == Fifo!FifoSpec
=============================================================================
