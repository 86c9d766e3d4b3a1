----------------------- MODULE FixedSizeQueueProofs -----------------------
(***************************************************************************)
(* FixedSizeQueue implements BoundedFifo for every size and every set of   *)
(* frames.  The invariant is that the count agrees with the two indices;   *)
(* from it, push appends to Contents and pop removes its head.             *)
(***************************************************************************)
EXTENDS FixedSizeQueue, SequenceTheorems, TLAPS

IInv == TypeOK /\ CountMatchesIndices

LEMMA InitIInv == Init => IInv
<1> SUFFICES ASSUME Init PROVE IInv
  OBVIOUS
<1>1. TypeOK
  <2>1. /\ start_index_ \in Slot \cup {-1} /\ end_index_ \in Slot \cup {-1}
        /\ num_queued_ \in 0 .. size_
    BY SizeAssumption DEF Init
  <2>2. start_p_ \in [Slot -> Frame] /\ pushed \in BOOLEAN /\ popped \in Frame \cup {Nothing}
    BY DEF Init
  <2> QED  BY <2>1, <2>2 DEF TypeOK
<1>2. CountMatchesIndices
  BY DEF Init, CountMatchesIndices
<1> QED  BY <1>1, <1>2 DEF IInv

LEMMA PushIInv == ASSUME IInv, NEW v \in Frame, push(v) PROVE IInv'
<1> USE SizeAssumption DEF IInv, TypeOK, CountMatchesIndices, Slot, push, pushIndices, isFull, isEmpty,
                           PushIndex, indices
<1>1. CASE isFull
  BY <1>1
<1>2. CASE ~ isFull
  <2>1. PushIndex \in Slot
    BY <1>2
  <2>2. TypeOK'
    BY <1>2, <2>1
  <2>3. CountMatchesIndices'
    BY <1>2
  <2> QED  BY <2>2, <2>3
<1> QED  BY <1>1, <1>2

LEMMA PopIInv == ASSUME IInv, pop PROVE IInv'
<1> USE SizeAssumption DEF IInv, TypeOK, CountMatchesIndices, Slot, pop, popIndices, isEmpty, indices
<1>1. TypeOK'
  OBVIOUS
<1>2. CountMatchesIndices'
  OBVIOUS
<1> QED  BY <1>1, <1>2

THEOREM Invariance == Spec => []IInv
<1>1. IInv /\ [Next]_vars => IInv'
  <2> SUFFICES ASSUME IInv, [Next]_vars PROVE IInv'
    OBVIOUS
  <2>1. CASE pop
    BY <2>1, PopIInv
  <2>2. ASSUME NEW v \in Frame, push(v) PROVE IInv'
    BY <2>2, PushIInv
  <2>3. CASE UNCHANGED vars
    BY <2>3 DEF vars, indices, IInv, TypeOK, CountMatchesIndices
  <2> QED  BY <2>1, <2>2, <2>3 DEF Next
<1> QED  BY InitIInv, <1>1, PTL DEF Spec

\* The indices stay inside the ring and the count inside 0 .. size_.
THEOREM TypeCorrect == Spec => []TypeOK
<1>1. IInv => TypeOK
  BY DEF IInv
<1> QED  BY Invariance, <1>1, PTL

\* num_queued_ is always the number of slots between the two indices.
THEOREM CountCorrect == Spec => []CountMatchesIndices
<1>1. IInv => CountMatchesIndices
  BY DEF IInv
<1> QED  BY Invariance, <1>1, PTL
-----------------------------------------------------------------------------
\* Contents is a sequence of frames, one per queued element.
ContentsShape ==
  /\ Contents \in Seq(Frame) /\ Len(Contents) = num_queued_
  /\ num_queued_ \in Nat
  /\ \A k \in 1 .. num_queued_ : SlotOf(k) \in Slot /\ Contents[k] = start_p_[SlotOf(k)]

LEMMA ContentsSeq == IInv => ContentsShape
<1> SUFFICES ASSUME IInv PROVE ContentsShape
  OBVIOUS
<1>1. num_queued_ \in Nat /\ start_p_ \in [Slot -> Frame]
  BY SizeAssumption DEF IInv, TypeOK
<1>2. \A k \in 1 .. num_queued_ : SlotOf(k) \in Slot
  BY SizeAssumption DEF IInv, TypeOK, CountMatchesIndices, SlotOf, Slot
<1>3. Contents \in [1 .. num_queued_ -> Frame]
  BY <1>1, <1>2 DEF Contents
<1>4. Contents \in Seq(Frame)
  BY <1>1, <1>3, IsASeq
<1>5. Len(Contents) = num_queued_
  BY <1>1, <1>3, <1>4, LenProperties
<1> QED  BY <1>1, <1>2, <1>4, <1>5 DEF Contents, ContentsShape

LEMMA ContentsSeqNext == IInv' => ContentsShape'
BY ContentsSeq, PTL

\* The two ways the code has of telling a full ring and an empty one agree with
\* the count.
LEMMA FullEmpty ==
  ASSUME IInv
  PROVE  /\ isFull <=> num_queued_ = size_
         /\ isEmpty <=> num_queued_ = 0
BY SizeAssumption DEF IInv, TypeOK, CountMatchesIndices, Slot, isFull, isEmpty

LEMMA PushAppends ==
  ASSUME IInv, NEW v \in Frame, push(v)
  PROVE  Fifo!Offer(v)
<1>0. IInv'
  BY PushIInv
<1>1. /\ Contents \in Seq(Frame) /\ Len(Contents) = num_queued_ /\ num_queued_ \in 0 .. size_
      /\ \A k \in 1 .. num_queued_ : SlotOf(k) \in Slot /\ Contents[k] = start_p_[SlotOf(k)]
  BY ContentsSeq DEF ContentsShape, IInv, TypeOK
<1>2. CASE isFull
  <2>1. Contents' = Contents /\ pushed' = FALSE
    BY <1>2 DEF push, pushIndices, indices, Contents, SlotOf
  <2> QED  BY <1>1, <1>2, <2>1, FullEmpty DEF Fifo!Offer, push, pushIndices
<1>3. CASE ~ isFull
  <2>1. num_queued_' = num_queued_ + 1 /\ num_queued_ < size_ /\ pushed' = TRUE
    <3>1. pushed' = TRUE
      BY <1>3, Zenon DEF push
    <3>2. num_queued_' = num_queued_ + 1 /\ num_queued_ < size_
      BY <1>1, <1>3, FullEmpty, SizeAssumption DEF push, pushIndices
    <3> QED  BY <3>1, <3>2
  <2>2. /\ Contents' \in Seq(Frame) /\ Len(Contents') = num_queued_ + 1
        /\ \A k \in 1 .. (num_queued_ + 1) : Contents'[k] = start_p_'[SlotOf(k)']
    <3>1. /\ Contents' \in Seq(Frame) /\ Len(Contents') = num_queued_'
          /\ \A k \in 1 .. num_queued_' : Contents'[k] = start_p_'[SlotOf(k)']
      BY <1>0, ContentsSeqNext DEF ContentsShape
    <3> QED  BY <2>1, <3>1
  <2>3. start_p_' = [start_p_ EXCEPT ![PushIndex] = v] /\ PushIndex \in Slot
    BY <1>3, SizeAssumption DEF push, pushIndices, PushIndex, IInv, TypeOK, Slot, isFull, isEmpty
  <2>4. /\ \A k \in 1 .. num_queued_ : SlotOf(k)' = SlotOf(k) /\ SlotOf(k) # PushIndex
        /\ \A k \in {num_queued_ + 1} : SlotOf(k)' = PushIndex
    <3>1. /\ start_index_ \in -1 .. (size_ - 1) /\ end_index_ \in -1 .. (size_ - 1)
          /\ num_queued_ \in Nat /\ size_ \in Nat /\ size_ >= 1
      BY <1>1, SizeAssumption DEF IInv, TypeOK, Slot
    <3>2. CASE isEmpty
      <4>1. start_index_' = 0 /\ PushIndex = 0 /\ num_queued_ = 0
        BY <1>3, <3>2 DEF push, pushIndices, PushIndex, IInv, CountMatchesIndices, isEmpty
      <4> QED  BY <3>1, <4>1 DEF SlotOf
    <3>3. CASE ~ isEmpty
      <4>1. /\ start_index_' = start_index_ /\ start_index_ >= 0 /\ end_index_ >= 0
            /\ num_queued_ = IF start_index_ <= end_index_
                             THEN end_index_ - start_index_ + 1
                             ELSE end_index_ - start_index_ + 1 + size_
            /\ PushIndex = IF end_index_ = size_ - 1 THEN 0 ELSE end_index_ + 1
            /\ end_index_ + 1 # start_index_
            /\ ~ (start_index_ = 0 /\ end_index_ = size_ - 1)
        BY <1>3, <3>1, <3>3
           DEF push, pushIndices, PushIndex, IInv, CountMatchesIndices, isEmpty, isFull
      <4>2. ASSUME NEW k \in 1 .. num_queued_
            PROVE  SlotOf(k)' = SlotOf(k) /\ SlotOf(k) # PushIndex
        BY <3>1, <4>1 DEF SlotOf
      <4>3. ASSUME NEW k \in {num_queued_ + 1}
            PROVE  SlotOf(k)' = PushIndex
        BY <3>1, <4>1 DEF SlotOf
      <4> QED  BY <4>2, <4>3
    <3> QED  BY <3>2, <3>3
  <2>6. \A k \in 1 .. num_queued_ : Contents'[k] = Contents[k]
    BY <1>1, <2>2, <2>3, <2>4 DEF IInv, TypeOK
  <2>7. Contents'[num_queued_ + 1] = v
    BY <1>1, <2>2, <2>3, <2>4 DEF IInv, TypeOK
  <2>8. Contents' = Append(Contents, v)
    <3>1. /\ Append(Contents, v) \in Seq(Frame)
          /\ Len(Append(Contents, v)) = num_queued_ + 1
          /\ \A k \in 1 .. num_queued_ : Append(Contents, v)[k] = Contents[k]
          /\ Append(Contents, v)[num_queued_ + 1] = v
      BY <1>1, AppendProperties
    <3>2. \A k \in 1 .. Len(Contents') : Contents'[k] = Append(Contents, v)[k]
      BY <1>1, <2>2, <2>6, <2>7, <3>1
    <3> QED  BY <2>2, <3>1, <3>2, SeqEqual
  <2> QED  BY <1>1, <2>1, <2>8 DEF Fifo!Offer, push, pushIndices
<1> QED  BY <1>2, <1>3

LEMMA PopTakesHead ==
  ASSUME IInv, pop
  PROVE  Fifo!Take
<1>0. IInv'
  BY PopIInv
<1>1. /\ Contents \in Seq(Frame) /\ Len(Contents) = num_queued_ /\ num_queued_ \in Nat
      /\ \A k \in 1 .. num_queued_ : SlotOf(k) \in Slot /\ Contents[k] = start_p_[SlotOf(k)]
  BY ContentsSeq DEF ContentsShape
<1>2. CASE isEmpty
  <2>1. num_queued_ = 0 /\ popped' = Nothing /\ UNCHANGED <<indices, start_p_, pushed>>
    BY <1>2, FullEmpty DEF pop, popIndices
  <2>2. Contents' = Contents
    BY <2>1 DEF indices, Contents, SlotOf
  <2>3. Contents = <<>>
    BY <1>1, <2>1, EmptySeq
  <2> QED  BY <2>1, <2>2, <2>3 DEF Fifo!Take
<1>3. CASE ~ isEmpty
  <2>1. /\ num_queued_ > 0 /\ num_queued_' = num_queued_ - 1
        /\ popped' = start_p_[start_index_] /\ start_p_' = start_p_ /\ pushed' = pushed
    BY <1>1, <1>3, FullEmpty DEF pop, popIndices
  <2>2. Contents # <<>> /\ popped' = Head(Contents)
    <3>1. SlotOf(1) = start_index_
      BY <1>3, SizeAssumption DEF SlotOf, IInv, TypeOK, Slot, isEmpty
    <3> QED  BY <1>1, <2>1, <3>1, EmptySeq
  <2>3. \A k \in 1 .. (num_queued_ - 1) : SlotOf(k)' = SlotOf(k + 1)
    <3>1. /\ start_index_ \in 0 .. (size_ - 1) /\ end_index_ \in 0 .. (size_ - 1)
          /\ num_queued_ \in Nat /\ size_ \in Nat /\ size_ >= 1
          /\ num_queued_ = IF start_index_ <= end_index_
                           THEN end_index_ - start_index_ + 1
                           ELSE end_index_ - start_index_ + 1 + size_
      BY <1>1, <1>3, SizeAssumption DEF IInv, TypeOK, CountMatchesIndices, Slot, isEmpty
    <3>2. CASE start_index_ = end_index_
      BY <3>1, <3>2
    <3>3. CASE start_index_ # end_index_
      <4>1. start_index_' = IF start_index_ = size_ - 1 THEN 0 ELSE start_index_ + 1
        BY <1>3, <3>3 DEF pop, popIndices
      <4> QED  BY <3>1, <4>1 DEF SlotOf
    <3> QED  BY <3>2, <3>3
  <2>4. /\ Contents' \in Seq(Frame) /\ Len(Contents') = num_queued_ - 1
        /\ \A k \in 1 .. (num_queued_ - 1) : Contents'[k] = Contents[k + 1]
    <3>1. /\ Contents' \in Seq(Frame) /\ Len(Contents') = num_queued_'
          /\ \A k \in 1 .. num_queued_' : Contents'[k] = start_p_'[SlotOf(k)']
      BY <1>0, ContentsSeqNext DEF ContentsShape
    <3> QED  BY <1>1, <2>1, <2>3, <3>1
  <2>5. /\ Tail(Contents) \in Seq(Frame) /\ Len(Tail(Contents)) = num_queued_ - 1
        /\ \A k \in 1 .. (num_queued_ - 1) : Tail(Contents)[k] = Contents[k + 1]
    BY <1>1, <2>2, HeadTailProperties
  <2>6. Contents' = Tail(Contents)
    BY <2>4, <2>5, SeqEqual
  <2> QED  BY <2>1, <2>2, <2>6 DEF Fifo!Take
<1> QED  BY <1>2, <1>3

\* The ring is a bounded first-in first-out buffer, for every size.
THEOREM RingImplementsFifo == Spec => ImplementsFifo
<1>1. Init => Fifo!FifoInit
  <2> SUFFICES ASSUME Init PROVE Fifo!FifoInit
    OBVIOUS
  <2>1. Contents = <<>>
    BY InitIInv, ContentsSeq, EmptySeq DEF Init, ContentsShape
  <2> QED  BY <2>1 DEF Init, Fifo!FifoInit
<1>2. IInv /\ [Next]_vars => [Fifo!FifoNext]_Fifo!fifoVars
  <2> SUFFICES ASSUME IInv, [Next]_vars PROVE [Fifo!FifoNext]_Fifo!fifoVars
    OBVIOUS
  <2>1. CASE pop
    BY <2>1, PopTakesHead DEF Fifo!FifoNext
  <2>2. ASSUME NEW v \in Frame, push(v) PROVE Fifo!FifoNext
    BY <2>2, PushAppends DEF Fifo!FifoNext
  <2>3. CASE UNCHANGED vars
    BY <2>3 DEF vars, indices, Fifo!fifoVars, Contents, SlotOf
  <2> QED  BY <2>1, <2>2, <2>3 DEF Next
<1> QED  BY Invariance, <1>1, <1>2, PTL DEF Spec, ImplementsFifo, Fifo!FifoSpec
=============================================================================
