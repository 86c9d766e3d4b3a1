----------------------------- MODULE QueueSize -----------------------------
(***************************************************************************)
(* The size of the jitter buffer: the constructor's argument, which the    *)
(* ring (FixedSizeQueue) and the session that owns it (VoipVoice) share.   *)
(***************************************************************************)
EXTENDS Integers

CONSTANT size_   \* slots of VoipBufferQueue (100 in the code)

ASSUME SizeAssumption == size_ \in Nat /\ size_ >= 1
=============================================================================
