---------------------------- MODULE ImageLengths ----------------------------
(***************************************************************************)
(* The limits of the video connection: those of the program (definition.h, *)
(* TcpSendRecv.cpp) and the bounds of the model.                           *)
(***************************************************************************)
EXTENDS Naturals

CONSTANTS
  HeaderLen,    \* sizeof(unsigned int)
  Retries,      \* a send that blocks more often than this in a row has failed
  Capacity,     \* bound: bytes the transport holds
  MaxSize,      \* bound: bytes of data in an image
  MaxImages     \* bound: images in a connection

ASSUME LengthAssumption ==
  /\ HeaderLen \in Nat \ {0} /\ Retries \in Nat /\ Capacity \in Nat \ {0}
  /\ MaxSize \in Nat /\ MaxImages \in Nat
=============================================================================
