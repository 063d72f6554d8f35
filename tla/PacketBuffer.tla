---------------------------- MODULE PacketBuffer ----------------------------
(***************************************************************************)
(* The bounded buffer between two threads of the C++ serial forwarder      *)
(* (tools/tinyos/cpp/sf/packetbuffer.cpp).  An operation holds the mutex   *)
(* from its first test to its last assignment, so it is one step, and the  *)
(* waits on `notempty' and `notfull' are its guards: dequeue() frees one   *)
(* place and wakes one of the threads that wait for one, an enqueue        *)
(* likewise.  The argument `buffer' is a variable of the caller.           *)
(***************************************************************************)
EXTENDS Sequences, Naturals

CONSTANT cMaxBufferSize

ASSUME BufferAssumption == cMaxBufferSize \in Nat \ {0}

isFull(buffer) == Len(buffer) >= cMaxBufferSize

enqueueBack(buffer, packet) ==
  /\ ~isFull(buffer)
  /\ buffer' = Append(buffer, packet)

enqueueFront(buffer, packet) ==
  /\ ~isFull(buffer)
  /\ buffer' = <<packet>> \o buffer

dequeue(buffer) ==
  /\ buffer # <<>>
  /\ buffer' = Tail(buffer)

clear(buffer) == buffer' = <<>>
=============================================================================
