------------------------- MODULE FcfsResourceQueue --------------------------
(***************************************************************************)
(* The queue of waiting clients of tos/system/FcfsResourceQueueC.nc: a     *)
(* list threaded through resQ, with one slot for each client.              *)
(***************************************************************************)
EXTENDS Naturals, Sequences, SequencesExt

CONSTANTS Clients,   \* 0 .. size-1 in the code
          NO_ENTRY   \* 0xFF in the code

ASSUME NoEntryIsNoClient == NO_ENTRY \notin Clients

VARIABLES
  resQ, qHead, qTail,   \* the variables of FcfsResourceQueueC
  initialized,          \* Init.init has run
  dequeued,             \* what dequeue returned last
  queue                 \* history: the clients enqueued, oldest first

vars == <<resQ, qHead, qTail, initialized, dequeued, queue>>

TypeOK ==
  /\ resQ \in [Clients -> Clients \cup {NO_ENTRY}]
  /\ qHead \in Clients \cup {NO_ENTRY}
  /\ qTail \in Clients \cup {NO_ENTRY}
  /\ initialized \in BOOLEAN
  /\ dequeued \in Clients \cup {NO_ENTRY}
  /\ queue \in Seq(Clients) /\ IsInjective(queue)

(* Power-up: qHead and qTail have initial values, resQ reads 0. *)
Init ==
  /\ \E zero \in Clients : resQ = [c \in Clients |-> zero]
  /\ qHead = NO_ENTRY
  /\ qTail = NO_ENTRY
  /\ initialized = FALSE
  /\ dequeued = NO_ENTRY
  /\ queue = <<>>

(* Init.init, wired to MainC.SoftwareInit. *)
InitQueue ==
  /\ ~initialized
  /\ initialized' = TRUE
  /\ resQ' = [c \in Clients |-> NO_ENTRY]
  /\ UNCHANGED <<qHead, qTail, dequeued, queue>>

isEmpty == qHead = NO_ENTRY

isEnqueued(id) == resQ[id] # NO_ENTRY \/ qTail = id

dequeue ==
  /\ initialized
  /\ IF qHead # NO_ENTRY
       THEN /\ dequeued' = qHead
            /\ qHead' = resQ[qHead]
            /\ qTail' = IF qHead' = NO_ENTRY THEN NO_ENTRY ELSE qTail
            /\ resQ' = [resQ EXCEPT ![qHead] = NO_ENTRY]
            /\ queue' = Tail(queue)
       ELSE dequeued' = NO_ENTRY /\ UNCHANGED <<qHead, qTail, resQ, queue>>
  /\ UNCHANGED initialized

(* Mutant: the test of isEnqueued is left to the caller. *)
enqueueAgain(id) ==
  /\ initialized
  /\ qHead' = IF isEmpty THEN id ELSE qHead
  /\ resQ' = IF isEmpty THEN resQ ELSE [resQ EXCEPT ![qTail] = id]
  /\ qTail' = id
  /\ queue' = Append(queue, id)
  /\ UNCHANGED <<initialized, dequeued>>

(* SUCCESS, or EBUSY and no effect when the client is enqueued. *)
enqueue(id) ==
  /\ initialized
  /\ IF isEnqueued(id)
       THEN UNCHANGED <<resQ, qHead, qTail, queue>>
       ELSE /\ qHead' = IF isEmpty THEN id ELSE qHead
            /\ resQ' = IF isEmpty THEN resQ ELSE [resQ EXCEPT ![qTail] = id]
            /\ qTail' = id
            /\ queue' = Append(queue, id)
  /\ UNCHANGED <<initialized, dequeued>>

Next == InitQueue \/ dequeue \/ \E id \in Clients : enqueue(id)

Spec == Init /\ [][Next]_vars

-----------------------------------------------------------------------------
(* What ArbiterP asks of its queue is answered as a FIFO would: isEmpty,   *)
(* which decides whether a release gives the resource to the default owner,*)
(* and isEnqueued, which decides whether a request is refused.             *)
AnswersExact ==
  initialized =>
    /\ isEmpty <=> queue = <<>>
    /\ \A id \in Clients : isEnqueued(id) <=> Contains(queue, id)

(* The list is a FIFO in which a client waits at most once: the abstract   *)
(* `queue' of ArbiterP is what the list of FcfsResourceQueueC implements.  *)
Abstract ==
  INSTANCE TaskQueue WITH Tasks <- Clients, NO_TASK <- NO_ENTRY, started <- dequeued
RefinesFifo == Abstract!Spec
=============================================================================
