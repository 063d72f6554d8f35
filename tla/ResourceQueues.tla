--------------------------- MODULE ResourceQueues ---------------------------
(***************************************************************************)
(* The queue of waiting clients an arbiter is wired to: FcfsResourceQueueC *)
(* in FcfsArbiterC, RoundRobinResourceQueueC in RoundRobinArbiterC.  Both  *)
(* provide the interface ResourceQueue, and the wiring chooses one.        *)
(***************************************************************************)
EXTENDS FcfsResourceQueue

CONSTANT size   \* how many clients there are, numbered from 0

ASSUME SizeAssumption == size \in Nat \ {0} /\ Clients = 0..(size - 1)

VARIABLES
  wired,       \* "fcfs" or "roundRobin"
  bits, last,  \* resQ and last of RoundRobinResourceQueueC
  next,        \* what its dequeue returned last
  overtaken    \* history: overtaken[c], the clients it dequeued while c waited

rrVars == <<bits, last, next, overtaken>>
queuesVars == <<vars, wired, rrVars>>

RoundRobin == INSTANCE RoundRobinResourceQueue WITH resQ <- bits, dequeued <- next

QueuesInit == Init /\ RoundRobin!Init /\ wired \in {"fcfs", "roundRobin"}

QueuesNext ==
  \/ wired = "fcfs" /\ Next /\ UNCHANGED <<wired, rrVars>>
  \/ wired = "roundRobin" /\ RoundRobin!Next /\ UNCHANGED <<wired, vars>>

QueuesSpec == QueuesInit /\ [][QueuesNext]_queuesVars

-----------------------------------------------------------------------------
(* Whichever queue is wired, its variables keep their types. *)
QueuesTypeOK == TypeOK /\ RoundRobin!TypeOK /\ wired \in {"fcfs", "roundRobin"}

(* No client is overtaken twice by the same client while it waits in the   *)
(* round robin queue (dequeue of RoundRobinResourceQueueC.nc).             *)
OvertakenOnce == RoundRobin!OvertakenOnce

(* The search of the round robin queue finds the waiting client that comes *)
(* first behind the client served last, and no one only if no one waits.   *)
SearchFindsNearest == RoundRobin!SearchFindsNearest

(* That, with the types and the answers of the FCFS queue. *)
QueuesInv == QueuesTypeOK /\ AnswersExact /\ SearchFindsNearest
=============================================================================
