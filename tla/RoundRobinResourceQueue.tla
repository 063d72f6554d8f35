---------------------- MODULE RoundRobinResourceQueue -----------------------
(***************************************************************************)
(* The queue of waiting clients of tos/system/RoundRobinResourceQueueC.nc: *)
(* a bit for each client, searched from the client served last.            *)
(***************************************************************************)
EXTENDS Integers

CONSTANTS size,      \* how many clients there are, numbered from 0
          NO_ENTRY   \* 0xFF in the code

Ids == 0..(size - 1)

VARIABLES
  resQ,        \* the clients whose bit is set
  last,        \* the client dequeued last, 0 before the first
  dequeued,    \* what dequeue returned last
  overtaken    \* history: overtaken[c], the clients dequeued while c waited

vars == <<resQ, last, dequeued, overtaken>>

TypeOK ==
  /\ resQ \subseteq Ids
  /\ last \in Ids
  /\ dequeued \in Ids \cup {NO_ENTRY}
  /\ overtaken \in [Ids -> SUBSET Ids]

(* Power-up or Init.init: no bit is set either way. *)
Init ==
  /\ resQ = {}
  /\ last = 0
  /\ dequeued = NO_ENTRY
  /\ overtaken = [c \in Ids |-> {}]

isEmpty == resQ = {}

isEnqueued(id) == id \in resQ

(* The loop of dequeue from its turn i on. *)
search[i \in 1..size] ==
  LET id == IF i = size THEN 0 ELSE i
  IN  IF isEnqueued(id) THEN id
      ELSE IF id = last THEN NO_ENTRY
      ELSE search[id + 1]

(* Mutant: the loop ends before the turn of the client served last. *)
searchShort[i \in 1..size] ==
  LET id == IF i = size THEN 0 ELSE i
  IN  IF id = last THEN NO_ENTRY
      ELSE IF isEnqueued(id) THEN id
      ELSE searchShort[id + 1]

foundShort == searchShort[last + 1]

found == search[last + 1]

(* Mutant: the next search starts from client 0. *)
dequeueFromZero ==
  IF found = NO_ENTRY
    THEN dequeued' = NO_ENTRY /\ UNCHANGED <<resQ, last, overtaken>>
    ELSE /\ dequeued' = found
         /\ resQ' = resQ \ {found}
         /\ last' = 0
         /\ overtaken' = [c \in Ids |->
                            IF c \in resQ' THEN overtaken[c] \cup {found} ELSE {}]

dequeue ==
  IF found = NO_ENTRY
    THEN dequeued' = NO_ENTRY /\ UNCHANGED <<resQ, last, overtaken>>
    ELSE /\ dequeued' = found
         /\ resQ' = resQ \ {found}
         /\ last' = found
         /\ overtaken' = [c \in Ids |->
                            IF c \in resQ' THEN overtaken[c] \cup {found} ELSE {}]

(* SUCCESS, or EBUSY and no effect when the client is enqueued. *)
enqueue(id) ==
  /\ resQ' = resQ \cup {id}
  /\ UNCHANGED <<last, dequeued, overtaken>>

Next == dequeue \/ \E id \in Ids : enqueue(id)

Spec == Init /\ [][Next]_vars

-----------------------------------------------------------------------------
(* Round robin: no client is overtaken twice by the same client while it   *)
(* waits, so that it is served after at most size - 1 others (the search   *)
(* of dequeue starts behind the client served last).                       *)
OvertakenOnce ==
  [][\A c \in resQ : c \in resQ' /\ dequeue => found \notin overtaken[c]]_vars

(* The search finds the waiting client that comes first behind the client  *)
(* served last, that client itself coming last of all, and finds no one    *)
(* only when no one waits.                                                 *)
distance(id) == (id + size - last - 1) % size
SearchFindsNearest ==
  IF isEmpty
    THEN found = NO_ENTRY
    ELSE found \in resQ /\ \A id \in resQ : distance(found) <= distance(id)
=============================================================================
