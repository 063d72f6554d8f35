------------------------- MODULE ResourceQueuesProofs -------------------------
(***************************************************************************)
(* For every set of clients: the list of FcfsResourceQueueC is the FIFO of *)
(* the waiting clients, and implements TaskQueue whichever queue an        *)
(* arbiter is wired to; the search of RoundRobinResourceQueueC finds the   *)
(* next client in turn, and nobody is overtaken twice by the same client.  *)
(*                                                                         *)
(* The search is a recursive function, and the provers have no induction;  *)
(* a least counterexample (WFMin) takes its place, and that the function   *)
(* exists at all is shown by one that is not recursive.                    *)
(***************************************************************************)
EXTENDS ResourceQueues, SequenceTheorems, WellFoundedInduction, TLAPS

Waits(t) == \E i \in 1..Len(queue) : queue[i] = t

(* What qHead, qTail and resQ hold once Init.init has run. *)
ListIsQueue ==
  /\ queue = <<>> => qHead = NO_ENTRY /\ qTail = NO_ENTRY
  /\ queue # <<>> => /\ qHead = queue[1]
                     /\ qTail = queue[Len(queue)]
                     /\ resQ[queue[Len(queue)]] = NO_ENTRY
  /\ \A i \in 1..Len(queue) : \A j \in 1..Len(queue) : queue[i] = queue[j] => i = j
  /\ \A i \in 1..(Len(queue) - 1) : resQ[queue[i]] = queue[i + 1]
  /\ \A t \in Clients : ~Waits(t) => resQ[t] = NO_ENTRY

IndInv ==
  /\ TypeOK
  /\ initialized => ListIsQueue
  /\ ~initialized => queue = <<>> /\ qHead = NO_ENTRY /\ qTail = NO_ENTRY

(* enqueue keeps the types and the list, and only appends. *)
LEMMA EnqueueKeepsList ==
  ASSUME TypeOK, ListIsQueue, initialized,
         NEW t \in Clients, enqueue(t)
  PROVE  /\ qHead' \in Clients \cup {NO_ENTRY}
         /\ qTail' \in Clients \cup {NO_ENTRY}
         /\ resQ' \in [Clients -> Clients \cup {NO_ENTRY}]
         /\ queue' \in Seq(Clients)
         /\ ListIsQueue'
<1> USE NoEntryIsNoClient
<1>1. CASE isEnqueued(t)
  BY <1>1 DEF enqueue, isEmpty, TypeOK, ListIsQueue, Waits
<1>2. CASE ~isEnqueued(t)
  <2>1. /\ resQ[t] = NO_ENTRY
        /\ qTail # t
        /\ queue' = Append(queue, t)
        /\ qTail' = t
        /\ queue \in Seq(Clients)
    BY <1>2 DEF isEnqueued, enqueue, isEmpty, TypeOK
  <2>2. ~Waits(t)
    BY <2>1 DEF ListIsQueue, TypeOK, Waits
  <2>3. /\ Len(queue') = Len(queue) + 1
        /\ queue' \in Seq(Clients)
        /\ \A i \in 1..Len(queue) : queue'[i] = queue[i]
        /\ queue'[Len(queue) + 1] = t
        /\ queue' # <<>>
    BY <2>1
  <2>4. CASE qHead = NO_ENTRY
    <3>1. queue = <<>>
      BY <2>4, <2>1 DEF ListIsQueue, TypeOK
    <3>2. qHead' = t /\ resQ' = resQ
      BY <1>2, <2>4 DEF enqueue, isEmpty
    <3>. QED
      BY <2>1, <2>3, <3>1, <3>2 DEF ListIsQueue, TypeOK, Waits
  <2>5. CASE qHead # NO_ENTRY
    <3>1. queue # <<>>
      BY <2>5 DEF ListIsQueue
    <3>2. qHead' = qHead /\ resQ' = [resQ EXCEPT ![qTail] = t]
      BY <1>2, <2>5 DEF enqueue, isEmpty
    <3>3. /\ qTail = queue[Len(queue)]
          /\ Len(queue) \in 1..Len(queue)
          /\ qTail \in Clients
          /\ qHead = queue[1]
          /\ qHead \in Clients
      BY <3>1, <2>1 DEF ListIsQueue
    <3>4. \A i \in 1..(Len(queue') - 1) : resQ'[queue'[i]] = queue'[i + 1]
      <4> SUFFICES ASSUME NEW i \in 1..Len(queue)
                   PROVE  resQ'[queue'[i]] = queue'[i + 1]
        BY <2>3, <2>1
      <4>1. CASE i = Len(queue)
        BY <4>1, <2>3, <3>2, <3>3 DEF TypeOK
      <4>2. CASE i # Len(queue)
        <5>1. i \in 1..(Len(queue) - 1) /\ queue[i] \in Clients /\ queue[i] # qTail
          BY <4>2, <3>3, <2>1 DEF ListIsQueue
        <5>. QED
          BY <5>1, <2>3, <3>2, <2>1 DEF ListIsQueue, TypeOK
      <4>. QED BY <4>1, <4>2
    <3>5. resQ'[t] = NO_ENTRY
      BY <2>1, <3>2 DEF TypeOK
    <3>6. \A i \in 1..Len(queue') : \A j \in 1..Len(queue') : queue'[i] = queue'[j] => i = j
      BY <2>1, <2>2, <2>3 DEF ListIsQueue, Waits
    <3>7. \A s \in Clients : ~Waits(s)' => resQ'[s] = NO_ENTRY
      <4> SUFFICES ASSUME NEW s \in Clients, ~Waits(s)'
                   PROVE  resQ'[s] = NO_ENTRY
        OBVIOUS
      <4>1. ~Waits(s) /\ s # qTail
        BY <2>1, <2>3, <3>3 DEF Waits
      <4>. QED
        BY <4>1, <3>2 DEF ListIsQueue, TypeOK
    <3>8. resQ' \in [Clients -> Clients \cup {NO_ENTRY}]
      BY <3>2 DEF TypeOK
    <3>9. queue'[1] = qHead' /\ queue'[Len(queue')] = qTail' /\ resQ'[queue'[Len(queue')]] = NO_ENTRY
      BY <2>1, <2>3, <3>2, <3>3, <3>5
    <3>. QED
      BY <2>1, <2>3, <3>2, <3>3, <3>4, <3>6, <3>7, <3>8, <3>9 DEF ListIsQueue
  <2>. QED BY <2>4, <2>5
<1>. QED BY <1>1, <1>2

(* dequeue keeps the types and the list, and takes the oldest client. *)
LEMMA DequeueKeepsList ==
  ASSUME TypeOK, ListIsQueue, initialized, dequeue
  PROVE  /\ qHead' \in Clients \cup {NO_ENTRY}
         /\ qTail' \in Clients \cup {NO_ENTRY}
         /\ resQ' \in [Clients -> Clients \cup {NO_ENTRY}]
         /\ dequeued' \in Clients \cup {NO_ENTRY}
         /\ queue' \in Seq(Clients)
         /\ ListIsQueue'
         /\ qHead = NO_ENTRY => queue = <<>> /\ queue' = <<>> /\ dequeued' = NO_ENTRY
         /\ qHead # NO_ENTRY => /\ queue # <<>>
                                /\ queue' = Tail(queue)
                                /\ dequeued' = Head(queue)
<1> USE NoEntryIsNoClient
<1>1. CASE qHead = NO_ENTRY
  BY <1>1 DEF dequeue, TypeOK, ListIsQueue, Waits
<1>2. CASE qHead # NO_ENTRY
  <2>1. /\ queue # <<>>
        /\ queue \in Seq(Clients)
        /\ qHead = queue[1]
        /\ qTail = queue[Len(queue)]
        /\ resQ[queue[Len(queue)]] = NO_ENTRY
        /\ qHead \in Clients
    BY <1>2 DEF ListIsQueue, TypeOK
  <2>2. /\ queue' = Tail(queue)
        /\ dequeued' = qHead
        /\ qHead' = resQ[qHead]
        /\ qTail' = IF resQ[qHead] = NO_ENTRY THEN NO_ENTRY ELSE qTail
        /\ resQ' = [resQ EXCEPT ![qHead] = NO_ENTRY]
    BY <1>2 DEF dequeue
  <2>3. /\ Len(queue') = Len(queue) - 1
        /\ queue' \in Seq(Clients)
        /\ \A i \in 1..Len(queue') : queue'[i] = queue[i + 1]
        /\ Len(queue) \in Nat \ {0}
        /\ Len(queue') \in Nat
    BY <2>1, <2>2
  <2>4. \A i \in 1..Len(queue') : queue'[i] # qHead /\ queue'[i] \in Clients
    BY <2>1, <2>3 DEF ListIsQueue
  <2>5. resQ' \in [Clients -> Clients \cup {NO_ENTRY}]
    BY <2>1, <2>2 DEF TypeOK
  <2>6. \A i \in 1..(Len(queue') - 1) : resQ'[queue'[i]] = queue'[i + 1]
    <3> SUFFICES ASSUME NEW i \in 1..(Len(queue') - 1)
                 PROVE  resQ'[queue'[i]] = queue'[i + 1]
      OBVIOUS
    <3>1. i \in 1..Len(queue') /\ i + 1 \in 1..Len(queue') /\ i + 1 \in 1..(Len(queue) - 1)
      BY <2>3
    <3>2. resQ'[queue'[i]] = resQ[queue'[i]]
      BY <2>2, <2>4, <3>1 DEF TypeOK
    <3>. QED BY <3>1, <3>2, <2>3 DEF ListIsQueue
  <2>7. \A i \in 1..Len(queue') : \A j \in 1..Len(queue') : queue'[i] = queue'[j] => i = j
    <3> SUFFICES ASSUME NEW i \in 1..Len(queue'), NEW j \in 1..Len(queue'), queue'[i] = queue'[j]
                 PROVE  i = j
      OBVIOUS
    <3>1. i + 1 \in 1..Len(queue) /\ j + 1 \in 1..Len(queue) /\ queue[i + 1] = queue[j + 1]
      BY <2>3
    <3>2. i + 1 = j + 1
      BY <3>1 DEF ListIsQueue
    <3>. QED BY <3>2
  <2>8. \A t \in Clients : ~Waits(t)' => resQ'[t] = NO_ENTRY
    <3> SUFFICES ASSUME NEW t \in Clients, ~Waits(t)'
                 PROVE  resQ'[t] = NO_ENTRY
      OBVIOUS
    <3>1. CASE t = qHead
      BY <3>1, <2>1, <2>2 DEF TypeOK
    <3>2. CASE t # qHead
      <4>1. ~Waits(t)
        <5> SUFFICES ASSUME NEW k \in 1..Len(queue), queue[k] = t
                     PROVE  FALSE
          BY DEF Waits
        <5>1. k # 1
          BY <2>1, <3>2
        <5>2. k - 1 \in 1..Len(queue') /\ queue'[k - 1] = t
          BY <5>1, <2>3
        <5>. QED BY <5>2 DEF Waits
      <4>. QED BY <4>1, <2>2, <3>2 DEF ListIsQueue, TypeOK
    <3>. QED BY <3>1, <3>2
  <2>9. /\ queue' = <<>> => qHead' = NO_ENTRY /\ qTail' = NO_ENTRY
        /\ queue' # <<>> => /\ qHead' = queue'[1]
                           /\ qTail' = queue'[Len(queue')]
                           /\ resQ'[queue'[Len(queue')]] = NO_ENTRY
    <3>1. CASE Len(queue) = 1
      <4>1. queue' = <<>>
        BY <3>1, <2>3
      <4>. QED BY <4>1, <3>1, <2>1, <2>2
    <3>2. CASE Len(queue) # 1
      <4>1. /\ queue' # <<>>
            /\ 1 \in 1..(Len(queue) - 1)
            /\ 1 \in 1..Len(queue')
            /\ Len(queue') \in 1..Len(queue')
        BY <3>2, <2>3
      <4>2. resQ[qHead] = queue[2] /\ queue[2] = queue'[1] /\ queue[2] \in Clients
        BY <4>1, <2>1, <2>3, <2>4 DEF ListIsQueue
      <4>3. queue'[Len(queue')] = queue[Len(queue)]
        BY <4>1, <2>3
      <4>4. resQ'[queue'[Len(queue')]] = NO_ENTRY
        BY <4>1, <4>3, <2>1, <2>2, <2>4 DEF TypeOK
      <4>. QED BY <4>1, <4>2, <4>3, <4>4, <2>1, <2>2
    <3>. QED BY <3>1, <3>2
  <2>10. qHead' \in Clients \cup {NO_ENTRY} /\ qTail' \in Clients \cup {NO_ENTRY}
    BY <2>1, <2>2 DEF TypeOK
  <2>11. ListIsQueue'
    BY <2>6, <2>7, <2>8, <2>9 DEF ListIsQueue
  <2>. QED BY <1>2, <2>1, <2>2, <2>3, <2>5, <2>10, <2>11
<1>. QED BY <1>1, <1>2
(* The test by which enqueue refuses a client is exact. *)
LEMMA ListGivesIsEnqueued ==
  ASSUME TypeOK, ListIsQueue, NEW t \in Clients
  PROVE  isEnqueued(t) <=> Waits(t)
<1>1. CASE Waits(t)
  <2>1. PICK i \in 1..Len(queue) : queue[i] = t
    BY <1>1 DEF Waits
  <2>2. CASE i = Len(queue)
    BY <1>1, <2>1, <2>2 DEF ListIsQueue, TypeOK, isEnqueued
  <2>3. CASE i # Len(queue)
    <3>1. i \in 1..(Len(queue) - 1) /\ i + 1 \in 1..Len(queue) /\ queue[i + 1] \in Clients
      BY <2>1, <2>3 DEF TypeOK
    <3>. QED
      BY <2>1, <3>1, NoEntryIsNoClient DEF ListIsQueue, isEnqueued
  <2>. QED BY <2>2, <2>3
<1>2. CASE ~Waits(t)
  <2>1. resQ[t] = NO_ENTRY
    BY <1>2 DEF ListIsQueue
  <2>2. qTail # t
    <3>1. queue = <<>> => qTail = NO_ENTRY
      BY DEF ListIsQueue
    <3>2. queue # <<>> => qTail = queue[Len(queue)] /\ Len(queue) \in 1..Len(queue)
      BY DEF ListIsQueue, TypeOK
    <3>. QED
      BY <1>2, <3>1, <3>2, NoEntryIsNoClient DEF Waits
  <2>. QED BY <1>2, <2>1, <2>2 DEF isEnqueued
<1>. QED BY <1>1, <1>2

-----------------------------------------------------------------------------
LEMMA InitIndInv == Init => IndInv
<1>. SUFFICES ASSUME Init
              PROVE  IndInv
  OBVIOUS
<1>1. PICK zero \in Clients : resQ = [c \in Clients |-> zero]
  BY DEF Init
<1>2. queue = <<>> /\ queue \in Seq(Clients) /\ IsInjective(queue)
  BY DEF Init, IsInjective
<1>. QED
  BY <1>1, <1>2 DEF Init, IndInv, TypeOK

(* Distinct places of the queue hold distinct clients. *)
LEMMA Injective ==
  ASSUME NEW q \in Seq(Clients),
         \A i \in 1..Len(q) : \A j \in 1..Len(q) : q[i] = q[j] => i = j
  PROVE  IsInjective(q)
  BY DEF IsInjective

LEMMA StepKeeps == IndInv /\ [Next]_vars => IndInv'
<1>. SUFFICES ASSUME IndInv, [Next]_vars
              PROVE  IndInv'
  OBVIOUS
<1>. USE NoEntryIsNoClient
<1>1. CASE InitQueue
  <2>1. /\ ~initialized /\ initialized'
        /\ resQ' = [c \in Clients |-> NO_ENTRY]
        /\ UNCHANGED <<qHead, qTail, dequeued, queue>>
    BY <1>1 DEF InitQueue
  <2>2. TypeOK'
    BY <2>1 DEF IndInv, TypeOK
  <2>3. ListIsQueue'
    BY <2>1 DEF IndInv, ListIsQueue
  <2>. QED
    BY <2>1, <2>2, <2>3 DEF IndInv
<1>2. CASE dequeue
  <2>1. initialized /\ initialized' = initialized
    BY <1>2 DEF dequeue
  <2>2. /\ qHead' \in Clients \cup {NO_ENTRY} /\ qTail' \in Clients \cup {NO_ENTRY}
        /\ resQ' \in [Clients -> Clients \cup {NO_ENTRY}]
        /\ dequeued' \in Clients \cup {NO_ENTRY}
        /\ queue' \in Seq(Clients) /\ ListIsQueue'
    BY <1>2, <2>1, DequeueKeepsList DEF IndInv
  <2>3. IsInjective(queue')
    BY <2>2, Injective DEF ListIsQueue
  <2>. QED
    BY <2>1, <2>2, <2>3 DEF IndInv, TypeOK
<1>3. ASSUME NEW t \in Clients, enqueue(t)
      PROVE  IndInv'
  <2>1. initialized /\ initialized' = initialized /\ dequeued' = dequeued
    BY <1>3 DEF enqueue
  <2>2. /\ qHead' \in Clients \cup {NO_ENTRY} /\ qTail' \in Clients \cup {NO_ENTRY}
        /\ resQ' \in [Clients -> Clients \cup {NO_ENTRY}]
        /\ queue' \in Seq(Clients) /\ ListIsQueue'
    BY <1>3, <2>1, EnqueueKeepsList DEF IndInv
  <2>3. IsInjective(queue')
    BY <2>2, Injective DEF ListIsQueue
  <2>. QED
    BY <2>1, <2>2, <2>3 DEF IndInv, TypeOK
<1>4. CASE UNCHANGED vars
  BY <1>4 DEF vars, IndInv, TypeOK, ListIsQueue, Waits
<1>. QED
  BY <1>1, <1>2, <1>3, <1>4 DEF Next

LEMMA Inductive == QueuesSpec => []IndInv
<1>1. QueuesInit => IndInv
  BY InitIndInv DEF QueuesInit
<1>2. [QueuesNext]_queuesVars => [Next]_vars
  BY DEF QueuesNext, queuesVars
<1>3. IndInv /\ [QueuesNext]_queuesVars => IndInv'
  BY <1>2, StepKeeps
<1>. QED
  BY <1>1, <1>3, PTL DEF QueuesSpec

(* isEmpty and isEnqueued answer as a FIFO would: a request is refused     *)
(* exactly when its client waits, and the default owner gets the resource  *)
(* exactly when nobody does.                                               *)
THEOREM FcfsAnswers == QueuesSpec => []AnswersExact
<1>1. ASSUME IndInv
      PROVE  AnswersExact
  <2>. SUFFICES ASSUME initialized
                PROVE  /\ isEmpty <=> queue = <<>>
                       /\ \A id \in Clients : isEnqueued(id) <=> Contains(queue, id)
    BY DEF AnswersExact
  <2>1. TypeOK /\ ListIsQueue
    BY <1>1 DEF IndInv
  <2>2. isEmpty <=> queue = <<>>
    BY <2>1, NoEntryIsNoClient DEF isEmpty, ListIsQueue, TypeOK
  <2>3. \A id \in Clients : Waits(id) <=> Contains(queue, id)
    BY DEF Waits, Contains
  <2>. QED
    BY <2>1, <2>2, <2>3, ListGivesIsEnqueued
<1>. QED
  BY <1>1, Inductive, PTL

(* Every step of the list is one of the abstract FIFO or a stutter of it.  *)
THEOREM FcfsRefines == QueuesSpec => RefinesFifo
<1>1. QueuesInit => Abstract!Init
  BY DEF QueuesInit, Init, Abstract!Init
<1>2. IndInv /\ [QueuesNext]_queuesVars => [Abstract!Next]_<<queue, dequeued>>
  <2>. SUFFICES ASSUME IndInv, [Next]_vars
                PROVE  [Abstract!Next]_<<queue, dequeued>>
    BY DEF QueuesNext, queuesVars
  <2>1. CASE InitQueue \/ UNCHANGED vars
    BY <2>1 DEF InitQueue, vars
  <2>2. CASE dequeue
    BY <2>2, DequeueKeepsList DEF IndInv, dequeue, Abstract!Next, Abstract!Start,
       Abstract!FindNothing
  <2>3. ASSUME NEW t \in Clients, enqueue(t)
        PROVE  Abstract!Post(t)
    <3>1. isEnqueued(t) <=> Abstract!Waiting(t)
      BY <2>3, ListGivesIsEnqueued DEF enqueue, IndInv, Waits, Abstract!Waiting
    <3>. QED
      BY <2>3, <3>1 DEF enqueue, Abstract!Post
  <2>. QED
    BY <2>1, <2>2, <2>3 DEF Next, Abstract!Next
<1>. QED
  BY <1>1, <1>2, Inductive, PTL DEF QueuesSpec, RefinesFifo, Abstract!Spec, Abstract!qvars

-----------------------------------------------------------------------------
(* The round behind client x: the clients after it, then those before it,  *)
(* itself last.                                                            *)
Behind(c, x) == IF c > x THEN c - x - 1 ELSE c + size - x - 1

LEMMA SomeClients == size \in Nat \ {0} /\ Clients = 0..(size - 1) /\ RoundRobin!Ids = Clients
  BY SizeAssumption DEF RoundRobin!Ids

(* The distance of the code, taken modulo size, is the place in the round. *)
LEMMA Round ==
  ASSUME NEW c \in Clients, NEW x \in Clients
  PROVE  (c + size - x - 1) % size = Behind(c, x)
  BY SomeClients DEF Behind

LEMMA OnePlaceEach ==
  ASSUME NEW c \in Clients, NEW d \in Clients, NEW x \in Clients, c # d
  PROVE  Behind(c, x) # Behind(d, x)
  BY SomeClients DEF Behind

LEMMA Places ==
  ASSUME NEW c \in Clients, NEW x \in Clients
  PROVE  /\ Behind(c, x) \in Nat
         /\ Behind(c, x) <= size - 1
         /\ Behind(c, x) = size - 1 <=> c = x
  BY SomeClients DEF Behind

(* A set of numbers that is not empty has a least one. *)
LEMMA Least ==
  ASSUME NEW T, T \subseteq Nat, T # {}
  PROVE  \E k \in T : \A l \in T : k <= l
<1>1. IsWellFoundedOn({pair \in Nat \X Nat : pair[1] < pair[2]}, Nat)
  BY NatLessThanWellFounded DEF OpToRel
<1>2. PICK k \in T : \A l \in T : <<l, k>> \notin {pair \in Nat \X Nat : pair[1] < pair[2]}
  BY <1>1, WFMin, Zenon
<1>3. \A l \in T : ~(l < k)
  BY <1>2
<1>. QED
  BY <1>3

(* A set of clients that is not empty has one that comes first. *)
LEMMA SomeoneIsFirst ==
  ASSUME NEW x \in Clients, NEW S, S \subseteq Clients, S # {}
  PROVE  \E c \in S : \A d \in S : Behind(c, x) <= Behind(d, x)
<1>1. {Behind(d, x) : d \in S} \subseteq Nat /\ {Behind(d, x) : d \in S} # {}
  <2>1. \A d \in S : Behind(d, x) \in Nat
    BY Places
  <2>. QED
    BY <2>1
<1>2. PICK k \in {Behind(d, x) : d \in S} : \A l \in {Behind(d, x) : d \in S} : k <= l
  BY <1>1, Least
<1>. QED
  BY <1>2

-----------------------------------------------------------------------------
(* The loop of dequeue, for the clients S and the client x served last.    *)

Id(i) == IF i = size THEN 0 ELSE i

Turn(f, S, x, i) ==
  IF Id(i) \in S THEN Id(i) ELSE IF Id(i) = x THEN NO_ENTRY ELSE f[Id(i) + 1]

Loop(f, S, x) == f = [i \in 1..size |-> Turn(f, S, x, i)]

(* The clients that turn i and those after it look at. *)
Ahead(S, x, i) == {c \in S : Behind(c, x) >= Behind(Id(i), x)}

(* f[i] is the first of them, if there is one. *)
Finds(f, S, x, i) ==
  IF Ahead(S, x, i) = {}
    THEN f[i] = NO_ENTRY
    ELSE f[i] \in Ahead(S, x, i) /\ \A d \in Ahead(S, x, i) : Behind(f[i], x) <= Behind(d, x)

LEMMA NextTurn ==
  ASSUME NEW x \in Clients, NEW i \in 1..size
  PROVE  /\ Id(i) \in Clients
         /\ Id(i) # x => /\ Id(i) + 1 \in 1..size
                         /\ Behind(Id(Id(i) + 1), x) = Behind(Id(i), x) + 1
  BY SomeClients DEF Id, Behind

(* What lies ahead at each turn of the loop. *)
LEMMA AheadAtTurn ==
  ASSUME NEW x \in Clients, NEW S, S \subseteq Clients, NEW i \in 1..size
  PROVE  /\ Id(i) \in S => /\ Id(i) \in Ahead(S, x, i)
                           /\ \A d \in Ahead(S, x, i) : Behind(Id(i), x) <= Behind(d, x)
         /\ Id(i) \notin S /\ Id(i) = x => Ahead(S, x, i) = {}
         /\ Id(i) \notin S /\ Id(i) # x => Ahead(S, x, Id(i) + 1) = Ahead(S, x, i)
<1>1. Id(i) \in Clients
  BY NextTurn
<1>2. /\ \A c \in Clients : Behind(c, x) \in Nat
      /\ \A c \in S : Behind(c, x) \in Nat /\ Behind(c, x) <= size - 1
  BY Places
<1>3. Id(i) \in S => /\ Id(i) \in Ahead(S, x, i)
                     /\ \A d \in Ahead(S, x, i) : Behind(Id(i), x) <= Behind(d, x)
  BY <1>1, <1>2, SomeClients DEF Ahead
<1>4. ASSUME Id(i) \notin S, Id(i) = x
      PROVE  Ahead(S, x, i) = {}
  <2>1. \A c \in S : Behind(c, x) # size - 1
    BY <1>4, Places
  <2>2. Behind(Id(i), x) = size - 1
    BY <1>1, <1>4, Places
  <2>3. \A c \in S : ~(Behind(c, x) >= Behind(Id(i), x))
    BY <1>2, <2>1, <2>2, SomeClients
  <2>. QED
    BY <2>3 DEF Ahead
<1>5. ASSUME Id(i) \notin S, Id(i) # x
      PROVE  Ahead(S, x, Id(i) + 1) = Ahead(S, x, i)
  <2>1. Behind(Id(Id(i) + 1), x) = Behind(Id(i), x) + 1
    BY <1>5, NextTurn
  <2>2. \A c \in S : Behind(c, x) # Behind(Id(i), x)
    BY <1>1, <1>5, OnePlaceEach
  <2>3. \A c \in S : Behind(c, x) >= Behind(Id(i), x) + 1 <=> Behind(c, x) >= Behind(Id(i), x)
    <3>1. ASSUME NEW m \in Nat, NEW n \in Nat, m # n
          PROVE  m >= n + 1 <=> m >= n
      BY <3>1
    <3>2. Behind(Id(i), x) \in Nat
      BY <1>1, <1>2
    <3>. QED
      BY <1>2, <2>2, <3>1, <3>2
  <2>. QED
    BY <2>1, <2>3 DEF Ahead
<1>. QED
  BY <1>3, <1>4, <1>5

(* There is such a function. *)
LEMMA LoopExists ==
  ASSUME NEW x \in Clients, NEW S, S \subseteq Clients
  PROVE  \E f : Loop(f, S, x)
<1> DEFINE First(T) == CHOOSE c \in T : \A d \in T : Behind(c, x) <= Behind(d, x)
           g == [i \in 1..size |->
                   IF Ahead(S, x, i) = {} THEN NO_ENTRY ELSE First(Ahead(S, x, i))]
<1>1. ASSUME NEW i \in 1..size
      PROVE  g[i] = Turn(g, S, x, i)
  <2>1. CASE Id(i) \in S
    <3>1. /\ Id(i) \in Ahead(S, x, i)
          /\ \A d \in Ahead(S, x, i) : Behind(Id(i), x) <= Behind(d, x)
      BY <2>1, AheadAtTurn
    <3>2. /\ First(Ahead(S, x, i)) \in Ahead(S, x, i)
          /\ Behind(First(Ahead(S, x, i)), x) <= Behind(Id(i), x)
      BY <3>1
    <3>3. First(Ahead(S, x, i)) \in Clients /\ Id(i) \in Clients
      BY <3>1, <3>2 DEF Ahead
    <3>4. Behind(First(Ahead(S, x, i)), x) = Behind(Id(i), x)
      <4>1. Behind(Id(i), x) <= Behind(First(Ahead(S, x, i)), x)
        BY <3>1, <3>2
      <4>2. Behind(First(Ahead(S, x, i)), x) \in Int /\ Behind(Id(i), x) \in Int
        BY <3>3, Places
      <4>. QED
        BY <3>2, <4>1, <4>2
    <3>5. First(Ahead(S, x, i)) = Id(i)
      BY <3>3, <3>4, OnePlaceEach
    <3>. QED
      BY <2>1, <3>1, <3>5 DEF Turn
  <2>2. CASE Id(i) \notin S /\ Id(i) = x
    BY <2>2, AheadAtTurn DEF Turn
  <2>3. CASE Id(i) \notin S /\ Id(i) # x
    <3>1. Id(i) + 1 \in 1..size
      BY <2>3, NextTurn
    <3>2. Ahead(S, x, Id(i) + 1) = Ahead(S, x, i)
      BY <2>3, AheadAtTurn
    <3>3. g[Id(i) + 1] = g[i]
      <4> HIDE DEF First
      <4>1. g[Id(i) + 1] = IF Ahead(S, x, Id(i) + 1) = {} THEN NO_ENTRY
                                                          ELSE First(Ahead(S, x, Id(i) + 1))
        BY <3>1
      <4>. QED
        BY <3>2, <4>1
    <3>. QED
      BY <2>3, <3>3 DEF Turn
  <2>. QED
    BY <2>1, <2>2, <2>3, Zenon
<1>2. g = [i \in 1..size |-> g[i]]
  OBVIOUS
<1>. HIDE DEF g
<1>3. Loop(g, S, x)
  BY <1>1, <1>2 DEF Loop
<1>. QED
  BY <1>3

(* It finds the first of the clients ahead. *)
LEMMA LoopFinds ==
  ASSUME NEW x \in Clients, NEW S, S \subseteq Clients, NEW f, Loop(f, S, x),
         NEW i \in 1..size
  PROVE  Finds(f, S, x, i)
<1> DEFINE Bad == {j \in 1..size : ~Finds(f, S, x, j)}
           Left(j) == size - 1 - Behind(Id(j), x)
<1>1. SUFFICES ASSUME Bad # {}
               PROVE  FALSE
  OBVIOUS
<1>2. \A j \in 1..size : Left(j) \in Nat
  <2>1. ASSUME NEW j \in 1..size
        PROVE  Left(j) \in Nat
    <3>1. Behind(Id(j), x) \in Nat /\ Behind(Id(j), x) <= size - 1
      BY NextTurn, Places
    <3>. QED
      BY <3>1, SomeClients
  <2>. QED
    BY <2>1
<1>3. PICK j \in Bad : \A k \in Bad : Left(j) <= Left(k)
  <2> HIDE DEF Left
  <2>1. {Left(k) : k \in Bad} \subseteq Nat /\ {Left(k) : k \in Bad} # {}
    BY <1>1, <1>2
  <2>2. PICK l \in {Left(k) : k \in Bad} : \A m \in {Left(k) : k \in Bad} : l <= m
    BY <2>1, Least
  <2>. QED
    BY <2>2
<1>4. j \in 1..size /\ ~Finds(f, S, x, j)
  OBVIOUS
<1>5. f[j] = Turn(f, S, x, j)
  BY <1>4 DEF Loop
<1>6. CASE Id(j) \in S
  <2>1. f[j] = Id(j)
    BY <1>5, <1>6 DEF Turn
  <2>. QED
    BY <1>4, <1>6, <2>1, AheadAtTurn DEF Finds
<1>7. CASE Id(j) \notin S /\ Id(j) = x
  <2>1. f[j] = NO_ENTRY
    BY <1>5, <1>7 DEF Turn
  <2>. QED
    BY <1>4, <1>7, <2>1, AheadAtTurn DEF Finds
<1>8. CASE Id(j) \notin S /\ Id(j) # x
  <2>1. f[j] = f[Id(j) + 1]
    BY <1>5, <1>8 DEF Turn
  <2>2. Id(j) + 1 \in 1..size /\ Left(Id(j) + 1) < Left(j)
    <3>1. Id(j) + 1 \in 1..size /\ Behind(Id(Id(j) + 1), x) = Behind(Id(j), x) + 1
      BY <1>4, <1>8, NextTurn
    <3>2. Behind(Id(j), x) \in Nat
      BY <1>4, NextTurn, Places
    <3>. QED
      BY <3>1, <3>2, SomeClients
  <2>3. ~(Left(j) <= Left(Id(j) + 1))
    BY <1>2, <1>4, <2>2
  <2>4. Finds(f, S, x, Id(j) + 1)
    BY <1>3, <2>2, <2>3
  <2>5. Ahead(S, x, Id(j) + 1) = Ahead(S, x, j)
    BY <1>4, <1>8, AheadAtTurn
  <2>. QED
    BY <1>4, <2>1, <2>4, <2>5 DEF Finds
<1>. QED
  BY <1>6, <1>7, <1>8

(* The search of the code is such a loop. *)
LEMMA SearchLoops ==
  ASSUME bits \subseteq Clients, last \in Clients
  PROVE  Loop(RoundRobin!search, bits, last)
<1>1. \E f : f = [i \in 1..size |-> Turn(f, bits, last, i)]
  BY LoopExists DEF Loop
<1>2. RoundRobin!search = CHOOSE f : f = [i \in 1..size |-> Turn(f, bits, last, i)]
  BY Zenon DEF RoundRobin!search, RoundRobin!isEnqueued, Turn, Id
<1>. QED
  BY <1>1, <1>2, Zenon DEF Loop

(* It finds the client that comes first behind the client served last. *)
LEMMA SearchIsFair ==
  ASSUME bits \subseteq Clients, last \in Clients
  PROVE  IF bits = {}
           THEN RoundRobin!found = NO_ENTRY
           ELSE /\ RoundRobin!found \in bits
                /\ \A d \in bits : Behind(RoundRobin!found, last) <= Behind(d, last)
<1>1. last + 1 \in 1..size
  BY SomeClients
<1>2. Finds(RoundRobin!search, bits, last, last + 1)
  BY <1>1, SearchLoops, LoopFinds
<1>3. Ahead(bits, last, last + 1) = bits
  <2>1. Behind(Id(last + 1), last) = 0
    BY SomeClients DEF Behind, Id
  <2>2. \A c \in bits : Behind(c, last) >= 0
    BY Places
  <2>. QED
    BY <2>1, <2>2 DEF Ahead
<1>. QED
  BY <1>2, <1>3 DEF Finds, RoundRobin!found

-----------------------------------------------------------------------------
(* Who waits comes sooner in the round than everyone who overtook it.      *)
TurnsInv ==
  /\ \A d \in Clients : d \notin bits => overtaken[d] = {}
  /\ \A d \in bits : \A c \in overtaken[d] : Behind(d, last) < Behind(c, last)

RoundInv == RoundRobin!TypeOK /\ wired \in {"fcfs", "roundRobin"} /\ TurnsInv

LEMMA RoundInit == QueuesInit => RoundInv
  BY SomeClients DEF QueuesInit, RoundInv, RoundRobin!TypeOK, RoundRobin!Init, TurnsInv

(* The round behind f, for those who come after f in the round behind x. *)
LEMMA NextRound ==
  ASSUME NEW c \in Clients, NEW f \in Clients, NEW x \in Clients,
         Behind(f, x) < Behind(c, x)
  PROVE  Behind(c, f) = Behind(c, x) - Behind(f, x) - 1
  BY SomeClients DEF Behind

(* Whoever is dequeued has overtaken no one who goes on waiting. *)
LEMMA NotTwice ==
  ASSUME RoundInv, RoundRobin!dequeue, NEW d \in bits, d \in bits'
  PROVE  RoundRobin!found \in bits /\ d # RoundRobin!found
         /\ RoundRobin!found \notin overtaken[d]
         /\ Behind(RoundRobin!found, last) < Behind(d, last)
<1>1. bits \subseteq Clients /\ last \in Clients
  BY SomeClients DEF RoundInv, RoundRobin!TypeOK
<1>2. /\ RoundRobin!found \in bits
      /\ Behind(RoundRobin!found, last) <= Behind(d, last)
  BY <1>1, SearchIsFair
<1>3. d # RoundRobin!found
  BY <1>1, <1>2, NoEntryIsNoClient DEF RoundRobin!dequeue
<1>4. /\ Behind(RoundRobin!found, last) # Behind(d, last)
      /\ Behind(RoundRobin!found, last) \in Nat
      /\ Behind(d, last) \in Nat
  BY <1>1, <1>2, <1>3, OnePlaceEach, Places
<1>5. Behind(RoundRobin!found, last) < Behind(d, last)
  BY <1>2, <1>4
<1>6. ASSUME RoundRobin!found \in overtaken[d]
      PROVE  FALSE
  <2>1. Behind(d, last) < Behind(RoundRobin!found, last)
    BY <1>6 DEF RoundInv, TurnsInv
  <2>. QED
    BY <1>4, <1>5, <2>1
<1>. QED
  BY <1>2, <1>3, <1>5, <1>6

LEMMA DequeueKeepsRound == RoundInv /\ RoundRobin!dequeue => RoundRobin!TypeOK' /\ TurnsInv'
<1>. SUFFICES ASSUME RoundInv, RoundRobin!dequeue
              PROVE  RoundRobin!TypeOK' /\ TurnsInv'
  OBVIOUS
<1>1. /\ bits \subseteq Clients /\ last \in Clients
      /\ next \in Clients \cup {NO_ENTRY}
      /\ overtaken \in [Clients -> SUBSET Clients]
  BY SomeClients DEF RoundInv, RoundRobin!TypeOK
<1>2. CASE RoundRobin!found = NO_ENTRY
  BY <1>2, SomeClients DEF RoundRobin!dequeue, RoundInv, RoundRobin!TypeOK, TurnsInv
<1>3. CASE RoundRobin!found # NO_ENTRY
  <2>1. RoundRobin!found \in bits
    BY <1>1, <1>3, SearchIsFair
  <2>2. /\ next' = RoundRobin!found
        /\ bits' = bits \ {RoundRobin!found}
        /\ last' = RoundRobin!found
        /\ overtaken' = [c \in Clients |->
                           IF c \in bits' THEN overtaken[c] \cup {RoundRobin!found} ELSE {}]
    BY <1>3, SomeClients DEF RoundRobin!dequeue
  <2>3. RoundRobin!TypeOK'
    BY <1>1, <2>1, <2>2, SomeClients DEF RoundRobin!TypeOK
  <2>4. ASSUME NEW d \in bits', NEW c \in overtaken'[d]
        PROVE  Behind(d, last') < Behind(c, last')
    <3>1. /\ d \in bits /\ d # RoundRobin!found
          /\ Behind(RoundRobin!found, last) < Behind(d, last)
      BY <2>2, NotTwice
    <3>2. d \in Clients /\ c \in Clients /\ RoundRobin!found \in Clients
      BY <1>1, <2>1, <2>2, <3>1
    <3>3. CASE c = RoundRobin!found
      <4>1. Behind(c, c) = size - 1 /\ Behind(d, c) <= size - 1 /\ Behind(d, c) # size - 1
        BY <3>1, <3>2, <3>3, Places
      <4>2. Behind(d, c) \in Nat
        BY <3>2, Places
      <4>. QED
        BY <2>2, <3>3, <4>1, <4>2, SomeClients
    <3>4. CASE c # RoundRobin!found
      <4>1. Behind(d, last) < Behind(c, last)
        BY <1>1, <2>2, <3>1, <3>2, <3>4 DEF RoundInv, TurnsInv
      <4>2. /\ Behind(d, last) \in Nat /\ Behind(c, last) \in Nat
            /\ Behind(RoundRobin!found, last) \in Nat
        BY <1>1, <3>2, Places
      <4>3. Behind(RoundRobin!found, last) < Behind(c, last)
        BY <3>1, <4>1, <4>2
      <4>4. /\ Behind(d, last') = Behind(d, last) - Behind(RoundRobin!found, last) - 1
            /\ Behind(c, last') = Behind(c, last) - Behind(RoundRobin!found, last) - 1
        BY <1>1, <2>2, <3>1, <3>2, <4>3, NextRound
      <4>. QED
        BY <4>1, <4>2, <4>4
    <3>. QED
      BY <3>3, <3>4
  <2>5. \A d \in Clients : d \notin bits' => overtaken'[d] = {}
    BY <2>2
  <2>. QED
    BY <2>3, <2>4, <2>5 DEF TurnsInv
<1>. QED
  BY <1>2, <1>3

LEMMA RoundKept == RoundInv /\ [QueuesNext]_queuesVars => RoundInv'
<1>. SUFFICES ASSUME RoundInv, [QueuesNext]_queuesVars
              PROVE  RoundInv'
  OBVIOUS
<1>1. CASE UNCHANGED rrVars /\ UNCHANGED wired
  BY <1>1 DEF RoundInv, RoundRobin!TypeOK, TurnsInv, rrVars
<1>2. CASE RoundRobin!dequeue /\ UNCHANGED wired
  BY <1>2, DequeueKeepsRound DEF RoundInv
<1>3. ASSUME NEW id \in RoundRobin!Ids, RoundRobin!enqueue(id), UNCHANGED wired
      PROVE  RoundInv'
  BY <1>3, SomeClients DEF RoundRobin!enqueue, RoundInv, RoundRobin!TypeOK, TurnsInv
<1>. QED
  BY <1>1, <1>2, <1>3 DEF QueuesNext, queuesVars, RoundRobin!Next

LEMMA RoundInductive == QueuesSpec => []RoundInv
  BY RoundInit, RoundKept, PTL DEF QueuesSpec

(* No client is overtaken twice by the same client while it waits: with n  *)
(* clients it is served after at most n - 1 others.                        *)
THEOREM NobodyOvertakenTwice == QueuesSpec => OvertakenOnce
<1>1. RoundInv /\ RoundRobin!dequeue =>
        \A c \in bits : c \in bits' => RoundRobin!found \notin overtaken[c]
  BY NotTwice
<1>2. RoundInv /\ [QueuesNext]_queuesVars =>
        [\A c \in bits : c \in bits' /\ RoundRobin!dequeue
                       => RoundRobin!found \notin overtaken[c]]_<<bits, last, next, overtaken>>
  BY <1>1
<1>. QED
  BY <1>2, RoundInductive, PTL
  DEF QueuesSpec, OvertakenOnce, RoundRobin!OvertakenOnce, RoundRobin!vars

(* The search finds the waiting client that comes first behind the client  *)
(* served last; with that, the types and the answers of the FCFS queue.    *)
THEOREM QueuesCorrect == QueuesSpec => []QueuesInv
<1>1. ASSUME RoundInv
      PROVE  SearchFindsNearest
  <2>1. bits \subseteq Clients /\ last \in Clients
    BY <1>1, SomeClients DEF RoundInv, RoundRobin!TypeOK
  <2>2. ASSUME NEW id \in bits
        PROVE  RoundRobin!distance(id) = Behind(id, last)
    BY <2>1, Round DEF RoundRobin!distance
  <2>3. IF bits = {}
          THEN RoundRobin!found = NO_ENTRY
          ELSE /\ RoundRobin!found \in bits
               /\ \A d \in bits : Behind(RoundRobin!found, last) <= Behind(d, last)
    BY <2>1, SearchIsFair
  <2>. QED
    BY <2>2, <2>3
    DEF SearchFindsNearest, RoundRobin!SearchFindsNearest, RoundRobin!isEmpty
<1>2. IndInv /\ RoundInv => QueuesTypeOK
  BY DEF IndInv, RoundInv, QueuesTypeOK
<1>3. IndInv /\ RoundInv /\ AnswersExact => QueuesInv
  BY <1>1, <1>2 DEF QueuesInv
<1>. QED
  BY <1>3, Inductive, RoundInductive, FcfsAnswers, PTL
=============================================================================
