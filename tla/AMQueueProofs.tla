---------------------------- MODULE AMQueueProofs ----------------------------
(***************************************************************************)
(* For every number of clients and every set of messages: the send queue   *)
(* loses no completion and signals none twice, keeps its word to whoever   *)
(* cancels, and the clients take turns.                                    *)
(***************************************************************************)
EXTENDS AMQueue, WellFoundedInduction, TLAPS

LEMMA SomeClients == numClients \in Nat \ {0}
  BY ClientsAssumption

(* A cancelled message is still there, and is either marked for CancelTask *)
(* or in the hands of AMSend.                                              *)
CancelInv ==
  /\ \A c \in cancelMask : queue[c] # NULL
  /\ \A c \in cancelled :
       queue[c] # NULL /\ (c \in cancelMask \/ (c = current /\ sending = queue[c]))

(* A client that was sent while d waited comes behind d in the round that  *)
(* starts behind `current'.                                                *)
TurnsInv ==
  /\ \A d \in Clients : queue[d] = NULL \/ d = current => overtaken[d] = {}
  /\ \A c, d \in Clients :
       c \in overtaken[d] /\ d \notin cancelMask /\ c # current /\ current # none =>
         distance(d) < distance(c)

IInv == SendInv /\ CancelInv /\ TurnsInv

-----------------------------------------------------------------------------
(* The round behind client x: the clients after it, then those before it,  *)
(* itself last.                                                            *)
Behind(c, x) == IF c > x THEN c - x - 1 ELSE c + numClients - x - 1

(* The distance of the code, taken modulo numClients, is the place in the  *)
(* round.                                                                  *)
LEMMA Round ==
  ASSUME NEW c \in Clients, NEW x \in Clients
  PROVE  (c + numClients - x - 1) % numClients = Behind(c, x)
  BY SomeClients DEF Clients, Behind

(* No two clients have the same place in a round.                          *)
LEMMA OnePlaceEach ==
  ASSUME NEW c \in Clients, NEW d \in Clients, NEW x \in Clients, c # d
  PROVE  Behind(c, x) # Behind(d, x)
  BY SomeClients DEF Behind, Clients

(* Places in a round are numbers below numClients, the last of them the    *)
(* place of the client the round starts behind.                            *)
LEMMA Places ==
  ASSUME current \in Clients, NEW c \in Clients
  PROVE  distance(c) = Behind(c, current) /\ distance(c) \in Nat
<1>1. distance(c) = Behind(c, current)
  BY Round DEF distance
<1>2. Behind(c, current) \in Nat
  BY SomeClients DEF Behind, Clients
<1>. QED
  BY <1>1, <1>2

(* A set of numbers that is not empty has a least one. *)
LEMMA Least ==
  ASSUME NEW T, T \subseteq Nat, T # {}
  PROVE  \E k \in T : \A l \in T : k <= l
<1>1. IsWellFoundedOn({pair \in Nat \X Nat : pair[1] < pair[2]}, Nat)
  BY NatLessThanWellFounded DEF OpToRel
<1>2. PICK k \in T : \A l \in T : <<l, k>> \notin {pair \in Nat \X Nat : pair[1] < pair[2]}
  BY <1>1, WFMin, Zenon
<1>3. \A l \in T : ~(l < k)
  BY <1>2
<1>. QED
  BY <1>3

(* A set of clients that is not empty has one that comes first.            *)
LEMMA SomeoneIsFirst ==
  ASSUME current \in Clients, NEW S, S \subseteq Clients, S # {}
  PROVE  \E c \in S : \A d \in S : distance(c) <= distance(d)
<1>1. {distance(d) : d \in S} \subseteq Nat /\ {distance(d) : d \in S} # {}
  BY Places
<1>2. PICK k \in {distance(d) : d \in S} : \A l \in {distance(d) : d \in S} : k <= l
  BY <1>1, Least
<1>. QED
  BY <1>2

(* nextPacket finds the first client of the round that is ready.           *)
LEMMA NextPacket ==
  ASSUME current \in Clients, NEW q
  PROVE  /\ Ready(q) = {} => nextPacket(q) = none
         /\ Ready(q) # {} =>
              /\ nextPacket(q) \in Ready(q)
              /\ nextPacket(q) \in Clients
              /\ \A d \in Ready(q) : distance(nextPacket(q)) <= distance(d)
<1>1. Ready(q) \subseteq Clients
  BY DEF Ready
<1>2. CASE Ready(q) # {}
  <2>1. \E c \in Ready(q) : \A d \in Ready(q) : distance(c) <= distance(d)
    BY <1>1, <1>2, SomeoneIsFirst
  <2>. HIDE DEF Ready, distance
  <2>. QED
    BY <1>1, <1>2, <2>1 DEF nextPacket
<1>. QED
  BY <1>2 DEF nextPacket

(* A client that comes before another in the round behind x, and after y,  *)
(* comes before it in the round behind y.                                  *)
LEMMA NextRound ==
  ASSUME NEW c \in Clients, NEW d \in Clients, NEW x \in Clients, NEW y \in Clients,
         Behind(y, x) < Behind(d, x), Behind(d, x) < Behind(c, x)
  PROVE  Behind(d, y) < Behind(c, y)
  BY SomeClients DEF Behind, Clients

-----------------------------------------------------------------------------
(* What holds when a message is completed: the client it is from has       *)
(* nothing left, AMSend nothing to send, and errorTask nothing to do.      *)
Completes(error) == sendDone(current, queue[current], error, NULL, FALSE)

(* Whoever ends a send hands over a state in which nobody else does.       *)
LEMMA Enders ==
  ASSUME IInv
  PROVE  /\ errorTask => current \in Clients /\ current \notin cancelled /\ Completes("FAIL")
         /\ \A error : AMSendDone(error) =>
              /\ current \in Clients
              /\ error = "ECANCEL" <=> current \in cancelled
              /\ Completes(error)
<1>1. ASSUME errorTask
      PROVE  current \in Clients /\ current \notin cancelled /\ Completes("FAIL")
  <2>1. current # none
    BY <1>1 DEF IInv, SendInv, OneEnder, errorTask
  <2>2. current \in Clients
    BY <2>1, SomeClients DEF IInv, SendInv, TypeOK, Clients, none
  <2>3. sending = NULL /\ queue[current] # NULL /\ current \notin cancelMask
    BY <1>1, <2>1 DEF IInv, SendInv, OneEnder, errorTask
  <2>4. current \notin cancelled
    BY <2>3 DEF IInv, CancelInv
  <2>. QED
    BY <1>1, <2>2, <2>3, <2>4 DEF errorTask, Completes
<1>2. ASSUME NEW error, AMSendDone(error)
      PROVE  /\ current \in Clients
             /\ error = "ECANCEL" <=> current \in cancelled
             /\ Completes(error)
  <2>1. current \in Clients
    BY <1>2, SomeClients DEF IInv, SendInv, TypeOK, Clients, none, AMSendDone
  <2>2. errorPosted = FALSE
    BY <1>2 DEF IInv, SendInv, TypeOK, OneEnder, AMSendDone
  <2>. QED
    BY <1>2, <2>1, <2>2 DEF AMSendDone, Completes
<1>. QED
  BY <1>1, <1>2

(* Who is sent next when a message is completed, if anybody, and what      *)
(* becomes of the rest.                                                    *)
LEMMA Successor ==
  ASSUME IInv, current \in Clients, NEW error, Completes(error)
  PROVE  /\ queue' = [queue EXCEPT ![current] = NULL]
         /\ cancelMask' = cancelMask
         /\ \/ /\ current' = none
               /\ Ready(queue') = {}
               /\ sending' = NULL
               /\ errorPosted' = FALSE
               /\ overtaken' = overtaken
            \/ /\ current' \in Clients
               /\ queue'[current'] # NULL
               /\ current' \notin cancelMask
               /\ current' # current
               /\ \A d \in Clients : queue'[d] # NULL /\ d \notin cancelMask =>
                    Behind(current', current) <= Behind(d, current)
               /\ \/ sending' = queue'[current'] /\ errorPosted' = FALSE
                  \/ sending' = NULL /\ errorPosted' = TRUE
               /\ Served(current')
<1>1. queue \in [Clients -> Messages \cup {NULL}]
  BY DEF IInv, SendInv, TypeOK
<1>2. queue' = [queue EXCEPT ![current] = NULL] /\ cancelMask' = cancelMask
  BY DEF Completes, sendDone
<1>3. queue'[current] = NULL
  BY <1>1, <1>2
<1>4. current' = nextPacket(queue')
  BY DEF Completes, sendDone, tryToSend
<1>5. none \notin Clients
  BY SomeClients DEF none, Clients
<1>6. CASE Ready(queue') = {}
  <2>1. current' = none
    BY <1>4, <1>6, NextPacket
  <2>. QED
    BY <1>2, <1>6, <2>1 DEF Completes, sendDone, tryToSend
<1>7. CASE Ready(queue') # {}
  <2>1. /\ current' \in Ready(queue')
        /\ current' \in Clients
        /\ \A d \in Ready(queue') : distance(current') <= distance(d)
    BY <1>4, <1>7, NextPacket
  <2>2. \A d \in Clients : queue'[d] # NULL /\ d \notin cancelMask =>
           Behind(current', current) <= Behind(d, current)
    BY <2>1, Places DEF Ready
  <2>3. current' # none
    BY <1>5, <2>1
  <2>. QED
    BY <1>2, <1>3, <2>1, <2>2, <2>3
    DEF Ready, Completes, sendDone, tryToSend, Accepts, Refuses
<1>. QED
  BY <1>6, <1>7

(* A completion, of either kind. *)
LEMMA CompletionKeeps ==
  ASSUME IInv, TaskStarts, current \in Clients, queue[current] # NULL,
         NEW error \in {"SUCCESS", "FAIL", "ECANCEL"}, Completes(error)
  PROVE  IInv'
<1>1. /\ queue' = [queue EXCEPT ![current] = NULL]
      /\ cancelMask' = cancelMask /\ cancelPosted' = cancelPosted /\ scan' = scan
      /\ handler' = [client |-> current, msg |-> queue[current], error |-> error]
      /\ owed' = [owed EXCEPT ![current] = NULL]
      /\ cancelled' = cancelled \ {current}
  BY DEF Completes, sendDone, Signal
<1>2. CASE /\ current' = none
           /\ Ready(queue') = {}
           /\ sending' = NULL
           /\ errorPosted' = FALSE
           /\ overtaken' = overtaken
  <2>1. SendInv'
    BY <1>1, <1>2, SomeClients
    DEF IInv, SendInv, TypeOK, QueueIsOwed, OneEnder, NobodyForgotten, Ready, TaskStarts,
        none, Clients, Events
  <2>2. CancelInv'
    BY <1>1, <1>2 DEF IInv, SendInv, TypeOK, OneEnder, CancelInv, none, Clients
  <2>3. TurnsInv'
    BY <1>1, <1>2, SomeClients DEF IInv, SendInv, TypeOK, TurnsInv, none, Clients
  <2>. QED
    BY <2>1, <2>2, <2>3 DEF IInv
<1>3. CASE /\ current' \in Clients
           /\ queue'[current'] # NULL
           /\ current' \notin cancelMask
           /\ current' # current
           /\ \A d \in Clients : queue'[d] # NULL /\ d \notin cancelMask =>
                Behind(current', current) <= Behind(d, current)
           /\ \/ sending' = queue'[current'] /\ errorPosted' = FALSE
              \/ sending' = NULL /\ errorPosted' = TRUE
           /\ Served(current')
  <2>1. overtaken' \in [Clients -> SUBSET Clients]
    BY <1>3 DEF IInv, SendInv, TypeOK, Served
  <2>2. TypeOK'
    <3>1. queue' \in [Clients -> Messages \cup {NULL}] /\ queue[current] \in Messages \cup {NULL}
      BY <1>1 DEF IInv, SendInv, TypeOK
    <3>2. owed' \in [Clients -> Messages \cup {NULL}]
      BY <1>1 DEF IInv, SendInv, TypeOK
    <3>3. handler' \in Events
      BY <1>1, <3>1 DEF Events
    <3>4. queue'[current'] \in Messages \cup {NULL}
      BY <1>3, <3>1
    <3>5. sending' \in Messages \cup {NULL} /\ errorPosted' \in BOOLEAN
      BY <1>3, <3>4
    <3>6. current' \in 0..numClients
      BY <1>3, SomeClients DEF Clients
    <3>. QED
      BY <1>1, <2>1, <3>1, <3>2, <3>3, <3>5, <3>6 DEF IInv, SendInv, TypeOK
  <2>3. QueueIsOwed' /\ OneEnder'
    BY <1>1, <1>3, SomeClients
    DEF IInv, SendInv, QueueIsOwed, OneEnder, none, Clients
  <2>4. NobodyForgotten'
    BY <1>1, <1>3, SomeClients
    DEF IInv, SendInv, TypeOK, NobodyForgotten, none, Clients
  <2>5. CancelInv'
    BY <1>1, <1>3 DEF IInv, SendInv, TypeOK, OneEnder, CancelInv, none, Clients
  <2>6. ASSUME NEW d \in Clients, queue'[d] = NULL \/ d = current'
        PROVE  overtaken'[d] = {}
    BY <1>3, <2>6 DEF Served
  <2>7. ASSUME NEW c \in Clients, NEW d \in Clients,
               c \in overtaken'[d], d \notin cancelMask, c # current'
        PROVE  distance(d)' < distance(c)'
    <3>1. d # current' /\ queue'[d] # NULL /\ c \in overtaken[d]
      BY <1>3, <2>7 DEF Served
    <3>2. d # current
      BY <1>1, <3>1 DEF IInv, SendInv, TypeOK
    <3>3. Behind(current', current) < Behind(d, current)
      <4>1. Behind(current', current) <= Behind(d, current)
        BY <1>3, <2>7, <3>1
      <4>2. Behind(current', current) # Behind(d, current)
        BY <1>3, <3>1, OnePlaceEach
      <4>3. Behind(current', current) \in Int /\ Behind(d, current) \in Int
        BY <1>3, SomeClients DEF Behind, Clients
      <4>. QED
        BY <4>1, <4>2, <4>3
    <3>4. Behind(d, current) < Behind(c, current)
      <4>1. CASE c = current
        BY <3>2, <4>1, SomeClients DEF Behind, Clients
      <4>2. CASE c # current
        <5>1. distance(d) < distance(c)
          BY <2>7, <3>1, <4>2, SomeClients DEF IInv, TurnsInv, none, Clients
        <5>. QED
          BY <5>1, Places
      <4>. QED
        BY <4>1, <4>2
    <3>5. Behind(d, current') < Behind(c, current')
      BY <1>3, <3>3, <3>4, NextRound
    <3>6. distance(d)' = Behind(d, current') /\ distance(c)' = Behind(c, current')
      BY <1>3, Round DEF distance
    <3>. QED
      BY <3>5, <3>6
  <2>8. TurnsInv'
    BY <1>1, <2>6, <2>7 DEF TurnsInv
  <2>. QED
    BY <2>2, <2>3, <2>4, <2>5, <2>8 DEF IInv, SendInv
<1>. QED
  BY <1>2, <1>3, Successor

-----------------------------------------------------------------------------
(* A message that waits waits for a send in progress, or for CancelTask;   *)
(* so when nothing is being sent nobody waits to be overtaken.             *)
LEMMA NobodyWaits ==
  ASSUME IInv, current = none, NEW d \in Clients, d \notin cancelMask
  PROVE  overtaken[d] = {}
  BY DEF IInv, SendInv, NobodyForgotten, TurnsInv

LEMMA SendKeeps ==
  ASSUME IInv, NEW c \in Clients, NEW m \in Messages, Send(c, m)
  PROVE  IInv'
<1>1. /\ queue[c] = NULL /\ m # NULL
      /\ queue' = [queue EXCEPT ![c] = m]
      /\ owed' = [owed EXCEPT ![c] = m]
      /\ cancelMask' = cancelMask /\ cancelPosted' = cancelPosted /\ scan' = scan
      /\ errorPosted' = errorPosted /\ handler' = handler /\ cancelled' = cancelled
  BY NullAssumption DEF Send
<1>2. c \notin cancelMask /\ c \notin cancelled
  BY <1>1 DEF IInv, CancelInv
<1>3. CASE current # none /\ UNCHANGED <<current, sending, overtaken>>
  <2>1. TypeOK' /\ QueueIsOwed'
    BY <1>1, <1>3 DEF IInv, SendInv, TypeOK, QueueIsOwed
  <2>2. OneEnder' /\ NobodyForgotten'
    BY <1>1, <1>2, <1>3 DEF IInv, SendInv, TypeOK, OneEnder, NobodyForgotten
  <2>3. CancelInv'
    BY <1>1, <1>2, <1>3 DEF IInv, SendInv, TypeOK, CancelInv
  <2>4. TurnsInv'
    BY <1>1, <1>3 DEF IInv, SendInv, TypeOK, TurnsInv, distance
  <2>. QED
    BY <2>1, <2>2, <2>3, <2>4 DEF IInv, SendInv
<1>4. CASE current = none /\ sending' = m /\ current' = c /\ Served(c)
  <2>1. overtaken' \in [Clients -> SUBSET Clients]
    BY <1>4 DEF IInv, SendInv, TypeOK, Served
  <2>2. TypeOK' /\ QueueIsOwed'
    BY <1>1, <1>4, <2>1, SomeClients
    DEF IInv, SendInv, TypeOK, QueueIsOwed, Clients
  <2>3. OneEnder' /\ NobodyForgotten'
    BY <1>1, <1>2, <1>4, SomeClients
    DEF IInv, SendInv, TypeOK, OneEnder, NobodyForgotten, none, Clients
  <2>4. CancelInv'
    BY <1>1, <1>2, <1>4, SomeClients
    DEF IInv, SendInv, TypeOK, CancelInv, none, Clients
  <2>5. ASSUME NEW d \in Clients, d \notin cancelMask
        PROVE  overtaken'[d] \subseteq {c}
    BY <1>4, <2>5, NobodyWaits DEF Served
  <2>6. ASSUME NEW d \in Clients, queue'[d] = NULL \/ d = c
        PROVE  overtaken'[d] = {}
    BY <1>4, <2>6 DEF Served
  <2>7. TurnsInv'
    BY <1>1, <1>4, <2>5, <2>6 DEF TurnsInv
  <2>. QED
    BY <2>2, <2>3, <2>4, <2>7 DEF IInv, SendInv
<1>. QED
  BY <1>3, <1>4 DEF Send, Accepts

LEMMA CancelKeeps ==
  ASSUME IInv, NEW c \in Clients, Cancel(c)
  PROVE  IInv'
<1>1. /\ queue[c] # NULL
      /\ cancelled' = cancelled \cup {c}
      /\ UNCHANGED <<current, queue, errorPosted, scan, handler, sending, owed, overtaken>>
  BY DEF Cancel
<1>2. CASE CancelCurrent(c)
  <2>1. current = c /\ sending = queue[c] /\ UNCHANGED <<cancelMask, cancelPosted>>
    BY <1>2 DEF CancelCurrent
  <2>2. SendInv'
    BY <1>1, <2>1 DEF IInv, SendInv, TypeOK, QueueIsOwed, OneEnder, NobodyForgotten
  <2>3. CancelInv' /\ TurnsInv'
    BY <1>1, <2>1 DEF IInv, CancelInv, TurnsInv, distance
  <2>. QED
    BY <2>2, <2>3 DEF IInv
<1>3. CASE CancelWaiting(c)
  <2>1. current # c /\ cancelMask' = cancelMask \cup {c} /\ cancelPosted' = TRUE
    BY <1>3 DEF CancelWaiting
  <2>2. SendInv'
    BY <1>1, <2>1 DEF IInv, SendInv, TypeOK, QueueIsOwed, OneEnder, NobodyForgotten
  <2>3. CancelInv' /\ TurnsInv'
    BY <1>1, <2>1 DEF IInv, CancelInv, TurnsInv, distance
  <2>. QED
    BY <2>2, <2>3 DEF IInv
<1>. QED
  BY <1>2, <1>3 DEF Cancel

LEMMA CancelTaskKeeps ==
  ASSUME IInv, CancelTask
  PROVE  IInv'
<1>1. /\ cancelPosted' = FALSE
      /\ UNCHANGED <<current, queue, cancelMask, errorPosted, handler, sending,
                     owed, cancelled, overtaken>>
  BY DEF CancelTask
<1>2. scan' \in 0..numClients
  BY SomeClients DEF CancelTask, none
<1>3. TypeOK'
  BY <1>1, <1>2 DEF IInv, SendInv, TypeOK
<1>4. QueueIsOwed' /\ OneEnder'
  BY <1>1 DEF IInv, SendInv, QueueIsOwed, OneEnder
<1>5. NobodyForgotten'
  <2>1. \A c \in cancelMask : scan' # none /\ scan' <= c
    BY SomeClients DEF IInv, SendInv, TypeOK, CancelTask, none, Clients
  <2>. QED
    BY <1>1, <2>1 DEF IInv, SendInv, NobodyForgotten
<1>6. CancelInv' /\ TurnsInv'
  BY <1>1 DEF IInv, CancelInv, TurnsInv, distance
<1>. QED
  BY <1>3, <1>4, <1>5, <1>6 DEF IInv, SendInv

LEMMA CancelStepKeeps ==
  ASSUME IInv, CancelStep
  PROVE  IInv'
<1>1. scan \in Clients /\ scan' = scan + 1 /\ scan' \in 0..numClients
  BY SomeClients DEF IInv, SendInv, TypeOK, CancelStep, Scanning, none, Clients
<1>2. UNCHANGED <<current, errorPosted, cancelPosted, sending>>
  BY DEF CancelStep
<1>3. \A c \in Clients : c # scan /\ scan <= c => scan' # none /\ scan' <= c
  BY <1>1, SomeClients DEF none, Clients
<1>4. CASE CancelBit(scan)
  <2>1. /\ scan \in cancelMask
        /\ queue' = [queue EXCEPT ![scan] = NULL]
        /\ overtaken' = [overtaken EXCEPT ![scan] = {}]
        /\ cancelMask' = cancelMask \ {scan}
        /\ handler' = [client |-> scan, msg |-> queue[scan], error |-> "ECANCEL"]
        /\ owed' = [owed EXCEPT ![scan] = NULL]
        /\ cancelled' = cancelled \ {scan}
    BY <1>4 DEF CancelBit, Signal
  <2>2. TypeOK' /\ QueueIsOwed'
    BY <1>1, <1>2, <2>1 DEF IInv, SendInv, TypeOK, QueueIsOwed, Events
  <2>3. OneEnder'
    BY <1>1, <1>2, <2>1 DEF IInv, SendInv, TypeOK, OneEnder
  <2>4. NobodyForgotten'
    BY <1>1, <1>2, <1>3, <2>1 DEF IInv, SendInv, TypeOK, NobodyForgotten
  <2>5. CancelInv'
    BY <1>1, <1>2, <2>1 DEF IInv, SendInv, TypeOK, CancelInv
  <2>6. TurnsInv'
    BY <1>1, <1>2, <2>1 DEF IInv, SendInv, TypeOK, TurnsInv, distance
  <2>. QED
    BY <2>2, <2>3, <2>4, <2>5, <2>6 DEF IInv, SendInv
<1>5. CASE /\ scan \notin cancelMask
           /\ UNCHANGED <<queue, overtaken, cancelMask, handler, owed, cancelled>>
  <2>1. TypeOK' /\ QueueIsOwed' /\ OneEnder'
    BY <1>1, <1>2, <1>5 DEF IInv, SendInv, TypeOK, QueueIsOwed, OneEnder
  <2>2. NobodyForgotten'
    BY <1>2, <1>3, <1>5 DEF IInv, SendInv, NobodyForgotten
  <2>3. CancelInv' /\ TurnsInv'
    BY <1>2, <1>5 DEF IInv, CancelInv, TurnsInv, distance
  <2>. QED
    BY <2>1, <2>2, <2>3 DEF IInv, SendInv
<1>. QED
  BY <1>4, <1>5 DEF CancelStep

LEMMA InitEstablishes == Init => IInv
<1>. SUFFICES ASSUME Init
              PROVE  IInv
  OBVIOUS
<1>1. TypeOK
  <2>1. numClients \in 0..numClients
    BY SomeClients
  <2>2. [c \in Clients |-> NULL] \in [Clients -> Messages \cup {NULL}]
    OBVIOUS
  <2>3. [c \in Clients |-> {}] \in [Clients -> SUBSET Clients]
    OBVIOUS
  <2>. QED
    BY <2>1, <2>2, <2>3 DEF Init, TypeOK, none
<1>2. QueueIsOwed /\ OneEnder /\ NobodyForgotten
  BY DEF Init, QueueIsOwed, OneEnder, NobodyForgotten
<1>3. CancelInv /\ TurnsInv
  BY DEF Init, CancelInv, TurnsInv
<1>. QED
  BY <1>1, <1>2, <1>3 DEF IInv, SendInv

LEMMA StepKeeps == IInv /\ [Next]_vars => IInv'
<1>. SUFFICES ASSUME IInv, [Next]_vars
              PROVE  IInv'
  OBVIOUS
<1>1. ASSUME NEW c \in Clients, Cancel(c)
      PROVE  IInv'
  BY <1>1, CancelKeeps
<1>2. ASSUME NEW c \in Clients, NEW m \in Messages, Send(c, m)
      PROVE  IInv'
  BY <1>2, SendKeeps
<1>3. ASSUME current \in Clients
      PROVE  queue[current] # NULL
  BY <1>3, SomeClients DEF IInv, SendInv, OneEnder, none, Clients
<1>4. CASE errorTask
  BY <1>3, <1>4, Enders, CompletionKeeps DEF errorTask
<1>5. ASSUME NEW error \in {"SUCCESS", "FAIL", "ECANCEL"}, AMSendDone(error)
      PROVE  IInv'
  <2>1. TaskStarts
    BY <1>5 DEF AMSendDone
  <2>. QED
    BY <1>3, <1>5, <2>1, Enders, CompletionKeeps
<1>6. CASE CancelTask
  BY <1>6, CancelTaskKeeps
<1>7. CASE CancelStep
  BY <1>7, CancelStepKeeps
<1>8. CASE HandlerReturns
  BY <1>8 DEF IInv, SendInv, TypeOK, QueueIsOwed, OneEnder, NobodyForgotten, CancelInv,
     TurnsInv, distance, HandlerReturns
<1>9. CASE UNCHANGED vars
  BY <1>9 DEF IInv, SendInv, TypeOK, QueueIsOwed, OneEnder, NobodyForgotten, CancelInv,
     TurnsInv, distance, vars
<1>. QED
  BY <1>1, <1>2, <1>4, <1>5, <1>6, <1>7, <1>8, <1>9 DEF Next

LEMMA Inductive == Spec => []IInv
  BY InitEstablishes, StepKeeps, PTL DEF Spec

-----------------------------------------------------------------------------
(* The entries are the messages owed, one of AMSend and errorTask ends     *)
(* every send, and a waiting message has someone who comes for it.         *)
THEOREM AMQueueSafe == Spec => []SendInv
<1>1. IInv => SendInv
  BY DEF IInv
<1>. QED
  BY <1>1, Inductive, PTL

(* What a handler that starts is told, as an answer to client c.           *)
Answers(c) ==
  /\ c \in Clients
  /\ queue[c] # NULL
  /\ handler'.client = c
  /\ handler'.msg = queue[c]
  /\ c \in cancelled => handler'.error = "ECANCEL"

(* A handler is started by a completion or by CancelTask, with the message *)
(* of the client's entry.                                                  *)
LEMMA Signals ==
  ASSUME IInv, [Next]_vars, handler = NULL, handler' # NULL
  PROVE  Answers(current) \/ Answers(scan)
<1>1. ASSUME current \in Clients
      PROVE  queue[current] # NULL
  BY <1>1, SomeClients DEF IInv, SendInv, OneEnder, none, Clients
<1>2. ASSUME NEW error, Completes(error)
      PROVE  /\ handler'.client = current
             /\ handler'.msg = queue[current]
             /\ handler'.error = error
  BY <1>2 DEF Completes, sendDone, Signal
<1>3. CASE errorTask
  BY <1>1, <1>2, <1>3, Enders DEF Answers
<1>4. ASSUME NEW error, AMSendDone(error)
      PROVE  Answers(current)
  BY <1>1, <1>2, <1>4, Enders DEF Answers
<1>5. CASE CancelStep
  <2>1. CancelBit(scan)
    BY <1>5 DEF CancelStep
  <2>2. scan \in Clients /\ queue[scan] # NULL
    BY <2>1 DEF CancelBit, IInv, CancelInv, SendInv, TypeOK
  <2>. QED
    BY <2>1, <2>2 DEF CancelBit, Signal, Answers
<1>6. ASSUME \/ \E c \in Clients : Cancel(c) \/ \E m \in Messages : Send(c, m)
             \/ CancelTask \/ HandlerReturns \/ UNCHANGED vars
      PROVE  FALSE
  BY <1>6 DEF Cancel, Send, CancelTask, HandlerReturns, vars
<1>. QED
  BY <1>3, <1>4, <1>5, <1>6 DEF Next

(* Every sendDone() answers for a message that was accepted and not        *)
(* answered for, and carries it.                                           *)
THEOREM AMQueueCompletesOnce == Spec => OneCompletion
<1>1. IInv /\ [Next]_vars =>
        (handler = NULL /\ handler' # NULL =>
           /\ handler'.msg # NULL
           /\ handler'.msg = owed[handler'.client])
  BY Signals DEF Answers, IInv, SendInv, QueueIsOwed
<1>. QED
  BY <1>1, Inductive, PTL DEF Spec, OneCompletion

(* Whose turn it is changes only when a message is completed, or when      *)
(* nothing is being sent.                                                  *)
LEMMA TurnChanges ==
  ASSUME IInv, [Next]_vars, current' # current
  PROVE  \/ current \in Clients /\ \E error : Completes(error)
         \/ current = none /\ current' \in Clients /\ queue[current'] = NULL
<1>1. CASE errorTask
  BY <1>1, Enders
<1>2. ASSUME NEW error, AMSendDone(error)
      PROVE  current \in Clients /\ \E e : Completes(e)
  BY <1>2, Enders
<1>3. ASSUME NEW c \in Clients, NEW m \in Messages, Send(c, m)
      PROVE  current = none /\ current' \in Clients /\ queue[current'] = NULL
  BY <1>3 DEF Send
<1>4. ASSUME \/ \E c \in Clients : Cancel(c)
             \/ CancelTask \/ CancelStep \/ HandlerReturns \/ UNCHANGED vars
      PROVE  FALSE
  BY <1>4 DEF Cancel, CancelTask, CancelStep, HandlerReturns, vars
<1>. QED
  BY <1>1, <1>2, <1>3, <1>4 DEF Next

(* A message whose cancel() succeeded is not offered to AMSend any more,   *)
(* and its sendDone() says ECANCEL.                                        *)
THEOREM AMQueueCancels == Spec => CancelHonoured
<1>1. ASSUME IInv, [Next]_vars, NEW c \in cancelled
      PROVE  /\ handler = NULL /\ handler' # NULL /\ handler'.client = c =>
                   handler'.error = "ECANCEL"
             /\ current' = c => current = c
  <2>1. ASSUME handler = NULL, handler' # NULL, handler'.client = c
        PROVE  handler'.error = "ECANCEL"
    BY <1>1, <2>1, Signals DEF Answers
  <2>2. ASSUME current' = c, current # c
        PROVE  FALSE
    <3>1. queue[c] # NULL /\ c \in cancelMask /\ c \in Clients
      BY <1>1, <2>2 DEF IInv, CancelInv, SendInv, TypeOK
    <3>2. c # none
      BY <3>1, SomeClients DEF none, Clients
    <3>3. PICK error : current \in Clients /\ Completes(error)
      BY <1>1, <2>2, <3>1, TurnChanges
    <3>. QED
      BY <1>1, <2>2, <3>1, <3>2, <3>3, Successor
  <2>. QED
    BY <2>1, <2>2
<1>2. IInv /\ [Next]_vars =>
        \A c \in cancelled :
          /\ handler = NULL /\ handler' # NULL /\ handler'.client = c =>
                handler'.error = "ECANCEL"
          /\ current' = c => current = c
  BY <1>1
<1>. QED
  BY <1>2, Inductive, PTL DEF Spec, CancelHonoured

(* No client is sent twice while the message of another waits.             *)
THEOREM AMQueueTakesTurns == Spec => TakingTurns
<1>1. ASSUME IInv, [Next]_vars, NEW c \in Clients, NEW d \in Clients,
             c \in overtaken[d], d \notin cancelMask, current # c, current' = c
      PROVE  FALSE
  <2>1. current # none
    BY <1>1, NobodyWaits
  <2>2. PICK error : current \in Clients /\ Completes(error)
    BY <1>1, <2>1, TurnChanges
  <2>3. d # current /\ queue[d] # NULL
    BY <1>1 DEF IInv, TurnsInv
  <2>4. queue'[d] # NULL
    <3>1. queue' = [queue EXCEPT ![current] = NULL]
      BY <1>1, <2>2, Successor
    <3>. QED
      BY <1>1, <2>3, <3>1 DEF IInv, SendInv, TypeOK
  <2>5. c # none
    BY SomeClients DEF none, Clients
  <2>6. Behind(c, current) <= Behind(d, current)
    BY <1>1, <2>2, <2>4, <2>5, Successor
  <2>7. distance(d) < distance(c)
    BY <1>1, <2>1 DEF IInv, TurnsInv
  <2>8. Behind(d, current) < Behind(c, current)
    BY <2>2, <2>7, Places
  <2>. QED
    BY <1>1, <2>2, <2>6, <2>8, SomeClients DEF Behind, Clients
<1>2. IInv /\ [Next]_vars =>
        \A c, d \in Clients :
          c \in overtaken[d] /\ d \notin cancelMask /\ current # c => current' # c
  BY <1>1
<1>. QED
  BY <1>2, Inductive, PTL DEF Spec, TakingTurns
==============================================================================
