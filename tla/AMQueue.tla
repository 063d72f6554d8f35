------------------------------ MODULE AMQueue -------------------------------
(***************************************************************************)
(* The send queue of tos/system/AMQueueImplP.nc: each client has room for  *)
(* one message, and the messages go out one at a time through AMSend, the  *)
(* clients taking turns.                                                   *)
(*                                                                         *)
(* Everything runs in tasks.  A handler that signals sendDone() lets the   *)
(* client call back before it goes on, so that such a handler is cut       *)
(* there: `handler' is the client whose sendDone() is running, and `scan'  *)
(* says how far CancelTask has come.                                       *)
(***************************************************************************)
EXTENDS Integers

CONSTANTS numClients,   \* the clients are numbered from 0, in a uint8_t
          Messages,     \* the message buffers of the clients
          NULL          \* no message

ASSUME ClientsAssumption == numClients \in 1..255
ASSUME NullAssumption == NULL \notin Messages

Clients == 0..(numClients - 1)

VARIABLES
  current,     \* the client whose message is being sent, numClients if none
  queue,       \* queue[c]: the message of client c, or NULL
  cancelMask,  \* the clients whose bit is set
  errorPosted, \* errorTask is in the scheduler's queue
  cancelPosted,\* CancelTask is
  scan,        \* the next bit CancelTask looks at, numClients when it is not running
  handler,     \* the sendDone() that runs: its client, message and error; or NULL
  sending,     \* the message AMSend has accepted and not completed, or NULL
  owed,        \* history: owed[c], the message accepted from c and not completed
  cancelled,   \* history: the clients whose cancel() succeeded, until their sendDone()
  overtaken    \* history: overtaken[c], the clients sent while c waited

vars == <<current, queue, cancelMask, errorPosted, cancelPosted, scan, handler, sending,
          owed, cancelled, overtaken>>

none == numClients
Events == [client : Clients, msg : Messages \cup {NULL}, error : {"SUCCESS", "FAIL", "ECANCEL"}]

TypeOK ==
  /\ current \in 0..numClients
  /\ queue \in [Clients -> Messages \cup {NULL}]
  /\ cancelMask \subseteq Clients
  /\ errorPosted \in BOOLEAN
  /\ cancelPosted \in BOOLEAN
  /\ scan \in 0..numClients
  /\ handler \in Events \cup {NULL}
  /\ sending \in Messages \cup {NULL}
  /\ owed \in [Clients -> Messages \cup {NULL}]
  /\ cancelled \subseteq Clients
  /\ overtaken \in [Clients -> SUBSET Clients]

Init ==
  /\ current = none
  /\ queue = [c \in Clients |-> NULL]
  /\ cancelMask = {}
  /\ errorPosted = FALSE
  /\ cancelPosted = FALSE
  /\ scan = none
  /\ handler = NULL
  /\ sending = NULL
  /\ owed = [c \in Clients |-> NULL]
  /\ cancelled = {}
  /\ overtaken = [c \in Clients |-> {}]

-----------------------------------------------------------------------------
(* Mutant: the loop does not look at the cancel mask. *)
ReadyCancelled(q) == {c \in Clients : q[c] # NULL}

(* Whom the loop of nextPacket stops at, with the queue q: the first client*)
(* behind `current' that has a message nobody cancelled, itself last.      *)
Ready(q) == {c \in Clients : q[c] # NULL /\ c \notin cancelMask}

(* Mutant: the search always begins at client 0. *)
distanceFromZero(c) == c

distance(c) == (c + numClients - current - 1) % numClients

nextPacket(q) ==
  IF Ready(q) = {} THEN none
  ELSE CHOOSE c \in Ready(q) : \A d \in Ready(q) : distance(c) <= distance(d)

(* Who was sent while whom waited, for a send of client c. *)
Served(c) ==
  overtaken' = [d \in Clients |-> IF d = c \/ queue'[d] = NULL THEN {}
                                  ELSE overtaken[d] \cup {c}]

(* AMSend, holding `lower', is offered m: it may refuse any message (EOFF, *)
(* EBUSY), and does when it holds one.                                     *)
Accepts(lower, m) == lower = NULL /\ sending' = m
Refuses(lower) == sending' = lower

(* Mutant: nobody tells the client when AMSend refuses. *)
tryToSendSilent(lower, posted) ==
  /\ current' = nextPacket(queue')
  /\ errorPosted' = posted
  /\ IF current' = none
       THEN sending' = lower /\ UNCHANGED overtaken
       ELSE /\ Accepts(lower, queue'[current']) \/ Refuses(lower)
            /\ Served(current')

(* The next message goes out, errorTask being posted already if `posted'.  *)
tryToSend(lower, posted) ==
  /\ current' = nextPacket(queue')
  /\ IF current' = none
       THEN sending' = lower /\ errorPosted' = posted /\ UNCHANGED overtaken
       ELSE /\ \/ Accepts(lower, queue'[current']) /\ errorPosted' = posted
               \/ Refuses(lower) /\ errorPosted' = TRUE
            /\ Served(current')

(* signal Send.sendDone: the client's handler starts. *)
Signal(c, m, error) ==
  /\ handler' = [client |-> c, msg |-> m, error |-> error]
  /\ owed' = [owed EXCEPT ![c] = NULL]
  /\ cancelled' = cancelled \ {c}

(* A task starts when no other runs; a client calls from its sendDone()    *)
(* handler or from a task of its own.                                      *)
TaskStarts == handler = NULL /\ scan = none
Calling == handler # NULL \/ scan = none

-----------------------------------------------------------------------------
(* send() of a client that is not EBUSY: straight to AMSend when nothing is*)
(* being sent, put off otherwise.  A message is in one queue entry at most.*)
Send(c, m) ==
  /\ Calling
  /\ \A d \in Clients : owed[d] # m
  /\ queue[c] = NULL
  /\ queue' = [queue EXCEPT ![c] = m]
  /\ \/ current # none /\ UNCHANGED <<current, sending, overtaken>>
     \/ /\ current = none
        /\ Accepts(sending, m)
        /\ current' = c
        /\ Served(c)
  /\ owed' = [owed EXCEPT ![c] = m]
  /\ UNCHANGED <<cancelMask, errorPosted, cancelPosted, scan, handler, cancelled>>

(* cancel() of the message being sent: AMSend decides, and refuses when it *)
(* has not accepted that message.                                          *)
CancelCurrent(c) ==
  /\ current = c
  /\ sending = queue[c]
  /\ UNCHANGED <<cancelMask, cancelPosted>>

(* Mutant: the task that completes the message is not posted. *)
CancelWaitingUnposted(c) ==
  /\ current # c
  /\ cancelMask' = cancelMask \cup {c}
  /\ UNCHANGED cancelPosted

CancelWaiting(c) ==
  /\ current # c
  /\ cancelMask' = cancelMask \cup {c}
  /\ cancelPosted' = TRUE

(* cancel() by the client of its message; of any other it answers FAIL. *)
Cancel(c) ==
  /\ Calling
  /\ queue[c] # NULL
  /\ CancelCurrent(c) \/ CancelWaiting(c)
  /\ cancelled' = cancelled \cup {c}
  /\ UNCHANGED <<current, queue, errorPosted, scan, handler, sending, owed, overtaken>>

-----------------------------------------------------------------------------
sendDone(last, m, error, lower, posted) ==
  /\ queue' = [queue EXCEPT ![last] = NULL]
  /\ tryToSend(lower, posted)
  /\ Signal(last, m, error)
  /\ UNCHANGED <<cancelMask, cancelPosted, scan>>

errorTask ==
  /\ TaskStarts
  /\ errorPosted
  /\ sendDone(current, queue[current], "FAIL", sending, FALSE)

(* AMSend.sendDone(): AMSend is free for the next message before it        *)
(* answers for the last, with ECANCEL if it let itself be cancelled.       *)
AMSendDone(error) ==
  /\ TaskStarts
  /\ sending # NULL
  /\ current # none
  /\ queue[current] = sending
  /\ (error = "ECANCEL") <=> (current \in cancelled)
  /\ sendDone(current, sending, error, NULL, errorPosted)

CancelTask ==
  /\ TaskStarts
  /\ cancelPosted
  /\ cancelPosted' = FALSE
  /\ scan' = IF cancelMask = {} THEN none ELSE 0
  /\ UNCHANGED <<current, queue, cancelMask, errorPosted, handler, sending,
                 owed, cancelled, overtaken>>

(* Mutant: the bit is not cleared. *)
CancelBitKept(c) ==
  /\ c \in cancelMask
  /\ queue' = [queue EXCEPT ![c] = NULL]
  /\ overtaken' = [overtaken EXCEPT ![c] = {}]
  /\ Signal(c, queue[c], "ECANCEL")
  /\ UNCHANGED cancelMask

CancelBit(c) ==
  /\ c \in cancelMask
  /\ queue' = [queue EXCEPT ![c] = NULL]
  /\ overtaken' = [overtaken EXCEPT ![c] = {}]
  /\ cancelMask' = cancelMask \ {c}
  /\ Signal(c, queue[c], "ECANCEL")

Scanning == scan # none

CancelStep ==
  /\ Scanning
  /\ handler = NULL
  /\ scan' = scan + 1
  /\ \/ CancelBit(scan)
     \/ /\ scan \notin cancelMask
        /\ UNCHANGED <<queue, overtaken, cancelMask, handler, owed, cancelled>>
  /\ UNCHANGED <<current, errorPosted, cancelPosted, sending>>

HandlerReturns ==
  /\ handler # NULL
  /\ handler' = NULL
  /\ UNCHANGED <<current, queue, cancelMask, errorPosted, cancelPosted, scan, sending,
                 owed, cancelled, overtaken>>

Next ==
  \/ \E c \in Clients : Cancel(c) \/ \E m \in Messages : Send(c, m)
  \/ errorTask
  \/ \E error \in {"SUCCESS", "FAIL", "ECANCEL"} : AMSendDone(error)
  \/ CancelTask
  \/ CancelStep
  \/ HandlerReturns

Spec == Init /\ [][Next]_vars

(* The scheduler runs every posted task (SchedulerBasicP.nc), AMSend       *)
(* answers for every message it accepted, and handlers and loops end.      *)
FairSpec ==
  /\ Spec
  /\ SF_vars(errorTask)
  /\ SF_vars(CancelTask)
  /\ SF_vars(\E error \in {"SUCCESS", "FAIL", "ECANCEL"} : AMSendDone(error))
  /\ WF_vars(CancelStep)
  /\ WF_vars(HandlerReturns)

-----------------------------------------------------------------------------
(* The entry of a client holds the message accepted from it and not        *)
(* completed, and nothing else (Send.send, sendDone, CancelTask): a client *)
(* refused by AMSend gets its entry back, a completed one too.             *)
QueueIsOwed == queue = owed

(* While a message is being sent, exactly one of AMSend and errorTask will *)
(* end it; when none is, neither does, so that no completion is lost, none *)
(* comes twice, and errorTask never reads an empty entry.                  *)
OneEnder ==
  /\ current = none => sending = NULL /\ ~errorPosted
  /\ current # none =>
       /\ queue[current] # NULL
       /\ current \notin cancelMask
       /\ IF errorPosted THEN sending = NULL ELSE sending = queue[current]

(* A message that waits has someone who will come for it: a send in        *)
(* progress, or CancelTask.                                                *)
NobodyForgotten ==
  \A c \in Clients : queue[c] # NULL =>
    \/ c \notin cancelMask /\ current # none
    \/ c \in cancelMask /\ (cancelPosted \/ (scan # none /\ scan <= c))

(* The three together, with the types. *)
SendInv == TypeOK /\ QueueIsOwed /\ OneEnder /\ NobodyForgotten

(* sendDone() is signalled for a message the client sent and was not       *)
(* answered for, with that message.                                        *)
OneCompletion ==
  [][handler = NULL /\ handler' # NULL =>
       /\ handler'.msg # NULL
       /\ handler'.msg = owed[handler'.client]]_vars

(* A cancel() that returned SUCCESS is kept: the message is not given to   *)
(* AMSend from then on, and its sendDone() says ECANCEL, even when the     *)
(* message before it completes while CancelTask waits to run (TEP 116).    *)
CancelHonoured ==
  [][\A c \in cancelled :
       /\ handler = NULL /\ handler' # NULL /\ handler'.client = c => handler'.error = "ECANCEL"
       /\ current' = c => current = c]_vars

(* Taking turns: no client is sent twice while another's message waits.    *)
TakingTurns ==
  [][\A c, d \in Clients :
       c \in overtaken[d] /\ d \notin cancelMask /\ current # c => current' # c]_vars

(* Every accepted message is answered for, whatever AMSend refuses and     *)
(* whoever cancels.                                                        *)
EverySendCompletes ==
  \A c \in Clients : owed[c] # NULL ~> (handler # NULL /\ handler.client = c)
=============================================================================
