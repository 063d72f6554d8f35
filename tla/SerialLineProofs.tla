-------------------------- MODULE SerialLineProofs --------------------------
(***************************************************************************)
(* The two ends of the serial line.  For every length of the packets and   *)
(* of the queue of acks: the receive buffers of the mote's serial stack    *)
(* are not shared, its transmitter waits for a byte that is not coming     *)
(* only when the second byte of two was refused, which nobody looks at,    *)
(* and it signals stopDone to a user who has asked for it.                 *)
(*                                                                         *)
(* Then the serial threads of the forwarder on the PC, for every size of   *)
(* the buffers and number of retries, packets, reports and losses: the     *)
(* packets of the clients reach the mote in order, and what the writer     *)
(* takes for acknowledged has arrived, but for the races that              *)
(* DeliveredUnlessRaced names.                                             *)
(***************************************************************************)
EXTENDS SerialMote, SerialComm, SequenceTheorems, TLAPS

Has(task) == Contains(posted, task)

MoteQuiet == rxState = "INACTIVE" /\ txState = "INACTIVE" /\ ~offPending

(* The tasks run in order, and RunTx looks at the switch-off once more:    *)
(* what is left of it must run before the switch-off ends.                 *)
RunBeforeStop(queue) ==
  \A i \in 1..Len(queue) : \A j \in 1..Len(queue) :
    queue[i] = "stopDoneTask" /\ queue[j] = "RunTx" => j < i

(* What the user knows, and where the switch-off is: asked for by a stop   *)
(* that has not come to its end or by offPending, under way (Stopped) or   *)
(* done.                                                                   *)
SwitchInv ==
  /\ uart <=> user \in {"on", "stopping"}
  /\ Has("startDoneTask") => ~uart
  /\ running \in StopPoints => user = "stopping"
  /\ ~revived =>
       /\ user \in {"off", "starting"} =>
            MoteQuiet /\ ~Stopped /\ ~Has("RunTx") /\ running = "none"
       /\ user = "on" => txState # "INACTIVE" /\ ~offPending /\ ~Stopped
       /\ running \in StopPoints => ~offPending /\ ~Stopped
       /\ running = "turnOff" => MoteQuiet
       /\ user = "stopping" /\ running \notin StopPoints =>
            IF Stopped THEN MoteQuiet ELSE offPending
       /\ Has("defaultSerialFlushTask") =>
            ~Has("stopDoneTask") /\ ~Has("RunTx") /\ running = "none"
       /\ RunBeforeStop(posted)

(* A frame that is being written has its buffer locked, even by a receiver *)
(* that was revived.                                                       *)
RxInv ==
  /\ received # NONE => received # which /\ received \in locked
  /\ locked \subseteq {which, received}
  /\ rxState \in {"TOKEN", "INFO"} => which \in locked
  /\ ~revived => (which \in locked => rxState \in {"TOKEN", "INFO"})

(* The UART has a byte only in the middle of a frame, and has one there    *)
(* but for a byte that was refused unseen; a frame of data has a packet;   *)
(* and a packet whose sendDone is due is out of the framer.                *)
TxInv ==
  /\ sending => uart /\ txState \in Midway
  /\ ~revived => /\ txState \in Midway => sending \/ halfSent
                 /\ halfSent => txState \in Midway /\ ~sending
  /\ Done => Has("RunTx")
  /\ running = "start" => txState = "IDLE"
  /\ txIndex = "data" /\ (running = "start" \/ txState \in Midway \/ Done) =>
       txBuf["data"] # "AVAILABLE"
  /\ ~cancelledLate =>
       /\ sendState = "DATA" <=> txBuf["data"] # "AVAILABLE" \/ Has("signalSendDone")
       /\ Has("signalSendDone") => txBuf["data"] = "AVAILABLE"

MoteInv == MoteTypeOK /\ SwitchInv /\ RxInv /\ TxInv

-----------------------------------------------------------------------------
(* What becomes of the queue of tasks.                                     *)

LEMMA Posts ==
  ASSUME NEW q \in Seq(Tasks), IsInjective(q), NEW t \in Tasks
  PROVE  /\ post(q, t) \in Seq(Tasks) /\ IsInjective(post(q, t))
         /\ \A u \in Tasks : Contains(post(q, t), u) <=> Contains(q, u) \/ u = t
         /\ RunBeforeStop(q) /\ (t = "RunTx" => ~Contains(q, "stopDoneTask")) =>
              RunBeforeStop(post(q, t))
<1>1. CASE Contains(q, t)
  BY <1>1 DEF post
<1>2. CASE ~Contains(q, t)
  <2>1. post(q, t) = Append(q, t)
    BY <1>2 DEF post
  <2>2. /\ Len(Append(q, t)) = Len(q) + 1
        /\ \A i \in 1..Len(q) : Append(q, t)[i] = q[i]
        /\ Append(q, t)[Len(q) + 1] = t
        /\ Append(q, t) \in Seq(Tasks)
    OBVIOUS
  <2>3. IsInjective(Append(q, t))
    BY <1>2, <2>2 DEF IsInjective, Contains
  <2>4. \A u \in Tasks : Contains(Append(q, t), u) <=> Contains(q, u) \/ u = t
    BY <2>2 DEF Contains
  <2>5. ASSUME RunBeforeStop(q), t = "RunTx" => ~Contains(q, "stopDoneTask")
        PROVE  RunBeforeStop(Append(q, t))
    BY <2>2, <2>5 DEF RunBeforeStop, Contains
  <2>. QED
    BY <2>1, <2>2, <2>3, <2>4, <2>5
<1>. QED
  BY <1>1, <1>2

LEMMA HeadRuns ==
  ASSUME NEW q \in Seq(Tasks), IsInjective(q), q # <<>>
  PROVE  /\ Tail(q) \in Seq(Tasks) /\ IsInjective(Tail(q))
         /\ \A u \in Tasks : Contains(Tail(q), u) <=> Contains(q, u) /\ u # Head(q)
         /\ Contains(q, Head(q)) /\ Head(q) \in Tasks
         /\ RunBeforeStop(q) =>
              /\ RunBeforeStop(Tail(q))
              /\ Head(q) = "stopDoneTask" => ~Contains(q, "RunTx")
<1>1. /\ Len(q) \in Nat \ {0}
      /\ Len(Tail(q)) = Len(q) - 1
      /\ \A i \in 1..Len(Tail(q)) : Tail(q)[i] = q[i + 1]
      /\ Tail(q) \in Seq(Tasks)
      /\ Head(q) = q[1] /\ 1 \in 1..Len(q)
  OBVIOUS
<1>2. IsInjective(Tail(q))
  BY <1>1 DEF IsInjective
<1>3. ASSUME NEW u \in Tasks
      PROVE  Contains(Tail(q), u) <=> Contains(q, u) /\ u # Head(q)
  <2>1. ASSUME NEW i \in 1..Len(Tail(q)), Tail(q)[i] = u
        PROVE  Contains(q, u) /\ u # Head(q)
    <3>1. i + 1 \in 1..Len(q) /\ q[i + 1] = u /\ i + 1 # 1
      BY <1>1, <2>1
    <3>. QED
      BY <1>1, <3>1 DEF IsInjective, Contains
  <2>2. ASSUME NEW i \in 1..Len(q), q[i] = u, u # Head(q)
        PROVE  Contains(Tail(q), u)
    <3>1. i - 1 \in 1..Len(Tail(q)) /\ Tail(q)[i - 1] = u
      BY <1>1, <2>2
    <3>. QED
      BY <3>1 DEF Contains
  <2>. QED
    BY <2>1, <2>2 DEF Contains
<1>4. Contains(q, Head(q)) /\ Head(q) \in Tasks
  BY <1>1 DEF Contains
<1>5. ASSUME RunBeforeStop(q)
      PROVE  /\ RunBeforeStop(Tail(q))
             /\ Head(q) = "stopDoneTask" => ~Contains(q, "RunTx")
  <2>1. RunBeforeStop(Tail(q))
    <3> SUFFICES ASSUME NEW i \in 1..Len(Tail(q)), NEW j \in 1..Len(Tail(q)),
                        Tail(q)[i] = "stopDoneTask", Tail(q)[j] = "RunTx"
                 PROVE  j < i
      BY DEF RunBeforeStop
    <3>1. /\ i + 1 \in 1..Len(q) /\ j + 1 \in 1..Len(q)
          /\ q[i + 1] = "stopDoneTask" /\ q[j + 1] = "RunTx"
      BY <1>1
    <3>2. j + 1 < i + 1
      BY <1>5, <3>1 DEF RunBeforeStop
    <3>. QED
      BY <3>2
  <2>2. ASSUME Head(q) = "stopDoneTask", NEW j \in 1..Len(q), q[j] = "RunTx"
        PROVE  FALSE
    <3>1. j < 1
      BY <1>1, <1>5, <2>2 DEF RunBeforeStop
    <3>. QED
      BY <3>1
  <2>. QED
    BY <2>1, <2>2 DEF Contains
<1>. QED
  BY <1>1, <1>2, <1>3, <1>4, <1>5

LEMMA TaskNames ==
  Tasks = {"startDoneTask", "stopDoneTask", "defaultSerialFlushTask", "signalSendDone",
           "receiveTask", "RunTx"}
  BY DEF Tasks

(* What the handlers and commands do to the queue. *)
LEMMA PostedNow ==
  ASSUME MoteTypeOK, NEW t \in Tasks
  PROVE  LET q == post(posted, t)
         IN  /\ q \in Seq(Tasks) /\ IsInjective(q)
             /\ \A u \in Tasks : Contains(q, u) <=> Has(u) \/ u = t
             /\ RunBeforeStop(posted) /\ (t = "RunTx" => ~Has("stopDoneTask")) => RunBeforeStop(q)
  BY Posts DEF MoteTypeOK, Has

LEMMA TaskTaken ==
  ASSUME MoteTypeOK, NEW t, Runs(t)
  PROVE  /\ t \in Tasks /\ Has(t)
         /\ Tail(posted) \in Seq(Tasks) /\ IsInjective(Tail(posted))
         /\ \A u \in Tasks : Contains(Tail(posted), u) <=> Has(u) /\ u # t
         /\ RunBeforeStop(posted) =>
              RunBeforeStop(Tail(posted)) /\ (t = "stopDoneTask" => ~Has("RunTx"))
         /\ running = "none"
  BY HeadRuns DEF MoteTypeOK, Has, Runs, NoTaskRuns

-----------------------------------------------------------------------------
LEMMA InitMoteInv == MoteInit => MoteInv
<1>. SUFFICES ASSUME MoteInit
              PROVE  MoteInv
  OBVIOUS
<1>1. posted = <<>> /\ posted \in Seq(Tasks) /\ IsInjective(posted)
  BY DEF MoteInit, IsInjective
<1>2. \A t : ~Has(t)
  BY <1>1 DEF Has, Contains
<1>3. MoteTypeOK
  <2>1. MoteFlags
    BY Zenon DEF MoteInit, MoteFlags
  <2>. QED
    BY <1>1, <2>1, MoteAssumption DEF MoteInit, MoteTypeOK, RxStates, TxStates, Midway, NONE
<1>4. SwitchInv
  BY <1>1, <1>2 DEF MoteInit, SwitchInv, MoteQuiet, Stopped, StopPoints, Has, RunBeforeStop
<1>5. RxInv
  BY DEF MoteInit, RxInv, NONE
<1>6. TxInv
  BY <1>2 DEF MoteInit, TxInv, Midway, Done
<1>. QED
  BY <1>3, <1>4, <1>5, <1>6 DEF MoteInv

(* The commands of the user, and the tasks that end them. *)
LEMMA StartKeeps == MoteInv /\ Start => MoteInv'
<1>. SUFFICES ASSUME MoteInv, Start
              PROVE  MoteInv'
  OBVIOUS
<1>1. MoteTypeOK
  BY DEF MoteInv
<1>2. CASE posted' = post(posted, "startDoneTask") /\ user' = "starting"
  <2>1. /\ posted' \in Seq(Tasks) /\ IsInjective(posted')
        /\ \A u \in Tasks : Has(u)' <=> Has(u) \/ u = "startDoneTask"
        /\ RunBeforeStop(posted) => RunBeforeStop(posted')
    BY <1>1, <1>2, PostedNow, TaskNames DEF Has
  <2>2. /\ Has("startDoneTask")'
        /\ \A u \in Tasks : u # "startDoneTask" => (Has(u)' <=> Has(u))
    BY <2>1, TaskNames
  <2>3. MoteTypeOK'
    <3>1. MoteFlags'
      BY <1>1, Zenon DEF MoteTypeOK, MoteFlags, Start, history
    <3>. QED
      BY <1>2, <2>1, <3>1 DEF Start, MoteInv, MoteTypeOK, rxVars, txVars, receiveVars
  <2>4. SwitchInv'
    BY <1>2, <2>1, <2>2, TaskNames
    DEF Start, MoteInv, SwitchInv, MoteQuiet, Stopped, StopPoints, NoTaskRuns, Has, rxVars,
        txVars, history
  <2>5. RxInv'
    BY DEF Start, MoteInv, RxInv, rxVars, receiveVars, history
  <2>6. TxInv'
    BY <2>2, TaskNames DEF Start, MoteInv, TxInv, Done, Has, txVars, history
  <2>. QED
    BY <2>3, <2>4, <2>5, <2>6 DEF MoteInv
<1>3. CASE UNCHANGED <<posted, user>>
  BY <1>3 DEF Start, MoteInv, MoteTypeOK, MoteFlags, SwitchInv, RxInv, TxInv, MoteQuiet, Stopped, Has, Done,
     rxVars, txVars, receiveVars, history
<1>. QED
  BY <1>2, <1>3 DEF Start

LEMMA StopKeeps == MoteInv /\ Stop => MoteInv'
<1>. SUFFICES ASSUME MoteInv, Stop
              PROVE  MoteInv'
  OBVIOUS
<1>1. MoteTypeOK
  BY DEF MoteInv
<1>2. /\ user = "on" /\ user' = "stopping" /\ running = "none" /\ running' = "stopTx"
      /\ UNCHANGED <<rxByteCnt, rxProto, txState, txIndex, txByteCnt, txBuf, acks, offPending,
                     sendState, which, locked, received, posted, uart, sending, escape, revived,
                     missed, halfSent, cancelledLate>>
      /\ rxState' = IF rxState = "NOSYNC" THEN "INACTIVE" ELSE rxState
  BY DEF Stop, txVars, receiveVars, history, NoTaskRuns
<1>3. MoteTypeOK'
  <2>1. MoteFlags'
    BY <1>1, <1>2, Zenon DEF MoteTypeOK, MoteFlags
  <2>2. rxState' \in RxStates
    BY <1>1, <1>2 DEF MoteTypeOK, RxStates
  <2>. QED
    BY <1>1, <1>2, <2>1, <2>2 DEF MoteTypeOK, StopPoints
<1>4. SwitchInv'
  BY <1>2 DEF MoteInv, SwitchInv, MoteQuiet, Stopped, StopPoints, Has
<1>5. RxInv'
  BY <1>2 DEF MoteInv, RxInv
<1>6. TxInv'
  BY <1>2 DEF MoteInv, TxInv, Done, Has, Midway
<1>. QED
  BY <1>3, <1>4, <1>5, <1>6 DEF MoteInv

LEMMA StopTxKeeps == MoteInv /\ stopTx => MoteInv'
<1>. SUFFICES ASSUME MoteInv, stopTx
              PROVE  MoteInv'
  OBVIOUS
<1>1. MoteTypeOK
  BY DEF MoteInv
<1>2. /\ running = "stopTx" /\ running' = "testOff"
      /\ UNCHANGED <<rxState, rxByteCnt, rxProto, txIndex, txByteCnt, txBuf, acks, offPending,
                     sendState, which, locked, received, posted, uart, sending, escape, user,
                     revived, missed, halfSent, cancelledLate>>
      /\ txState' = IF txState = "IDLE" THEN "INACTIVE" ELSE txState
  BY DEF stopTx, rxVars, receiveVars, history
<1>3. MoteTypeOK'
  <2>1. MoteFlags'
    BY <1>1, <1>2, Zenon DEF MoteTypeOK, MoteFlags
  <2>2. txState' \in TxStates
    BY <1>1, <1>2 DEF MoteTypeOK, TxStates
  <2>. QED
    BY <1>1, <1>2, <2>1, <2>2 DEF MoteTypeOK, StopPoints
<1>4. SwitchInv'
  BY <1>2 DEF MoteInv, SwitchInv, MoteQuiet, Stopped, StopPoints, Has
<1>5. RxInv'
  BY <1>2 DEF MoteInv, RxInv
<1>6. TxInv'
  BY <1>2 DEF MoteInv, TxInv, Done, Has, Midway
<1>. QED
  BY <1>3, <1>4, <1>5, <1>6 DEF MoteInv

LEMMA StopTestKeeps == MoteInv /\ stopTest => MoteInv'
<1>. SUFFICES ASSUME MoteInv, stopTest
              PROVE  MoteInv'
  OBVIOUS
<1>1. MoteTypeOK
  BY DEF MoteInv
<1>2. /\ running = "testOff" /\ missed' = FALSE
      /\ running' = IF txState = "INACTIVE" /\ rxState = "INACTIVE" THEN "turnOff" ELSE "stayOn"
      /\ UNCHANGED <<rxState, rxByteCnt, rxProto, txState, txIndex, txByteCnt, txBuf, acks,
                     offPending, sendState, which, locked, received, posted, uart, sending,
                     escape, user, revived, halfSent, cancelledLate>>
  BY DEF stopTest, rxVars, txVars, receiveVars
<1>3. MoteTypeOK'
  <2>1. MoteFlags'
    BY <1>1, <1>2, Zenon DEF MoteTypeOK, MoteFlags
  <2>. QED
    BY <1>1, <1>2, <2>1 DEF MoteTypeOK, StopPoints
<1>4. SwitchInv'
  BY <1>2 DEF MoteInv, SwitchInv, MoteQuiet, Stopped, StopPoints, Has
<1>5. RxInv'
  BY <1>2 DEF MoteInv, RxInv
<1>6. TxInv'
  BY <1>2 DEF MoteInv, TxInv, Done, Has
<1>. QED
  BY <1>3, <1>4, <1>5, <1>6 DEF MoteInv

LEMMA StopDecidedKeeps == MoteInv /\ stopDecided => MoteInv'
<1>. SUFFICES ASSUME MoteInv, stopDecided
              PROVE  MoteInv'
  OBVIOUS
<1>1. MoteTypeOK
  BY DEF MoteInv
<1>2. /\ running \in {"turnOff", "stayOn"} /\ running' = "none"
      /\ UNCHANGED <<rxState, rxByteCnt, rxProto, txState, txIndex, txByteCnt, txBuf, acks,
                     sendState, which, locked, received, uart, sending, escape, user, revived,
                     missed, halfSent, cancelledLate>>
      /\ offPending' = (running = "stayOn")
  BY DEF stopDecided, rxVars, txVars, receiveVars, history
<1>3. /\ posted' \in Seq(Tasks) /\ IsInjective(posted')
      /\ \A u \in Tasks : u # "stopDoneTask" => (Has(u)' <=> Has(u))
      /\ RunBeforeStop(posted) => RunBeforeStop(posted')
      /\ IF running = "turnOff" THEN Has("stopDoneTask")' ELSE posted' = posted
  BY <1>1, PostedNow, TaskNames DEF stopDecided, Has, MoteTypeOK
<1>4. user = "stopping"
  BY <1>2 DEF MoteInv, SwitchInv, StopPoints
<1>5. MoteTypeOK'
  <2>1. MoteFlags'
    BY <1>1, <1>2, Zenon DEF MoteTypeOK, MoteFlags
  <2>. QED
    BY <1>1, <1>2, <1>3, <2>1 DEF MoteTypeOK
<1>6. SwitchInv'
  BY <1>2, <1>3, <1>4, TaskNames DEF MoteInv, SwitchInv, MoteQuiet, Stopped, StopPoints, Has
<1>7. RxInv'
  BY <1>2 DEF MoteInv, RxInv
<1>8. TxInv'
  BY <1>2, <1>3, TaskNames DEF MoteInv, TxInv, Done, Has
<1>. QED
  BY <1>5, <1>6, <1>7, <1>8 DEF MoteInv

LEMMA StartDoneKeeps == MoteInv /\ startDoneTask => MoteInv'
<1>. SUFFICES ASSUME MoteInv, startDoneTask
              PROVE  MoteInv'
  OBVIOUS
<1>1. MoteTypeOK
  BY DEF MoteInv
<1>2. /\ posted' \in Seq(Tasks) /\ IsInjective(posted')
      /\ Has("startDoneTask") /\ ~Has("startDoneTask")'
      /\ \A u \in Tasks : u # "startDoneTask" => (Has(u)' <=> Has(u))
      /\ RunBeforeStop(posted) => RunBeforeStop(posted')
      /\ running = "none"
  BY <1>1, TaskTaken, TaskNames DEF startDoneTask, Has
<1>3. ~uart /\ user \notin {"on", "stopping"} /\ ~sending
  BY <1>2 DEF MoteInv, SwitchInv, TxInv
<1>4. MoteTypeOK'
  <2>1. MoteFlags'
    BY <1>1, Zenon DEF MoteTypeOK, MoteFlags, startDoneTask
  <2>. QED
    BY <1>1, <1>2, <2>1 DEF MoteTypeOK, startDoneTask, receiveVars, RxStates, TxStates
<1>5. SwitchInv'
  <2>1. /\ Stopped' <=> Stopped
        /\ Has("stopDoneTask")' => Stopped
        /\ Has("defaultSerialFlushTask")' => Stopped
    BY <1>2, TaskNames DEF Stopped, Has
  <2>2. ~revived' => ~offPending /\ ~Stopped
    <3>1. CASE ~revived
      BY <1>1, <1>3, <3>1 DEF MoteInv, SwitchInv, MoteQuiet, MoteTypeOK
    <3>2. CASE revived
      BY <3>2 DEF startDoneTask
    <3>. QED
      BY <3>1, <3>2
  <2>3. ~Stopped => RunBeforeStop(posted')
    BY <2>1 DEF RunBeforeStop, Has, Contains
  <2>4. UNCHANGED <<offPending, running>> /\ uart' /\ txState' = "IDLE" /\ user' = "on"
    BY DEF startDoneTask
  <2>. QED
    BY <1>2, <2>1, <2>2, <2>3, <2>4 DEF SwitchInv, StopPoints
<1>6. RxInv'
  <2>1. ~revived => rxState = "INACTIVE"
    BY <1>1, <1>3 DEF MoteInv, SwitchInv, MoteQuiet, MoteTypeOK
  <2>. QED
    BY <2>1 DEF MoteInv, RxInv, startDoneTask, receiveVars
<1>7. TxInv'
  BY <1>2, <1>3, TaskNames DEF MoteInv, TxInv, Done, Has, Midway, startDoneTask
<1>. QED
  BY <1>4, <1>5, <1>6, <1>7 DEF MoteInv

LEMMA StopDoneKeeps == MoteInv /\ stopDoneTask => MoteInv'
<1>. SUFFICES ASSUME MoteInv, stopDoneTask
              PROVE  MoteInv'
  OBVIOUS
<1>1. MoteTypeOK
  BY DEF MoteInv
<1>2. /\ Has("stopDoneTask")
      /\ Tail(posted) \in Seq(Tasks) /\ IsInjective(Tail(posted))
      /\ \A u \in Tasks : Contains(Tail(posted), u) <=> Has(u) /\ u # "stopDoneTask"
      /\ RunBeforeStop(posted) => RunBeforeStop(Tail(posted)) /\ ~Has("RunTx")
      /\ running = "none"
  BY <1>1, TaskTaken DEF stopDoneTask
<1>3. posted' = post(Tail(posted), "defaultSerialFlushTask")
  BY DEF stopDoneTask
<1>4. /\ posted' \in Seq(Tasks) /\ IsInjective(posted')
      /\ \A u \in Tasks : Has(u)' <=> (Has(u) /\ u # "stopDoneTask")
                                        \/ u = "defaultSerialFlushTask"
      /\ RunBeforeStop(posted) => RunBeforeStop(posted')
  BY <1>2, <1>3, Posts, TaskNames DEF Has
<1>5. MoteTypeOK'
  <2>1. MoteFlags'
    BY <1>1, Zenon DEF MoteTypeOK, MoteFlags, stopDoneTask, history
  <2>. QED
    BY <1>1, <1>4, <2>1 DEF MoteTypeOK, stopDoneTask, rxVars, txVars, receiveVars
<1>6. SwitchInv'
  BY <1>2, <1>4, TaskNames
  DEF MoteInv, SwitchInv, MoteQuiet, Stopped, StopPoints, Has, stopDoneTask, rxVars, txVars,
      history
<1>7. RxInv'
  BY DEF MoteInv, RxInv, stopDoneTask, rxVars, receiveVars, history
<1>8. TxInv'
  BY <1>4, TaskNames DEF MoteInv, TxInv, Done, Has, stopDoneTask, txVars, history
<1>. QED
  BY <1>5, <1>6, <1>7, <1>8 DEF MoteInv

LEMMA FlushDoneKeeps ==
  MoteInv /\ flushDone => MoteInv' /\ (user = "stopping" \/ revived)
<1>. SUFFICES ASSUME MoteInv, flushDone
              PROVE  MoteInv' /\ (user = "stopping" \/ revived)
  OBVIOUS
<1>1. MoteTypeOK
  BY DEF MoteInv
<1>2. /\ posted' \in Seq(Tasks) /\ IsInjective(posted')
      /\ Has("defaultSerialFlushTask")
      /\ \A u \in Tasks : Has(u)' <=> Has(u) /\ u # "defaultSerialFlushTask"
      /\ RunBeforeStop(posted) => RunBeforeStop(posted')
      /\ running = "none"
  BY <1>1, TaskTaken, TaskNames DEF flushDone, Has
<1>3. ~revived => /\ user = "stopping"
                  /\ MoteQuiet /\ ~Has("stopDoneTask") /\ ~Has("RunTx")
                  /\ RunBeforeStop(posted)
  BY <1>1, <1>2 DEF MoteInv, SwitchInv, Stopped, Has, MoteTypeOK
<1>4. MoteTypeOK'
  <2>1. MoteFlags'
    BY <1>1, Zenon DEF MoteTypeOK, MoteFlags, flushDone
  <2>. QED
    BY <1>1, <1>2, <2>1 DEF MoteTypeOK, flushDone, rxVars, txVars, receiveVars
<1>6. SwitchInv'
  BY <1>2, <1>3, TaskNames
  DEF SwitchInv, MoteQuiet, Stopped, StopPoints, Has, flushDone, rxVars, txVars
<1>7. RxInv'
  BY DEF MoteInv, RxInv, flushDone, rxVars, receiveVars
<1>8. TxInv'
  BY <1>2, <1>3, TaskNames
  DEF MoteInv, TxInv, MoteQuiet, Done, Has, Midway, flushDone, txVars
<1>. QED
  BY <1>3, <1>4, <1>6, <1>7, <1>8 DEF MoteInv

-----------------------------------------------------------------------------
(* The other tasks, and the commands that send.                            *)

LEMMA ReceiveTaskKeeps == MoteInv /\ receiveTask => MoteInv'
<1>. SUFFICES ASSUME MoteInv, receiveTask
              PROVE  MoteInv'
  OBVIOUS
<1>1. MoteTypeOK
  BY DEF MoteInv
<1>2. /\ posted' \in Seq(Tasks) /\ IsInjective(posted')
      /\ \A u \in Tasks : u # "receiveTask" => (Has(u)' <=> Has(u))
      /\ RunBeforeStop(posted) => RunBeforeStop(posted')
  BY <1>1, TaskTaken, TaskNames DEF receiveTask, Has
<1>3. MoteTypeOK'
  <2>1. MoteFlags'
    BY <1>1, Zenon DEF MoteTypeOK, MoteFlags, receiveTask, history
  <2>. QED
    BY <1>1, <1>2, <2>1 DEF MoteTypeOK, receiveTask, rxVars, txVars
<1>4. SwitchInv'
  BY <1>2, TaskNames
  DEF MoteInv, SwitchInv, MoteQuiet, Stopped, Has, receiveTask, rxVars, txVars, history
<1>5. RxInv'
  <2>1. which # received /\ which # NONE
    BY <1>1 DEF MoteInv, RxInv, MoteTypeOK, NONE
  <2>2. /\ received' = NONE /\ locked' = locked \ {received}
        /\ UNCHANGED <<which, rxState, revived>>
    BY DEF receiveTask, rxVars, history
  <2>. QED
    BY <2>1, <2>2 DEF MoteInv, RxInv
<1>6. TxInv'
  BY <1>2, TaskNames DEF MoteInv, TxInv, Done, Has, receiveTask, txVars, history
<1>. QED
  BY <1>3, <1>4, <1>5, <1>6 DEF MoteInv

LEMMA SignalSendDoneKeeps == MoteInv /\ signalSendDone => MoteInv'
<1>. SUFFICES ASSUME MoteInv, signalSendDone
              PROVE  MoteInv'
  OBVIOUS
<1>1. MoteTypeOK
  BY DEF MoteInv
<1>2. /\ posted' \in Seq(Tasks) /\ IsInjective(posted')
      /\ Has("signalSendDone") /\ ~Has("signalSendDone")'
      /\ \A u \in Tasks : u # "signalSendDone" => (Has(u)' <=> Has(u))
      /\ RunBeforeStop(posted) => RunBeforeStop(posted')
  BY <1>1, TaskTaken, TaskNames DEF signalSendDone, Has
<1>3. MoteTypeOK'
  <2>1. MoteFlags'
    <3>1. cancelledLate' \in BOOLEAN
      BY DEF signalSendDone
    <3>. QED
      BY <1>1, <3>1, Zenon DEF MoteTypeOK, MoteFlags, signalSendDone
  <2>. QED
    BY <1>1, <1>2, <2>1 DEF MoteTypeOK, signalSendDone, rxVars, txVars, receiveVars
<1>4. SwitchInv'
  BY <1>2, TaskNames
  DEF MoteInv, SwitchInv, MoteQuiet, Stopped, Has, signalSendDone, rxVars, txVars
<1>5. RxInv'
  BY DEF MoteInv, RxInv, signalSendDone, rxVars, receiveVars
<1>6. TxInv'
  BY <1>1, <1>2, TaskNames DEF MoteInv, MoteTypeOK, TxInv, Done, Has, signalSendDone, txVars
<1>. QED
  BY <1>3, <1>4, <1>5, <1>6 DEF MoteInv

LEMMA SendKeeps == MoteInv /\ Send => MoteInv'
<1>. SUFFICES ASSUME MoteInv, Send
              PROVE  MoteInv'
  OBVIOUS
<1>1. MoteTypeOK
  BY DEF MoteInv
<1>2. /\ posted' \in Seq(Tasks) /\ IsInjective(posted')
      /\ Has("RunTx")'
      /\ \A u \in Tasks : u # "RunTx" => (Has(u)' <=> Has(u))
      /\ RunBeforeStop(posted) /\ ~Has("stopDoneTask") => RunBeforeStop(posted')
  BY <1>1, PostedNow, TaskNames DEF Send, MaybeScheduleTx, Has
<1>3. ~revived => ~Stopped /\ running # "turnOff" /\ user \notin {"off", "starting"}
  BY <1>1 DEF MoteInv, SwitchInv, MoteQuiet, Send, MoteTypeOK
<1>4. /\ txBuf' \in [{"ack", "data"} -> {"AVAILABLE", "FILLING", "COMPLETE"}]
      /\ txBuf'["data"] = "FILLING" /\ txBuf["data"] = "AVAILABLE"
  BY <1>1 DEF Send, MoteTypeOK
<1>5. MoteTypeOK'
  <2>1. MoteFlags'
    BY <1>1, Zenon DEF MoteTypeOK, MoteFlags, Send, history
  <2>. QED
    BY <1>1, <1>2, <1>4, <2>1 DEF MoteTypeOK, Send, rxVars, receiveVars
<1>6. SwitchInv'
  BY <1>2, <1>3, TaskNames
  DEF MoteInv, SwitchInv, MoteQuiet, Stopped, Has, Send, rxVars, history
<1>7. RxInv'
  BY DEF MoteInv, RxInv, Send, rxVars, receiveVars, history
<1>8. TxInv'
  BY <1>2, <1>4, TaskNames DEF MoteInv, TxInv, Done, Has, Send, history
<1>. QED
  BY <1>5, <1>6, <1>7, <1>8 DEF MoteInv

LEMMA CancelKeeps == MoteInv /\ Cancel => MoteInv'
<1>. SUFFICES ASSUME MoteInv, Cancel
              PROVE  MoteInv'
  OBVIOUS
<1>1. MoteTypeOK
  BY DEF MoteInv
<1>2. /\ txBuf' \in [{"ack", "data"} -> {"AVAILABLE", "FILLING", "COMPLETE"}]
      /\ txBuf'["data"] = "COMPLETE"
  BY <1>1 DEF Cancel, MoteTypeOK
<1>3. MoteTypeOK'
  <2>1. MoteFlags'
    <3>1. cancelledLate' \in BOOLEAN
      BY DEF Cancel
    <3>. QED
      BY <1>1, <3>1, Zenon DEF MoteTypeOK, MoteFlags, Cancel
  <2>. QED
    BY <1>1, <1>2, <2>1 DEF MoteTypeOK, Cancel, rxVars, receiveVars
<1>4. SwitchInv'
  BY DEF MoteInv, SwitchInv, MoteQuiet, Stopped, Has, Cancel, rxVars
<1>5. RxInv'
  BY DEF MoteInv, RxInv, Cancel, rxVars, receiveVars
<1>6. TxInv'
  BY <1>2 DEF MoteInv, TxInv, Done, Has, Cancel
<1>. QED
  BY <1>3, <1>4, <1>5, <1>6 DEF MoteInv

LEMMA RunTxKeeps == MoteInv /\ RunTx => MoteInv'
<1>. SUFFICES ASSUME MoteInv, RunTx
              PROVE  MoteInv'
  OBVIOUS
<1>1. MoteTypeOK
  BY DEF MoteInv
<1>2. /\ Has("RunTx")
      /\ Tail(posted) \in Seq(Tasks) /\ IsInjective(Tail(posted))
      /\ \A u \in Tasks : Contains(Tail(posted), u) <=> Has(u) /\ u # "RunTx"
      /\ RunBeforeStop(posted) => RunBeforeStop(Tail(posted))
      /\ running = "none"
  BY <1>1, TaskTaken DEF RunTx
<1>3. /\ posted' \in Seq(Tasks) /\ IsInjective(posted')
      /\ ~Has("RunTx")'
      /\ \A u \in Tasks \ {"RunTx", "signalSendDone"} : Has(u)' <=> Has(u)
      /\ Has("signalSendDone")' <=> Has("signalSendDone") \/ (Done /\ txIndex = "data")
      /\ RunBeforeStop(posted) => RunBeforeStop(posted')
  <2>1. CASE Done /\ txIndex = "data"
    <3>1. posted' = post(Tail(posted), "signalSendDone")
      BY <2>1 DEF RunTx
    <3>. QED
      BY <1>2, <2>1, <3>1, Posts, TaskNames DEF Has
  <2>2. CASE ~(Done /\ txIndex = "data")
    <3>1. posted' = Tail(posted)
      BY <2>2 DEF RunTx
    <3>. QED
      BY <1>2, <2>2, <3>1, TaskNames DEF Has
  <2>. QED
    BY <2>1, <2>2
<1>4. /\ txState' = IF Done \/ txState = "IDLE"
                      THEN (IF offPending THEN "INACTIVE" ELSE "IDLE") ELSE txState
      /\ acks' \in 0..ACK_QUEUE_SIZE
      /\ UNCHANGED <<rxState, rxByteCnt, rxProto, txByteCnt, offPending, sendState, which,
                     locked, received, uart, sending, escape, user, revived, missed, halfSent,
                     cancelledLate>>
  BY <1>1, MoteAssumption
  DEF RunTx, Done, MoteTypeOK, rxVars, receiveVars, history
<1>5. /\ txBuf' \in [{"ack", "data"} -> {"AVAILABLE", "FILLING", "COMPLETE"}]
      /\ txBuf'["data"] = IF Done /\ txIndex = "data" THEN "AVAILABLE" ELSE txBuf["data"]
      /\ txIndex' \in {"ack", "data"}
      /\ running' \in {"start", "nothing"}
      /\ running' = "start" => /\ txState' = "IDLE"
                               /\ txIndex' = "data" => txBuf'["data"] # "AVAILABLE"
      /\ running' = "nothing" => txIndex' = txIndex
  <2> DEFINE free == IF Done THEN [txBuf EXCEPT ![txIndex] = "AVAILABLE"] ELSE txBuf
             ackNext == acks' > 0 /\ free["ack"] = "AVAILABLE"
             dataNext == ~ackNext /\ free["data"] # "AVAILABLE"
  <2>1. /\ free \in [{"ack", "data"} -> {"AVAILABLE", "FILLING", "COMPLETE"}]
        /\ free["data"] = IF Done /\ txIndex = "data" THEN "AVAILABLE" ELSE txBuf["data"]
    BY <1>1 DEF MoteTypeOK
  <2>2. IF txState' = "IDLE" /\ (ackNext \/ dataNext)
          THEN /\ running' = "start"
               /\ txIndex' = IF ackNext THEN "ack" ELSE "data"
               /\ txBuf' = IF ackNext THEN [free EXCEPT !["ack"] = "COMPLETE"] ELSE free
          ELSE running' = "nothing" /\ txBuf' = free /\ UNCHANGED txIndex
    BY DEF RunTx
  <2>. HIDE DEF free
  <2>. QED
    BY <1>1, <2>1, <2>2 DEF MoteTypeOK
<1>6. MoteTypeOK'
  <2>1. txState' \in TxStates
    BY <1>1, <1>4 DEF MoteTypeOK, TxStates
  <2>2. MoteFlags'
    BY <1>1, <1>4, Zenon DEF MoteTypeOK, MoteFlags
  <2>. QED
    BY <1>1, <1>3, <1>4, <1>5, <2>1, <2>2 DEF MoteTypeOK
<1>7. SwitchInv'
  BY <1>1, <1>2, <1>3, <1>4, <1>5, TaskNames
  DEF MoteInv, SwitchInv, MoteQuiet, Stopped, StopPoints, Has, MoteTypeOK, Done
<1>8. RxInv'
  BY <1>4 DEF MoteInv, RxInv
<1>9. TxInv'
  <2>1. ~Done'
    BY <1>4 DEF Done
  <2>2. txState' \in Midway <=> txState \in Midway
    BY <1>4 DEF Done, Midway
  <2>3. txState \in Midway => ~Done /\ running' = "nothing"
    BY <1>4, <1>5 DEF Done, Midway
  <2>4. Done /\ txIndex = "data" => txBuf["data"] # "AVAILABLE"
    BY DEF MoteInv, TxInv
  <2>5. /\ sending' => uart' /\ txState' \in Midway
        /\ ~revived' => /\ txState' \in Midway => sending' \/ halfSent'
                        /\ halfSent' => txState' \in Midway /\ ~sending'
    BY <1>4, <2>2 DEF MoteInv, TxInv
  <2>6. txIndex' = "data" /\ (running' = "start" \/ txState' \in Midway) =>
          txBuf'["data"] # "AVAILABLE"
    BY <1>5, <2>2, <2>3 DEF MoteInv, TxInv
  <2>7. ~cancelledLate =>
          /\ sendState = "DATA" <=> txBuf'["data"] # "AVAILABLE" \/ Has("signalSendDone")'
          /\ Has("signalSendDone")' => txBuf'["data"] = "AVAILABLE"
    BY <1>3, <1>5, <2>4 DEF MoteInv, TxInv
  <2>. QED
    BY <1>4, <1>5, <2>1, <2>5, <2>6, <2>7 DEF TxInv
<1>. QED
  BY <1>6, <1>7, <1>8, <1>9 DEF MoteInv

LEMMA RunTxEndsKeeps == MoteInv /\ RunTxEnds => MoteInv'
<1>. SUFFICES ASSUME MoteInv, RunTxEnds
              PROVE  MoteInv'
  OBVIOUS
<1>1. MoteTypeOK
  BY DEF MoteInv
<1>2. /\ running \in {"start", "nothing"} /\ running' = "none"
      /\ UNCHANGED <<acks, sendState, which, locked, received, uart, user, revived, halfSent,
                     cancelledLate>>
  BY DEF RunTxEnds, receiveVars
<1>3. RxInv' /\ rxState' = rxState
  BY <1>2 DEF MoteInv, RxInv, RunTxEnds, rxVars, testOff
<1>4. CASE txState = "INACTIVE"
  <2>1. /\ UNCHANGED <<rxState, rxByteCnt, rxProto, txState, txIndex, txByteCnt, txBuf, sending,
                       escape>>
        /\ testOff(posted)
        /\ missed' = FALSE
    BY <1>4 DEF RunTxEnds, testOff, rxVars, txVars
  <2>2. /\ posted' \in Seq(Tasks) /\ IsInjective(posted')
        /\ \A u \in Tasks : u # "stopDoneTask" => (Has(u)' <=> Has(u))
        /\ RunBeforeStop(posted) => RunBeforeStop(posted')
        /\ offPending' \in BOOLEAN
        /\ IF rxState = "INACTIVE"
             THEN Has("stopDoneTask")' /\ ~offPending'
             ELSE posted' = posted /\ offPending'
    <3>1. CASE rxState = "INACTIVE"
      <4>1. posted' = post(posted, "stopDoneTask")
        BY <1>4, <2>1, <3>1 DEF testOff
      <4>2. txState' = "INACTIVE" /\ rxState' = "INACTIVE"
        BY <1>4, <2>1, <3>1
      <4>3. offPending' \in BOOLEAN /\ ~offPending'
        BY <2>1, <4>2, Zenon DEF testOff
      <4>. QED
        BY <1>1, <3>1, <4>1, <4>3, PostedNow, TaskNames DEF Has
    <3>2. CASE rxState # "INACTIVE"
      <4>1. posted' = posted
        BY <1>4, <2>1, <3>2 DEF testOff
      <4>2. rxState' # "INACTIVE"
        BY <2>1, <3>2
      <4>3. offPending' \in BOOLEAN /\ offPending'
        BY <2>1, <4>2, Zenon DEF testOff
      <4>. QED
        BY <1>1, <3>2, <4>1, <4>3, TaskNames DEF Has, MoteTypeOK
    <3>. QED
      BY <3>1, <3>2
  <2>3. MoteTypeOK'
    <3>1. MoteFlags'
      BY <1>1, <1>2, <2>1, <2>2, Zenon DEF MoteTypeOK, MoteFlags
    <3>. QED
      BY <1>1, <1>2, <2>1, <2>2, <3>1 DEF MoteTypeOK
  <2>4. SwitchInv'
    BY <1>1, <1>2, <1>4, <2>1, <2>2, TaskNames
    DEF MoteInv, SwitchInv, MoteQuiet, Stopped, StopPoints, Has, MoteTypeOK
  <2>5. TxInv'
    BY <1>2, <1>4, <2>1, <2>2, TaskNames DEF MoteInv, TxInv, Done, Has
  <2>. QED
    BY <1>3, <2>3, <2>4, <2>5 DEF MoteInv
<1>5. CASE txState # "INACTIVE" /\ running = "start"
  <2>1. /\ UNCHANGED <<rxState, rxByteCnt, rxProto, offPending, missed, txIndex, txBuf>>
        /\ txByteCnt' = 0
        /\ Put("PROTO")
    BY <1>5 DEF RunTxEnds, rxVars
  <2>2. /\ txState = "IDLE" /\ ~sending
        /\ txIndex = "data" => txBuf["data"] # "AVAILABLE"
    BY <1>5 DEF MoteInv, TxInv, Midway
  <2>3. ~revived => ~Stopped /\ user \notin {"off", "starting"}
    BY <1>1, <1>5 DEF MoteInv, SwitchInv, MoteQuiet, MoteTypeOK
  <2>4. escape' = FALSE
    BY <2>1 DEF Put
  <2>5. \/ uart /\ sending' = TRUE /\ txState' = "PROTO" /\ posted' = posted
        \/ sending' = sending /\ txState' = "ERROR" /\ posted' = post(posted, "RunTx")
    BY <2>1 DEF Put, MaybeScheduleTx
  <2>6. /\ posted' \in Seq(Tasks) /\ IsInjective(posted')
        /\ \A u \in Tasks : u # "RunTx" => (Has(u)' <=> Has(u))
        /\ RunBeforeStop(posted) /\ ~Has("stopDoneTask") => RunBeforeStop(posted')
        /\ txState' = "ERROR" => Has("RunTx")'
    BY <1>1, <2>5, PostedNow, TaskNames DEF Has, MoteTypeOK
  <2>7. MoteTypeOK'
    <3>1. MoteFlags'
      <4>1. sending' \in BOOLEAN
        BY <1>1, <2>5, Zenon DEF MoteTypeOK, MoteFlags
      <4>. QED
        BY <1>1, <1>2, <2>1, <2>4, <4>1, Zenon DEF MoteTypeOK, MoteFlags
    <3>2. txState' \in TxStates
      BY <2>5 DEF TxStates, Midway
    <3>. QED
      BY <1>1, <1>2, <2>1, <2>6, <3>1, <3>2, MoteAssumption DEF MoteTypeOK
  <2>8. SwitchInv'
    BY <1>2, <2>1, <2>2, <2>3, <2>5, <2>6, TaskNames
    DEF MoteInv, SwitchInv, MoteQuiet, Stopped, StopPoints, Has
  <2>9. TxInv'
    BY <1>2, <2>1, <2>2, <2>5, <2>6, TaskNames DEF MoteInv, TxInv, Done, Midway
  <2>. QED
    BY <1>3, <2>7, <2>8, <2>9 DEF MoteInv
<1>6. CASE txState # "INACTIVE" /\ running # "start"
  <2>1. UNCHANGED <<rxState, rxByteCnt, rxProto, offPending, missed, txState, txIndex, txByteCnt,
                    txBuf, posted, sending, escape>>
    BY <1>6 DEF RunTxEnds, rxVars, txVars
  <2>2. MoteTypeOK'
    <3>1. MoteFlags'
      BY <1>1, <1>2, <2>1, Zenon DEF MoteTypeOK, MoteFlags
    <3>. QED
      BY <1>1, <1>2, <2>1, <3>1 DEF MoteTypeOK
  <2>3. SwitchInv'
    BY <1>2, <2>1 DEF MoteInv, SwitchInv, MoteQuiet, Stopped, StopPoints, Has
  <2>4. TxInv'
    BY <1>2, <2>1 DEF MoteInv, TxInv, Done, Has
  <2>. QED
    BY <1>3, <2>2, <2>3, <2>4 DEF MoteInv
<1>. QED
  BY <1>4, <1>5, <1>6

-----------------------------------------------------------------------------
(* The interrupts of the UART. *)

LEMMA PutDoneKeeps == MoteInv /\ putDone => MoteInv'
<1>. SUFFICES ASSUME MoteInv, putDone
              PROVE  MoteInv'
  OBVIOUS
<1>1. MoteTypeOK
  BY DEF MoteInv
<1>2. /\ uart /\ sending /\ txState \in Midway
      /\ UNCHANGED <<rxState, rxByteCnt, rxProto, txIndex, acks, offPending, sendState, which,
                     locked, received, running, uart, user, revived, missed, halfSent,
                     cancelledLate>>
      /\ running # "start"
  BY DEF putDone, MoteInv, TxInv, Midway, rxVars, receiveVars, history
<1>3. /\ txByteCnt' \in 0..SERIAL_MTU
      /\ txBuf' \in [{"ack", "data"} -> {"AVAILABLE", "FILLING", "COMPLETE"}]
      /\ \/ txBuf'["data"] = txBuf["data"]
         \/ txIndex = "data" /\ txBuf'["data"] = "COMPLETE"
  <2>1. CASE txState # "INFO"
    <3>1. txByteCnt' = txByteCnt /\ txBuf' = txBuf
      BY <2>1 DEF putDone
    <3>. QED
      BY <1>1, <3>1 DEF MoteTypeOK
  <2>2. CASE txState = "INFO"
    <3>1. PICK next \in {"INFO", "FCS1"} : info(next)
      BY <2>2 DEF putDone, Midway
    <3>2. /\ txBuf' \in [{"ack", "data"} -> {"AVAILABLE", "FILLING", "COMPLETE"}]
          /\ \/ txBuf'["data"] = txBuf["data"]
             \/ txIndex = "data" /\ txBuf'["data"] = "COMPLETE"
      <4>1. PICK ends \in BOOLEAN :
              /\ ends => txIndex = "data"
              /\ txBuf' = IF ends THEN [txBuf EXCEPT !["data"] = "COMPLETE"] ELSE txBuf
        BY <3>1 DEF info
      <4>2. CASE ends
        BY <1>1, <4>1, <4>2 DEF MoteTypeOK
      <4>3. CASE ~ends
        BY <1>1, <4>1, <4>3 DEF MoteTypeOK
      <4>. QED
        BY <4>1, <4>2, <4>3
    <3>3. txByteCnt' \in 0..SERIAL_MTU
      BY <1>1, <3>1, MoteAssumption DEF info, MoteTypeOK
    <3>. QED
      BY <3>2, <3>3
  <2>. QED
    BY <2>1, <2>2
<1>4. \/ txState' \in Midway /\ UNCHANGED <<sending, posted>>
      \/ txState' \in {"FINISH", "ERROR"} /\ sending' = FALSE /\ posted' = post(posted, "RunTx")
  BY <1>2 DEF putDone, PutData, PutPlain, PutNext, MaybeScheduleTx, Midway
<1>5. /\ posted' \in Seq(Tasks) /\ IsInjective(posted')
      /\ \A u \in Tasks : u # "RunTx" => (Has(u)' <=> Has(u))
      /\ Has("RunTx") => Has("RunTx")'
      /\ RunBeforeStop(posted) /\ ~Has("stopDoneTask") => RunBeforeStop(posted')
      /\ txState' \in Midway \/ Has("RunTx")'
  BY <1>1, <1>4, PostedNow, TaskNames DEF Has, MoteTypeOK
<1>6. ~revived => ~Stopped /\ running # "turnOff" /\ user \notin {"off", "starting"}
  BY <1>1, <1>2 DEF MoteInv, SwitchInv, MoteQuiet, MoteTypeOK, Midway
<1>7. MoteTypeOK'
  <2>1. MoteFlags'
    <3>1. sending' \in BOOLEAN
      BY <1>1, <1>4, Zenon DEF MoteTypeOK, MoteFlags
    <3>2. escape' \in BOOLEAN
      <4>1. escape \in BOOLEAN
        BY <1>1, Zenon DEF MoteTypeOK, MoteFlags
      <4>. QED
        BY <1>2, <4>1 DEF putDone, PutData, PutPlain, Midway
    <3>. QED
      BY <1>1, <1>2, <3>1, <3>2, Zenon DEF MoteTypeOK, MoteFlags
  <2>2. txState' \in TxStates
    BY <1>4 DEF TxStates
  <2>. QED
    BY <1>1, <1>2, <1>3, <1>5, <2>1, <2>2 DEF MoteTypeOK
<1>8. SwitchInv'
  BY <1>2, <1>4, <1>5, <1>6, TaskNames
  DEF MoteInv, SwitchInv, MoteQuiet, Stopped, StopPoints, Has, Midway
<1>9. RxInv'
  BY <1>2 DEF MoteInv, RxInv
<1>10. TxInv'
  BY <1>2, <1>3, <1>4, <1>5, TaskNames DEF MoteInv, TxInv, Done, Midway
<1>. QED
  BY <1>7, <1>8, <1>9, <1>10 DEF MoteInv

(* The second byte of two goes into the UART, or is lost.                  *)
LEMMA EscapedSentKeeps == MoteInv /\ escapedSent => MoteInv'
<1>. SUFFICES ASSUME MoteInv, escapedSent
              PROVE  MoteInv'
  OBVIOUS
<1>1. MoteTypeOK
  BY DEF MoteInv
<1>2. /\ uart /\ sending /\ escape' = FALSE /\ sending' \in BOOLEAN
      /\ halfSent' = (halfSent \/ ~sending')
      /\ UNCHANGED <<rxState, rxByteCnt, rxProto, txState, txIndex, txByteCnt, txBuf, acks,
                     offPending, sendState, which, locked, received, posted, running, uart, user,
                     revived, missed, cancelledLate>>
  BY DEF escapedSent, rxVars, txVars, receiveVars
<1>3. MoteTypeOK'
  <2>1. MoteFlags'
    <3>1. halfSent' \in BOOLEAN
      BY <1>2
    <3>. QED
      BY <1>1, <1>2, <3>1, Zenon DEF MoteTypeOK, MoteFlags
  <2>. QED
    BY <1>1, <1>2, <2>1 DEF MoteTypeOK
<1>4. SwitchInv'
  BY <1>2 DEF MoteInv, SwitchInv, MoteQuiet, Stopped, Has
<1>5. RxInv'
  BY <1>2 DEF MoteInv, RxInv
<1>6. TxInv'
  <2>1. sending' => uart' /\ txState' \in Midway
    BY <1>2 DEF MoteInv, TxInv
  <2>2. ~revived' => /\ txState' \in Midway => sending' \/ halfSent'
                     /\ halfSent' => txState' \in Midway /\ ~sending'
    BY <1>2 DEF MoteInv, TxInv
  <2>3. /\ Done' => Has("RunTx")'
        /\ Done' = Done /\ UNCHANGED <<Has("RunTx"), Has("signalSendDone")>>
    BY <1>2 DEF MoteInv, TxInv, Done, Has
  <2>. QED
    BY <1>2, <2>1, <2>2, <2>3 DEF MoteInv, TxInv
<1>. QED
  BY <1>3, <1>4, <1>5, <1>6 DEF MoteInv

(* The end of a frame, after tasks other than those of the switch-off were *)
(* posted (queue), and the switch-off that waited for it.                  *)
LEMMA FrameOverKeeps ==
  ASSUME MoteInv,
         NEW queue \in Seq(Tasks), IsInjective(queue),
         \A u \in Tasks \ {"receiveTask", "RunTx"} : Contains(queue, u) <=> Has(u),
         Has("RunTx") => Contains(queue, "RunTx"),
         Stopped /\ ~revived => queue = posted,
         RunBeforeStop(posted) /\ ~Stopped => RunBeforeStop(queue),
         NEW next \in {"PROTO", "INACTIVE"}, FrameOver(next, queue), uart,
         revived' = (revived \/ (SwitchingOff /\ rxState' # "INACTIVE")),
         UNCHANGED <<txState, txIndex, txBuf, running, uart, sending, user, sendState,
                     halfSent, cancelledLate>>
  PROVE  /\ posted' \in Seq(Tasks) /\ IsInjective(posted')
         /\ rxState' \in {"PROTO", "INACTIVE"} /\ rxByteCnt' = 0 /\ rxProto' = "none"
         /\ {offPending', revived', missed'} \subseteq BOOLEAN
         /\ revived => revived'
         /\ SwitchInv' /\ TxInv'
<1>1. MoteTypeOK
  BY DEF MoteInv
<1>2. \/ /\ offPending /\ txState = "INACTIVE" /\ rxState' = "INACTIVE"
         /\ posted' = post(queue, "stopDoneTask") /\ offPending' = FALSE
      \/ /\ offPending /\ txState # "INACTIVE" /\ rxState' = "INACTIVE"
         /\ posted' = queue /\ offPending' = TRUE
      \/ /\ ~offPending /\ rxState' = next
         /\ posted' = queue /\ offPending' = offPending
  BY DEF FrameOver, testOff
<1>3. /\ posted' \in Seq(Tasks) /\ IsInjective(posted')
      /\ \A u \in Tasks \ {"receiveTask", "RunTx", "stopDoneTask"} : Has(u)' <=> Has(u)
      /\ Has("RunTx") => Has("RunTx")'
      /\ Has("stopDoneTask")' <=>
           Has("stopDoneTask") \/ (offPending /\ txState = "INACTIVE")
      /\ RunBeforeStop(posted) /\ ~Stopped => RunBeforeStop(posted')
  <2>1. CASE offPending /\ txState = "INACTIVE"
    <3>1. posted' = post(queue, "stopDoneTask")
      BY <1>2, <2>1
    <3>. QED
      BY <2>1, <3>1, Posts, TaskNames DEF Has
  <2>2. CASE ~(offPending /\ txState = "INACTIVE")
    <3>1. posted' = queue
      BY <1>2, <2>2
    <3>. QED
      BY <2>2, <3>1, TaskNames DEF Has
  <2>. QED
    BY <2>1, <2>2
<1>4. {offPending', revived', missed'} \subseteq BOOLEAN
  <2>1. offPending' \in BOOLEAN
    BY <1>1, <1>2, Zenon DEF MoteTypeOK, MoteFlags
  <2>2. revived' \in BOOLEAN
    OBVIOUS
  <2>3. missed' \in BOOLEAN
    BY DEF FrameOver, testOff
  <2>. QED
    BY <2>1, <2>2, <2>3
<1>5. rxState' \in {"PROTO", "INACTIVE"} /\ rxByteCnt' = 0 /\ rxProto' = "none"
  BY <1>2 DEF FrameOver
<1>6. CASE revived'
  <2>1. SwitchInv'
    BY <1>3, <1>6, TaskNames DEF MoteInv, SwitchInv
  <2>2. TxInv'
    BY <1>3, <1>6, TaskNames DEF MoteInv, TxInv, Done
  <2>. QED
    BY <1>3, <1>4, <1>5, <1>6, <2>1, <2>2
<1>7. CASE ~revived'
  <2>1. /\ ~revived /\ (Stopped => rxState' = "INACTIVE" /\ queue = posted)
        /\ running = "turnOff" => rxState' = "INACTIVE"
    BY <1>7 DEF SwitchingOff
  <2>2. CASE Stopped
    <3>1. MoteQuiet /\ user = "stopping" /\ running \notin StopPoints
      BY <1>1, <2>1, <2>2 DEF MoteInv, SwitchInv, MoteQuiet, MoteTypeOK
    <3>2. posted' = posted /\ offPending' = offPending
      BY <1>2, <2>1, <2>2, <3>1 DEF MoteQuiet
    <3>3. SwitchInv'
      BY <2>1, <2>2, <3>1, <3>2 DEF MoteInv, SwitchInv, MoteQuiet, Stopped, StopPoints, Has
    <3>. QED
      BY <1>3, <1>4, <1>5, <1>7, <2>1, <3>2, <3>3 DEF MoteInv, TxInv, Done, Has
  <2>3. CASE ~Stopped
    <3>1. SwitchInv'
      BY <1>1, <1>2, <1>3, <1>7, <2>1, <2>3, TaskNames
      DEF MoteInv, SwitchInv, MoteQuiet, Stopped, StopPoints, Has, MoteTypeOK
    <3>2. TxInv'
      BY <1>3, <1>7, <2>1, TaskNames DEF MoteInv, TxInv, Done
    <3>. QED
      BY <1>3, <1>4, <1>5, <2>1, <3>1, <3>2
  <2>. QED
    BY <2>2, <2>3
<1>. QED
  BY <1>6, <1>7

(* A frame that fails. *)
LEMMA NosyncKeeps ==
  ASSUME MoteInv, NEW isDelimeter \in BOOLEAN, nosync(isDelimeter), uart,
         revived' = (revived \/ (SwitchingOff /\ rxState' # "INACTIVE")),
         UNCHANGED <<txVars, sendState, running, uart, sending, escape, user, halfSent,
                     cancelledLate>>
  PROVE  MoteInv'
<1>1. MoteTypeOK
  BY DEF MoteInv
<1>2. PICK next \in {"PROTO", "INACTIVE"} : FrameOver(next, posted)
  BY DEF nosync
<1>3. /\ UNCHANGED <<txState, txIndex, txByteCnt, txBuf, running, uart, sending, escape, user, sendState,
                     halfSent, cancelledLate, which, received, acks>>
      /\ locked' = locked \ {which}
  BY DEF nosync, endPacketFails, txVars
<1>4. posted \in Seq(Tasks) /\ IsInjective(posted)
  BY <1>1 DEF MoteTypeOK
<1>5. /\ posted' \in Seq(Tasks) /\ IsInjective(posted')
      /\ rxState' \in {"PROTO", "INACTIVE"} /\ rxByteCnt' = 0 /\ rxProto' = "none"
      /\ {offPending', revived', missed'} \subseteq BOOLEAN
      /\ revived => revived'
      /\ SwitchInv' /\ TxInv'
  BY <1>2, <1>3, <1>4, FrameOverKeeps DEF Has
<1>6. MoteTypeOK'
  <2>1. MoteFlags'
    BY <1>1, <1>3, <1>5, Zenon DEF MoteTypeOK, MoteFlags
  <2>. QED
    BY <1>1, <1>3, <1>5, <2>1, MoteAssumption DEF MoteTypeOK, RxStates
<1>7. RxInv'
  BY <1>3, <1>5 DEF MoteInv, RxInv
<1>. QED
  BY <1>5, <1>6, <1>7 DEF MoteInv

(* A frame that is good, its packet taken or lost, its ack queued or not.  *)
LEMMA GoodFrameKeeps ==
  ASSUME MoteInv, rxState = "INFO", goodFrame, uart,
         revived' = (revived \/ (SwitchingOff /\ rxState' # "INACTIVE")),
         UNCHANGED <<txVars, sendState, running, uart, sending, escape, user, halfSent,
                     cancelledLate>>
  PROVE  MoteInv'
<1>. DEFINE handed == IF received = NONE THEN post(posted, "receiveTask") ELSE posted
            answered == rxProto = "PACKET_ACK" /\ acks < ACK_QUEUE_SIZE
            queue == IF answered THEN post(handed, "RunTx") ELSE handed
<1>1. MoteTypeOK
  BY DEF MoteInv
<1>2. FrameOver("INACTIVE", queue)
  BY DEF goodFrame
<1>3. UNCHANGED <<txState, txIndex, txByteCnt, txBuf, running, uart, sending, escape, user, sendState,
                  halfSent, cancelledLate>>
  BY DEF txVars
<1>4. /\ handed \in Seq(Tasks) /\ IsInjective(handed)
      /\ \A u \in Tasks \ {"receiveTask"} : Contains(handed, u) <=> Has(u)
      /\ RunBeforeStop(posted) => RunBeforeStop(handed)
  BY <1>1, PostedNow, TaskNames DEF MoteTypeOK, Has
<1>5. /\ queue \in Seq(Tasks) /\ IsInjective(queue)
      /\ \A u \in Tasks \ {"receiveTask", "RunTx"} : Contains(queue, u) <=> Has(u)
      /\ Has("RunTx") => Contains(queue, "RunTx")
      /\ RunBeforeStop(posted) /\ ~Stopped => RunBeforeStop(queue)
  <2>. HIDE DEF handed
  <2>. QED
    BY <1>4, Posts, TaskNames DEF Stopped, Has
<1>6. ~(Stopped /\ ~revived)
  BY <1>1 DEF MoteInv, SwitchInv, MoteQuiet, MoteTypeOK
<1>7. /\ posted' \in Seq(Tasks) /\ IsInjective(posted')
      /\ rxState' \in {"PROTO", "INACTIVE"} /\ rxByteCnt' = 0 /\ rxProto' = "none"
      /\ {offPending', revived', missed'} \subseteq BOOLEAN
      /\ revived => revived'
      /\ SwitchInv' /\ TxInv'
  <2>. HIDE DEF queue
  <2>. QED
    BY <1>2, <1>3, <1>5, <1>6, FrameOverKeeps
<1>8. acks' \in 0..ACK_QUEUE_SIZE
  BY <1>1, MoteAssumption DEF goodFrame, MoteTypeOK
<1>9. /\ which' \in {0, 1} /\ locked' \subseteq {0, 1} /\ received' \in {0, 1, NONE}
      /\ received' # NONE => received' # which' /\ received' \in locked'
      /\ locked' \subseteq {which', received'}
      /\ which' \notin locked'
  <2>1. /\ which \in locked /\ locked \subseteq {which, received} /\ locked \subseteq {0, 1}
        /\ which \in {0, 1} /\ received \in {0, 1, NONE}
        /\ received # NONE => received # which /\ received \in locked
    BY <1>1 DEF MoteInv, RxInv, MoteTypeOK
  <2>2. CASE received = NONE
    <3>1. received' = which /\ which' = 1 - which /\ locked' = locked
      BY <2>2 DEF goodFrame, endPacket
    <3>2. locked = {which}
      <4>1. received \notin locked
        BY <2>1, <2>2 DEF NONE
      <4>. QED
        BY <2>1, <4>1
    <3>3. 1 - which \in {0, 1} /\ 1 - which # which
      BY <2>1
    <3>. QED
      BY <2>1, <3>1, <3>2, <3>3
  <2>3. CASE received # NONE
    <3>1. received' = received /\ which' = which /\ locked' = locked \ {which}
      BY <2>3 DEF goodFrame, endPacket
    <3>. QED
      BY <2>1, <2>3, <3>1
  <2>. QED
    BY <2>2, <2>3
<1>10. MoteTypeOK'
  <2>1. MoteFlags'
    BY <1>1, <1>3, <1>7, Zenon DEF MoteTypeOK, MoteFlags
  <2>. QED
    BY <1>1, <1>3, <1>7, <1>8, <1>9, <2>1, MoteAssumption DEF MoteTypeOK, RxStates
<1>11. RxInv'
  BY <1>7, <1>9 DEF RxInv
<1>. QED
  BY <1>7, <1>10, <1>11 DEF MoteInv

(* A byte in the middle of a frame. *)
LEMMA ByteKeeps ==
  ASSUME MoteInv, uart,
         NEW state \in {"NOSYNC", "PROTO", "TOKEN", "INFO"}, Goes(state),
         rxByteCnt' \in 0..SERIAL_MTU,
         rxProto' \in {"PACKET_ACK", "PACKET_NOACK", "none"},
         UNCHANGED <<which, received>>,
         \/ locked' = locked /\ (rxState \in {"TOKEN", "INFO"} <=> state \in {"TOKEN", "INFO"})
         \/ locked' = locked \cup {which} /\ state \in {"TOKEN", "INFO"},
         rxState # "INACTIVE",
         revived' = (revived \/ (SwitchingOff /\ rxState' # "INACTIVE")),
         UNCHANGED <<txVars, sendState, running, uart, sending, escape, user, halfSent,
                     cancelledLate>>
  PROVE  MoteInv'
<1>1. MoteTypeOK
  BY DEF MoteInv
<1>2. /\ UNCHANGED <<txState, txIndex, txByteCnt, txBuf, running, uart, sending, escape, user, sendState,
                     halfSent, cancelledLate, which, received, acks, offPending, missed, posted>>
      /\ rxState' = state
  BY DEF Goes, txVars
<1>3. ~(SwitchingOff /\ ~revived)
  BY <1>1 DEF SwitchingOff, MoteInv, SwitchInv, MoteQuiet, MoteTypeOK, StopPoints
<1>4. revived' = revived
  <2>1. revived \in BOOLEAN
    BY <1>1, Zenon DEF MoteTypeOK, MoteFlags
  <2>. QED
    BY <1>3, <2>1
<1>5. MoteTypeOK'
  <2>1. MoteFlags'
    BY <1>1, <1>2, <1>4, Zenon DEF MoteTypeOK, MoteFlags
  <2>. QED
    BY <1>1, <1>2, <2>1 DEF MoteTypeOK, RxStates
<1>6. SwitchInv'
  BY <1>1, <1>2, <1>3, <1>4
  DEF MoteInv, SwitchInv, MoteQuiet, SwitchingOff, Stopped, StopPoints, Has, MoteTypeOK
<1>7. RxInv'
  BY <1>1, <1>2, <1>4 DEF MoteInv, RxInv, MoteTypeOK
<1>8. TxInv'
  BY <1>2, <1>4 DEF MoteInv, TxInv, Done, Has
<1>. QED
  BY <1>5, <1>6, <1>7, <1>8 DEF MoteInv

LEMMA DelimiterKeeps == MoteInv /\ delimiterReceived => MoteInv'
<1>. SUFFICES ASSUME MoteInv, delimiterReceived
              PROVE  MoteInv'
  OBVIOUS
<1>1. MoteTypeOK
  BY DEF MoteInv
<1>2. /\ uart
      /\ UNCHANGED <<txVars, sendState, running, uart, sending, escape, user, halfSent,
                     cancelledLate>>
      /\ revived' = (revived \/ (SwitchingOff /\ rxState' # "INACTIVE"))
  BY DEF delimiterReceived
<1>3. CASE nosync(TRUE)
  BY <1>2, <1>3, NosyncKeeps
<1>4. CASE rxState = "INFO" /\ goodFrame
  BY <1>2, <1>4, GoodFrameKeeps
<1>5. CASE rxState \in {"NOSYNC", "PROTO"}
  <2>1. /\ Goes("PROTO")
        /\ rxByteCnt' \in 0..SERIAL_MTU
        /\ rxProto' \in {"PACKET_ACK", "PACKET_NOACK", "none"}
        /\ UNCHANGED <<which, received, locked>>
    <3>1. CASE rxState = "NOSYNC"
      BY <3>1, MoteAssumption DEF delimiterReceived, receiveVars
    <3>2. CASE rxState = "PROTO"
      <4>1. Goes("PROTO") /\ UNCHANGED <<rxByteCnt, rxProto, which, received, locked>>
        BY <3>2 DEF delimiterReceived, receiveVars
      <4>. QED
        BY <1>1, <4>1 DEF MoteTypeOK
    <3>. QED
      BY <1>5, <3>1, <3>2
  <2>. QED
    BY <1>2, <1>5, <2>1, ByteKeeps
<1>6. rxState \in {"NOSYNC", "PROTO"} \/ nosync(TRUE) \/ (rxState = "INFO" /\ goodFrame)
  <2>1. rxState \in {"NOSYNC", "PROTO", "TOKEN", "INACTIVE", "INFO"}
    BY <1>1 DEF MoteTypeOK, RxStates
  <2>. QED
    BY <2>1 DEF delimiterReceived
<1>. QED
  BY <1>3, <1>4, <1>5, <1>6, Zenon

LEMMA DataKeeps == MoteInv /\ dataReceived => MoteInv'
<1>. SUFFICES ASSUME MoteInv, dataReceived
              PROVE  MoteInv'
  OBVIOUS
<1>1. MoteTypeOK
  BY DEF MoteInv
<1>2. /\ uart
      /\ UNCHANGED <<txVars, sendState, running, uart, sending, escape, user, halfSent,
                     cancelledLate>>
      /\ revived' = (revived \/ (SwitchingOff /\ rxState' # "INACTIVE"))
  BY DEF dataReceived
<1>3. CASE nosync(FALSE)
  BY <1>2, <1>3, NosyncKeeps
<1>4. CASE rxState = "NOSYNC"
  <2>1. Goes("NOSYNC") /\ UNCHANGED <<rxByteCnt, rxProto, which, received, locked>>
    BY <1>4 DEF dataReceived, receiveVars
  <2>. QED
    BY <1>1, <1>2, <1>4, <2>1, ByteKeeps DEF MoteTypeOK
<1>5. CASE rxState = "PROTO" /\ ~nosync(FALSE)
  <2>1. /\ rxProto' \in {"PACKET_ACK", "PACKET_NOACK"}
        /\ Goes(IF rxProto' = "PACKET_ACK" THEN "TOKEN" ELSE "INFO")
        /\ locked' = locked \cup {which}
        /\ UNCHANGED <<rxByteCnt, which, received>>
    BY <1>5 DEF dataReceived
  <2>2. PICK state \in {"TOKEN", "INFO"} : Goes(state)
    BY <2>1
  <2>3. rxByteCnt' \in 0..SERIAL_MTU
    BY <1>1, <2>1 DEF MoteTypeOK
  <2>. QED
    BY <1>2, <1>5, <2>1, <2>2, <2>3, ByteKeeps
<1>6. CASE rxState = "TOKEN"
  <2>1. Goes("INFO") /\ UNCHANGED <<rxByteCnt, rxProto, which, received, locked>>
    BY <1>6 DEF dataReceived, receiveVars
  <2>. QED
    BY <1>1, <1>2, <1>6, <2>1, ByteKeeps DEF MoteTypeOK
<1>7. CASE rxState = "INFO" /\ rxByteCnt < SERIAL_MTU
  <2>1. /\ Goes("INFO") /\ rxByteCnt' = rxByteCnt + 1
        /\ UNCHANGED <<rxProto, which, received, locked>>
    BY <1>7 DEF dataReceived, receiveVars
  <2>2. rxByteCnt' \in 0..SERIAL_MTU
    BY <1>1, <1>7, <2>1, MoteAssumption DEF MoteTypeOK
  <2>3. rxProto' \in {"PACKET_ACK", "PACKET_NOACK", "none"}
    BY <1>1, <2>1 DEF MoteTypeOK
  <2>. QED
    BY <1>2, <1>7, <2>1, <2>2, <2>3, ByteKeeps
<1>8. \/ nosync(FALSE)
      \/ rxState \in {"NOSYNC", "PROTO", "TOKEN"}
      \/ rxState = "INFO" /\ rxByteCnt < SERIAL_MTU
  <2>1. rxState \in {"NOSYNC", "PROTO", "TOKEN", "INACTIVE", "INFO"}
    BY <1>1 DEF MoteTypeOK, RxStates
  <2>. QED
    BY <2>1 DEF dataReceived
<1>. QED
  BY <1>3, <1>4, <1>5, <1>6, <1>7, <1>8

-----------------------------------------------------------------------------
LEMMA MoteNextKeeps == MoteInv /\ [MoteNext]_moteVars => MoteInv'
<1>1. MoteInv /\ UNCHANGED moteVars => MoteInv'
  BY DEF moteVars, rxVars, txVars, receiveVars, history, MoteInv, MoteTypeOK, MoteFlags, SwitchInv, RxInv, TxInv,
     MoteQuiet, Stopped, Has, Done
<1>. QED
  BY <1>1, StartKeeps, StopKeeps, StopTxKeeps, StopTestKeeps, StopDecidedKeeps, StartDoneKeeps, StopDoneKeeps, FlushDoneKeeps,
     ReceiveTaskKeeps, SignalSendDoneKeeps, RunTxKeeps, RunTxEndsKeeps, SendKeeps, CancelKeeps,
     PutDoneKeeps, EscapedSentKeeps, DelimiterKeeps, DataKeeps
  DEF MoteNext, Task, sendDone

LEMMA MoteInductive == MoteSpec => []MoteInv
  BY InitMoteInv, MoteNextKeeps, PTL DEF MoteSpec

(* receiveTask and the interrupts never share a buffer, and the current    *)
(* one is locked exactly while a frame is written to it.                   *)
THEOREM SerialBuffersApart == MoteSpec => []BuffersApart
<1>1. MoteInv => BuffersApart
  BY DEF MoteInv, RxInv, BuffersApart
<1>. QED
  BY <1>1, MoteInductive, PTL

(* The transmitter waits for a byte exactly while one is in the UART, but  *)
(* for a frame whose second byte of two was refused (HdlcTranslateC), and  *)
(* the dispatcher waits for a sendDone exactly while one is owed to it.    *)
THEOREM SerialTransmitterAwake == MoteSpec => []TransmitterAwake
<1>1. MoteInv => TransmitterAwake
  BY DEF MoteInv, TxInv, TransmitterAwake, Has
<1>. QED
  BY <1>1, MoteInductive, PTL

(* stopDone is signalled to a user that has asked for it, unless a byte    *)
(* came between the switch-off and the end of the UART.                    *)
THEOREM SerialStopDoneIsAsked == MoteSpec => StopDoneIsAsked
<1>1. MoteInv /\ [MoteNext]_moteVars => [flushDone => user = "stopping" \/ revived]_moteVars
  BY FlushDoneKeeps
<1>. QED
  BY <1>1, MoteInductive, PTL DEF MoteSpec, StopDoneIsAsked

-----------------------------------------------------------------------------
IsPacket(frame) == frame.type # "SF_ACK"
IsAck(frame) == frame.type = "SF_ACK"

(* The writer has a packet of a client in hand. *)
Busy == writer.pc # "dequeue" /\ IsPacket(writer.packet)

Raced(id) == \E before \in retried \cup unwaited : before <= id

(* Packets carry the numbers of packets, and acknowledgements of the mote  *)
(* those of packets it has received.                                       *)
FramesInv ==
  /\ \A i \in 1..Len(toMote) : IsPacket(toMote[i]) => toMote[i].id \in 1..offered
  /\ \A i \in 1..Len(tcp2serial) : IsPacket(tcp2serial[i]) => tcp2serial[i].id \in 1..offered
  /\ \A i \in 1..Len(toHost) :
       IsAck(toHost[i]) => toHost[i].id \in got /\ toHost[i].id <= last
  /\ last <= offered
  /\ Busy => writer.packet.id \in 1..offered
  /\ writer.pc \in {"lock", "waiting", "woken"} => Busy
  /\ writer.retryCount > 0 => writer.packet.id \in retried

(* The mote, the line, the writer and the buffer hold the packets in the   *)
(* order of their numbers.                                                 *)
OrderInv ==
  /\ \A i \in 1..Len(toMote) : IsPacket(toMote[i]) => last <= toMote[i].id
  /\ \A i, j \in 1..Len(toMote) :
       i < j /\ IsPacket(toMote[i]) /\ IsPacket(toMote[j]) => toMote[i].id <= toMote[j].id
  /\ Busy =>
       /\ last <= writer.packet.id
       /\ \A i \in 1..Len(toMote) : IsPacket(toMote[i]) => toMote[i].id <= writer.packet.id
  /\ \A i \in 1..Len(tcp2serial) : IsPacket(tcp2serial[i]) =>
       /\ last <= tcp2serial[i].id
       /\ Busy => writer.packet.id <= tcp2serial[i].id
       /\ \A j \in 1..Len(toMote) : IsPacket(toMote[j]) => toMote[j].id <= tcp2serial[i].id
  /\ \A i, j \in 1..Len(tcp2serial) :
       i < j /\ IsPacket(tcp2serial[i]) /\ IsPacket(tcp2serial[j]) =>
         tcp2serial[i].id <= tcp2serial[j].id

Awaits(id) == writer.pc \in {"lock", "waiting"} /\ writer.packet.id = id

(* Before the first race, a packet on the line or its acknowledgement is   *)
(* what the writer waits for, and is there once.                           *)
FlightInv ==
  /\ \A i \in 1..Len(toMote) :
       IsPacket(toMote[i]) /\ ~Raced(toMote[i].id) => Awaits(toMote[i].id)
  /\ \A i \in 1..Len(toHost) :
       IsAck(toHost[i]) /\ ~Raced(toHost[i].id) => Awaits(toHost[i].id)
  /\ \A i, j \in 1..Len(toMote) :
       /\ IsPacket(toMote[i]) /\ ~Raced(toMote[i].id)
       /\ IsPacket(toMote[j]) /\ ~Raced(toMote[j].id)
       => i = j
  /\ \A i, j \in 1..Len(toHost) :
       /\ IsAck(toHost[i]) /\ ~Raced(toHost[i].id)
       /\ IsAck(toHost[j]) /\ ~Raced(toHost[j].id)
       => i = j
  /\ \A i \in 1..Len(toMote), j \in 1..Len(toHost) :
       ~ /\ IsPacket(toMote[i]) /\ ~Raced(toMote[i].id)
         /\ IsAck(toHost[j]) /\ ~Raced(toHost[j].id)
  /\ writer.pc = "woken" => writer.packet.id \in got \/ Raced(writer.packet.id)
  /\ DeliveredUnlessRaced

IInv == TypeOK /\ FramesInv /\ OrderInv /\ FlightInv

-----------------------------------------------------------------------------
(* A frame more at the end or at the front, or one less.                   *)

LEMMA Appended ==
  ASSUME NEW S, NEW q \in Seq(S), NEW x \in S
  PROVE  /\ Append(q, x) \in Seq(S)
         /\ Len(q) \in Nat /\ Len(Append(q, x)) = Len(q) + 1
         /\ \A i \in 1..Len(q) : Append(q, x)[i] = q[i]
         /\ Append(q, x)[Len(q) + 1] = x
  OBVIOUS

LEMMA Prepended ==
  ASSUME NEW S, NEW q \in Seq(S), NEW x \in S
  PROVE  /\ <<x>> \o q \in Seq(S)
         /\ Len(q) \in Nat /\ Len(<<x>> \o q) = Len(q) + 1
         /\ \A i \in 1..Len(q) : (<<x>> \o q)[i + 1] = q[i]
         /\ \A i \in 2..(Len(q) + 1) : (<<x>> \o q)[i] = q[i - 1]
         /\ (<<x>> \o q)[1] = x
  OBVIOUS

LEMMA Shortened ==
  ASSUME NEW S, NEW q \in Seq(S), q # <<>>
  PROVE  /\ Tail(q) \in Seq(S) /\ Head(q) \in S
         /\ Len(q) \in Nat \ {0} /\ Len(Tail(q)) = Len(q) - 1
         /\ \A i \in 1..Len(Tail(q)) : Tail(q)[i] = q[i + 1] /\ i + 1 \in 1..Len(q)
         /\ Head(q) = q[1] /\ 1 \in 1..Len(q)
  OBVIOUS

LEMMA FrameTypes ==
  /\ NoFrame \in Frames
  /\ \A id \in 0..MaxPackets : Ack(id) \in Frames /\ Packet(id) \in Frames
  /\ \A id : IsAck(Ack(id)) /\ Ack(id).id = id
  /\ \A id : IsPacket(Packet(id)) /\ Packet(id).id = id
  /\ IsPacket(NoFrame)
  /\ \A type \in {"SF_PACKET_ACK", "SF_PACKET_NO_ACK"} :
       Report(type) \in Frames /\ IsPacket(Report(type))
  /\ \A frame : IsPacket(frame) <=> ~IsAck(frame)
  BY SerialAssumption DEF NoFrame, Frames, Ack, Packet, Report, IsPacket, IsAck

LEMMA InitIInv == Init => IInv
<1>. SUFFICES ASSUME Init
              PROVE  IInv
  OBVIOUS
<1>1. /\ toMote = <<>> /\ toHost = <<>> /\ tcp2serial = <<>> /\ serial2tcp = <<>>
      /\ \A S : <<>> \in Seq(S)
      /\ writer.pc = "dequeue" /\ writer.retryCount = 0
  BY DEF Init
<1>2. TypeOK
  <2>1. emptied \in BOOLEAN
    BY Zenon DEF Init
  <2>2. /\ reader \in [pc : {"read", "ack", "test", "dequeue", "enqueue"}, frame : Frames]
        /\ writer \in [pc : {"dequeue", "write", "lock", "waiting", "woken"},
                       packet : Frames, retryCount : 0..maxRetries]
    BY FrameTypes, SerialAssumption DEF Init
  <2>3. /\ tcp2serial \in Seq(Frames) /\ Len(tcp2serial) <= cMaxBufferSize
        /\ serial2tcp \in Seq(Frames) /\ Len(serial2tcp) <= cMaxBufferSize
        /\ toMote \in Seq(Frames) /\ toHost \in Seq(Frames)
    BY <1>1, BufferAssumption
  <2>. QED
    BY <2>1, <2>2, <2>3, SerialAssumption DEF Init, TypeOK, Packets
<1>3. FramesInv
  BY <1>1, SerialAssumption DEF Init, FramesInv, Busy
<1>4. OrderInv
  BY <1>1 DEF Init, OrderInv, Busy
<1>5. FlightInv
  BY <1>1 DEF Init, FlightInv, DeliveredUnlessRaced
<1>. QED
  BY <1>2, <1>3, <1>4, <1>5 DEF IInv

-----------------------------------------------------------------------------
(* What happens to serial2tcp, and the tests of the reader, leave all this *)
(* alone.                                                                  *)
packetVars == <<tcp2serial, toMote, toHost, writer, offered, got, last, delivered,
                retried, unwaited>>

LEMMA ElsewhereKeeps ==
  ASSUME IInv, UNCHANGED packetVars
  PROVE  FramesInv' /\ OrderInv' /\ FlightInv'
<1>1. FramesInv'
  BY DEF packetVars, IInv, FramesInv, Busy, IsPacket, IsAck
<1>2. OrderInv'
  BY DEF packetVars, IInv, OrderInv, Busy, IsPacket
<1>3. FlightInv'
  BY DEF packetVars, IInv, FlightInv, DeliveredUnlessRaced, Awaits, Raced, IsPacket, IsAck
<1>. QED
  BY <1>1, <1>2, <1>3

LEMMA ClientReadsKeeps == IInv /\ (ClientReads \/ LastClientLeaves) => IInv'
<1>. SUFFICES ASSUME IInv, ClientReads \/ LastClientLeaves
              PROVE  IInv'
  OBVIOUS
<1>1. UNCHANGED <<packetVars, reader, reports, losses, dropped>>
  BY DEF ClientReads, LastClientLeaves, lineVars, packetVars
<1>2. serial2tcp' \in Seq(Frames) /\ Len(serial2tcp') <= cMaxBufferSize
  <2>1. CASE ClientReads
    BY <2>1, Shortened, BufferAssumption DEF ClientReads, dequeue, IInv, TypeOK
  <2>2. CASE LastClientLeaves
    BY <2>2, BufferAssumption DEF LastClientLeaves, clear
  <2>. QED
    BY <2>1, <2>2
<1>3. emptied' \in BOOLEAN
  BY DEF ClientReads, LastClientLeaves, Emptied
<1>4. TypeOK'
  BY <1>1, <1>2, <1>3 DEF IInv, TypeOK, packetVars
<1>. QED
  BY <1>1, <1>4, ElsewhereKeeps DEF IInv

LEMMA ReaderKeeps == IInv /\ (TestFull \/ DropOldest \/ QueueReport) => IInv'
<1>. SUFFICES ASSUME IInv, TestFull \/ DropOldest \/ QueueReport
              PROVE  IInv'
  OBVIOUS
<1>1. UNCHANGED <<packetVars, reports, losses, dropped, emptied>>
  BY DEF TestFull, DropOldest, QueueReport, lineVars, historyVars, packetVars
<1>2. /\ serial2tcp' \in Seq(Frames) /\ Len(serial2tcp') <= cMaxBufferSize
      /\ reader' \in [pc : {"read", "ack", "test", "dequeue", "enqueue"}, frame : Frames]
  <2>. USE DEF IInv, TypeOK
  <2>1. CASE TestFull
    <3>1. PICK pc \in {"dequeue", "enqueue"} : reader' = [reader EXCEPT !.pc = pc]
      BY <2>1 DEF TestFull
    <3>2. serial2tcp' = serial2tcp
      BY <2>1 DEF TestFull
    <3>. QED
      BY <3>1, <3>2
  <2>2. CASE DropOldest
    <3>1. serial2tcp # <<>> /\ serial2tcp' = Tail(serial2tcp)
      BY <2>2 DEF DropOldest, dequeue
    <3>2. serial2tcp' \in Seq(Frames) /\ Len(serial2tcp') <= cMaxBufferSize
      BY <3>1, Shortened, BufferAssumption
    <3>3. reader' = [reader EXCEPT !.pc = "test"]
      BY <2>2 DEF DropOldest
    <3>. QED
      BY <3>2, <3>3
  <2>3. CASE QueueReport
    <3>1. reader.frame \in Frames
      OBVIOUS
    <3>2. ~(Len(serial2tcp) >= cMaxBufferSize) /\ serial2tcp' = Append(serial2tcp, reader.frame)
      BY <2>3 DEF QueueReport, enqueueBack, isFull
    <3>3. serial2tcp' \in Seq(Frames) /\ Len(serial2tcp') <= cMaxBufferSize
      BY <3>1, <3>2, Appended, BufferAssumption
    <3>4. reader' = [pc |-> "read", frame |-> NoFrame]
      BY <2>3 DEF QueueReport
    <3>. QED
      BY <3>3, <3>4, FrameTypes
  <2>. QED
    BY <2>1, <2>2, <2>3
<1>3. TypeOK'
  BY <1>1, <1>2 DEF IInv, TypeOK, packetVars
<1>. QED
  BY <1>1, <1>3, ElsewhereKeeps DEF IInv

-----------------------------------------------------------------------------
(* The ends of the line.                                                   *)

LEMMA ClientSendsKeeps == IInv /\ ClientSends => IInv'
<1>. SUFFICES ASSUME IInv, ClientSends
              PROVE  IInv'
  OBVIOUS
<1>1. /\ offered' = offered + 1 /\ offered \in 0..(MaxPackets - 1)
      /\ tcp2serial' = Append(tcp2serial, Packet(offered'))
      /\ Len(tcp2serial) < cMaxBufferSize
      /\ UNCHANGED <<serial2tcp, toMote, toHost, losses, reader, writer, reports, got, last,
                     delivered, dropped, retried, unwaited, emptied>>
  BY SerialAssumption, BufferAssumption
  DEF IInv, TypeOK, ClientSends, enqueueBack, isFull, lineVars, historyVars
<1>2. /\ Packet(offered') \in Frames
      /\ IsPacket(Packet(offered')) /\ Packet(offered').id = offered + 1
  BY <1>1, FrameTypes, SerialAssumption
<1>3. /\ tcp2serial' \in Seq(Frames)
      /\ Len(tcp2serial) \in Nat /\ Len(tcp2serial') = Len(tcp2serial) + 1
      /\ \A i \in 1..Len(tcp2serial) : tcp2serial'[i] = tcp2serial[i]
      /\ tcp2serial'[Len(tcp2serial) + 1] = Packet(offered')
  BY <1>1, <1>2, Appended DEF IInv, TypeOK
<1>4. TypeOK'
  BY <1>1, <1>3, BufferAssumption, SerialAssumption DEF IInv, TypeOK
<1>5. FramesInv'
  <2>1. \A i \in 1..Len(tcp2serial') :
          \/ i \in 1..Len(tcp2serial) /\ tcp2serial'[i] = tcp2serial[i]
          \/ tcp2serial'[i].id \in 1..offered'
    BY <1>1, <1>2, <1>3
  <2>2. 1..offered \subseteq 1..offered' /\ last \in Nat
    BY <1>1 DEF IInv, TypeOK
  <2>3. last <= offered'
    BY <1>1, <2>2 DEF IInv, FramesInv
  <2>. QED
    BY <1>1, <2>1, <2>2, <2>3 DEF IInv, FramesInv, Busy, IsPacket, IsAck
<1>6. OrderInv'
  <2>1. \A i \in 1..Len(tcp2serial') :
          \/ i \in 1..Len(tcp2serial) /\ tcp2serial'[i] = tcp2serial[i]
          \/ i = Len(tcp2serial) + 1 /\ IsPacket(tcp2serial'[i]) /\ tcp2serial'[i].id = offered + 1
    BY <1>2, <1>3
  <2>2. /\ last <= offered
        /\ Busy => writer.packet.id <= offered
        /\ \A j \in 1..Len(toMote) : IsPacket(toMote[j]) => toMote[j].id <= offered
        /\ \A j \in 1..Len(tcp2serial) : IsPacket(tcp2serial[j]) => tcp2serial[j].id <= offered
    BY <1>1 DEF IInv, FramesInv
  <2>3. /\ last \in Int /\ offered \in Int
        /\ Busy => writer.packet.id \in Int
        /\ \A j \in 1..Len(toMote) : IsPacket(toMote[j]) => toMote[j].id \in Int
        /\ \A j \in 1..Len(tcp2serial) : IsPacket(tcp2serial[j]) => tcp2serial[j].id \in Int
    <3>1. 1..offered \subseteq Int /\ last \in Int /\ offered \in Int
      BY <1>1 DEF IInv, TypeOK
    <3>. QED
      BY <3>1 DEF IInv, FramesInv
  <2>4. \A i \in 1..Len(tcp2serial') : IsPacket(tcp2serial'[i]) =>
          /\ last <= tcp2serial'[i].id
          /\ Busy => writer.packet.id <= tcp2serial'[i].id
          /\ \A j \in 1..Len(toMote) : IsPacket(toMote[j]) => toMote[j].id <= tcp2serial'[i].id
    <3> SUFFICES ASSUME NEW i \in 1..Len(tcp2serial'), IsPacket(tcp2serial'[i])
                 PROVE  /\ last <= tcp2serial'[i].id
                        /\ Busy => writer.packet.id <= tcp2serial'[i].id
                        /\ \A j \in 1..Len(toMote) :
                             IsPacket(toMote[j]) => toMote[j].id <= tcp2serial'[i].id
      OBVIOUS
    <3>1. CASE i \in 1..Len(tcp2serial) /\ tcp2serial'[i] = tcp2serial[i]
      BY <3>1 DEF IInv, OrderInv
    <3>2. CASE tcp2serial'[i].id = offered + 1
      BY <2>2, <2>3, <3>2
    <3>. QED
      BY <2>1, <3>1, <3>2
  <2>5. \A i, j \in 1..Len(tcp2serial') :
          i < j /\ IsPacket(tcp2serial'[i]) /\ IsPacket(tcp2serial'[j]) =>
            tcp2serial'[i].id <= tcp2serial'[j].id
    BY <1>3, <2>1, <2>2, <2>3 DEF IInv, OrderInv
  <2>. QED
    BY <1>1, <2>4, <2>5 DEF IInv, OrderInv, Busy, IsPacket
<1>7. FlightInv'
  BY <1>1 DEF IInv, FlightInv, DeliveredUnlessRaced, Awaits, Raced, IsPacket, IsAck
<1>. QED
  BY <1>4, <1>5, <1>6, <1>7 DEF IInv

LEMMA MoteReportsKeeps == IInv /\ MoteReports => IInv'
<1>. SUFFICES ASSUME IInv, MoteReports
              PROVE  IInv'
  OBVIOUS
<1>1. PICK type \in {"SF_PACKET_ACK", "SF_PACKET_NO_ACK"} : toHost' = Append(toHost, Report(type))
  BY DEF MoteReports
<1>2. /\ reports' = reports + 1 /\ reports < MaxReports
      /\ UNCHANGED <<tcp2serial, serial2tcp, toMote, losses, reader, writer, offered, got, last,
                     delivered, dropped, retried, unwaited, emptied>>
  BY DEF MoteReports, historyVars
<1>3. Report(type) \in Frames /\ ~IsAck(Report(type))
  BY FrameTypes
<1>4. /\ toHost' \in Seq(Frames)
      /\ Len(toHost) \in Nat /\ Len(toHost') = Len(toHost) + 1
      /\ \A i \in 1..Len(toHost) : toHost'[i] = toHost[i]
      /\ toHost'[Len(toHost) + 1] = Report(type)
  BY <1>1, <1>3, Appended DEF IInv, TypeOK
<1>5. \A i \in 1..Len(toHost') :
        IsAck(toHost'[i]) => i \in 1..Len(toHost) /\ toHost'[i] = toHost[i]
  BY <1>3, <1>4
<1>6. TypeOK'
  BY <1>2, <1>4, SerialAssumption DEF IInv, TypeOK
<1>7. FramesInv'
  BY <1>2, <1>5 DEF IInv, FramesInv, Busy, IsPacket, IsAck
<1>8. OrderInv'
  BY <1>2 DEF IInv, OrderInv, Busy, IsPacket
<1>9. FlightInv'
  <2>1. /\ \A id : (Raced(id)' <=> Raced(id)) /\ (Awaits(id)' <=> Awaits(id))
        /\ DeliveredUnlessRaced'
    BY <1>2 DEF IInv, FlightInv, DeliveredUnlessRaced, Awaits, Raced
  <2>. QED
    BY <1>2, <1>5, <2>1 DEF IInv, FlightInv, IsPacket, IsAck
<1>. QED
  BY <1>6, <1>7, <1>8, <1>9 DEF IInv

LEMMA LoseKeeps == IInv /\ Lose => IInv'
<1>. SUFFICES ASSUME IInv, Lose
              PROVE  IInv'
  OBVIOUS
<1>1. /\ losses' = losses + 1 /\ losses < MaxLosses
      /\ UNCHANGED <<tcp2serial, serial2tcp, reader, writer, offered, reports, got, last,
                     delivered, dropped, retried, unwaited, emptied>>
  BY DEF Lose, historyVars
<1>2. CASE toMote # <<>> /\ toMote' = Tail(toMote) /\ UNCHANGED toHost
  <2>1. /\ toMote' \in Seq(Frames)
        /\ Len(toMote) \in Nat \ {0} /\ Len(toMote') = Len(toMote) - 1
        /\ \A i \in 1..Len(toMote') : toMote'[i] = toMote[i + 1] /\ i + 1 \in 1..Len(toMote)
    BY <1>2, Shortened DEF IInv, TypeOK
  <2>2. TypeOK'
    BY <1>1, <1>2, <2>1, SerialAssumption DEF IInv, TypeOK
  <2>3. FramesInv'
    BY <1>1, <1>2, <2>1 DEF IInv, FramesInv, Busy, IsPacket, IsAck
  <2>4. OrderInv'
    BY <1>1, <1>2, <2>1 DEF IInv, OrderInv, Busy, IsPacket
  <2>5. FlightInv'
    BY <1>1, <1>2, <2>1
    DEF IInv, FlightInv, DeliveredUnlessRaced, Awaits, Raced, IsPacket, IsAck
  <2>. QED
    BY <2>2, <2>3, <2>4, <2>5 DEF IInv
<1>3. CASE toHost # <<>> /\ toHost' = Tail(toHost) /\ UNCHANGED toMote
  <2>1. /\ toHost' \in Seq(Frames)
        /\ Len(toHost) \in Nat \ {0} /\ Len(toHost') = Len(toHost) - 1
        /\ \A i \in 1..Len(toHost') : toHost'[i] = toHost[i + 1] /\ i + 1 \in 1..Len(toHost)
    BY <1>3, Shortened DEF IInv, TypeOK
  <2>2. TypeOK'
    BY <1>1, <1>3, <2>1, SerialAssumption DEF IInv, TypeOK
  <2>3. FramesInv'
    BY <1>1, <1>3, <2>1 DEF IInv, FramesInv, Busy, IsPacket, IsAck
  <2>4. OrderInv'
    BY <1>1, <1>3 DEF IInv, OrderInv, Busy, IsPacket
  <2>5. FlightInv'
    BY <1>1, <1>3, <2>1
    DEF IInv, FlightInv, DeliveredUnlessRaced, Awaits, Raced, IsPacket, IsAck
  <2>. QED
    BY <2>2, <2>3, <2>4, <2>5 DEF IInv
<1>. QED
  BY <1>2, <1>3 DEF Lose

LEMMA MoteReceivesKeeps == IInv /\ MoteReceives => IInv' /\ last' >= last
<1>. SUFFICES ASSUME IInv, MoteReceives
              PROVE  IInv' /\ last' >= last
  OBVIOUS
<1>. DEFINE frame == toMote[1]
<1>1. /\ toMote # <<>> /\ toMote' = Tail(toMote)
      /\ UNCHANGED <<tcp2serial, serial2tcp, losses, reader, writer, offered, reports,
                     delivered, dropped, retried, unwaited, emptied>>
  BY DEF MoteReceives
<1>2. /\ toMote' \in Seq(Frames) /\ frame \in Frames /\ frame = Head(toMote)
      /\ Len(toMote) \in Nat \ {0} /\ Len(toMote') = Len(toMote) - 1
      /\ \A i \in 1..Len(toMote') : toMote'[i] = toMote[i + 1] /\ i + 1 \in 1..Len(toMote)
      /\ 1 \in 1..Len(toMote)
  BY <1>1, Shortened DEF IInv, TypeOK
<1>3. CASE IsAck(frame)
  <2>1. UNCHANGED <<toHost, got, last>>
    BY <1>2, <1>3 DEF MoteReceives, IsAck
  <2>2. TypeOK'
    BY <1>1, <1>2, <2>1, SerialAssumption DEF IInv, TypeOK
  <2>3. FramesInv'
    BY <1>1, <1>2, <2>1 DEF IInv, FramesInv, Busy, IsPacket, IsAck
  <2>4. OrderInv'
    BY <1>1, <1>2, <2>1 DEF IInv, OrderInv, Busy, IsPacket
  <2>5. FlightInv'
    BY <1>1, <1>2, <2>1
    DEF IInv, FlightInv, DeliveredUnlessRaced, Awaits, Raced, IsPacket, IsAck
  <2>6. last' >= last
    BY <2>1 DEF IInv, TypeOK
  <2>. QED
    BY <2>2, <2>3, <2>4, <2>5, <2>6 DEF IInv
<1>4. CASE IsPacket(frame)
  <2>1. /\ toHost' = Append(toHost, Ack(frame.id))
        /\ got' = got \cup {frame.id}
        /\ last' = frame.id
    BY <1>2, <1>4 DEF MoteReceives, IsPacket
  <2>2. /\ frame.id \in 1..offered /\ last <= frame.id /\ last \in Nat
        /\ 1..offered \subseteq Packets /\ Packets \subseteq 0..MaxPackets
    <3>1. frame.id \in 1..offered
      BY <1>2, <1>4 DEF IInv, FramesInv
    <3>2. last <= frame.id
      BY <1>2, <1>4 DEF IInv, OrderInv
    <3>3. last \in Nat /\ offered \in 0..MaxPackets
      BY SerialAssumption DEF IInv, TypeOK
    <3>4. 1..offered \subseteq Packets /\ Packets \subseteq 0..MaxPackets
      BY <3>3, SerialAssumption DEF Packets
    <3>. QED
      BY <3>1, <3>2, <3>3, <3>4
  <2>3. Ack(frame.id) \in Frames /\ IsAck(Ack(frame.id)) /\ Ack(frame.id).id = frame.id
    BY <2>2, FrameTypes
  <2>4. /\ toHost' \in Seq(Frames)
        /\ Len(toHost) \in Nat /\ Len(toHost') = Len(toHost) + 1
        /\ \A i \in 1..Len(toHost) : toHost'[i] = toHost[i]
        /\ toHost'[Len(toHost) + 1] = Ack(frame.id)
    BY <2>1, <2>3, Appended DEF IInv, TypeOK
  <2>5. \A i \in 1..Len(toHost') :
          \/ i \in 1..Len(toHost) /\ toHost'[i] = toHost[i]
          \/ i = Len(toHost) + 1 /\ toHost'[i].id = frame.id
    BY <2>3, <2>4
  <2>6. TypeOK'
    BY <1>1, <1>2, <2>1, <2>2, <2>4, SerialAssumption DEF IInv, TypeOK
  <2>7. FramesInv'
    <3>1. \A i \in 1..Len(toHost') :
            IsAck(toHost'[i]) => toHost'[i].id \in got' /\ toHost'[i].id <= last'
      <4> SUFFICES ASSUME NEW i \in 1..Len(toHost'), IsAck(toHost'[i])
                   PROVE  toHost'[i].id \in got' /\ toHost'[i].id <= last'
        OBVIOUS
      <4>1. CASE i \in 1..Len(toHost) /\ toHost'[i] = toHost[i]
        <5>1. toHost[i].id \in got /\ toHost[i].id <= last /\ toHost[i].id \in Int
          <6>1. toHost[i].id \in got /\ toHost[i].id <= last
            BY <4>1 DEF IInv, FramesInv
          <6>2. got \subseteq 1..MaxPackets
            BY DEF IInv, TypeOK, Packets
          <6>3. 1..MaxPackets \subseteq Int
            BY SerialAssumption
          <6>. QED
            BY <6>1, <6>2, <6>3
        <5>. QED
          BY <4>1, <5>1, <2>1, <2>2
      <4>2. CASE toHost'[i].id = frame.id
        BY <4>2, <2>1, <2>2
      <4>. QED
        BY <2>5, <4>1, <4>2
    <3>2. last' <= offered'
      BY <1>1, <2>1, <2>2
    <3>. QED
      BY <1>1, <1>2, <3>1, <3>2 DEF IInv, FramesInv, Busy, IsPacket, IsAck
  <2>8. OrderInv'
    <3>1. \A i \in 1..Len(toMote') : IsPacket(toMote'[i]) => last' <= toMote'[i].id
      BY <1>2, <1>4, <2>1 DEF IInv, OrderInv
    <3>2. Busy => last' <= writer.packet.id
      BY <1>2, <1>4, <2>1 DEF IInv, OrderInv
    <3>3. \A i \in 1..Len(tcp2serial) : IsPacket(tcp2serial[i]) => last' <= tcp2serial[i].id
      BY <1>2, <1>4, <2>1 DEF IInv, OrderInv
    <3>. QED
      BY <1>1, <1>2, <3>1, <3>2, <3>3 DEF IInv, OrderInv, Busy, IsPacket
  <2>9. FlightInv'
    <3>1. \A id : (Raced(id)' <=> Raced(id)) /\ (Awaits(id)' <=> Awaits(id))
      BY <1>1 DEF Awaits, Raced
    <3>2. \A i \in 1..Len(toMote') : IsPacket(toMote'[i]) =>
            Raced(frame.id) \/ Raced(toMote'[i].id)
      BY <1>2, <1>4 DEF IInv, FlightInv
    <3>3. ~Raced(frame.id) =>
            /\ Awaits(frame.id)
            /\ \A j \in 1..Len(toHost) : IsAck(toHost[j]) => Raced(toHost[j].id)
      BY <1>2, <1>4 DEF IInv, FlightInv
    <3>4. got \subseteq got'
      BY <2>1
    <3>5. \A i \in 1..Len(toMote') :
            IsPacket(toMote'[i]) /\ ~Raced(toMote'[i].id) => Awaits(toMote'[i].id)
      BY <1>2, <3>1 DEF IInv, FlightInv
    <3>6. \A i \in 1..Len(toHost') :
            IsAck(toHost'[i]) /\ ~Raced(toHost'[i].id) => Awaits(toHost'[i].id)
      BY <2>5, <3>1, <3>3 DEF IInv, FlightInv
    <3>7. \A i, j \in 1..Len(toMote') :
            /\ IsPacket(toMote'[i]) /\ ~Raced(toMote'[i].id)
            /\ IsPacket(toMote'[j]) /\ ~Raced(toMote'[j].id)
            => i = j
      <4> SUFFICES ASSUME NEW i \in 1..Len(toMote'), NEW j \in 1..Len(toMote'),
                          IsPacket(toMote'[i]), ~Raced(toMote'[i].id),
                          IsPacket(toMote'[j]), ~Raced(toMote'[j].id)
                   PROVE  i = j
        OBVIOUS
      <4>1. i + 1 = j + 1
        BY <1>2 DEF IInv, FlightInv
      <4>. QED
        BY <4>1, <1>2
    <3>8. \A i, j \in 1..Len(toHost') :
            /\ IsAck(toHost'[i]) /\ ~Raced(toHost'[i].id)
            /\ IsAck(toHost'[j]) /\ ~Raced(toHost'[j].id)
            => i = j
      BY <2>5, <3>3 DEF IInv, FlightInv
    <3>9. \A i \in 1..Len(toMote'), j \in 1..Len(toHost') :
            ~ /\ IsPacket(toMote'[i]) /\ ~Raced(toMote'[i].id)
              /\ IsAck(toHost'[j]) /\ ~Raced(toHost'[j].id)
      BY <1>2, <2>5, <3>2, <3>3 DEF IInv, FlightInv
    <3>10. (writer.pc = "woken" => writer.packet.id \in got \/ Raced(writer.packet.id))'
      BY <1>1, <3>1, <3>4 DEF IInv, FlightInv
    <3>11. DeliveredUnlessRaced'
      BY <1>1, <3>4 DEF IInv, FlightInv, DeliveredUnlessRaced
    <3>. QED
      BY <3>1, <3>5, <3>6, <3>7, <3>8, <3>9, <3>10, <3>11 DEF FlightInv, IsPacket, IsAck
  <2>10. last' >= last
    BY <2>1, <2>2
  <2>. QED
    BY <2>6, <2>7, <2>8, <2>9, <2>10 DEF IInv
<1>. QED
  BY <1>3, <1>4 DEF IsAck, IsPacket

-----------------------------------------------------------------------------
(* The reader takes a frame off the line, and wakes the writer.            *)

(* An acknowledgement that wakes the writer is its packet's, or that of an *)
(* earlier packet which was in a race.                                     *)
LEMMA AckIsAwaited ==
  ASSUME IInv, toHost # <<>>, IsAck(toHost[1]), writer.pc = "waiting"
  PROVE  /\ writer.packet.id \in got \/ Raced(writer.packet.id)
         /\ \A i \in 1..Len(toMote) : IsPacket(toMote[i]) => Raced(toMote[i].id)
         /\ \A i \in 2..Len(toHost) : IsAck(toHost[i]) => Raced(toHost[i].id)
<1>1. Len(toHost) \in Nat /\ 1 \in 1..Len(toHost)
  BY Shortened DEF IInv, TypeOK
<1>2. /\ toHost[1].id \in got /\ toHost[1].id <= last
      /\ Busy /\ last <= writer.packet.id
  BY <1>1 DEF IInv, FramesInv, OrderInv
<1>3. \A id : Awaits(id) <=> id = writer.packet.id
  BY DEF Awaits
<1>4. CASE Raced(toHost[1].id)
  <2>1. PICK before \in retried \cup unwaited : before <= toHost[1].id
    BY <1>4 DEF Raced
  <2>2. before \in Int /\ toHost[1].id \in Int /\ last \in Int /\ writer.packet.id \in Int
    <3>1. got \subseteq Packets /\ before \in Packets /\ last \in 0..MaxPackets
          /\ writer.packet.id \in 1..offered /\ offered \in 0..MaxPackets
      BY <1>2 DEF IInv, TypeOK, FramesInv
    <3>2. Packets \subseteq Int /\ 0..MaxPackets \subseteq Int /\ 1..offered \subseteq Int
      BY <3>1, SerialAssumption DEF Packets
    <3>. QED
      BY <1>2, <3>1, <3>2
  <2>3. Raced(writer.packet.id)
    BY <1>2, <2>1, <2>2 DEF Raced
  <2>4. \A i \in 1..Len(toMote) : IsPacket(toMote[i]) => Raced(toMote[i].id)
    BY <1>3, <2>3 DEF IInv, FlightInv
  <2>5. \A i \in 1..Len(toHost) : IsAck(toHost[i]) => Raced(toHost[i].id)
    BY <1>3, <2>3 DEF IInv, FlightInv
  <2>. QED
    BY <1>1, <2>3, <2>4, <2>5
<1>5. CASE ~Raced(toHost[1].id)
  <2>1. writer.packet.id \in got
    BY <1>1, <1>2, <1>3, <1>5 DEF IInv, FlightInv
  <2>2. \A i \in 1..Len(toMote) : IsPacket(toMote[i]) => Raced(toMote[i].id)
    BY <1>1, <1>5 DEF IInv, FlightInv
  <2>3. \A i \in 1..Len(toHost) : IsAck(toHost[i]) /\ ~Raced(toHost[i].id) => i = 1
    BY <1>1, <1>5 DEF IInv, FlightInv
  <2>. QED
    BY <1>1, <2>1, <2>2, <2>3
<1>. QED
  BY <1>4, <1>5

LEMMA ReadFrameKeeps == IInv /\ ReadFrame => IInv'
<1>. SUFFICES ASSUME IInv, ReadFrame
              PROVE  IInv'
  OBVIOUS
<1>1. /\ toHost # <<>> /\ toHost' = Tail(toHost) /\ reader.pc = "read"
      /\ UNCHANGED <<tcp2serial, serial2tcp, toMote, losses, offered, reports, got, last,
                     delivered, dropped, retried, unwaited, emptied>>
  BY DEF ReadFrame, historyVars
<1>2. /\ toHost' \in Seq(Frames) /\ toHost[1] \in Frames /\ toHost[1] = Head(toHost)
      /\ Len(toHost) \in Nat \ {0} /\ Len(toHost') = Len(toHost) - 1
      /\ \A i \in 1..Len(toHost') : toHost'[i] = toHost[i + 1] /\ i + 1 \in 1..Len(toHost)
  BY <1>1, Shortened DEF IInv, TypeOK
<1>3. \/ /\ IsAck(toHost[1]) /\ writer.pc = "waiting" /\ UNCHANGED reader
         /\ writer' = [writer EXCEPT !.pc = "woken"]
      \/ UNCHANGED <<writer, reader>>
      \/ UNCHANGED writer /\ reader' = [pc |-> "ack", frame |-> toHost[1]]
      \/ UNCHANGED writer /\ reader' = [pc |-> "test", frame |-> toHost[1]]
  BY <1>2 DEF ReadFrame, Signal, IsAck
<1>4. TypeOK'
  <2>1. reader' \in [pc : {"read", "ack", "test", "dequeue", "enqueue"}, frame : Frames]
    BY <1>2, <1>3 DEF IInv, TypeOK
  <2>2. writer' \in [pc : {"dequeue", "write", "lock", "waiting", "woken"},
                     packet : Frames, retryCount : 0..maxRetries]
    BY <1>3 DEF IInv, TypeOK
  <2>. QED
    BY <1>1, <1>2, <2>1, <2>2 DEF IInv, TypeOK
<1>5. CASE UNCHANGED writer
  <2>1. FramesInv'
    BY <1>1, <1>2, <1>5 DEF IInv, FramesInv, Busy, IsPacket, IsAck
  <2>2. OrderInv'
    BY <1>1, <1>5 DEF IInv, OrderInv, Busy, IsPacket
  <2>3. FlightInv'
    BY <1>1, <1>2, <1>5
    DEF IInv, FlightInv, DeliveredUnlessRaced, Awaits, Raced, IsPacket, IsAck
  <2>. QED
    BY <1>4, <2>1, <2>2, <2>3 DEF IInv
<1>6. CASE /\ IsAck(toHost[1]) /\ writer.pc = "waiting"
           /\ writer' = [writer EXCEPT !.pc = "woken"]
  <2>1. /\ writer'.pc = "woken" /\ writer'.packet = writer.packet
        /\ writer'.retryCount = writer.retryCount
    BY <1>6 DEF IInv, TypeOK
  <2>2. Busy' /\ Busy
    BY <1>6, <2>1 DEF IInv, FramesInv, Busy, IsPacket
  <2>3. FramesInv'
    BY <1>1, <1>2, <2>1, <2>2 DEF IInv, FramesInv, IsPacket, IsAck
  <2>4. OrderInv'
    BY <1>1, <2>1, <2>2 DEF IInv, OrderInv, IsPacket
  <2>5. FlightInv'
    <3>1. \A id : Raced(id)' <=> Raced(id)
      BY <1>1 DEF Raced
    <3>2. /\ writer.packet.id \in got \/ Raced(writer.packet.id)
          /\ \A i \in 1..Len(toMote) : IsPacket(toMote[i]) => Raced(toMote[i].id)
          /\ \A i \in 2..Len(toHost) : IsAck(toHost[i]) => Raced(toHost[i].id)
      BY <1>1, <1>6, AckIsAwaited
    <3>3. \A i \in 1..Len(toHost') : IsAck(toHost'[i]) => Raced(toHost'[i].id)
      BY <1>2, <3>2
    <3>4. DeliveredUnlessRaced'
      BY <1>1 DEF IInv, FlightInv, DeliveredUnlessRaced
    <3>. QED
      BY <1>1, <2>1, <3>1, <3>2, <3>3, <3>4 DEF FlightInv, IsPacket, IsAck
  <2>. QED
    BY <1>4, <2>3, <2>4, <2>5 DEF IInv
<1>. QED
  BY <1>3, <1>5, <1>6

LEMMA QueueAckKeeps == IInv /\ QueueAck => IInv'
<1>. SUFFICES ASSUME IInv, QueueAck
              PROVE  IInv'
  OBVIOUS
<1>1. /\ reader' = [reader EXCEPT !.pc = "test"]
      /\ tcp2serial' = <<Ack(0)>> \o tcp2serial /\ ~(Len(tcp2serial) >= cMaxBufferSize)
      /\ UNCHANGED <<serial2tcp, toMote, toHost, losses, writer, offered, reports, got, last,
                     delivered, dropped, retried, unwaited, emptied>>
  BY DEF QueueAck, enqueueFront, isFull, lineVars, historyVars
<1>2. Ack(0) \in Frames /\ ~IsPacket(Ack(0))
  BY FrameTypes, SerialAssumption
<1>3. /\ tcp2serial' \in Seq(Frames)
      /\ Len(tcp2serial) \in Nat /\ Len(tcp2serial') = Len(tcp2serial) + 1
      /\ \A i \in 2..(Len(tcp2serial) + 1) : tcp2serial'[i] = tcp2serial[i - 1]
      /\ tcp2serial'[1] = Ack(0)
  BY <1>1, <1>2, Prepended DEF IInv, TypeOK
<1>4. TypeOK'
  <2>1. reader' \in [pc : {"read", "ack", "test", "dequeue", "enqueue"}, frame : Frames]
    BY <1>1 DEF IInv, TypeOK
  <2>2. Len(tcp2serial') <= cMaxBufferSize
    BY <1>1, <1>3, BufferAssumption
  <2>. QED
    BY <1>1, <1>3, <2>1, <2>2 DEF IInv, TypeOK
<1>5. \A i \in 1..Len(tcp2serial') : IsPacket(tcp2serial'[i]) =>
        /\ i - 1 \in 1..Len(tcp2serial) /\ tcp2serial'[i] = tcp2serial[i - 1]
  <2>1. \A i \in 1..Len(tcp2serial') : i = 1 \/ i \in 2..(Len(tcp2serial) + 1)
    BY <1>3
  <2>2. \A i \in 2..(Len(tcp2serial) + 1) : i - 1 \in 1..Len(tcp2serial)
    BY <1>3
  <2>. QED
    BY <1>2, <1>3, <2>1, <2>2
<1>6. FramesInv'
  BY <1>1, <1>5 DEF IInv, FramesInv, Busy, IsPacket, IsAck
<1>7. OrderInv'
  <2>1. \A i \in 1..Len(tcp2serial') : IsPacket(tcp2serial'[i]) =>
          /\ last <= tcp2serial'[i].id
          /\ Busy => writer.packet.id <= tcp2serial'[i].id
          /\ \A j \in 1..Len(toMote) : IsPacket(toMote[j]) => toMote[j].id <= tcp2serial'[i].id
    BY <1>5 DEF IInv, OrderInv
  <2>2. \A i, j \in 1..Len(tcp2serial') :
          i < j /\ IsPacket(tcp2serial'[i]) /\ IsPacket(tcp2serial'[j]) =>
            tcp2serial'[i].id <= tcp2serial'[j].id
    <3> SUFFICES ASSUME NEW i \in 1..Len(tcp2serial'), NEW j \in 1..Len(tcp2serial'), i < j,
                        IsPacket(tcp2serial'[i]), IsPacket(tcp2serial'[j])
                 PROVE  tcp2serial'[i].id <= tcp2serial'[j].id
      OBVIOUS
    <3>1. /\ i - 1 \in 1..Len(tcp2serial) /\ tcp2serial'[i] = tcp2serial[i - 1]
          /\ j - 1 \in 1..Len(tcp2serial) /\ tcp2serial'[j] = tcp2serial[j - 1]
      BY <1>5
    <3>2. i - 1 < j - 1
      BY <1>3
    <3>. QED
      BY <3>1, <3>2 DEF IInv, OrderInv
  <2>. QED
    BY <1>1, <2>1, <2>2 DEF IInv, OrderInv, Busy, IsPacket
<1>8. FlightInv'
  BY <1>1 DEF IInv, FlightInv, DeliveredUnlessRaced, Awaits, Raced, IsPacket, IsAck
<1>. QED
  BY <1>4, <1>6, <1>7, <1>8 DEF IInv

-----------------------------------------------------------------------------
(* The writer.                                                             *)

LEMMA TakePacketKeeps == IInv /\ TakePacket => IInv'
<1>. SUFFICES ASSUME IInv, TakePacket
              PROVE  IInv'
  OBVIOUS
<1>. DEFINE packet == tcp2serial[1]
<1>1. /\ tcp2serial # <<>> /\ tcp2serial' = Tail(tcp2serial) /\ writer.pc = "dequeue"
      /\ writer' = [pc |-> "write", packet |-> Head(tcp2serial), retryCount |-> 0]
      /\ UNCHANGED <<serial2tcp, toMote, toHost, losses, reader, offered, reports, got, last,
                     delivered, dropped, retried, unwaited, emptied>>
  BY DEF TakePacket, dequeue, lineVars, historyVars
<1>2. /\ tcp2serial' \in Seq(Frames) /\ packet \in Frames /\ packet = Head(tcp2serial)
      /\ Len(tcp2serial) \in Nat \ {0} /\ Len(tcp2serial') = Len(tcp2serial) - 1
      /\ \A i \in 1..Len(tcp2serial') :
           tcp2serial'[i] = tcp2serial[i + 1] /\ i + 1 \in 1..Len(tcp2serial)
      /\ 1 \in 1..Len(tcp2serial)
  BY <1>1, Shortened DEF IInv, TypeOK
<1>3. writer'.pc = "write" /\ writer'.packet = packet /\ writer'.retryCount = 0
  BY <1>1, <1>2
<1>4. TypeOK'
  <2>1. writer' \in [pc : {"dequeue", "write", "lock", "waiting", "woken"},
                     packet : Frames, retryCount : 0..maxRetries]
    BY <1>1, <1>2, SerialAssumption
  <2>2. Len(tcp2serial') <= cMaxBufferSize
    BY <1>2, BufferAssumption DEF IInv, TypeOK
  <2>. QED
    BY <1>1, <1>2, <2>1, <2>2 DEF IInv, TypeOK
<1>5. Busy' <=> IsPacket(packet)
  BY <1>3 DEF Busy, IsPacket
<1>6. FramesInv'
  BY <1>1, <1>2, <1>3, <1>5 DEF IInv, FramesInv, IsPacket, IsAck
<1>7. OrderInv'
  <2>1. IsPacket(packet) =>
          /\ last <= packet.id
          /\ \A j \in 1..Len(toMote) : IsPacket(toMote[j]) => toMote[j].id <= packet.id
    BY <1>2 DEF IInv, OrderInv
  <2>2. \A i \in 1..Len(tcp2serial') : IsPacket(tcp2serial'[i]) =>
          /\ last <= tcp2serial'[i].id
          /\ IsPacket(packet) => packet.id <= tcp2serial'[i].id
          /\ \A j \in 1..Len(toMote) : IsPacket(toMote[j]) => toMote[j].id <= tcp2serial'[i].id
    BY <1>2 DEF IInv, OrderInv
  <2>3. \A i, j \in 1..Len(tcp2serial') :
          i < j /\ IsPacket(tcp2serial'[i]) /\ IsPacket(tcp2serial'[j]) =>
            tcp2serial'[i].id <= tcp2serial'[j].id
    <3> SUFFICES ASSUME NEW i \in 1..Len(tcp2serial'), NEW j \in 1..Len(tcp2serial'), i < j,
                        IsPacket(tcp2serial'[i]), IsPacket(tcp2serial'[j])
                 PROVE  tcp2serial'[i].id <= tcp2serial'[j].id
      OBVIOUS
    <3>1. /\ i + 1 \in 1..Len(tcp2serial) /\ tcp2serial'[i] = tcp2serial[i + 1]
          /\ j + 1 \in 1..Len(tcp2serial) /\ tcp2serial'[j] = tcp2serial[j + 1]
          /\ i + 1 < j + 1
      BY <1>2
    <3>. QED
      BY <3>1 DEF IInv, OrderInv
  <2>. QED
    BY <1>1, <1>3, <1>5, <2>1, <2>2, <2>3 DEF IInv, OrderInv, IsPacket
<1>8. FlightInv'
  <2>1. \A id : (Raced(id)' <=> Raced(id)) /\ ~Awaits(id)
    BY <1>1 DEF Awaits, Raced
  <2>2. DeliveredUnlessRaced'
    BY <1>1 DEF IInv, FlightInv, DeliveredUnlessRaced
  <2>. QED
    BY <1>1, <1>3, <2>1, <2>2 DEF IInv, FlightInv, IsPacket, IsAck
<1>. QED
  BY <1>4, <1>6, <1>7, <1>8 DEF IInv

LEMMA WriteFrameKeeps == IInv /\ WriteFrame => IInv'
<1>. SUFFICES ASSUME IInv, WriteFrame
              PROVE  IInv'
  OBVIOUS
<1>. DEFINE packet == writer.packet
<1>1. PICK pc \in {"dequeue", "lock"} :
        /\ writer' = [writer EXCEPT !.pc = pc]
        /\ pc = "dequeue" <=> IsAck(packet)
  BY DEF WriteFrame, IsAck
<1>2. /\ toMote' = Append(toMote, packet) /\ writer.pc = "write"
      /\ UNCHANGED <<tcp2serial, serial2tcp, toHost, losses, reader, offered, reports, got, last,
                     delivered, dropped, retried, unwaited, emptied>>
  BY DEF WriteFrame, historyVars
<1>3. packet \in Frames
  BY DEF IInv, TypeOK
<1>4. /\ toMote' \in Seq(Frames)
      /\ Len(toMote) \in Nat /\ Len(toMote') = Len(toMote) + 1
      /\ \A i \in 1..Len(toMote) : toMote'[i] = toMote[i]
      /\ toMote'[Len(toMote) + 1] = packet
  BY <1>2, <1>3, Appended DEF IInv, TypeOK
<1>5. \A i \in 1..Len(toMote') :
        \/ i \in 1..Len(toMote) /\ toMote'[i] = toMote[i]
        \/ i = Len(toMote) + 1 /\ toMote'[i] = packet
  BY <1>4
<1>6. /\ writer'.pc = pc /\ writer'.packet = packet /\ writer'.retryCount = writer.retryCount
      /\ writer' \in [pc : {"dequeue", "write", "lock", "waiting", "woken"},
                      packet : Frames, retryCount : 0..maxRetries]
  BY <1>1 DEF IInv, TypeOK
<1>7. TypeOK'
  BY <1>2, <1>4, <1>6 DEF IInv, TypeOK
<1>8. (Busy <=> IsPacket(packet)) /\ (Busy' <=> IsPacket(packet))
  BY <1>1, <1>2, <1>6 DEF Busy, IsPacket, IsAck
<1>9. FramesInv'
  <2>1. \A i \in 1..Len(toMote') : IsPacket(toMote'[i]) => toMote'[i].id \in 1..offered
    BY <1>5, <1>8 DEF IInv, FramesInv
  <2>2. pc = "lock" => Busy'
    BY <1>1, <1>8 DEF IsPacket, IsAck
  <2>. QED
    BY <1>1, <1>2, <1>6, <1>8, <2>1, <2>2 DEF IInv, FramesInv, IsPacket, IsAck
<1>10. OrderInv'
  <2>1. IsPacket(packet) => packet.id \in Int
    <3>1. 1..offered \subseteq Int
      BY DEF IInv, TypeOK
    <3>. QED
      BY <1>8, <3>1 DEF IInv, FramesInv
  <2>2. \A i \in 1..Len(toMote') : IsPacket(toMote'[i]) => last <= toMote'[i].id
    BY <1>5, <1>8 DEF IInv, OrderInv
  <2>3. \A i \in 1..Len(toMote') :
          IsPacket(packet) /\ IsPacket(toMote'[i]) => toMote'[i].id <= packet.id
    BY <1>5, <1>8, <2>1 DEF IInv, OrderInv
  <2>4. \A i, j \in 1..Len(toMote') :
          i < j /\ IsPacket(toMote'[i]) /\ IsPacket(toMote'[j]) => toMote'[i].id <= toMote'[j].id
    <3> SUFFICES ASSUME NEW i \in 1..Len(toMote'), NEW j \in 1..Len(toMote'), i < j,
                        IsPacket(toMote'[i]), IsPacket(toMote'[j])
                 PROVE  toMote'[i].id <= toMote'[j].id
      OBVIOUS
    <3>1. i \in 1..Len(toMote) /\ toMote'[i] = toMote[i]
      BY <1>4
    <3>2. CASE j \in 1..Len(toMote) /\ toMote'[j] = toMote[j]
      BY <3>1, <3>2 DEF IInv, OrderInv
    <3>3. CASE toMote'[j] = packet
      BY <2>3, <3>3
    <3>. QED
      BY <1>5, <3>2, <3>3
  <2>5. \A i \in 1..Len(tcp2serial) : IsPacket(tcp2serial[i]) =>
          /\ IsPacket(packet) => packet.id <= tcp2serial[i].id
          /\ \A j \in 1..Len(toMote') : IsPacket(toMote'[j]) => toMote'[j].id <= tcp2serial[i].id
    BY <1>5, <1>8 DEF IInv, OrderInv
  <2>6. \A i \in 1..Len(tcp2serial) : IsPacket(tcp2serial[i]) => last <= tcp2serial[i].id
    BY DEF IInv, OrderInv
  <2>7. \A i, j \in 1..Len(tcp2serial) :
          i < j /\ IsPacket(tcp2serial[i]) /\ IsPacket(tcp2serial[j]) =>
            tcp2serial[i].id <= tcp2serial[j].id
    BY DEF IInv, OrderInv
  <2>8. IsPacket(packet) => last <= packet.id
    BY <1>8 DEF IInv, OrderInv
  <2>. QED
    BY <1>2, <1>6, <1>8, <2>2, <2>3, <2>4, <2>5, <2>6, <2>7, <2>8 DEF OrderInv, IsPacket
<1>11. FlightInv'
  <2>1. \A id : (Raced(id)' <=> Raced(id)) /\ ~Awaits(id)
    BY <1>2 DEF Awaits, Raced
  <2>2. /\ \A i \in 1..Len(toMote) : IsPacket(toMote[i]) => Raced(toMote[i].id)
        /\ \A i \in 1..Len(toHost) : IsAck(toHost[i]) => Raced(toHost[i].id)
    BY <2>1 DEF IInv, FlightInv
  <2>3. \A i \in 1..Len(toMote') : IsPacket(toMote'[i]) /\ ~Raced(toMote'[i].id) =>
          i = Len(toMote) + 1 /\ toMote'[i] = packet /\ IsPacket(packet)
    BY <1>5, <2>2
  <2>4. IsPacket(packet) => Awaits(packet.id)'
    BY <1>1, <1>6 DEF Awaits, IsPacket, IsAck
  <2>5. DeliveredUnlessRaced'
    BY <1>2 DEF IInv, FlightInv, DeliveredUnlessRaced
  <2>. QED
    BY <1>2, <1>6, <2>1, <2>2, <2>3, <2>4, <2>5 DEF FlightInv, IsPacket, IsAck
<1>. QED
  BY <1>7, <1>9, <1>10, <1>11 DEF IInv

LEMMA BeginWaitKeeps == IInv /\ BeginWait => IInv'
<1>. SUFFICES ASSUME IInv, BeginWait
              PROVE  IInv'
  OBVIOUS
<1>1. /\ writer.pc = "lock" /\ writer' = [writer EXCEPT !.pc = "waiting"]
      /\ UNCHANGED <<tcp2serial, serial2tcp, toMote, toHost, losses, reader, offered, reports,
                     got, last, delivered, dropped, retried, unwaited, emptied>>
  BY DEF BeginWait, lineVars, historyVars
<1>2. /\ writer'.pc = "waiting" /\ writer'.packet = writer.packet
      /\ writer'.retryCount = writer.retryCount
      /\ writer' \in [pc : {"dequeue", "write", "lock", "waiting", "woken"},
                      packet : Frames, retryCount : 0..maxRetries]
  BY <1>1 DEF IInv, TypeOK
<1>3. TypeOK'
  BY <1>1, <1>2 DEF IInv, TypeOK
<1>4. Busy /\ Busy'
  BY <1>1, <1>2 DEF IInv, FramesInv, Busy, IsPacket
<1>5. FramesInv'
  BY <1>1, <1>2, <1>4 DEF IInv, FramesInv, IsPacket, IsAck
<1>6. OrderInv'
  BY <1>1, <1>2, <1>4 DEF IInv, OrderInv, IsPacket
<1>7. FlightInv'
  <2>1. \A id : (Raced(id)' <=> Raced(id)) /\ (Awaits(id)' <=> Awaits(id))
    BY <1>1, <1>2 DEF Awaits, Raced
  <2>2. DeliveredUnlessRaced'
    BY <1>1 DEF IInv, FlightInv, DeliveredUnlessRaced
  <2>. QED
    BY <1>1, <1>2, <2>1, <2>2 DEF IInv, FlightInv, IsPacket, IsAck
<1>. QED
  BY <1>3, <1>5, <1>6, <1>7 DEF IInv

(* The packet in hand is a packet, and what CountDropped counts.           *)
LEMMA InHand ==
  ASSUME IInv, writer.pc \in {"lock", "waiting", "woken"}
  PROVE  /\ Busy /\ writer.packet.id \in Packets /\ writer.packet.id \in Int
         /\ Packets \subseteq Int
         /\ CountDropped => dropped' \subseteq Packets
<1>1. Busy /\ writer.packet.id \in 1..offered
  BY DEF IInv, FramesInv
<1>2. 1..offered \subseteq Packets /\ Packets \subseteq Int
  BY SerialAssumption DEF IInv, TypeOK, Packets
<1>3. CountDropped => dropped' \subseteq Packets
  BY <1>1, <1>2 DEF IInv, TypeOK, CountDropped
<1>. QED
  BY <1>1, <1>2, <1>3

(* What is done with a packet once all that is in flight is in a race.     *)
Quiet ==
  /\ \A i \in 1..Len(toMote) : IsPacket(toMote[i]) => Raced(toMote[i].id)
  /\ \A i \in 1..Len(toHost) : IsAck(toHost[i]) => Raced(toHost[i].id)

LEMMA RaceQuiets ==
  ASSUME IInv, writer.pc \in {"lock", "waiting", "woken"},
         UNCHANGED <<toMote, toHost>>,
         retried \subseteq retried', unwaited \subseteq unwaited',
         writer.pc = "woken" \/ writer.packet.id \in retried' \cup unwaited'
  PROVE  /\ Quiet'
         /\ \A id : Raced(id) => Raced(id)'
         /\ \A id : id = writer.packet.id => id \in got \/ Raced(id)'
<1>1. \A id : Raced(id) => Raced(id)'
  BY DEF Raced
<1>2. writer.packet.id <= writer.packet.id
  BY InHand
<1>3. CASE writer.pc = "woken"
  <2>1. \A id : ~Awaits(id)
    BY <1>3 DEF Awaits
  <2>2. Quiet
    BY <2>1 DEF IInv, FlightInv, Quiet
  <2>3. Quiet'
    BY <1>1, <2>2 DEF Quiet, IsPacket, IsAck
  <2>. QED
    BY <1>1, <1>3, <2>3 DEF IInv, FlightInv
<1>4. CASE writer.packet.id \in retried' \cup unwaited'
  <2>1. \A id : id = writer.packet.id => Raced(id)'
    BY <1>2, <1>4 DEF Raced
  <2>2. \A id : Awaits(id) => id = writer.packet.id
    BY DEF Awaits
  <2>3. Quiet'
    BY <1>1, <2>1, <2>2 DEF IInv, FlightInv, Quiet, IsPacket, IsAck
  <2>. QED
    BY <1>1, <2>1, <2>3
<1>. QED
  BY <1>3, <1>4

(* The writer is done with its packet.                                     *)
LEMMA DoneKeeps ==
  ASSUME IInv, writer.pc \in {"lock", "waiting", "woken"}, writer' = Idle, CountDropped,
         UNCHANGED <<tcp2serial, serial2tcp, toMote, toHost, losses, reader, offered, reports,
                     got, last, retried, emptied>>,
         unwaited' = unwaited \/ unwaited' = unwaited \cup {writer.packet.id},
         delivered' = delivered \/ delivered' = delivered \cup {writer.packet.id},
         writer.pc = "woken" \/ writer.packet.id \in retried \cup unwaited'
  PROVE  IInv'
<1>1. /\ writer'.pc = "dequeue" /\ writer'.retryCount = 0
      /\ writer' \in [pc : {"dequeue", "write", "lock", "waiting", "woken"},
                      packet : Frames, retryCount : 0..maxRetries]
  BY FrameTypes, SerialAssumption DEF Idle
<1>2. TypeOK'
  <2>1. /\ unwaited' \subseteq Packets /\ delivered' \subseteq Packets
        /\ dropped' \subseteq Packets
    BY InHand DEF IInv, TypeOK
  <2>. QED
    BY <1>1, <2>1 DEF IInv, TypeOK
<1>3. ~Busy'
  BY <1>1 DEF Busy
<1>4. FramesInv'
  BY <1>1, <1>3 DEF IInv, FramesInv, IsPacket, IsAck
<1>5. OrderInv'
  BY <1>3 DEF IInv, OrderInv, IsPacket
<1>6. FlightInv'
  <2>1. /\ Quiet' /\ \A id : Raced(id) => Raced(id)'
        /\ \A id : id = writer.packet.id => id \in got \/ Raced(id)'
    BY RaceQuiets
  <2>2. \A id : Raced(id)' <=> \E before \in retried' \cup unwaited' : before <= id
    BY DEF Raced
  <2>3. \A id \in delivered' : id \in got \/ Raced(id)'
    <3>1. \A id \in delivered : id \in got \/ Raced(id)
      BY DEF IInv, FlightInv, DeliveredUnlessRaced, Raced
    <3>. QED
      BY <2>1, <3>1
  <2>4. DeliveredUnlessRaced'
    BY <2>2, <2>3 DEF DeliveredUnlessRaced
  <2>. QED
    BY <1>1, <2>1, <2>4 DEF FlightInv, Quiet, IsPacket, IsAck
<1>. QED
  BY <1>2, <1>4, <1>5, <1>6 DEF IInv

LEMMA AcknowledgedKeeps == IInv /\ Acknowledged => IInv'
  BY DoneKeeps DEF Acknowledged, lineVars

LEMMA WaitRefusedKeeps == IInv /\ WaitRefused => IInv'
  BY DoneKeeps DEF WaitRefused, lineVars

LEMMA TimedOutKeeps == IInv /\ TimedOut => IInv'
<1>. SUFFICES ASSUME IInv, TimedOut
              PROVE  IInv'
  OBVIOUS
<1>1. /\ writer.pc = "waiting"
      /\ UNCHANGED <<tcp2serial, serial2tcp, toMote, toHost, losses, reader, offered, reports,
                     got, last, delivered, unwaited, emptied>>
  BY DEF TimedOut, Retry, lineVars
<1>2. CASE /\ ~MayRetry /\ writer' = Idle /\ CountDropped /\ UNCHANGED retried
  <2>1. writer.retryCount > 0
    BY <1>2, SerialAssumption DEF MayRetry, IInv, TypeOK
  <2>2. writer.packet.id \in retried
    BY <2>1 DEF IInv, FramesInv
  <2>. QED
    BY <1>1, <1>2, <2>2, DoneKeeps
<1>3. CASE /\ MayRetry /\ Retry /\ UNCHANGED dropped
           /\ retried' = retried \cup {writer.packet.id}
  <2>1. writer' = [writer EXCEPT !.pc = "write", !.retryCount = @ + 1]
    BY <1>3 DEF Retry
  <2>2. /\ writer'.pc = "write" /\ writer'.packet = writer.packet
        /\ writer' \in [pc : {"dequeue", "write", "lock", "waiting", "woken"},
                        packet : Frames, retryCount : 0..maxRetries]
    <3>1. PICK count : count = writer.retryCount + 1
      OBVIOUS
    <3>2. count \in 0..maxRetries
      BY <1>3, <3>1, SerialAssumption DEF IInv, TypeOK, MayRetry
    <3>3. writer' = [writer EXCEPT !.pc = "write", !.retryCount = count]
      BY <2>1, <3>1
    <3>. QED
      BY <3>2, <3>3 DEF IInv, TypeOK
  <2>3. Busy /\ Busy' /\ writer.packet.id \in Packets
    BY <1>1, <2>2, InHand DEF Busy, IsPacket
  <2>4. TypeOK'
    <3>1. retried' \subseteq Packets
      BY <1>3, <2>3 DEF IInv, TypeOK
    <3>. QED
      BY <1>1, <1>3, <2>2, <3>1 DEF IInv, TypeOK
  <2>5. FramesInv'
    BY <1>1, <1>3, <2>2, <2>3 DEF IInv, FramesInv, IsPacket, IsAck
  <2>6. OrderInv'
    BY <1>1, <2>2, <2>3 DEF IInv, OrderInv, IsPacket
  <2>7. FlightInv'
    <3>1. Quiet'
      BY <1>1, <1>3, RaceQuiets
    <3>2. DeliveredUnlessRaced'
      BY <1>1, <1>3 DEF IInv, FlightInv, DeliveredUnlessRaced
    <3>. QED
      BY <2>2, <3>1, <3>2 DEF FlightInv, Quiet, IsPacket, IsAck
  <2>. QED
    BY <2>4, <2>5, <2>6, <2>7 DEF IInv
<1>. QED
  BY <1>2, <1>3 DEF TimedOut, Retry

-----------------------------------------------------------------------------
LEMMA NextKeeps == IInv /\ Next => IInv' /\ last' >= last
<1>. SUFFICES ASSUME IInv, Next
              PROVE  IInv' /\ last' >= last
  OBVIOUS
<1>1. MoteReceives => IInv' /\ last' >= last
  BY MoteReceivesKeeps
<1>2. ~MoteReceives => IInv'
  BY ClientSendsKeeps, ClientReadsKeeps, MoteReportsKeeps, LoseKeeps, ReadFrameKeeps,
     QueueAckKeeps, ReaderKeeps, TakePacketKeeps, WriteFrameKeeps, BeginWaitKeeps,
     AcknowledgedKeeps, WaitRefusedKeeps, TimedOutKeeps
  DEF Next, Reader, Writer
<1>3. ~MoteReceives => UNCHANGED last
  BY DEF Next, Reader, Writer, ClientSends, ClientReads, LastClientLeaves, MoteReports, Lose,
         ReadFrame, QueueAck, TestFull, DropOldest, QueueReport, TakePacket, WriteFrame,
         BeginWait, Acknowledged, WaitRefused, TimedOut, historyVars
<1>4. last >= last
  BY DEF IInv, TypeOK
<1>. QED
  BY <1>1, <1>2, <1>3, <1>4

LEMMA StutterKeeps == IInv /\ UNCHANGED vars => IInv'
<1>. SUFFICES ASSUME IInv, UNCHANGED vars
              PROVE  IInv'
  OBVIOUS
<1>1. TypeOK'
  BY DEF IInv, TypeOK, vars, lineVars, historyVars
<1>2. UNCHANGED packetVars
  BY DEF packetVars, vars, lineVars, historyVars
<1>. QED
  BY <1>1, <1>2, ElsewhereKeeps DEF IInv

LEMMA Inductive == Spec => []IInv
<1>1. IInv /\ [Next]_vars => IInv'
  BY NextKeeps, StutterKeeps
<1>. QED
  BY InitIInv, <1>1, PTL DEF Spec

(* Whatever the forwarder takes for acknowledged has reached the mote, but *)
(* for the races of an acknowledgement without a number (writeSerial).     *)
THEOREM SerialLinkCorrect == Spec => []LinkInv
<1>1. IInv => LinkInv
  BY DEF IInv, FlightInv, LinkInv
<1>. QED
  BY Inductive, <1>1, PTL

(* Losses, retries and late acknowledgements never reorder the packets:    *)
(* the mote sees none after a later one.                                   *)
THEOREM SerialPacketsInOrder == Spec => InOrder
<1>1. IInv /\ [Next]_vars => [last' >= last]_vars
  BY NextKeeps
<1>. QED
  BY Inductive, <1>1, PTL DEF Spec, InOrder
=============================================================================
