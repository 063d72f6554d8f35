----------------------------- MODULE SerialMote -----------------------------
(***************************************************************************)
(* The mote's end of the serial line: the framer tos/lib/serial/SerialP.nc *)
(* and SerialDispatcherP.nc above it.  The bytes go through HdlcTranslateC,*)
(* which sends some of them in two, to a UART driver.                      *)
(*                                                                         *)
(* The handlers of the UART are interrupts, which run to their end and     *)
(* come between tasks, in the middle of RunTx and in the middle of stop.   *)
(***************************************************************************)
EXTENDS Naturals, SequencesExt

CONSTANTS ACK_QUEUE_SIZE,   \* acks that wait to be sent, 5 in the code
          SERIAL_MTU        \* the longest packet, 255 in the code

ASSUME MoteAssumption == ACK_QUEUE_SIZE \in Nat \ {0} /\ SERIAL_MTU \in Nat /\ SERIAL_MTU >= 2

VARIABLES
  rxState, rxByteCnt, rxProto,           \* SerialP: the frame being received
  txState, txIndex, txByteCnt, txBuf,    \* SerialP: the frame being sent
  acks,          \* SerialP: how many tokens ackQ holds
  offPending,    \* SerialP: switch off when the line is quiet
  sendState,     \* SerialDispatcherP: a packet is being sent
  which, locked,                         \* SerialDispatcherP: the current buffer of
                                         \*   two, and those that are not free
  received,      \* the buffer of receiveTask while it is pending, or NONE
  posted,        \* the tasks that are posted, which the scheduler runs in order;
                 \*   "RunTx" is among them while txPending is set
  running,       \* where RunTx or SplitControl.stop stands, "none" if neither runs
  uart,          \* SerialControl is on
  sending,       \* the UART is sending a byte: putDone is to come
  escape,        \* HdlcTranslateC: sendEscape, the byte in the UART is the first of two
  revived,       \* history: a byte came between the switch-off and SerialControl.stop,
                 \*   and the last start has not put that right
  missed,        \* history: a frame ended when stop had looked at rxState and not yet set
                 \*   offPending, and testOff was not called since
  halfSent,      \* history: the second byte of two was refused since the last start
  cancelledLate, \* history: a packet was cancelled when it had been sent, and the
                 \*   framer has it still
  user           \* what the user of SplitControl knows

rxVars == <<rxState, rxByteCnt, rxProto>>
txVars == <<txState, txIndex, txByteCnt, txBuf>>
receiveVars == <<which, locked, received>>
history == <<revived, missed, halfSent, cancelledLate>>
moteVars == <<rxVars, txVars, acks, offPending, sendState, receiveVars,
              posted, running, uart, sending, escape, user, history>>

NONE == 2
RxStates == {"NOSYNC", "PROTO", "TOKEN", "INFO", "INACTIVE"}
Midway == {"PROTO", "INFO", "FCS1", "FCS2", "ENDFLAG", "ENDWAIT"}
TxStates == Midway \cup {"IDLE", "FINISH", "ERROR", "INACTIVE"}
StopPoints == {"stopTx", "testOff", "turnOff", "stayOn"}
Tasks == {"startDoneTask", "stopDoneTask", "defaultSerialFlushTask", "signalSendDone",
          "receiveTask", "RunTx"}

MoteFlags ==
  {offPending, uart, sending, escape, revived, missed, halfSent, cancelledLate} \subseteq BOOLEAN

MoteTypeOK ==
  /\ rxState \in RxStates /\ rxByteCnt \in 0..SERIAL_MTU
  /\ rxProto \in {"PACKET_ACK", "PACKET_NOACK", "none"}
  /\ txState \in TxStates /\ txIndex \in {"ack", "data"} /\ txByteCnt \in 0..SERIAL_MTU
  /\ txBuf \in [{"ack", "data"} -> {"AVAILABLE", "FILLING", "COMPLETE"}]
  /\ acks \in 0..ACK_QUEUE_SIZE
  /\ MoteFlags
  /\ sendState \in {"IDLE", "DATA"}
  /\ which \in {0, 1} /\ locked \subseteq {0, 1}
  /\ received \in {0, 1, NONE}
  /\ posted \in Seq(Tasks) /\ IsInjective(posted)
  /\ running \in {"none", "start", "nothing"} \cup StopPoints
  /\ user \in {"off", "starting", "on", "stopping"}

(* After Init.init. *)
MoteInit ==
  /\ rxState = "INACTIVE" /\ rxByteCnt = 0 /\ rxProto = "none"
  /\ txState = "INACTIVE" /\ txIndex = "ack" /\ txByteCnt = 0
  /\ txBuf = [index \in {"ack", "data"} |-> "AVAILABLE"]
  /\ acks = 0 /\ offPending = FALSE
  /\ sendState = "IDLE"
  /\ which = 0 /\ locked = {} /\ received = NONE
  /\ posted = <<>> /\ running = "none"
  /\ uart = FALSE /\ sending = FALSE /\ escape = FALSE
  /\ user = "off"
  /\ revived = FALSE /\ missed = FALSE /\ halfSent = FALSE /\ cancelledLate = FALSE

NoTaskRuns == running = "none"

(* A task that is posted already is not posted again. *)
post(queue, task) == IF Contains(queue, task) THEN queue ELSE Append(queue, task)

Stopped == Contains(posted, "stopDoneTask") \/ Contains(posted, "defaultSerialFlushTask")

SwitchingOff == Stopped \/ running = "turnOff"

(* The scheduler calls the first task. *)
Runs(task) == NoTaskRuns /\ posted # <<>> /\ Head(posted) = task

-----------------------------------------------------------------------------
(* Switching on and off.  The user starts what is off and stops what is on.*)

(* Mutant: offPending outlives the switch-off. *)
testOffStays(queue) ==
  LET turnOff == txState' = "INACTIVE" /\ rxState' = "INACTIVE"
  IN  /\ posted' = IF turnOff THEN post(queue, "stopDoneTask") ELSE queue
      /\ offPending' = TRUE
      /\ missed' = FALSE

(* testOff where nothing comes between, in an interrupt or in an atomic    *)
(* section, with the states as they are after this step and the tasks that *)
(* were posted before.                                                     *)
testOff(queue) ==
  LET turnOff == txState' = "INACTIVE" /\ rxState' = "INACTIVE"
  IN  /\ posted' = IF turnOff THEN post(queue, "stopDoneTask") ELSE queue
      /\ offPending' = ~turnOff
      /\ missed' = FALSE

(* SplitControl.start. *)
Start ==
  /\ NoTaskRuns /\ user = "off"
  /\ IF txState # "INACTIVE" /\ rxState # "INACTIVE"
       THEN UNCHANGED <<posted, user>>
       ELSE posted' = post(posted, "startDoneTask") /\ user' = "starting"
  /\ UNCHANGED <<rxVars, txVars, acks, offPending, sendState, receiveVars,
                 running, uart, sending, escape, history>>

startDoneTask ==
  /\ Runs("startDoneTask")
  /\ posted' = Tail(posted)
  /\ uart' = TRUE
  /\ txState' = "IDLE"
  /\ rxState' = "NOSYNC"
  /\ user' = "on"
  /\ revived' = (revived /\ (offPending \/ which \in locked \/ Stopped))
  /\ halfSent' = FALSE
  /\ UNCHANGED <<rxByteCnt, rxProto, txIndex, txByteCnt, txBuf, acks, offPending,
                 sendState, receiveVars, running, sending, escape, missed, cancelledLate>>

(* SplitControl.stop: the receiver first, ... *)
Stop ==
  /\ NoTaskRuns /\ user = "on"
  /\ user' = "stopping"
  /\ running' = "stopTx"
  /\ rxState' = IF rxState = "NOSYNC" THEN "INACTIVE" ELSE rxState
  /\ UNCHANGED <<rxByteCnt, rxProto, txVars, acks, offPending, sendState, receiveVars,
                 posted, uart, sending, escape, history>>

(* ... then the transmitter, ... *)
stopTx ==
  /\ running = "stopTx"
  /\ running' = "testOff"
  /\ txState' = IF txState = "IDLE" THEN "INACTIVE" ELSE txState
  /\ UNCHANGED <<rxVars, txIndex, txByteCnt, txBuf, acks, offPending, sendState,
                 receiveVars, posted, uart, sending, escape, user, history>>

(* ... and testOff, which looks at both, *)
stopTest ==
  /\ running = "testOff"
  /\ running' = IF txState = "INACTIVE" /\ rxState = "INACTIVE" THEN "turnOff" ELSE "stayOn"
  /\ missed' = FALSE
  /\ UNCHANGED <<rxVars, txVars, acks, offPending, sendState, receiveVars, posted, uart,
                 sending, escape, user, revived, halfSent, cancelledLate>>

(* and does, with interrupts in between, what it has decided. *)
stopDecided ==
  /\ running \in {"turnOff", "stayOn"}
  /\ running' = "none"
  /\ posted' = IF running = "turnOff" THEN post(posted, "stopDoneTask") ELSE posted
  /\ offPending' = (running = "stayOn")
  /\ UNCHANGED <<rxVars, txVars, acks, sendState, receiveVars, uart, sending, escape, user,
                 history>>

stopDoneTask ==
  /\ Runs("stopDoneTask")
  /\ posted' = post(Tail(posted), "defaultSerialFlushTask")
  /\ UNCHANGED <<rxVars, txVars, acks, offPending, sendState, receiveVars,
                 running, uart, sending, escape, user, history>>

(* SerialFlush.flushDone: SerialControl.stop and stopDone. *)
flushDone ==
  /\ Runs("defaultSerialFlushTask")
  /\ posted' = Tail(posted)
  /\ uart' = FALSE
  /\ sending' = FALSE
  /\ user' = "off"
  /\ missed' = FALSE
  /\ UNCHANGED <<rxVars, txVars, acks, offPending, sendState, receiveVars, running, escape,
                 revived, halfSent, cancelledLate>>

-----------------------------------------------------------------------------
(* Receiving: the dispatcher's handlers.                                   *)

(* Mutant: the packet takes the place of the one that waits.               *)
endPacketAlways ==
  /\ received' = which
  /\ which' = 1 - which
  /\ UNCHANGED locked

(* endPacket(SUCCESS): the buffer goes to receiveTask and the other one is *)
(* current, unless receiveTask is still pending: then the packet is lost.  *)
endPacket ==
  IF received = NONE
    THEN /\ received' = which
         /\ which' = 1 - which
         /\ UNCHANGED locked
    ELSE locked' = locked \ {which} /\ UNCHANGED <<which, received>>

endPacketFails == locked' = locked \ {which} /\ UNCHANGED <<which, received>>

(* receiveTask, with the handler of Receive.receive; an interrupt before   *)
(* its end finds it still pending.                                         *)
receiveTask ==
  /\ Runs("receiveTask")
  /\ posted' = Tail(posted)
  /\ locked' = locked \ {received}
  /\ received' = NONE
  /\ UNCHANGED <<rxVars, txVars, acks, offPending, sendState, which, running, uart, sending, escape,
                 user, history>>

-----------------------------------------------------------------------------
(* Receiving: rx_state_machine.                                            *)

(* Mutant: the switch-off that waited is forgotten. *)
FrameOverForgets(next, queue) ==
  /\ rxByteCnt' = 0
  /\ rxProto' = "none"
  /\ rxState' = next /\ posted' = queue /\ UNCHANGED <<offPending, missed>>

(* rxInit, and the switch-off that waited for the end of the frame; the    *)
(* tasks are those posted before.                                          *)
FrameOver(next, queue) ==
  /\ rxByteCnt' = 0
  /\ rxProto' = "none"
  /\ IF offPending
       THEN rxState' = "INACTIVE" /\ testOff(queue)
       ELSE /\ rxState' = next /\ posted' = queue /\ UNCHANGED offPending
            /\ missed' = (missed \/ (running = "stayOn" /\ next = "INACTIVE"))

nosync(isDelimeter) ==
  /\ FrameOver(IF isDelimeter THEN "PROTO" ELSE "INACTIVE", posted)
  /\ endPacketFails
  /\ UNCHANGED acks

(* A frame with the right CRC has ended: an ack is queued, whatever became *)
(* of the packet, if there is room for it.                                 *)
goodFrame ==
  LET delivered == IF received = NONE THEN post(posted, "receiveTask") ELSE posted
      answered == rxProto = "PACKET_ACK" /\ acks < ACK_QUEUE_SIZE
  IN  /\ endPacket
      /\ acks' = IF answered THEN acks + 1 ELSE acks
      /\ FrameOver("INACTIVE", IF answered THEN post(delivered, "RunTx") ELSE delivered)

Goes(state) == rxState' = state /\ UNCHANGED <<offPending, posted, acks, missed>>

delimiterReceived ==
  /\ uart
  /\ UNCHANGED <<txVars, sendState, running, uart, sending, escape, user>>
  /\ CASE rxState = "NOSYNC" ->
            Goes("PROTO") /\ rxByteCnt' = 0 /\ rxProto' = "none" /\ UNCHANGED receiveVars
       [] rxState = "PROTO" -> Goes("PROTO") /\ UNCHANGED <<rxByteCnt, rxProto, receiveVars>>
       [] rxState \in {"TOKEN", "INACTIVE"} -> nosync(TRUE)
       [] rxState = "INFO" ->
            \/ nosync(TRUE)
            \/ rxByteCnt >= 2 /\ rxByteCnt < SERIAL_MTU /\ goodFrame
  /\ revived' = (revived \/ (SwitchingOff /\ rxState' # "INACTIVE"))
  /\ UNCHANGED <<halfSent, cancelledLate>>

dataReceived ==
  /\ uart
  /\ UNCHANGED <<txVars, sendState, running, uart, sending, escape, user>>
  /\ CASE rxState = "NOSYNC" -> Goes("NOSYNC") /\ UNCHANGED <<rxByteCnt, rxProto, receiveVars>>
       [] rxState = "PROTO" ->
            \/ nosync(FALSE)
            \/ /\ which \notin locked
               /\ rxProto' \in {"PACKET_ACK", "PACKET_NOACK"}
               /\ Goes(IF rxProto' = "PACKET_ACK" THEN "TOKEN" ELSE "INFO")
               /\ locked' = locked \cup {which}
               /\ UNCHANGED <<rxByteCnt, which, received>>
       [] rxState = "TOKEN" -> Goes("INFO") /\ UNCHANGED <<rxByteCnt, rxProto, receiveVars>>
       [] rxState = "INFO" /\ rxByteCnt < SERIAL_MTU ->
            Goes("INFO") /\ rxByteCnt' = rxByteCnt + 1 /\ UNCHANGED <<rxProto, receiveVars>>
       [] OTHER -> nosync(FALSE)
  /\ revived' = (revived \/ (SwitchingOff /\ rxState' # "INACTIVE"))
  /\ UNCHANGED <<halfSent, cancelledLate>>

-----------------------------------------------------------------------------
(* Sending: the commands and the task of the dispatcher.                   *)

MaybeScheduleTx == posted' = post(posted, "RunTx")

(* Send.send and startSend, or no effect, when the dispatcher is busy or   *)
(* the framer refuses.                                                     *)
Send ==
  /\ NoTaskRuns
  /\ sendState = "IDLE" /\ txState # "INACTIVE" /\ txBuf["data"] = "AVAILABLE"
  /\ sendState' = "DATA"
  /\ txBuf' = [txBuf EXCEPT !["data"] = "FILLING"]
  /\ MaybeScheduleTx
  /\ UNCHANGED <<rxVars, txState, txIndex, txByteCnt, acks, offPending, receiveVars,
                 running, uart, sending, escape, user, history>>

(* Send.cancel: what was sent of the packet is made a frame of its own. *)
Cancel ==
  /\ NoTaskRuns
  /\ sendState = "DATA"
  /\ cancelledLate' = (cancelledLate \/ Contains(posted, "signalSendDone"))
  /\ txBuf' = [txBuf EXCEPT !["data"] = "COMPLETE"]
  /\ UNCHANGED <<rxVars, txState, txIndex, txByteCnt, acks, offPending, sendState,
                 receiveVars, posted, running, uart, sending, escape, user, revived, missed, halfSent>>

signalSendDone ==
  /\ Runs("signalSendDone")
  /\ posted' = Tail(posted)
  /\ sendState' = "IDLE"
  /\ cancelledLate' = (cancelledLate /\ txBuf["data"] # "AVAILABLE")
  /\ UNCHANGED <<rxVars, txVars, acks, offPending, receiveVars,
                 running, uart, sending, escape, user, revived, missed, halfSent>>

-----------------------------------------------------------------------------
(* Sending: the framer.                                                    *)

(* Mutant: a frame that failed is not taken note of. *)
DoneWell == txState = "FINISH"

Done == txState \in {"FINISH", "ERROR"}

(* RunTx up to the test of txState: take note of a frame that has ended,   *)
(* then go inactive, or choose the next frame, acks first.  An interrupt   *)
(* within this part can only add an ack, as if before it or after it.      *)
RunTx ==
  /\ Runs("RunTx")
  /\ LET idle == Done \/ txState = "IDLE"
         acked == Done /\ txIndex = "ack" /\ acks > 0
         free == IF Done THEN [txBuf EXCEPT ![txIndex] = "AVAILABLE"] ELSE txBuf
         ackNext == acks' > 0 /\ free["ack"] = "AVAILABLE"
         dataNext == ~ackNext /\ free["data"] # "AVAILABLE"
     IN  /\ acks' = IF acked THEN acks - 1 ELSE acks
         /\ posted' = IF Done /\ txIndex = "data" THEN post(Tail(posted), "signalSendDone")
                                                 ELSE Tail(posted)
         /\ txState' = IF idle THEN (IF offPending THEN "INACTIVE" ELSE "IDLE") ELSE txState
         /\ IF txState' = "IDLE" /\ (ackNext \/ dataNext)
              THEN /\ running' = "start"
                   /\ txIndex' = IF ackNext THEN "ack" ELSE "data"
                   /\ txBuf' = IF ackNext THEN [free EXCEPT !["ack"] = "COMPLETE"] ELSE free
              ELSE running' = "nothing" /\ txBuf' = free /\ UNCHANGED txIndex
  /\ UNCHANGED <<rxVars, txByteCnt, offPending, sendState, receiveVars, uart, sending, escape, user,
                 history>>

(* Mutant: nothing sees to a refused byte. *)
PutSilently(next) ==
  /\ escape' = FALSE
  /\ \/ /\ uart /\ ~sending
        /\ sending' = TRUE
        /\ txState' = next
        /\ UNCHANGED posted
     \/ txState' = "ERROR" /\ UNCHANGED <<sending, posted>>

(* putDelimiter while no byte is being sent, and the state of the framer   *)
(* if it succeeds; a driver may refuse, and does when it is busy.          *)
Put(next) ==
  /\ escape' = FALSE
  /\ \/ /\ uart /\ ~sending
        /\ sending' = TRUE
        /\ txState' = next
        /\ UNCHANGED posted
     \/ /\ UNCHANGED sending
        /\ txState' = "ERROR"
        /\ MaybeScheduleTx

(* RunTx from the test of txState on. *)
RunTxEnds ==
  /\ running \in {"start", "nothing"}
  /\ running' = "none"
  /\ IF txState = "INACTIVE"
       THEN UNCHANGED <<rxVars, txVars, sending, escape>> /\ testOff(posted)
       ELSE /\ UNCHANGED <<rxVars, offPending, missed>>
            /\ IF running = "start"
                 THEN Put("PROTO") /\ txByteCnt' = 0 /\ UNCHANGED <<txIndex, txBuf>>
                 ELSE UNCHANGED <<txVars, posted, sending, escape>>
  /\ UNCHANGED <<acks, sendState, receiveVars, uart, user, revived, halfSent, cancelledLate>>

(* A byte of INFO: an ack has one.  The byte of a packet may be its last,  *)
(* when nextByte calls completeSend.  txByteCnt is not read after INFO.    *)
info(next) ==
  /\ \E last \in BOOLEAN :
       /\ last => txIndex = "data"
       /\ txBuf' = IF last THEN [txBuf EXCEPT !["data"] = "COMPLETE"] ELSE txBuf
  /\ LET over == txIndex = "ack" \/ txBuf'["data"] = "COMPLETE" \/ txByteCnt + 1 >= SERIAL_MTU
     IN  /\ next = IF over THEN "FCS1" ELSE "INFO"
         /\ txByteCnt' = IF over THEN 0 ELSE txByteCnt + 1

(* The UART has sent its byte; `sending' is what Put finds.                *)
PutNext(next) ==
  \/ txState' = next /\ UNCHANGED <<sending, posted>>
  \/ sending' = FALSE /\ txState' = "ERROR" /\ MaybeScheduleTx

(* putData: a byte of a packet or of its CRC may be one to escape. *)
PutData(next) == escape' \in BOOLEAN /\ PutNext(next)

PutPlain(next) == escape' = FALSE /\ PutNext(next)

putDone ==
  /\ uart /\ sending /\ ~escape
  /\ txState # "INFO" => UNCHANGED <<txByteCnt, txBuf>>
  /\ \/ txState = "PROTO" /\ PutPlain("INFO")
     \/ txState = "INFO" /\ \E next \in {"INFO", "FCS1"} : info(next) /\ PutData(next)
     \/ txState = "FCS1" /\ PutData("FCS2")
     \/ txState = "FCS2" /\ PutData("ENDFLAG")
     \/ txState = "ENDFLAG" /\ PutPlain("ENDWAIT")
     \/ /\ txState \notin Midway \ {"ENDWAIT"}
        /\ txState' = IF txState \in {"ENDWAIT", "FINISH"} THEN "FINISH" ELSE "ERROR"
        /\ MaybeScheduleTx
        /\ sending' = FALSE
        /\ UNCHANGED escape
  /\ UNCHANGED <<rxVars, txIndex, acks, offPending, sendState, receiveVars, running,
                 uart, user, history>>

(* HdlcTranslateC sends the second byte of two, and does not look whether  *)
(* the UART takes it.                                                      *)
escapedSent ==
  /\ uart /\ sending /\ escape
  /\ escape' = FALSE
  /\ sending' \in BOOLEAN
  /\ halfSent' = (halfSent \/ ~sending')
  /\ UNCHANGED <<rxVars, txVars, acks, offPending, sendState, receiveVars, posted, running,
                 uart, user, revived, missed, cancelledLate>>

-----------------------------------------------------------------------------
(* UartStream.sendDone. *)
sendDone == putDone \/ escapedSent

Task ==
  \/ startDoneTask \/ stopDoneTask \/ flushDone \/ receiveTask \/ signalSendDone
  \/ RunTx \/ RunTxEnds
  \/ stopTx \/ stopTest \/ stopDecided

MoteNext ==
  \/ Start \/ Stop
  \/ Task
  \/ delimiterReceived \/ dataReceived \/ sendDone
  \/ Send \/ Cancel

MoteSpec == MoteInit /\ [][MoteNext]_moteVars

(* No task is posted and none runs: exactly then Task is disabled.         *)
TasksIdle == posted = <<>> /\ NoTaskRuns

(* The scheduler runs the tasks and the UART ends a byte it was given;     *)
(* nothing says that the PC sends anything or that the user acts.  The     *)
(* formulas are WF_moteVars(Task) and WF_moteVars(sendDone) with ENABLED   *)
(* spelt out, which costs TLC less: every step of Task changes posted or   *)
(* running, and sendDone is enabled exactly while a byte is being sent.    *)
TasksRun == []<>TasksIdle \/ []<><<Task>>_<<posted, running>>
BytesEnd == []<>~(uart /\ sending) \/ []<><<sendDone>>_moteVars

MoteFairSpec == MoteSpec /\ TasksRun /\ BytesEnd

-----------------------------------------------------------------------------
(* receiveTask and the interrupts never share a buffer: the packet that    *)
(* waits is in the locked buffer that is not current, and the current one  *)
(* is locked exactly while a frame is written to it.  So startPacket never *)
(* finds it locked, and the unconditional unlockBuffer of a frame that     *)
(* fails never frees the buffer of the task.  A byte that revives the      *)
(* receiver during the switch-off may leave the current buffer locked, and *)
(* costs the first packet after the next start.  The types come with it.   *)
BuffersApart ==
  /\ MoteTypeOK
  /\ received # NONE => received # which /\ received \in locked
  /\ locked \subseteq {which, received}
  /\ ~revived => (which \in locked <=> rxState \in {"TOKEN", "INFO"})

(* The transmitter is never stuck and the dispatcher's count of what it    *)
(* owes is right: a byte is in the UART exactly while a frame is midway,   *)
(* but for a frame whose second byte of two was refused, which stays       *)
(* midway for ever; a frame that ended has RunTx posted, and the           *)
(* dispatcher waits exactly while the framer holds the packet or its       *)
(* sendDone is posted, unless the packet was cancelled between its end and *)
(* its sendDone.  A receiver revived during the switch-off may signal      *)
(* stopDone again after the next start, and take the UART away in the      *)
(* middle of a frame.                                                      *)
TransmitterAwake ==
  /\ ~revived => (txState \in Midway <=> sending \/ halfSent)
  /\ Done => Contains(posted, "RunTx")
  /\ ~cancelledLate =>
       (sendState = "DATA" <=> \/ txBuf["data"] # "AVAILABLE"
                              \/ Contains(posted, "signalSendDone"))

(* stopDone is signalled only to a user that has asked for it, unless a    *)
(* byte came between the switch-off and SerialControl.stop: its frame may  *)
(* switch off once more.                                                   *)
StopDoneIsAsked == [][flushDone => user = "stopping" \/ revived]_moteVars

(* The framer was switched off before RunTx took the packet: no sendDone   *)
(* will come, and the dispatcher refuses every other packet.               *)
Abandoned ==
  /\ sendState = "DATA" /\ txState = "INACTIVE"
  /\ ~Contains(posted, "signalSendDone")

(* Every packet the dispatcher accepts gets its sendDone, one that was     *)
(* cancelled too late as well, unless it is abandoned, or acks, which go   *)
(* first, never run out, or the second byte of two was refused.            *)
EverySendCompletes ==
  <>Abandoned \/ <>[](acks > 0) \/ <>[]halfSent \/ []<>(sendState = "IDLE")

(* The line does not fall silent for ever in the middle of a frame. *)
LineQuiet == []<>(rxState \in {"NOSYNC", "INACTIVE"})

(* A stop ends, by its stopDone, once the frame that is being received     *)
(* does, unless that frame ended between testOff's look at rxState and its *)
(* setting of offPending, and nothing calls testOff again, or the frame    *)
(* that is being sent is stuck: on a line that fell silent in the middle   *)
(* of a frame the user waits for ever.                                     *)
EveryStopEnds ==
  LineQuiet => <>[]halfSent \/ <>[]missed \/ []<>(user # "stopping")
=============================================================================
