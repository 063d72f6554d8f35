----------------------------- MODULE SerialComm -----------------------------
(***************************************************************************)
(* The serial side of the C++ serial forwarder (tools/tinyos/cpp/sf/       *)
(* serialcomm.cpp): one thread reads frames from the mote into serial2tcp, *)
(* one writes the packets of tcp2serial to the mote, and waits for an      *)
(* acknowledgement of each with a timeout and retries.                     *)
(*                                                                         *)
(* The acknowledgement is a pthread_cond_signal without the mutex and      *)
(* without a predicate: it wakes the writer when it waits, and is lost     *)
(* when it does not.  Frames carry, as history, what they are about; the   *)
(* code does not look at sequence numbers.                                 *)
(***************************************************************************)
EXTENDS Integers, PacketBuffer

CONSTANTS
  maxRetries, \* 25 in the code
  MaxPackets, \* bound on the packets of the clients, numbered from 1
  MaxReports, \* bound on the packets of the mote
  MaxLosses   \* bound on the frames the line spoils

(* Without retries a packet that timed out would not be among `retried'.   *)
ASSUME SerialAssumption ==
  maxRetries \in Nat \ {0} /\ MaxPackets \in Nat /\ MaxReports \in Nat /\ MaxLosses \in Nat

Packets == 1..MaxPackets

Ack(about) == [type |-> "SF_ACK", id |-> about]
Packet(id) == [type |-> "SF_PACKET_ACK", id |-> id]
Report(type) == [type |-> type, id |-> 0]
Frames == [type : {"SF_ACK", "SF_PACKET_ACK", "SF_PACKET_NO_ACK"}, id : 0..MaxPackets]

VARIABLES
  tcp2serial, \* writeBuffer: packets for the mote, and acknowledgements of its reports
  serial2tcp, \* readBuffer: reports for the clients
  toMote,     \* the frames on the line
  toHost,
  reader,     \* where readSerial() is, and the frame it works with
  writer,     \* where writeSerial() is, its packet and retryCount
  offered,    \* the packets the clients have sent
  reports,    \* the packets the mote has sent
  losses,     \* the frames spoilt
  got,        \* history: the packets the mote has received
  last,       \* history: the latest of them
  delivered,  \* history: the packets the writer took for acknowledged
  dropped,    \* history: those it counted in droppedWritePacketCount
  retried,    \* history: those it sent more than once
  unwaited,   \* history: those whose wait was refused
  emptied     \* history: serial2tcp was emptied between the reader's isFull() and dequeue()

lineVars == <<toMote, toHost, losses>>
historyVars == <<got, last, delivered, dropped, retried, unwaited, emptied>>
vars == <<tcp2serial, serial2tcp, lineVars, reader, writer, offered, reports, historyVars>>

TypeOK ==
  /\ tcp2serial \in Seq(Frames) /\ Len(tcp2serial) <= cMaxBufferSize
  /\ serial2tcp \in Seq(Frames) /\ Len(serial2tcp) <= cMaxBufferSize
  /\ toMote \in Seq(Frames) /\ toHost \in Seq(Frames)
  /\ reader \in [pc : {"read", "ack", "test", "dequeue", "enqueue"}, frame : Frames]
  /\ writer \in [pc : {"dequeue", "write", "lock", "waiting", "woken"},
                 packet : Frames, retryCount : 0..maxRetries]
  /\ offered \in 0..MaxPackets /\ reports \in 0..MaxReports /\ losses \in 0..MaxLosses
  /\ got \subseteq Packets /\ last \in 0..MaxPackets
  /\ delivered \subseteq Packets /\ dropped \subseteq Packets
  /\ retried \subseteq Packets /\ unwaited \subseteq Packets
  /\ emptied \in BOOLEAN

NoFrame == Report("SF_PACKET_NO_ACK")

Init ==
  /\ tcp2serial = <<>> /\ serial2tcp = <<>>
  /\ toMote = <<>> /\ toHost = <<>>
  /\ reader = [pc |-> "read", frame |-> NoFrame]
  /\ writer = [pc |-> "dequeue", packet |-> NoFrame, retryCount |-> 0]
  /\ offered = 0 /\ reports = 0 /\ losses = 0
  /\ got = {} /\ last = 0 /\ delivered = {} /\ dropped = {}
  /\ retried = {} /\ unwaited = {} /\ emptied = FALSE

-----------------------------------------------------------------------------
(* The threads of TCPComm. *)
ClientSends ==
  /\ offered < MaxPackets
  /\ offered' = offered + 1
  /\ enqueueBack(tcp2serial, Packet(offered'))
  /\ UNCHANGED <<serial2tcp, lineVars, reader, writer, reports, historyVars>>

Emptied == emptied' = (emptied \/ (reader.pc = "dequeue" /\ serial2tcp' = <<>>))

ClientReads ==
  /\ dequeue(serial2tcp)
  /\ Emptied
  /\ UNCHANGED <<tcp2serial, lineVars, reader, writer, offered, reports,
                 got, last, delivered, dropped, retried, unwaited>>

LastClientLeaves ==
  /\ clear(serial2tcp)
  /\ Emptied
  /\ UNCHANGED <<tcp2serial, lineVars, reader, writer, offered, reports,
                 got, last, delivered, dropped, retried, unwaited>>

-----------------------------------------------------------------------------
(* The mote acknowledges every packet (SerialP.nc), and sends reports.  A  *)
(* frame that was spoilt on the line is not noticed by anyone.             *)
MoteReceives ==
  /\ toMote # <<>>
  /\ toMote' = Tail(toMote)
  /\ LET frame == Head(toMote)
     IN  IF frame.type = "SF_ACK"
           THEN UNCHANGED <<toHost, got, last>>
           ELSE /\ toHost' = Append(toHost, Ack(frame.id))
                /\ got' = got \cup {frame.id}
                /\ last' = frame.id
  /\ UNCHANGED <<tcp2serial, serial2tcp, losses, reader, writer, offered, reports,
                 delivered, dropped, retried, unwaited, emptied>>

MoteReports ==
  /\ reports < MaxReports
  /\ reports' = reports + 1
  /\ \E type \in {"SF_PACKET_ACK", "SF_PACKET_NO_ACK"} : toHost' = Append(toHost, Report(type))
  /\ UNCHANGED <<tcp2serial, serial2tcp, toMote, losses, reader, writer, offered, historyVars>>

Lose ==
  /\ losses < MaxLosses
  /\ losses' = losses + 1
  /\ \/ toMote # <<>> /\ toMote' = Tail(toMote) /\ UNCHANGED toHost
     \/ toHost # <<>> /\ toHost' = Tail(toHost) /\ UNCHANGED toMote
  /\ UNCHANGED <<tcp2serial, serial2tcp, reader, writer, offered, reports, historyVars>>

-----------------------------------------------------------------------------
(* pthread_cond_signal(&ack.received) *)
Signal ==
  IF writer.pc = "waiting" THEN writer' = [writer EXCEPT !.pc = "woken"]
                           ELSE UNCHANGED writer

(* readSerial(): an acknowledgement is signalled; a report that asks for   *)
(* one is acknowledged before anything else is done with it.               *)
ReadFrame ==
  /\ reader.pc = "read"
  /\ toHost # <<>>
  /\ toHost' = Tail(toHost)
  /\ LET frame == Head(toHost)
     IN  \/ /\ frame.type = "SF_ACK"
            /\ Signal
            /\ UNCHANGED reader
         \/ /\ frame.type = "SF_PACKET_ACK"
            /\ reader' = [pc |-> "ack", frame |-> frame]
            /\ UNCHANGED writer
         \/ /\ frame.type = "SF_PACKET_NO_ACK"
            /\ reader' = [pc |-> "test", frame |-> frame]
            /\ UNCHANGED writer
  /\ UNCHANGED <<tcp2serial, serial2tcp, toMote, losses, offered, reports, historyVars>>

(* It waits here while tcp2serial is full. *)
QueueAck ==
  /\ reader.pc = "ack"
  /\ enqueueFront(tcp2serial, Ack(0))
  /\ reader' = [reader EXCEPT !.pc = "test"]
  /\ UNCHANGED <<serial2tcp, lineVars, writer, offered, reports, historyVars>>

TestFull ==
  /\ reader.pc = "test"
  /\ reader' = [reader EXCEPT !.pc = IF isFull(serial2tcp) THEN "dequeue" ELSE "enqueue"]
  /\ UNCHANGED <<tcp2serial, serial2tcp, lineVars, writer, offered, reports, historyVars>>

(* The oldest report makes room; the call waits when there is none left.   *)
DropOldest ==
  /\ reader.pc = "dequeue"
  /\ dequeue(serial2tcp)
  /\ reader' = [reader EXCEPT !.pc = "test"]
  /\ UNCHANGED <<tcp2serial, lineVars, writer, offered, reports, historyVars>>

QueueReport ==
  /\ reader.pc = "enqueue"
  /\ enqueueBack(serial2tcp, reader.frame)
  /\ reader' = [pc |-> "read", frame |-> NoFrame]
  /\ UNCHANGED <<tcp2serial, lineVars, writer, offered, reports, historyVars>>

-----------------------------------------------------------------------------
(* writeSerial() *)
TakePacket ==
  /\ writer.pc = "dequeue"
  /\ dequeue(tcp2serial)
  /\ writer' = [pc |-> "write", packet |-> Head(tcp2serial), retryCount |-> 0]
  /\ UNCHANGED <<serial2tcp, lineVars, reader, offered, reports, historyVars>>

WriteFrame ==
  /\ writer.pc = "write"
  /\ toMote' = Append(toMote, writer.packet)
  /\ writer' = [writer EXCEPT !.pc = IF writer.packet.type = "SF_ACK" THEN "dequeue" ELSE "lock"]
  /\ UNCHANGED <<tcp2serial, serial2tcp, toHost, losses, reader, offered, reports, historyVars>>

BeginWait ==
  /\ writer.pc = "lock"
  /\ writer' = [writer EXCEPT !.pc = "waiting"]
  /\ UNCHANGED <<tcp2serial, serial2tcp, lineVars, reader, offered, reports, historyVars>>

Idle == [pc |-> "dequeue", packet |-> NoFrame, retryCount |-> 0]

(* The last try counts as dropped, also when it is acknowledged. *)
CountDropped ==
  dropped' = IF writer.retryCount >= maxRetries THEN dropped \cup {writer.packet.id} ELSE dropped

(* The wait has ended with an acknowledgement, of whatever it was. *)
Acknowledged ==
  /\ writer.pc = "woken"
  /\ writer' = Idle
  /\ CountDropped
  /\ delivered' = delivered \cup {writer.packet.id}
  /\ UNCHANGED <<tcp2serial, serial2tcp, lineVars, reader, offered, reports, got, last,
                 retried, unwaited, emptied>>

MayRetry == writer.retryCount < maxRetries

(* The microseconds of the clock and the timeout may add up to a second or *)
(* more, and pthread_cond_timedwait refuses such a tv_nsec at once: that is*)
(* no timeout, and passes for an acknowledgement.                          *)
WaitRefused ==
  /\ writer.pc = "lock"
  /\ writer' = Idle
  /\ CountDropped
  /\ delivered' = delivered \cup {writer.packet.id}
  /\ unwaited' = unwaited \cup {writer.packet.id}
  /\ UNCHANGED <<tcp2serial, serial2tcp, lineVars, reader, offered, reports, got, last,
                 retried, emptied>>

(* Mutant: the packet goes back to the end of the buffer. *)
RetryLater ==
  /\ tcp2serial' = Append(tcp2serial, writer.packet)
  /\ writer' = Idle

(* Mutant: the retries are not counted. *)
RetryUncounted ==
  /\ writer' = [writer EXCEPT !.pc = "write"]
  /\ UNCHANGED tcp2serial

Retry ==
  /\ writer' = [writer EXCEPT !.pc = "write", !.retryCount = @ + 1]
  /\ UNCHANGED tcp2serial

(* Mutant: the result of the wait is not looked at. *)
TimedOutUnseen ==
  /\ writer.pc = "waiting"
  /\ writer' = Idle
  /\ CountDropped
  /\ delivered' = delivered \cup {writer.packet.id}
  /\ UNCHANGED <<tcp2serial, serial2tcp, lineVars, reader, offered, reports, got, last,
                 retried, unwaited, emptied>>

(* Mutant: the wait has no timeout. *)
TimedOutNever == FALSE /\ UNCHANGED vars

TimedOut ==
  /\ writer.pc = "waiting"
  /\ \/ /\ MayRetry
        /\ Retry
        /\ retried' = retried \cup {writer.packet.id}
        /\ UNCHANGED dropped
     \/ /\ ~MayRetry
        /\ writer' = Idle
        /\ CountDropped
        /\ UNCHANGED <<tcp2serial, retried>>
  /\ UNCHANGED <<serial2tcp, lineVars, reader, offered, reports, got, last, delivered,
                 unwaited, emptied>>

-----------------------------------------------------------------------------
Reader == ReadFrame \/ QueueAck \/ TestFull \/ DropOldest \/ QueueReport
Writer == TakePacket \/ WriteFrame \/ BeginWait \/ Acknowledged \/ WaitRefused \/ TimedOut

Next ==
  \/ ClientSends \/ ClientReads \/ LastClientLeaves
  \/ MoteReceives \/ MoteReports \/ Lose
  \/ Reader \/ Writer

Spec == Init /\ [][Next]_vars

(* The system runs both threads, timeouts pass, and the mote reads what it *)
(* is sent.                                                                *)
FairSpec == Spec /\ WF_vars(Reader) /\ WF_vars(Writer) /\ WF_vars(MoteReceives)

-----------------------------------------------------------------------------
(* The mote receives the packets in the order in which the clients sent    *)
(* them; one that is sent again comes before the next (writeSerial).       *)
InOrder == [][last' >= last]_vars

(* A packet the forwarder took for acknowledged was received by the mote,  *)
(* as long as it and those before it were sent once and waited for: an     *)
(* acknowledgement that comes after its packet's wait is taken for the next*)
(* packet's, which may have been spoilt (readSerial has no sequence        *)
(* numbers: "seqnos are not implemented on the node").                     *)
DeliveredUnlessRaced ==
  \A id \in delivered : id \in got \/ \E before \in retried \cup unwaited : before <= id

(* That, with the types. *)
LinkInv == TypeOK /\ DeliveredUnlessRaced

(* Every packet is acknowledged or given up in the end, though the reader  *)
(* may wait for room in the buffer the writer is to empty, with the        *)
(* acknowledgement the writer waits for still unread behind it.            *)
EveryPacketEnds == \A id \in Packets : offered >= id ~> id \in delivered \cup dropped

(* What the mote sends is read in the end, unless the clients emptied      *)
(* serial2tcp between the reader's isFull() and its dequeue(): then the    *)
(* reader waits for a packet that only it could put there.                 *)
MoteIsHeard == []<>(toHost = <<>> \/ emptied)
=============================================================================
