------------------------------ MODULE TCPComm -------------------------------
(***************************************************************************)
(* The TCP side of the C++ serial forwarder (tools/tinyos/cpp/sf/          *)
(* tcpcomm.cpp): one thread accepts clients, one reads their packets into  *)
(* tcp2serial, and one takes packets from serial2tcp and sends each to     *)
(* every client.                                                           *)
(*                                                                         *)
(* A thread copies the set of descriptors under `countlock' and works with *)
(* the copy, while the others close descriptors and the system gives their *)
(* numbers to new connections.  A section under the lock is one step, and  *)
(* so are stuffPipe() and the section before it.  Connections are numbered *)
(* in the order in which they are made.                                    *)
(***************************************************************************)
EXTENDS Integers, FiniteSets, Functions, PacketBuffer

CONSTANTS
  MaxConnections, \* bound on the connections ever made
  MaxPackets      \* bound on the packets from the serial side, numbered from 1

ASSUME TCPAssumption == MaxConnections \in Nat \ {0} /\ MaxPackets \in Nat

Connections == 1..MaxConnections
Descriptors == 1..MaxConnections  \* as many as can be open at a time
NONE == 0

VARIABLES
  conn,       \* the system: conn[fd], the connection open at fd, or NONE
  peer,       \* the client of each connection: "idle" before it connects, "up", "gone"
  data,       \* what of its bytes was not read, and
  greeted,    \* whether it has begun to speak
  arrived,    \* the connections made, and
  accepted,   \* those accepted
  count, FDs, \* clientInfo
  pipe,       \* there are bytes in the pipe
  server,     \* the three threads: where each is, and what it works with
  reader,
  writer,
  serial2tcp, \* the buffer of the packets for the clients
  produced,   \* the packets the serial side has put into serial2tcp, and
  dropped,    \* history: the packets taken out of a full buffer, or when no client was left
  cancelled,  \* cancel() has ended the threads
  received,   \* history: the last packet each connection was sent
  reused,     \* history: a thread has taken a descriptor for another's connection
  raced,      \* history: a client was removed between the reader's copy and its select()
  failed      \* history: accept() or select() has failed, and no client had to do with it

osVars == <<conn, peer, data, greeted, arrived, accepted>>
infoVars == <<count, FDs, pipe>>
bufferVars == <<serial2tcp, produced, dropped>>
vars == <<osVars, infoVars, server, reader, writer, bufferVars, cancelled, received, reused,
          raced, failed>>

(* A copied descriptor, with the connection it was copied for. *)
Copies == Descriptors \X (Connections \cup {NONE})
CopyOf(fds) == {<<fd, conn[fd]>> : fd \in fds}
Lowest(copies) == CHOOSE p \in copies : \A q \in copies : p[1] <= q[1]

TypeOK ==
  /\ conn \in [Descriptors -> Connections \cup {NONE}]
  /\ peer \in [Connections -> {"idle", "up", "gone"}]
  /\ data \in [Connections -> {"none", "hello", "garbage", "part", "packet"}]
  /\ greeted \in [Connections -> BOOLEAN]
  /\ arrived \in 0..MaxConnections /\ accepted \in 0..arrived
  /\ count \in 0..MaxConnections /\ FDs \subseteq Descriptors /\ pipe \in BOOLEAN
  /\ server \in [pc : {"accept", "check", "add"}, fd : Descriptors]
  /\ reader \in [pc : {"lock", "asleep", "select", "selecting", "serve", "remove"},
                 set : SUBSET Copies]
  /\ writer \in [pc : {"lock", "asleep", "dequeue", "copy", "send", "remove"},
                 set : SUBSET Copies, packet : 0..MaxPackets]
  /\ Len(serial2tcp) <= cMaxBufferSize
  /\ received \in [Connections -> 0..MaxPackets]
  /\ produced \in 0..MaxPackets /\ dropped \subseteq 1..MaxPackets
  /\ cancelled \in BOOLEAN /\ reused \in BOOLEAN /\ raced \in BOOLEAN /\ failed \in BOOLEAN

Init ==
  /\ conn = [fd \in Descriptors |-> NONE]
  /\ peer = [k \in Connections |-> "idle"]
  /\ data = [k \in Connections |-> "none"]
  /\ greeted = [k \in Connections |-> FALSE]
  /\ arrived = 0 /\ accepted = 0
  /\ count = 0 /\ FDs = {} /\ pipe = FALSE
  /\ server = [pc |-> "accept", fd |-> 1]
  /\ reader = [pc |-> "lock", set |-> {}]
  /\ writer = [pc |-> "lock", set |-> {}, packet |-> 0]
  /\ serial2tcp = <<>> /\ produced = 0 /\ dropped = {}
  /\ cancelled = FALSE
  /\ received = [k \in Connections |-> 0]
  /\ reused = FALSE /\ raced = FALSE /\ failed = FALSE

-----------------------------------------------------------------------------
(* The clients and the serial side. *)
Connect ==
  /\ ~cancelled
  /\ arrived < MaxConnections
  /\ arrived' = arrived + 1
  /\ peer' = [peer EXCEPT ![arrived'] = "up"]
  /\ UNCHANGED <<conn, data, greeted, accepted, infoVars, server, reader, writer, bufferVars,
                 cancelled, received, reused, raced, failed>>

(* A client greets with two bytes, then sends packets, which come in parts;*)
(* anything else is garbage.                                               *)
Say(k) ==
  /\ ~cancelled
  /\ peer[k] = "up"
  /\ data[k] = "none"
  /\ \E bytes \in {IF greeted[k] THEN "part" ELSE "hello", "garbage"} :
       data' = [data EXCEPT ![k] = bytes]
  /\ greeted' = [greeted EXCEPT ![k] = TRUE]
  /\ UNCHANGED <<conn, peer, arrived, accepted, infoVars, server, reader, writer,
                 bufferVars, cancelled, received, reused, raced, failed>>

Finish(k) ==
  /\ ~cancelled
  /\ peer[k] = "up"
  /\ data[k] = "part"
  /\ data' = [data EXCEPT ![k] = "packet"]
  /\ UNCHANGED <<conn, peer, greeted, arrived, accepted, infoVars, server, reader, writer,
                 bufferVars, cancelled, received, reused, raced, failed>>

Leave(k) ==
  /\ ~cancelled
  /\ peer[k] = "up"
  /\ peer' = [peer EXCEPT ![k] = "gone"]
  /\ UNCHANGED <<conn, data, greeted, arrived, accepted, infoVars, server, reader, writer,
                 bufferVars, cancelled, received, reused, raced, failed>>

(* SerialComm puts packets into the buffer, and takes out the oldest while *)
(* it is full (serialcomm.cpp:618).                                        *)
SerialReads ==
  /\ ~cancelled
  /\ produced < MaxPackets
  /\ IF isFull(serial2tcp)
       THEN /\ serial2tcp' = Append(Tail(serial2tcp), produced + 1)
            /\ dropped' = dropped \cup {Head(serial2tcp)}
       ELSE enqueueBack(serial2tcp, produced + 1) /\ UNCHANGED dropped
  /\ produced' = produced + 1
  /\ UNCHANGED <<osVars, infoVars, server, reader, writer, cancelled,
                 received, reused, raced, failed>>

-----------------------------------------------------------------------------
(* close(fd): the system ends the connection that has the descriptor.      *)
Close(fd) ==
  /\ conn' = [conn EXCEPT ![fd] = NONE]
  /\ peer' = [k \in Connections |-> IF k = conn[fd] THEN "gone" ELSE peer[k]]
  /\ data' = [k \in Connections |-> IF k = conn[fd] THEN "none" ELSE data[k]]

(* A thread uses a copied descriptor. *)
Uses(p) == reused' = (reused \/ conn[p[1]] \notin {NONE, p[2]})

(* The pthread_cond_broadcast on `wakeup'. *)
Woken(thread) == IF thread.pc = "asleep" THEN [thread EXCEPT !.pc = "lock"] ELSE thread

(* Mutant: select() is not woken for the new client. *)
AddedQuietly(fd) ==
  /\ count' = count + 1
  /\ FDs' = FDs \cup {fd}
  /\ UNCHANGED pipe
  /\ IF count = 0 THEN reader' = Woken(reader) /\ writer' = Woken(writer)
                  ELSE UNCHANGED <<reader, writer>>

addClient(fd) ==
  /\ count' = count + 1
  /\ FDs' = FDs \cup {fd}
  /\ pipe' = TRUE
  /\ IF count = 0 THEN reader' = Woken(reader) /\ writer' = Woken(writer)
                  ELSE UNCHANGED <<reader, writer>>

(* Mutant: the client is counted out even if the descriptor was closed. *)
CountedOutAlways(fd) == count' = count - 1

CountedOut(fd) == count' = IF conn[fd] # NONE THEN count - 1 ELSE count

Erased(fd) == FDs' = FDs \ {fd}

(* Mutant: any client that leaves empties the buffer. *)
ClearedAlways == clear(serial2tcp)

ClearedByLast == IF count' = 0 THEN clear(serial2tcp) ELSE UNCHANGED serial2tcp

(* removeClient(): a client is counted out when its descriptor was open,   *)
(* and the last one takes the buffered packets with it.                    *)
removeClient(p) ==
  /\ Uses(p)
  /\ IF count > 0
       THEN Erased(p[1]) /\ CountedOut(p[1]) /\ Close(p[1])
       ELSE UNCHANGED <<conn, peer, data, FDs, count>>
  /\ ClearedByLast
  /\ dropped' = IF FDs' = {} THEN dropped \cup Range(serial2tcp) ELSE dropped
  /\ pipe' = TRUE
  /\ UNCHANGED <<greeted, arrived, accepted, produced>>

-----------------------------------------------------------------------------
(* The server thread: connectClients(). *)
Accept ==
  /\ ~cancelled
  /\ server.pc = "accept"
  /\ accepted < arrived
  /\ \E fd \in Descriptors :
       /\ conn[fd] = NONE
       /\ \A lower \in 1..(fd - 1) : conn[lower] # NONE
       /\ conn' = [conn EXCEPT ![fd] = accepted + 1]
       /\ server' = [pc |-> "check", fd |-> fd]
  /\ accepted' = accepted + 1
  /\ UNCHANGED <<peer, data, greeted, arrived, infoVars, reader, writer, bufferVars, cancelled,
                 received, reused, raced, failed>>

(* accept() fails: there is no descriptor left, or the client has gone.    *)
AcceptFails ==
  /\ ~cancelled
  /\ server.pc = "accept"
  /\ cancelled' = TRUE
  /\ failed' = TRUE
  /\ UNCHANGED <<osVars, infoVars, server, reader, writer, bufferVars, received, reused, raced>>

(* versionCheck() waits for the greeting, whoever else wants to connect.   *)
Greeted == conn[server.fd] = accepted /\ data[accepted] = "hello"
Rejected ==
  \/ conn[server.fd] # accepted
  \/ data[accepted] \in {"garbage", "part", "packet"}
  \/ data[accepted] = "none" /\ peer[accepted] = "gone"

VersionCheck ==
  /\ ~cancelled
  /\ server.pc = "check"
  /\ \/ /\ Greeted
        /\ data' = [data EXCEPT ![accepted] = "none"]
        /\ server' = [server EXCEPT !.pc = "add"]
        /\ UNCHANGED <<conn, peer>>
     \/ /\ Rejected
        /\ Close(server.fd)
        /\ server' = [server EXCEPT !.pc = "accept"]
  /\ UNCHANGED <<greeted, arrived, accepted, infoVars, reader, writer, bufferVars, cancelled,
                 received, reused, raced, failed>>

AddClient ==
  /\ ~cancelled
  /\ server.pc = "add"
  /\ addClient(server.fd)
  /\ server' = [server EXCEPT !.pc = "accept"]
  /\ UNCHANGED <<osVars, bufferVars, cancelled, received, reused, raced, failed>>

-----------------------------------------------------------------------------
(* The reader thread: readClients(). *)
CopyForReader ==
  /\ ~cancelled
  /\ reader.pc = "lock"
  /\ reader' = IF count = 0 THEN [reader EXCEPT !.pc = "asleep"]
                            ELSE [pc |-> "select", set |-> CopyOf(FDs)]
  /\ raced' = FALSE
  /\ UNCHANGED <<osVars, infoVars, server, writer, bufferVars, cancelled, received, reused,
                 failed>>

(* select() looks at the descriptors as it is called: one that was closed  *)
(* is an error, and ends the server.                                       *)
Select ==
  /\ ~cancelled
  /\ reader.pc = "select"
  /\ IF \E p \in reader.set : conn[p[1]] = NONE
       THEN cancelled' = TRUE /\ UNCHANGED <<reader, reused>>
       ELSE /\ reader' = [pc |-> "selecting", set |-> CopyOf({p[1] : p \in reader.set})]
            /\ reused' = (reused \/ reader'.set # reader.set)
            /\ UNCHANGED cancelled
  /\ UNCHANGED <<osVars, infoVars, server, writer, bufferVars, received, raced, failed>>

(* select() fails, though every descriptor is open. *)
SelectFails ==
  /\ ~cancelled
  /\ reader.pc \in {"select", "selecting"}
  /\ cancelled' = TRUE
  /\ failed' = TRUE
  /\ UNCHANGED <<osVars, infoVars, server, reader, writer, bufferVars, received, reused, raced>>

Serving(set) == [pc |-> IF set = {} THEN "lock" ELSE "serve", set |-> set]

Readable == {p \in reader.set : peer[p[2]] = "gone" \/ data[p[2]] # "none"}

SelectReturns ==
  /\ ~cancelled
  /\ reader.pc = "selecting"
  /\ pipe \/ Readable # {}
  /\ pipe' = FALSE
  /\ reader' = Serving(Readable)
  /\ UNCHANGED <<osVars, count, FDs, server, writer, bufferVars, cancelled, received,
                 reused, raced, failed>>

NextToServe == Serving(reader.set \ {Lowest(reader.set)})

(* readPacket() of the next readable client: a whole packet, or nothing    *)
(* that could be one; it waits for the rest of a packet, and for room in   *)
(* tcp2serial.                                                             *)
ReadPacket ==
  /\ ~cancelled
  /\ reader.pc = "serve"
  /\ LET p == Lowest(reader.set)
         k == conn[p[1]]
     IN  /\ Uses(p)
         /\ \/ /\ k # NONE /\ data[k] = "packet"
               /\ data' = [data EXCEPT ![k] = "none"]
               /\ reader' = NextToServe
            \/ /\ k # NONE /\ data[k] \in {"hello", "garbage"}
               /\ data' = [data EXCEPT ![k] = "garbage"]
               /\ reader' = [reader EXCEPT !.pc = "remove"]
            \/ /\ k # NONE => data[k] \in {"none", "part"} /\ peer[k] = "gone"
               /\ reader' = [reader EXCEPT !.pc = "remove"]
               /\ UNCHANGED data
  /\ UNCHANGED <<conn, peer, greeted, arrived, accepted, infoVars, server, writer, bufferVars,
                 cancelled, received, raced, failed>>

ReaderRemoves ==
  /\ ~cancelled
  /\ reader.pc = "remove"
  /\ removeClient(Lowest(reader.set))
  /\ reader' = NextToServe
  /\ UNCHANGED <<server, writer, cancelled, received, raced, failed>>

-----------------------------------------------------------------------------
(* The writer thread: writeClients(). *)
WriterLooks ==
  /\ ~cancelled
  /\ writer.pc = "lock"
  /\ writer' = [writer EXCEPT !.pc = IF count = 0 THEN "asleep" ELSE "dequeue"]
  /\ UNCHANGED <<osVars, infoVars, server, reader, bufferVars, cancelled, received,
                 reused, raced, failed>>

WriterDequeues ==
  /\ ~cancelled
  /\ writer.pc = "dequeue"
  /\ dequeue(serial2tcp)
  /\ writer' = [writer EXCEPT !.pc = "copy", !.packet = Head(serial2tcp)]
  /\ UNCHANGED <<osVars, infoVars, server, reader, produced, dropped, cancelled,
                 received, reused, raced, failed>>

Sending(set) == IF set = {} THEN [pc |-> "lock", set |-> {}, packet |-> 0]
                ELSE [pc |-> "send", set |-> set, packet |-> writer.packet]

CopyForWriter ==
  /\ ~cancelled
  /\ writer.pc = "copy"
  /\ writer' = Sending(CopyOf(FDs))
  /\ UNCHANGED <<osVars, infoVars, server, reader, bufferVars, cancelled, received,
                 reused, raced, failed>>

NextToSend == Sending(writer.set \ {Lowest(writer.set)})

(* send() to a client that is gone succeeds until the system knows. *)
WritePacket ==
  /\ ~cancelled
  /\ writer.pc = "send"
  /\ LET p == Lowest(writer.set)
         k == conn[p[1]]
     IN  /\ Uses(p)
         /\ \/ /\ k # NONE
               /\ received' = [received EXCEPT ![k] = writer.packet]
               /\ writer' = NextToSend
            \/ /\ k # NONE => peer[k] = "gone"
               /\ writer' = [writer EXCEPT !.pc = "remove"]
               /\ UNCHANGED received
  /\ UNCHANGED <<osVars, infoVars, server, reader, bufferVars, cancelled, raced, failed>>

WriterRemoves ==
  /\ ~cancelled
  /\ writer.pc = "remove"
  /\ removeClient(Lowest(writer.set))
  /\ writer' = NextToSend
  /\ raced' = (raced \/ (reader.pc = "select" /\ \E p \in reader.set : p[1] = Lowest(writer.set)[1]))
  /\ UNCHANGED <<server, reader, cancelled, received, failed>>

-----------------------------------------------------------------------------
Environment ==
  \/ Connect
  \/ \E k \in Connections : Say(k) \/ Finish(k) \/ Leave(k)
  \/ SerialReads

Server == Accept \/ VersionCheck \/ AddClient

Reader ==
  \/ CopyForReader \/ Select \/ SelectReturns \/ ReadPacket
  \/ ReaderRemoves

Writer ==
  \/ WriterLooks \/ WriterDequeues \/ CopyForWriter \/ WritePacket
  \/ WriterRemoves

Next == Environment \/ Server \/ Reader \/ Writer \/ AcceptFails \/ SelectFails

Spec == Init /\ [][Next]_vars

(* The system runs every thread, tcp2serial is drained, and a client ends  *)
(* the packet it has begun to send, or leaves; nothing need ever fail.     *)
FairSpec ==
  /\ Spec
  /\ WF_vars(Server) /\ WF_vars(Reader) /\ WF_vars(Writer)
  /\ \A k \in Connections : WF_vars(data[k] = "part" /\ (Finish(k) \/ Leave(k)))

-----------------------------------------------------------------------------
(* `count' is "number of connected clients" (tcpcomm.h:88): the size of    *)
(* the set of their descriptors.                                           *)
CountIsClients == count = Cardinality(FDs)

(* What is true of it: the count is right, and the descriptors of the set  *)
(* are open, as long as no thread has taken the descriptor of a closed     *)
(* connection for that of a new one.  A client may well be removed twice,  *)
(* by the reader and by the writer (removeClient).                         *)
CountUnlessReused ==
  ~reused => CountIsClients /\ \A fd \in FDs : conn[fd] # NONE

(* The server ends itself only if a descriptor was reused, or the writer   *)
(* removed a client between the reader's copy of the set and its select(), *)
(* or the system refused an accept() or a select().                        *)
StopsOnlyIfRaced == cancelled => raced \/ reused \/ failed

(* No thread sleeps while there are clients (the waits on `wakeup').       *)
AwakeWithClients == count > 0 => reader.pc # "asleep" /\ writer.pc # "asleep"

(* The three together, with the types. *)
ServerInv == TypeOK /\ CountUnlessReused /\ StopsOnlyIfRaced /\ AwakeWithClients

(* A client sees the packets of the mote in order, and none is missing     *)
(* between two it was sent but those SerialComm dropped from a full buffer *)
(* and those nobody was there for: the last client to leave empties the    *)
(* buffer, and the writer may hold an older packet for the next.           *)
NoGaps ==
  [][\A k \in Connections :
       received'[k] # received[k] /\ received[k] # 0 /\ ~reused' =>
         /\ received[k] < received'[k]
         /\ (received[k] + 1)..(received'[k] - 1) \subseteq dropped]_vars

(* A client that has left is found out, also one that came while the reader*)
(* was in select() with an older set: stuffPipe() wakes it.                *)
GoneClientRemoved ==
  \A fd \in Descriptors :
    fd \in FDs /\ (\E k \in Connections : conn[fd] = k /\ peer[k] = "gone")
      ~> fd \notin FDs \/ cancelled \/ reused
=============================================================================
