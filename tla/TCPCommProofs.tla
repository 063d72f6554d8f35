---------------------------- MODULE TCPCommProofs ----------------------------
(***************************************************************************)
(* For every number of connections, packets and places in the buffer: the  *)
(* serial forwarder counts its clients and stays up unless a descriptor is *)
(* taken for another's, the known race ends it or the system refuses       *)
(* accept() or select(), and a client misses no packet between two that it *)
(* was sent.                                                               *)
(***************************************************************************)
EXTENDS TCPComm, FiniteSetTheorems, SequenceTheorems, WellFoundedInduction, TLAPS

(* TypeOK in parts. *)
SystemTypes ==
  /\ conn \in [Descriptors -> Connections \cup {NONE}]
  /\ peer \in [Connections -> {"idle", "up", "gone"}]
  /\ data \in [Connections -> {"none", "hello", "garbage", "part", "packet"}]
  /\ greeted \in [Connections -> BOOLEAN]
  /\ arrived \in 0..MaxConnections /\ accepted \in 0..arrived

ClientTypes ==
  /\ count \in 0..MaxConnections /\ FDs \subseteq Descriptors /\ pipe \in BOOLEAN
  /\ server \in [pc : {"accept", "check", "add"}, fd : Descriptors]

ReaderTypes ==
  reader \in [pc : {"lock", "asleep", "select", "selecting", "serve", "remove"},
              set : SUBSET Copies]

WriterTypes ==
  writer \in [pc : {"lock", "asleep", "dequeue", "copy", "send", "remove"},
              set : SUBSET Copies, packet : 0..MaxPackets]

BufferTypes ==
  /\ Len(serial2tcp) <= cMaxBufferSize
  /\ produced \in 0..MaxPackets /\ dropped \subseteq 1..MaxPackets
  /\ received \in [Connections -> 0..MaxPackets]

FlagTypes ==
  cancelled \in BOOLEAN /\ reused \in BOOLEAN /\ raced \in BOOLEAN /\ failed \in BOOLEAN

(* The packets that have left the buffer: those up to this number. *)
Taken == produced - Len(serial2tcp)

Copied == reader.set \cup writer.set
Added == server.pc = "accept"   \* nobody is between accept() and addClient()
Holding == writer.pc \in {"copy", "send", "remove"}

(* `count' is bounded even when it is wrong; and a thread that works with a*)
(* set has somebody in it.                                                 *)
BoundsInv ==
  /\ TypeOK
  /\ serial2tcp \in Seq(1..MaxPackets)
  /\ count <= accepted /\ (~Added => count < accepted)
  /\ reader.pc \in {"serve", "remove"} => reader.set # {}
  /\ writer.pc \in {"send", "remove"} => writer.set # {}

(* A connection is open at one descriptor, the one it was copied with. *)
ConnInv ==
  /\ \A fd \in Descriptors : conn[fd] <= accepted
  /\ \A fd, other \in Descriptors : conn[fd] = conn[other] /\ conn[fd] # NONE => fd = other
  /\ \A p \in Copied :
       /\ p[2] <= accepted
       /\ p[2] # NONE => \A fd \in Descriptors : conn[fd] = p[2] => fd = p[1]

(* As long as no descriptor was taken for another's: those of the clients  *)
(* are open, the one being added is not yet among them, and a copied one   *)
(* that is still open is.                                                  *)
OpenInv ==
  /\ count = Cardinality(FDs)
  /\ \A fd \in FDs : conn[fd] # NONE
  /\ ~Added => conn[server.fd] = accepted /\ server.fd \notin FDs
  /\ \A p \in Copied :
       /\ p[2] # NONE
       /\ ~Added => p[2] # accepted
       /\ conn[p[1]] = p[2] => p[1] \in FDs
  /\ reader.pc = "select" /\ ~raced => \A p \in reader.set : conn[p[1]] = p[2]

(* The buffer holds the last packets produced, in order; the writer has an *)
(* older one, and no client was sent a later one.                          *)
OrderInv ==
  /\ Len(serial2tcp) <= produced
  /\ \A i \in 1..Len(serial2tcp) : serial2tcp[i] = Taken + i
  /\ writer.packet <= Taken
  /\ \A k \in Connections : received[k] <= Taken
  /\ writer.pc = "copy" => \A k \in Connections : received[k] < writer.packet

(* The writer has its packet still to send to this client. *)
Pending(k) ==
  \/ writer.pc = "copy"
  \/ writer.pc \in {"send", "remove"} /\ \E p \in writer.set : p[2] = k

(* As long as no descriptor was taken for another's: nobody was sent the   *)
(* packet at hand twice, and what a client was not sent was dropped.       *)
GapsInv ==
  /\ \A k \in Connections : k > accepted \/ (k = accepted /\ ~Added) => received[k] = 0
  /\ \A p \in writer.set : Holding => received[p[2]] < writer.packet
  /\ Holding => \A i \in 1..Taken : writer.packet < i => i \in dropped
  /\ \A fd \in FDs : received[conn[fd]] # 0 =>
       \A i \in 1..Taken :
         received[conn[fd]] < i => i \in dropped \/ (i = writer.packet /\ Pending(conn[fd]))

IndInv ==
  /\ BoundsInv /\ ConnInv /\ OrderInv
  /\ ~reused => OpenInv /\ GapsInv
  /\ StopsOnlyIfRaced
  /\ AwakeWithClients

-----------------------------------------------------------------------------
(* About copies of the set of descriptors. *)

LEMMA Constants ==
  /\ MaxConnections \in Nat \ {0} /\ MaxPackets \in Nat /\ cMaxBufferSize \in Nat \ {0}
  /\ Connections = 1..MaxConnections /\ Descriptors = 1..MaxConnections
  /\ NONE = 0 /\ NONE \notin Connections
  BY TCPAssumption, BufferAssumption DEF Connections, Descriptors, NONE

LEMMA Sizes == MaxConnections \in Nat /\ MaxPackets \in Nat /\ cMaxBufferSize \in Nat /\ cMaxBufferSize > 0
  BY Constants

LEMMA Types ==
  TypeOK <=> /\ SystemTypes /\ ClientTypes /\ ReaderTypes /\ WriterTypes
             /\ BufferTypes /\ FlagTypes
  BY Zenon DEF TypeOK, SystemTypes, ClientTypes, ReaderTypes, WriterTypes, BufferTypes,
               FlagTypes

LEMMA TypesNext ==
  ASSUME (SystemTypes /\ ClientTypes /\ ReaderTypes /\ WriterTypes /\ BufferTypes /\ FlagTypes)'
  PROVE  TypeOK'
  BY Zenon DEF TypeOK, SystemTypes, ClientTypes, ReaderTypes, WriterTypes, BufferTypes,
               FlagTypes

LEMMA CopyParts ==
  ASSUME NEW p \in Copies
  PROVE  p[1] \in Descriptors /\ p[2] \in Connections \cup {NONE}
  BY DEF Copies

(* A copy is its two parts. *)
LEMMA SameCopy ==
  ASSUME NEW p \in Copies, NEW q \in Copies, p[1] = q[1], p[2] = q[2]
  PROVE  p = q
  BY DEF Copies

(* A set of numbers that is not empty has a least one. *)
LEMMA Least ==
  ASSUME NEW T, T \subseteq Nat, T # {}
  PROVE  \E k \in T : \A l \in T : k <= l
<1>1. IsWellFoundedOn({pair \in Nat \X Nat : pair[1] < pair[2]}, Nat)
  BY NatLessThanWellFounded DEF OpToRel
<1>2. PICK k \in T : \A l \in T : <<l, k>> \notin {pair \in Nat \X Nat : pair[1] < pair[2]}
  BY <1>1, WFMin, Zenon
<1>3. \A l \in T : ~(l < k)
  BY <1>2
<1>. QED
  BY <1>3

(* A thread takes one of the copies it has. *)
LEMMA LowestIsOne ==
  ASSUME NEW S, S \subseteq Copies, S # {}
  PROVE  /\ Lowest(S) \in S
         /\ Lowest(S) \in Copies
         /\ Lowest(S)[1] \in Descriptors
         /\ Lowest(S)[2] \in Connections \cup {NONE}
<1>. DEFINE T == {p[1] : p \in S}
<1>1. T \subseteq Descriptors /\ T # {}
  BY CopyParts
<1>2. T \subseteq Nat
  BY <1>1, Constants
<1>3. PICK k \in T : \A l \in T : k <= l
  BY <1>1, <1>2, Least, Zenon
<1>4. \E p \in S : \A q \in S : p[1] <= q[1]
  BY <1>3
<1>5. Lowest(S) \in S
  BY <1>4, Zenon DEF Lowest
<1>. QED
  BY <1>5, CopyParts

(* Each descriptor is copied once, with the connection it has. *)
LEMMA CopyOfSet ==
  ASSUME conn \in [Descriptors -> Connections \cup {NONE}], NEW fds, fds \subseteq Descriptors
  PROVE  /\ CopyOf(fds) \subseteq Copies
         /\ \A p \in CopyOf(fds) : p[1] \in fds /\ p[2] = conn[p[1]]
         /\ \A fd \in fds : \E p \in CopyOf(fds) : p[1] = fd /\ p[2] = conn[fd]
         /\ CopyOf(fds) = {} <=> fds = {}
<1>1. \A fd \in fds : <<fd, conn[fd]>> \in CopyOf(fds)
  BY Zenon DEF CopyOf
<1>2. \A p \in CopyOf(fds) : \E fd \in fds : p = <<fd, conn[fd]>>
  BY Zenon DEF CopyOf
<1>3. \A fd \in fds : <<fd, conn[fd]>> \in Copies
  BY DEF Copies
<1>4. \A p \in CopyOf(fds) : p[1] \in fds /\ p[2] = conn[p[1]]
  BY <1>2
<1>5. \A fd \in fds : \E p \in CopyOf(fds) : p[1] = fd /\ p[2] = conn[fd]
  BY <1>1
<1>6. CopyOf(fds) \subseteq Copies
  BY <1>2, <1>3
<1>. QED
  BY <1>4, <1>5, <1>6

(* The descriptors are few enough to be counted. *)
LEMMA Counted ==
  ASSUME FDs \subseteq Descriptors
  PROVE  /\ IsFiniteSet(FDs)
         /\ Cardinality(FDs) \in Nat
         /\ Cardinality(FDs) = 0 <=> FDs = {}
<1>1. IsFiniteSet(Descriptors)
  BY FS_Interval, Constants
<1>2. IsFiniteSet(FDs)
  BY <1>1, FS_Subset
<1>. QED
  BY <1>2, FS_CardinalityType, FS_EmptySet

-----------------------------------------------------------------------------
(* Init. *)
LEMMA ServerStarts == Init => IndInv
<1>. SUFFICES ASSUME Init PROVE IndInv
  OBVIOUS
<1>1. SystemTypes
  <2>1. arrived \in 0..MaxConnections /\ accepted \in 0..arrived
    BY Constants DEF Init
  <2>. QED
    BY <2>1 DEF Init, SystemTypes
<1>2. ClientTypes
  <2>1. 1 \in Descriptors /\ 0 \in 0..MaxConnections
    BY Constants
  <2>. QED
    BY <2>1 DEF Init, ClientTypes
<1>3. ReaderTypes /\ WriterTypes
  <2>1. {} \in SUBSET Copies /\ 0 \in 0..MaxPackets
    BY Constants
  <2>2. ReaderTypes
    BY <2>1 DEF Init, ReaderTypes
  <2>3. WriterTypes
    BY <2>1 DEF Init, WriterTypes
  <2>. QED
    BY <2>2, <2>3
<1>4. BufferTypes /\ FlagTypes
  <2>1. 0 \in 0..MaxPackets /\ Len(<<>>) <= cMaxBufferSize
    BY Constants
  <2>. QED
    BY <2>1 DEF Init, BufferTypes, FlagTypes
<1>. USE Constants
<1>5. BoundsInv
  BY <1>1, <1>2, <1>3, <1>4, Types DEF Init, BoundsInv, Added
<1>6. ConnInv
  BY DEF Init, ConnInv, Copied
<1>7. OpenInv
  BY FS_EmptySet DEF Init, OpenInv, Copied, Added
<1>8. OrderInv
  BY DEF Init, OrderInv, Taken
<1>9. GapsInv
  BY DEF Init, GapsInv, Taken, Holding, Added
<1>10. StopsOnlyIfRaced /\ AwakeWithClients
  BY DEF Init, StopsOnlyIfRaced, AwakeWithClients
<1>. QED
  BY <1>5, <1>6, <1>7, <1>8, <1>9, <1>10 DEF IndInv

-----------------------------------------------------------------------------
(* What a step that leaves their variables alone, or only gives up copies, *)
(* keeps.                                                                  *)
LEMMA ConnKept ==
  ASSUME ConnInv, UNCHANGED <<conn, accepted>>, Copied' \subseteq Copied
  PROVE  ConnInv'
  BY DEF ConnInv

LEMMA OpenKept ==
  ASSUME OpenInv, UNCHANGED <<conn, accepted, server, count, FDs>>, Copied' \subseteq Copied,
         reader'.pc = "select" /\ ~raced' => reader.pc = "select" /\ ~raced
                                             /\ reader'.set = reader.set
  PROVE  OpenInv'
  BY DEF OpenInv, Added

LEMMA OrderKept ==
  ASSUME OrderInv, UNCHANGED <<serial2tcp, produced, received>>,
         writer'.packet = writer.packet, writer'.pc = "copy" => writer.pc = "copy"
  PROVE  OrderInv'
  BY DEF OrderInv, Taken

LEMMA GapsKept ==
  ASSUME GapsInv,
         UNCHANGED <<serial2tcp, produced, dropped, received, accepted, server, writer, conn, FDs>>
  PROVE  GapsInv'
  BY DEF GapsInv, Taken, Pending, Holding, Added

LEMMA AwakeKept ==
  ASSUME AwakeWithClients, count' = count,
         reader'.pc = "asleep" => reader.pc = "asleep" \/ count = 0,
         writer'.pc = "asleep" => writer.pc = "asleep" \/ count = 0,
         count \in Nat
  PROVE  AwakeWithClients'
  BY DEF AwakeWithClients

LEMMA StopsKept ==
  ASSUME ~cancelled'
  PROVE  StopsOnlyIfRaced'
  BY DEF StopsOnlyIfRaced

-----------------------------------------------------------------------------
(* The clients: Connect, Say, Finish and Leave. *)
LEMMA OnlyClients ==
  ASSUME IndInv, SystemTypes', ~cancelled,
         UNCHANGED <<conn, accepted, count, FDs, pipe, server, reader, writer, serial2tcp,
                     produced, dropped, cancelled, received, reused, raced, failed>>
  PROVE  IndInv'
<1>1. SystemTypes /\ ClientTypes /\ ReaderTypes /\ WriterTypes /\ BufferTypes /\ FlagTypes
  BY Types DEF IndInv, BoundsInv
<1>2. (ClientTypes /\ ReaderTypes /\ WriterTypes /\ BufferTypes /\ FlagTypes)'
  BY <1>1 DEF ClientTypes, ReaderTypes, WriterTypes, BufferTypes, FlagTypes
<1>3. BoundsInv'
  BY <1>2, TypesNext DEF IndInv, BoundsInv, Added
<1>4. ConnInv' /\ OrderInv' /\ AwakeWithClients' /\ StopsOnlyIfRaced'
  BY <1>1, ConnKept, OrderKept, StopsKept DEF IndInv, Copied, AwakeWithClients, ClientTypes
<1>5. ~reused' => OpenInv' /\ GapsInv'
  BY OpenKept, GapsKept DEF IndInv, Copied
<1>. QED
  BY <1>3, <1>4, <1>5 DEF IndInv

LEMMA ConnectKeeps ==
  ASSUME IndInv, Connect
  PROVE  IndInv'
<1>1. SystemTypes
  BY Types DEF IndInv, BoundsInv
<1>2. arrived' \in 0..MaxConnections /\ accepted \in 0..arrived' /\ arrived' \in Connections
  BY <1>1, Constants DEF Connect, SystemTypes
<1>3. SystemTypes'
  BY <1>1, <1>2 DEF Connect, SystemTypes
<1>. QED
  BY <1>3, OnlyClients DEF Connect, infoVars, bufferVars

LEMMA ClientKeeps ==
  ASSUME IndInv, NEW k \in Connections, Say(k) \/ Finish(k) \/ Leave(k)
  PROVE  IndInv'
<1>1. SystemTypes
  BY Types DEF IndInv, BoundsInv
<1>2. CASE Say(k)
  <2>1. SystemTypes'
    BY <1>1, <1>2 DEF Say, SystemTypes
  <2>. QED
    BY <1>2, <2>1, OnlyClients DEF Say, infoVars, bufferVars
<1>3. CASE Finish(k)
  <2>1. SystemTypes'
    BY <1>1, <1>3 DEF Finish, SystemTypes
  <2>. QED
    BY <1>3, <2>1, OnlyClients DEF Finish, infoVars, bufferVars
<1>4. CASE Leave(k)
  <2>1. SystemTypes'
    BY <1>1, <1>4 DEF Leave, SystemTypes
  <2>. QED
    BY <1>4, <2>1, OnlyClients DEF Leave, infoVars, bufferVars
<1>. QED
  BY <1>2, <1>3, <1>4

-----------------------------------------------------------------------------
(* The serial side: SerialReads. *)

(* A buffer that gives up its first packet for a new one. *)
LEMMA FirstReplaced ==
  ASSUME NEW S, NEW s \in Seq(S), s # <<>>, NEW x \in S, NEW t, t = Append(Tail(s), x)
  PROVE  /\ t \in Seq(S) /\ Len(t) = Len(s)
         /\ \A i \in 1..(Len(s) - 1) : t[i] = s[i + 1]
         /\ t[Len(s)] = x
<1>1. /\ Tail(s) \in Seq(S) /\ Len(Tail(s)) = Len(s) - 1 /\ Len(s) \in Nat
      /\ \A i \in 1..Len(Tail(s)) : Tail(s)[i] = s[i + 1]
  BY HeadTailProperties, LenProperties
<1>2. /\ t \in Seq(S) /\ Len(t) = Len(Tail(s)) + 1
      /\ \A i \in 1..Len(Tail(s)) : t[i] = Tail(s)[i]
      /\ t[Len(Tail(s)) + 1] = x
  BY <1>1, AppendProperties
<1>. QED
  BY <1>1, <1>2

(* What it does to the buffer: the last packet is appended, and the first  *)
(* has moved to `dropped' if it is not there any more.                     *)
LEMMA SerialReadsBuffer ==
  ASSUME IndInv, SerialReads
  PROVE  /\ ~cancelled
         /\ UNCHANGED <<conn, peer, data, greeted, arrived, accepted, count, FDs, pipe, server,
                        reader, writer, cancelled, received, reused, raced, failed>>
         /\ produced' = produced + 1 /\ produced' \in 1..MaxPackets
         /\ serial2tcp' \in Seq(1..MaxPackets) /\ Len(serial2tcp') <= cMaxBufferSize
         /\ Len(serial2tcp') <= produced'
         /\ \A i \in 1..Len(serial2tcp') : serial2tcp'[i] = Taken' + i
         /\ \/ Taken' = Taken /\ dropped' = dropped
            \/ Taken' = Taken + 1 /\ dropped' = dropped \cup {Taken'}
         /\ Taken' \in 0..MaxPackets
<1>1. /\ serial2tcp \in Seq(1..MaxPackets) /\ Len(serial2tcp) <= cMaxBufferSize
      /\ produced \in 0..MaxPackets /\ Len(serial2tcp) <= produced
      /\ \A i \in 1..Len(serial2tcp) : serial2tcp[i] = Taken + i
      /\ Taken = produced - Len(serial2tcp)
  BY Types DEF IndInv, BoundsInv, BufferTypes, OrderInv, Taken
<1>2. /\ ~cancelled
      /\ UNCHANGED <<conn, peer, data, greeted, arrived, accepted, count, FDs, pipe, server,
                     reader, writer, cancelled, received, reused, raced, failed>>
      /\ produced' = produced + 1 /\ produced < MaxPackets
      /\ \/ /\ Len(serial2tcp) >= cMaxBufferSize
            /\ serial2tcp' = Append(Tail(serial2tcp), produced + 1)
            /\ dropped' = dropped \cup {Head(serial2tcp)}
         \/ /\ Len(serial2tcp) < cMaxBufferSize
            /\ serial2tcp' = Append(serial2tcp, produced + 1) /\ dropped' = dropped
  <2>1. Len(serial2tcp) \in Nat
    BY <1>1
  <2>. QED
    BY <2>1, Sizes DEF SerialReads, isFull, enqueueBack, osVars, infoVars
<1>3. produced + 1 \in 1..MaxPackets
  BY <1>1, <1>2, Sizes
<1>4. CASE Len(serial2tcp) >= cMaxBufferSize
  <2>1. serial2tcp # <<>>
    BY <1>4, Sizes
  <2>2. Head(serial2tcp) = Taken + 1
    BY <1>1, <2>1
  <2>3. serial2tcp' = Append(Tail(serial2tcp), produced + 1)
    BY <1>1, <1>2, <1>4, Sizes
  <2>4. /\ serial2tcp' \in Seq(1..MaxPackets)
        /\ Len(serial2tcp') = Len(serial2tcp)
        /\ \A i \in 1..(Len(serial2tcp) - 1) : serial2tcp'[i] = serial2tcp[i + 1]
        /\ serial2tcp'[Len(serial2tcp)] = produced + 1
    BY <1>1, <1>3, <2>1, <2>3, FirstReplaced
  <2>5. Taken' = Taken + 1 /\ Taken' \in 0..MaxPackets
    <3>1. Len(serial2tcp) \in Nat /\ Len(serial2tcp) > 0
      BY <1>1, <1>4, Sizes
    <3>2. produced' - Len(serial2tcp') = Taken + 1 /\ Taken + 1 \in 0..MaxPackets
      BY <1>1, <1>2, <2>4, <3>1, Sizes
    <3>. QED
      BY <3>2 DEF Taken
  <2>6. \A i \in 1..Len(serial2tcp') : serial2tcp'[i] = Taken' + i
    <3>. SUFFICES ASSUME NEW i \in 1..Len(serial2tcp')
                  PROVE  serial2tcp'[i] = Taken' + i
      OBVIOUS
    <3>1. Len(serial2tcp) \in Nat /\ Taken \in Int
      BY <1>1
    <3>2. CASE i = Len(serial2tcp)
      BY <1>1, <2>4, <2>5, <3>1, <3>2
    <3>3. CASE i < Len(serial2tcp)
      <4>1. serial2tcp'[i] = serial2tcp[i + 1]
        BY <2>4, <3>1, <3>3
      <4>2. serial2tcp[i + 1] = Taken + (i + 1)
        BY <1>1, <3>1, <3>3
      <4>. QED
        BY <2>5, <3>1, <4>1, <4>2
    <3>. QED
      BY <2>4, <3>1, <3>2, <3>3
  <2>7. dropped' = dropped \cup {Taken'}
    BY <1>1, <1>2, <1>4, <2>2, <2>5, Sizes
  <2>. QED
    BY <1>1, <1>2, <1>3, <2>4, <2>5, <2>6, <2>7
<1>5. CASE Len(serial2tcp) < cMaxBufferSize
  <2>1. /\ serial2tcp' \in Seq(1..MaxPackets)
        /\ Len(serial2tcp') = Len(serial2tcp) + 1
        /\ \A i \in 1..Len(serial2tcp) : serial2tcp'[i] = serial2tcp[i]
        /\ serial2tcp'[Len(serial2tcp) + 1] = produced + 1
    <3>1. serial2tcp' = Append(serial2tcp, produced + 1)
      BY <1>1, <1>2, <1>5, Sizes
    <3>. QED
      BY <1>1, <1>3, <3>1, AppendProperties
  <2>2. Taken' = Taken /\ Taken' \in 0..MaxPackets
    <3>1. Len(serial2tcp) \in Nat
      BY <1>1
    <3>2. produced' - Len(serial2tcp') = Taken /\ Taken \in 0..MaxPackets
      BY <1>1, <1>2, <2>1, <3>1, Sizes
    <3>. QED
      BY <3>2 DEF Taken
  <2>3. \A i \in 1..Len(serial2tcp') : serial2tcp'[i] = Taken' + i
    BY <1>1, <2>1, <2>2
  <2>. QED
    BY <1>1, <1>2, <1>3, <1>5, <2>1, <2>2, <2>3, Sizes
<1>6. Len(serial2tcp) \in Nat
  BY <1>1
<1>. QED
  BY <1>4, <1>5, <1>6, Sizes

LEMMA SerialKeeps ==
  ASSUME IndInv, SerialReads
  PROVE  IndInv'
<1>. USE SerialReadsBuffer
<1>1. SystemTypes /\ ClientTypes /\ ReaderTypes /\ WriterTypes /\ BufferTypes /\ FlagTypes
  BY Types DEF IndInv, BoundsInv
<1>2. (SystemTypes /\ ClientTypes /\ ReaderTypes /\ WriterTypes /\ FlagTypes)'
  BY <1>1 DEF SystemTypes, ClientTypes, ReaderTypes, WriterTypes, FlagTypes
<1>3. Taken \in Nat /\ writer.packet \in Nat /\ \A k \in Connections : received[k] \in Nat
  BY <1>1, Sizes DEF Taken, IndInv, OrderInv, BoundsInv, BufferTypes, WriterTypes
<1>4. BufferTypes'
  <2>1. Taken' = Taken + 1 => Taken' \in 1..MaxPackets
    BY <1>3, Sizes
  <2>2. dropped' \subseteq 1..MaxPackets
    BY <1>1, <2>1 DEF BufferTypes
  <2>. QED
    BY <1>1, <2>2, Sizes DEF BufferTypes
<1>5. BoundsInv'
  BY <1>2, <1>4, TypesNext DEF IndInv, BoundsInv, Added
<1>6. ConnInv' /\ AwakeWithClients' /\ StopsOnlyIfRaced'
  BY <1>1, ConnKept, StopsKept DEF IndInv, Copied, AwakeWithClients
<1>7. OrderInv'
  BY <1>1, <1>3, Sizes DEF IndInv, OrderInv
<1>8. ~reused' => OpenInv'
  BY OpenKept DEF IndInv, Copied
<1>9. ASSUME ~reused' PROVE GapsInv'
  <2>1. GapsInv
    BY <1>9 DEF IndInv
  <2>2. \A i \in 1..Taken' : i \in 1..Taken \/ i \in dropped'
    BY <1>3
  <2>3. dropped \subseteq dropped'
    OBVIOUS
  <2>. QED
    BY <2>1, <2>2, <2>3 DEF GapsInv, Pending, Holding, Added
<1>. QED
  BY <1>5, <1>6, <1>7, <1>8, <1>9 DEF IndInv

-----------------------------------------------------------------------------
(* The server thread. *)
LEMMA AcceptKeeps ==
  ASSUME IndInv, Accept
  PROVE  IndInv'
<1>1. SystemTypes /\ ClientTypes /\ ReaderTypes /\ WriterTypes /\ BufferTypes /\ FlagTypes
  BY Types DEF IndInv, BoundsInv
<1>2. PICK fd \in Descriptors : /\ conn[fd] = NONE
                                /\ conn' = [conn EXCEPT ![fd] = accepted + 1]
                                /\ server' = [pc |-> "check", fd |-> fd]
  BY DEF Accept
<1>3. /\ accepted' = accepted + 1 /\ accepted < arrived /\ server.pc = "accept" /\ ~cancelled
      /\ UNCHANGED <<peer, data, greeted, arrived, count, FDs, pipe, reader, writer, serial2tcp,
                     produced, dropped, cancelled, received, reused, raced, failed>>
  BY DEF Accept, infoVars, bufferVars
<1>4. /\ accepted \in Nat /\ accepted' \in Connections /\ accepted' \in 0..arrived
      /\ accepted' # NONE
  BY <1>1, <1>3, Constants DEF SystemTypes
<1>5. /\ conn' \in [Descriptors -> Connections \cup {NONE}]
      /\ conn'[fd] = accepted'
      /\ \A other \in Descriptors \ {fd} : conn'[other] = conn[other]
  BY <1>1, <1>2, <1>3, <1>4 DEF SystemTypes
<1>6. BoundsInv'
  <2>1. SystemTypes'
    BY <1>1, <1>3, <1>4, <1>5 DEF SystemTypes
  <2>2. ClientTypes'
    BY <1>1, <1>2, <1>3 DEF ClientTypes
  <2>3. (ReaderTypes /\ WriterTypes /\ BufferTypes /\ FlagTypes)'
    BY <1>1, <1>3 DEF ReaderTypes, WriterTypes, BufferTypes, FlagTypes
  <2>4. count <= accepted /\ count \in Nat
    BY <1>1, Constants DEF IndInv, BoundsInv, ClientTypes
  <2>5. count' <= accepted' /\ count' < accepted'
    BY <1>3, <1>4, <2>4
  <2>. QED
    BY <1>3, <2>1, <2>2, <2>3, <2>5, TypesNext DEF IndInv, BoundsInv, Added
<1>7. \A other \in Descriptors : conn[other] <= accepted /\ conn[other] \in Nat
  BY <1>1, Constants DEF IndInv, ConnInv, SystemTypes
<1>8. Copied \subseteq Copies /\ Copied' = Copied /\ UNCHANGED reader /\ UNCHANGED writer
  BY <1>1, <1>3 DEF Copied, ReaderTypes, WriterTypes
<1>9. \A p \in Copied : /\ p[1] \in Descriptors /\ p[2] \in Nat /\ p[2] <= accepted
                        /\ p[2] # accepted'
  BY <1>3, <1>4, <1>8, CopyParts, Constants DEF IndInv, ConnInv
<1>10. ConnInv'
  <2>1. \A other \in Descriptors : conn'[other] <= accepted'
    BY <1>3, <1>4, <1>5, <1>7
  <2>2. \A one, other \in Descriptors :
          conn'[one] = conn'[other] /\ conn'[one] # NONE => one = other
    BY <1>3, <1>4, <1>5, <1>7 DEF IndInv, ConnInv
  <2>3. \A p \in Copied : p[2] <= accepted'
    BY <1>3, <1>4, <1>9
  <2>4. \A p \in Copied : p[2] # NONE =>
          \A other \in Descriptors : conn'[other] = p[2] => other = p[1]
    BY <1>5, <1>9 DEF IndInv, ConnInv
  <2>. QED
    BY <1>8, <2>1, <2>2, <2>3, <2>4 DEF ConnInv
<1>11. ASSUME ~reused' PROVE OpenInv'
  <2>1. OpenInv
    BY <1>3, <1>11 DEF IndInv
  <2>2. server'.fd = fd /\ fd \notin FDs
    BY <1>2, <2>1 DEF OpenInv
  <2>3. \A p \in Copied : /\ p[2] # NONE
                          /\ conn'[p[1]] = p[2] => p[1] \in FDs
    BY <1>5, <1>9, <2>1 DEF OpenInv
  <2>4. reader.pc = "select" /\ ~raced => \A p \in reader.set : conn'[p[1]] = p[2]
    BY <1>2, <1>5, <1>9, <2>1 DEF OpenInv, Copied
  <2>5. \A other \in FDs : conn'[other] # NONE
    BY <1>1, <1>5, <2>1, <2>2 DEF OpenInv, ClientTypes
  <2>. QED
    BY <1>3, <1>5, <1>8, <1>9, <2>1, <2>2, <2>3, <2>4, <2>5 DEF OpenInv
<1>12. ASSUME ~reused' PROVE GapsInv'
  <2>1. GapsInv /\ OpenInv
    BY <1>3, <1>12 DEF IndInv
  <2>2. \A other \in FDs : other \in Descriptors \ {fd}
    BY <1>1, <1>2, <2>1 DEF OpenInv, ClientTypes
  <2>3. \A k \in Connections : k > accepted' \/ k = accepted' => k > accepted
    BY <1>3, <1>4, Constants
  <2>. QED
    BY <1>3, <1>5, <2>1, <2>2, <2>3 DEF GapsInv, Pending, Holding, Added, Taken
<1>13. OrderInv' /\ AwakeWithClients' /\ StopsOnlyIfRaced'
  BY <1>3, OrderKept, StopsKept DEF IndInv, AwakeWithClients
<1>. QED
  BY <1>6, <1>10, <1>11, <1>12, <1>13 DEF IndInv

(* A descriptor that is closed has no connection; the others keep theirs.  *)
LEMMA Closed ==
  ASSUME SystemTypes, NEW fd \in Descriptors, Close(fd), UNCHANGED <<greeted, arrived, accepted>>
  PROVE  /\ SystemTypes'
         /\ conn'[fd] = NONE
         /\ \A other \in Descriptors \ {fd} : conn'[other] = conn[other]
<1>1. conn' = [conn EXCEPT ![fd] = NONE]
  BY DEF Close
<1>2. conn' \in [Descriptors -> Connections \cup {NONE}]
  BY <1>1 DEF SystemTypes
<1>3. peer' \in [Connections -> {"idle", "up", "gone"}]
  BY DEF Close, SystemTypes
<1>4. data' \in [Connections -> {"none", "hello", "garbage", "part", "packet"}]
  BY DEF Close, SystemTypes
<1>. QED
  BY <1>1, <1>2, <1>3, <1>4 DEF SystemTypes

LEMMA ClosedConn ==
  ASSUME SystemTypes, ConnInv, NEW fd \in Descriptors, Close(fd), accepted' = accepted,
         Copied \subseteq Copies, Copied' \subseteq Copied
  PROVE  ConnInv'
<1>1. \A other \in Descriptors : conn'[other] # NONE => conn'[other] = conn[other]
  BY DEF Close, SystemTypes
<1>2. \A other \in Descriptors : conn'[other] <= accepted'
  <2>1. NONE <= accepted
    BY Constants DEF SystemTypes
  <2>. QED
    BY <1>1, <2>1 DEF ConnInv
<1>3. \A p \in Copied : p[2] # NONE => \A other \in Descriptors : conn'[other] = p[2] => other = p[1]
  BY <1>1 DEF ConnInv
<1>. QED
  BY <1>1, <1>2, <1>3 DEF ConnInv

LEMMA VersionCheckKeeps ==
  ASSUME IndInv, VersionCheck
  PROVE  IndInv'
<1>1. SystemTypes /\ ClientTypes /\ ReaderTypes /\ WriterTypes /\ BufferTypes /\ FlagTypes
  BY Types DEF IndInv, BoundsInv
<1>2. /\ ~cancelled /\ server.pc = "check"
      /\ UNCHANGED <<greeted, arrived, accepted, count, FDs, pipe, reader, writer, serial2tcp,
                     produced, dropped, cancelled, received, reused, raced, failed>>
  BY DEF VersionCheck, infoVars, bufferVars
<1>3. \/ /\ server' = [server EXCEPT !.pc = "add"]
         /\ data' = [data EXCEPT ![accepted] = "none"]
         /\ UNCHANGED <<conn, peer>>
      \/ /\ server' = [server EXCEPT !.pc = "accept"]
         /\ Close(server.fd)
  BY DEF VersionCheck
<1>4. /\ server.fd \in Descriptors
      /\ server'.fd = server.fd
      /\ ClientTypes'
  BY <1>1, <1>2, <1>3 DEF ClientTypes
<1>5. SystemTypes'
  <2>1. CASE Close(server.fd)
    BY <1>1, <1>2, <1>4, <2>1, Closed
  <2>2. CASE data' = [data EXCEPT ![accepted] = "none"] /\ UNCHANGED <<conn, peer>>
    BY <1>1, <1>2, <2>2 DEF SystemTypes
  <2>. QED
    BY <1>3, <2>1, <2>2
<1>6. BoundsInv'
  <2>1. (ReaderTypes /\ WriterTypes /\ BufferTypes /\ FlagTypes)'
    BY <1>1, <1>2 DEF ReaderTypes, WriterTypes, BufferTypes, FlagTypes
  <2>2. count < accepted /\ count <= accepted
    BY <1>2 DEF IndInv, BoundsInv, Added
  <2>. QED
    BY <1>2, <1>4, <1>5, <2>1, <2>2, TypesNext DEF IndInv, BoundsInv
<1>7. Copied \subseteq Copies /\ Copied' = Copied /\ UNCHANGED reader /\ UNCHANGED writer
  BY <1>1, <1>2 DEF Copied, ReaderTypes, WriterTypes
<1>8. ConnInv'
  BY <1>1, <1>2, <1>3, <1>4, <1>7, ClosedConn, ConnKept DEF IndInv
<1>9. OrderInv' /\ AwakeWithClients' /\ StopsOnlyIfRaced'
  BY <1>2, OrderKept, StopsKept DEF IndInv, AwakeWithClients
<1>10. ASSUME ~reused' PROVE OpenInv' /\ GapsInv'
  <2>1. OpenInv /\ GapsInv
    BY <1>2, <1>10 DEF IndInv
  <2>2. conn[server.fd] = accepted /\ server.fd \notin FDs /\ FDs \subseteq Descriptors
    BY <1>1, <1>2, <2>1 DEF OpenInv, Added, ClientTypes
  <2>3. \A p \in Copied : p[1] \in Descriptors /\ p[2] # NONE /\ p[2] # accepted
    BY <1>2, <1>7, <2>1, CopyParts DEF OpenInv, Added
  <2>4. \/ conn' = conn
        \/ /\ server'.pc = "accept"
           /\ conn'[server.fd] = NONE
           /\ \A other \in Descriptors \ {server.fd} : conn'[other] = conn[other]
    BY <1>1, <1>2, <1>3, <1>4, Closed DEF ClientTypes
  <2>5. \A fd \in FDs : conn'[fd] = conn[fd]
    BY <2>2, <2>4
  <2>6. \A p \in Copied : conn'[p[1]] = p[2] <=> conn[p[1]] = p[2]
    BY <2>2, <2>3, <2>4
  <2>7. OpenInv'
    <3>1. server'.pc # "accept" => conn'[server.fd] = accepted
      BY <2>2, <2>4
    <3>2. reader.pc = "select" /\ ~raced => \A p \in reader.set : conn'[p[1]] = p[2]
      BY <2>1, <2>6 DEF OpenInv, Copied
    <3>. QED
      BY <1>2, <1>4, <1>7, <2>1, <2>2, <2>3, <2>5, <2>6, <3>1, <3>2 DEF OpenInv, Added
  <2>8. GapsInv'
    BY <1>2, <2>1, <2>5 DEF GapsInv, Pending, Holding, Added, Taken
  <2>. QED
    BY <2>7, <2>8
<1>. QED
  BY <1>6, <1>8, <1>9, <1>10 DEF IndInv

LEMMA AddClientKeeps ==
  ASSUME IndInv, AddClient
  PROVE  IndInv'
<1>1. SystemTypes /\ ClientTypes /\ ReaderTypes /\ WriterTypes /\ BufferTypes /\ FlagTypes
  BY Types DEF IndInv, BoundsInv
<1>2. /\ ~cancelled /\ server.pc = "add"
      /\ server' = [server EXCEPT !.pc = "accept"]
      /\ count' = count + 1 /\ FDs' = FDs \cup {server.fd} /\ pipe' = TRUE
      /\ UNCHANGED <<conn, peer, data, greeted, arrived, accepted, serial2tcp,
                     produced, dropped, cancelled, received, reused, raced, failed>>
  BY DEF AddClient, addClient, osVars, bufferVars
<1>3. /\ ReaderTypes' /\ WriterTypes'
      /\ reader'.set = reader.set /\ writer'.set = writer.set /\ writer'.packet = writer.packet
      /\ reader'.pc = reader.pc \/ (reader.pc = "asleep" /\ reader'.pc = "lock")
      /\ writer'.pc = writer.pc \/ (writer.pc = "asleep" /\ writer'.pc = "lock")
  <2>1. CASE count = 0
    BY <1>1, <2>1 DEF AddClient, addClient, Woken, ReaderTypes, WriterTypes
  <2>2. CASE count # 0
    BY <1>1, <2>2 DEF AddClient, addClient, ReaderTypes, WriterTypes
  <2>. QED
    BY <2>1, <2>2
<1>4. count = 0 => reader'.pc # "asleep" /\ writer'.pc # "asleep"
  BY <1>1 DEF AddClient, addClient, Woken, ReaderTypes, WriterTypes
<1>5. server.fd \in Descriptors /\ server'.pc = "accept"
  BY <1>1, <1>2 DEF ClientTypes
<1>6. /\ count < accepted /\ accepted <= MaxConnections /\ count \in Nat /\ accepted \in Nat
      /\ accepted \in Connections
  BY <1>1, <1>2, Constants DEF IndInv, BoundsInv, Added, SystemTypes, ClientTypes
<1>7. ClientTypes'
  <2>1. count + 1 \in 0..MaxConnections
    BY <1>6, Sizes
  <2>. QED
    BY <1>1, <1>2, <1>5, <2>1 DEF ClientTypes
<1>8. BoundsInv'
  <2>1. (SystemTypes /\ BufferTypes /\ FlagTypes)'
    BY <1>1, <1>2 DEF SystemTypes, BufferTypes, FlagTypes
  <2>2. count' <= accepted'
    BY <1>2, <1>6
  <2>. QED
    BY <1>2, <1>3, <1>5, <1>7, <2>1, <2>2, TypesNext DEF IndInv, BoundsInv, Added
<1>9. Copied' = Copied
  BY <1>3 DEF Copied
<1>10. ConnInv' /\ OrderInv' /\ StopsOnlyIfRaced'
  BY <1>2, <1>3, <1>9, ConnKept, OrderKept, StopsKept DEF IndInv
<1>11. AwakeWithClients'
  BY <1>3, <1>4, <1>6 DEF IndInv, AwakeWithClients
<1>12. ASSUME ~reused' PROVE OpenInv' /\ GapsInv'
  <2>1. OpenInv /\ GapsInv
    BY <1>2, <1>12 DEF IndInv
  <2>2. conn[server.fd] = accepted /\ server.fd \notin FDs
    BY <1>2, <2>1 DEF OpenInv, Added
  <2>3. Cardinality(FDs') = Cardinality(FDs) + 1
    BY <1>1, <1>2, <2>2, Counted, FS_AddElement DEF ClientTypes
  <2>4. accepted # NONE
    BY <1>6, Constants
  <2>5. OpenInv'
    BY <1>2, <1>3, <1>5, <1>9, <2>1, <2>2, <2>3, <2>4 DEF OpenInv, Added
  <2>6. received[accepted] = 0
    BY <1>2, <1>6, <2>1 DEF GapsInv, Added
  <2>7. \A fd \in FDs' : conn[fd] = accepted \/ fd \in FDs
    BY <1>2, <2>2
  <2>8. /\ writer'.pc \in {"copy", "send", "remove"} <=> writer.pc \in {"copy", "send", "remove"}
        /\ \A k : Pending(k) <=> Pending(k)'
    BY <1>3 DEF Pending
  <2>9. GapsInv'
    BY <1>2, <1>3, <1>5, <2>1, <2>6, <2>7, <2>8 DEF GapsInv, Holding, Added, Taken
  <2>. QED
    BY <2>5, <2>9
<1>. QED
  BY <1>8, <1>10, <1>11, <1>12 DEF IndInv

-----------------------------------------------------------------------------
(* removeClient(), by the reader or by the writer. *)

(* What it does to the buffer: nothing, or it is emptied.  What is taken   *)
(* out of it are the packets from Taken to produced.                       *)
LEMMA RemoveBuffer ==
  ASSUME IndInv, NEW p \in Copied, removeClient(p)
  PROVE  /\ serial2tcp' \in Seq(1..MaxPackets) /\ produced' = produced
         /\ OrderInv /\ Len(serial2tcp') <= produced'
         /\ \A i \in 1..Len(serial2tcp') : serial2tcp'[i] = Taken' + i
         /\ Taken \in Nat /\ Taken' \in Nat /\ Taken <= Taken'
         /\ count' # 0 => Taken' = Taken
         /\ BufferTypes /\ received' = received => BufferTypes'
         /\ dropped \subseteq dropped'
         /\ FDs' = {} => \A i \in 1..Taken' : i \in 1..Taken \/ i \in dropped'
<1>1. /\ serial2tcp \in Seq(1..MaxPackets) /\ Len(serial2tcp) <= cMaxBufferSize
      /\ produced \in 0..MaxPackets /\ Len(serial2tcp) <= produced
      /\ \A i \in 1..Len(serial2tcp) : serial2tcp[i] = Taken + i
      /\ Taken = produced - Len(serial2tcp) /\ OrderInv
  BY Types DEF IndInv, BoundsInv, BufferTypes, OrderInv, Taken
<1>2. /\ count' = 0 => serial2tcp' = <<>>
      /\ count' # 0 => serial2tcp' = serial2tcp
      /\ FDs' = {} => dropped' = dropped \cup Range(serial2tcp)
      /\ FDs' # {} => dropped' = dropped
      /\ produced' = produced
  BY DEF removeClient, ClearedByLast, clear
<1>3. Len(serial2tcp) \in Nat /\ Taken \in Nat /\ produced \in Nat
  BY <1>1, Sizes
<1>4. Range(serial2tcp) \subseteq 1..MaxPackets
  <2>1. \A i \in DOMAIN serial2tcp : serial2tcp[i] \in 1..MaxPackets
    BY <1>1, ElementOfSeq, LenProperties
  <2>. QED
    BY <2>1, Zenon DEF Range
<1>5. \A i \in (Taken + 1)..produced : i \in Range(serial2tcp)
  <2>1. ASSUME NEW i \in (Taken + 1)..produced PROVE i \in Range(serial2tcp)
    <3>1. i - Taken \in 1..Len(serial2tcp) /\ Taken + (i - Taken) = i
      BY <1>1, <1>3
    <3>2. serial2tcp[i - Taken] = i
      BY <1>1, <3>1
    <3>3. i - Taken \in DOMAIN serial2tcp
      BY <1>1, <3>1
    <3>. QED
      BY <3>2, <3>3, Zenon DEF Range
  <2>. QED
    BY <2>1
<1>6. \/ serial2tcp' = <<>> /\ Taken' = produced
      \/ serial2tcp' = serial2tcp /\ Taken' = Taken /\ count' # 0
  <2>1. Len(<<>>) = 0
    OBVIOUS
  <2>. QED
    BY <1>2, <1>3, <2>1 DEF Taken
<1>7. /\ serial2tcp' \in Seq(1..MaxPackets) /\ Len(serial2tcp') <= produced'
      /\ Len(serial2tcp') <= cMaxBufferSize
      /\ \A i \in 1..Len(serial2tcp') : serial2tcp'[i] = Taken' + i
  <2>1. CASE serial2tcp' = <<>>
    BY <1>2, <1>3, <2>1, Sizes
  <2>2. CASE serial2tcp' = serial2tcp /\ Taken' = Taken
    BY <1>1, <1>2, <2>2
  <2>. QED
    BY <1>6, <2>1, <2>2
<1>8. BufferTypes /\ received' = received => BufferTypes'
  BY <1>2, <1>4, <1>7 DEF BufferTypes
<1>9. dropped \subseteq dropped'
  BY <1>2
<1>10. FDs' = {} => \A i \in 1..Taken' : i \in 1..Taken \/ i \in dropped'
  BY <1>2, <1>3, <1>5, <1>6
<1>11. /\ Taken \in Nat /\ Taken' \in Nat /\ Taken <= Taken'
       /\ count' # 0 => Taken' = Taken
  BY <1>1, <1>2, <1>3, <1>6 DEF Taken
<1>. QED
  BY <1>1, <1>2, <1>7, <1>8, <1>9, <1>10, <1>11

(* What it does to the clients: as long as no descriptor was taken for     *)
(* another's, the one that is closed is that of the connection copied, and *)
(* the count stays right.                                                  *)
LEMMA RemoveClients ==
  ASSUME IndInv, NEW p \in Copied, removeClient(p)
  PROVE  /\ SystemTypes'
         /\ Copied' \subseteq Copied => ConnInv'
         /\ p[1] \in Descriptors
         /\ count' \in 0..MaxConnections /\ count' <= count /\ count \in Nat
         /\ FDs' \subseteq FDs /\ pipe' = TRUE /\ accepted' = accepted
         /\ \A fd \in Descriptors \ {p[1]} : conn'[fd] = conn[fd]
         /\ conn'[p[1]] \in {NONE, conn[p[1]]}
         /\ ~reused' => /\ ~reused
                        /\ conn[p[1]] \in {NONE, p[2]}
                        /\ count' = Cardinality(FDs')
                        /\ p[1] \notin FDs'
                        /\ FDs \ {p[1]} \subseteq FDs'
                        /\ count' = 0 => FDs' = {}
<1>1. SystemTypes /\ ClientTypes /\ ReaderTypes /\ WriterTypes
  BY Types DEF IndInv, BoundsInv
<1>2. Copied \subseteq Copies
  BY <1>1 DEF Copied, ReaderTypes, WriterTypes
<1>3. p[1] \in Descriptors
  BY <1>2, CopyParts
<1>4. /\ reused' = (reused \/ conn[p[1]] \notin {NONE, p[2]})
      /\ pipe' = TRUE
      /\ UNCHANGED <<greeted, arrived, accepted, produced>>
      /\ count > 0 => FDs' = FDs \ {p[1]} /\ Close(p[1])
      /\ count > 0 /\ conn[p[1]] # NONE => count' = count - 1
      /\ count > 0 /\ conn[p[1]] = NONE => count' = count
      /\ ~(count > 0) => UNCHANGED <<conn, peer, data, FDs, count>>
  BY DEF removeClient, Uses, Erased, CountedOut
<1>5. count \in Nat /\ count <= MaxConnections /\ FDs \subseteq Descriptors
  BY <1>1 DEF ClientTypes
<1>6. count' \in 0..MaxConnections /\ count' <= count /\ FDs' \subseteq FDs
  <2>1. FDs' \subseteq FDs
    BY <1>4
  <2>2. count' = count \/ (count > 0 /\ count' = count - 1)
    BY <1>4, <1>5
  <2>. QED
    BY <1>5, <2>1, <2>2, Sizes
<1>7. /\ SystemTypes'
      /\ \A fd \in Descriptors \ {p[1]} : conn'[fd] = conn[fd]
      /\ conn'[p[1]] \in {NONE, conn[p[1]]}
  <2>1. CASE count > 0
    BY <1>1, <1>3, <1>4, <2>1, Closed
  <2>2. CASE ~(count > 0)
    BY <1>1, <1>4, <2>2 DEF SystemTypes
  <2>. QED
    BY <2>1, <2>2
<1>8. Copied' \subseteq Copied => ConnInv'
  BY <1>1, <1>2, <1>3, <1>4, ClosedConn, ConnKept DEF IndInv
<1>9. ASSUME ~reused'
      PROVE  /\ ~reused
             /\ conn[p[1]] \in {NONE, p[2]}
             /\ count' = Cardinality(FDs')
             /\ p[1] \notin FDs'
             /\ FDs \ {p[1]} \subseteq FDs'
             /\ count' = 0 => FDs' = {}
  <2>1. ~reused /\ conn[p[1]] \in {NONE, p[2]}
    BY <1>4, <1>9
  <2>2. /\ count = Cardinality(FDs)
        /\ \A fd \in FDs : conn[fd] # NONE
        /\ p[2] # NONE /\ (conn[p[1]] = p[2] => p[1] \in FDs)
    BY <2>1 DEF IndInv, OpenInv
  <2>3. /\ IsFiniteSet(FDs) /\ (Cardinality(FDs) = 0 <=> FDs = {})
        /\ Cardinality(FDs \ {p[1]}) =
             IF p[1] \in FDs THEN Cardinality(FDs) - 1 ELSE Cardinality(FDs)
    BY <1>5, Counted, FS_RemoveElement
  <2>4. p[1] \in FDs <=> conn[p[1]] # NONE
    BY <2>1, <2>2
  <2>5. count' = Cardinality(FDs') /\ p[1] \notin FDs' /\ FDs \ {p[1]} \subseteq FDs'
    <3>1. CASE count > 0
      BY <1>4, <2>2, <2>3, <2>4, <3>1
    <3>2. CASE ~(count > 0)
      <4>1. FDs = {}
        BY <1>5, <2>2, <2>3, <3>2
      <4>. QED
        BY <1>4, <2>2, <3>2, <4>1
    <3>. QED
      BY <3>1, <3>2
  <2>6. Cardinality(FDs') = 0 <=> FDs' = {}
    <3>1. IsFiniteSet(FDs')
      BY <1>6, <2>3, FS_Subset
    <3>. QED
      BY <3>1, FS_EmptySet
  <2>. QED
    BY <2>1, <2>5, <2>6
<1>. QED
  BY <1>3, <1>4, <1>5, <1>6, <1>7, <1>8, <1>9

(* With what the thread does beside it: it goes on with the other copies.  *)
LEMMA RemoveKeeps ==
  ASSUME IndInv, NEW p \in Copied, removeClient(p),
         UNCHANGED <<server, cancelled, received>>, ~cancelled,
         (ReaderTypes /\ WriterTypes /\ FlagTypes)', Copied' \subseteq Copied,
         reader'.pc \in {"serve", "remove"} => reader'.set # {},
         reader'.pc = "asleep" => reader.pc = "asleep",
         reader'.pc = "select" /\ ~raced' => /\ reader.pc = "select" /\ ~raced
                                             /\ reader'.set = reader.set
                                             /\ \A q \in reader.set : q[1] # p[1],
         \/ writer' = writer
         \/ writer.pc = "remove" /\ writer' = Sending(writer.set \ {p})
  PROVE  IndInv'
<1>1. SystemTypes /\ ClientTypes /\ ReaderTypes /\ WriterTypes /\ BufferTypes /\ FlagTypes
  BY Types DEF IndInv, BoundsInv
<1>2. /\ serial2tcp' \in Seq(1..MaxPackets)
      /\ Len(serial2tcp') <= produced'
      /\ \A i \in 1..Len(serial2tcp') : serial2tcp'[i] = Taken' + i
      /\ Taken \in Nat /\ Taken' \in Nat /\ Taken <= Taken'
      /\ count' # 0 => Taken' = Taken
      /\ BufferTypes'
      /\ dropped \subseteq dropped'
      /\ FDs' = {} => \A i \in 1..Taken' : i \in 1..Taken \/ i \in dropped'
  BY <1>1, RemoveBuffer
<1>3. /\ SystemTypes' /\ ConnInv'
      /\ p[1] \in Descriptors
      /\ count' \in 0..MaxConnections /\ count' <= count /\ count \in Nat
      /\ FDs' \subseteq FDs /\ pipe' = TRUE /\ accepted' = accepted
      /\ \A fd \in Descriptors \ {p[1]} : conn'[fd] = conn[fd]
      /\ conn'[p[1]] \in {NONE, conn[p[1]]}
  BY RemoveClients
<1>4. ~reused' => /\ ~reused
                  /\ conn[p[1]] \in {NONE, p[2]}
                  /\ count' = Cardinality(FDs')
                  /\ p[1] \notin FDs'
                  /\ FDs \ {p[1]} \subseteq FDs'
                  /\ count' = 0 => FDs' = {}
  BY RemoveClients
<1>5. /\ writer'.pc \in {"send", "remove"} => writer'.set # {}
      /\ writer'.pc = "asleep" => writer.pc = "asleep"
      /\ writer'.pc = "copy" => writer.pc = "copy"
      /\ \/ writer' = writer
         \/ writer'.pc = "lock" /\ writer'.packet = 0 /\ writer'.set = {}
            /\ writer.pc = "remove" /\ writer.set \ {p} = {}
         \/ writer'.pc = "send" /\ writer'.packet = writer.packet
            /\ writer'.set = writer.set \ {p} /\ writer.pc = "remove"
  <2>1. CASE writer' = writer
    BY <2>1 DEF IndInv, BoundsInv
  <2>2. CASE writer' = Sending(writer.set \ {p}) /\ writer.pc = "remove"
    BY <2>2 DEF Sending
  <2>. QED
    BY <2>1, <2>2
<1>6. writer'.set \subseteq writer.set /\ (writer'.packet = writer.packet \/ writer'.packet = 0)
  BY <1>5
<1>7. BoundsInv'
  <2>1. ClientTypes'
    BY <1>1, <1>3 DEF ClientTypes
  <2>2. count' <= accepted' /\ (server'.pc # "accept" => count' < accepted')
    <3>1. accepted \in Nat
      BY <1>1 DEF SystemTypes
    <3>2. count <= accepted /\ (server.pc # "accept" => count < accepted)
      BY DEF IndInv, BoundsInv, Added
    <3>. QED
      BY <1>3, <3>1, <3>2
  <2>. QED
    BY <1>2, <1>3, <1>5, <2>1, <2>2, TypesNext DEF BoundsInv, Added
<1>8. OrderInv'
  <2>1. writer.packet \in Nat /\ \A k \in Connections : received[k] \in Nat
    BY <1>1, Sizes DEF WriterTypes, BufferTypes
  <2>2. writer.packet <= Taken /\ \A k \in Connections : received[k] <= Taken
    BY DEF IndInv, OrderInv
  <2>3. writer'.packet <= Taken' /\ \A k \in Connections : received'[k] <= Taken'
    BY <1>2, <1>6, <2>1, <2>2
  <2>4. writer'.pc = "copy" => \A k \in Connections : received'[k] < writer'.packet
    BY <1>5 DEF IndInv, OrderInv
  <2>. QED
    BY <1>2, <2>3, <2>4 DEF OrderInv
<1>9. AwakeWithClients' /\ StopsOnlyIfRaced'
  BY <1>3, <1>5, StopsKept DEF IndInv, AwakeWithClients
<1>10. ASSUME ~reused' PROVE OpenInv' /\ GapsInv'
  <2>1. OpenInv /\ GapsInv
    BY <1>4, <1>10 DEF IndInv
  <2>2. \A q \in Copied : q[1] \in Descriptors
    BY <1>1, CopyParts DEF Copied, ReaderTypes, WriterTypes
  <2>3. FDs \subseteq Descriptors /\ server.fd \in Descriptors
    BY <1>1 DEF ClientTypes
  <2>4. \A fd \in FDs' : fd \in FDs /\ fd # p[1] /\ conn'[fd] = conn[fd]
    BY <1>3, <1>4, <1>10, <2>3
  <2>5. OpenInv'
    <3>1. \A fd \in FDs' : conn'[fd] # NONE
      BY <2>1, <2>4 DEF OpenInv
    <3>2. server.pc # "accept" => conn'[server.fd] = accepted /\ server.fd \notin FDs'
      <4>1. server.pc # "accept" => /\ conn[server.fd] = accepted /\ server.fd \notin FDs
                                    /\ p[2] # accepted
        BY <2>1 DEF OpenInv, Added
      <4>2. server.pc # "accept" => accepted # NONE
        BY <1>1, Constants DEF IndInv, BoundsInv, Added, ClientTypes, SystemTypes
      <4>. QED
        BY <1>3, <1>4, <1>10, <2>3, <2>4, <4>1, <4>2
    <3>3. \A q \in Copied : conn'[q[1]] = q[2] => q[1] \in FDs'
      <4>1. \A q \in Copied : q[2] # NONE /\ (conn[q[1]] = q[2] => q[1] \in FDs)
        BY <2>1 DEF OpenInv
      <4>2. conn'[p[1]] = NONE
        <5>1. count > 0 => conn'[p[1]] = NONE
          BY <1>1, <1>3, Closed DEF removeClient
        <5>2. ~(count > 0) => conn'[p[1]] = conn[p[1]] /\ p[1] \notin FDs
          BY <1>1, <1>10, <2>1, Counted DEF removeClient, OpenInv, ClientTypes
        <5>. QED
          BY <1>4, <1>10, <4>1, <5>1, <5>2
      <4>. QED
        BY <1>3, <1>4, <1>10, <2>2, <4>1, <4>2
    <3>4. reader'.pc = "select" /\ ~raced' => \A q \in reader'.set : conn'[q[1]] = q[2]
      BY <1>3, <2>1, <2>2 DEF OpenInv, Copied
    <3>. QED
      BY <1>3, <1>4, <1>10, <2>1, <3>1, <3>2, <3>3, <3>4 DEF OpenInv, Added
  <2>6. GapsInv'
    <3>1. writer'.pc \in {"copy", "send", "remove"} =>
            writer.pc \in {"copy", "send", "remove"} /\ writer'.packet = writer.packet
      BY <1>5
    <3>2. \A q \in writer'.set : writer'.pc \in {"copy", "send", "remove"} =>
            received[q[2]] < writer'.packet
      BY <1>6, <2>1, <3>1 DEF GapsInv, Holding
    <3>3. FDs' = {} \/ Taken' = Taken
      BY <1>2, <1>4, <1>10
    <3>4. writer'.pc \in {"copy", "send", "remove"} =>
            \A i \in 1..Taken' : writer'.packet < i => i \in dropped'
      BY <1>2, <2>1, <3>1, <3>3 DEF GapsInv, Holding
    <3>5. ASSUME NEW fd \in FDs', Pending(conn[fd])
          PROVE  /\ writer'.packet = writer.packet
                 /\ \/ writer'.pc = "copy"
                    \/ /\ writer'.pc \in {"send", "remove"}
                       /\ \E q \in writer'.set : q[2] = conn[fd]
      <4>1. p[2] # conn[fd]
        <5>1. conn[fd] # NONE /\ fd \in Descriptors /\ fd # p[1]
          BY <2>1, <2>3, <2>4 DEF OpenInv
        <5>. QED
          BY <5>1 DEF IndInv, ConnInv
      <4>2. CASE writer' = writer
        BY <3>5, <4>2 DEF Pending
      <4>3. CASE writer' # writer
        <5>1. writer.pc = "remove" /\ \E q \in writer.set \ {p} : q[2] = conn[fd]
          BY <1>5, <3>5, <4>1, <4>3 DEF Pending
        <5>. QED
          BY <1>5, <4>3, <5>1
      <4>. QED
        BY <4>2, <4>3
    <3>6. ASSUME NEW fd \in FDs', received[conn[fd]] # 0,
                 NEW i \in 1..Taken', received[conn[fd]] < i
          PROVE  \/ i \in dropped'
                 \/ /\ i = writer'.packet
                    /\ \/ writer'.pc = "copy"
                       \/ /\ writer'.pc \in {"send", "remove"}
                          /\ \E q \in writer'.set : q[2] = conn[fd]
      <4>1. fd \in FDs /\ Taken' = Taken
        BY <2>4, <3>3, <3>6
      <4>2. i \in dropped \/ (i = writer.packet /\ Pending(conn[fd]))
        BY <2>1, <3>6, <4>1 DEF GapsInv
      <4>. QED
        BY <1>2, <3>5, <4>2
    <3>7. \A k \in Connections :
            k > accepted' \/ (k = accepted' /\ server'.pc # "accept") => received'[k] = 0
      BY <1>3, <2>1 DEF GapsInv, Added
    <3>. QED
      BY <2>4, <3>2, <3>4, <3>6, <3>7 DEF GapsInv, Holding, Added, Pending
  <2>. QED
    BY <2>5, <2>6
<1>. QED
  BY <1>3, <1>7, <1>8, <1>9, <1>10 DEF IndInv

-----------------------------------------------------------------------------
(* The reader thread. *)

(* What a step keeps that leaves the clients and the buffer alone, and     *)
(* gives the reader, at most, copies it has already; the server and the    *)
(* writer do not see it.                                                   *)
LEMMA OnlyReader ==
  ASSUME IndInv, ~cancelled', (SystemTypes /\ ReaderTypes /\ FlagTypes)', pipe' \in BOOLEAN,
         UNCHANGED <<conn, accepted, count, FDs, server, writer, serial2tcp, produced,
                     dropped, received>>,
         Copied' \subseteq Copied, ~reused' => ~reused,
         reader'.pc \in {"serve", "remove"} => reader'.set # {},
         reader'.pc = "asleep" => count = 0, reader'.pc # "select"
  PROVE  IndInv'
<1>1. SystemTypes /\ ClientTypes /\ ReaderTypes /\ WriterTypes /\ BufferTypes /\ FlagTypes
  BY Types DEF IndInv, BoundsInv
<1>2. BoundsInv'
  <2>1. (ClientTypes /\ WriterTypes /\ BufferTypes)'
    BY <1>1 DEF ClientTypes, WriterTypes, BufferTypes
  <2>. QED
    BY <2>1, TypesNext DEF IndInv, BoundsInv, Added
<1>3. ConnInv' /\ OrderInv' /\ AwakeWithClients' /\ StopsOnlyIfRaced'
  BY <1>1, ConnKept, OrderKept, StopsKept DEF IndInv, AwakeWithClients, ClientTypes
<1>4. ~reused' => OpenInv' /\ GapsInv'
  BY OpenKept, GapsKept DEF IndInv
<1>. QED
  BY <1>2, <1>3, <1>4 DEF IndInv

(* The copies that are left when one has been served. *)
LEMMA ReaderGoesOn ==
  ASSUME ReaderTypes, reader' = NextToServe
  PROVE  /\ ReaderTypes' /\ reader'.set \subseteq reader.set
         /\ reader'.pc \in {"lock", "serve"}
         /\ reader'.pc = "serve" => reader'.set # {}
  BY DEF NextToServe, Serving, ReaderTypes

(* The copy that is served or removed. *)
LEMMA ReaderHasOne ==
  ASSUME IndInv, reader.pc \in {"serve", "remove"}
  PROVE  /\ Lowest(reader.set) \in reader.set
         /\ Lowest(reader.set) \in Copied
         /\ Lowest(reader.set)[1] \in Descriptors
<1>1. reader.set # {} /\ reader.set \subseteq Copies
  BY Types DEF IndInv, BoundsInv, ReaderTypes
<1>. QED
  BY <1>1, LowestIsOne DEF Copied

LEMMA SelectReturnsKeeps ==
  ASSUME IndInv, SelectReturns
  PROVE  IndInv'
<1>1. SystemTypes /\ ClientTypes /\ ReaderTypes /\ WriterTypes /\ BufferTypes /\ FlagTypes
  BY Types DEF IndInv, BoundsInv
<1>2. /\ ~cancelled /\ pipe' = FALSE /\ reader' = Serving(Readable)
      /\ UNCHANGED <<conn, peer, data, greeted, arrived, accepted, count, FDs, server, writer,
                     serial2tcp, produced, dropped, cancelled, received, reused, raced, failed>>
  BY DEF SelectReturns, osVars, bufferVars
<1>3. Readable \subseteq reader.set
  BY DEF Readable
<1>4. /\ ReaderTypes' /\ reader'.set \subseteq reader.set
      /\ reader'.pc \in {"lock", "serve"} /\ (reader'.pc = "serve" => reader'.set # {})
  BY <1>1, <1>2, <1>3 DEF Serving, ReaderTypes
<1>5. (SystemTypes /\ FlagTypes)' /\ Copied' \subseteq Copied
  BY <1>1, <1>2, <1>4 DEF SystemTypes, FlagTypes, Copied
<1>. QED
  BY <1>2, <1>4, <1>5, OnlyReader

LEMMA ReadPacketKeeps ==
  ASSUME IndInv, ReadPacket
  PROVE  IndInv'
<1>1. SystemTypes /\ ClientTypes /\ ReaderTypes /\ WriterTypes /\ BufferTypes /\ FlagTypes
  BY Types DEF IndInv, BoundsInv
<1>. DEFINE p == Lowest(reader.set)
            k == conn[p[1]]
<1>2. /\ ~cancelled /\ reader.pc = "serve"
      /\ reused' = (reused \/ conn[p[1]] \notin {NONE, p[2]})
      /\ reader' = NextToServe \/ reader' = [reader EXCEPT !.pc = "remove"]
      /\ \/ data' = [data EXCEPT ![k] = "none"]
         \/ data' = [data EXCEPT ![k] = "garbage"]
         \/ data' = data
      /\ UNCHANGED <<conn, peer, greeted, arrived, accepted, count, FDs, pipe, server, writer,
                     serial2tcp, produced, dropped, cancelled, received, raced, failed>>
  BY DEF ReadPacket, Uses, infoVars, bufferVars
<1>3. reader.set # {}
  BY <1>2 DEF IndInv, BoundsInv
<1>4. /\ ReaderTypes' /\ reader'.set \subseteq reader.set
      /\ reader'.pc \in {"lock", "serve", "remove"}
      /\ reader'.pc \in {"serve", "remove"} => reader'.set # {}
  <2>1. CASE reader' = NextToServe
    BY <1>1, <2>1, ReaderGoesOn
  <2>2. CASE reader' = [reader EXCEPT !.pc = "remove"]
    BY <1>1, <1>3, <2>2 DEF ReaderTypes
  <2>. QED
    BY <1>2, <2>1, <2>2
<1>5. (SystemTypes /\ FlagTypes)'
  <2>1. data' \in [Connections -> {"none", "hello", "garbage", "part", "packet"}]
    BY <1>1, <1>2 DEF SystemTypes
  <2>2. reused' \in BOOLEAN
    BY <1>2
  <2>. QED
    BY <1>1, <1>2, <2>1, <2>2 DEF SystemTypes, FlagTypes
<1>6. Copied' \subseteq Copied
  BY <1>2, <1>4 DEF Copied
<1>7. pipe' \in BOOLEAN /\ (~reused' => ~reused)
  BY <1>1, <1>2 DEF ClientTypes
<1>. QED
  BY <1>2, <1>4, <1>5, <1>6, <1>7, OnlyReader

LEMMA ReaderRemovesKeeps ==
  ASSUME IndInv, ReaderRemoves
  PROVE  IndInv'
<1>1. SystemTypes /\ ClientTypes /\ ReaderTypes /\ WriterTypes /\ BufferTypes /\ FlagTypes
  BY Types DEF IndInv, BoundsInv
<1>2. /\ ~cancelled /\ reader.pc = "remove" /\ removeClient(Lowest(reader.set))
      /\ reader' = NextToServe
      /\ UNCHANGED <<server, writer, cancelled, received, raced, failed>>
  BY DEF ReaderRemoves
<1>3. /\ ReaderTypes' /\ reader'.set \subseteq reader.set
      /\ reader'.pc \in {"lock", "serve"} /\ (reader'.pc = "serve" => reader'.set # {})
  BY <1>1, <1>2, ReaderGoesOn
<1>4. (WriterTypes /\ FlagTypes)' /\ Copied' \subseteq Copied
  BY <1>1, <1>2, <1>3 DEF WriterTypes, FlagTypes, Copied, removeClient, Uses
<1>5. Lowest(reader.set) \in Copied
  BY <1>2, ReaderHasOne
<1>. QED
  BY <1>2, <1>3, <1>4, <1>5, RemoveKeeps

(* New copies are of connections open at no other descriptor. *)
LEMMA NewCopies ==
  ASSUME IndInv, NEW fds, fds \subseteq Descriptors
  PROVE  \A p \in CopyOf(fds) :
           /\ p \in Copies /\ p[1] \in fds /\ p[2] = conn[p[1]] /\ p[2] <= accepted
           /\ p[2] # NONE => \A fd \in Descriptors : conn[fd] = p[2] => fd = p[1]
<1>1. SystemTypes
  BY Types DEF IndInv, BoundsInv
<1>2. \A p \in CopyOf(fds) : p \in Copies /\ p[1] \in fds /\ p[2] = conn[p[1]]
  BY <1>1, CopyOfSet DEF SystemTypes
<1>. QED
  BY <1>2 DEF IndInv, ConnInv

LEMMA SelectKeeps ==
  ASSUME IndInv, Select
  PROVE  IndInv'
<1>1. SystemTypes /\ ClientTypes /\ ReaderTypes /\ WriterTypes /\ BufferTypes /\ FlagTypes
  BY Types DEF IndInv, BoundsInv
<1>. DEFINE fds == {p[1] : p \in reader.set}
<1>2. /\ ~cancelled /\ reader.pc = "select"
      /\ UNCHANGED <<conn, peer, data, greeted, arrived, accepted, count, FDs, pipe, server,
                     writer, serial2tcp, produced, dropped, received, raced, failed>>
  BY DEF Select, osVars, infoVars, bufferVars
<1>3. \/ /\ \E p \in reader.set : conn[p[1]] = NONE
         /\ cancelled' = TRUE /\ reader' = reader /\ reused' = reused
      \/ /\ \A p \in reader.set : conn[p[1]] # NONE
         /\ reader' = [pc |-> "selecting", set |-> CopyOf(fds)]
         /\ reused' = (reused \/ reader'.set # reader.set)
         /\ cancelled' = cancelled
  BY DEF Select
<1>4. CASE /\ \E p \in reader.set : conn[p[1]] = NONE
           /\ cancelled' = TRUE /\ reader' = reader /\ reused' = reused
  <2>1. raced \/ reused
    BY <1>2, <1>4 DEF IndInv, OpenInv, Copied
  <2>2. BoundsInv'
    <3>1. (SystemTypes /\ ClientTypes /\ ReaderTypes /\ WriterTypes /\ BufferTypes /\ FlagTypes)'
      BY <1>1, <1>2, <1>4
         DEF SystemTypes, ClientTypes, ReaderTypes, WriterTypes, BufferTypes, FlagTypes
    <3>. QED
      BY <1>2, <1>4, <3>1, TypesNext DEF IndInv, BoundsInv, Added
  <2>3. ConnInv' /\ OrderInv' /\ AwakeWithClients' /\ StopsOnlyIfRaced'
    BY <1>2, <1>4, <2>1, ConnKept, OrderKept DEF IndInv, Copied, AwakeWithClients, StopsOnlyIfRaced
  <2>4. ~reused' => OpenInv' /\ GapsInv'
    BY <1>2, <1>4, OpenKept, GapsKept DEF IndInv, Copied
  <2>. QED
    BY <2>2, <2>3, <2>4 DEF IndInv
<1>5. CASE /\ \A p \in reader.set : conn[p[1]] # NONE
           /\ reader' = [pc |-> "selecting", set |-> CopyOf(fds)]
           /\ reused' = (reused \/ reader'.set # reader.set)
           /\ cancelled' = cancelled
  <2>1. fds \subseteq Descriptors
    BY <1>1, CopyParts DEF ReaderTypes
  <2>2. reader'.set = CopyOf(fds) /\ reader'.pc = "selecting"
    BY <1>5
  <2>. HIDE DEF fds
  <2>3. \A p \in reader'.set :
          /\ p \in Copies /\ p[2] <= accepted
          /\ p[2] # NONE => \A fd \in Descriptors : conn[fd] = p[2] => fd = p[1]
    BY <2>1, <2>2, NewCopies
  <2>4. ReaderTypes'
    BY <1>5, <2>2, <2>3 DEF ReaderTypes
  <2>5. BoundsInv'
    <3>1. (SystemTypes /\ ClientTypes /\ WriterTypes /\ BufferTypes /\ FlagTypes)'
      BY <1>1, <1>2, <1>5 DEF SystemTypes, ClientTypes, WriterTypes, BufferTypes, FlagTypes
    <3>. QED
      BY <1>2, <2>2, <2>4, <3>1, TypesNext DEF IndInv, BoundsInv, Added
  <2>6. ConnInv'
    BY <1>2, <2>3 DEF IndInv, ConnInv, Copied
  <2>7. OrderInv' /\ AwakeWithClients' /\ StopsOnlyIfRaced'
    BY <1>2, <1>5, <2>2, OrderKept, StopsKept DEF IndInv, AwakeWithClients
  <2>8. ASSUME ~reused' PROVE OpenInv' /\ GapsInv'
    <3>1. ~reused /\ reader'.set = reader.set
      BY <1>5, <2>8
    <3>2. Copied' = Copied
      BY <1>2, <3>1 DEF Copied
    <3>. QED
      BY <1>2, <2>2, <3>1, <3>2, OpenKept, GapsKept DEF IndInv
  <2>. QED
    BY <2>5, <2>6, <2>7, <2>8 DEF IndInv
<1>. QED
  BY <1>3, <1>4, <1>5

LEMMA CopyForReaderKeeps ==
  ASSUME IndInv, CopyForReader
  PROVE  IndInv'
<1>1. SystemTypes /\ ClientTypes /\ ReaderTypes /\ WriterTypes /\ BufferTypes /\ FlagTypes
  BY Types DEF IndInv, BoundsInv
<1>2. /\ ~cancelled /\ raced' = FALSE
      /\ UNCHANGED <<conn, peer, data, greeted, arrived, accepted, count, FDs, pipe, server,
                     writer, serial2tcp, produced, dropped, cancelled, received, reused, failed>>
  BY DEF CopyForReader, osVars, infoVars, bufferVars
<1>3. CASE count = 0
  <2>1. reader' = [reader EXCEPT !.pc = "asleep"]
    BY <1>3 DEF CopyForReader
  <2>2. ReaderTypes' /\ reader'.pc = "asleep" /\ reader'.set = reader.set
    BY <1>1, <2>1 DEF ReaderTypes
  <2>3. (SystemTypes /\ FlagTypes)' /\ Copied' \subseteq Copied /\ pipe' \in BOOLEAN
    BY <1>1, <1>2, <2>2 DEF SystemTypes, FlagTypes, Copied, ClientTypes
  <2>. QED
    BY <1>2, <1>3, <2>2, <2>3, OnlyReader
<1>4. CASE count # 0
  <2>1. reader' = [pc |-> "select", set |-> CopyOf(FDs)]
    BY <1>4 DEF CopyForReader
  <2>2. reader'.set = CopyOf(FDs) /\ reader'.pc = "select"
    BY <2>1
  <2>3. \A p \in reader'.set :
          /\ p \in Copies /\ p[1] \in FDs /\ p[2] = conn[p[1]] /\ p[2] <= accepted
          /\ p[2] # NONE => \A fd \in Descriptors : conn[fd] = p[2] => fd = p[1]
    BY <1>1, <2>2, NewCopies DEF ClientTypes
  <2>4. BoundsInv'
    <3>1. ReaderTypes'
      BY <2>1, <2>2, <2>3 DEF ReaderTypes
    <3>2. (SystemTypes /\ ClientTypes /\ WriterTypes /\ BufferTypes /\ FlagTypes)'
      BY <1>1, <1>2 DEF SystemTypes, ClientTypes, WriterTypes, BufferTypes, FlagTypes
    <3>. QED
      BY <1>2, <2>2, <3>1, <3>2, TypesNext DEF IndInv, BoundsInv, Added
  <2>5. ConnInv'
    BY <1>2, <2>3 DEF IndInv, ConnInv, Copied
  <2>6. OrderInv' /\ AwakeWithClients' /\ StopsOnlyIfRaced'
    BY <1>2, <2>2, OrderKept, StopsKept DEF IndInv, AwakeWithClients
  <2>7. ASSUME ~reused' PROVE OpenInv' /\ GapsInv'
    <3>1. OpenInv /\ GapsInv
      BY <1>2, <2>7 DEF IndInv
    <3>2. FDs \subseteq Descriptors /\ (~Added => server.fd \in Descriptors /\ accepted # NONE)
      BY <1>1, Constants DEF IndInv, BoundsInv, Added, ClientTypes, SystemTypes
    <3>3. \A p \in reader'.set : /\ p[2] # NONE /\ (~Added => p[2] # accepted)
                                 /\ conn[p[1]] = p[2]
      BY <2>3, <3>1, <3>2 DEF OpenInv
    <3>4. OpenInv'
      BY <1>2, <2>3, <3>1, <3>3 DEF OpenInv, Added, Copied
    <3>. QED
      BY <1>2, <3>1, <3>4, GapsKept
  <2>. QED
    BY <2>4, <2>5, <2>6, <2>7 DEF IndInv
<1>. QED
  BY <1>3, <1>4

-----------------------------------------------------------------------------
(* The writer thread. *)
LEMMA WriterHasOne ==
  ASSUME IndInv, writer.pc \in {"send", "remove"}
  PROVE  /\ Lowest(writer.set) \in writer.set
         /\ Lowest(writer.set) \in Copied
         /\ Lowest(writer.set)[1] \in Descriptors
<1>1. writer.set # {} /\ writer.set \subseteq Copies
  BY Types DEF IndInv, BoundsInv, WriterTypes
<1>. QED
  BY <1>1, LowestIsOne DEF Copied

(* The copies that are left when one has been sent the packet. *)
LEMMA WriterGoesOn ==
  ASSUME WriterTypes, NEW set, set \subseteq Copies, writer' = Sending(set), 0 \in 0..MaxPackets
  PROVE  /\ WriterTypes' /\ writer'.set = set
         /\ \/ writer'.pc = "lock" /\ writer'.packet = 0 /\ set = {}
            \/ writer'.pc = "send" /\ writer'.packet = writer.packet /\ set # {}
  BY DEF Sending, WriterTypes

(* What a step keeps that leaves the clients alone, and gives the writer,  *)
(* at most, copies it has already.                                         *)
LEMMA OnlyWriter ==
  ASSUME IndInv, ~cancelled', (WriterTypes /\ BufferTypes /\ FlagTypes)',
         serial2tcp' \in Seq(1..MaxPackets),
         UNCHANGED <<conn, peer, data, greeted, arrived, accepted, count, FDs, pipe, server, reader,
                     raced, failed>>,
         Copied' \subseteq Copied, ~reused' => ~reused,
         writer'.pc \in {"send", "remove"} => writer'.set # {},
         writer'.pc = "asleep" => count = 0
  PROVE  /\ BoundsInv' /\ ConnInv' /\ AwakeWithClients' /\ StopsOnlyIfRaced'
         /\ ~reused' => OpenInv'
<1>1. SystemTypes /\ ClientTypes /\ ReaderTypes /\ WriterTypes /\ BufferTypes /\ FlagTypes
  BY Types DEF IndInv, BoundsInv
<1>2. BoundsInv'
  <2>1. (SystemTypes /\ ClientTypes /\ ReaderTypes)'
    BY <1>1 DEF SystemTypes, ClientTypes, ReaderTypes
  <2>. QED
    BY <2>1, TypesNext DEF IndInv, BoundsInv, Added
<1>3. ConnInv' /\ AwakeWithClients' /\ StopsOnlyIfRaced'
  BY <1>1, ConnKept, StopsKept DEF IndInv, AwakeWithClients, ClientTypes
<1>4. ~reused' => OpenInv'
  BY OpenKept DEF IndInv
<1>. QED
  BY <1>2, <1>3, <1>4

LEMMA WriterLooksKeeps ==
  ASSUME IndInv, WriterLooks
  PROVE  IndInv'
<1>1. SystemTypes /\ ClientTypes /\ ReaderTypes /\ WriterTypes /\ BufferTypes /\ FlagTypes
  BY Types DEF IndInv, BoundsInv
<1>2. /\ ~cancelled /\ writer.pc = "lock"
      /\ writer' = [writer EXCEPT !.pc = IF count = 0 THEN "asleep" ELSE "dequeue"]
      /\ UNCHANGED <<conn, peer, data, greeted, arrived, accepted, count, FDs, pipe, server, reader,
                     serial2tcp, produced, dropped, cancelled, received, reused, raced, failed>>
  BY DEF WriterLooks, osVars, infoVars, bufferVars
<1>3. /\ WriterTypes' /\ writer'.set = writer.set /\ writer'.packet = writer.packet
      /\ writer'.pc \in {"asleep", "dequeue"} /\ (writer'.pc = "asleep" => count = 0)
  BY <1>1, <1>2 DEF WriterTypes
<1>4. (BufferTypes /\ FlagTypes)' /\ Copied' = Copied /\ serial2tcp' \in Seq(1..MaxPackets)
  BY <1>1, <1>2, <1>3 DEF BufferTypes, FlagTypes, Copied, IndInv, BoundsInv
<1>5. /\ BoundsInv' /\ ConnInv' /\ AwakeWithClients' /\ StopsOnlyIfRaced'
      /\ ~reused' => OpenInv'
  BY <1>2, <1>3, <1>4, OnlyWriter
<1>6. OrderInv'
  BY <1>2, <1>3, OrderKept DEF IndInv
<1>7. ASSUME ~reused' PROVE GapsInv'
  <2>1. GapsInv
    BY <1>2, <1>7 DEF IndInv
  <2>. QED
    BY <1>2, <1>3, <2>1 DEF GapsInv, Pending, Holding, Added, Taken
<1>. QED
  BY <1>5, <1>6, <1>7 DEF IndInv

(* The packet taken is the next one of those produced. *)
LEMMA WriterDequeuesBuffer ==
  ASSUME IndInv, WriterDequeues
  PROVE  /\ writer'.packet = Taken + 1 /\ writer'.packet \in 1..MaxPackets
         /\ Taken' = Taken + 1 /\ Taken \in Nat
         /\ serial2tcp' \in Seq(1..MaxPackets)
         /\ Len(serial2tcp') <= cMaxBufferSize /\ Len(serial2tcp') <= produced
         /\ \A i \in 1..Len(serial2tcp') : serial2tcp'[i] = Taken' + i
         /\ WriterTypes' /\ writer'.set = writer.set /\ writer'.pc = "copy"
<1>1. WriterTypes /\ BufferTypes
  BY Types DEF IndInv, BoundsInv
<1>2. /\ serial2tcp \in Seq(1..MaxPackets) /\ Len(serial2tcp) <= cMaxBufferSize
      /\ produced \in 0..MaxPackets /\ Len(serial2tcp) <= produced
      /\ \A i \in 1..Len(serial2tcp) : serial2tcp[i] = Taken + i
      /\ Taken = produced - Len(serial2tcp)
  BY <1>1 DEF IndInv, BoundsInv, BufferTypes, OrderInv, Taken
<1>3. /\ serial2tcp # <<>> /\ serial2tcp' = Tail(serial2tcp) /\ produced' = produced
      /\ writer' = [writer EXCEPT !.pc = "copy", !.packet = Head(serial2tcp)]
  BY DEF WriterDequeues, dequeue
<1>4. Len(serial2tcp) \in Nat /\ Len(serial2tcp) > 0 /\ Taken \in Nat /\ produced \in Nat
  BY <1>2, <1>3, Sizes
<1>5. Head(serial2tcp) = Taken + 1 /\ Head(serial2tcp) \in 1..MaxPackets
  <2>1. Head(serial2tcp) = serial2tcp[1]
    BY <1>2, <1>3
  <2>2. 1 \in 1..Len(serial2tcp)
    BY <1>4
  <2>3. Head(serial2tcp) = Taken + 1
    BY <1>2, <2>1, <2>2
  <2>4. Head(serial2tcp) \in 1..MaxPackets
    BY <1>2, <1>3, HeadTailProperties
  <2>. QED
    BY <2>3, <2>4
<1>6. /\ serial2tcp' \in Seq(1..MaxPackets)
      /\ Len(serial2tcp') = Len(serial2tcp) - 1
      /\ \A i \in 1..Len(serial2tcp') : serial2tcp'[i] = serial2tcp[i + 1]
  BY <1>2, <1>3, HeadTailProperties
<1>7. Taken' = Taken + 1
  <2>1. produced' - Len(serial2tcp') = Taken + 1
    BY <1>2, <1>3, <1>4, <1>6
  <2>. QED
    BY <2>1 DEF Taken
<1>8. /\ Len(serial2tcp') <= cMaxBufferSize /\ Len(serial2tcp') <= produced
  BY <1>2, <1>4, <1>6, Sizes
<1>9. ASSUME NEW i \in 1..Len(serial2tcp') PROVE serial2tcp'[i] = Taken' + i
  <2>1. i + 1 \in 1..Len(serial2tcp) /\ i \in Nat
    BY <1>4, <1>6
  <2>2. serial2tcp'[i] = Taken + (i + 1)
    BY <1>2, <1>6, <2>1
  <2>. QED
    BY <1>4, <1>7, <2>1, <2>2
<1>10. /\ WriterTypes' /\ writer'.set = writer.set /\ writer'.pc = "copy"
       /\ writer'.packet = Taken + 1
  <2>1. Taken + 1 \in 0..MaxPackets
    BY <1>4, <1>5
  <2>. QED
    BY <1>1, <1>3, <1>5, <2>1 DEF WriterTypes
<1>. QED
  BY <1>4, <1>5, <1>6, <1>7, <1>8, <1>9, <1>10

LEMMA WriterDequeuesKeeps ==
  ASSUME IndInv, WriterDequeues
  PROVE  IndInv'
<1>1. SystemTypes /\ ClientTypes /\ ReaderTypes /\ WriterTypes /\ BufferTypes /\ FlagTypes
  BY Types DEF IndInv, BoundsInv
<1>2. /\ ~cancelled /\ writer.pc = "dequeue"
      /\ UNCHANGED <<conn, peer, data, greeted, arrived, accepted, count, FDs, pipe, server, reader,
                     produced, dropped, cancelled, received, reused, raced, failed>>
  BY DEF WriterDequeues, osVars, infoVars
<1>3. /\ writer'.packet = Taken + 1 /\ Taken' = Taken + 1 /\ Taken \in Nat
      /\ serial2tcp' \in Seq(1..MaxPackets)
      /\ Len(serial2tcp') <= cMaxBufferSize /\ Len(serial2tcp') <= produced'
      /\ \A i \in 1..Len(serial2tcp') : serial2tcp'[i] = Taken' + i
      /\ WriterTypes' /\ writer'.set = writer.set /\ writer'.pc = "copy"
  BY <1>2, WriterDequeuesBuffer
<1>4. (BufferTypes /\ FlagTypes)' /\ Copied' = Copied
  BY <1>1, <1>2, <1>3 DEF BufferTypes, FlagTypes, Copied
<1>5. /\ BoundsInv' /\ ConnInv' /\ AwakeWithClients' /\ StopsOnlyIfRaced'
      /\ ~reused' => OpenInv'
  BY <1>2, <1>3, <1>4, OnlyWriter
<1>6. \A k \in Connections : received'[k] \in Nat /\ received'[k] <= Taken
  BY <1>1, <1>2, Sizes DEF BufferTypes, IndInv, OrderInv
<1>7. OrderInv'
  BY <1>3, <1>6 DEF OrderInv
<1>8. ASSUME ~reused' PROVE GapsInv'
  <2>1. GapsInv /\ OpenInv
    BY <1>2, <1>8 DEF IndInv
  <2>2. \A p \in writer'.set : received'[p[2]] < writer'.packet
    <3>1. \A p \in writer.set : p[2] \in Connections
      BY <1>1, <2>1, CopyParts DEF WriterTypes, OpenInv, Copied
    <3>. QED
      BY <1>3, <1>6, <3>1
  <2>3. \A i \in 1..Taken' : ~(writer'.packet < i)
    BY <1>3
  <2>4. \A fd \in FDs : received[conn[fd]] # 0 =>
          \A i \in 1..Taken' : received[conn[fd]] < i => i \in dropped \/ i = writer'.packet
    BY <1>2, <1>3, <2>1 DEF GapsInv, Pending
  <2>. QED
    BY <1>2, <1>3, <2>1, <2>2, <2>3, <2>4 DEF GapsInv, Pending, Holding, Added
<1>. QED
  BY <1>5, <1>7, <1>8 DEF IndInv

LEMMA CopyForWriterKeeps ==
  ASSUME IndInv, CopyForWriter
  PROVE  IndInv'
<1>1. SystemTypes /\ ClientTypes /\ ReaderTypes /\ WriterTypes /\ BufferTypes /\ FlagTypes
  BY Types DEF IndInv, BoundsInv
<1>2. /\ ~cancelled /\ writer.pc = "copy" /\ writer' = Sending(CopyOf(FDs))
      /\ UNCHANGED <<conn, peer, data, greeted, arrived, accepted, count, FDs, pipe, server, reader,
                     serial2tcp, produced, dropped, cancelled, received, reused, raced, failed>>
  BY DEF CopyForWriter, osVars, infoVars, bufferVars
<1>3. \A p \in CopyOf(FDs) :
        /\ p \in Copies /\ p[1] \in FDs /\ p[2] = conn[p[1]] /\ p[2] <= accepted
        /\ p[2] # NONE => \A fd \in Descriptors : conn[fd] = p[2] => fd = p[1]
  BY <1>1, NewCopies DEF ClientTypes
<1>4. /\ WriterTypes' /\ writer'.set = CopyOf(FDs)
      /\ \/ writer'.pc = "lock" /\ writer'.packet = 0 /\ CopyOf(FDs) = {}
         \/ writer'.pc = "send" /\ writer'.packet = writer.packet /\ CopyOf(FDs) # {}
  BY <1>1, <1>2, <1>3, Sizes, WriterGoesOn
<1>5. BoundsInv'
  <2>1. (SystemTypes /\ ClientTypes /\ ReaderTypes /\ BufferTypes /\ FlagTypes)'
    BY <1>1, <1>2 DEF SystemTypes, ClientTypes, ReaderTypes, BufferTypes, FlagTypes
  <2>. QED
    BY <1>2, <1>4, <2>1, TypesNext DEF IndInv, BoundsInv, Added
<1>6. ConnInv'
  BY <1>2, <1>3, <1>4 DEF IndInv, ConnInv, Copied
<1>7. AwakeWithClients' /\ StopsOnlyIfRaced'
  BY <1>2, <1>4, StopsKept DEF IndInv, AwakeWithClients
<1>8. writer.packet \in Nat /\ Taken \in Nat
  BY <1>1, Sizes DEF WriterTypes, BufferTypes, IndInv, BoundsInv, OrderInv, Taken
<1>9. OrderInv'
  BY <1>2, <1>4, <1>8 DEF IndInv, OrderInv, Taken
<1>10. ASSUME ~reused' PROVE OpenInv' /\ GapsInv'
  <2>1. OpenInv /\ GapsInv
    BY <1>2, <1>10 DEF IndInv
  <2>2. FDs \subseteq Descriptors /\ (~Added => server.fd \in Descriptors /\ accepted # NONE)
    BY <1>1, Constants DEF IndInv, BoundsInv, Added, ClientTypes, SystemTypes
  <2>3. \A p \in writer'.set : p[2] # NONE /\ (~Added => p[2] # accepted)
    BY <1>3, <1>4, <2>1, <2>2 DEF OpenInv
  <2>4. OpenInv'
    BY <1>2, <1>3, <1>4, <2>1, <2>3 DEF OpenInv, Added, Copied
  <2>5. \A p \in writer'.set : received[p[2]] < writer.packet
    <3>1. \A p \in writer'.set : p[2] \in Connections
      BY <1>3, <1>4, <2>3, CopyParts
    <3>. QED
      BY <1>2, <3>1 DEF IndInv, OrderInv
  <2>6. \A fd \in FDs : writer'.pc = "send" /\ \E p \in writer'.set : p[2] = conn[fd]
    BY <1>1, <1>4, <2>2, CopyOfSet DEF SystemTypes
  <2>7. \A i \in 1..Taken : writer.packet < i => i \in dropped
    BY <1>2, <2>1 DEF GapsInv, Holding
  <2>8. GapsInv'
    BY <1>2, <1>4, <2>1, <2>5, <2>6, <2>7 DEF GapsInv, Pending, Holding, Added, Taken
  <2>. QED
    BY <2>4, <2>8
<1>. QED
  BY <1>5, <1>6, <1>7, <1>9, <1>10 DEF IndInv

LEMMA WriterRemovesKeeps ==
  ASSUME IndInv, WriterRemoves
  PROVE  IndInv'
<1>1. SystemTypes /\ ClientTypes /\ ReaderTypes /\ WriterTypes /\ BufferTypes /\ FlagTypes
  BY Types DEF IndInv, BoundsInv
<1>. DEFINE p == Lowest(writer.set)
<1>2. /\ ~cancelled /\ writer.pc = "remove" /\ removeClient(p)
      /\ writer' = Sending(writer.set \ {p})
      /\ raced' = (raced \/ (reader.pc = "select" /\ \E q \in reader.set : q[1] = p[1]))
      /\ UNCHANGED <<server, reader, cancelled, received, failed>>
  BY DEF WriterRemoves, NextToSend
<1>3. /\ WriterTypes' /\ writer'.set \subseteq writer.set
      /\ \/ writer'.pc = "lock" /\ writer'.packet = 0
         \/ writer'.pc = "send" /\ writer'.packet = writer.packet
  <2>1. writer.set \ {p} \subseteq Copies /\ 0 \in 0..MaxPackets
    BY <1>1, Sizes DEF WriterTypes
  <2>2. /\ WriterTypes' /\ writer'.set = writer.set \ {p}
        /\ \/ writer'.pc = "lock" /\ writer'.packet = 0 /\ writer.set \ {p} = {}
           \/ writer'.pc = "send" /\ writer'.packet = writer.packet /\ writer.set \ {p} # {}
    BY <1>1, <1>2, <2>1, WriterGoesOn, Zenon
  <2>. QED
    BY <2>2
<1>4. (ReaderTypes /\ FlagTypes)' /\ Copied' \subseteq Copied
  BY <1>1, <1>2, <1>3 DEF ReaderTypes, FlagTypes, Copied, removeClient, Uses
<1>5. p \in Copied
  BY <1>2, WriterHasOne
<1>6. /\ reader'.pc \in {"serve", "remove"} => reader'.set # {}
      /\ reader'.pc = "asleep" => reader.pc = "asleep"
      /\ reader'.pc = "select" /\ ~raced' => /\ reader.pc = "select" /\ ~raced
                                             /\ reader'.set = reader.set
                                             /\ \A q \in reader.set : q[1] # p[1]
  BY <1>2 DEF IndInv, BoundsInv
<1>. HIDE DEF p
<1>. QED
  BY <1>2, <1>3, <1>4, <1>5, <1>6, RemoveKeeps

(* The packet is sent to a client that has not had it, or the client is to *)
(* be removed.  As long as no descriptor was taken for another's, it is    *)
(* the one that was copied, and missed only what was dropped.              *)
LEMMA WritePacketSends ==
  ASSUME IndInv, WritePacket, NEW p, p = Lowest(writer.set), NEW k, k = conn[p[1]]
  PROVE  /\ p \in writer.set /\ p \in Copied /\ p[1] \in Descriptors
         /\ ~cancelled /\ writer.pc = "send"
         /\ UNCHANGED <<conn, peer, data, greeted, arrived, accepted, count, FDs, pipe, server,
                        reader, serial2tcp, produced, dropped, cancelled, raced, failed>>
         /\ reused' = (reused \/ k \notin {NONE, p[2]})
         /\ \/ /\ k # NONE
               /\ received' = [received EXCEPT ![k] = writer.packet]
               /\ writer' = Sending(writer.set \ {p})
            \/ /\ received' = received
               /\ writer' = [writer EXCEPT !.pc = "remove"]
  BY WriterHasOne DEF WritePacket, Uses, NextToSend, osVars, infoVars, bufferVars

LEMMA WritePacketMisses ==
  ASSUME IndInv, WritePacket, NEW p, p = Lowest(writer.set), NEW k, k = conn[p[1]],
         ~reused', k # NONE
  PROVE  /\ k = p[2] /\ k \in Connections
         /\ \A q \in writer.set : q[2] = k => q = p
         /\ received[k] < writer.packet
         /\ received[k] # 0 => \A i \in 1..Taken :
              received[k] < i => i \in dropped \/ i = writer.packet
<1>1. SystemTypes /\ WriterTypes
  BY Types DEF IndInv, BoundsInv
<1>2. /\ p \in writer.set /\ p \in Copied /\ p[1] \in Descriptors /\ writer.pc = "send"
      /\ ~reused /\ k \in {NONE, p[2]}
  BY WritePacketSends
<1>3. OpenInv /\ GapsInv
  BY <1>2 DEF IndInv
<1>4. k = p[2] /\ k \in Connections /\ p[1] \in FDs
  BY <1>1, <1>2, <1>3 DEF SystemTypes, OpenInv
<1>5. \A q \in writer.set : q[2] = k => q = p
  <2>1. ASSUME NEW q \in writer.set, q[2] = k PROVE q = p
    <3>1. q \in Copies /\ p \in Copies /\ q \in Copied
      BY <1>1, <1>2 DEF WriterTypes, Copied
    <3>2. p[1] = q[1]
      BY <1>2, <2>1, <3>1 DEF IndInv, ConnInv
    <3>. QED
      BY <1>4, <2>1, <3>1, <3>2, SameCopy
  <2>. QED
    BY <2>1
<1>6. received[k] < writer.packet
  BY <1>2, <1>3, <1>4 DEF GapsInv, Holding
<1>7. received[k] # 0 => \A i \in 1..Taken :
        received[k] < i => i \in dropped \/ i = writer.packet
  BY <1>3, <1>4 DEF GapsInv
<1>. QED
  BY <1>4, <1>5, <1>6, <1>7

LEMMA WritePacketKeeps ==
  ASSUME IndInv, WritePacket
  PROVE  IndInv'
<1>1. SystemTypes /\ ClientTypes /\ ReaderTypes /\ WriterTypes /\ BufferTypes /\ FlagTypes
  BY Types DEF IndInv, BoundsInv
<1>2. PICK p : p = Lowest(writer.set)
  OBVIOUS
<1>3. PICK k : k = conn[p[1]]
  OBVIOUS
<1>4. /\ p \in writer.set /\ p \in Copied /\ p[1] \in Descriptors
      /\ ~cancelled /\ writer.pc = "send"
      /\ UNCHANGED <<conn, peer, data, greeted, arrived, accepted, count, FDs, pipe, server,
                     reader, serial2tcp, produced, dropped, cancelled, raced, failed>>
      /\ reused' = (reused \/ k \notin {NONE, p[2]})
      /\ \/ /\ k # NONE
            /\ received' = [received EXCEPT ![k] = writer.packet]
            /\ writer' = Sending(writer.set \ {p})
         \/ /\ received' = received
            /\ writer' = [writer EXCEPT !.pc = "remove"]
  BY <1>2, <1>3, WritePacketSends
<1>5. /\ k \in Connections \cup {NONE} /\ writer.packet \in 0..MaxPackets
      /\ writer.packet \in Nat /\ 0 \in 0..MaxPackets
  BY <1>1, <1>3, <1>4, Sizes DEF SystemTypes, WriterTypes
<1>6. /\ WriterTypes' /\ writer'.set \subseteq writer.set
      /\ writer'.pc \in {"send", "remove"} => writer'.set # {}
      /\ writer'.pc \in {"lock", "send", "remove"}
      /\ \/ writer'.pc = "lock" /\ writer'.packet = 0 /\ writer.set \ {p} = {}
         \/ /\ writer'.pc \in {"send", "remove"} /\ writer'.packet = writer.packet
            /\ writer.set \ {p} \subseteq writer'.set
  <2>1. CASE writer' = Sending(writer.set \ {p})
    <3>1. writer.set \ {p} \subseteq Copies
      BY <1>1 DEF WriterTypes
    <3>2. /\ WriterTypes' /\ writer'.set = writer.set \ {p}
          /\ \/ writer'.pc = "lock" /\ writer'.packet = 0 /\ writer.set \ {p} = {}
             \/ writer'.pc = "send" /\ writer'.packet = writer.packet /\ writer.set \ {p} # {}
      BY <1>1, <1>5, <2>1, <3>1, WriterGoesOn, Zenon
    <3>. QED
      BY <3>2
  <2>2. CASE writer' = [writer EXCEPT !.pc = "remove"]
    <3>1. WriterTypes' /\ writer'.set = writer.set /\ writer'.pc = "remove"
          /\ writer'.packet = writer.packet
      BY <1>1, <2>2 DEF WriterTypes
    <3>. QED
      BY <1>4, <3>1
  <2>. QED
    BY <1>4, <2>1, <2>2
<1>7. /\ received' \in [Connections -> 0..MaxPackets]
      /\ \A c \in Connections : \/ received'[c] = received[c]
                                \/ c = k /\ k # NONE /\ received'[c] = writer.packet
                                   /\ writer' = Sending(writer.set \ {p})
  BY <1>1, <1>4, <1>5 DEF BufferTypes
<1>8. (BufferTypes /\ FlagTypes)' /\ Copied' \subseteq Copied /\ serial2tcp' \in Seq(1..MaxPackets)
  BY <1>1, <1>4, <1>6, <1>7 DEF BufferTypes, FlagTypes, Copied, IndInv, BoundsInv
<1>9. /\ BoundsInv' /\ ConnInv' /\ AwakeWithClients' /\ StopsOnlyIfRaced'
      /\ ~reused' => OpenInv'
  BY <1>4, <1>6, <1>8, OnlyWriter
<1>10. Taken \in Nat /\ Taken' = Taken /\ writer.packet <= Taken
  BY <1>1, <1>4, Sizes DEF BufferTypes, IndInv, BoundsInv, OrderInv, Taken
<1>11. OrderInv'
  <2>1. \A c \in Connections : received'[c] <= Taken'
    BY <1>7, <1>10 DEF IndInv, OrderInv
  <2>2. writer'.packet <= Taken'
    BY <1>6, <1>10
  <2>. QED
    BY <1>4, <1>6, <1>10, <2>1, <2>2 DEF IndInv, OrderInv
<1>12. ASSUME ~reused' PROVE GapsInv'
  <2>1. GapsInv /\ OpenInv
    BY <1>4, <1>12 DEF IndInv
  <2>2. k # NONE => /\ k = p[2] /\ k \in Connections
                    /\ \A q \in writer.set : q[2] = k => q = p
    BY <1>2, <1>3, <1>12, WritePacketMisses
  <2>3. \A c \in Connections :
          c > accepted \/ (c = accepted /\ server.pc # "accept") => received'[c] = 0
    <3>1. k # NONE => k <= accepted /\ (server.pc # "accept" => k # accepted)
      BY <1>4, <2>1, <2>2 DEF IndInv, ConnInv, OpenInv, Added
    <3>2. accepted \in Nat
      BY <1>1 DEF SystemTypes
    <3>. QED
      BY <1>7, <2>1, <3>1, <3>2, Constants DEF GapsInv, Added
  <2>4. ASSUME NEW q \in writer'.set, writer'.pc \in {"copy", "send", "remove"}
        PROVE  received'[q[2]] < writer'.packet
    <3>1. writer'.packet = writer.packet /\ q \in writer.set
      BY <1>6, <2>4
    <3>2. received[q[2]] < writer.packet /\ q[2] \in Connections
      BY <1>1, <1>4, <2>1, <3>1, CopyParts DEF GapsInv, Holding, WriterTypes, OpenInv, Copied
    <3>3. received'[q[2]] = received[q[2]]
      <4>1. CASE writer' = Sending(writer.set \ {p})
        <5>1. q # p
          BY <1>1, <1>5, <2>4, <4>1 DEF Sending
        <5>. QED
          BY <1>7, <2>2, <3>1, <3>2, <5>1
      <4>2. CASE writer' # Sending(writer.set \ {p})
        BY <1>7, <3>2, <4>2
      <4>. QED
        BY <4>1, <4>2
    <3>. QED
      BY <3>1, <3>2, <3>3
  <2>5. \A i \in 1..Taken : writer.packet < i => i \in dropped
    BY <1>4, <2>1 DEF GapsInv, Holding
  <2>6. ASSUME NEW fd \in FDs, received'[conn[fd]] # 0,
               NEW i \in 1..Taken, received'[conn[fd]] < i
        PROVE  \/ i \in dropped
               \/ /\ i = writer'.packet
                  /\ writer'.pc \in {"send", "remove"} /\ \E q \in writer'.set : q[2] = conn[fd]
    <3>1. conn[fd] \in Connections
      BY <1>1, <2>1 DEF SystemTypes, ClientTypes, OpenInv
    <3>2. CASE received'[conn[fd]] = writer.packet
      BY <2>5, <2>6, <3>2
    <3>3. CASE /\ received'[conn[fd]] = received[conn[fd]]
               /\ writer' = [writer EXCEPT !.pc = "remove"] \/ (k # NONE /\ conn[fd] # k)
      <4>1. i \in dropped \/ (i = writer.packet /\ \E q \in writer.set : q[2] = conn[fd])
        BY <1>4, <2>1, <2>6, <3>3 DEF GapsInv, Pending
      <4>2. ASSUME NEW q \in writer.set, q[2] = conn[fd]
            PROVE  /\ q \in writer'.set /\ writer'.packet = writer.packet
                   /\ writer'.pc \in {"send", "remove"}
        <5>1. CASE q # p
          BY <1>6, <5>1
        <5>2. CASE writer' = [writer EXCEPT !.pc = "remove"]
          BY <1>1, <5>2 DEF WriterTypes
        <5>. QED
          BY <2>2, <3>3, <4>2, <5>1, <5>2
      <4>. QED
        BY <4>1, <4>2
    <3>. QED
      BY <1>4, <1>7, <3>1, <3>2, <3>3
  <2>. QED
    BY <1>4, <1>6, <1>10, <2>3, <2>4, <2>5, <2>6 DEF GapsInv, Pending, Holding, Added
<1>. QED
  BY <1>9, <1>11, <1>12 DEF IndInv

-----------------------------------------------------------------------------
(* accept() and select() when the system refuses them. *)
LEMMA FailuresKeep ==
  ASSUME IndInv, AcceptFails \/ SelectFails
  PROVE  IndInv'
<1>1. SystemTypes /\ ClientTypes /\ ReaderTypes /\ WriterTypes /\ BufferTypes /\ FlagTypes
  BY Types DEF IndInv, BoundsInv
<1>2. /\ cancelled' = TRUE /\ failed' = TRUE
      /\ UNCHANGED <<conn, peer, data, greeted, arrived, accepted, count, FDs, pipe, server, reader,
                     writer, serial2tcp, produced, dropped, received, reused, raced>>
  BY DEF AcceptFails, SelectFails, osVars, infoVars, bufferVars
<1>3. BoundsInv'
  <2>1. (SystemTypes /\ ClientTypes /\ ReaderTypes /\ WriterTypes /\ BufferTypes /\ FlagTypes)'
    BY <1>1, <1>2
       DEF SystemTypes, ClientTypes, ReaderTypes, WriterTypes, BufferTypes, FlagTypes
  <2>. QED
    BY <1>2, <2>1, TypesNext DEF IndInv, BoundsInv, Added
<1>4. ConnInv' /\ OrderInv' /\ AwakeWithClients'
  BY <1>2, ConnKept, OrderKept DEF IndInv, Copied, AwakeWithClients
<1>5. StopsOnlyIfRaced'
  BY <1>2 DEF StopsOnlyIfRaced
<1>6. ~reused' => OpenInv' /\ GapsInv'
  BY <1>2, OpenKept, GapsKept DEF IndInv, Copied
<1>. QED
  BY <1>3, <1>4, <1>5, <1>6 DEF IndInv

(* All of it. *)
LEMMA ServerContinues ==
  ASSUME IndInv, [Next]_vars
  PROVE  IndInv'
<1>1. CASE Environment
  BY <1>1, ConnectKeeps, ClientKeeps, SerialKeeps DEF Environment
<1>2. CASE Server
  BY <1>2, AcceptKeeps, VersionCheckKeeps, AddClientKeeps DEF Server
<1>3. CASE Reader
  BY <1>3, CopyForReaderKeeps, SelectKeeps, SelectReturnsKeeps, ReadPacketKeeps, ReaderRemovesKeeps
     DEF Reader
<1>4. CASE Writer
  BY <1>4, WriterLooksKeeps, WriterDequeuesKeeps, CopyForWriterKeeps, WritePacketKeeps,
     WriterRemovesKeeps DEF Writer
<1>5. CASE UNCHANGED vars
  <2>1. SystemTypes /\ ClientTypes /\ ReaderTypes /\ WriterTypes /\ BufferTypes /\ FlagTypes
    BY Types DEF IndInv, BoundsInv
  <2>2. UNCHANGED <<conn, peer, data, greeted, arrived, accepted, count, FDs, pipe, server, reader,
                    writer, serial2tcp, produced, dropped, cancelled, received, reused, raced,
                    failed>>
    BY <1>5 DEF vars, osVars, infoVars, bufferVars
  <2>3. BoundsInv'
    <3>1. (SystemTypes /\ ClientTypes /\ ReaderTypes /\ WriterTypes /\ BufferTypes /\ FlagTypes)'
      BY <2>1, <2>2
         DEF SystemTypes, ClientTypes, ReaderTypes, WriterTypes, BufferTypes, FlagTypes
    <3>. QED
      BY <2>2, <3>1, TypesNext DEF IndInv, BoundsInv, Added
  <2>4. ConnInv' /\ OrderInv' /\ AwakeWithClients' /\ StopsOnlyIfRaced'
    BY <2>2, ConnKept, OrderKept DEF IndInv, Copied, AwakeWithClients, StopsOnlyIfRaced
  <2>5. ~reused' => OpenInv' /\ GapsInv'
    BY <2>2, OpenKept, GapsKept DEF IndInv, Copied
  <2>. QED
    BY <2>3, <2>4, <2>5 DEF IndInv
<1>6. CASE AcceptFails \/ SelectFails
  BY <1>6, FailuresKeep
<1>. QED
  BY <1>1, <1>2, <1>3, <1>4, <1>5, <1>6 DEF Next

LEMMA ServerInductive == Spec => []IndInv
  BY ServerStarts, ServerContinues, PTL DEF Spec

(* The count is right and the clients' descriptors are open as long as no  *)
(* thread has taken the descriptor of a closed connection for that of a    *)
(* new one; the server ends itself only after that, after the writer       *)
(* removed a client between the reader's copy and its select(), or after   *)
(* the system refused an accept() or a select(); and no thread sleeps      *)
(* while there are clients (addClient, removeClient, connectClients,       *)
(* readClients, writeClients).                                             *)
THEOREM ServerCorrect == Spec => []ServerInv
<1>1. IndInv => ServerInv
  BY DEF IndInv, BoundsInv, OpenInv, ServerInv, CountUnlessReused, CountIsClients
<1>. QED
  BY <1>1, ServerInductive, PTL

(* A client misses no packet between two it was sent, but those dropped    *)
(* from a full buffer and those nobody was there for (writeClients).       *)
THEOREM NothingMissed == Spec => NoGaps
<1>. DEFINE Follows(k) == /\ received[k] < received'[k]
                          /\ (received[k] + 1)..(received'[k] - 1) \subseteq dropped
            Step == \A k \in Connections :
                      received'[k] # received[k] /\ received[k] # 0 /\ ~reused' => Follows(k)
<1>1. ASSUME IndInv, [Next]_vars PROVE [Step]_vars
  <2>1. CASE WritePacket
    <3>1. PICK p : p = Lowest(writer.set)
      OBVIOUS
    <3>2. PICK k : k = conn[p[1]]
      OBVIOUS
    <3>3. \/ /\ k # NONE
             /\ received' = [received EXCEPT ![k] = writer.packet]
          \/ received' = received
      BY <1>1, <2>1, <3>1, <3>2, WritePacketSends
    <3>4. ASSUME NEW c \in Connections, received'[c] # received[c], received[c] # 0, ~reused'
          PROVE  Follows(c)
      <4>1. WriterTypes /\ BufferTypes
        BY <1>1, Types DEF IndInv, BoundsInv
      <4>2. c = k /\ k # NONE /\ received'[c] = writer.packet
        BY <3>3, <3>4, <4>1 DEF BufferTypes
      <4>3. /\ received[c] < writer.packet
            /\ \A i \in 1..Taken : received[c] < i => i \in dropped \/ i = writer.packet
        BY <1>1, <2>1, <3>1, <3>2, <3>4, <4>2, WritePacketMisses
      <4>4. /\ writer.packet \in Nat /\ received[c] \in Nat /\ Taken \in Nat
            /\ writer.packet <= Taken
        BY <1>1, <4>1, Sizes DEF WriterTypes, BufferTypes, IndInv, BoundsInv, OrderInv, Taken
      <4>5. \A i \in (received[c] + 1)..(writer.packet - 1) :
              i \in 1..Taken /\ received[c] < i /\ i # writer.packet
        BY <4>4
      <4>. QED
        BY <4>2, <4>3, <4>5
    <3>. QED
      BY <3>4
  <2>2. CASE ~WritePacket
    <3>1. received' = received
      BY <1>1, <2>2
         DEF Next, Environment, Server, Reader, Writer, Connect, Say, Finish, Leave, SerialReads,
             Accept, VersionCheck, AddClient, CopyForReader, Select, SelectReturns, ReadPacket,
             ReaderRemoves, WriterLooks, WriterDequeues, CopyForWriter, WriterRemoves, AcceptFails,
             SelectFails, vars
    <3>. QED
      BY <3>1
  <2>. QED
    BY <2>1, <2>2
<1>. QED
  BY <1>1, ServerInductive, PTL DEF Spec, NoGaps
=============================================================================
