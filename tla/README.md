# TinyOS: scheduler, arbiters, power managers, queues, timers and the serial line, specified and verified

TLA+ specifications of the core of this TinyOS tree and of its serial line, from the
framer on the mote to the clients of the forwarder on the PC; TLC configurations that
check them on small instances; and TLAPS proofs of what matters most for every instance.
Definitions keep the names of the source. Paths are relative to the repository;
`PROJECT.json` maps each definition to the lines it models.

    tlc -workers 2 -config Arbiter.cfg Arbiter.tla     # one run
    tlapm ArbiterProofs.tla                            # the proofs of one module

## 1. Inventory

TinyOS is a set of nesC components wired at compile time. Code runs in two contexts:
*tasks*, run one after the other by the scheduler, and *interrupt handlers*
(`async` code), which preempt tasks and each other anywhere outside an `atomic`
section. Components talk by split-phase calls: a command starts an operation and
an event signals its end. Everything hard follows from this: state read in one
atomic section and used after it, an event that comes between two steps of a
handler, a completion for a request already withdrawn. The C++ serial forwarder, on
the PC, is five threads, two bounded buffers and a table of clients.

| component | state | operations | interacts with | what makes it correct |
|---|---|---|---|---|
| Task scheduler, boot (`tos/system/SchedulerBasicP.nc`, `RealMainP.nc`) | the list `m_head`, `m_tail`, `m_next`; the main thread | `postTask`, `runNextTask`, `taskLoop`, `init` | every task; `McuSleep` | FIFO, one place per task, no lost wake-up, every post runs |
| MSP432 sleep (`tos/chips/msp432/McuSleepC.nc`) | the core's event register | `sleep` | the scheduler, interrupts | never stops on work |
| Arbiter (`tos/system/ArbiterP.nc`) | `state`, `resId`, `reqResId`, `grantedTask` | `request`, `immediateRequest`, `release`, the default owner's `release` | clients, a queue, a default owner, `ResourceConfigure` | one owner at a time, no request lost, duplicated or overtaken, every request granted |
| Resource queues (`FcfsResourceQueueC.nc`, `RoundRobinResourceQueueC.nc`) | a list in an array; a bitmap and `last` | `enqueue`, `dequeue`, `isEmpty`, `isEnqueued` | the arbiter, inside its atomic sections | FIFO; nobody overtaken twice by the same other |
| Power managers (five `tos/lib/power/*PowerManagerP.nc`) | flags `stopping`, `requested`, `stopTimer`; tasks; a timer | the default owner's events; `startDone`, `stopDone`, `fired` | the arbiter, the device, the scheduler | device on while used, off when idle, no request forgotten |
| Other arbiters (`SimpleArbiterP.nc`, `FcfsPriorityArbiterC.nc`) | as the arbiter | as the arbiter | as the arbiter | as the arbiter; the priority client first |
| Message send queue (`AMQueueImplP.nc`) | `queue`, `current`, `cancelMask`, two tasks | `send`, `cancel`, `sendDone` | clients, `AMSend` | one `sendDone` per accepted `send`, a cancel is kept, no client starved |
| Virtual timers (`tos/lib/timer/VirtualizeTimerImplP.nc`) | `t0`, `dt`, flags per timer; one timer below | `start*`, `stop`, `fired`, `skew` | clients, the scheduler, an alarm | fires once, not early, on time across the wrap of the clock |
| Alarms and counters (`tos/lib/timer`) | the high words of counters | `get`, `overflow`, `startAt` | hardware counters | no carry lost |
| Queues, pools, caches (`QueueC`, `PoolP`, `LruIntCacheP`, `tos/lib/fragpool`) | rings, free lists, fragment states | `enqueue`/`dequeue`, `get`/`put`, `insert`/`lookup`, `alloc`/`release` | the network stacks | no element lost or handed out twice; bounds |
| Serial stack (`tos/lib/serial/SerialP.nc`, `SerialDispatcherP.nc`) | receive and transmit state machines, two receive buffers, the ack queue, the switch-off | byte events, frame delimiters, `send`, `cancel`, `start`, `stop` | the UART, clients | buffers not shared, the transmitter never hangs, one `sendDone` per packet, every `stop` ends |
| PC serial forwarder (`tools/tinyos/cpp/sf`) | the two packet buffers, the table of clients, the waits of five threads | connect, greet, send, leave; frames and acknowledgements; timeouts and retries | TCP clients, the mote | packets in order, none written off, clients counted right, no thread asleep with work |
| Collection (`tos/lib/net/ctp`, `4bitle`) | send queue, message pool, route table, link table | `send`, `receive`, `sendDone`, retransmission timer, beacons | radio, pools, timers | no message lost inside a node, duplicates dropped, queue and pool agree |
| Dissemination, Trickle (`tos/lib/net/drip`) | sequence numbers, trickle counters | `change`, `receive`, timer | radio, timers | the newest value wins everywhere |
| CC2420 stack (`tos/chips/cc2420`) | transmit, receive and power state machines | `send`, `cancel`, SFD and FIFOP events, `start`, `stop` | SPI arbiter, alarms | one completion per send; start and stop in order |
| Time synchronisation (`tos/lib/ftsp`) | the root, sequence number, regression table | messages, timer | radio, timers | one root |

`PROJECT.json` lists them all with their status, the parts that are left out
(rfxlink, chip drivers, imported network stacks, applications) among them, and
under `hazards` the lines where this code is hard to test, with the properties that
would catch each going wrong.

## 2. Modules

    TaskQueue                what the scheduler promises: a FIFO (abstract)
      ^ implemented by Scheduler                          proved in SchedulerTimerProofs
      ^ implemented by FcfsResourceQueue                  proved in ResourceQueuesProofs
    ResourceLock             a first come, first served lock (abstract)
      ^ implemented by Arbiter                            proved in ArbiterProofs
    ArbiterP                 the arbiter, its default owner a parameter
      Arbiter                ... with any default owner that keeps its contract
        ^ implemented by PoweredArbiter                   proved in PoweredProofs
        ^ implemented by AsyncPoweredArbiter              proved in AsyncPoweredProofs
      PoweredArbiter         ... with PowerManagerP, InfiniteRetryPowerManagerP or
                                 DeferredPowerManagerP, and a device
      AsyncPoweredArbiter    ... with AsyncPowerManagerP or AsyncDeferredPowerManagerP
    ResourceQueues           FcfsResourceQueue or RoundRobinResourceQueue, as wired
                                                          proved in ResourceQueuesProofs
    AMQueue                  the message send queue       proved in AMQueueProofs
    VirtualizeTimer          the virtual timers           proved in SchedulerTimerProofs
    SerialMote               SerialP and SerialDispatcherP     proved in SerialLineProofs
    PacketBuffer             a bounded buffer of the forwarder
      SerialComm             its serial threads, and the mote  proved in SerialLineProofs
      TCPComm                its TCP threads, and clients      proved in TCPCommProofs

The proofs compose: what `ResourceLock` says of an arbiter holds of `Arbiter` by proof, and of
the arbiter with any of the five power managers by proof too.

### Scheduler

The variables are those of `SchedulerBasicP` and the position of the main thread:
`phase` is how far `main()` has come, `exec` what it is doing. An action of the
main thread is an atomic section (`pushTask`, `popTask` with the test around it)
or a step outside of one (entering and leaving a task, executing WFE), so that an
interrupt may fall between any two once `main()` has enabled interrupts. `fifo` is
a history variable: the tasks posted and not started. Before `Scheduler.init` the
variables read 0, the id of some task, as in bss; `platform_bootstrap` posts nothing.
`McuSleep.sleep` is the msp432's: it enables interrupts and then executes WFE, which
falls through if the event register is set. Taking an interrupt sets the register.
The tracing of task times and the choice of the power state are left out.

### Arbiter

`ArbiterP` keeps the arbiter's variables, and `stack`, the calls in progress. A
frame says which client called, from where, and the next section of the call
to execute; each atomic section is one action, and each signal or read outside of
one is an action of its own. A task may call when no call is in progress, an
interrupt handler whenever fewer than `MaxNest` handlers are: this is the
preemption of the code, cut at every point where it shows. The two calls are

    request:          enqueue > notify > claim > askOwner
    immediateRequest: notifyImm > take > askOwnerImm > check [> giveUp]
    grantedTask:      grant > configure > signal

The default owner's event handlers are parameters of the actions, so that one text
of the arbiter serves the three modules. A client told of another's request
(`ResourceRequested`) may ignore it, release, or release and request again from
inside the event. `accepted` is a history variable: the requests that returned
SUCCESS and whose `granted()` was not signalled yet. `configured` is the client
the hardware is configured for.

The clients are the legal ones of `Resource.nc`: who has the resource releases it,
a client with a call in progress or a request pending does not call
`immediateRequest`, and nobody else calls `release`. A client may call `request`
with a request pending (this is what EBUSY is for). The queries that change nothing
(`isOwner`, `inUse`, `userId`) and the tracing are left out. The queue is a
sequence; `FcfsResourceQueue` shows that the list implements one.

`Arbiter` closes it with any default owner that keeps the contract of
`ResourceDefaultOwner.nc`: asked for the resource it releases it at once or owes the
release (`ownerOwes`); asked for it immediately it releases it or, if
`OwnerMayRefuse`, keeps it. `OwnerMayDefer = OwnerMayRefuse = FALSE` is the default
handlers of `ArbiterP.nc` itself.

### Power managers

`PoweredArbiter` is the arbiter with one of the three managers for devices that take their
time (`manager`, chosen in `Init` and constant): its flags, its posted tasks in their order,
and the device. `split` tells a `SplitControl` device from a `StdControl` device, for which
the default `SplitControl` of the modules signals `startDone` and `stopDone` inside the
command: hence `power`, a stack of the points the manager's running code has yet to reach.
The test of `requested` and the atomic section that clears it in `stopDone` are two steps,
as in the code. A manager in `FailingManagers` has a device that may refuse any command, of
`SplitControl` or of `StdControl`, and report FAIL for one it took. What a manager does with a
refusal is the code's: `InfiniteRetryPowerManagerP` looks at it in its tasks (`Refused`) but not in
`stopDone`, the others never (`RefusalIgnored`); the default `SplitControl.start` then signals
`startDone(SUCCESS)` for a `StdControl` device that is off. Two history variables: `ignored` (the
last command or completion failed and the manager went on as if it had not) and `late` (a request
came between the test of `requested` and the section that clears it).

`AsyncPoweredArbiter` switches the device inside the default owner's events.
`AsyncPowerManagerP` does so at the last release; `AsyncDeferredPowerManagerP` starts a timer
then, and the order of its tasks decides what happens: `posted` is the FIFO of the scheduler,
the arbiter's `grantedTask` included. Each task and the timer's handler is cut in two where
an interrupt can come between what it reads and what it does.

An event handler of a manager that is one atomic step in the model runs, in the code,
with interrupts enabled between its statements. Nothing that can run there
touches what it has yet to read: the arbiter is in PREGRANT or IMM_GRANTING for it
until it releases, so that no other call reaches the manager. The clean-up
callback of the application is left out. The commands of `StdControl` succeed in
`AsyncPoweredArbiter` only, whose managers do not look at their results.

### Resource queues

One action per command, after `SoftwareInit` has initialised the module (before
that, `resQ` of the FCFS queue is zero, so that `isEnqueued` answers TRUE and every
request is refused). The bitmap of the round-robin queue is a set of ids; its loop is a
recursive function over the ids; the history variable `overtaken` remembers, for
each waiting client, who was served before it. `ResourceQueues` wires one of the two.

### Message send queue

`AMQueue` is `AMQueueImplP` whole. `handler` is the client whose `sendDone` handler runs, and
with which message and error: a client sends or cancels from inside it as well as in between.
`CancelTask`'s loop is cut at each `sendDone` it signals (`scan` is where it stands), since the
handlers may change the queue behind and ahead of it. `AMSend` may accept or refuse any
message, and answers for those it accepted with any error. History variables: `owed` (what each
client was promised an answer for), `cancelled` (whose `cancel` returned SUCCESS) and
`overtaken`.

### Virtual timers

`VirtualizeTimer` is `VirtualizeTimerImplP` over one alarm. `MAXINT` is the largest signed number,
and all arithmetic is modulo `WRAP`, twice as many as there are from 0 to it. `updateFromTimer`
is two steps, with ticks in between, since it reads the time before it stops and starts the
alarm. `TimeSkew.skew` may come at any time.
`age[n]`, a history variable, is the time since timer `n` was due last, counted without
wrapping: what the wrapped arithmetic is compared with. `MaxLate` bounds how long tasks take.

### Serial stack of the mote

`SerialMote` is `SerialP` and `SerialDispatcherP`: the two state machines, byte by byte, the
queue of acks, the switch-off that waits for a quiet line, the two receive buffers. The handlers
of the UART are atomic; they come between tasks, in the middle of `RunTx`, which is cut
between its reads and the first byte, and between the atomic sections of `SplitControl.stop`:
`Stop` looks at the receiver, `stopTx` at the transmitter, `stopTest` at both (the first section of
`testOff`), and `stopDecided` does what was decided. Where `testOff` is called from an interrupt or
inside an atomic section it is one step. The order of the tasks is the scheduler's. A byte's value
is nondeterministic where the code tests it (a protocol, a length, a CRC, a byte to escape).
`HdlcTranslateC` sends an escaped byte in two: `escape` is its `sendEscape`, and `escapedSent` sends
the second one, whose refusal it ignores, where `Put` and `PutNext` report the refusal of a
first byte and post `RunTx`. History variables name what is lost:

* `revived`: a byte between the decision to switch off and `SerialControl.stop()` starts the
  receiver again. It is reset by the next start, if nothing is left of it.
* `missed`: a frame ended when `stop` had looked at the receiver and had not set `offPending`.
  It is reset when `testOff` looks again.
* `halfSent`: a second byte was refused since the last start.
* `cancelledLate`: a packet was cancelled between its end and its `sendDone`, and the framer has
  it still.

### Serial forwarder of the PC

`PacketBuffer` is the bounded buffer; an operation holds its mutex throughout and is one
step, and its waits are guards. A pthread wait that is signalled without a predicate is not
a guard: `SerialComm` keeps where the writer stands (`lock`, `waiting`, `woken`), and a signal
that comes while it is not waiting is lost, as `pthread_cond_signal` is.

`SerialComm` is the reader and the writer of the serial side, with a mote that acknowledges
every packet (`SerialP.nc`) and a line that loses frames. A wait ends by a signal, by a timeout
or, when `tv_nsec` is out of range (`serialcomm.cpp:688`), at once with an error that passes
for a signal.

`TCPComm` is the thread that accepts clients, the one that reads from them and the one that
writes to them, with the system's table of descriptors (`conn`): `close` frees a number and `accept`
takes the lowest free one, so that a descriptor a thread copied earlier may be another client's.
Either of `accept()` and `select()` may fail at any call (`AcceptFails`, `SelectFails`), which cancels
all three threads; `failed` remembers it. Neither has to.
Sections under the lock are one step. A client greets, sends part or all of a packet or garbage,
and leaves, at any time.

## 3. Runs

| run | what it shows | bounds |
|---|---|---|
| `scheduler` | the list is the FIFO; the core never sleeps on work; every accepted post runs; implements `TaskQueue` | 4 tasks |
| `arbiter` | one owner, configured for it; no request lost, duplicated or overtaken; implements `ResourceLock` | 3 clients, 2 nested interrupts, any default owner |
| `arbiter_live` | EBUSY only with a request pending; every accepted request is granted | 3 clients, 1 interrupt, the owner grants immediate requests |
| `powered` | device on while used, but after an ignored failure, and nobody about to stop it; no command lost in a transition; powered down when idle; every request granted but for named races; implements `Arbiter` | 2 clients, 1 interrupt, three managers, both kinds of device, which may refuse and fail |
| `async_powered` | device on while used and off after, but for named races; implements `Arbiter` | 2 clients, 1 interrupt, two managers |
| `queues` | the answers are exact and a FIFO's; the search finds the next in turn; nobody overtaken twice by the same other | 4 clients, either queue |
| `am_queue` | one completion per accepted message, with that message; a cancel is kept; clients take turns; every send completes | 3 clients, 3 messages |
| `virtual_timer` | no timer early, none later than the tasks make it, no drift | 2 timers, 4-bit clock (`MAXINT` 7), delays 1 and 6, tasks up to 2 ticks late |
| `serial_mote` | buffers apart; the transmitter never hangs; `stopDone` only when asked for; every packet completed and every stop ends, but for named cases | 1 ack, packets of 3 bytes |
| `sf_serial` | packets in order; none taken for acknowledged that was not received, but for named races; none waits for ever; the mote is heard | buffers of 1, 1 retry, 2 packets, 2 reports, 1 loss |
| `sf_clients` | the count is right and nobody asleep with clients; the server ends for named reasons only; no gaps; who left is removed, unless a descriptor was reused | 2 connections, 3 packets, buffer of 1 |
| `sf_clients_count` | *violation*: the count is not "number of connected clients" | 3 connections, 1 packet |

The bounds. A list of four has a first, a last and two inner elements, so every case of a push
and a pop occurs, and a task or client may come back behind two others. With three clients one
has the resource, one is next and one is in the queue; two nested interrupts put a call inside
a call inside a call, so that a section of `request` can be overtaken twice. A power manager
sees the arbiter's clients as one: two of them are enough for one to have the resource, or to
be about to, while the other asks for it from an interrupt. With three senders one is being
sent, one waits and one cancels. The clock of four bits wraps many times under a timer of 6
ticks, the longest but one that fits, and 2 late ticks make an alarm that is due before it is
set. Three bytes are the shortest packet (two of CRC) and one more, the longest; the two
buffers are the code's. An ack queue of one is full as soon as an ack waits, so that the next frame
gets none; the safety properties are theorems for any length. Buffers of one are full after one packet, so that both ends wait at
once; the second packet meets the late acknowledgement of the first, which is all a race needs,
and each kind of loss occurs. Two connections on two descriptors suffice for one to get the
other's number. Deadlock is checked in all runs but the three of the forwarder: there the
clients and the mote have finite numbers of packets and connections, and the system may stop
when they are used up; the liveness properties say that nothing is left undone then.

### Races the properties name

A property of the form "... unless ..." says that the promise of the code is broken in the
named ways and in no other. If one of them is taken away, TLC finds a counterexample in the
run; for `reused` it takes three connections (with them the server may stop, and a client that
left may stay), and for `NoGaps`, which TLC does not reach, four: with the count wrong the
buffer is emptied although a client is left, and the fourth connection wakes the writer for it.

| name | where | what happens |
|---|---|---|
| `late` | `PowerManagerP.nc:117` | a request between the test of `requested` in `stopDone` and the section that clears the flags is forgotten: PREGRANT for ever |
| `ignored` | `InfiniteRetryPowerManagerP.nc:126`, `PowerManagerP.nc:74`, `:102` | a refused or failed start that the manager does not look at: a client owns a device that is off |
| `Unstarted` | `InfiniteRetryPowerManagerP.nc:127`, `PowerManagerP.nc:75` | the same with a `SplitControl` that refuses: no `startDone` comes and nobody tries again, PREGRANT for ever |
| `Unstopped` | `PowerManagerP.nc:81`, `:112` | a refused or failed stop that the manager does not look at: the device stays on |
| `Stranded` | `ArbiterP.nc:245` | a request during an `immediateRequest` that the default owner does not grant returns SUCCESS, and nobody looks at the queue until another client asks |
| `StopRefused` | `InfiniteRetryPowerManagerP.nc:84` | a refused stop posts `startTask`, which the device that is on refuses for ever |
| `Interrupted` | `AsyncDeferredPowerManagerP.nc:105` | a request between the test of `stopTimer` and the stop gets a device that is switched off |
| `Merged` | `AsyncDeferredPowerManagerP.nc:95` | a post of a waiting task has no effect, so that the tasks run in another order than the events: the timer switches the device off under a client, or never |
| `Abandoned` | `SerialP.nc:383` | a stop before `RunTx` took the packet: no `sendDone`, and every other packet is refused |
| `cancelledLate` | `SerialDispatcherP.nc:168` | a packet cancelled after it was sent marks a free buffer |
| `revived` | `SerialP.nc:336` | a byte during the switch-off: a second `stopDone` after the next start may take the UART away |
| `missed` | `SerialP.nc:370` | a frame that ends between `testOff`'s look at the receiver and its setting of `offPending`: nobody calls `testOff` until a byte comes |
| `halfSent` | `HdlcTranslateC.nc:124` | the UART refuses the second byte of an escaped pair: the frame stays midway for ever |
| `retried`, `unwaited` | `serialcomm.cpp:599`, `:688` | a late acknowledgement, or a wait that is refused, counts for a packet that may be lost |
| `emptied` | `serialcomm.cpp:618` | the clients empty the buffer between the reader's `isFull()` and `dequeue()`: the reader waits for a packet that only it could put there |
| `reused`, `raced` | `tcpcomm.cpp:289`, `:380` | a descriptor closed since it was copied is another client's, or ends `select()` with EBADF and the server with it |
| `failed` | `tcpcomm.cpp:333`, `:380` | an `accept()` or `select()` that fails ends the server |

Three of these contradict what the repository says of the interfaces, as `reused` does in a
run of its own (`sf_clients_count`: `tcpcomm.h:88` calls `count` "number of connected clients").
Without the exception TLC finds the counterexample:

* `ignored`: a power manager "MUST wait until after the resource has been fully powered on"
  (`tep115.txt:461`). `InfiniteRetryPowerManagerP`, which is written for devices that fail,
  does not look in `stopDone` whether `StdControl.start` was refused (`:126`), and the default
  `SplitControl.start` (`:100`) releases the resource; the other two look nowhere.
* `halfSent`: "If send returns SUCCESS, then the component will signal the sendDone event in the
  future" (`Send.nc:60`).
* `missed`: for each `stop()` that returns SUCCESS "a corresponding startDone() or stopDone() event
  must be signalled" (`SplitControl.nc:79`).

Others follow from the same lines and are outside the bounds or have no run of their own:

* `immediateRequest` that the default owner does not grant leaves `reqResId` set to the
  caller: its next `request` answers EBUSY with nothing pending (`OwnerMayRefuse = TRUE` in
  `ArbiterLive.cfg` breaks `RefusedOnlyIfPending`).
* `grantedTask` clears `reqResId` before it signals `granted()`: a request of the same client in
  between is accepted although one is pending. Both are granted; `accepted` may hold
  a client twice for this reason.
* A timer of `dt` = MAXINT is never scheduled, though `VirtualizeTimerImplP.nc:186` says that it is
  supported: the remaining time is compared for less with an initial minimum of MAXINT. With
  `Delays = {7}` and `MAXINT = 7`, `OnTime` breaks; the theorem `TimersOnTime` excludes it.
* With `maxRetries = 0` a packet could time out without being among the retried; the code has
  25, and `SerialAssumption` says that there is one.

### Fairness

* The processor keeps executing: weak fairness of the main thread of the scheduler.
* Calls return, and interrupts leave time: strong fairness of the running call for each depth
  of interrupts. Strong, because an endless series of interrupts would disable the steps of the
  call they preempt; for each depth, because the steps of the preempting calls are no progress
  of the preempted one. The code relies on it throughout.
* The scheduler runs a posted task: strong fairness of each task where handlers or interrupts
  disable it in between, weak fairness of the head of the queue in `SerialMote`
  (`TasksRun`, which is `WF_moteVars(Task)` with ENABLED spelt out).
  This is not assumed of the scheduler but shown, by `scheduler`: `EveryPostRuns`.
* The system runs each thread of the forwarder, and timeouts pass: weak fairness of each
  thread.
* The environment keeps its part: a client that was granted the resource releases it
  (`Resource.nc`), a default owner gives up what it owes, a device signals the end of a
  split-phase command (`SplitControl.nc`), a timer that is running fires, `AMSend` answers for
  what it accepted (strong, since it can do so only between handlers), a UART ends the byte it
  was given, the mote reads its line, a client of the forwarder ends the packet
  it has begun or leaves. Nobody is assumed to request, send, greet or stop
  anything, and the line may stay silent.

## 4. Proofs

TLAPS proves, for every value of the constants that satisfies the named assumptions:

| module | theorems | of the runs' properties | assumes |
|---|---|---|---|
| `SchedulerTimerProofs` | `SchedulerLinks`, `SchedulerNeverSleepsOnWork`, `SchedulerRefines`; also `SchedulerTypeOK`, `SchedulerIsWaitingExact` | `LinksMatchFifo`, `NeverSleepsOnWork`, `RefinesTaskQueue` | `NO_TASK` is no task |
| the same, of the timers | `TimerNeverEarly`, `TimersOnTime`; also `TimerAgeKnown` | `NeverEarly`, `TimersInv` | `TimerAssumption`; for `TimersOnTime` also `DelaysCounted` |
| `ArbiterProofs` | `ArbiterExclusive`, `ArbiterKeepsRequests`, `ArbiterRefusals`, `ArbiterRefines`; also `ArbiterTypes`, `ArbiterOwnerUndisturbed`, `ArbiterNeverHangs` | `ExclusiveUse`, `AcceptedInOrder`, `RefusedOnlyIfPending`, `RefinesResourceLock` | `ArbiterAssumption`, `OwnerAssumption`; `~OwnerMayRefuse` for `ArbiterRefusals` and `ArbiterNeverHangs` |
| `AsyncPoweredProofs` | `AsyncTypes`, `AsyncPoweredUnlessRaced`, `AsyncImplements`; also `AsyncExclusive`, `AsyncPowered` | `TypeOK`, `PoweredUnlessRaced`, `RefinesArbiter` of `AsyncPoweredArbiter` | `ArbiterAssumption`, `ManagersAssumption`; `AsyncPowered` is about `AsyncPowerManagerP` alone |
| `PoweredProofs` | `PoweredUseful`, `PoweredCommands`, `PoweredImplements`; also `PoweredExclusive` | `PowerInv`, `NoCommandDropped`, `RefinesArbiter` of `PoweredArbiter` | `ArbiterAssumption`; any device of any manager may fail |
| `ResourceQueuesProofs` | `FcfsRefines`, `QueuesCorrect`, `NobodyOvertakenTwice`; also `FcfsAnswers` | `RefinesFifo`, `QueuesInv`, `OvertakenOnce` | `SizeAssumption`, `NoEntryIsNoClient` |
| `AMQueueProofs` | `AMQueueSafe`, `AMQueueCompletesOnce`, `AMQueueCancels`, `AMQueueTakesTurns` | `SendInv`, `OneCompletion`, `CancelHonoured`, `TakingTurns` | `ClientsAssumption`, `NullAssumption` |
| `SerialLineProofs`, of the mote | `SerialBuffersApart`, `SerialTransmitterAwake`, `SerialStopDoneIsAsked` | `BuffersApart`, `TransmitterAwake`, `StopDoneIsAsked` | `MoteAssumption` |
| the same, of the forwarder | `SerialLinkCorrect`, `SerialPacketsInOrder` | `LinkInv`, `InOrder` | `SerialAssumption`, `BufferAssumption` |
| `TCPCommProofs` | `ServerCorrect`, `NothingMissed` | `ServerInv`, `NoGaps` | `TCPAssumption`, `BufferAssumption` |

In each, an inductive invariant is the properties with what they rest on, and has been checked
by TLC before it was proved. There is a lemma for each action, most of them called `...Keeps`,
with a step for each part of the invariant. Two modules hold the proofs of two components that
meet: the scheduler and the timers that run in its tasks, and the two ends of the serial line;
the names that both components of such a module would give to their `Init`, `Next` and
`TypeOK` begin with `Timers` and `Mote`.

*Scheduler.* The list alone is inductive: `LinksMatchFifo` says what each of the three
variables holds in terms of the FIFO, and `PushKeepsLinks` and `PopKeepsLinks` are one
lemma for each of the two operations. `NeverSleepsOnWork` is not: that WFE stops
on an empty queue only follows from `SleepInv`, which adds what holds while the core is
about to sleep (a task posted since the queue was found empty has set the event register).
The sleep of the msp432 is right because taking the interrupt sets the register that WFE
tests; with WFI in its place (`WaitForInterrupt`) the invariant breaks.

*Arbiter.* None of the properties is inductive, since `granted()` is signalled, and requests
are served, long after the section that decided it. The invariant `IndInv` ties the arbiter's
state to the calls in progress: `CallsNested` and `OneCallAsks` (how many calls of a kind there
may be), `StateMatchesCalls` and `StateMatchesHanding` (which state each point of a call
implies), `OneHolder` (who may have the hardware in each state), `ClientsMatchCalls` and
`OneImmediateEach` (what a client inside a call believes), `Moving` (who moves each state on),
and `AcceptedInOrder`. `ReturnFrames`, `ContinueFrames`, `NestedFrames` and `CallFrames` say
once what the four things that happen to `stack` do to the frames. The refinement needs the
invariant: that the owner is unique makes `holder` well defined, and `AcceptedInOrder` makes
the client granted the oldest.

*Asynchronous power managers.* `AsyncPoweredProofs` takes an instance `A` of `ArbiterProofs`
whose default owner never defers nor refuses, and has the resource when the manager was told so
(`Holds`). Each step of the powered arbiter is a step of `A` or a stutter (`StepMaps`), which
needs that `A`'s invariant holds up to there; so the theorems of the arbiter come with it,
`AsyncExclusive` for one. `OneArbiter` identifies `A` with the `Generic` of the property.
`AsyncPowered` adds that the device is on from the first grant to the last release. For the
deferred manager `StopTimerInv` says why it stays on while the resource is given away: either
`stopTimerTask` waits, and `stopTimer` is set until it has run, or the timer is stopped and
nothing is left that would start it or act on it. `Interrupted` and `Merged` are the two ways
for that to fail, and the only ones.

*Power managers in tasks.* An instance `B` of `ArbiterProofs`, whose default owner may defer and
refuse, is refined in the same way. What has to be shown is that the manager keeps its promise:
it owes a release (`Owes`) when it was asked for one and remembers it: in a task, a command in
progress or `requested`. `PoweredInv` is what it takes: where the device is while
the resource is given away (`GivenInv`), what the tasks and the timer wait for (`TasksInv`), the
device in transition (`DeviceInv`), the points of the manager's running code (`PointsInv`), and
what it has been asked for (`AskedInv`). A task queue can be one of five, since a
manager's tasks exclude each other but for one pair (`TaskCases`): every step is a few cases.
A device that failed unnoticed is where it was: `IsOn` and `IsOff` are what the manager may take
for done, `device = "on"` or `ignored`, and a `SplitControl` that refused its restart in
`stopDone` leaves `InfiniteRetryPowerManagerP` owing the resource with nothing under way
(`DeviceInv`). A request that is forgotten is owed no more. `SteadyInv` is for `SplitControl` or a
manager that does not repeat what was refused, `CommandsInv` for the latter: one that repeats
may ask for a start of a device that is on.

*Resource queues.* `ListIsQueue` says what `qHead`, `qTail` and each link hold in terms of the
queue of ids, as for the scheduler; the two operations keep it, and the answers follow from it.
The search of the round robin queue is a recursive function. Induction over it is not
available, so `LoopExists` shows that a function without recursion satisfies its equation, and
`LoopFinds` takes the least place at which the search would find something else, with `WFMin`
of the library, for a contradiction. That nobody is overtaken twice is then `TurnsInv`: who was
served before a waiting client comes behind it in the round that starts behind `last`.

*Message send queue.* The invariant is `SendInv`, `CancelInv` (a cancelled message is still
there, marked for `CancelTask` or in the hands of `AMSend`) and `TurnsInv`, the same idea of a
round as above: the place of a client in the round behind `current` is a number below
`numClients`, two clients have different ones (`OnePlaceEach`), and the next packet is the
least (`NextPacket`).

*Serial stack.* `SwitchInv` says where a switch-off is: asked for, under way (a task posted) or
done; that the states are quiet once it is under way; and, since `RunTx` looks at the
switch-off again, that no `RunTx` is posted behind it (`RunBeforeStop`: this is where the order
of the tasks matters). `RxInv` ties the buffers to the receiver, `TxInv` the packet in the
framer to what the dispatcher believes and to the byte in the UART. What is said of the
switch-off and of a frame midway is for a receiver that was not revived. The sections of `stop` are
steps of their own, with a lemma each (`StopTxKeeps`, `StopTestKeeps`, `StopDecidedKeeps`).

*Serial forwarder.* `OrderInv` lines up the whole way of a packet: what the mote saw last, the
line, the packet the writer holds and the buffer are in the order of the clients' numbers; an
acknowledgement is put in front of the buffer, where it has no place in that order. `FramesInv`
says that an acknowledgement from the mote is of a packet it has received, and no later than
the last. `FlightInv` is what makes an acknowledgement without a number right: as long as no
packet with a number as low has been sent twice or not been waited for, there is one packet or
one acknowledgement in flight, and it is what the writer waits for (`AckIsAwaited`).

*Clients of the forwarder.* The count of clients is the size of their set only as long as no
descriptor was reused: `addClient` counts one that is there already. `ConnInv` holds
whatever happens: a connection is open at one descriptor, the one it was copied with. So do the
reasons for which the server ends, and that nobody sleeps with clients. The rest is under
`~reused`: `OpenInv` (the descriptors of clients are open, and one that was copied and is still
open is a client's, so that no other is removed for it) and `GapsInv` (what a client was not
sent was dropped, or is the packet that the writer has still to send to it).
`OrderInv` says that the buffer holds the last packets, so that what the writer holds is older.

*Virtual timers.* `ClockInv` ties the record of a timer to its true age: they differ by a
multiple of the clock, and what `updateFromTimer` saw is not more than the age. From this
`TimerNeverEarly` follows for any delays and tasks however late: a timer that looks due has aged
by `dt` at least. That it fires in time needs more. `LateInv` says that lateness
grows only while something waits or runs, that no timer is later than that and one alarm
(`MaxLate` for the ticks between reading the time and setting the alarm), and that when nothing
waits the alarm is set for each timer that runs. It holds under `DelaysCounted`: no `dt` is
MAXINT, for which `updateFromTimer` sets no alarm, and tasks wait for at most a quarter of the
range of the clock, beyond which a timer that is overdue looks like one that has long to go. The
arithmetic is in lemmas on remainders, `ModDifference`, `ModTick` and `ModBetween` among them,
each about a few numbers within one or two turns of the clock, since the provers know little of
`%`; `WRAP` is linear in `MAXINT`, where a power of two would be out of their reach.

*Only model-checked*: liveness under fairness and ENABLED, which are out of the prover's reach:
`EveryPostRuns`, `EveryRequestGranted`, `GrantedUnlessRaced`, `PoweredDownUnlessRefused`,
`PoweredDownUnlessMerged`, `EverySendCompletes` (of the message queue and of the serial stack),
`EveryStopEnds`, `EveryPacketEnds`, `MoteIsHeard` and `GoneClientRemoved`. Every other property of
the passing runs is a theorem above. What a recursive definition computes cannot be proved by
induction with the installed provers, since the induction theorems take an operator as a
parameter; the least counterexample replaces it where it was needed.

## 5. Plan

What would add most from here, in this order:

1. `SimpleArbiter` and `PriorityArbiter`, with `ResourceLock` and a two-class variant of it as
   abstract specifications.
2. `TransformCounter` and `TransformAlarm`, below `VirtualizeTimer`, with the overflow
   interrupt pending.
3. `FragmentPool`; `Pool` and `Queue` as proved modules; the failure and restart of the
   forwarder's serial device.
4. `CtpForwarding` over `AMQueue`, `Pool` and the message cache; `Trickle` and `Dissemination`
   over a lossy network.
5. The CC2420 stack from the top: `UniqueReceive`, `PacketLink`, `CsmaStartStop`, the transmit
   state machine.

## 6. Not modelled

* Of the modelled components: the queries and tracing of the arbiter, the clean-up callbacks of
  the power managers, the choice of the power state, the headers `AMQueueEntryP` and
  `SerialActiveMessageP` fill in, and of the forwarder its
  control interface (`sfcontrol.cpp`), the framing of bytes, spurious wake-ups, the failure of
  the serial device and the cancellation that follows it.
* Network protocols (collection, dissemination, time synchronisation, the radio stacks): each
  needs several motes and a radio with it; they come after what they are built from. The
  regression of FTSP and the link estimator's fractions are arithmetic out of TLC's reach.
* Sequential containers (queues, pools, caches): called from tasks only, and within reach of
  unit tests.
* Alarms and counters: what is hard is the order in which a chip raises and clears its overflow
  flag, which its driver defines.
* Hardware: the registers of chip drivers, whose behaviour the repository does not state.
* Imported stacks (6LoWPAN, PPP, Deluge), applications, other host tools, build files and
  documents are outside the core; the documents were read for what they say of the components.

Counted in lines, nearly all of the tree's C, C++, Java and Python is in register descriptions
of chips (`tos/chips/*/include`), the generated wrappers and data of the simulator
(`tos/lib/tossim`), and host tools; the program's own logic is in nesC. A model that covered a
large share of those lines would be one of tables. `PROJECT.json` gives the reason for each
component.
