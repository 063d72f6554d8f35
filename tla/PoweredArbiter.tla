--------------------------- MODULE PoweredArbiter ---------------------------
(***************************************************************************)
(* The arbiter whose default owner is a power manager of tos/lib/power,    *)
(* driving a device: the device is powered up before a client is granted   *)
(* the resource and down when nobody wants it (TEP 115, section 4).        *)
(*                                                                         *)
(*   PowerManagerP                powers down at once                      *)
(*   InfiniteRetryPowerManagerP   the same, trying again what fails        *)
(*   DeferredPowerManagerP        powers down when a timer fires           *)
(*                                                                         *)
(* A manager runs in tasks and in the event handlers of the device and of  *)
(* the timer, below any interrupt: `power' holds the points its running    *)
(* code has yet to reach, the next one last.                               *)
(***************************************************************************)
EXTENDS ArbiterP

CONSTANTS Managers,          \* the managers to choose from
          FailingManagers    \* those of them whose device may fail or refuse

PowerManagers == {"PowerManagerP", "InfiniteRetryPowerManagerP", "DeferredPowerManagerP"}

ASSUME PowerAssumption == Managers \subseteq PowerManagers /\ FailingManagers \subseteq Managers

VARIABLES
  manager,               \* the power manager that is wired
  split,                 \* the device is wired to SplitControl, or else StdControl
  stopping, requested,   \* the variables of the manager; stopTimer is
  stopTimer,             \*   the one of DeferredPowerManagerP alone
  posted,                \* its tasks in the task queue, oldest first
  power,                 \* where its running code stands
  timer,                 \* TimerMilli is running
  device,                \* what the device is doing
  ignored,               \* history: the last command or its completion failed, and the
                         \*   manager, which does not look, goes on as if it had not
  late                   \* history: a request came between the test of `requested'
                         \*   in stopDone and the section that clears it

history == <<ignored, late>>
powerVars == <<manager, split, stopping, requested, stopTimer, posted, power, timer, device,
               history>>
vars == <<avars, powerVars>>

PowerTasks == {"startTask", "stopTask", "timerTask"}
PowerPoints == {"startDone", "startFailed", "release", "stopDone", "stopFailed", "clear"}
DeviceStates == {"off", "starting", "on", "stopping"}

TypeOK ==
  /\ ArbiterTypeOK
  /\ manager \in Managers
  /\ {split, stopping, requested, stopTimer, timer, ignored, late} \subseteq BOOLEAN
  /\ posted \in Seq(PowerTasks) /\ IsInjective(posted)
  /\ power \in Seq(PowerPoints)
  /\ device \in DeviceStates

Init ==
  /\ ArbiterInit
  /\ manager \in Managers
  /\ split \in BOOLEAN
  /\ stopping = FALSE
  /\ requested = FALSE
  /\ stopTimer = FALSE
  /\ posted = <<>>
  /\ power = <<>>
  /\ timer = FALSE
  /\ device = "off"
  /\ ignored = FALSE
  /\ late = FALSE

Deferred == manager = "DeferredPowerManagerP"
Retrying == manager = "InfiniteRetryPowerManagerP"

Posted(task) == IF Contains(posted, task) THEN posted ELSE Append(posted, task)

-----------------------------------------------------------------------------
(* The handlers of the events of ResourceDefaultOwner.                     *)

(* Mutant: a request is not remembered while the device stops. *)
OwnerRequestedForgets ==
  /\ posted' = IF stopping THEN posted ELSE Posted("startTask")
  /\ stopTimer' = IF stopping THEN stopTimer ELSE Deferred
  /\ UNCHANGED <<state, resId, reqResId, granting, manager, split, stopping, requested,
                 power, timer, device, history>>

OwnerRequested ==
  /\ IF stopping
       THEN requested' = TRUE /\ UNCHANGED <<stopTimer, posted>>
       ELSE /\ posted' = Posted("startTask")
            /\ stopTimer' = Deferred
            /\ UNCHANGED requested
  /\ late' = (late \/ (stopping /\ Contains(power, "clear")))
  /\ UNCHANGED <<state, resId, reqResId, granting, manager, split, stopping, power, timer,
                 device, ignored>>

(* Mutant: the resource is released with the device off. *)
OwnerImmediateReleases == OwnerRelease /\ UNCHANGED powerVars

OwnerImmediateRequested ==
  UNCHANGED <<state, resId, reqResId, granting, powerVars>>

OwnerGranted ==
  /\ stopping' = ~Deferred
  /\ posted' = Posted(IF Deferred THEN "timerTask" ELSE "stopTask")
  /\ UNCHANGED <<manager, split, requested, stopTimer, power, timer, device, history>>

-----------------------------------------------------------------------------
(* The tasks and the handlers of the events of device and timer.           *)

AtPower(point) == stack = <<>> /\ power # <<>> /\ Last(power) = point
NoTaskRuns == stack = <<>> /\ power = <<>>

Start(task) == NoTaskRuns /\ posted # <<>> /\ Head(posted) = task

Fails == manager \in FailingManagers

(* What a command does to a device that takes it: a SplitControl device    *)
(* goes through `during', a StdControl device does not; one that is not in *)
(* the state `from' has nothing to do, or answers EALREADY or EBUSY.       *)
Obeyed(from, during, to) ==
  /\ device' = IF device # from THEN device ELSE IF split THEN during ELSE to
  /\ ignored' = FALSE

(* A manager that looks at the result learns that the device refused.      *)
Refused == Fails /\ UNCHANGED <<device, power, ignored>>

(* One that does not, goes on. *)
RefusalIgnored(to) ==
  /\ Fails
  /\ ignored' = (device # to)
  /\ UNCHANGED device

(* With StdControl alone the default SplitControl.start signals startDone  *)
(* before it returns to the points `after', and so does SplitControl.stop. *)
StartReturns(after) == power' = IF split THEN after ELSE Append(after, "startDone")
StopReturns == power' = IF split THEN power ELSE <<"stopDone">>

StartObeyed == Obeyed("off", "starting", "on")
StopObeyed == Obeyed("on", "stopping", "off")

startTask ==
  /\ Start("startTask")
  /\ IF split /\ device = "on"
       THEN /\ power' = IF Deferred THEN <<"release">> ELSE <<>>
            /\ posted' = IF Retrying THEN posted ELSE Tail(posted)
            /\ UNCHANGED <<device, ignored>>
       ELSE \/ StartObeyed /\ StartReturns(<<>>) /\ posted' = Tail(posted)
            \/ Retrying /\ Refused /\ posted' = posted
            \/ ~Retrying /\ RefusalIgnored("on") /\ StartReturns(<<>>) /\ posted' = Tail(posted)
  /\ timer' = (~Deferred /\ timer)
  /\ stopTimer' = FALSE
  /\ UNCHANGED <<avars, manager, split, stopping, requested, late>>

(* A refused stop of InfiniteRetryPowerManagerP posts startTask, not       *)
(* stopTask.                                                               *)
stopTask ==
  /\ Start("stopTask")
  /\ \/ StopObeyed /\ StopReturns /\ posted' = Tail(posted)
     \/ Retrying /\ Refused /\ posted' = Tail(posted) \o <<"startTask">>
     \/ ~Retrying /\ RefusalIgnored("off") /\ StopReturns /\ posted' = Tail(posted)
  /\ UNCHANGED <<avars, manager, split, stopping, requested, stopTimer, timer, late>>

timerTask ==
  /\ Start("timerTask")
  /\ posted' = Tail(posted)
  /\ timer' = TRUE
  /\ UNCHANGED <<avars, manager, split, stopping, requested, stopTimer, power, device, history>>

(* The timer's handler stops the device, one atomic section.  stopDone is  *)
(* signalled inside it with StdControl alone, and if a SplitControl was    *)
(* off already, and leaves `stopping' as it was.                           *)
StopInSection ==
  /\ StopObeyed \/ RefusalIgnored("off")
  /\ IF split /\ device # "off"
       THEN stopping' = TRUE /\ UNCHANGED requested
       ELSE requested' = FALSE /\ UNCHANGED stopping
  /\ UNCHANGED power

(* Mutant: the test of stopTimer is left out. *)
firedDeaf ==
  /\ NoTaskRuns
  /\ timer
  /\ timer' = FALSE
  /\ StopInSection
  /\ UNCHANGED <<avars, manager, split, stopTimer, posted, late>>

(* TimerMilli.fired. *)
fired ==
  /\ NoTaskRuns
  /\ timer
  /\ timer' = FALSE
  /\ IF stopTimer THEN UNCHANGED <<stopping, requested, power, device, ignored>>
                  ELSE StopInSection
  /\ UNCHANGED <<avars, manager, split, stopTimer, posted, late>>

(* The device signals startDone or stopDone, from a task of its driver.    *)
DeviceDone(fails) ==
  /\ NoTaskRuns
  /\ fails => Fails
  /\ \/ /\ device = "starting"
        /\ device' = IF fails THEN "off" ELSE "on"
        /\ power' = IF fails THEN <<"startFailed">> ELSE <<"startDone">>
     \/ /\ device = "stopping"
        /\ device' = IF fails THEN "on" ELSE "off"
        /\ power' = IF fails THEN <<"stopFailed">> ELSE <<"stopDone">>
  /\ UNCHANGED <<avars, manager, split, stopping, requested, stopTimer, posted, timer, history>>

(* SplitControl.startDone(FAIL): InfiniteRetryPowerManagerP tries again,   *)
(* the others do not look at the error.                                    *)
startFailed ==
  /\ AtPower("startFailed")
  /\ IF Retrying
       THEN posted' = Posted("startTask") /\ power' = Front(power) /\ UNCHANGED ignored
       ELSE power' = Append(Front(power), "startDone") /\ ignored' = TRUE /\ UNCHANGED posted
  /\ UNCHANGED <<avars, manager, split, stopping, requested, stopTimer, timer, device, late>>

(* SplitControl.startDone: release the resource, if it is the owner's,     *)
(* which DeferredPowerManagerP leaves to ArbiterP to test.                 *)
startDone ==
  /\ AtPower("startDone")
  /\ power' = IF Deferred \/ state \in {"DEF_OWNED", "PREGRANT"}
                THEN Append(Front(power), "release") ELSE Front(power)
  /\ UNCHANGED <<avars, manager, split, stopping, requested, stopTimer, posted, timer, device,
                 history>>

releaseResource ==
  /\ AtPower("release")
  /\ OwnerRelease
  /\ power' = Front(power)
  /\ UNCHANGED <<queue, stack, client, configured, accepted>>
  /\ UNCHANGED <<manager, split, stopping, requested, stopTimer, posted, timer, device, history>>

(* Mutant: a stop that failed is taken for done. *)
stopFailedIgnored ==
  /\ AtPower("stopFailed")
  /\ power' = Append(Front(power), "stopDone") /\ UNCHANGED posted
  /\ UNCHANGED <<avars, manager, split, stopping, requested, stopTimer, timer, device, history>>

stopFailed ==
  /\ AtPower("stopFailed")
  /\ IF Retrying
       THEN posted' = Posted("stopTask") /\ power' = Front(power) /\ UNCHANGED ignored
       ELSE power' = Append(Front(power), "stopDone") /\ ignored' = TRUE /\ UNCHANGED posted
  /\ UNCHANGED <<avars, manager, split, stopping, requested, stopTimer, timer, device, late>>

(* SplitControl.stopDone: start again if there was a request meanwhile,    *)
(* whatever the device answers ...                                         *)
stopDone ==
  /\ AtPower("stopDone")
  /\ IF requested
       THEN (StartObeyed \/ RefusalIgnored("on")) /\ StartReturns(<<"clear">>)
       ELSE power' = <<"clear">> /\ UNCHANGED <<device, ignored>>
  /\ UNCHANGED <<avars, manager, split, stopping, requested, stopTimer, posted, timer, late>>

(* Mutant: stopping is not reset. *)
clearRequested ==
  /\ AtPower("clear")
  /\ requested' = FALSE
  /\ power' = Front(power)
  /\ UNCHANGED <<avars, manager, split, stopping, stopTimer, posted, timer, device, history>>

(* ... and, in an atomic section of its own, forget both flags. *)
clear ==
  /\ AtPower("clear")
  /\ stopping' = FALSE
  /\ requested' = FALSE
  /\ power' = Front(power)
  /\ UNCHANGED <<avars, manager, split, stopTimer, posted, timer, device, history>>

Handler ==
  startDone \/ startFailed \/ releaseResource \/ stopDone \/ stopFailed \/ clear

PowerStep == startTask \/ stopTask \/ timerTask \/ fired \/ Handler

-----------------------------------------------------------------------------
RunCall ==
  RunningCall(OwnerRequested, OwnerImmediateRequested, OwnerGranted, UNCHANGED powerVars)

RunGrantedTask == power = <<>> /\ StartGranted /\ UNCHANGED powerVars

(* While code of the power manager runs, clients call from interrupts only.*)
ClientReleases(c) ==
  /\ power # <<>> => MaxNest > 0
  /\ Release(c, OwnerGranted, UNCHANGED powerVars)

ClientCalls(c) ==
  /\ CallRequest(c) \/ CallImmediate(c)
  /\ power # <<>> => stack'[1].irq
  /\ UNCHANGED powerVars

Next ==
  \/ RunCall
  \/ RunGrantedTask
  \/ PowerStep
  \/ \E fails \in BOOLEAN : DeviceDone(fails)
  \/ \E c \in Clients : ClientReleases(c) \/ ClientCalls(c)

Spec == Init /\ [][Next]_vars

startTaskSucceeds == startTask /\ (device = "off" => device' # "off")

(* As in Arbiter: calls return, posted tasks run, clients release; the     *)
(* device signals startDone and stopDone (SplitControl.nc) and does not    *)
(* fail or refuse for ever; the timer fires if nobody stops it.            *)
FairSpec ==
  /\ Spec
  /\ \A depth \in 0..MaxNest : SF_vars(RunCall /\ Cardinality(Interrupts) = depth)
  /\ SF_vars(RunGrantedTask)
  /\ SF_vars(startTaskSucceeds \/ stopTask \/ timerTask \/ Handler)
  /\ SF_vars(fired)
  /\ SF_vars(DeviceDone(FALSE))
  /\ \A c \in Clients : SF_vars(ClientReleases(c))

-----------------------------------------------------------------------------
At(points) == \E i \in 1..Len(stack) : stack[i].at \in points

(* Nobody is about to power the device down while a client owns the        *)
(* resource: no code of the manager runs, no stop is posted, no timer is   *)
(* running or about to be started.                                         *)
Undisturbed ==
  /\ power = <<>> /\ ~timer
  /\ ~Contains(posted, "stopTask") /\ ~Contains(posted, "timerTask")

(* A client that owns the resource finds the device fully powered on, as   *)
(* TEP 115 has it (section 4.1), with nobody about to power it down, unless*)
(* the device refused or failed the last start and the manager did not     *)
(* look at the result (stopDone of each manager; startTask, startDone of   *)
(* those that do not retry).  The types come with it.                      *)
PowerInv ==
  /\ TypeOK
  /\ \A c \in Clients : client[c] = "owner" => Undisturbed /\ (device = "on" \/ ignored)

(* InfiniteRetryPowerManagerP was refused a stop: it has posted startTask, *)
(* which a SplitControl device that is on refuses in turn, for ever, and   *)
(* goes on believing that it stops.                                        *)
StopRefused == Retrying /\ stopping /\ Contains(posted, "startTask")

(* Each power transition is asked for only of a device that can make it,   *)
(* since most of what the device returns is ignored: no start is asked of  *)
(* a device that is on or still stopping, but for the startTask of         *)
(* DeferredPowerManagerP, which looks at EALREADY, and no stop of one that *)
(* is not on (startTask, stopTask, fired, stopDone).  This is so until the *)
(* manager ignores a failure; InfiniteRetryPowerManagerP repeats what was  *)
(* refused, whatever the device does.                                      *)
NoCommandDropped ==
  [][~ignored /\ (Retrying => ~Fails) =>
       /\ startTask => device = "off" \/ (Deferred /\ device = "on")
       /\ stopDone /\ requested => device = "off"
       /\ stopTask \/ (fired /\ ~stopTimer) => device = "on"]_vars

(* The device refused or failed a stop, and nobody looked. *)
Unstopped == ignored /\ device = "on"

(* A device nobody wants is powered down, even if it fails to at first, or *)
(* a client gets it; unless a stop was refused, or failed a manager that   *)
(* does not retry.                                                         *)
PoweredDownUnlessRefused ==
  \/ <>(StopRefused \/ Unstopped)
  \/ (device = "on" ~> device = "off" \/ \E c \in Clients : client[c] = "owner")

(* The manager knows that it owes the resource to a client: a start is     *)
(* posted, under way or done, or will follow the stop.                     *)
Remembers ==
  \/ Contains(posted, "startTask")
  \/ device = "starting"
  \/ \E i \in 1..Len(power) : power[i] \in {"startDone", "startFailed", "release"}
  \/ stopping /\ requested

(* The device of a SplitControl refused the start in stopDone, and nobody  *)
(* looked: no startDone will come.                                         *)
Unstarted == split /\ ignored

(* A request came while immediateRequest was about to give up: nobody      *)
(* looks at the queue then (immediateRequest of ArbiterP.nc).              *)
Stranded == state = "IMM_GRANTING" /\ queue # <<>>

(* Every accepted request is granted, whatever the device was doing when   *)
(* it came and however often it fails, unless one of these races loses it  *)
(* or a stop was refused.                                                  *)
GrantedUnlessRaced ==
  \/ <>(late \/ Unstarted \/ Stranded \/ StopRefused)
  \/ \A c \in Clients : Contains(accepted, c) ~> client[c] = "owner"

(* A power manager is a default owner as Arbiter has it: asked for the     *)
(* resource it owes it, which while it is stopping only its own flag and   *)
(* tasks tell, and releases it later; asked for it immediately it keeps it.*)
Generic ==
  INSTANCE Arbiter WITH
    OwnerMayDefer  <- TRUE,
    OwnerMayRefuse <- TRUE,
    ownerOwes  <- state = "PREGRANT" /\ ~At({"askOwner"}) /\ (stopping => Remembers),
    ownerHolds <- state \in {"DEF_OWNED", "PREGRANT", "IMM_GRANTING"}
RefinesArbiter == Generic!Spec
=============================================================================
