------------------------ MODULE AsyncPoweredArbiter -------------------------
(***************************************************************************)
(* The arbiter whose default owner is an asynchronous power manager of     *)
(* tos/lib/power, for a device that is switched on and off at once and     *)
(* from any context (AsyncStdControl): requests, immediate ones too,       *)
(* switch it on and are served in the same handler.                        *)
(*                                                                         *)
(*   AsyncPowerManagerP           switches off at the last release         *)
(*   AsyncDeferredPowerManagerP   when a timer started then fires          *)
(*                                                                         *)
(* The two tasks and the handler of the timer are each cut in two, where   *)
(* an interrupt can come between what they read and what they do.  The     *)
(* order of the tasks, grantedTask included, is the one of the scheduler.  *)
(***************************************************************************)
EXTENDS ArbiterP

CONSTANT Managers   \* the power managers to choose from

ASSUME ManagersAssumption == Managers \subseteq {"AsyncPowerManagerP", "AsyncDeferredPowerManagerP"}

VARIABLES
  manager,     \* the power manager that is wired
  stopTimer,   \* AsyncDeferredPowerManagerP: a request came, do not stop
  posted,      \* the tasks of manager and arbiter in the task queue, oldest first
  power,       \* where its task or handler stands, "none" if none runs
  timer,       \* TimerMilli is running
  device       \* "on" or "off"

powerVars == <<manager, stopTimer, posted, power, timer, device>>
vars == <<avars, powerVars>>

TypeOK ==
  /\ ArbiterTypeOK
  /\ manager \in Managers
  /\ stopTimer \in BOOLEAN
  /\ posted \in Seq({"stopTimerTask", "timerTask", "grantedTask"}) /\ IsInjective(posted)
  /\ granting <=> Contains(posted, "grantedTask")
  /\ power \in {"none", "clear", "arm", "stop"}
  /\ timer \in BOOLEAN
  /\ device \in {"on", "off"}

Init ==
  /\ ArbiterInit
  /\ manager \in Managers
  /\ stopTimer = FALSE
  /\ posted = <<>>
  /\ power = "none"
  /\ timer = FALSE
  /\ device = "off"

Deferred == manager = "AsyncDeferredPowerManagerP"

-----------------------------------------------------------------------------
(* Mutant: a post that does not see that the task is waiting. *)
PostedAgain(task) == Append(posted, task)

(* The task queue after a post. *)
Posted(task) == IF Contains(posted, task) THEN posted ELSE Append(posted, task)

(* A post of grantedTask by the arbiter in this step. *)
Granting == IF granting' /\ ~granting THEN <<"grantedTask">> ELSE <<>>

Unchanged == posted' = posted \o Granting /\ UNCHANGED <<manager, stopTimer, power, timer, device>>

(* The handlers of the events of ResourceDefaultOwner.  In both managers   *)
(* requested() and immediateRequested() have the same body: switch on,     *)
(* then release; until the release the resource is the manager's, and no   *)
(* call of an interrupt handler touches the device in between.             *)

(* Mutant: the timer is left to fire. *)
OwnerRequestedTimed ==
  /\ device' = "on"
  /\ OwnerRelease
  /\ posted' = posted \o Granting
  /\ UNCHANGED <<manager, stopTimer, power, timer>>

(* Mutant: the resource is not released. *)
OwnerRequestedKeeps ==
  /\ stopTimer' = Deferred
  /\ posted' = IF Deferred THEN Posted("stopTimerTask") ELSE posted
  /\ device' = "on"
  /\ UNCHANGED <<state, resId, reqResId, granting, manager, power, timer>>

OwnerRequested ==
  /\ stopTimer' = Deferred
  /\ device' = "on"
  /\ OwnerRelease
  /\ posted' = (IF Deferred THEN Posted("stopTimerTask") ELSE posted) \o Granting
  /\ UNCHANGED <<manager, power, timer>>

OwnerGranted ==
  /\ IF Deferred
       THEN posted' = Posted("timerTask") /\ UNCHANGED device
       ELSE device' = "off" /\ UNCHANGED posted
  /\ UNCHANGED <<manager, stopTimer, power, timer>>

-----------------------------------------------------------------------------
NoTaskRuns == stack = <<>> /\ power = "none"

Start(task) ==
  /\ NoTaskRuns
  /\ posted # <<>>
  /\ Head(posted) = task
  /\ posted' = Tail(posted)

stopTimerTask ==
  /\ Start("stopTimerTask")
  /\ timer' = FALSE
  /\ power' = "clear"
  /\ UNCHANGED <<avars, manager, stopTimer, device>>

clear ==
  /\ stack = <<>> /\ power = "clear"
  /\ stopTimer' = FALSE
  /\ power' = "none"
  /\ UNCHANGED <<avars, manager, posted, timer, device>>

(* Mutant: the test of stopTimer is inverted. *)
timerTaskInverted ==
  /\ Start("timerTask")
  /\ power' = IF stopTimer THEN "arm" ELSE "none"
  /\ UNCHANGED <<avars, manager, stopTimer, timer, device>>

timerTask ==
  /\ Start("timerTask")
  /\ power' = IF stopTimer THEN "none" ELSE "arm"
  /\ UNCHANGED <<avars, manager, stopTimer, timer, device>>

startOneShot ==
  /\ stack = <<>> /\ power = "arm"
  /\ timer' = TRUE
  /\ power' = "none"
  /\ UNCHANGED <<avars, manager, stopTimer, posted, device>>

(* TimerMilli.fired: the delay has passed, some time after startOneShot. *)
fired ==
  /\ NoTaskRuns
  /\ timer
  /\ timer' = FALSE
  /\ power' = IF stopTimer THEN "none" ELSE "stop"
  /\ UNCHANGED <<avars, manager, stopTimer, posted, device>>

stop ==
  /\ stack = <<>> /\ power = "stop"
  /\ device' = "off"
  /\ power' = "none"
  /\ UNCHANGED <<avars, manager, stopTimer, posted, timer>>

PowerStep == stopTimerTask \/ clear \/ timerTask \/ startOneShot \/ fired \/ stop

-----------------------------------------------------------------------------
RunCall ==
  RunningCall(OwnerRequested, OwnerRequested, OwnerGranted, Unchanged)

RunGrantedTask ==
  /\ StartGranted
  /\ Start("grantedTask")
  /\ UNCHANGED <<manager, stopTimer, power, timer, device>>

(* While code of the power manager runs, clients call from interrupts only.*)
ClientReleases(c) ==
  /\ power # "none" => MaxNest > 0
  /\ Release(c, OwnerGranted, Unchanged)

ClientCalls(c) ==
  /\ CallRequest(c) \/ CallImmediate(c)
  /\ power # "none" => stack'[1].irq
  /\ UNCHANGED powerVars

Next ==
  \/ RunCall
  \/ RunGrantedTask
  \/ PowerStep
  \/ \E c \in Clients : ClientReleases(c) \/ ClientCalls(c)

Spec == Init /\ [][Next]_vars

(* As in Arbiter: calls return, posted tasks run, clients release; and the *)
(* timer, once started, fires if nobody stops it.                          *)
FairSpec ==
  /\ Spec
  /\ \A depth \in 0..MaxNest : SF_vars(RunCall /\ Cardinality(Interrupts) = depth)
  /\ SF_vars(RunGrantedTask)
  /\ SF_vars(stopTimerTask \/ timerTask)
  /\ SF_vars(clear \/ startOneShot \/ stop)
  /\ SF_vars(fired)
  /\ \A c \in Clients : SF_vars(ClientReleases(c))

-----------------------------------------------------------------------------
(* A client that owns the resource finds the device on, and the manager    *)
(* not about to switch it off (AsyncDeferredPowerManagerP.nc: devices "are *)
(* powered down according to some policy whenever there are no more        *)
(* pending requests").                                                     *)
PoweredUse == \A c \in Clients : client[c] = "owner" => device = "on" /\ power # "stop"

(* A request came in the middle of a handler: between the timer's test of  *)
(* stopTimer and its stop, or before stopTimerTask clears stopTimer.       *)
Interrupted ==
  \/ power = "stop" /\ stopTimer
  \/ power = "clear" /\ Contains(posted, "stopTimerTask")

Before(task, later) ==
  \E i, j \in 1..Len(posted) : i < j /\ posted[i] = task /\ posted[j] = later

(* The two tasks wait in another order than the events that posted them: a *)
(* post of a task that is waiting has no effect.                           *)
Merged ==
  IF state = "DEF_OWNED"
    THEN Before("timerTask", "stopTimerTask")
    ELSE Before("stopTimerTask", "timerTask")

(* The device stays on for whoever has the resource, whenever the timer of *)
(* an earlier release fires, unless one of these things happens.           *)
PoweredUnlessRaced == <>Interrupted \/ <>Merged \/ []PoweredUse

(* The device is switched off, at once or "after some small delay from     *)
(* being released" (TEP 115, section 4.2), or a client gets it again,      *)
(* unless tasks merge.                                                     *)
PoweredDownUnlessMerged ==
  \/ <>Merged
  \/ (device = "on" /\ state = "DEF_OWNED" ~> device = "off" \/ \E c \in Clients : client[c] = "owner")

(* The power manager has the resource, as far as it was told. *)
Holds == state \in {"DEF_OWNED", "PREGRANT", "IMM_GRANTING"}

(* The power manager is a default owner as Arbiter has it, one that always *)
(* releases the resource in the handler that asks for it.                  *)
Generic ==
  INSTANCE Arbiter WITH
    OwnerMayDefer  <- FALSE,
    OwnerMayRefuse <- FALSE,
    ownerOwes  <- FALSE,
    ownerHolds <- Holds
RefinesArbiter == Generic!Spec
=============================================================================
