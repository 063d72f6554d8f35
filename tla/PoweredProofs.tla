---------------------------- MODULE PoweredProofs ----------------------------
(***************************************************************************)
(* For every set of clients and every nesting of interrupts: an arbiter    *)
(* with a power manager that runs in tasks is an arbiter with a default    *)
(* owner that keeps to its contract, so that what ArbiterProofs proves of  *)
(* the latter holds of it; and whoever owns the resource finds the device  *)
(* on, with nobody about to switch it off, unless the manager ignored that *)
(* the device did not start.                                               *)
(***************************************************************************)
EXTENDS PoweredArbiter, TLAPS

(* The manager as a default owner: when it owes the resource, and when it  *)
(* has it.                                                                 *)
Owes == state = "PREGRANT" /\ ~At({"askOwner"}) /\ (stopping => Remembers)
Keeps == state \in {"DEF_OWNED", "PREGRANT", "IMM_GRANTING"}

B ==
  INSTANCE ArbiterProofs WITH
    OwnerMayDefer  <- TRUE,
    OwnerMayRefuse <- TRUE,
    ownerOwes  <- Owes,
    ownerHolds <- Keeps

LEMMA PoweredAssumptions == B!ArbiterAssumption /\ B!OwnerAssumption
  BY ArbiterAssumption DEF B!ArbiterAssumption, B!OwnerAssumption

(* The text of the arbiter is one, whoever its default owner is. *)
LEMMA SamePoweredCalls ==
  /\ \A c : CallRequest(c) <=> B!CallRequest(c)
  /\ \A c : CallImmediate(c) <=> B!CallImmediate(c)
  /\ Enqueue <=> B!Enqueue
  /\ Claim <=> B!Claim
  /\ Take <=> B!Take
  /\ Check <=> B!Check
  /\ GiveUp <=> B!GiveUp
  /\ Grant <=> B!Grant
  /\ Configure <=> B!Configure
  /\ SignalGranted <=> B!SignalGranted
  /\ StartGranted <=> B!StartGranted
  /\ OwnerRelease <=> B!OwnerRelease
<1>1. \A c : CallRequest(c) <=> B!CallRequest(c)
  BY DEF CallRequest, Call, Interrupts, Cardinality, B!CallRequest, B!Call,
     B!Interrupts, B!Cardinality
<1>2. \A c : CallImmediate(c) <=> B!CallImmediate(c)
  BY DEF CallImmediate, Call, Interrupts, Cardinality, Contains, B!CallImmediate,
     B!Call, B!Interrupts, B!Cardinality, B!Contains
<1>3. Enqueue <=> B!Enqueue
  BY DEF Enqueue, Running, Caller, Continue, Return, Contains, B!Enqueue,
     B!Running, B!Caller, B!Continue, B!Return, B!Contains
<1>4. Claim <=> B!Claim
  BY DEF Claim, Running, Continue, Return, B!Claim, B!Running, B!Continue,
     B!Return
<1>5. Take <=> B!Take
  BY DEF Take, Running, Caller, Continue, Return, Fail, B!Take, B!Running,
     B!Caller, B!Continue, B!Return, B!Fail
<1>6. Check <=> B!Check
  BY DEF Check, Running, Caller, Continue, Return, B!Check, B!Running, B!Caller,
     B!Continue, B!Return
<1>7. GiveUp <=> B!GiveUp
  BY DEF GiveUp, Running, Caller, Return, Fail, B!GiveUp, B!Running, B!Caller,
     B!Return, B!Fail
<1>8. Grant <=> B!Grant
  BY DEF Grant, Running, Continue, B!Grant, B!Running, B!Continue
<1>9. Configure <=> B!Configure
  BY DEF Configure, Running, Continue, B!Configure, B!Running, B!Continue
<1>10. SignalGranted <=> B!SignalGranted
  BY DEF SignalGranted, Running, Return, B!SignalGranted, B!Running, B!Return
<1>11. StartGranted <=> B!StartGranted
  BY DEF StartGranted, B!StartGranted
<1>12. OwnerRelease <=> B!OwnerRelease
  BY DEF OwnerRelease, B!OwnerRelease
<1>. QED
  BY <1>1, <1>2, <1>3, <1>4, <1>5, <1>6, <1>7, <1>8, <1>9, <1>10, <1>11, <1>12

-----------------------------------------------------------------------------
(* What the manager relies on of the arbiter: it has been given away, it   *)
(* serves a client or is about to, nobody asks the manager for it or its   *)
(* handler has yet to hear of it, and the manager owes it.                 *)
AtPoint(point) == \E i \in 1..Len(stack) : stack[i].at = point

Given == state \in {"GRANTING", "BUSY"}
Serving == state = "BUSY" \/ AtPoint("grant")
Unasked == state \in {"DEF_OWNED", "IMM_GRANTING"} \/ AtPoint("askOwner")
Owing == state = "PREGRANT" /\ ~AtPoint("askOwner")

(* The contents of the task queue, and the points of the manager's code.   *)
Empty == <<>>
StartOnly == <<"startTask">>
StopOnly == <<"stopTask">>
TimerOnly == <<"timerTask">>
TimerStart == <<"timerTask", "startTask">>
Started == <<"startDone">>
NotStarted == <<"startFailed">>
ReleaseOnly == <<"release">>
Stopped == <<"stopDone">>
NotStopped == <<"stopFailed">>
ClearOnly == <<"clear">>
ClearStarted == <<"clear", "startDone">>
ClearRelease == <<"clear", "release">>

(* The inductive invariant, in terms of these.                             *)
SplitTypeOK ==
  /\ manager \in Managers
  /\ split \in BOOLEAN /\ stopping \in BOOLEAN /\ requested \in BOOLEAN
  /\ stopTimer \in BOOLEAN /\ timer \in BOOLEAN
  /\ posted \in {Empty, StartOnly, StopOnly, TimerOnly, TimerStart}
  /\ power \in {Empty, Started, NotStarted, ReleaseOnly, Stopped, NotStopped,
                ClearOnly, ClearStarted, ClearRelease}
  /\ device \in {"off", "starting", "on", "stopping"}
  /\ ignored \in BOOLEAN /\ late \in BOOLEAN

(* What the manager may take for done. *)
IsOn == device = "on" \/ ignored
IsOff == device = "off" \/ ignored

(* A resource that was given away is powered, and nothing is left to be    *)
(* done that would change this.                                            *)
GivenInv ==
  /\ Given => IsOn /\ posted = Empty /\ ~timer /\ power \in {Empty, ClearOnly}
  /\ Serving => power = Empty

StartPosted == posted \in {StartOnly, TimerStart}
StopPosted == posted = StopOnly
TimerPosted == posted \in {TimerOnly, TimerStart}

(* The tasks and the timer wait for a device that can take the command. *)
TasksInv ==
  /\ posted # Empty => power = Empty
  /\ StopPosted => ~Deferred /\ stopping /\ IsOn
  /\ TimerPosted => Deferred /\ IsOn /\ ~timer
  /\ StartPosted => device \in {"on", "off"} /\ (Owing \/ stopping)
  /\ StartPosted /\ stopping => Retrying /\ Fails /\ (split => device = "on")
  /\ Deferred => (stopTimer <=> StartPosted)
  /\ timer => Deferred /\ IsOn /\ power = Empty
  /\ (timer \/ TimerPosted) /\ Owing => stopTimer
  /\ Deferred /\ stopping => split /\ posted = Empty /\ ~timer

(* The device changes its state for the resource that is owed, or while    *)
(* the manager notes that it stops.  A device that refused is in neither   *)
(* transition, and InfiniteRetryPowerManagerP never learns that it refused *)
(* in stopDone.                                                            *)
DeviceInv ==
  /\ device \in {"starting", "stopping"} => split /\ posted = Empty
  /\ device = "starting" => Owing /\ power = (IF stopping THEN ClearOnly ELSE Empty)
  /\ device = "stopping" => power = Empty /\ stopping
  /\ ignored => device \in {"on", "off"}
  /\ split /\ Retrying /\ ignored =>
       Owing /\ posted = Empty /\ device = "off" /\ power = (IF stopping THEN ClearOnly ELSE Empty)

(* Where the manager's code stands says what the device has done. *)
Starts == power \in {Started, ReleaseOnly, ClearStarted, ClearRelease}
Clears == power \in {ClearOnly, ClearStarted, ClearRelease}

PointsInv ==
  /\ Starts => IsOn
  /\ power = NotStarted => device = "off" /\ Owing /\ ~stopping
  /\ power = NotStopped => device = "on" /\ stopping
  /\ power = Stopped => IsOff /\ stopping
  /\ Clears => stopping
  /\ split => power \notin {ClearStarted, ClearRelease}

(* A manager that is asked and does not stop has nothing under way, and    *)
(* one that stops notes that it was asked.                                 *)
AskedInv ==
  /\ ~stopping /\ Unasked => ~StartPosted /\ power = Empty /\ device \in {"off", "on"}
  /\ Owing /\ stopping => requested

(* With SplitControl, or without a retry, a start is for the resource that *)
(* is owed, and what was noted while stopping is forgotten before the next *)
(* stop.                                                                   *)
RetryFails == Retrying /\ Fails

SteadyInv ==
  /\ Starts => Owing
  /\ power \in {Started, ReleaseOnly} => ~stopping
  /\ requested => stopping /\ (Owing \/ (Given /\ power = ClearOnly))
  /\ power = ClearOnly => Given \/ Owing \/ device # "on" \/ ignored
  /\ Given /\ stopping => power = ClearOnly

(* A device whose refusals nobody repeats is off whenever nobody has,      *)
(* wants or gives up the resource, but for DeferredPowerManagerP, which    *)
(* waits.                                                                  *)
CommandsInv ==
  /\ ~Deferred /\ ~stopping /\ Unasked => IsOff
  /\ StartPosted => (~Deferred => IsOff)

PoweredInv ==
  /\ SplitTypeOK /\ GivenInv /\ TasksInv /\ DeviceInv /\ PointsInv /\ AskedInv
  /\ split \/ ~RetryFails => SteadyInv
  /\ ~RetryFails => CommandsInv

-----------------------------------------------------------------------------
(* Sequences of one and of two. *)
LEMMA OneAndTwo ==
  ASSUME NEW x, NEW y
  PROVE  /\ Append(<<>>, x) = <<x>> /\ Append(<<x>>, y) = <<x, y>>
         /\ Head(<<x>>) = x /\ Head(<<x, y>>) = x
         /\ Tail(<<x>>) = <<>> /\ Tail(<<x, y>>) = <<y>>
         /\ Last(<<x>>) = x /\ Last(<<x, y>>) = y
         /\ Front(<<x>>) = <<>> /\ Front(<<x, y>>) = <<x>>
         /\ <<>> \o <<x>> = <<x>> /\ <<x>> \o <<>> = <<x>> /\ <<>> \o <<>> = <<>>
<1>0. Len(<<x>>) = 1 /\ Len(<<x, y>>) = 2 /\ Len(<<x>>) - 1 = 0 /\ Len(<<x, y>>) - 1 = 1
  OBVIOUS
<1>1. Append(<<>>, x) = <<x>> /\ Append(<<x>>, y) = <<x, y>>
  <2> DEFINE T == {x, y}
             s == Append(<<>>, x)
             t == Append(<<x>>, y)
  <2>1. s \in Seq(T) /\ Len(s) = 1 /\ s[1] = x /\ <<x>> \in Seq(T) /\ <<x>>[1] = x
    OBVIOUS
  <2>2. s = <<x>>
    <3>. HIDE DEF s, T
    <3>. QED
      BY <1>0, <2>1
  <2>3. t \in Seq(T) /\ Len(t) = 2 /\ t[1] = x /\ t[2] = y
    OBVIOUS
  <2>4. <<x, y>> \in Seq(T) /\ <<x, y>>[1] = x /\ <<x, y>>[2] = y
    OBVIOUS
  <2>5. t = <<x, y>>
    <3>. HIDE DEF t, T
    <3>. QED
      BY <1>0, <2>3, <2>4
  <2>. QED
    BY <2>2, <2>5
<1>2. Head(<<x>>) = x /\ Head(<<x, y>>) = x
  OBVIOUS
<1>3. Tail(<<x>>) = <<>>
  OBVIOUS
<1>4. Tail(<<x, y>>) = <<y>>
  OBVIOUS
<1>5. Last(<<x>>) = x /\ Last(<<x, y>>) = y
  BY DEF Last
<1>6. Front(<<x>>) = <<>>
  BY <1>0 DEF Front
<1>7. Front(<<x, y>>) = <<x>>
  <2> DEFINE T == {x, y}
             s == SubSeq(<<x, y>>, 1, 1)
  <2>1. s \in Seq(T) /\ Len(s) = 1 /\ s[1] = x /\ <<x>> \in Seq(T) /\ <<x>>[1] = x
    OBVIOUS
  <2>2. s = <<x>>
    <3>. HIDE DEF s, T
    <3>. QED
      BY <1>0, <2>1
  <2>. QED
    BY <1>0, <2>2 DEF Front
<1>8. <<>> \o <<x>> = <<x>> /\ <<x>> \o <<>> = <<x>> /\ <<>> \o <<>> = <<>>
  OBVIOUS
<1>. QED
  BY <1>1, <1>2, <1>3, <1>4, <1>5, <1>6, <1>7, <1>8

LEMMA OneAndTwoContain ==
  /\ \A t : ~Contains(<<>>, t)
  /\ \A x, t : Contains(<<x>>, t) <=> t = x
  /\ \A x, y, t : Contains(<<x, y>>, t) <=> t = x \/ t = y
  /\ \A x, y : <<x>> # <<>> /\ <<x, y>> # <<>>
  /\ \A x, y : <<x>> = <<y>> => x = y
  /\ \A x, y, z : <<x>> # <<y, z>>
  /\ \A x, y, z, u : <<x, y>> = <<z, u>> => x = z /\ y = u
  BY DEF Contains

LEMMA QueueValues ==
  /\ Len(Empty) = 0 /\ Len(StartOnly) = 1 /\ Len(StopOnly) = 1 /\ Len(TimerOnly) = 1
  /\ Len(TimerStart) = 2
  /\ StartOnly[1] = "startTask" /\ StopOnly[1] = "stopTask" /\ TimerOnly[1] = "timerTask"
  /\ Head(StartOnly) = "startTask" /\ Head(StopOnly) = "stopTask"
  /\ Head(TimerOnly) = "timerTask" /\ Head(TimerStart) = "timerTask"
  /\ Tail(StartOnly) = Empty /\ Tail(StopOnly) = Empty /\ Tail(TimerOnly) = Empty
  /\ Tail(TimerStart) = StartOnly
  /\ Empty \o <<>> = Empty /\ Empty \o <<"startTask">> = StartOnly
<1>. USE DEF Empty, StartOnly, StopOnly, TimerOnly, TimerStart
<1>1. /\ Len(Empty) = 0 /\ Len(StartOnly) = 1 /\ Len(StopOnly) = 1 /\ Len(TimerOnly) = 1
      /\ Len(TimerStart) = 2
  OBVIOUS
<1>2. StartOnly[1] = "startTask" /\ StopOnly[1] = "stopTask" /\ TimerOnly[1] = "timerTask"
  OBVIOUS
<1>3. /\ Head(StartOnly) = "startTask" /\ Head(StopOnly) = "stopTask"
      /\ Head(TimerOnly) = "timerTask" /\ Head(TimerStart) = "timerTask"
  BY OneAndTwo, Zenon
<1>4. /\ Tail(StartOnly) = Empty /\ Tail(StopOnly) = Empty /\ Tail(TimerOnly) = Empty
      /\ Tail(TimerStart) = StartOnly
  <2>1. Tail(StartOnly) = Empty /\ Tail(StopOnly) = Empty /\ Tail(TimerOnly) = Empty
    BY OneAndTwo, Zenon
  <2>2. Tail(TimerStart) = StartOnly
    BY OneAndTwo
  <2>. QED
    BY <2>1, <2>2
<1>5. Empty \o <<>> = Empty /\ Empty \o <<"startTask">> = StartOnly
  BY OneAndTwo, Zenon
<1>. QED
  BY <1>1, <1>2, <1>3, <1>4, <1>5

(* The task queue after a post. *)
LEMMA QueuePosts ==
  /\ posted = Empty => /\ Posted("startTask") = StartOnly
                       /\ Posted("stopTask") = StopOnly
                       /\ Posted("timerTask") = TimerOnly
  /\ posted = TimerOnly => Posted("startTask") = TimerStart
<1>1. ASSUME posted = Empty, NEW t
      PROVE  Posted(t) = <<t>>
  <2>1. ~Contains(posted, t)
    BY <1>1, OneAndTwoContain, Zenon DEF Empty
  <2>2. Posted(t) = Append(<<>>, t)
    BY <1>1, <2>1, Zenon DEF Posted, Empty
  <2>. QED
    BY <2>2, OneAndTwo, Zenon
<1>2. ASSUME posted = TimerOnly
      PROVE  Posted("startTask") = TimerStart
  <2>1. ~Contains(posted, "startTask")
    BY <1>2, OneAndTwoContain DEF TimerOnly
  <2>2. Posted("startTask") = Append(<<"timerTask">>, "startTask")
    BY <1>2, <2>1, Zenon DEF Posted, TimerOnly
  <2>. QED
    BY <2>2, OneAndTwo, Zenon DEF TimerStart
<1>. QED
  BY <1>1, <1>2, Zenon DEF StartOnly, StopOnly, TimerOnly

LEMMA PointValues ==
  /\ Len(Started) = 1 /\ Len(NotStarted) = 1 /\ Len(ReleaseOnly) = 1 /\ Len(Stopped) = 1
  /\ Len(NotStopped) = 1 /\ Len(ClearOnly) = 1 /\ Len(ClearStarted) = 2 /\ Len(ClearRelease) = 2
  /\ Last(Started) = "startDone" /\ Last(NotStarted) = "startFailed"
  /\ Last(ReleaseOnly) = "release" /\ Last(Stopped) = "stopDone"
  /\ Last(NotStopped) = "stopFailed" /\ Last(ClearOnly) = "clear"
  /\ Last(ClearStarted) = "startDone" /\ Last(ClearRelease) = "release"
  /\ Front(Started) = Empty /\ Front(NotStarted) = Empty /\ Front(ReleaseOnly) = Empty
  /\ Front(Stopped) = Empty /\ Front(NotStopped) = Empty /\ Front(ClearOnly) = Empty
  /\ Front(ClearStarted) = ClearOnly /\ Front(ClearRelease) = ClearOnly
  /\ Append(Empty, "startDone") = Started /\ Append(Empty, "release") = ReleaseOnly
  /\ Append(ClearOnly, "startDone") = ClearStarted /\ Append(ClearOnly, "release") = ClearRelease
  /\ Append(Empty, "stopDone") = Stopped
<1>. USE DEF Empty, Started, NotStarted, ReleaseOnly, Stopped, NotStopped, ClearOnly,
         ClearStarted, ClearRelease
<1>1. /\ Len(Started) = 1 /\ Len(NotStarted) = 1 /\ Len(ReleaseOnly) = 1 /\ Len(Stopped) = 1
      /\ Len(NotStopped) = 1 /\ Len(ClearOnly) = 1 /\ Len(ClearStarted) = 2
      /\ Len(ClearRelease) = 2
  OBVIOUS
<1>2. /\ Last(Started) = "startDone" /\ Last(NotStarted) = "startFailed"
      /\ Last(ReleaseOnly) = "release" /\ Last(Stopped) = "stopDone"
      /\ Last(NotStopped) = "stopFailed" /\ Last(ClearOnly) = "clear"
      /\ Last(ClearStarted) = "startDone" /\ Last(ClearRelease) = "release"
  BY OneAndTwo, Zenon
<1>3. /\ Front(Started) = Empty /\ Front(NotStarted) = Empty /\ Front(ReleaseOnly) = Empty
      /\ Front(Stopped) = Empty /\ Front(NotStopped) = Empty /\ Front(ClearOnly) = Empty
      /\ Front(ClearStarted) = ClearOnly /\ Front(ClearRelease) = ClearOnly
  BY OneAndTwo, Zenon
<1>4. /\ Append(Empty, "startDone") = Started /\ Append(Empty, "release") = ReleaseOnly
      /\ Append(ClearOnly, "startDone") = ClearStarted
      /\ Append(ClearOnly, "release") = ClearRelease
      /\ Append(Empty, "stopDone") = Stopped
  BY OneAndTwo, Zenon
<1>. QED
  BY <1>1, <1>2, <1>3, <1>4

(* The task that starts, and the point that the code has reached. *)
LEMMA TaskCases ==
  ASSUME SplitTypeOK
  PROVE  /\ Start("startTask") => posted = StartOnly
         /\ Start("stopTask") => posted = StopOnly
         /\ Start("timerTask") => posted \in {TimerOnly, TimerStart}
  BY QueueValues DEF Start, SplitTypeOK, Empty

LEMMA PointCases ==
  ASSUME SplitTypeOK
  PROVE  /\ AtPower("startDone") => power \in {Started, ClearStarted}
         /\ AtPower("release") => power \in {ReleaseOnly, ClearRelease}
         /\ AtPower("startFailed") => power = NotStarted
         /\ AtPower("stopDone") => power = Stopped
         /\ AtPower("stopFailed") => power = NotStopped
         /\ AtPower("clear") => power = ClearOnly
  BY PointValues DEF AtPower, SplitTypeOK, Empty

-----------------------------------------------------------------------------
(* The steps of the manager.                                               *)

LEMMA ArbiterStill ==
  ASSUME UNCHANGED avars
  PROVE  /\ Given' = Given /\ Serving' = Serving
         /\ Unasked' = Unasked /\ Owing' = Owing
  BY DEF avars, Given, Serving, Unasked, Owing, AtPoint

LEMMA NoCalls ==
  ASSUME stack = <<>>
  PROVE  /\ \A point : ~AtPoint(point)
         /\ Serving => Given
  BY DEF AtPoint, Serving, Given

(* The resource is in one of these conditions at a time. *)
LEMMA Conditions ==
  ASSUME Owing
  PROVE  ~Given /\ ~Unasked
  BY DEF Owing, Given, Unasked

LEMMA ManagerKinds == Retrying => ~Deferred
  BY DEF Retrying, Deferred

LEMMA SameManager ==
  ASSUME UNCHANGED manager
  PROVE  /\ Deferred' <=> Deferred
         /\ Retrying' <=> Retrying
         /\ Fails' <=> Fails
         /\ RetryFails' <=> RetryFails
<1>1. Deferred' <=> Deferred
  BY DEF Deferred
<1>2. Retrying' <=> Retrying
  BY DEF Retrying
<1>3. Fails' <=> Fails
  BY DEF Fails
<1>. QED
  BY <1>1, <1>2, <1>3 DEF RetryFails

LEMMA StartTaskPowered ==
  ASSUME PoweredInv, startTask
  PROVE  PoweredInv'
<1>1. posted = StartOnly /\ Tail(posted) = Empty /\ power = Empty /\ stack = <<>>
  BY TaskCases, QueueValues DEF startTask, PoweredInv, Start, NoTaskRuns, Empty
<1>2. UNCHANGED avars /\ UNCHANGED <<manager, split, stopping, requested, late>>
  BY DEF startTask, avars, avars
<1>3. timer' = FALSE /\ stopTimer' = FALSE
  BY Zenon DEF startTask, PoweredInv, TasksInv
<1>4. \/ /\ split /\ device = "on" /\ UNCHANGED <<device, ignored>>
         /\ power' = (IF Deferred THEN ReleaseOnly ELSE Empty)
         /\ posted' = (IF Retrying THEN StartOnly ELSE Empty)
      \/ UNCHANGED <<posted, power, device, ignored>> /\ Retrying
      \/ ~split /\ device' = "on" /\ ignored' = FALSE /\ power' = Started /\ posted' = Empty
      \/ /\ ~split /\ ~Retrying /\ UNCHANGED device /\ ignored' \in BOOLEAN
         /\ (ignored' <=> device # "on") /\ power' = Started /\ posted' = Empty
      \/ /\ split /\ device = "off" /\ device' = "starting" /\ ignored' = FALSE
         /\ power' = Empty /\ posted' = Empty
      \/ /\ split /\ ~Retrying /\ device = "off" /\ UNCHANGED device /\ ignored' = TRUE
         /\ power' = Empty /\ posted' = Empty
  <2>1. device \in {"on", "off"}
    BY <1>1 DEF PoweredInv, TasksInv, StartPosted
  <2>2. CASE split /\ device = "on"
    BY <1>1, <2>2 DEF startTask, ReleaseOnly, Empty
  <2>3. CASE /\ ~(split /\ device = "on")
             /\ StartObeyed /\ StartReturns(<<>>) /\ posted' = Tail(posted)
    BY <1>1, <2>1, <2>3, PointValues DEF StartObeyed, Obeyed, StartReturns, Empty
  <2>4. CASE Retrying /\ Refused /\ posted' = posted
    BY <2>4 DEF Refused
  <2>5. CASE /\ ~(split /\ device = "on") /\ ~Retrying
             /\ RefusalIgnored("on") /\ StartReturns(<<>>) /\ posted' = Tail(posted)
    BY <1>1, <2>1, <2>5, PointValues DEF RefusalIgnored, StartReturns, Empty
  <2>. QED
    BY <2>2, <2>3, <2>4, <2>5 DEF startTask
<1>. USE <1>1, <1>2, <1>3, <1>4, ArbiterStill, SameManager, ManagerKinds, Conditions,
         NoCalls, QueueValues, PointValues
    DEF IsOn, IsOff, RetryFails
<1>5. SplitTypeOK'
  BY DEF PoweredInv, SplitTypeOK
<1>6. GivenInv'
  BY DEF PoweredInv, GivenInv
<1>7. TasksInv'
  BY DEF PoweredInv, TasksInv, GivenInv, DeviceInv, PointsInv, Starts, Clears, StartPosted,
     StopPosted, TimerPosted
<1>8. DeviceInv'
  BY DEF PoweredInv, DeviceInv, TasksInv, GivenInv, SteadyInv, StartPosted, StopPosted,
     TimerPosted
<1>9. PointsInv'
  BY DEF PoweredInv, PointsInv, DeviceInv, Starts, Clears
<1>10. AskedInv'
  BY DEF PoweredInv, SplitTypeOK, AskedInv, TasksInv, DeviceInv, PointsInv, Starts, Clears,
     StartPosted, StopPosted, TimerPosted
<1>11. (split \/ ~RetryFails => SteadyInv)'
  BY DEF PoweredInv, SteadyInv, CommandsInv, GivenInv, TasksInv, DeviceInv, PointsInv,
     AskedInv, Starts, Clears, StartPosted, StopPosted, TimerPosted
<1>12. (~RetryFails => CommandsInv)'
  BY DEF PoweredInv, SplitTypeOK, CommandsInv, SteadyInv, TasksInv, DeviceInv, PointsInv,
     AskedInv, Starts, Clears, StartPosted, StopPosted, TimerPosted
<1>. QED
  BY <1>5, <1>6, <1>7, <1>8, <1>9, <1>10, <1>11, <1>12 DEF PoweredInv

LEMMA StopTaskPowered ==
  ASSUME PoweredInv, stopTask
  PROVE  PoweredInv'
<1>1. posted = StopOnly /\ Tail(posted) = Empty /\ power = Empty /\ stack = <<>>
  BY TaskCases, QueueValues DEF stopTask, PoweredInv, Start, NoTaskRuns, Empty
<1>2. UNCHANGED avars /\ UNCHANGED <<manager, split, stopping, requested, stopTimer, timer, late>>
  BY DEF stopTask, avars, avars
<1>3. ~Deferred /\ stopping /\ IsOn /\ device \in {"on", "off"}
  BY <1>1 DEF PoweredInv, TasksInv, StopPosted, DeviceInv, IsOn
<1>4. \/ /\ split /\ device = "on" /\ device' = "stopping" /\ ignored' = FALSE
         /\ power' = Empty /\ posted' = Empty
      \/ /\ ~split /\ device' = "off" /\ ignored' = FALSE
         /\ power' = Stopped /\ posted' = Empty
      \/ /\ split /\ device = "off" /\ UNCHANGED device /\ ignored' = FALSE
         /\ power' = Empty /\ posted' = Empty
      \/ /\ ~Retrying /\ UNCHANGED device /\ ignored' \in BOOLEAN /\ (ignored' <=> device # "off")
         /\ power' = (IF split THEN Empty ELSE Stopped) /\ posted' = Empty
      \/ UNCHANGED <<power, device, ignored>> /\ posted' = StartOnly /\ Retrying /\ Fails
  <2>1. CASE StopObeyed /\ StopReturns /\ posted' = Tail(posted)
    BY <1>1, <1>3, <2>1 DEF StopObeyed, Obeyed, StopReturns, Stopped
  <2>2. CASE Retrying /\ Refused /\ posted' = Tail(posted) \o <<"startTask">>
    BY <1>1, <2>2, QueueValues DEF Refused
  <2>3. CASE ~Retrying /\ RefusalIgnored("off") /\ StopReturns /\ posted' = Tail(posted)
    BY <1>1, <2>3 DEF RefusalIgnored, StopReturns, Stopped
  <2>. QED
    BY <2>1, <2>2, <2>3 DEF stopTask
<1>. USE <1>1, <1>2, <1>3, <1>4, ArbiterStill, SameManager, ManagerKinds, Conditions,
         NoCalls, QueueValues, PointValues
    DEF IsOn, IsOff, RetryFails
<1>5. SplitTypeOK'
  BY DEF PoweredInv, SplitTypeOK
<1>6. GivenInv'
  BY DEF PoweredInv, GivenInv
<1>7. TasksInv'
  BY DEF PoweredInv, TasksInv, GivenInv, DeviceInv, PointsInv, Starts, Clears, StartPosted,
     StopPosted, TimerPosted
<1>8. DeviceInv'
  BY DEF PoweredInv, DeviceInv, TasksInv, GivenInv, SteadyInv, StartPosted, StopPosted,
     TimerPosted
<1>9. PointsInv'
  BY DEF PoweredInv, PointsInv, DeviceInv, Starts, Clears
<1>10. AskedInv'
  BY DEF PoweredInv, SplitTypeOK, AskedInv, TasksInv, DeviceInv, PointsInv, Starts, Clears,
     StartPosted, StopPosted, TimerPosted
<1>11. (split \/ ~RetryFails => SteadyInv)'
  BY DEF PoweredInv, SteadyInv, CommandsInv, GivenInv, TasksInv, DeviceInv, PointsInv,
     AskedInv, Starts, Clears, StartPosted, StopPosted, TimerPosted
<1>12. (~RetryFails => CommandsInv)'
  BY DEF PoweredInv, SplitTypeOK, CommandsInv, SteadyInv, TasksInv, DeviceInv, PointsInv,
     AskedInv, Starts, Clears, StartPosted, StopPosted, TimerPosted
<1>. QED
  BY <1>5, <1>6, <1>7, <1>8, <1>9, <1>10, <1>11, <1>12 DEF PoweredInv

LEMMA TimerTaskPowered ==
  ASSUME PoweredInv, timerTask
  PROVE  PoweredInv'
<1>1. /\ power = Empty /\ stack = <<>>
      /\ \/ posted = TimerOnly /\ posted' = Empty
         \/ posted = TimerStart /\ posted' = StartOnly
  BY TaskCases, QueueValues DEF timerTask, PoweredInv, Start, NoTaskRuns, Empty
<1>2. /\ UNCHANGED avars /\ timer' = TRUE
      /\ UNCHANGED <<manager, split, stopping, requested, stopTimer, power, device, ignored, late>>
  BY DEF timerTask, avars, history
<1>. USE <1>1, <1>2, ArbiterStill, SameManager, ManagerKinds, Conditions, NoCalls,
         QueueValues, PointValues
    DEF IsOn, IsOff, RetryFails
<1>3. SplitTypeOK'
  BY DEF PoweredInv, SplitTypeOK
<1>4. GivenInv'
  BY DEF PoweredInv, GivenInv
<1>5. TasksInv'
  BY DEF PoweredInv, TasksInv, GivenInv, DeviceInv, PointsInv, Starts, Clears, StartPosted,
     StopPosted, TimerPosted
<1>6. DeviceInv'
  BY DEF PoweredInv, DeviceInv, TasksInv, GivenInv, SteadyInv, StartPosted, StopPosted,
     TimerPosted
<1>7. PointsInv'
  BY DEF PoweredInv, PointsInv, DeviceInv, Starts, Clears
<1>8. AskedInv'
  BY DEF PoweredInv, SplitTypeOK, AskedInv, TasksInv, DeviceInv, PointsInv, Starts, Clears,
     StartPosted, StopPosted, TimerPosted
<1>9. (split \/ ~RetryFails => SteadyInv)'
  BY DEF PoweredInv, SteadyInv, CommandsInv, GivenInv, TasksInv, DeviceInv, PointsInv,
     AskedInv, Starts, Clears, StartPosted, StopPosted, TimerPosted
<1>10. (~RetryFails => CommandsInv)'
  BY DEF PoweredInv, SplitTypeOK, CommandsInv, SteadyInv, TasksInv, DeviceInv, PointsInv,
     AskedInv, Starts, Clears, StartPosted, StopPosted, TimerPosted
<1>. QED
  BY <1>3, <1>4, <1>5, <1>6, <1>7, <1>8, <1>9, <1>10 DEF PoweredInv

LEMMA FiredPowered ==
  ASSUME PoweredInv, fired
  PROVE  PoweredInv'
<1>1. /\ power = Empty /\ timer /\ Deferred /\ device \in {"on", "off"} /\ stack = <<>>
      /\ ~stopTimer => posted = Empty
  <2>1. power = Empty /\ timer /\ Deferred /\ device \in {"on", "off"} /\ stack = <<>>
    BY DEF fired, NoTaskRuns, PoweredInv, TasksInv, DeviceInv, IsOn, Empty
  <2>2. ~stopTimer => posted = Empty
    BY <2>1 DEF PoweredInv, SplitTypeOK, TasksInv, StartPosted, StopPosted, TimerPosted
  <2>. QED
    BY <2>1, <2>2
<1>2. /\ UNCHANGED avars /\ timer' = FALSE
      /\ UNCHANGED <<manager, split, stopTimer, posted, late>>
  BY DEF fired, avars
<1>3. \/ stopTimer /\ UNCHANGED <<stopping, requested, power, device, ignored>>
      \/ /\ ~stopTimer /\ split /\ power' = Empty /\ stopping' = TRUE /\ UNCHANGED requested
         /\ \/ device' = "stopping" /\ ignored' = FALSE
            \/ UNCHANGED device /\ ignored' = TRUE
      \/ /\ ~stopTimer /\ power' = Empty /\ requested' = FALSE /\ UNCHANGED stopping
         /\ device' \in {"on", "off"} /\ ignored' \in BOOLEAN
  <2>1. CASE stopTimer
    BY <2>1 DEF fired
  <2>2. CASE ~stopTimer
    <3>1. StopInSection /\ UNCHANGED power
      BY <2>2 DEF fired, StopInSection
    <3>2. CASE StopObeyed
      BY <1>1, <2>2, <3>1, <3>2 DEF StopInSection, StopObeyed, Obeyed
    <3>3. CASE RefusalIgnored("off")
      BY <1>1, <2>2, <3>1, <3>3 DEF StopInSection, RefusalIgnored
    <3>. QED
      BY <3>1, <3>2, <3>3 DEF StopInSection
  <2>. QED
    BY <2>1, <2>2
<1>. USE <1>1, <1>2, <1>3, ArbiterStill, SameManager, ManagerKinds, Conditions, NoCalls,
         QueueValues, PointValues
    DEF IsOn, IsOff, RetryFails
<1>4. SplitTypeOK'
  BY DEF PoweredInv, SplitTypeOK
<1>5. GivenInv'
  BY DEF PoweredInv, GivenInv
<1>6. TasksInv'
  BY DEF PoweredInv, TasksInv, GivenInv, DeviceInv, PointsInv, Starts, Clears, StartPosted,
     StopPosted, TimerPosted
<1>7. DeviceInv'
  BY DEF PoweredInv, DeviceInv, TasksInv, GivenInv, SteadyInv, StartPosted, StopPosted,
     TimerPosted
<1>8. PointsInv'
  BY DEF PoweredInv, PointsInv, DeviceInv, Starts, Clears
<1>9. AskedInv'
  BY DEF PoweredInv, SplitTypeOK, AskedInv, TasksInv, DeviceInv, PointsInv, Starts, Clears,
     StartPosted, StopPosted, TimerPosted
<1>10. (split \/ ~RetryFails => SteadyInv)'
  BY DEF PoweredInv, SteadyInv, CommandsInv, GivenInv, TasksInv, DeviceInv, PointsInv,
     AskedInv, Starts, Clears, StartPosted, StopPosted, TimerPosted
<1>11. (~RetryFails => CommandsInv)'
  BY DEF PoweredInv, SplitTypeOK, CommandsInv, SteadyInv, TasksInv, DeviceInv, PointsInv,
     AskedInv, Starts, Clears, StartPosted, StopPosted, TimerPosted
<1>. QED
  BY <1>4, <1>5, <1>6, <1>7, <1>8, <1>9, <1>10, <1>11 DEF PoweredInv

LEMMA DeviceDonePowered ==
  ASSUME PoweredInv, NEW fails \in BOOLEAN, DeviceDone(fails)
  PROVE  PoweredInv'
<1>1. power = Empty /\ stack = <<>>
  BY DEF DeviceDone, NoTaskRuns, Empty
<1>2. /\ UNCHANGED avars
      /\ UNCHANGED <<manager, split, stopping, requested, stopTimer, posted, timer, ignored, late>>
  BY DEF DeviceDone, avars, history
<1>3. \/ device = "starting" /\ device' = "on" /\ power' = Started
      \/ device = "starting" /\ device' = "off" /\ power' = NotStarted /\ Fails
      \/ device = "stopping" /\ device' = "off" /\ power' = Stopped
      \/ device = "stopping" /\ device' = "on" /\ power' = NotStopped /\ Fails
  BY DEF DeviceDone, Started, NotStarted, Stopped, NotStopped
<1>. USE <1>1, <1>2, <1>3, ArbiterStill, SameManager, ManagerKinds, Conditions, NoCalls,
         QueueValues, PointValues
    DEF IsOn, IsOff, RetryFails
<1>4. SplitTypeOK'
  BY DEF PoweredInv, SplitTypeOK
<1>5. GivenInv'
  BY SMTT(30) DEF PoweredInv, GivenInv, DeviceInv, PointsInv
<1>6. TasksInv'
  BY DEF PoweredInv, TasksInv, GivenInv, DeviceInv, PointsInv, Starts, Clears, StartPosted,
     StopPosted, TimerPosted
<1>7. DeviceInv'
  BY DEF PoweredInv, DeviceInv, TasksInv, GivenInv, SteadyInv, StartPosted, StopPosted,
     TimerPosted
<1>8. PointsInv'
  BY DEF PoweredInv, PointsInv, DeviceInv, Starts, Clears
<1>9. AskedInv'
  BY DEF PoweredInv, SplitTypeOK, AskedInv, TasksInv, DeviceInv, PointsInv, Starts, Clears,
     StartPosted, StopPosted, TimerPosted
<1>10. (split \/ ~RetryFails => SteadyInv)'
  BY DEF PoweredInv, SteadyInv, CommandsInv, GivenInv, TasksInv, DeviceInv, PointsInv,
     AskedInv, Starts, Clears, StartPosted, StopPosted, TimerPosted
<1>11. (~RetryFails => CommandsInv)'
  BY DEF PoweredInv, SplitTypeOK, CommandsInv, SteadyInv, TasksInv, DeviceInv, PointsInv,
     AskedInv, Starts, Clears, StartPosted, StopPosted, TimerPosted
<1>. QED
  BY <1>4, <1>5, <1>6, <1>7, <1>8, <1>9, <1>10, <1>11 DEF PoweredInv

LEMMA StartFailedPowered ==
  ASSUME PoweredInv, startFailed
  PROVE  PoweredInv'
<1>1. power = NotStarted /\ Front(power) = Empty /\ posted = Empty
  BY PointCases, PointValues, QueueValues DEF startFailed, PoweredInv, TasksInv
<1>2. /\ UNCHANGED avars
      /\ UNCHANGED <<manager, split, stopping, requested, stopTimer, timer, device, late>>
  BY DEF startFailed, avars, avars
<1>3. \/ Retrying /\ posted' = StartOnly /\ power' = Empty /\ UNCHANGED ignored
      \/ ~Retrying /\ UNCHANGED posted /\ power' = Started /\ ignored' = TRUE
  BY <1>1, QueuePosts, PointValues DEF startFailed
<1>. USE <1>1, <1>2, <1>3, ArbiterStill, SameManager, ManagerKinds, Conditions, NoCalls,
         QueueValues, PointValues
    DEF IsOn, IsOff, RetryFails
<1>4. SplitTypeOK'
  BY DEF PoweredInv, SplitTypeOK
<1>5. GivenInv'
  BY DEF PoweredInv, GivenInv
<1>6. TasksInv'
  BY DEF PoweredInv, TasksInv, GivenInv, DeviceInv, PointsInv, Starts, Clears, StartPosted,
     StopPosted, TimerPosted
<1>7. DeviceInv'
  BY SMTT(30) DEF PoweredInv, DeviceInv, PointsInv, TasksInv, GivenInv, SteadyInv, StartPosted, StopPosted,
     TimerPosted
<1>8. PointsInv'
  BY DEF PoweredInv, PointsInv, DeviceInv, Starts, Clears
<1>9. AskedInv'
  BY DEF PoweredInv, SplitTypeOK, AskedInv, TasksInv, DeviceInv, PointsInv, Starts, Clears,
     StartPosted, StopPosted, TimerPosted
<1>10. (split \/ ~RetryFails => SteadyInv)'
  BY DEF PoweredInv, SteadyInv, CommandsInv, GivenInv, TasksInv, DeviceInv, PointsInv,
     AskedInv, Starts, Clears, StartPosted, StopPosted, TimerPosted
<1>11. (~RetryFails => CommandsInv)'
  BY DEF PoweredInv, SplitTypeOK, CommandsInv, SteadyInv, TasksInv, DeviceInv, PointsInv,
     AskedInv, Starts, Clears, StartPosted, StopPosted, TimerPosted
<1>. QED
  BY <1>4, <1>5, <1>6, <1>7, <1>8, <1>9, <1>10, <1>11 DEF PoweredInv

LEMMA StartDonePowered ==
  ASSUME PoweredInv, startDone
  PROVE  PoweredInv'
<1>1. power \in {Started, ClearStarted}
  BY PointCases DEF startDone, PoweredInv
<1>2. /\ UNCHANGED avars
      /\ UNCHANGED <<manager, split, stopping, requested, stopTimer, posted, timer, device,
                 ignored, late>>
  BY DEF startDone, avars, history
<1>3. \/ power' = (IF power = Started THEN ReleaseOnly ELSE ClearRelease)
      \/ ~Owing /\ power' = (IF power = Started THEN Empty ELSE ClearOnly)
  BY <1>1, PointValues DEF startDone, Owing
<1>. USE <1>1, <1>2, <1>3, ArbiterStill, SameManager, ManagerKinds, Conditions, NoCalls,
         QueueValues, PointValues
    DEF IsOn, IsOff, RetryFails
<1>4. SplitTypeOK'
  BY DEF PoweredInv, SplitTypeOK
<1>5. GivenInv'
  BY DEF PoweredInv, GivenInv
<1>6. TasksInv'
  BY DEF PoweredInv, TasksInv, GivenInv, DeviceInv, PointsInv, Starts, Clears, StartPosted,
     StopPosted, TimerPosted
<1>7. DeviceInv'
  BY DEF PoweredInv, DeviceInv, TasksInv, GivenInv, SteadyInv, StartPosted, StopPosted,
     TimerPosted
<1>8. PointsInv'
  BY DEF PoweredInv, PointsInv, DeviceInv, Starts, Clears
<1>9. AskedInv'
  BY DEF PoweredInv, SplitTypeOK, AskedInv, TasksInv, DeviceInv, PointsInv, Starts, Clears,
     StartPosted, StopPosted, TimerPosted
<1>10. (split \/ ~RetryFails => SteadyInv)'
  BY DEF PoweredInv, SteadyInv, CommandsInv, GivenInv, TasksInv, DeviceInv, PointsInv,
     AskedInv, Starts, Clears, StartPosted, StopPosted, TimerPosted
<1>11. (~RetryFails => CommandsInv)'
  BY DEF PoweredInv, SplitTypeOK, CommandsInv, SteadyInv, TasksInv, DeviceInv, PointsInv,
     AskedInv, Starts, Clears, StartPosted, StopPosted, TimerPosted
<1>. QED
  BY <1>4, <1>5, <1>6, <1>7, <1>8, <1>9, <1>10, <1>11 DEF PoweredInv

LEMMA StopFailedPowered ==
  ASSUME PoweredInv, stopFailed
  PROVE  PoweredInv'
<1>1. power = NotStopped /\ Front(power) = Empty /\ posted = Empty
  BY PointCases, PointValues, QueueValues DEF stopFailed, PoweredInv, TasksInv
<1>2. /\ UNCHANGED avars
      /\ UNCHANGED <<manager, split, stopping, requested, stopTimer, timer, device, late>>
  BY DEF stopFailed, avars, avars
<1>3. \/ Retrying /\ posted' = StopOnly /\ power' = Empty /\ UNCHANGED ignored
      \/ ~Retrying /\ UNCHANGED posted /\ power' = Stopped /\ ignored' = TRUE
  BY <1>1, QueuePosts, PointValues DEF stopFailed
<1>. USE <1>1, <1>2, <1>3, ArbiterStill, SameManager, ManagerKinds, Conditions, NoCalls,
         QueueValues, PointValues
    DEF IsOn, IsOff, RetryFails
<1>4. SplitTypeOK'
  BY DEF PoweredInv, SplitTypeOK
<1>5. GivenInv'
  BY DEF PoweredInv, GivenInv
<1>6. TasksInv'
  BY DEF PoweredInv, TasksInv, GivenInv, DeviceInv, PointsInv, Starts, Clears, StartPosted,
     StopPosted, TimerPosted
<1>7. DeviceInv'
  BY SMTT(30) DEF PoweredInv, DeviceInv, PointsInv, TasksInv, GivenInv, SteadyInv, StartPosted, StopPosted,
     TimerPosted
<1>8. PointsInv'
  BY DEF PoweredInv, PointsInv, DeviceInv, Starts, Clears
<1>9. AskedInv'
  BY DEF PoweredInv, SplitTypeOK, AskedInv, TasksInv, DeviceInv, PointsInv, Starts, Clears,
     StartPosted, StopPosted, TimerPosted
<1>10. (split \/ ~RetryFails => SteadyInv)'
  BY DEF PoweredInv, SteadyInv, CommandsInv, GivenInv, TasksInv, DeviceInv, PointsInv,
     AskedInv, Starts, Clears, StartPosted, StopPosted, TimerPosted
<1>11. (~RetryFails => CommandsInv)'
  BY DEF PoweredInv, SplitTypeOK, CommandsInv, SteadyInv, TasksInv, DeviceInv, PointsInv,
     AskedInv, Starts, Clears, StartPosted, StopPosted, TimerPosted
<1>. QED
  BY <1>4, <1>5, <1>6, <1>7, <1>8, <1>9, <1>10, <1>11 DEF PoweredInv

LEMMA StopDonePowered ==
  ASSUME PoweredInv, stopDone
  PROVE  PoweredInv'
<1>1. power = Stopped /\ IsOff /\ device \in {"on", "off"} /\ stopping /\ posted = Empty
  BY PointCases, PointValues, QueueValues
     DEF stopDone, PoweredInv, TasksInv, DeviceInv, PointsInv, IsOff
<1>2. /\ UNCHANGED avars
      /\ UNCHANGED <<manager, split, stopping, requested, stopTimer, posted, timer, late>>
  BY DEF stopDone, avars, avars
<1>3. \/ /\ requested /\ split /\ device = "off" /\ device' = "starting" /\ ignored' = FALSE
         /\ power' = ClearOnly
      \/ /\ requested /\ UNCHANGED device /\ ignored' \in BOOLEAN /\ (ignored' <=> device # "on")
         /\ power' = (IF split THEN ClearOnly ELSE ClearStarted)
      \/ requested /\ ~split /\ device' = "on" /\ ignored' = FALSE /\ power' = ClearStarted
      \/ ~requested /\ UNCHANGED <<device, ignored>> /\ power' = ClearOnly
  <2>1. StartReturns(<<"clear">>) => power' = (IF split THEN ClearOnly ELSE ClearStarted)
    BY PointValues DEF StartReturns, ClearOnly
  <2>2. CASE requested /\ StartObeyed
    BY <1>1, <2>1, <2>2 DEF stopDone, StartObeyed, Obeyed
  <2>3. CASE requested /\ RefusalIgnored("on")
    BY <1>1, <2>1, <2>3 DEF stopDone, RefusalIgnored
  <2>4. CASE ~requested
    BY <2>4 DEF stopDone, ClearOnly
  <2>. QED
    BY <2>2, <2>3, <2>4 DEF stopDone
<1>. USE <1>1, <1>2, <1>3, ArbiterStill, SameManager, ManagerKinds, Conditions, NoCalls,
         QueueValues, PointValues
    DEF IsOn, IsOff, RetryFails
<1>4. SplitTypeOK'
  BY DEF PoweredInv, SplitTypeOK
<1>5. GivenInv'
  BY DEF PoweredInv, GivenInv
<1>6. TasksInv'
  BY DEF PoweredInv, TasksInv, GivenInv, DeviceInv, PointsInv, Starts, Clears, StartPosted,
     StopPosted, TimerPosted
<1>7. DeviceInv'
  BY DEF PoweredInv, DeviceInv, TasksInv, GivenInv, SteadyInv, StartPosted, StopPosted,
     TimerPosted
<1>8. PointsInv'
  BY DEF PoweredInv, PointsInv, DeviceInv, Starts, Clears
<1>9. AskedInv'
  BY DEF PoweredInv, SplitTypeOK, AskedInv, TasksInv, DeviceInv, PointsInv, Starts, Clears,
     StartPosted, StopPosted, TimerPosted
<1>10. (split \/ ~RetryFails => SteadyInv)'
  BY DEF PoweredInv, SteadyInv, CommandsInv, GivenInv, TasksInv, DeviceInv, PointsInv,
     AskedInv, Starts, Clears, StartPosted, StopPosted, TimerPosted
<1>11. (~RetryFails => CommandsInv)'
  BY DEF PoweredInv, SplitTypeOK, CommandsInv, SteadyInv, TasksInv, DeviceInv, PointsInv,
     AskedInv, Starts, Clears, StartPosted, StopPosted, TimerPosted
<1>. QED
  BY <1>4, <1>5, <1>6, <1>7, <1>8, <1>9, <1>10, <1>11 DEF PoweredInv

LEMMA ClearPowered ==
  ASSUME PoweredInv, clear
  PROVE  PoweredInv'
<1>1. power = ClearOnly /\ power' = Empty /\ posted = Empty /\ stack = <<>>
  BY PointCases, PointValues, QueueValues DEF clear, AtPower, PoweredInv, TasksInv
<1>2. Unasked => ~Given
  BY <1>1, NoCalls DEF Unasked, Given
<1>3. /\ UNCHANGED avars /\ stopping' = FALSE /\ requested' = FALSE
      /\ UNCHANGED <<manager, split, stopTimer, posted, timer, device, ignored, late>>
  BY DEF clear, avars, history
<1>. USE <1>1, <1>2, <1>3, ArbiterStill, SameManager, ManagerKinds, Conditions, NoCalls,
         QueueValues, PointValues
    DEF IsOn, IsOff, RetryFails
<1>4. SplitTypeOK'
  BY DEF PoweredInv, SplitTypeOK
<1>5. GivenInv'
  BY DEF PoweredInv, GivenInv
<1>6. TasksInv'
  BY DEF PoweredInv, TasksInv, GivenInv, DeviceInv, PointsInv, Starts, Clears, StartPosted,
     StopPosted, TimerPosted
<1>7. DeviceInv'
  BY DEF PoweredInv, DeviceInv, TasksInv, GivenInv, SteadyInv, StartPosted, StopPosted,
     TimerPosted
<1>8. PointsInv'
  BY DEF PoweredInv, PointsInv, DeviceInv, Starts, Clears
<1>9. AskedInv'
  BY DEF PoweredInv, SplitTypeOK, AskedInv, TasksInv, DeviceInv, PointsInv, Starts, Clears,
     StartPosted, StopPosted, TimerPosted
<1>10. (split \/ ~RetryFails => SteadyInv)'
  BY DEF PoweredInv, SteadyInv, CommandsInv, GivenInv, TasksInv, DeviceInv, PointsInv,
     AskedInv, Starts, Clears, StartPosted, StopPosted, TimerPosted
<1>11. (~RetryFails => CommandsInv)'
  BY DEF PoweredInv, SplitTypeOK, CommandsInv, SteadyInv, TasksInv, DeviceInv, PointsInv,
     AskedInv, Starts, Clears, StartPosted, StopPosted, TimerPosted
<1>. QED
  BY <1>4, <1>5, <1>6, <1>7, <1>8, <1>9, <1>10, <1>11 DEF PoweredInv

(* With no call in progress, what the invariant of ArbiterProofs says. *)
LEMMA NoCallsStates ==
  ASSUME B!IndInv, stack = <<>>
  PROVE  /\ state # "IMM_GRANTING"
         /\ state = "PREGRANT" => Owing /\ resId = default_owner_id
<1>1. \A points : ~B!At(points)
  BY DEF B!At
<1>2. state # "IMM_GRANTING"
  BY <1>1 DEF B!IndInv, B!Moving
<1>3. state = "PREGRANT" => resId = default_owner_id
  BY DEF B!IndInv, B!StateMatchesCalls
<1>. QED
  BY <1>2, <1>3, NoCalls DEF Owing

LEMMA ReleasePowered ==
  ASSUME PoweredInv, B!IndInv, releaseResource
  PROVE  PoweredInv'
<1>1. /\ power \in {ReleaseOnly, ClearRelease} /\ stack = <<>> /\ stack' = <<>>
      /\ power' = (IF power = ReleaseOnly THEN Empty ELSE ClearOnly)
      /\ UNCHANGED <<manager, split, stopping, requested, stopTimer, posted, timer, device,
                     ignored, late>>
  BY PointCases, PointValues DEF releaseResource, AtPower, PoweredInv, history
<1>2. ~Given /\ ~Serving /\ ~Serving' /\ posted = Empty /\ ~timer /\ IsOn
  <2>1. \A point : ~AtPoint(point) /\ ~AtPoint(point)'
    BY <1>1 DEF AtPoint
  <2>2. ~Given /\ posted = Empty /\ ~timer /\ IsOn
    BY <1>1, PointValues, QueueValues
       DEF PoweredInv, GivenInv, TasksInv, PointsInv, Starts
  <2>3. state' # "BUSY"
    BY <2>2, NoCallsStates, <1>1 DEF releaseResource, OwnerRelease, Given
  <2>. QED
    BY <2>1, <2>2, <2>3 DEF Serving, Given
<1>3. \/ Owing /\ Given' /\ ~Unasked' /\ ~Owing'
      \/ ~Owing /\ ~Given' /\ Unasked' = Unasked /\ ~Owing'
  <2>1. CASE state = "PREGRANT"
    <3>1. state' = "GRANTING" /\ Owing
      BY <2>1, <1>1, NoCallsStates DEF releaseResource, OwnerRelease
    <3>. QED
      BY <3>1, <1>1 DEF Given, Unasked, Owing, AtPoint
  <2>2. CASE state # "PREGRANT"
    <3>1. UNCHANGED state
      BY <2>2, <1>1, <1>2, NoCallsStates DEF releaseResource, OwnerRelease, Given
    <3>. QED
      BY <2>2, <3>1, <1>1, <1>2 DEF Given, Unasked, Owing, AtPoint
  <2>. QED
    BY <2>1, <2>2
<1>. USE <1>1, <1>2, <1>3, SameManager, ManagerKinds, Conditions, QueueValues, PointValues
    DEF IsOn, IsOff, RetryFails
<1>4. SplitTypeOK'
  BY DEF PoweredInv, SplitTypeOK
<1>5. GivenInv'
  BY DEF PoweredInv, GivenInv
<1>6. TasksInv'
  BY DEF PoweredInv, TasksInv, StartPosted, StopPosted, TimerPosted
<1>7. DeviceInv'
  BY DEF PoweredInv, DeviceInv
<1>8. PointsInv'
  BY DEF PoweredInv, PointsInv, Starts, Clears
<1>9. AskedInv'
  BY DEF PoweredInv, AskedInv, StartPosted
<1>10. (split \/ ~RetryFails => SteadyInv)'
  BY DEF PoweredInv, SteadyInv, PointsInv, Starts, Clears
<1>11. (~RetryFails => CommandsInv)'
  BY DEF PoweredInv, CommandsInv, AskedInv, SteadyInv, Starts, StartPosted
<1>. QED
  BY <1>4, <1>5, <1>6, <1>7, <1>8, <1>9, <1>10, <1>11 DEF PoweredInv

-----------------------------------------------------------------------------
(* The steps of the arbiter.                                               *)

(* Where the calls stand after the running one returned or went on. *)
LEMMA CallReturns ==
  ASSUME stack \in Seq(B!Frames), NEW from, NEW point, B!Running(from), B!Return, point # from
  PROVE  AtPoint(point)' <=> AtPoint(point)
<1>1. stack # <<>> /\ stack[Len(stack)].at = from
  BY DEF B!Running
<1>. QED
  BY <1>1, B!ReturnFrames, PoweredAssumptions DEF AtPoint

LEMMA CallContinues ==
  ASSUME stack \in Seq(B!Frames), NEW from, NEW next, NEW point, B!Running(from),
         B!Continue(next), next \in B!RequestPoints \cup B!ImmediatePoints \cup B!GrantPoints,
         point # from, point # next
  PROVE  AtPoint(point)' <=> AtPoint(point)
<1>1. stack # <<>> /\ stack[Len(stack)].at = from
  BY DEF B!Running
<1>. QED
  BY <1>1, B!ContinueFrames, PoweredAssumptions DEF AtPoint

LEMMA CallNests ==
  ASSUME stack \in Seq(B!Frames), NEW from, NEW next, NEW point, NEW c \in Clients,
         B!Running(from), B!ContinueNested(next, c),
         next \in B!RequestPoints \cup B!ImmediatePoints \cup B!GrantPoints,
         point # from, point # next, point # "enqueue"
  PROVE  AtPoint(point)' <=> AtPoint(point)
<1>1. stack # <<>> /\ stack[Len(stack)].at = from /\ Len(stack) \in Nat
  BY DEF B!Running
<1>2. /\ Len(stack') = Len(stack) + 1
      /\ \A i \in 1..Len(stack) : i # Len(stack) => stack'[i] = stack[i]
      /\ stack'[Len(stack)].at = next /\ stack'[Len(stack) + 1].at = "enqueue"
  BY <1>1, B!NestedFrames, PoweredAssumptions
<1>. QED
  BY <1>1, <1>2 DEF AtPoint

LEMMA CallComes ==
  ASSUME stack \in Seq(B!Frames), NEW c \in Clients, NEW first, NEW point, B!Call(c, first),
         first \in B!RequestPoints \cup B!ImmediatePoints, point # first
  PROVE  AtPoint(point)' <=> AtPoint(point)
  BY B!CallFrames, PoweredAssumptions DEF AtPoint

LEMMA Runs ==
  ASSUME stack \in Seq(B!Frames), NEW point, B!Running(point)
  PROVE  AtPoint(point)
<1>1. stack # <<>> /\ stack[Len(stack)].at = point /\ Len(stack) \in 1..Len(stack)
  BY DEF B!Running
<1>. QED
  BY <1>1 DEF AtPoint

(* What the invariant of ArbiterProofs says of the running call. *)
LEMMA AtPointStates ==
  ASSUME B!IndInv
  PROVE  /\ stack \in Seq(B!Frames)
         /\ AtPoint("grant") => state = "GRANTING"
         /\ AtPoint("askOwner") => state = "PREGRANT" /\ resId = default_owner_id
         /\ AtPoint("askOwnerImm") => state = "IMM_GRANTING"
         /\ AtPoint("giveUp") => state = "IMM_GRANTING"
<1>1. stack \in Seq(B!Frames)
  BY DEF B!IndInv, B!TypeOK, B!ArbiterTypeOK
<1>2. \A point : AtPoint(point) => B!At({point})
  BY DEF AtPoint, B!At
<1>3. \A point : AtPoint(point) => \E i \in 1..Len(stack) : stack[i].at = point
  BY DEF AtPoint
<1>4. AtPoint("grant") => state = "GRANTING"
  BY <1>2 DEF B!IndInv, B!StateMatchesCalls
<1>5. AtPoint("askOwner") => state = "PREGRANT" /\ resId = default_owner_id
  BY <1>2 DEF B!IndInv, B!StateMatchesCalls
<1>6. AtPoint("askOwnerImm") => state = "IMM_GRANTING"
  BY <1>3 DEF B!IndInv, B!StateMatchesHanding
<1>7. AtPoint("giveUp") => state = "IMM_GRANTING"
  BY <1>3 DEF B!IndInv, B!StateMatchesHanding
<1>. QED
  BY <1>1, <1>4, <1>5, <1>6, <1>7

(* A step of the arbiter that the manager does not hear of. *)
LEMMA UnheardPowered ==
  ASSUME PoweredInv, UNCHANGED powerVars, Given' <=> Given,
         Serving' => Serving \/ power = Empty, Unasked' => Unasked, Owing' <=> Owing
  PROVE  PoweredInv'
<1>1. UNCHANGED <<manager, split, stopping, requested, stopTimer, posted, power, timer, device,
                 ignored, late>>
  BY DEF powerVars, history
<1>. USE <1>1, SameManager
    DEF IsOn, IsOff, RetryFails
<1>2. SplitTypeOK'
  BY DEF PoweredInv, SplitTypeOK
<1>3. GivenInv'
  BY DEF PoweredInv, GivenInv
<1>4. TasksInv'
  BY DEF PoweredInv, TasksInv, StartPosted, StopPosted, TimerPosted
<1>5. DeviceInv'
  BY DEF PoweredInv, DeviceInv
<1>6. PointsInv'
  BY DEF PoweredInv, PointsInv, Starts, Clears
<1>7. AskedInv'
  BY DEF PoweredInv, AskedInv, StartPosted
<1>8. (split \/ ~RetryFails => SteadyInv)'
  BY DEF PoweredInv, SteadyInv, Starts
<1>9. (~RetryFails => CommandsInv)'
  BY DEF PoweredInv, CommandsInv, StartPosted
<1>. QED
  BY <1>2, <1>3, <1>4, <1>5, <1>6, <1>7, <1>8, <1>9 DEF PoweredInv

(* The manager's handler of requested(). *)
LEMMA AskedPowered ==
  ASSUME PoweredInv, OwnerRequested, Unasked, ~Owing, ~Given, ~Serving,
         Owing', ~Given', ~Serving', ~Unasked'
  PROVE  PoweredInv'
<1>1. UNCHANGED <<manager, split, stopping, power, timer, device, ignored>> /\ late' \in BOOLEAN
  <2>1. late \in BOOLEAN
    BY DEF PoweredInv, SplitTypeOK
  <2>. QED
    BY <2>1 DEF OwnerRequested
<1>2. \/ stopping /\ requested' = TRUE /\ UNCHANGED <<stopTimer, posted>>
      \/ /\ ~stopping /\ power = Empty /\ device \in {"off", "on"} /\ UNCHANGED requested
         /\ \/ posted = Empty /\ posted' = StartOnly
            \/ posted = TimerOnly /\ posted' = TimerStart
         /\ stopTimer' \in BOOLEAN /\ (stopTimer' <=> Deferred)
  <2>1. CASE stopping
    BY <2>1 DEF OwnerRequested
  <2>2. CASE ~stopping
    <3>1. power = Empty /\ device \in {"off", "on"} /\ posted \in {Empty, TimerOnly}
      BY <2>2 DEF PoweredInv, AskedInv, SplitTypeOK, TasksInv, StartPosted, StopPosted
    <3>2. Deferred \in BOOLEAN
      BY DEF Deferred
    <3>3. UNCHANGED requested /\ posted' = Posted("startTask") /\ stopTimer' = Deferred
      BY <2>2 DEF OwnerRequested
    <3>. QED
      BY <2>2, <3>1, <3>2, <3>3, QueuePosts
  <2>. QED
    BY <2>1, <2>2
<1>. USE <1>1, <1>2, SameManager, QueueValues, PointValues
    DEF IsOn, IsOff, RetryFails
<1>3. SplitTypeOK'
  BY DEF PoweredInv, SplitTypeOK
<1>4. GivenInv'
  BY DEF PoweredInv, GivenInv
<1>5. TasksInv'
  BY DEF PoweredInv, TasksInv, StartPosted, StopPosted, TimerPosted
<1>6. DeviceInv'
  BY DEF PoweredInv, DeviceInv
<1>7. PointsInv'
  BY DEF PoweredInv, PointsInv, Starts, Clears
<1>8. AskedInv'
  BY DEF PoweredInv, AskedInv, StartPosted
<1>9. (split \/ ~RetryFails => SteadyInv)'
  BY DEF PoweredInv, SteadyInv, Starts
<1>10. (~RetryFails => CommandsInv)'
  BY DEF PoweredInv, CommandsInv, StartPosted
<1>. QED
  BY <1>3, <1>4, <1>5, <1>6, <1>7, <1>8, <1>9, <1>10 DEF PoweredInv

(* The manager's handler of granted(). *)
LEMMA GrantedPowered ==
  ASSUME PoweredInv, OwnerGranted, Given, Serving, ~Owing, ~Unasked, ~Given', ~Serving',
         ~Owing', Unasked'
  PROVE  PoweredInv'
<1>1. UNCHANGED <<manager, split, requested, stopTimer, power, timer, device, ignored, late>>
  BY DEF OwnerGranted, history
<1>2. power = Empty /\ posted = Empty /\ ~timer /\ IsOn
  BY DEF PoweredInv, GivenInv
<1>3. /\ stopping' \in BOOLEAN /\ (stopping' <=> ~Deferred)
      /\ posted' = IF Deferred THEN TimerOnly ELSE StopOnly
  <2>1. Deferred \in BOOLEAN
    BY DEF Deferred
  <2>. QED
    BY <1>2, <2>1, QueuePosts DEF OwnerGranted
<1>. USE <1>1, <1>2, <1>3, SameManager, QueueValues, PointValues
    DEF IsOn, IsOff, RetryFails
<1>4. SplitTypeOK'
  BY DEF PoweredInv, SplitTypeOK
<1>5. GivenInv'
  BY DEF PoweredInv, GivenInv
<1>6. TasksInv'
  BY DEF PoweredInv, TasksInv, StartPosted, StopPosted, TimerPosted
<1>7. DeviceInv'
  BY DEF PoweredInv, DeviceInv
<1>8. PointsInv'
  BY DEF PoweredInv, PointsInv, Starts, Clears
<1>9. AskedInv'
  BY DEF PoweredInv, SplitTypeOK, AskedInv, GivenInv, DeviceInv, StartPosted
<1>10. (split \/ ~RetryFails => SteadyInv)'
  BY DEF PoweredInv, SteadyInv, Starts
<1>11. (~RetryFails => CommandsInv)'
  BY DEF PoweredInv, CommandsInv, StartPosted
<1>. QED
  BY <1>4, <1>5, <1>6, <1>7, <1>8, <1>9, <1>10, <1>11 DEF PoweredInv

(* A step of the arbiter leaves the conditions as they are. *)
Unmoved ==
  /\ Given' <=> Given
  /\ Serving' => Serving
  /\ Unasked' => Unasked
  /\ Owing' <=> Owing
  /\ Keeps' <=> Keeps

(* The resource is given back to the manager, which hears of it. *)
GivenBack ==
  /\ OwnerGranted /\ Given /\ Serving /\ ~Owing /\ ~Unasked
  /\ ~Given' /\ ~Serving' /\ ~Owing' /\ Unasked' /\ Keeps'

Quiet == {"enqueue", "notify", "claim", "notifyImm", "take", "askOwnerImm", "check", "giveUp",
          "configure", "signal"}

(* Calls at other points than the two that the conditions are about. *)
LEMMA CallsQuiet ==
  ASSUME B!IndInv, NEW from \in Quiet, B!Running(from),
         \/ B!Return
         \/ \E next \in Quiet :
              B!Continue(next) \/ \E c \in Clients : B!ContinueNested(next, c)
  PROVE  (AtPoint("grant")' <=> AtPoint("grant")) /\ (AtPoint("askOwner")' <=> AtPoint("askOwner"))
<1>1. stack \in Seq(B!Frames)
  BY AtPointStates
<1>2. \A point \in {"grant", "askOwner"} : \A q \in Quiet \cup {"enqueue"} : point # q
  BY DEF Quiet
<1>3. Quiet \subseteq B!RequestPoints \cup B!ImmediatePoints \cup B!GrantPoints
  BY DEF Quiet, B!RequestPoints, B!ImmediatePoints, B!GrantPoints
<1>4. ASSUME NEW point \in {"grant", "askOwner"}
      PROVE  AtPoint(point)' <=> AtPoint(point)
  <2>1. CASE B!Return
    BY <1>1, <1>2, <2>1, CallReturns
  <2>2. ASSUME NEW next \in Quiet, B!Continue(next)
        PROVE  AtPoint(point)' <=> AtPoint(point)
    BY <1>1, <1>2, <1>3, <2>2, CallContinues
  <2>3. ASSUME NEW next \in Quiet, NEW c \in Clients, B!ContinueNested(next, c)
        PROVE  AtPoint(point)' <=> AtPoint(point)
    BY <1>1, <1>2, <1>3, <2>3, CallNests
  <2>. QED
    BY <2>1, <2>2, <2>3
<1>. QED
  BY <1>4

LEMMA CallStepUnmoved ==
  ASSUME B!IndInv, \/ B!Enqueue \/ B!Claim \/ B!Take \/ B!Check \/ B!GiveUp \/ B!Grant
                   \/ B!Configure \/ B!SignalGranted
  PROVE  Unmoved
<1>. DEFINE Still == /\ AtPoint("grant")' <=> AtPoint("grant")
                     /\ AtPoint("askOwner")' <=> AtPoint("askOwner")
<1>1. ASSUME Still, UNCHANGED state
      PROVE  Unmoved
  BY <1>1 DEF Unmoved, Given, Serving, Unasked, Owing, Keeps
<1>2. CASE B!Enqueue
  <2>1. Still
    BY <1>2, CallsQuiet DEF B!Enqueue, Quiet
  <2>. QED
    BY <1>1, <1>2, <2>1 DEF B!Enqueue
<1>3. CASE B!Claim
  <2>1. CASE state # "DEF_OWNED"
    <3>1. Still
      BY <1>3, <2>1, CallsQuiet DEF B!Claim, Quiet
    <3>. QED
      BY <1>1, <1>3, <2>1, <3>1 DEF B!Claim
  <2>2. CASE state = "DEF_OWNED"
    <3>1. /\ stack \in Seq(B!Frames) /\ stack # <<>> /\ B!Running("claim")
          /\ B!Continue("askOwner") /\ state' = "PREGRANT"
      BY <1>3, <2>2, AtPointStates DEF B!Claim, B!Running
    <3>2. "askOwner" \in B!RequestPoints \cup B!ImmediatePoints \cup B!GrantPoints
      BY DEF B!RequestPoints
    <3>3. AtPoint("grant")' <=> AtPoint("grant")
      BY <3>1, <3>2, CallContinues
    <3>4. AtPoint("askOwner")'
      <4>1. Len(stack) \in 1..Len(stack') /\ stack'[Len(stack)].at = "askOwner"
        BY <3>1, <3>2, B!ContinueFrames, PoweredAssumptions
      <4>. QED
        BY <4>1 DEF AtPoint
    <3>. QED
      BY <2>2, <3>1, <3>3, <3>4 DEF Unmoved, Given, Serving, Unasked, Owing, Keeps
  <2>. QED
    BY <2>1, <2>2
<1>4. CASE B!Take
  <2>1. Still
    BY <1>4, CallsQuiet DEF B!Take, B!Fail, Quiet
  <2>2. UNCHANGED state \/ (state = "DEF_OWNED" /\ state' = "IMM_GRANTING")
    BY <1>4 DEF B!Take
  <2>. QED
    BY <2>1, <2>2 DEF Unmoved, Given, Serving, Unasked, Owing, Keeps
<1>5. CASE B!Check
  <2>1. Still
    BY <1>5, CallsQuiet DEF B!Check, Quiet
  <2>. QED
    BY <1>1, <1>5, <2>1 DEF B!Check
<1>6. CASE B!GiveUp
  <2>1. Still
    BY <1>6, CallsQuiet DEF B!GiveUp, B!Fail, Quiet
  <2>2. state = "IMM_GRANTING" /\ state' = "DEF_OWNED"
    BY <1>6, Runs, AtPointStates DEF B!GiveUp
  <2>. QED
    BY <2>1, <2>2 DEF Unmoved, Given, Serving, Unasked, Owing, Keeps
<1>7. CASE B!Grant
  <2>1. AtPoint("grant") /\ state = "GRANTING" /\ state' = "BUSY" /\ ~AtPoint("askOwner")
    BY <1>7, Runs, AtPointStates DEF B!Grant
  <2>2. "configure" \in B!RequestPoints \cup B!ImmediatePoints \cup B!GrantPoints
    BY DEF B!GrantPoints
  <2>3. AtPoint("askOwner")' <=> AtPoint("askOwner")
    BY <1>7, <2>2, AtPointStates, CallContinues DEF B!Grant
  <2>. QED
    BY <2>1, <2>3 DEF Unmoved, Given, Serving, Unasked, Owing, Keeps
<1>8. CASE B!Configure
  <2>1. Still
    BY <1>8, CallsQuiet DEF B!Configure, Quiet
  <2>. QED
    BY <1>1, <1>8, <2>1 DEF B!Configure
<1>9. CASE B!SignalGranted
  <2>1. Still
    BY <1>9, CallsQuiet DEF B!SignalGranted, Quiet
  <2>. QED
    BY <1>1, <1>9, <2>1 DEF B!SignalGranted
<1>. QED
  BY <1>2, <1>3, <1>4, <1>5, <1>6, <1>7, <1>8, <1>9

(* A client releases the resource to the next one, or to the manager. *)
LEMMA ReleaseMoves ==
  ASSUME B!IndInv, NEW c, ReleaseSection(c, OwnerGranted, UNCHANGED powerVars),
         AtPoint("grant")' <=> AtPoint("grant"), AtPoint("askOwner")' <=> AtPoint("askOwner")
  PROVE  (Unmoved /\ UNCHANGED powerVars) \/ GivenBack
<1>1. state = "BUSY" /\ ~AtPoint("grant") /\ ~AtPoint("askOwner")
  BY AtPointStates DEF ReleaseSection
<1>2. CASE queue = <<>>
  <2>1. state' = "DEF_OWNED" /\ OwnerGranted
    BY <1>2 DEF ReleaseSection
  <2>. QED
    BY <1>1, <2>1 DEF GivenBack, Given, Serving, Unasked, Owing, Keeps
<1>3. CASE queue # <<>>
  <2>1. state' = "GRANTING" /\ UNCHANGED powerVars
    BY <1>3 DEF ReleaseSection
  <2>. QED
    BY <1>1, <2>1 DEF Unmoved, Given, Serving, Unasked, Owing, Keeps
<1>. QED
  BY <1>2, <1>3

LEMMA NotifyMoves ==
  ASSUME B!IndInv, NEW from \in Quiet, NEW next \in Quiet,
         Notify(from, next, OwnerGranted, UNCHANGED powerVars)
  PROVE  (Unmoved /\ UNCHANGED powerVars) \/ GivenBack
<1>1. /\ B!Running(from)
      /\ B!Continue(next) \/ \E c \in Clients : B!ContinueNested(next, c)
  BY DEF Notify, Running, Continue, ContinueNested, B!Running, B!Continue,
     B!ContinueNested
<1>2. (AtPoint("grant")' <=> AtPoint("grant")) /\ (AtPoint("askOwner")' <=> AtPoint("askOwner"))
  BY <1>1, CallsQuiet
<1>3. CASE UNCHANGED state /\ UNCHANGED powerVars
  BY <1>2, <1>3 DEF Unmoved, Given, Serving, Unasked, Owing, Keeps
<1>4. CASE ReleaseSection(resId, OwnerGranted, UNCHANGED powerVars)
  BY <1>2, <1>4, ReleaseMoves
<1>. QED
  BY <1>3, <1>4 DEF Notify

LEMMA ClientReleaseMoves ==
  ASSUME B!IndInv, NEW c \in Clients, ClientReleases(c)
  PROVE  (Unmoved /\ UNCHANGED powerVars) \/ GivenBack
<1>1. UNCHANGED stack /\ ReleaseSection(c, OwnerGranted, UNCHANGED powerVars)
  BY DEF ClientReleases, Release
<1>2. (AtPoint("grant")' <=> AtPoint("grant")) /\ (AtPoint("askOwner")' <=> AtPoint("askOwner"))
  BY <1>1 DEF AtPoint
<1>. QED
  BY <1>1, <1>2, ReleaseMoves

LEMMA ClientCallsUnmoved ==
  ASSUME B!IndInv, NEW c \in Clients, ClientCalls(c)
  PROVE  Unmoved /\ UNCHANGED powerVars
<1>1. (B!CallRequest(c) \/ B!CallImmediate(c)) /\ UNCHANGED powerVars
  BY SamePoweredCalls DEF ClientCalls
<1>2. UNCHANGED state /\ (B!Call(c, "enqueue") \/ B!Call(c, "notifyImm"))
  BY <1>1 DEF B!CallRequest, B!CallImmediate
<1>3. {"enqueue", "notifyImm"} \subseteq B!RequestPoints \cup B!ImmediatePoints
  BY DEF B!RequestPoints, B!ImmediatePoints
<1>4. (AtPoint("grant")' <=> AtPoint("grant")) /\ (AtPoint("askOwner")' <=> AtPoint("askOwner"))
  BY <1>2, <1>3, AtPointStates, CallComes
<1>. QED
  BY <1>1, <1>2, <1>4 DEF Unmoved, Given, Serving, Unasked, Owing, Keeps

(* requested() is signalled: from then on the manager owes the resource. *)
LEMMA AskOwnerMoves ==
  ASSUME B!IndInv, AskOwner(OwnerRequested)
  PROVE  /\ OwnerRequested /\ Unasked /\ ~Owing /\ ~Given /\ ~Serving
         /\ Owing' /\ ~Given' /\ ~Serving' /\ ~Unasked' /\ (Keeps' <=> Keeps)
<1>1. /\ B!Running("askOwner") /\ B!Return /\ OwnerRequested /\ UNCHANGED state
      /\ stack \in Seq(B!Frames) /\ stack # <<>>
  BY AtPointStates DEF AskOwner, OwnerRequested, Running, Return, B!Running, B!Return
<1>2. AtPoint("askOwner") /\ state = "PREGRANT" /\ ~AtPoint("grant")
  BY <1>1, Runs, AtPointStates
<1>3. ~AtPoint("grant")'
  BY <1>1, <1>2, CallReturns
<1>4. ~AtPoint("askOwner")'
  <2>1. \A i, j \in 1..Len(stack) : stack[i].at = "askOwner" /\ stack[j].at = "askOwner" => i = j
    BY DEF B!IndInv, B!OneCallAsks
  <2>2. /\ Len(stack) \in 1..Len(stack) /\ stack[Len(stack)].at = "askOwner"
        /\ \A i \in 1..Len(stack') : i \in 1..Len(stack) /\ i # Len(stack)
                                     /\ stack'[i] = stack[i]
    BY <1>1, B!ReturnFrames, PoweredAssumptions DEF B!Running
  <2>. QED
    BY <2>1, <2>2 DEF AtPoint
<1>. QED
  BY <1>1, <1>2, <1>3, <1>4 DEF Given, Serving, Unasked, Owing, Keeps

LEMMA AskOwnerImmUnmoved ==
  ASSUME B!IndInv, AskOwnerImm(OwnerImmediateRequested)
  PROVE  Unmoved /\ UNCHANGED powerVars
<1>1. B!Running("askOwnerImm") /\ B!Continue("check") /\ UNCHANGED <<state, powerVars>>
  BY DEF AskOwnerImm, OwnerImmediateRequested, Running, Continue, B!Running,
     B!Continue
<1>2. (AtPoint("grant")' <=> AtPoint("grant")) /\ (AtPoint("askOwner")' <=> AtPoint("askOwner"))
  BY <1>1, CallsQuiet DEF Quiet
<1>. QED
  BY <1>1, <1>2 DEF Unmoved, Given, Serving, Unasked, Owing, Keeps

LEMMA GrantedTaskPowered ==
  ASSUME PoweredInv, RunGrantedTask
  PROVE  PoweredInv' /\ (Owing' <=> Owing)
<1>1. /\ power = Empty /\ stack = <<>> /\ UNCHANGED state /\ UNCHANGED powerVars
      /\ stack' = <<[id |-> NO_RES, irq |-> FALSE, at |-> "grant"]>>
  BY DEF RunGrantedTask, StartGranted, Empty
<1>2. ~AtPoint("askOwner") /\ ~AtPoint("askOwner")'
  <2>1. Len(stack') = 1 /\ stack'[1].at = "grant"
    BY <1>1
  <2>. QED
    BY <1>1, <2>1 DEF AtPoint
<1>3. (Given' <=> Given) /\ (Unasked' <=> Unasked) /\ (Owing' <=> Owing)
  BY <1>1, <1>2 DEF Given, Unasked, Owing
<1>. QED
  BY <1>1, <1>3, UnheardPowered

LEMMA PoweredNext ==
  ASSUME PoweredInv, B!IndInv, [Next]_(vars)
  PROVE  PoweredInv'
<1>1. ASSUME (Unmoved /\ UNCHANGED powerVars) \/ GivenBack
      PROVE  PoweredInv'
  BY <1>1, UnheardPowered, GrantedPowered DEF Unmoved, GivenBack
<1>2. CASE RunCall
  <2>1. CASE (\/ B!Enqueue \/ B!Claim \/ B!Take \/ B!Check \/ B!GiveUp \/ B!Grant
              \/ B!Configure \/ B!SignalGranted) /\ UNCHANGED powerVars
    BY <2>1, <1>1, CallStepUnmoved
  <2>2. CASE \/ Notify("notify", "claim", OwnerGranted, UNCHANGED powerVars)
             \/ Notify("notifyImm", "take", OwnerGranted, UNCHANGED powerVars)
    BY <2>2, <1>1, NotifyMoves DEF Quiet
  <2>3. CASE AskOwner(OwnerRequested)
    BY <2>3, AskOwnerMoves, AskedPowered
  <2>4. CASE AskOwnerImm(OwnerImmediateRequested)
    BY <2>4, <1>1, AskOwnerImmUnmoved
  <2>. QED
    BY <1>2, <2>1, <2>2, <2>3, <2>4, SamePoweredCalls DEF RunCall, RunningCall
<1>3. CASE RunGrantedTask
  BY <1>3, GrantedTaskPowered
<1>4. CASE PowerStep
  BY <1>4, StartTaskPowered, StopTaskPowered, TimerTaskPowered, FiredPowered,
     StartDonePowered, StartFailedPowered, ReleasePowered, StopDonePowered,
     StopFailedPowered, ClearPowered DEF PowerStep, Handler
<1>5. ASSUME NEW fails \in BOOLEAN, DeviceDone(fails)
      PROVE  PoweredInv'
  BY <1>5, DeviceDonePowered
<1>6. ASSUME NEW c \in Clients, ClientReleases(c)
      PROVE  PoweredInv'
  BY <1>6, <1>1, ClientReleaseMoves
<1>7. ASSUME NEW c \in Clients, ClientCalls(c)
      PROVE  PoweredInv'
  BY <1>7, <1>1, ClientCallsUnmoved
<1>8. CASE UNCHANGED vars
  <2>1. UNCHANGED avars /\ UNCHANGED powerVars
    BY <1>8 DEF vars, avars, avars
  <2>. QED
    BY <2>1, ArbiterStill, UnheardPowered
<1>. QED
  BY <1>2, <1>3, <1>4, <1>5, <1>6, <1>7, <1>8 DEF Next

LEMMA PoweredInit ==
  ASSUME Init
  PROVE  PoweredInv
<1>1. /\ ~Given /\ ~Serving /\ ~Owing /\ power = Empty /\ posted = Empty
      /\ device = "off" /\ ~stopping /\ ~requested /\ ~stopTimer /\ ~timer /\ ~ignored
  BY NoCalls DEF Init, ArbiterInit, Given, Serving, Owing, Empty
<1>. USE <1>1, QueueValues, PointValues DEF IsOn, IsOff
<1>2. SplitTypeOK
  BY DEF Init, SplitTypeOK
<1>3. GivenInv /\ DeviceInv
  BY DEF GivenInv, DeviceInv
<1>4. TasksInv
  BY DEF TasksInv, StartPosted, StopPosted, TimerPosted
<1>5. PointsInv
  BY DEF PointsInv, Starts, Clears
<1>6. AskedInv /\ CommandsInv
  BY DEF AskedInv, CommandsInv, StartPosted
<1>7. SteadyInv
  BY DEF SteadyInv, Starts
<1>. QED
  BY <1>2, <1>3, <1>4, <1>5, <1>6, <1>7 DEF PoweredInv

-----------------------------------------------------------------------------
(* The manager as a default owner that keeps to its contract.              *)

LEMMA OwesOwing ==
  ASSUME PoweredInv
  PROVE  Owes <=> Owing
<1>1. At({"askOwner"}) <=> AtPoint("askOwner")
  BY DEF At, AtPoint
<1>2. Owing /\ stopping => Remembers
  BY DEF PoweredInv, AskedInv, Remembers
<1>. QED
  BY <1>1, <1>2 DEF Owes, Owing

LEMMA OwesOwingNext ==
  ASSUME PoweredInv'
  PROVE  Owes' <=> Owing'
<1>1. At({"askOwner"})' <=> AtPoint("askOwner")'
  BY DEF At, AtPoint
<1>2. Owing' /\ stopping' => Remembers'
  BY DEF PoweredInv, AskedInv, Remembers
<1>. QED
  BY <1>1, <1>2 DEF Owes, Owing

LEMMA OwnerVarsStay ==
  ASSUME PoweredInv, PoweredInv', Owing' <=> Owing, Keeps' <=> Keeps
  PROVE  UNCHANGED B!ownerVars
<1>1. Owes' <=> Owes
  BY OwesOwing, OwesOwingNext
<1>2. Owes' = Owes
  BY <1>1 DEF Owes
<1>3. Keeps' = Keeps
  BY DEF Keeps
<1>. QED
  BY <1>2, <1>3 DEF B!ownerVars

LEMMA ReleaseSectionIs ==
  ASSUME PoweredInv, PoweredInv', NEW c, ReleaseSection(c, OwnerGranted, UNCHANGED powerVars),
         (Unmoved /\ UNCHANGED powerVars) \/ GivenBack
  PROVE  B!ReleaseSection(c, B!OwnerGranted, UNCHANGED B!ownerVars)
<1>1. CASE queue = <<>>
  <2>1. ~Owes' /\ ~Owes
    <3>1. ~Owing /\ ~Owing'
      BY <1>1 DEF ReleaseSection, Owing
    <3>. QED
      BY <3>1, OwesOwing, OwesOwingNext
  <2>2. UNCHANGED Owes
    BY <2>1 DEF Owes
  <2>3. Keeps' = TRUE
    BY <1>1 DEF ReleaseSection, Keeps
  <2>4. B!OwnerGranted
    BY <2>2, <2>3 DEF B!OwnerGranted
  <2>. QED
    BY <1>1, <2>4 DEF ReleaseSection, B!ReleaseSection
<1>2. CASE queue # <<>>
  <2>1. Unmoved
    BY <1>2 DEF ReleaseSection, GivenBack, Unasked, Keeps
  <2>2. UNCHANGED B!ownerVars
    BY <2>1, OwnerVarsStay DEF Unmoved
  <2>. QED
    BY <1>2, <2>2 DEF ReleaseSection, B!ReleaseSection
<1>. QED
  BY <1>1, <1>2

LEMMA PoweredRunCallMaps ==
  ASSUME PoweredInv, PoweredInv', B!IndInv, RunCall
  PROVE  B!RunCall
<1>1. CASE (\/ B!Enqueue \/ B!Claim \/ B!Take \/ B!Check \/ B!GiveUp \/ B!Grant
            \/ B!Configure \/ B!SignalGranted) /\ UNCHANGED powerVars
  <2>1. UNCHANGED B!ownerVars
    BY <1>1, CallStepUnmoved, OwnerVarsStay DEF Unmoved
  <2>. QED
    BY <1>1, <2>1 DEF B!RunCall, B!RunningCall
<1>2. ASSUME NEW from \in Quiet, NEW next \in Quiet,
             Notify(from, next, OwnerGranted, UNCHANGED powerVars)
      PROVE  B!Notify(from, next, B!OwnerGranted, UNCHANGED B!ownerVars)
  <2>1. (Unmoved /\ UNCHANGED powerVars) \/ GivenBack
    BY <1>2, NotifyMoves
  <2>2. CASE /\ Continue(next)
             /\ UNCHANGED <<state, resId, reqResId, queue, granting, client, configured>>
             /\ UNCHANGED powerVars
    <3>1. Unmoved
      BY <2>1, <2>2 DEF GivenBack, Given
    <3>2. UNCHANGED B!ownerVars
      BY <3>1, OwnerVarsStay DEF Unmoved
    <3>. QED
      BY <1>2, <2>2, <3>2 DEF Notify, B!Notify, Running, B!Running, Continue, B!Continue
  <2>3. CASE /\ resId \in Clients /\ client[resId] = "owner"
             /\ ReleaseSection(resId, OwnerGranted, UNCHANGED powerVars)
             /\ client' = [client EXCEPT ![resId] = "idle"]
             /\ Continue(next) \/ ContinueNested(next, resId)
    <3>1. B!ReleaseSection(resId, B!OwnerGranted, UNCHANGED B!ownerVars)
      BY <2>1, <2>3, ReleaseSectionIs
    <3>. QED
      BY <1>2, <2>3, <3>1 DEF Notify, B!Notify, Running, B!Running, Continue,
         B!Continue, ContinueNested, B!ContinueNested
  <2>. QED
    BY <1>2, <2>2, <2>3 DEF Notify
<1>3. CASE AskOwner(OwnerRequested)
  <2>1. Owing' /\ (Keeps' <=> Keeps) /\ UNCHANGED <<state, resId, reqResId, granting>>
    BY <1>3, AskOwnerMoves DEF OwnerRequested
  <2>2. Owes' = TRUE /\ UNCHANGED Keeps
    BY <2>1, OwesOwingNext DEF Owes, Keeps
  <2>3. B!OwnerRequested
    BY <2>1, <2>2 DEF B!OwnerRequested, B!OwnerKeeps
  <2>4. B!AskOwner(B!OwnerRequested)
    BY <1>3, <2>3 DEF AskOwner, B!AskOwner, Running, B!Running, Return, B!Return
  <2>. QED
    BY <2>4 DEF B!RunCall, B!RunningCall
<1>4. CASE AskOwnerImm(OwnerImmediateRequested)
  <2>1. UNCHANGED B!ownerVars /\ UNCHANGED <<state, resId, reqResId, granting>>
    BY <1>4, AskOwnerImmUnmoved, OwnerVarsStay
       DEF Unmoved, AskOwnerImm, OwnerImmediateRequested
  <2>2. B!OwnerImmediateRequested
    BY <2>1 DEF B!OwnerImmediateRequested, B!OwnerKeeps, B!ownerVars
  <2>3. B!AskOwnerImm(B!OwnerImmediateRequested)
    BY <1>4, <2>2 DEF AskOwnerImm, B!AskOwnerImm, Running, B!Running, Continue,
       B!Continue
  <2>. QED
    BY <2>3 DEF B!RunCall, B!RunningCall
<1>5. "notify" \in Quiet /\ "claim" \in Quiet /\ "notifyImm" \in Quiet /\ "take" \in Quiet
  BY DEF Quiet
<1>. QED
  BY <1>1, <1>2, <1>3, <1>4, <1>5, SamePoweredCalls
     DEF RunCall, RunningCall, B!RunCall, B!RunningCall

LEMMA PoweredStepMaps ==
  ASSUME PoweredInv, PoweredInv', B!IndInv, [Next]_(vars)
  PROVE  [B!Next]_(B!vars)
<1>1. ASSUME UNCHANGED avars
      PROVE  UNCHANGED B!vars
  <2>1. UNCHANGED B!ownerVars
    BY <1>1, ArbiterStill, OwnerVarsStay DEF avars, Keeps
  <2>. QED
    BY <1>1, <2>1 DEF avars, B!vars, B!avars
<1>2. CASE RunCall
  BY <1>2, PoweredRunCallMaps DEF B!Next
<1>3. CASE RunGrantedTask
  <2>1. Owing' <=> Owing
    BY <1>3, GrantedTaskPowered
  <2>2. Keeps' <=> Keeps
    BY <1>3 DEF RunGrantedTask, StartGranted, Keeps
  <2>3. UNCHANGED B!ownerVars
    BY <2>1, <2>2, OwnerVarsStay
  <2>. QED
    BY <1>3, <2>3, SamePoweredCalls DEF RunGrantedTask, B!RunGrantedTask, B!Next
<1>4. CASE releaseResource
  <2>1. stack = <<>> /\ power \in {ReleaseOnly, ClearRelease}
    BY <1>4, PointCases DEF releaseResource, AtPower, PoweredInv
  <2>2. CASE state = "PREGRANT"
    <3>1. Owes /\ resId = default_owner_id
      BY <2>1, <2>2, NoCallsStates, OwesOwing
    <3>2. state' = "GRANTING" /\ B!OwnerRelease /\ B!OwnerReleaseSucceeds
      BY <1>4, <2>2, <3>1, SamePoweredCalls
         DEF releaseResource, OwnerRelease, B!OwnerReleaseSucceeds
    <3>3. Owes' = FALSE /\ Keeps' = FALSE
      BY <3>2 DEF Owes, Keeps
    <3>4. B!OwnerLetsGo
      BY <3>2, <3>3 DEF B!OwnerLetsGo
    <3>. QED
      BY <1>4, <3>1, <3>4 DEF releaseResource, B!DeferredRelease, B!Next
  <2>3. CASE state # "PREGRANT"
    <3>1. ~Given
      BY <2>1, PointValues DEF PoweredInv, GivenInv
    <3>2. UNCHANGED <<state, resId, reqResId, granting>>
      BY <1>4, <2>1, <2>3, <3>1, NoCallsStates DEF releaseResource, OwnerRelease, Given
    <3>. QED
      BY <1>1, <1>4, <3>2 DEF releaseResource, avars
  <2>. QED
    BY <2>2, <2>3
<1>5. CASE PowerStep /\ ~releaseResource
  <2>1. UNCHANGED avars
    BY <1>5 DEF PowerStep, Handler, startTask, stopTask, timerTask, fired,
       startDone, startFailed, stopDone, stopFailed, clear, avars, avars
  <2>. QED
    BY <1>1, <2>1
<1>6. ASSUME NEW fails \in BOOLEAN, DeviceDone(fails)
      PROVE  UNCHANGED B!vars
  BY <1>1, <1>6 DEF DeviceDone, avars, avars
<1>7. ASSUME NEW c \in Clients, ClientReleases(c)
      PROVE  B!Next
  <2>1. B!ReleaseSection(c, B!OwnerGranted, UNCHANGED B!ownerVars)
    BY <1>7, ClientReleaseMoves, ReleaseSectionIs DEF ClientReleases, Release
  <2>2. B!ClientReleases(c)
    BY <1>7, <2>1 DEF ClientReleases, Release, B!Release, B!ClientReleases,
       Interrupts, B!Interrupts, Cardinality, B!Cardinality
  <2>. QED
    BY <2>2 DEF B!Next
<1>8. ASSUME NEW c \in Clients, ClientCalls(c)
      PROVE  B!Next
  <2>1. UNCHANGED B!ownerVars
    BY <1>8, ClientCallsUnmoved, OwnerVarsStay DEF Unmoved
  <2>2. B!ClientCalls(c)
    BY <1>8, <2>1, SamePoweredCalls DEF ClientCalls, B!ClientCalls
  <2>. QED
    BY <2>2 DEF B!Next
<1>9. CASE UNCHANGED vars
  BY <1>1, <1>9 DEF vars, avars, avars
<1>. QED
  BY <1>2, <1>3, <1>4, <1>5, <1>6, <1>7, <1>8, <1>9 DEF Next, PowerStep, Handler

LEMMA PoweredSpecMaps ==
  Spec => B!Spec /\ []B!IndInv /\ []PoweredInv
<1>1. Init => B!Init /\ B!IndInv /\ PoweredInv
  <2>1. ASSUME Init
        PROVE  B!Init
    <3>1. state = "DEF_OWNED"
      BY <2>1 DEF Init, ArbiterInit
    <3>2. Owes = FALSE /\ Keeps = TRUE
      BY <3>1 DEF Owes, Keeps
    <3>. QED
      BY <2>1, <3>2 DEF Init, ArbiterInit, B!Init, B!ArbiterInit
  <2>2. B!Init => B!IndInv
    BY PoweredAssumptions, B!InitIndInv
  <2>. QED
    BY <2>1, <2>2, PoweredInit
<1>2. PoweredInv /\ B!IndInv /\ [Next]_(vars) => PoweredInv'
  BY PoweredNext
<1>3. PoweredInv /\ PoweredInv' /\ B!IndInv /\ [Next]_(vars) => [B!Next]_(B!vars)
  BY PoweredStepMaps
<1>4. B!IndInv /\ [B!Next]_(B!vars) => B!IndInv'
  BY PoweredAssumptions, B!NextIndInv
<1>. QED
  BY <1>1, <1>2, <1>3, <1>4, PTL DEF Spec, B!Spec

(* With a power manager of a device that is switched in tasks, each client *)
(* told that it has the resource is the only one to have it, and the       *)
(* hardware is configured for it.                                          *)
THEOREM PoweredExclusive == Spec => []B!ExclusiveUse
  BY PoweredSpecMaps, PoweredAssumptions, B!ArbiterExclusive, PTL

LEMMA QueueTypes ==
  ASSUME posted \in {Empty, StartOnly, StopOnly, TimerOnly, TimerStart}
  PROVE  posted \in Seq(PowerTasks) /\ IsInjective(posted)
<1>1. posted \in Seq(PowerTasks)
  <2>1. {"startTask", "stopTask", "timerTask"} \subseteq PowerTasks
    BY DEF PowerTasks
  <2>2. /\ Empty \in Seq(PowerTasks) /\ StartOnly \in Seq(PowerTasks)
        /\ StopOnly \in Seq(PowerTasks) /\ TimerOnly \in Seq(PowerTasks)
        /\ TimerStart \in Seq(PowerTasks)
    BY <2>1 DEF Empty, StartOnly, StopOnly, TimerOnly, TimerStart
  <2>. QED
    BY <2>2, Zenon
<1>2. IsInjective(posted)
  BY DEF IsInjective, Empty, StartOnly, StopOnly, TimerOnly, TimerStart
<1>. QED
  BY <1>1, <1>2

LEMMA PointTypes ==
  ASSUME power \in {Empty, Started, NotStarted, ReleaseOnly, Stopped, NotStopped, ClearOnly,
                    ClearStarted, ClearRelease}
  PROVE  power \in Seq(PowerPoints)
<1>1. {"startDone", "startFailed", "release", "stopDone", "stopFailed", "clear"}
         \subseteq PowerPoints
  BY DEF PowerPoints
<1>2. /\ Empty \in Seq(PowerPoints) /\ Started \in Seq(PowerPoints)
      /\ NotStarted \in Seq(PowerPoints) /\ ReleaseOnly \in Seq(PowerPoints)
      /\ Stopped \in Seq(PowerPoints) /\ NotStopped \in Seq(PowerPoints)
      /\ ClearOnly \in Seq(PowerPoints) /\ ClearStarted \in Seq(PowerPoints)
      /\ ClearRelease \in Seq(PowerPoints)
  BY <1>1 DEF Empty, Started, NotStarted, ReleaseOnly, Stopped, NotStopped, ClearOnly,
     ClearStarted, ClearRelease
<1>. QED
  BY <1>2, Zenon

LEMMA PoweredTypes ==
  ASSUME PoweredInv, B!IndInv
  PROVE  TypeOK
<1>1. ArbiterTypeOK
  BY DEF B!IndInv, B!TypeOK, B!ArbiterTypeOK, ArbiterTypeOK, B!ArbStates, ArbStates,
     B!Frames, Frames, B!RequestPoints, RequestPoints, B!ImmediatePoints,
     ImmediatePoints, B!GrantPoints, GrantPoints, B!ClientStates, ClientStates
<1>2. posted \in Seq(PowerTasks) /\ IsInjective(posted)
  BY QueueTypes DEF PoweredInv, SplitTypeOK
<1>3. power \in Seq(PowerPoints)
  BY PointTypes DEF PoweredInv, SplitTypeOK
<1>. QED
  BY <1>1, <1>2, <1>3 DEF PoweredInv, SplitTypeOK, TypeOK, DeviceStates

(* A client that owns the resource finds the device fully powered on, and  *)
(* nobody about to power it down, whichever manager is wired, with         *)
(* SplitControl and with StdControl, unless the manager did not look at a  *)
(* start that was refused or failed (TEP 115, section 4.1).                *)
THEOREM PoweredUseful == Spec => []PowerInv
<1>1. ASSUME PoweredInv, B!IndInv, NEW c \in Clients, client[c] = "owner"
      PROVE  Undisturbed /\ (device = "on" \/ ignored)
  <2>1. Given /\ Serving
    BY <1>1 DEF B!IndInv, B!OneHolder, Given, Serving
  <2>2. IsOn /\ power = <<>> /\ posted = <<>> /\ ~timer
    BY <1>1, <2>1 DEF PoweredInv, GivenInv, Empty
  <2>3. \A t : ~Contains(<<>>, t)
    BY OneAndTwoContain
  <2>. QED
    BY <2>2, <2>3 DEF Undisturbed, IsOn
<1>2. PoweredInv /\ B!IndInv => PowerInv
  BY <1>1, PoweredTypes DEF PowerInv
<1>. QED
  BY <1>2, PoweredSpecMaps, PTL

(* The managers ask the device for each transition only when it can make   *)
(* it, until they ignore a refusal; InfiniteRetryPowerManagerP, which      *)
(* repeats what was refused, with a device that never fails.               *)
THEOREM PoweredCommands == Spec => NoCommandDropped
<1>1. ASSUME PoweredInv, ~ignored, Retrying => ~Fails
      PROVE  /\ startTask => device = "off" \/ (Deferred /\ device = "on")
             /\ stopDone /\ requested => device = "off"
             /\ stopTask \/ (fired /\ ~stopTimer) => device = "on"
  <2>1. startTask => device = "off" \/ (Deferred /\ device = "on")
    BY <1>1, TaskCases
       DEF startTask, PoweredInv, TasksInv, CommandsInv, StartPosted, RetryFails, IsOff
  <2>2. stopDone => device = "off"
    BY <1>1, PointCases DEF stopDone, PoweredInv, PointsInv, IsOff
  <2>3. stopTask => device = "on"
    BY <1>1, TaskCases DEF stopTask, PoweredInv, TasksInv, StopPosted, IsOn
  <2>4. fired => device = "on"
    BY <1>1 DEF fired, PoweredInv, TasksInv, IsOn
  <2>. QED
    BY <2>1, <2>2, <2>3, <2>4
<1>2. PoweredInv =>
        [~ignored /\ (Retrying => ~Fails) =>
           /\ startTask => device = "off" \/ (Deferred /\ device = "on")
           /\ stopDone /\ requested => device = "off"
           /\ stopTask \/ (fired /\ ~stopTimer) => device = "on"]_(vars)
  BY <1>1
<1>. QED
  BY <1>2, PoweredSpecMaps, PTL DEF NoCommandDropped

(* The two ways to name this arbiter. *)
LEMMA OnePoweredArbiter ==
  /\ \A c : B!CallRequest(c) <=> Generic!CallRequest(c)
  /\ \A c : B!CallImmediate(c) <=> Generic!CallImmediate(c)
  /\ B!Enqueue <=> Generic!Enqueue
  /\ B!Claim <=> Generic!Claim
  /\ B!Take <=> Generic!Take
  /\ B!Check <=> Generic!Check
  /\ B!GiveUp <=> Generic!GiveUp
  /\ B!Grant <=> Generic!Grant
  /\ B!Configure <=> Generic!Configure
  /\ B!SignalGranted <=> Generic!SignalGranted
  /\ B!StartGranted <=> Generic!StartGranted
  /\ B!OwnerLetsGo <=> Generic!OwnerLetsGo
  /\ B!Notify("notify", "claim", B!OwnerGranted, UNCHANGED B!ownerVars)
       <=> Generic!Notify("notify", "claim", Generic!OwnerGranted, UNCHANGED Generic!ownerVars)
  /\ B!Notify("notifyImm", "take", B!OwnerGranted, UNCHANGED B!ownerVars)
       <=> Generic!Notify("notifyImm", "take", Generic!OwnerGranted, UNCHANGED Generic!ownerVars)
  /\ B!AskOwner(B!OwnerRequested) <=> Generic!AskOwner(Generic!OwnerRequested)
  /\ B!AskOwnerImm(B!OwnerImmediateRequested) <=> Generic!AskOwnerImm(Generic!OwnerImmediateRequested)
  /\ B!DeferredRelease <=> Generic!DeferredRelease
  /\ \A c : B!ClientReleases(c) <=> Generic!ClientReleases(c)
<1>1. \A c : B!CallRequest(c) <=> Generic!CallRequest(c)
  BY DEF B!CallRequest, Generic!CallRequest, B!Call, Generic!Call, B!Interrupts,
     Generic!Interrupts, B!Cardinality, Generic!Cardinality
<1>2. \A c : B!CallImmediate(c) <=> Generic!CallImmediate(c)
  BY DEF B!CallImmediate, Generic!CallImmediate, B!Call, Generic!Call, B!Interrupts,
     Generic!Interrupts, B!Cardinality, Generic!Cardinality, B!Contains,
     Generic!Contains
<1>3. B!Enqueue <=> Generic!Enqueue
  BY DEF B!Enqueue, Generic!Enqueue, B!Running, Generic!Running, B!Caller,
     Generic!Caller, B!Continue, Generic!Continue, B!Return, Generic!Return,
     B!Contains, Generic!Contains
<1>4. B!Claim <=> Generic!Claim
  BY DEF B!Claim, Generic!Claim, B!Running, Generic!Running, B!Continue,
     Generic!Continue, B!Return, Generic!Return
<1>5. B!Take <=> Generic!Take
  BY DEF B!Take, Generic!Take, B!Running, Generic!Running, B!Caller, Generic!Caller,
     B!Continue, Generic!Continue, B!Return, Generic!Return, B!Fail, Generic!Fail
<1>6. B!Check <=> Generic!Check
  BY DEF B!Check, Generic!Check, B!Running, Generic!Running, B!Caller, Generic!Caller,
     B!Continue, Generic!Continue, B!Return, Generic!Return
<1>7. B!GiveUp <=> Generic!GiveUp
  BY DEF B!GiveUp, Generic!GiveUp, B!Running, Generic!Running, B!Caller,
     Generic!Caller, B!Return, Generic!Return, B!Fail, Generic!Fail
<1>8. B!Grant <=> Generic!Grant
  BY DEF B!Grant, Generic!Grant, B!Running, Generic!Running, B!Continue,
     Generic!Continue
<1>9. B!Configure <=> Generic!Configure
  BY DEF B!Configure, Generic!Configure, B!Running, Generic!Running, B!Continue,
     Generic!Continue
<1>10. B!SignalGranted <=> Generic!SignalGranted
  BY DEF B!SignalGranted, Generic!SignalGranted, B!Running, Generic!Running, B!Return,
     Generic!Return
<1>11. B!StartGranted <=> Generic!StartGranted
  BY DEF B!StartGranted, Generic!StartGranted
<1>12. B!OwnerLetsGo <=> Generic!OwnerLetsGo
  BY DEF B!OwnerLetsGo, Generic!OwnerLetsGo, B!OwnerRelease, Generic!OwnerRelease,
     B!OwnerReleaseSucceeds, Generic!OwnerReleaseSucceeds, Owes, Keeps
<1>13. B!Notify("notify", "claim", B!OwnerGranted, UNCHANGED B!ownerVars)
       <=> Generic!Notify("notify", "claim", Generic!OwnerGranted, UNCHANGED Generic!ownerVars)
  BY DEF B!Notify, Generic!Notify, B!Running, Generic!Running, B!Continue,
     Generic!Continue, B!ContinueNested, Generic!ContinueNested, B!ReleaseSection,
     Generic!ReleaseSection, B!OwnerGranted, Generic!OwnerGranted, B!ownerVars,
     Generic!ownerVars, Owes, Keeps
<1>14. B!Notify("notifyImm", "take", B!OwnerGranted, UNCHANGED B!ownerVars)
       <=> Generic!Notify("notifyImm", "take", Generic!OwnerGranted, UNCHANGED Generic!ownerVars)
  BY DEF B!Notify, Generic!Notify, B!Running, Generic!Running, B!Continue,
     Generic!Continue, B!ContinueNested, Generic!ContinueNested, B!ReleaseSection,
     Generic!ReleaseSection, B!OwnerGranted, Generic!OwnerGranted, B!ownerVars,
     Generic!ownerVars, Owes, Keeps
<1>15. B!AskOwner(B!OwnerRequested) <=> Generic!AskOwner(Generic!OwnerRequested)
  BY DEF B!AskOwner, Generic!AskOwner, B!OwnerRequested, Generic!OwnerRequested,
     B!OwnerLetsGo, Generic!OwnerLetsGo, B!OwnerKeeps, Generic!OwnerKeeps,
     B!OwnerRelease, Generic!OwnerRelease, B!OwnerReleaseSucceeds,
     Generic!OwnerReleaseSucceeds, B!Running, Generic!Running, B!Return,
     Generic!Return, Owes, Keeps
<1>16. B!AskOwnerImm(B!OwnerImmediateRequested)
       <=> Generic!AskOwnerImm(Generic!OwnerImmediateRequested)
  BY DEF B!AskOwnerImm, Generic!AskOwnerImm, B!OwnerImmediateRequested,
     Generic!OwnerImmediateRequested, B!OwnerLetsGo, Generic!OwnerLetsGo, B!OwnerKeeps,
     Generic!OwnerKeeps, B!OwnerRelease, Generic!OwnerRelease, B!OwnerReleaseSucceeds,
     Generic!OwnerReleaseSucceeds, B!Running, Generic!Running, B!Continue,
     Generic!Continue, Owes, Keeps
<1>17. B!DeferredRelease <=> Generic!DeferredRelease
  BY <1>12 DEF B!DeferredRelease, Generic!DeferredRelease, Owes, Keeps
<1>18. \A c : B!ClientReleases(c) <=> Generic!ClientReleases(c)
  BY DEF B!ClientReleases, Generic!ClientReleases, B!Release, Generic!Release,
     B!ReleaseSection, Generic!ReleaseSection, B!Interrupts, Generic!Interrupts,
     B!Cardinality, Generic!Cardinality, B!OwnerGranted, Generic!OwnerGranted,
     B!ownerVars, Generic!ownerVars, Owes, Keeps
<1>. QED
  BY <1>1, <1>2, <1>3, <1>4, <1>5, <1>6, <1>7, <1>8, <1>9, <1>10, <1>11, <1>12, <1>13,
     <1>14, <1>15, <1>16, <1>17, <1>18

(* Each power manager of a device that is switched in tasks, whatever the  *)
(* device refuses or fails, is a default owner that keeps to the contract  *)
(* of ResourceDefaultOwner.nc.                                             *)
THEOREM PoweredImplements == Spec => RefinesArbiter
<1>1. B!Init <=> Generic!Init
  BY DEF B!Init, Generic!Init, B!ArbiterInit, Generic!ArbiterInit, Owes, Keeps
<1>2. B!Next <=> Generic!Next
  <2>1. B!RunCall <=> Generic!RunCall
    BY OnePoweredArbiter DEF B!RunCall, Generic!RunCall, B!RunningCall,
       Generic!RunningCall, B!ownerVars, Generic!ownerVars, Owes, Keeps
  <2>2. B!RunGrantedTask <=> Generic!RunGrantedTask
    BY OnePoweredArbiter DEF B!RunGrantedTask, Generic!RunGrantedTask, B!ownerVars,
       Generic!ownerVars, Owes, Keeps
  <2>3. \A c : B!ClientCalls(c) <=> Generic!ClientCalls(c)
    BY OnePoweredArbiter DEF B!ClientCalls, Generic!ClientCalls, B!ownerVars,
       Generic!ownerVars, Owes, Keeps
  <2>. QED
    BY <2>1, <2>2, <2>3, OnePoweredArbiter DEF B!Next, Generic!Next
<1>3. UNCHANGED B!vars <=> UNCHANGED Generic!vars
  BY DEF B!vars, Generic!vars, B!avars, Generic!avars, B!ownerVars, Generic!ownerVars,
     Owes, Keeps
<1>4. [B!Next]_(B!vars) => [Generic!Next]_(Generic!vars)
  BY <1>2, <1>3
<1>. QED
  BY <1>1, <1>4, PoweredSpecMaps, PTL DEF B!Spec, Generic!Spec, RefinesArbiter
=============================================================================
