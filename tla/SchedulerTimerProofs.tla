------------------------ MODULE SchedulerTimerProofs ------------------------
(***************************************************************************)
(* For every set of tasks: the linked list of SchedulerBasicP is the FIFO  *)
(* of the tasks posted and not started, isWaiting is exact, the core never *)
(* sleeps on work, and the scheduler implements TaskQueue.                 *)
(*                                                                         *)
(* Then the virtual timers, whose code runs in such tasks: for every       *)
(* number of timers and every delay, no timer fires early, periodic ones   *)
(* lose no time, and if no delay is MAXINT all fire on time.               *)
(***************************************************************************)
EXTENDS Scheduler, VirtualizeTimer, SequenceTheorems, WellFoundedInduction, TLAPS

(* The inductive invariant: nothing is posted before Scheduler.init; the   *)
(* core is drowsy or asleep only in taskLoop, and a task posted since the  *)
(* queue was found empty is remembered by the event register.              *)
SleepInv ==
  /\ phase = "bootstrap" => fifo = <<>> /\ exec = "init"
  /\ exec = "asleep" => fifo = <<>>
  /\ exec = "drowsy" => fifo = <<>> \/ event

IndInv == TypeOK /\ LinksMatchFifo /\ SleepInv

(* Scheduler's Init satisfies the inductive invariant. *)
LEMMA InitIndInv == Init => IndInv
<1> SUFFICES ASSUME Init PROVE IndInv
  OBVIOUS
<1>1. PICK zero \in Tasks : /\ m_head = zero
                            /\ m_tail = zero
                            /\ m_next = [t \in Tasks |-> zero]
                            /\ lastTask = zero
  BY DEF Init
<1>2. fifo = <<>> /\ phase = "bootstrap" /\ exec = "init" /\ event = FALSE
  BY DEF Init
<1>3. TypeOK
  <2>1. m_next \in [Tasks -> Tasks \cup {NO_TASK}]
    BY <1>1
  <2>2. fifo \in Seq(Tasks)
    BY <1>2
  <2>3. event \in BOOLEAN
    BY <1>2
  <2>. QED
    BY <1>1, <1>2, <2>1, <2>2, <2>3 DEF TypeOK, Phases, Execs
<1>. QED
  BY <1>2, <1>3 DEF IndInv, LinksMatchFifo, SleepInv

(* pushTask keeps the types and the links, and only appends. *)
LEMMA PushKeepsLinks ==
  ASSUME TypeOK, LinksMatchFifo, phase # "bootstrap", phase' # "bootstrap",
         NEW t \in Tasks, pushTask(t)
  PROVE  /\ m_head' \in Tasks \cup {NO_TASK}
         /\ m_tail' \in Tasks \cup {NO_TASK}
         /\ m_next' \in [Tasks -> Tasks \cup {NO_TASK}]
         /\ fifo' \in Seq(Tasks)
         /\ LinksMatchFifo'
<1> USE NoTaskIsNoTask
<1>1. CASE isWaiting(t)
  BY <1>1 DEF pushTask, queueVars, TypeOK, LinksMatchFifo, Posted
<1>2. CASE ~isWaiting(t)
  <2>1. /\ m_next[t] = NO_TASK
        /\ m_tail # t
        /\ fifo' = Append(fifo, t)
        /\ m_tail' = t
        /\ fifo \in Seq(Tasks)
    BY <1>2 DEF isWaiting, pushTask, TypeOK
  <2>2. ~Posted(t)
    BY <2>1 DEF LinksMatchFifo, TypeOK, Posted
  <2>3. /\ Len(fifo') = Len(fifo) + 1
        /\ fifo' \in Seq(Tasks)
        /\ \A i \in 1..Len(fifo) : fifo'[i] = fifo[i]
        /\ fifo'[Len(fifo) + 1] = t
        /\ fifo' # <<>>
    BY <2>1
  <2>4. CASE m_head = NO_TASK
    <3>1. fifo = <<>>
      BY <2>4, <2>1 DEF LinksMatchFifo, TypeOK
    <3>2. m_head' = t /\ m_next' = m_next
      BY <1>2, <2>4 DEF pushTask
    <3>. QED
      BY <2>1, <2>3, <3>1, <3>2 DEF LinksMatchFifo, TypeOK, Posted
  <2>5. CASE m_head # NO_TASK
    <3>1. fifo # <<>>
      BY <2>5 DEF LinksMatchFifo
    <3>2. m_head' = m_head /\ m_next' = [m_next EXCEPT ![m_tail] = t]
      BY <1>2, <2>5 DEF pushTask
    <3>3. /\ m_tail = fifo[Len(fifo)]
          /\ Len(fifo) \in 1..Len(fifo)
          /\ m_tail \in Tasks
          /\ m_head = fifo[1]
          /\ m_head \in Tasks
      BY <3>1, <2>1 DEF LinksMatchFifo
    <3>4. \A i \in 1..(Len(fifo') - 1) : m_next'[fifo'[i]] = fifo'[i + 1]
      <4> SUFFICES ASSUME NEW i \in 1..Len(fifo)
                   PROVE  m_next'[fifo'[i]] = fifo'[i + 1]
        BY <2>3, <2>1
      <4>1. CASE i = Len(fifo)
        BY <4>1, <2>3, <3>2, <3>3 DEF TypeOK
      <4>2. CASE i # Len(fifo)
        <5>1. i \in 1..(Len(fifo) - 1) /\ fifo[i] \in Tasks /\ fifo[i] # m_tail
          BY <4>2, <3>3, <2>1 DEF LinksMatchFifo
        <5>. QED
          BY <5>1, <2>3, <3>2, <2>1 DEF LinksMatchFifo, TypeOK
      <4>. QED BY <4>1, <4>2
    <3>5. m_next'[t] = NO_TASK
      BY <2>1, <3>2 DEF TypeOK
    <3>6. \A i \in 1..Len(fifo') : \A j \in 1..Len(fifo') : fifo'[i] = fifo'[j] => i = j
      BY <2>1, <2>2, <2>3 DEF LinksMatchFifo, Posted
    <3>7. \A s \in Tasks : ~Posted(s)' => m_next'[s] = NO_TASK
      <4> SUFFICES ASSUME NEW s \in Tasks, ~Posted(s)'
                   PROVE  m_next'[s] = NO_TASK
        OBVIOUS
      <4>1. ~Posted(s) /\ s # m_tail
        BY <2>1, <2>3, <3>3 DEF Posted
      <4>. QED
        BY <4>1, <3>2 DEF LinksMatchFifo, TypeOK
    <3>8. m_next' \in [Tasks -> Tasks \cup {NO_TASK}]
      BY <3>2 DEF TypeOK
    <3>9. fifo'[1] = m_head' /\ fifo'[Len(fifo')] = m_tail' /\ m_next'[fifo'[Len(fifo')]] = NO_TASK
      BY <2>1, <2>3, <3>2, <3>3, <3>5
    <3>. QED
      BY <2>1, <2>3, <3>2, <3>3, <3>4, <3>6, <3>7, <3>8, <3>9 DEF LinksMatchFifo
  <2>. QED BY <2>4, <2>5
<1>. QED BY <1>1, <1>2

(* popTask keeps the types and the links, and takes the oldest task. *)
LEMMA PopKeepsLinks ==
  ASSUME TypeOK, LinksMatchFifo, phase # "bootstrap", phase' # "bootstrap", popTask
  PROVE  /\ m_head' \in Tasks \cup {NO_TASK}
         /\ m_tail' \in Tasks \cup {NO_TASK}
         /\ m_next' \in [Tasks -> Tasks \cup {NO_TASK}]
         /\ lastTask' \in Tasks \cup {NO_TASK}
         /\ fifo' \in Seq(Tasks)
         /\ LinksMatchFifo'
         /\ m_head = NO_TASK => fifo = <<>> /\ fifo' = <<>> /\ lastTask' = NO_TASK
         /\ m_head # NO_TASK => /\ fifo # <<>>
                                /\ fifo' = Tail(fifo)
                                /\ lastTask' = Head(fifo)
<1> USE NoTaskIsNoTask
<1>1. CASE m_head = NO_TASK
  BY <1>1 DEF popTask, queueVars, TypeOK, LinksMatchFifo, Posted
<1>2. CASE m_head # NO_TASK
  <2>1. /\ fifo # <<>>
        /\ fifo \in Seq(Tasks)
        /\ m_head = fifo[1]
        /\ m_tail = fifo[Len(fifo)]
        /\ m_next[fifo[Len(fifo)]] = NO_TASK
        /\ m_head \in Tasks
    BY <1>2 DEF LinksMatchFifo, TypeOK
  <2>2. /\ fifo' = Tail(fifo)
        /\ lastTask' = m_head
        /\ m_head' = m_next[m_head]
        /\ m_tail' = IF m_next[m_head] = NO_TASK THEN NO_TASK ELSE m_tail
        /\ m_next' = [m_next EXCEPT ![m_head] = NO_TASK]
    BY <1>2 DEF popTask
  <2>3. /\ Len(fifo') = Len(fifo) - 1
        /\ fifo' \in Seq(Tasks)
        /\ \A i \in 1..Len(fifo') : fifo'[i] = fifo[i + 1]
        /\ Len(fifo) \in Nat \ {0}
        /\ Len(fifo') \in Nat
    BY <2>1, <2>2
  <2>4. \A i \in 1..Len(fifo') : fifo'[i] # m_head /\ fifo'[i] \in Tasks
    BY <2>1, <2>3 DEF LinksMatchFifo
  <2>5. m_next' \in [Tasks -> Tasks \cup {NO_TASK}]
    BY <2>1, <2>2 DEF TypeOK
  <2>6. \A i \in 1..(Len(fifo') - 1) : m_next'[fifo'[i]] = fifo'[i + 1]
    <3> SUFFICES ASSUME NEW i \in 1..(Len(fifo') - 1)
                 PROVE  m_next'[fifo'[i]] = fifo'[i + 1]
      OBVIOUS
    <3>1. i \in 1..Len(fifo') /\ i + 1 \in 1..Len(fifo') /\ i + 1 \in 1..(Len(fifo) - 1)
      BY <2>3
    <3>2. m_next'[fifo'[i]] = m_next[fifo'[i]]
      BY <2>2, <2>4, <3>1 DEF TypeOK
    <3>. QED BY <3>1, <3>2, <2>3 DEF LinksMatchFifo
  <2>7. \A i \in 1..Len(fifo') : \A j \in 1..Len(fifo') : fifo'[i] = fifo'[j] => i = j
    <3> SUFFICES ASSUME NEW i \in 1..Len(fifo'), NEW j \in 1..Len(fifo'), fifo'[i] = fifo'[j]
                 PROVE  i = j
      OBVIOUS
    <3>1. i + 1 \in 1..Len(fifo) /\ j + 1 \in 1..Len(fifo) /\ fifo[i + 1] = fifo[j + 1]
      BY <2>3
    <3>2. i + 1 = j + 1
      BY <3>1 DEF LinksMatchFifo
    <3>. QED BY <3>2
  <2>8. \A t \in Tasks : ~Posted(t)' => m_next'[t] = NO_TASK
    <3> SUFFICES ASSUME NEW t \in Tasks, ~Posted(t)'
                 PROVE  m_next'[t] = NO_TASK
      OBVIOUS
    <3>1. CASE t = m_head
      BY <3>1, <2>1, <2>2 DEF TypeOK
    <3>2. CASE t # m_head
      <4>1. ~Posted(t)
        <5> SUFFICES ASSUME NEW k \in 1..Len(fifo), fifo[k] = t
                     PROVE  FALSE
          BY DEF Posted
        <5>1. k # 1
          BY <2>1, <3>2
        <5>2. k - 1 \in 1..Len(fifo') /\ fifo'[k - 1] = t
          BY <5>1, <2>3
        <5>. QED BY <5>2 DEF Posted
      <4>. QED BY <4>1, <2>2, <3>2 DEF LinksMatchFifo, TypeOK
    <3>. QED BY <3>1, <3>2
  <2>9. /\ fifo' = <<>> => m_head' = NO_TASK /\ m_tail' = NO_TASK
        /\ fifo' # <<>> => /\ m_head' = fifo'[1]
                           /\ m_tail' = fifo'[Len(fifo')]
                           /\ m_next'[fifo'[Len(fifo')]] = NO_TASK
    <3>1. CASE Len(fifo) = 1
      <4>1. fifo' = <<>>
        BY <3>1, <2>3
      <4>. QED BY <4>1, <3>1, <2>1, <2>2
    <3>2. CASE Len(fifo) # 1
      <4>1. /\ fifo' # <<>>
            /\ 1 \in 1..(Len(fifo) - 1)
            /\ 1 \in 1..Len(fifo')
            /\ Len(fifo') \in 1..Len(fifo')
        BY <3>2, <2>3
      <4>2. m_next[m_head] = fifo[2] /\ fifo[2] = fifo'[1] /\ fifo[2] \in Tasks
        BY <4>1, <2>1, <2>3, <2>4 DEF LinksMatchFifo
      <4>3. fifo'[Len(fifo')] = fifo[Len(fifo)]
        BY <4>1, <2>3
      <4>4. m_next'[fifo'[Len(fifo')]] = NO_TASK
        BY <4>1, <4>3, <2>1, <2>2, <2>4 DEF TypeOK
      <4>. QED BY <4>1, <4>2, <4>3, <4>4, <2>1, <2>2
    <3>. QED BY <3>1, <3>2
  <2>10. m_head' \in Tasks \cup {NO_TASK} /\ m_tail' \in Tasks \cup {NO_TASK}
    BY <2>1, <2>2 DEF TypeOK
  <2>11. LinksMatchFifo'
    BY <2>6, <2>7, <2>8, <2>9 DEF LinksMatchFifo
  <2>. QED BY <1>2, <2>1, <2>2, <2>3, <2>5, <2>10, <2>11
<1>. QED BY <1>1, <1>2
-----------------------------------------------------------------------------
(* Every step keeps the inductive invariant. *)
LEMMA NextIndInv == IndInv /\ [Next]_vars => IndInv'
<1> SUFFICES ASSUME IndInv, [Next]_vars PROVE IndInv'
  OBVIOUS
<1> USE NoTaskIsNoTask DEF IndInv
<1>1. CASE SchedulerInit
  <2>1. fifo' = <<>> /\ phase' = "platform" /\ exec' = "init"
    BY <1>1 DEF SchedulerInit, SleepInv
  <2>2. TypeOK'
    BY <1>1 DEF SchedulerInit, TypeOK, Phases
  <2>3. LinksMatchFifo'
    BY <1>1, <2>1 DEF SchedulerInit, LinksMatchFifo, Posted
  <2>. QED
    BY <2>1, <2>2, <2>3 DEF SleepInv
<1>2. ASSUME NEW t \in Tasks, PostFromMain(t)
      PROVE  IndInv'
  <2>1. /\ phase # "bootstrap" /\ phase' = phase
        /\ exec \in {"init", "task"} /\ exec' = exec
        /\ lastTask' = lastTask /\ event' = event /\ pushTask(t)
    BY <1>2 DEF PostFromMain
  <2>. QED
    BY <2>1, PushKeepsLinks DEF TypeOK, SleepInv
<1>3. ASSUME NEW t \in Tasks, PostFromInterrupt(t)
      PROVE  IndInv'
  <2>1. /\ phase \in {"booted", "loop"} /\ phase' = phase
        /\ exec' = IF exec = "asleep" THEN "pop" ELSE exec
        /\ lastTask' = lastTask /\ event' = TRUE /\ pushTask(t)
    BY <1>3 DEF PostFromInterrupt, InterruptEntry, InterruptsEnabled
  <2>. QED
    BY <2>1, PushKeepsLinks DEF TypeOK, SleepInv, Execs
<1>4. CASE IdleInterrupt
  <2>1. /\ phase \in {"booted", "loop"} /\ phase' = phase
        /\ exec' = IF exec = "asleep" THEN "pop" ELSE exec
        /\ lastTask' = lastTask /\ event' = TRUE /\ UNCHANGED queueVars
    BY <1>4 DEF IdleInterrupt, InterruptEntry, InterruptsEnabled
  <2>. QED
    BY <2>1 DEF TypeOK, SleepInv, Execs, queueVars, LinksMatchFifo, Posted
<1>5. CASE runNextTask
  <2>1. /\ phase \in {"platform", "software"} /\ phase' \in {"platform", "software", "booted"}
        /\ exec' = IF m_head = NO_TASK THEN "init" ELSE "task"
        /\ event' = event /\ popTask
    BY <1>5 DEF runNextTask, AfterDrain
  <2>. QED
    BY <2>1, PopKeepsLinks DEF TypeOK, SleepInv, Execs, Phases
<1>6. CASE taskLoop
  <2>1. /\ phase = "loop" /\ phase' = "loop"
        /\ exec' = IF m_head = NO_TASK THEN "drowsy" ELSE "task"
        /\ event' = event /\ popTask
    BY <1>6 DEF taskLoop
  <2>. QED
    BY <2>1, PopKeepsLinks DEF TypeOK, SleepInv, Execs
<1>7. CASE WaitForEvent
  <2>1. /\ exec = "drowsy" /\ exec' = IF event THEN "pop" ELSE "asleep"
        /\ event' = FALSE /\ UNCHANGED <<m_head, m_tail, m_next, fifo, lastTask, phase>>
    BY <1>7 DEF WaitForEvent, queueVars
  <2>2. SleepInv'
    BY <2>1 DEF SleepInv
  <2>3. LinksMatchFifo'
    BY <2>1 DEF LinksMatchFifo, Posted
  <2>4. event' \in BOOLEAN /\ exec' \in Execs
    BY <2>1 DEF Execs
  <2>. QED
    BY <2>1, <2>2, <2>3, <2>4 DEF TypeOK
<1>8. CASE InitReturns \/ TaskReturns
  <2>1. /\ phase # "bootstrap" /\ phase' \in {phase, "loop"} /\ exec' = "pop"
        /\ UNCHANGED <<m_head, m_tail, m_next, fifo, lastTask, event>>
    BY <1>8 DEF InitReturns, TaskReturns, queueVars, SleepInv
  <2>. QED
    BY <2>1 DEF TypeOK, SleepInv, Execs, Phases, LinksMatchFifo, Posted
<1>9. CASE UNCHANGED vars
  BY <1>9 DEF vars, TypeOK, SleepInv, LinksMatchFifo, Posted
<1>. QED
  BY <1>1, <1>2, <1>3, <1>4, <1>5, <1>6, <1>7, <1>8, <1>9 DEF Next, MainThread

(* The inductive invariant holds in every reachable state. *)
LEMMA SpecIndInv == Spec => []IndInv
  BY InitIndInv, NextIndInv, PTL DEF Spec

(* The variables of the scheduler keep their types. *)
THEOREM SchedulerTypeOK == Spec => []TypeOK
  BY SpecIndInv, PTL DEF IndInv

(* The list threaded through m_next is the FIFO of the tasks posted and    *)
(* not started, for any number of tasks.                                   *)
THEOREM SchedulerLinks == Spec => []LinksMatchFifo
  BY SpecIndInv, PTL DEF IndInv

(* The core never stops in WFE with a posted task waiting. *)
THEOREM SchedulerNeverSleepsOnWork == Spec => []NeverSleepsOnWork
<1>1. IndInv => NeverSleepsOnWork
  BY DEF IndInv, SleepInv, NeverSleepsOnWork
<1>. QED
  BY <1>1, SpecIndInv, PTL

(* The test by which a post is accepted or refused is exact. *)
LEMMA LinksGiveIsWaiting == TypeOK /\ LinksMatchFifo => IsWaitingExact
<1> SUFFICES ASSUME TypeOK, LinksMatchFifo, phase # "bootstrap", NEW t \in Tasks
             PROVE  isWaiting(t) <=> Posted(t)
  BY DEF IsWaitingExact
<1>1. CASE Posted(t)
  <2>1. PICK i \in 1..Len(fifo) : fifo[i] = t
    BY <1>1 DEF Posted
  <2>2. CASE i = Len(fifo)
    BY <1>1, <2>1, <2>2 DEF LinksMatchFifo, TypeOK, isWaiting
  <2>3. CASE i # Len(fifo)
    <3>1. i \in 1..(Len(fifo) - 1) /\ i + 1 \in 1..Len(fifo) /\ fifo[i + 1] \in Tasks
      BY <2>1, <2>3 DEF TypeOK
    <3>. QED
      BY <2>1, <3>1, NoTaskIsNoTask DEF LinksMatchFifo, isWaiting
  <2>. QED BY <2>2, <2>3
<1>2. CASE ~Posted(t)
  <2>1. m_next[t] = NO_TASK
    BY <1>2 DEF LinksMatchFifo
  <2>2. m_tail # t
    <3>1. fifo = <<>> => m_tail = NO_TASK
      BY DEF LinksMatchFifo
    <3>2. fifo # <<>> => m_tail = fifo[Len(fifo)] /\ Len(fifo) \in 1..Len(fifo)
      BY DEF LinksMatchFifo, TypeOK
    <3>. QED
      BY <1>2, <3>1, <3>2, NoTaskIsNoTask DEF Posted
  <2>. QED BY <1>2, <2>1, <2>2 DEF isWaiting
<1>. QED BY <1>1, <1>2

(* A post is refused exactly when the task is posted and not started. *)
THEOREM SchedulerIsWaitingExact == Spec => []IsWaitingExact
<1>1. IndInv => IsWaitingExact
  BY LinksGiveIsWaiting DEF IndInv
<1>. QED
  BY <1>1, SpecIndInv, PTL

(* SchedulerBasicP implements the abstract FIFO of tasks: every step of    *)
(* the scheduler is a Post, a Start, a FindNothing or a stutter of it.     *)
THEOREM SchedulerRefines == Spec => RefinesTaskQueue
<1>1. Init => Abstract!Init
  BY DEF Init, Abstract!Init
<1>2. IndInv /\ [Next]_vars => [Abstract!Next]_<<fifo, lastTask>>
  <2> SUFFICES ASSUME IndInv, [Next]_vars
               PROVE  [Abstract!Next]_<<fifo, lastTask>>
    OBVIOUS
  <2> USE DEF IndInv
  <2>1. ASSUME NEW t \in Tasks, pushTask(t), phase # "bootstrap", lastTask' = lastTask
        PROVE  Abstract!Post(t)
    <3>1. isWaiting(t) <=> Abstract!Waiting(t)
      BY <2>1, LinksGiveIsWaiting DEF IsWaitingExact, Posted, Abstract!Waiting
    <3>. QED
      BY <2>1, <3>1 DEF pushTask, queueVars, Abstract!Post
  <2>2. ASSUME popTask, phase # "bootstrap", phase' # "bootstrap"
        PROVE  Abstract!Start \/ Abstract!FindNothing
    BY <2>2, PopKeepsLinks DEF Abstract!Start, Abstract!FindNothing
  <2>3. CASE SchedulerInit \/ InitReturns \/ TaskReturns \/ WaitForEvent \/ IdleInterrupt \/ UNCHANGED vars
    BY <2>3 DEF SchedulerInit, InitReturns, TaskReturns, WaitForEvent,
       IdleInterrupt,
                InterruptEntry, queueVars, vars
  <2>4. CASE runNextTask \/ taskLoop
    <3>1. popTask /\ phase # "bootstrap" /\ phase' # "bootstrap"
      BY <2>4 DEF runNextTask, taskLoop, AfterDrain
    <3>. QED
      BY <2>2, <3>1 DEF Abstract!Next
  <2>5. ASSUME NEW t \in Tasks, PostFromMain(t) \/ PostFromInterrupt(t)
        PROVE  Abstract!Next
    <3>1. pushTask(t) /\ phase # "bootstrap" /\ lastTask' = lastTask
      BY <2>5 DEF PostFromMain, PostFromInterrupt, InterruptEntry, InterruptsEnabled
    <3>. QED
      BY <2>1, <3>1 DEF Abstract!Next
  <2>. QED
    BY <2>3, <2>4, <2>5 DEF Next, MainThread
<1>. QED
  BY <1>1, <1>2, SpecIndInv, PTL DEF Spec, RefinesTaskQueue, Abstract!Spec,
     Abstract!qvars
-----------------------------------------------------------------------------
(* Arithmetic modulo WRAP: a difference of two times, a sum of a time and  *)
(* a delay.                                                                *)

LEMMA ModDifference ==
  ASSUME NEW W \in Nat \ {0}, NEW x \in Int, -W < x, x < W
  PROVE  x % W = IF x >= 0 THEN x ELSE x + W
  OBVIOUS

LEMMA ModSum ==
  ASSUME NEW W \in Nat \ {0}, NEW x \in Int, 0 <= x, x < 2 * W
  PROVE  x % W = IF x < W THEN x ELSE x - W
  OBVIOUS

(* However often the clock wrapped. *)
LEMMA ModMultiple ==
  ASSUME NEW W \in Nat \ {0}, NEW k \in Int, NEW r \in 0..(W - 1)
  PROVE  (r + k * W) % W = r
  OBVIOUS

LEMMA ModRange ==
  ASSUME NEW W \in Nat \ {0}, NEW x \in Int
  PROVE  x % W \in 0..(W - 1)
  OBVIOUS

(* The clock advances by one tick. *)
LEMMA ModTick ==
  ASSUME NEW W \in Nat \ {0}, NEW at \in 0..(W - 1), NEW start \in 0..(W - 1)
  PROVE  (((at + 1) % W) - start) % W
           = IF (at - start) % W = W - 1 THEN 0 ELSE ((at - start) % W) + 1
<1>1. PICK x \in Int : x = at + 1
  OBVIOUS
<1>2. PICK y \in Int : y = at - start
  OBVIOUS
<1>3. x % W = IF x < W THEN x ELSE x - W
  <2>1. 0 <= x /\ x < 2 * W
    BY <1>1
  <2>. QED
    BY <2>1, ModSum
<1>4. y % W = IF y >= 0 THEN y ELSE y + W
  <2>1. -W < y /\ y < W
    BY <1>2
  <2>. QED
    BY <2>1, ModDifference
<1>5. PICK z \in Int : z = (x % W) - start
  <2>1. x % W \in Int
    BY <1>3
  <2>2. (x % W) - start \in Int
    BY <2>1
  <2>. QED
    BY <2>2, Zenon
<1>6. z % W = IF z >= 0 THEN z ELSE z + W
  <2>1. -W < z /\ z < W
    BY <1>1, <1>3, <1>5
  <2>. QED
    BY <2>1, ModDifference
<1>7. z % W = IF y % W = W - 1 THEN 0 ELSE (y % W) + 1
  BY <1>1, <1>2, <1>3, <1>4, <1>5, <1>6
<1>. QED
  BY <1>1, <1>2, <1>5, <1>7

(* A timer that starts in the past. *)
LEMMA ModStart ==
  ASSUME NEW W \in Nat \ {0}, NEW at \in 0..(W - 1), NEW past \in 0..(W - 1)
  PROVE  /\ (at - past) % W \in 0..(W - 1)
         /\ (at - ((at - past) % W)) % W = past
<1>1. PICK x \in Int : x = at - past
  OBVIOUS
<1>2. x % W = IF x >= 0 THEN x ELSE x + W
  <2>1. -W < x /\ x < W
    BY <1>1
  <2>. QED
    BY <2>1, ModDifference
<1>3. PICK y \in Int : y = at - (x % W)
  BY <1>1, <1>2
<1>4. y % W = IF y >= 0 THEN y ELSE y + W
  <2>1. -W < y /\ y < W
    BY <1>1, <1>2, <1>3
  <2>. QED
    BY <2>1, ModDifference
<1>5. x % W \in 0..(W - 1) /\ y % W = past
  BY <1>1, <1>2, <1>3, <1>4
<1>. QED
  BY <1>1, <1>3, <1>5

(* The next period of a timer starts dt later: e of the old one has        *)
(* elapsed, e2 of the new one.                                             *)
NextPeriod(W, at, start, dt, next, e, e2) ==
  next = (start + dt) % W /\ e = (at - start) % W /\ e2 = (at - next) % W

LEMMA ModPeriod ==
  ASSUME NEW W \in Nat \ {0}, NEW at \in 0..(W - 1), NEW start \in 0..(W - 1),
         NEW dt \in 0..(W - 1), NEW next, NEW e, NEW e2,
         NextPeriod(W, at, start, dt, next, e, e2)
  PROVE  /\ next \in 0..(W - 1)
         /\ e >= dt => e2 = e - dt
         /\ ~ (e >= dt) => e2 = e - dt + W
<1> USE DEF NextPeriod
<1>1. PICK x \in Int : x = start + dt
  OBVIOUS
<1>2. PICK y \in Int : y = at - start
  OBVIOUS
<1>3. next = IF x < W THEN x ELSE x - W
  <2>1. 0 <= x /\ x < 2 * W
    BY <1>1
  <2>2. x % W = IF x < W THEN x ELSE x - W
    BY <2>1, ModSum
  <2>. QED
    BY <1>1, <2>2
<1>4. e = IF y >= 0 THEN y ELSE y + W
  <2>1. -W < y /\ y < W
    BY <1>2
  <2>2. y % W = IF y >= 0 THEN y ELSE y + W
    BY <2>1, ModDifference
  <2>. QED
    BY <1>2, <2>2
<1>5. next \in 0..(W - 1)
  BY <1>1, <1>3
<1>6. PICK z \in Int : z = at - next
  BY <1>5
<1>7. e2 = IF z >= 0 THEN z ELSE z + W
  <2>1. -W < z /\ z < W
    BY <1>5, <1>6
  <2>2. z % W = IF z >= 0 THEN z ELSE z + W
    BY <2>1, ModDifference
  <2>. QED
    BY <1>6, <2>2
<1>. QED
  BY <1>1, <1>2, <1>3, <1>4, <1>5, <1>6, <1>7

(* A set of integers that has a lower bound and is not empty has a least   *)
(* element.                                                                *)
LEMMA MinOfIntegers ==
  ASSUME NEW low \in Int, NEW S, S \subseteq Int, S # {}, \A x \in S : low <= x
  PROVE  /\ Min(S) \in S
         /\ \A x \in S : Min(S) <= x
<1>1. IsWellFoundedOn({pair \in Nat \X Nat : pair[1] < pair[2]}, Nat)
  BY NatLessThanWellFounded DEF OpToRel
<1>. DEFINE N == {x - low : x \in S}
<1>2. N \subseteq Nat /\ N # {}
  <2>1. PICK x : x \in S
    OBVIOUS
  <2>2. x - low \in N
    BY <2>1
  <2>. QED
    BY <2>2
<1>3. PICK m \in N : \A k \in N : <<k, m>> \notin {pair \in Nat \X Nat : pair[1] < pair[2]}
  <2>. HIDE DEF N
  <2>. QED BY <1>1, <1>2, WFMin, Zenon
<1>4. \A k \in N : m <= k
  <2>1. m \in Nat
    BY <1>2, <1>3
  <2>2. TAKE k \in N
  <2>3. k \in Nat /\ ~(k < m)
    BY <1>2, <1>3, <2>1
  <2>. QED
    BY <2>1, <2>3
<1>5. PICK x \in S : m = x - low
  BY <1>3
<1>6. \A y \in S : x <= y
  <2>. TAKE y \in S
  <2>1. m <= y - low
    BY <1>4
  <2>. QED
    BY <1>5, <2>1
<1>7. \E z \in S : \A y \in S : z <= y
  BY <1>6
<1>. QED
  BY <1>7 DEF Min
-----------------------------------------------------------------------------
(* The inductive invariant of the clock: with any lateness, the age of a   *)
(* timer is what its record says, and a number of times WRAP; and what     *)
(* updateFromTimer sees is not more.                                       *)
ClockInv ==
  /\ TimersTypeOK
  /\ task = "update" <=> seen # NONE
  /\ \A n \in Running :
       \E k \in Nat : age[n] = elapsed(m_timers[n], now) + k * WRAP
  /\ seen # NONE => \A n \in Running : elapsed(m_timers[n], seen) <= age[n]

(* The sizes, and the record of a timer that is running.                   *)
LEMMA TimerSizes ==
  /\ MAXINT \in Nat
  /\ MaxLate \in Nat
  /\ WRAP \in Nat \ {0}
  /\ WRAP = 2 * MAXINT + 2
  /\ NONE = WRAP
  /\ Nums \subseteq Nat
  /\ \A dt \in Delays : dt \in 1..MAXINT
  /\ \A past \in Pasts, dt \in Delays : past \in 0..dt
<1>1. MAXINT \in Nat /\ MaxLate \in Nat /\ NUM_TIMERS \in Nat
  BY TimerAssumption
<1>2. WRAP \in Nat \ {0} /\ WRAP = 2 * MAXINT + 2
  BY <1>1 DEF WRAP
<1>3. Nums \subseteq Nat
  BY <1>1 DEF Nums
<1>. QED
  BY <1>1, <1>2, <1>3, TimerAssumption DEF NONE

LEMMA RunningTimer ==
  ASSUME TimersTypeOK, NEW n \in Running
  PROVE  /\ n \in Nums
         /\ m_timers[n] \in [isrunning : {TRUE}, t0 : Time, dt : Delays, isoneshot : BOOLEAN]
         /\ m_timers[n].t0 \in 0..(WRAP - 1)
         /\ m_timers[n].dt \in Delays
         /\ m_timers[n].dt \in 1..MAXINT
         /\ m_timers[n].dt \in 0..(WRAP - 1)
         /\ m_timers[n].isoneshot \in BOOLEAN
         /\ age[n] \in Nat
<1>1. n \in Nums /\ m_timers[n].isrunning
  BY DEF Running
<1>2. m_timers[n] \in {NotRunning} \cup
        [isrunning : {TRUE}, t0 : Time, dt : Delays, isoneshot : BOOLEAN]
  BY <1>1 DEF TimersTypeOK
<1>3. ~ NotRunning.isrunning
  BY DEF NotRunning
<1>4. m_timers[n] \in [isrunning : {TRUE}, t0 : Time, dt : Delays, isoneshot : BOOLEAN]
  BY <1>1, <1>2, <1>3, Zenon
<1>5. m_timers[n].dt \in Delays /\ m_timers[n].t0 \in Time
      /\ m_timers[n].isoneshot \in BOOLEAN
  BY <1>4
<1>7. age[n] \in Nat
  BY <1>1 DEF TimersTypeOK
<1>8. m_timers[n].dt \in 1..MAXINT
  BY <1>5, TimerSizes
<1>9. m_timers[n].dt \in 0..(WRAP - 1)
  BY <1>8, TimerSizes
<1>. QED
  BY <1>1, <1>4, <1>5, <1>7, <1>8, <1>9 DEF Time

(* elapsed is a time. *)
LEMMA ElapsedIsTime ==
  ASSUME TimersTypeOK, NEW n \in Running, NEW at \in Time
  PROVE  elapsed(m_timers[n], at) \in 0..(WRAP - 1)
<1>1. m_timers[n].t0 \in 0..(WRAP - 1) /\ WRAP \in Nat \ {0}
  BY RunningTimer, TimerSizes
<1>2. at - m_timers[n].t0 \in Int
  BY <1>1 DEF Time
<1>. QED
  BY <1>1, <1>2, ModRange DEF elapsed

(* The first timer that is due is due.                                     *)
LEMMA FirstDue ==
  ASSUME NEW at, due(at) # {}
  PROVE  /\ Min(due(at)) \in Running
         /\ elapsed(m_timers[Min(due(at))], at) >= m_timers[Min(due(at))].dt
<1>1. due(at) \subseteq Nat
  BY TimerSizes DEF due, Running
<1>2. Min(due(at)) \in due(at)
  <2>1. due(at) \subseteq Int /\ \A x \in due(at) : 0 <= x
    BY <1>1
  <2>. QED
    BY <2>1, MinOfIntegers
<1>. QED
  BY <1>2 DEF due
(* A timer that fires, or does not: what fireTimers leaves of each.        *)
LEMMA FireKeeps ==
  ASSUME ClockInv, NEW at \in Time,
         \A n \in Running : elapsed(m_timers[n], at) <= age[n],
         fireTimers(at)
  PROVE  /\ m_timers' \in [Nums -> {NotRunning} \cup
              [isrunning : {TRUE}, t0 : Time, dt : Delays, isoneshot : BOOLEAN]]
         /\ age' \in [Nums -> Nat]
         /\ posted' \in BOOLEAN
         /\ task' \in {"none", "handler"}
         /\ posted' \/ task' = "handler"
         /\ \A n \in Running' :
              /\ n \in Running
              /\ m_timers'[n].dt = m_timers[n].dt
              /\ age'[n] <= age[n]
              /\ \E k \in Nat : age'[n] = elapsed(m_timers'[n], now) + k * WRAP
         /\ task' = "handler" =>
              \E n \in Running :
                /\ age[n] >= m_timers[n].dt
                /\ \A other \in Nums \ {n} : m_timers'[other] = m_timers[other]
<1>1. TimersTypeOK
  BY DEF ClockInv
<1>2. CASE due(at) = {}
  <2>1. task' = "none" /\ posted' = TRUE /\ m_timers' = m_timers /\ age' = age
    BY <1>2 DEF fireTimers
  <2>2. \A n \in Running' : n \in Running
    BY <2>1 DEF Running
  <2>3. \A n \in Running : age[n] \in Nat
    BY <1>1, RunningTimer
  <2>4. /\ m_timers' \in [Nums -> {NotRunning} \cup
             [isrunning : {TRUE}, t0 : Time, dt : Delays, isoneshot : BOOLEAN]]
        /\ age' \in [Nums -> Nat]
    BY <1>1, <2>1, Zenon DEF TimersTypeOK
  <2>5. ASSUME NEW n \in Running'
        PROVE  /\ n \in Running
               /\ m_timers'[n].dt = m_timers[n].dt
               /\ age'[n] <= age[n]
               /\ \E k \in Nat : age'[n] = elapsed(m_timers'[n], now) + k * WRAP
    <3>1. n \in Running
      BY <2>2
    <3>2. age[n] <= age[n]
      BY <2>3, <3>1
    <3>3. \E k \in Nat : age[n] = elapsed(m_timers[n], now) + k * WRAP
      BY <3>1 DEF ClockInv
    <3>. QED
      BY <2>1, <3>1, <3>2, <3>3, Zenon
  <2>. QED
    BY <2>1, <2>4, <2>5
<1>3. CASE due(at) # {}
  <2>1. PICK n : n = Min(due(at))
    OBVIOUS
  <2>2. n \in Running /\ elapsed(m_timers[n], at) >= m_timers[n].dt
    BY <1>3, <2>1, FirstDue
  <2>3. /\ m_timers' = [m_timers EXCEPT ![n] = firedTimer(n)]
        /\ age' = [age EXCEPT ![n] = IF m_timers[n].isoneshot THEN 0
                                     ELSE age[n] - m_timers[n].dt]
        /\ task' = "handler"
        /\ posted' = posted
    BY <1>3, <2>1 DEF fireTimers
  <2>4. /\ n \in Nums
        /\ m_timers[n] \in [isrunning : {TRUE}, t0 : Time, dt : Delays, isoneshot : BOOLEAN]
        /\ m_timers[n].t0 \in 0..(WRAP - 1)
        /\ m_timers[n].dt \in Delays
        /\ m_timers[n].dt \in 1..MAXINT
        /\ m_timers[n].dt \in 0..(WRAP - 1)
        /\ m_timers[n].isoneshot \in BOOLEAN
        /\ age[n] \in Nat
    BY <1>1, <2>2, RunningTimer
  <2>5. WRAP \in Nat \ {0} /\ MAXINT \in Nat
    BY TimerSizes
  <2>6. age[n] >= m_timers[n].dt
    <3>1. elapsed(m_timers[n], at) \in Nat
      BY <1>1, <2>2, <2>5, ElapsedIsTime
    <3>2. elapsed(m_timers[n], at) <= age[n]
      BY <2>2
    <3>. QED
      BY <2>2, <2>4, <2>5, <3>1, <3>2
  <2>7. PICK start \in 0..(WRAP - 1), dt \in 1..MAXINT :
          start = m_timers[n].t0 /\ dt = m_timers[n].dt
    BY <2>4
  <2>8. PICK next : next = (start + dt) % WRAP
    OBVIOUS
  <2>9. dt \in 0..(WRAP - 1) /\ now \in 0..(WRAP - 1)
    BY <1>1, <2>4, <2>7 DEF TimersTypeOK, Time
  <2>10. ASSUME NEW e, e = (now - start) % WRAP, NEW e2, e2 = (now - next) % WRAP
         PROVE  /\ next \in 0..(WRAP - 1)
                /\ e >= dt => e2 = e - dt
                /\ ~ (e >= dt) => e2 = e - dt + WRAP
    <3>1. NextPeriod(WRAP, now, start, dt, next, e, e2)
      BY <2>8, <2>10 DEF NextPeriod
    <3>. QED
      BY <2>5, <2>9, <3>1, ModPeriod
  <2>11. /\ m_timers[n].isoneshot => firedTimer(n) = NotRunning
         /\ ~ m_timers[n].isoneshot =>
              /\ firedTimer(n) \in
                   [isrunning : {TRUE}, t0 : Time, dt : Delays, isoneshot : BOOLEAN]
              /\ firedTimer(n).t0 = next
              /\ firedTimer(n).dt = dt
    <3>1. CASE m_timers[n].isoneshot
      BY <3>1 DEF firedTimer
    <3>2. CASE ~ m_timers[n].isoneshot
      <4>1. firedTimer(n) = [m_timers[n] EXCEPT !.t0 = next]
        BY <2>7, <2>8, <3>2 DEF firedTimer
      <4>2. PICK timer : timer = m_timers[n]
        OBVIOUS
      <4>3. timer \in [isrunning : {TRUE}, t0 : Time, dt : Delays, isoneshot : BOOLEAN]
        BY <2>4, <4>2
      <4>4. next \in Time
        BY <2>10 DEF Time
      <4>5. /\ [timer EXCEPT !.t0 = next] \in
                 [isrunning : {TRUE}, t0 : Time, dt : Delays, isoneshot : BOOLEAN]
            /\ [timer EXCEPT !.t0 = next].t0 = next
            /\ [timer EXCEPT !.t0 = next].dt = timer.dt
        BY <4>3, <4>4
      <4>. QED
        BY <2>7, <3>2, <4>1, <4>2, <4>5
    <3>. QED
      BY <3>1, <3>2
  <2>12. firedTimer(n) \in {NotRunning} \cup
           [isrunning : {TRUE}, t0 : Time, dt : Delays, isoneshot : BOOLEAN]
    BY <2>4, <2>7, <2>10, <2>11 DEF Time
  <2>13. m_timers' \in [Nums -> {NotRunning} \cup
           [isrunning : {TRUE}, t0 : Time, dt : Delays, isoneshot : BOOLEAN]]
    BY <1>1, <2>3, <2>12 DEF TimersTypeOK
  <2>14. age' \in [Nums -> Nat]
    <3>1. age[n] - m_timers[n].dt \in Nat
      BY <2>4, <2>6
    <3>. QED
      BY <1>1, <2>3, <3>1 DEF TimersTypeOK
  <2>15. /\ m_timers'[n] = firedTimer(n)
         /\ \A other \in Nums \ {n} :
              m_timers'[other] = m_timers[other] /\ age'[other] = age[other]
         /\ ~ m_timers[n].isoneshot => age'[n] = age[n] - m_timers[n].dt
    BY <1>1, <2>3, <2>4 DEF TimersTypeOK
  <2>16. ASSUME NEW m \in Running'
         PROVE  /\ m \in Running
                /\ m_timers'[m].dt = m_timers[m].dt
                /\ age'[m] <= age[m]
                /\ \E k \in Nat : age'[m] = elapsed(m_timers'[m], now) + k * WRAP
    <3>1. m \in Nums /\ m_timers'[m].isrunning
      BY DEF Running
    <3>2. CASE m # n
      <4>1. m_timers'[m] = m_timers[m] /\ age'[m] = age[m]
        BY <2>15, <3>1, <3>2
      <4>2. m \in Running
        BY <3>1, <4>1 DEF Running
      <4>3. age[m] \in Nat
        BY <1>1, <4>2, RunningTimer
      <4>4. \E k \in Nat : age[m] = elapsed(m_timers[m], now) + k * WRAP
        BY <4>2 DEF ClockInv
      <4>. QED
        BY <4>1, <4>2, <4>3, <4>4
    <3>3. CASE m = n
      <4>1. ~ m_timers[n].isoneshot
        <5>1. ~ NotRunning.isrunning
          BY DEF NotRunning
        <5>. QED
          BY <2>11, <2>15, <3>1, <3>3, <5>1
      <4>2. /\ m_timers'[n].t0 = next
            /\ m_timers'[n].dt = dt
            /\ age'[n] = age[n] - dt
        BY <2>7, <2>11, <2>15, <4>1
      <4>3. PICK k \in Nat : age[n] = elapsed(m_timers[n], now) + k * WRAP
        BY <2>2 DEF ClockInv
      <4>4. PICK e \in 0..(WRAP - 1) : e = (now - start) % WRAP
        <5>1. now - start \in Int
          BY <2>9
        <5>. QED
          BY <2>5, <5>1, ModRange
      <4>5. age[n] = e + k * WRAP
        BY <2>7, <4>3, <4>4 DEF elapsed
      <4>6. PICK e2 : e2 = (now - next) % WRAP
        OBVIOUS
      <4>7. /\ e >= dt => e2 = e - dt
            /\ ~ (e >= dt) => e2 = e - dt + WRAP
        BY <2>10, <4>4, <4>6, Zenon
      <4>8. elapsed(m_timers'[n], now) = e2
        BY <4>2, <4>6 DEF elapsed
      <4>9. CASE e >= dt
        <5>1. age'[n] = e2 + k * WRAP
          BY <2>5, <2>9, <4>2, <4>5, <4>7, <4>9
        <5>. QED
          BY <2>2, <2>4, <2>7, <3>3, <4>2, <4>8, <5>1
      <4>10. CASE ~ (e >= dt)
        <5>1. k # 0
          <6>1. k = 0 => k * WRAP = 0
            BY <2>5
          <6>. QED
            BY <2>6, <2>7, <4>5, <4>10, <6>1
        <5>2. PICK j \in Nat : j = k - 1
          BY <5>1
        <5>3. j * WRAP = k * WRAP - WRAP
          BY <2>5, <5>2
        <5>4. PICK p \in Int : p = k * WRAP
          BY <2>5
        <5>5. e2 + j * WRAP = e - dt + p
          BY <2>5, <2>9, <4>7, <4>10, <5>3, <5>4
        <5>6. age'[n] = e2 + j * WRAP
          BY <2>5, <2>9, <4>2, <4>5, <5>4, <5>5
        <5>. QED
          BY <2>2, <2>4, <2>7, <3>3, <4>2, <4>8, <5>6
      <4>. QED
        BY <4>9, <4>10
    <3>. QED
      BY <3>2, <3>3
  <2>17. posted' \in BOOLEAN
    BY <1>1, <2>3 DEF TimersTypeOK
  <2>18. \E m \in Running :
           /\ age[m] >= m_timers[m].dt
           /\ \A other \in Nums \ {m} : m_timers'[other] = m_timers[other]
    BY <2>2, <2>6, <2>15
  <2>. QED
    BY <2>3, <2>13, <2>14, <2>16, <2>17, <2>18
<1>. QED
  BY <1>2, <1>3
-----------------------------------------------------------------------------
(* How updateFromTimer starts TimerFrom.                                   *)
LEMMA MaxOfTwo ==
  ASSUME NEW x \in Int, NEW y \in Int
  PROVE  Max({x, y}) = IF x >= y THEN x ELSE y
<1>1. PICK m \in {x, y} : m = IF x >= y THEN x ELSE y
  OBVIOUS
<1>2. \A z \in {x, y} : m >= z
  BY <1>1
<1>3. \A k \in {x, y} : (\A z \in {x, y} : k >= z) => k = m
  BY <1>1
<1>4. Max({x, y}) = m
  BY <1>2, <1>3 DEF Max
<1>. QED
  BY <1>1, <1>4

(* What remains of a timer is a number of 32 bits with a sign.  It is dt   *)
(* less the time elapsed when that is one.                                 *)
LEMMA Remaining ==
  ASSUME TimersTypeOK, NEW n \in Running, NEW at \in Time
  PROVE  /\ remaining(m_timers[n], at) \in (-(MAXINT + 1))..MAXINT
         /\ m_timers[n].dt - elapsed(m_timers[n], at) >= -(MAXINT + 1) =>
              remaining(m_timers[n], at) = m_timers[n].dt - elapsed(m_timers[n], at)
<1>1. PICK dt \in 1..MAXINT : dt = m_timers[n].dt
  BY RunningTimer
<1>2. PICK e \in 0..(WRAP - 1) : e = elapsed(m_timers[n], at)
  BY ElapsedIsTime
<1>3. MAXINT \in Nat /\ WRAP \in Nat \ {0} /\ WRAP = 2 * MAXINT + 2
  BY TimerSizes
<1>4. PICK x \in Int : x = dt - e
  BY <1>3
<1>5. x % WRAP = IF x >= 0 THEN x ELSE x + WRAP
  <2>1. -WRAP < x /\ x < WRAP
    BY <1>3, <1>4
  <2>. QED
    BY <1>3, <2>1, ModDifference
<1>6. PICK difference : difference = x % WRAP
  OBVIOUS
<1>7. remaining(m_timers[n], at)
        = IF difference > MAXINT THEN difference - WRAP ELSE difference
  BY <1>1, <1>2, <1>4, <1>6 DEF remaining
<1>8. difference = IF x >= 0 THEN x ELSE x + WRAP
  BY <1>5, <1>6
<1>9. PICK r : r = IF difference > MAXINT THEN difference - WRAP ELSE difference
  OBVIOUS
<1>10. r \in (-(MAXINT + 1))..MAXINT
  BY <1>1, <1>2, <1>3, <1>4, <1>8, <1>9
<1>11. x >= -(MAXINT + 1) => r = x
  BY <1>1, <1>2, <1>3, <1>4, <1>8, <1>9
<1>. QED
  BY <1>1, <1>2, <1>4, <1>7, <1>9, <1>10, <1>11

(* The nearest of the timers counted.                                      *)
LEMMA MinRemaining ==
  ASSUME TimersTypeOK, seen \in Time, counted # {}
  PROVE  /\ min_remaining \in Int
         /\ min_remaining < MAXINT
         /\ \A n \in counted : min_remaining <= remaining(m_timers[n], seen)
<1>. DEFINE S == {remaining(m_timers[n], seen) : n \in counted}
<1>1. \A n \in counted : n \in Running /\ remaining(m_timers[n], seen) < MAXINT
  BY DEF counted
<1>2. MAXINT \in Nat
  BY TimerSizes
<1>3. \A n \in counted :
        remaining(m_timers[n], seen) \in (-(MAXINT + 1))..MAXINT
  BY <1>1, Remaining
<1>4. S \subseteq Int /\ \A x \in S : -(MAXINT + 1) <= x
  BY <1>2, <1>3
<1>5. S # {}
  <2>1. PICK n : n \in counted
    OBVIOUS
  <2>2. remaining(m_timers[n], seen) \in S
    BY <2>1
  <2>. QED
    BY <2>2
<1>6. Min(S) \in S /\ \A x \in S : Min(S) <= x
  <2>. HIDE DEF S
  <2>1. -(MAXINT + 1) \in Int
    BY <1>2
  <2>. QED
    BY <1>4, <1>5, <2>1, MinOfIntegers
<1>7. min_remaining = Min(S)
  BY DEF min_remaining
<1>8. PICK m : m = Min(S)
  OBVIOUS
<1>9. m \in S /\ \A x \in S : m <= x
  BY <1>6, <1>8
<1>10. m \in Int /\ m < MAXINT
  BY <1>1, <1>4, <1>9
<1>11. \A n \in counted : m <= remaining(m_timers[n], seen)
  BY <1>9
<1>. QED
  BY <1>7, <1>8, <1>10, <1>11, Zenon

(* TimerFrom, at the end of updateFromTimer.                               *)
LEMMA AlarmStarts ==
  ASSUME TimersTypeOK, seen \in Time, UpdateEnds
  PROVE  /\ alarm' \in 0..MAXINT \cup {NONE}
         /\ alarm' = NONE <=> ~ (counted # {} /\ min_remaining > 0)
         /\ alarm' # NONE =>
              alarm' = 0 \/ alarm' = min_remaining - ((now - seen) % WRAP)
<1>1. MAXINT \in Nat /\ WRAP \in Nat \ {0} /\ WRAP = 2 * MAXINT + 2 /\ NONE = WRAP
  BY TimerSizes
<1>2. CASE ~ (counted # {} /\ min_remaining > 0)
  BY <1>2 DEF UpdateEnds
<1>3. CASE counted # {} /\ min_remaining > 0
  <2>1. PICK m \in Int : m = min_remaining
    BY <1>3, MinRemaining
  <2>2. m > 0 /\ m < MAXINT
    BY <1>3, <2>1, MinRemaining
  <2>3. PICK d \in 0..(WRAP - 1) : d = (now - seen) % WRAP
    <3>1. now - seen \in Int
      BY DEF TimersTypeOK, Time
    <3>. QED
      BY <1>1, <3>1, ModRange
  <2>4. m - d \in Int
    BY <1>1
  <2>5. alarm' = Max({m - d, 0})
    BY <1>3, <2>1, <2>3 DEF UpdateEnds
  <2>6. Max({m - d, 0}) = IF m - d >= 0 THEN m - d ELSE 0
    BY <2>4, MaxOfTwo
  <2>7. alarm' \in 0..MAXINT /\ (alarm' = 0 \/ alarm' = m - d)
    BY <1>1, <2>2, <2>4, <2>5, <2>6
  <2>8. alarm' # NONE
    BY <1>1, <2>7
  <2>. QED
    BY <1>3, <2>1, <2>3, <2>7, <2>8
<1>. QED
  BY <1>2, <1>3
-----------------------------------------------------------------------------
(* Every action keeps the invariant of the clock.                          *)
LEMMA TimerInitClock == TimersInit => ClockInv
<1> SUFFICES ASSUME TimersInit PROVE ClockInv
  OBVIOUS
<1>1. MAXINT \in Nat /\ MaxLate \in Nat /\ WRAP \in Nat \ {0} /\ NONE = WRAP
  BY TimerSizes
<1>2. Running = {}
  <2>1. ~ NotRunning.isrunning
    BY DEF NotRunning
  <2>2. \A n \in Nums : m_timers[n] = NotRunning
    BY DEF TimersInit
  <2>. QED
    BY <2>1, <2>2 DEF Running
<1>3. TimersTypeOK
  <2>1. m_timers \in [Nums -> {NotRunning} \cup
          [isrunning : {TRUE}, t0 : Time, dt : Delays, isoneshot : BOOLEAN]]
    BY DEF TimersInit
  <2>2. age \in [Nums -> Nat]
    BY DEF TimersInit
  <2>3. now \in Time /\ late \in 0..MaxLate
    BY <1>1 DEF TimersInit, Time
  <2>4. {posted, fired} \subseteq BOOLEAN /\ alarm = NONE /\ seen = NONE /\ task = "none"
    BY DEF TimersInit
  <2>. QED
    BY <2>1, <2>2, <2>3, <2>4 DEF TimersTypeOK
<1>. QED
  BY <1>2, <1>3 DEF TimersInit, ClockInv

(* A step that touches no timer and no time. *)
LEMMA ClockUntouched ==
  ASSUME ClockInv, m_timers' = m_timers, age' = age, now' = now, late' \in 0..MaxLate,
         posted' \in BOOLEAN, fired' \in BOOLEAN, alarm' \in 0..MAXINT \cup {NONE},
         task' \in {"none", "update", "handler"},
         \/ seen' = seen /\ (task' = "update" <=> task = "update")
         \/ seen' = NONE /\ task' # "update"
  PROVE  ClockInv'
<1>1. TimersTypeOK'
  BY DEF ClockInv, TimersTypeOK
<1>2. Running' = Running
  BY DEF Running
<1>3. task' = "update" <=> seen' # NONE
  BY DEF ClockInv
<1>4. \A n \in Running' : \E k \in Nat :
        age'[n] = elapsed(m_timers'[n], now') + k * WRAP
  BY <1>2, Zenon DEF ClockInv
<1>5. seen' # NONE => \A n \in Running' : elapsed(m_timers'[n], seen') <= age'[n]
  BY <1>2, Zenon DEF ClockInv
<1>. QED
  BY <1>1, <1>3, <1>4, <1>5 DEF ClockInv

(* fireTimers and the steps of the tasks. *)
LEMMA ClockFires ==
  ASSUME ClockInv, NEW at \in Time,
         \A n \in Running : elapsed(m_timers[n], at) <= age[n],
         fireTimers(at), now' = now, seen' = NONE, late' \in 0..MaxLate,
         fired' \in BOOLEAN, alarm' \in 0..MAXINT \cup {NONE}
  PROVE  ClockInv'
<1>1. /\ m_timers' \in [Nums -> {NotRunning} \cup
            [isrunning : {TRUE}, t0 : Time, dt : Delays, isoneshot : BOOLEAN]]
      /\ age' \in [Nums -> Nat]
      /\ posted' \in BOOLEAN
      /\ task' \in {"none", "handler"}
  BY FireKeeps
<1>2. TimersTypeOK'
  BY <1>1 DEF ClockInv, TimersTypeOK
<1>3. \A n \in Running' : \E k \in Nat :
        age'[n] = elapsed(m_timers'[n], now') + k * WRAP
  <2>1. \A n \in Running' : \E k \in Nat :
          age'[n] = elapsed(m_timers'[n], now) + k * WRAP
    BY FireKeeps
  <2>. QED
    BY <2>1, Zenon
<1>. QED
  BY <1>1, <1>2, <1>3 DEF ClockInv

(* The age of a timer is not less than what has elapsed by now.            *)
LEMMA ElapsedByNow ==
  ASSUME ClockInv, NEW n \in Running
  PROVE  elapsed(m_timers[n], now) <= age[n]
<1>1. PICK k \in Nat : age[n] = elapsed(m_timers[n], now) + k * WRAP
  BY DEF ClockInv
<1>2. TimersTypeOK /\ now \in Time
  BY DEF ClockInv, TimersTypeOK
<1>3. PICK e \in 0..(WRAP - 1) : e = elapsed(m_timers[n], now)
  BY <1>2, ElapsedIsTime
<1>4. WRAP \in Nat
  BY TimerSizes
<1>5. PICK p \in Nat : p = k * WRAP
  BY <1>4
<1>. QED
  BY <1>1, <1>3, <1>4, <1>5

LEMMA UpdateBeginsClock == ClockInv /\ UpdateBegins => ClockInv'
<1> SUFFICES ASSUME ClockInv, UpdateBegins PROVE ClockInv'
  OBVIOUS
<1>1. /\ posted' = FALSE /\ task' = "update" /\ seen' = now
      /\ m_timers' = m_timers /\ alarm' = alarm /\ fired' = fired /\ now' = now
      /\ late' = late /\ age' = age
  BY DEF UpdateBegins
<1>2. WRAP \in Nat \ {0} /\ NONE = WRAP
  BY TimerSizes
<1>3. now \in Time /\ now # NONE
  BY <1>2 DEF ClockInv, TimersTypeOK, Time
<1>4. TimersTypeOK'
  BY <1>1, <1>3 DEF ClockInv, TimersTypeOK
<1>5. Running' = Running
  BY <1>1 DEF Running
<1>6. \A n \in Running' : \E k \in Nat :
        age'[n] = elapsed(m_timers'[n], now') + k * WRAP
  BY <1>1, <1>5, Zenon DEF ClockInv
<1>7. \A n \in Running : elapsed(m_timers[n], now) <= age[n]
  BY ElapsedByNow
<1>8. \A n \in Running' : elapsed(m_timers'[n], seen') <= age'[n]
  BY <1>1, <1>5, <1>7, Zenon
<1>. QED
  BY <1>1, <1>3, <1>4, <1>6, <1>8 DEF ClockInv

LEMMA UpdateEndsClock == ClockInv /\ UpdateEnds => ClockInv'
<1> SUFFICES ASSUME ClockInv, UpdateEnds PROVE ClockInv'
  OBVIOUS
<1>1. /\ task = "update" /\ seen' = NONE /\ fired' = fired /\ now' = now
      /\ late' = 0 \/ late' = late
  BY DEF UpdateEnds
<1>2. TimersTypeOK /\ seen # NONE /\ seen \in Time
  BY <1>1 DEF ClockInv, TimersTypeOK
<1>3. late' \in 0..MaxLate /\ fired' \in BOOLEAN
  BY <1>1, <1>2, TimerSizes DEF TimersTypeOK
<1>4. alarm' \in 0..MAXINT \cup {NONE}
  BY <1>2, AlarmStarts
<1>5. CASE counted # {} /\ min_remaining <= 0
  <2>1. fireTimers(seen)
    BY <1>5 DEF UpdateEnds
  <2>2. \A n \in Running : elapsed(m_timers[n], seen) <= age[n]
    BY <1>2 DEF ClockInv
  <2>. QED
    BY <1>1, <1>2, <1>3, <1>4, <2>1, <2>2, ClockFires
<1>6. CASE ~ (counted # {} /\ min_remaining <= 0)
  <2>1. task' = "none" /\ m_timers' = m_timers /\ posted' = posted /\ age' = age
    BY <1>6 DEF UpdateEnds
  <2>2. posted' \in BOOLEAN
    BY <1>2, <2>1 DEF TimersTypeOK
  <2>. QED
    BY <1>1, <1>3, <1>4, <2>1, <2>2, ClockUntouched
<1>. QED
  BY <1>5, <1>6

LEMMA TimerFromFiredClock == ClockInv /\ TimerFromFired => ClockInv'
<1> SUFFICES ASSUME ClockInv, TimerFromFired PROVE ClockInv'
  OBVIOUS
<1>1. /\ task = "none" /\ fired' = FALSE /\ fireTimers(now)
      /\ alarm' = alarm /\ now' = now /\ seen' = seen /\ late' = late
  BY DEF TimerFromFired
<1>2. TimersTypeOK /\ seen' = NONE
  BY <1>1 DEF ClockInv
<1>3. /\ now \in Time /\ late' \in 0..MaxLate /\ fired' \in BOOLEAN
      /\ alarm' \in 0..MAXINT \cup {NONE}
  BY <1>1, <1>2 DEF TimersTypeOK
<1>4. \A n \in Running : elapsed(m_timers[n], now) <= age[n]
  BY ElapsedByNow
<1>. QED
  BY <1>1, <1>2, <1>3, <1>4, ClockFires
(* A timer starts, its t0 in the past. *)
LEMMA StartTimerClock ==
  ASSUME ClockInv, NEW n \in Nums, NEW past \in Pasts, NEW dt \in Delays,
         NEW isoneshot \in BOOLEAN, startTimer(n, past, dt, isoneshot)
  PROVE  /\ ClockInv'
         /\ m_timers'[n].dt = dt /\ age'[n] = past
<1>1. /\ task # "update"
      /\ m_timers' = [m_timers EXCEPT ![n] = [isrunning |-> TRUE, t0 |-> (now - past) % WRAP,
                                              dt |-> dt, isoneshot |-> isoneshot]]
      /\ age' = [age EXCEPT ![n] = past]
      /\ posted' = TRUE
      /\ alarm' = alarm /\ fired' = fired /\ task' = task /\ now' = now /\ seen' = seen
      /\ late' = late
  BY DEF startTimer
<1>2. TimersTypeOK /\ seen = NONE
  BY <1>1 DEF ClockInv
<1>3. MAXINT \in Nat /\ WRAP \in Nat \ {0} /\ WRAP = 2 * MAXINT + 2
  BY TimerSizes
<1>4. past \in 0..(WRAP - 1)
  <2>1. dt \in 1..MAXINT /\ past \in 0..dt
    BY TimerSizes
  <2>. QED
    BY <1>3, <2>1
<1>5. now \in 0..(WRAP - 1)
  BY <1>2 DEF TimersTypeOK, Time
<1>6. PICK start : start = (now - past) % WRAP
  OBVIOUS
<1>7. start \in 0..(WRAP - 1) /\ (now - start) % WRAP = past
  BY <1>3, <1>4, <1>5, <1>6, ModStart
<1>8. PICK timer : timer = [isrunning |-> TRUE, t0 |-> start, dt |-> dt, isoneshot |-> isoneshot]
  OBVIOUS
<1>9. /\ timer \in [isrunning : {TRUE}, t0 : Time, dt : Delays, isoneshot : BOOLEAN]
      /\ timer.t0 = start /\ timer.dt = dt
  BY <1>7, <1>8 DEF Time
<1>10. m_timers' = [m_timers EXCEPT ![n] = timer]
  BY <1>1, <1>6, <1>8
<1>11. /\ m_timers'[n] = timer /\ age'[n] = past
       /\ \A other \in Nums \ {n} :
            m_timers'[other] = m_timers[other] /\ age'[other] = age[other]
  BY <1>1, <1>2, <1>10 DEF TimersTypeOK
<1>12. TimersTypeOK'
  <2>1. m_timers' \in [Nums -> {NotRunning} \cup
          [isrunning : {TRUE}, t0 : Time, dt : Delays, isoneshot : BOOLEAN]]
    BY <1>2, <1>9, <1>10 DEF TimersTypeOK
  <2>2. age' \in [Nums -> Nat]
    BY <1>1, <1>2, <1>3, <1>4 DEF TimersTypeOK
  <2>. QED
    BY <1>1, <1>2, <2>1, <2>2 DEF TimersTypeOK
<1>13. ASSUME NEW m \in Running'
       PROVE  \E k \in Nat : age'[m] = elapsed(m_timers'[m], now') + k * WRAP
  <2>1. CASE m = n
    <3>1. elapsed(timer, now) = past
      BY <1>7, <1>9 DEF elapsed
    <3>2. past = past + 0 * WRAP
      BY <1>3, <1>4
    <3>. QED
      BY <1>1, <1>11, <2>1, <3>1, <3>2
  <2>2. CASE m # n
    <3>1. m \in Nums /\ m_timers'[m].isrunning
      BY DEF Running
    <3>2. m_timers'[m] = m_timers[m] /\ age'[m] = age[m]
      BY <1>11, <2>2, <3>1
    <3>3. m \in Running
      BY <3>1, <3>2 DEF Running
    <3>4. \E k \in Nat : age[m] = elapsed(m_timers[m], now) + k * WRAP
      BY <3>3 DEF ClockInv
    <3>. QED
      BY <1>1, <3>2, <3>4, Zenon
  <2>. QED
    BY <2>1, <2>2
<1>14. ClockInv'
  BY <1>1, <1>2, <1>12, <1>13 DEF ClockInv
<1>. QED
  BY <1>9, <1>11, <1>14

LEMMA StopTimerClock ==
  ASSUME ClockInv, NEW n \in Running, stopTimer(n)
  PROVE  /\ ClockInv'
         /\ \A m \in Running' :
              m \in Running /\ m_timers'[m] = m_timers[m] /\ age'[m] = age[m]
<1>1. /\ task # "update"
      /\ m_timers' = [m_timers EXCEPT ![n] = NotRunning]
      /\ age' = [age EXCEPT ![n] = 0]
      /\ posted' = posted /\ alarm' = alarm /\ fired' = fired /\ task' = task
      /\ now' = now /\ seen' = seen /\ late' = late
  BY DEF stopTimer
<1>2. TimersTypeOK /\ seen = NONE /\ n \in Nums
  BY <1>1 DEF ClockInv, Running
<1>3. TimersTypeOK'
  <2>1. m_timers' \in [Nums -> {NotRunning} \cup
          [isrunning : {TRUE}, t0 : Time, dt : Delays, isoneshot : BOOLEAN]]
    BY <1>1, <1>2 DEF TimersTypeOK
  <2>2. age' \in [Nums -> Nat]
    BY <1>1, <1>2 DEF TimersTypeOK
  <2>. QED
    BY <1>1, <1>2, <2>1, <2>2 DEF TimersTypeOK
<1>4. /\ m_timers'[n] = NotRunning
      /\ \A m \in Nums \ {n} : m_timers'[m] = m_timers[m] /\ age'[m] = age[m]
  BY <1>1, <1>2 DEF TimersTypeOK
<1>5. ASSUME NEW m \in Running'
      PROVE  m \in Running /\ m_timers'[m] = m_timers[m] /\ age'[m] = age[m]
  <2>1. m \in Nums /\ m_timers'[m].isrunning
    BY DEF Running
  <2>2. m # n
    BY <1>4, <2>1 DEF NotRunning
  <2>. QED
    BY <1>4, <2>1, <2>2 DEF Running
<1>6. \A m \in Running' : \E k \in Nat :
        age'[m] = elapsed(m_timers'[m], now') + k * WRAP
  <2>. TAKE m \in Running'
  <2>1. \E k \in Nat : age[m] = elapsed(m_timers[m], now) + k * WRAP
    BY <1>5 DEF ClockInv
  <2>. QED
    BY <1>1, <1>5, <2>1, Zenon
<1>7. ClockInv'
  BY <1>1, <1>2, <1>3, <1>6 DEF ClockInv
<1>. QED
  BY <1>5, <1>7

(* The clock advances: what elapsed wraps, the age does not.               *)
LEMMA TickClock == ClockInv /\ Tick => ClockInv'
<1> SUFFICES ASSUME ClockInv, Tick PROVE ClockInv'
  OBVIOUS
<1>1. /\ alarm # 0
      /\ busy => late < MaxLate
      /\ late' = IF busy THEN late + 1 ELSE 0
      /\ now' = (now + 1) % WRAP
      /\ alarm' = IF alarm = NONE THEN NONE ELSE alarm - 1
      /\ age' = [n \in Nums |-> IF n \in Running THEN age[n] + 1 ELSE 0]
      /\ m_timers' = m_timers /\ posted' = posted /\ fired' = fired /\ task' = task
      /\ seen' = seen
  BY DEF Tick
<1>2. TimersTypeOK
  BY DEF ClockInv
<1>3. MAXINT \in Nat /\ MaxLate \in Nat /\ WRAP \in Nat \ {0}
  BY TimerSizes
<1>4. Running' = Running
  BY <1>1 DEF Running
<1>5. now \in 0..(WRAP - 1)
  BY <1>2 DEF TimersTypeOK, Time
<1>6. now' \in Time
  <2>1. now + 1 \in Int
    BY <1>5
  <2>. QED
    BY <1>1, <1>3, <2>1, ModRange DEF Time
<1>7. late' \in 0..MaxLate
  BY <1>1, <1>2, <1>3 DEF TimersTypeOK
<1>8. alarm' \in 0..MAXINT \cup {NONE}
  BY <1>1, <1>2, <1>3 DEF TimersTypeOK
<1>9. age' \in [Nums -> Nat]
  <2>1. \A n \in Nums : (IF n \in Running THEN age[n] + 1 ELSE 0) \in Nat
    BY <1>2 DEF TimersTypeOK
  <2>. QED
    BY <1>1, <2>1
<1>10. TimersTypeOK'
  BY <1>1, <1>2, <1>6, <1>7, <1>8, <1>9 DEF TimersTypeOK
<1>11. \A n \in Running : age'[n] = age[n] + 1
  BY <1>1 DEF Running
<1>12. ASSUME NEW n \in Running
       PROVE  \E k \in Nat : age'[n] = elapsed(m_timers[n], now') + k * WRAP
  <2>1. PICK start \in 0..(WRAP - 1) : start = m_timers[n].t0
    BY <1>2, RunningTimer
  <2>2. PICK e \in 0..(WRAP - 1) : e = (now - start) % WRAP
    <3>1. now - start \in Int
      BY <1>5
    <3>. QED
      BY <1>3, <3>1, ModRange
  <2>3. PICK e2 : e2 = (now' - start) % WRAP
    OBVIOUS
  <2>4. e2 = IF e = WRAP - 1 THEN 0 ELSE e + 1
    <3>1. e2 = (((now + 1) % WRAP) - start) % WRAP
      BY <1>1, <2>3
    <3>. QED
      BY <1>3, <1>5, <2>2, <3>1, ModTick
  <2>5. elapsed(m_timers[n], now) = e /\ elapsed(m_timers[n], now') = e2
    BY <2>1, <2>2, <2>3 DEF elapsed
  <2>6. PICK k \in Nat : age[n] = e + k * WRAP
    BY <2>5 DEF ClockInv
  <2>7. PICK j \in Nat : j = k + 1
    OBVIOUS
  <2>8. j * WRAP = k * WRAP + WRAP
    BY <1>3, <2>7
  <2>9. PICK p \in Nat : p = k * WRAP
    BY <1>3
  <2>10. CASE e = WRAP - 1
    <3>1. age'[n] = e2 + j * WRAP
      BY <1>3, <1>11, <2>4, <2>6, <2>8, <2>9, <2>10
    <3>. QED
      BY <2>5, <3>1
  <2>11. CASE e # WRAP - 1
    <3>1. age'[n] = e2 + k * WRAP
      BY <1>3, <1>11, <2>4, <2>6, <2>9, <2>11
    <3>. QED
      BY <2>5, <3>1
  <2>. QED
    BY <2>10, <2>11
<1>13. seen # NONE => \A n \in Running : elapsed(m_timers[n], seen) <= age'[n]
  <2> SUFFICES ASSUME seen # NONE, NEW n \in Running
               PROVE  elapsed(m_timers[n], seen) <= age'[n]
    OBVIOUS
  <2>1. seen \in Time
    BY <1>2 DEF TimersTypeOK
  <2>2. elapsed(m_timers[n], seen) \in 0..(WRAP - 1)
    BY <1>2, <2>1, ElapsedIsTime
  <2>3. age[n] \in Nat
    BY <1>2, RunningTimer
  <2>4. elapsed(m_timers[n], seen) <= age[n]
    BY DEF ClockInv
  <2>. QED
    BY <1>3, <1>11, <2>2, <2>3, <2>4
<1>14. task' = "update" <=> seen' # NONE
  BY <1>1 DEF ClockInv
<1>15. \A n \in Running' : \E k \in Nat :
         age'[n] = elapsed(m_timers'[n], now') + k * WRAP
  BY <1>1, <1>4, <1>12, Zenon
<1>16. seen' # NONE => \A n \in Running' : elapsed(m_timers'[n], seen') <= age'[n]
  BY <1>1, <1>4, <1>13, Zenon
<1>. QED
  BY <1>10, <1>14, <1>15, <1>16 DEF ClockInv
LEMMA ClockNext == ClockInv /\ [TimersNext]_timersVars => ClockInv'
<1> SUFFICES ASSUME ClockInv, [TimersNext]_timersVars PROVE ClockInv'
  OBVIOUS
<1>0. TimersTypeOK /\ MAXINT \in Nat
  BY TimerSizes DEF ClockInv
<1>1. CASE HandlerReturns
  BY <1>0, <1>1, ClockUntouched DEF HandlerReturns, TimersTypeOK
<1>2. CASE AlarmFires
  BY <1>0, <1>2, ClockUntouched DEF AlarmFires, TimersTypeOK
<1>3. CASE Skew
  BY <1>0, <1>3, ClockUntouched DEF Skew, TimersTypeOK
<1>4. CASE UNCHANGED timersVars
  BY <1>0, <1>4, ClockUntouched DEF timersVars, TimersTypeOK
<1>5. ASSUME NEW n \in Nums, NEW past \in Pasts, NEW dt \in Delays, NEW isoneshot \in BOOLEAN,
             startTimer(n, past, dt, isoneshot)
      PROVE  ClockInv'
  BY <1>5, StartTimerClock
<1>6. ASSUME NEW n \in Running, stopTimer(n)
      PROVE  ClockInv'
  BY <1>6, StopTimerClock
<1>. QED
  BY <1>1, <1>2, <1>3, <1>4, <1>5, <1>6, UpdateBeginsClock, UpdateEndsClock,
     TimerFromFiredClock, TickClock DEF TimersNext

LEMMA SpecClockInv == TimersSpec => []ClockInv
<1>1. TimersInit => ClockInv
  BY TimerInitClock
<1>2. ClockInv /\ [TimersNext]_timersVars => ClockInv'
  BY ClockNext
<1>. QED
  BY <1>1, <1>2, PTL DEF TimersSpec

(* A periodic timer loses no time and no event, however late the tasks run *)
(* and however often the clock wraps.                                      *)
THEOREM TimerAgeKnown == TimersSpec => []AgeKnown
<1>1. ClockInv => AgeKnown
  <2> SUFFICES ASSUME ClockInv, NEW n \in Running
               PROVE  elapsed(m_timers[n], now) = age[n] % WRAP
    BY DEF AgeKnown
  <2>1. TimersTypeOK /\ now \in Time
    BY DEF ClockInv, TimersTypeOK
  <2>2. PICK e \in 0..(WRAP - 1) : e = elapsed(m_timers[n], now)
    BY <2>1, ElapsedIsTime
  <2>3. PICK k \in Nat : age[n] = e + k * WRAP
    BY <2>2 DEF ClockInv
  <2>4. WRAP \in Nat \ {0}
    BY TimerSizes
  <2>5. (e + k * WRAP) % WRAP = e
    BY <2>4, ModMultiple
  <2>. QED
    BY <2>2, <2>3, <2>5
<1>. QED
  BY <1>1, SpecClockInv, PTL

(* No timer fires early, and each time exactly one fires: whatever the     *)
(* number of timers and the delays, and however late the tasks run.        *)
THEOREM TimerNeverEarly == TimersSpec => NeverEarly
<1>1. ASSUME ClockInv, TimersNext, task # "handler", task' = "handler"
      PROVE  \E n \in Running :
               /\ age[n] >= m_timers[n].dt
               /\ \A other \in Nums \ {n} : m_timers'[other] = m_timers[other]
  <2>1. TimersTypeOK
    BY <1>1 DEF ClockInv
  <2>2. CASE UpdateEnds
    <3>1. task = "update" /\ fireTimers(seen)
      BY <1>1, <2>2 DEF UpdateEnds
    <3>2. seen # NONE /\ seen \in Time
      BY <1>1, <2>1, <3>1 DEF ClockInv, TimersTypeOK
    <3>3. \A n \in Running : elapsed(m_timers[n], seen) <= age[n]
      BY <1>1, <3>2 DEF ClockInv
    <3>. QED
      BY <1>1, <3>1, <3>2, <3>3, FireKeeps
  <2>3. CASE TimerFromFired
    <3>1. now \in Time
      BY <2>1 DEF TimersTypeOK
    <3>2. fireTimers(now)
      BY <2>3 DEF TimerFromFired
    <3>3. \A n \in Running : elapsed(m_timers[n], now) <= age[n]
      BY <1>1, ElapsedByNow
    <3>. QED
      BY <1>1, <3>1, <3>2, <3>3, FireKeeps
  <2>4. ~ UpdateBegins /\ ~ HandlerReturns /\ ~ AlarmFires /\ ~ Skew /\ ~ Tick
    BY <1>1 DEF UpdateBegins, HandlerReturns, AlarmFires, Skew, Tick
  <2>5. /\ ~ \E n \in Nums, past \in Pasts, dt \in Delays, isoneshot \in BOOLEAN :
               startTimer(n, past, dt, isoneshot)
        /\ ~ \E n \in Running : stopTimer(n)
    BY <1>1 DEF startTimer, stopTimer
  <2>. QED
    BY <1>1, <2>2, <2>3, <2>4, <2>5, Zenon DEF TimersNext
<1>2. ClockInv /\ [TimersNext]_timersVars =>
        [task # "handler" /\ task' = "handler" =>
           \E n \in Running :
             /\ age[n] >= m_timers[n].dt
             /\ \A other \in Nums \ {n} : m_timers'[other] = m_timers[other]]_timersVars
  BY <1>1, Zenon
<1>. QED
  BY <1>2, SpecClockInv, PTL DEF TimersSpec, NeverEarly
-----------------------------------------------------------------------------
(* Every timer is on time if updateFromTimer counts each that is running,  *)
(* which it does not do for a dt of MAXINT, and if the time during which   *)
(* tasks wait is small enough for a difference to have its sign.           *)
DelaysCounted == Delays \subseteq 1..(MAXINT - 1) /\ 2 * MaxLate <= MAXINT + 1

(* The inductive invariant of lateness: it grows only while something      *)
(* waits or runs; a timer is at most that late, and MaxLate more if the    *)
(* alarm that TimerFrom was started with came due meanwhile; and when      *)
(* nothing waits the alarm is running, for every timer that is.            *)
LateInv ==
  /\ ~ busy => late = 0
  /\ \A n \in Running : age[n] <= m_timers[n].dt + late + MaxLate
  /\ ~ busy => \A n \in Running :
       alarm # NONE /\ (age[n] + alarm <= m_timers[n].dt \/ alarm = 0)
  /\ task = "update" =>
       /\ (now - seen) % WRAP <= late
       /\ \A n \in Running : (now - seen) % WRAP <= age[n]

(* The time seen by updateFromTimer, between the start of a timer and now. *)
SeenBetween(W, at, before, start, e, d, s) ==
  e = (at - start) % W /\ d = (at - before) % W /\ s = (before - start) % W

LEMMA ModBetween ==
  ASSUME NEW W \in Nat \ {0}, NEW at \in 0..(W - 1), NEW before \in 0..(W - 1),
         NEW start \in 0..(W - 1), NEW e, NEW d, NEW s,
         SeenBetween(W, at, before, start, e, d, s), d <= e
  PROVE  s = e - d
<1>1. PICK x \in Int : x = at - start
  OBVIOUS
<1>2. PICK y \in Int : y = at - before
  OBVIOUS
<1>3. PICK z \in Int : z = before - start
  OBVIOUS
<1>4. e = IF x >= 0 THEN x ELSE x + W
  <2>1. -W < x /\ x < W
    BY <1>1
  <2>2. x % W = IF x >= 0 THEN x ELSE x + W
    BY <2>1, ModDifference
  <2>. QED
    BY <1>1, <2>2 DEF SeenBetween
<1>5. d = IF y >= 0 THEN y ELSE y + W
  <2>1. -W < y /\ y < W
    BY <1>2
  <2>2. y % W = IF y >= 0 THEN y ELSE y + W
    BY <2>1, ModDifference
  <2>. QED
    BY <1>2, <2>2 DEF SeenBetween
<1>6. s = IF z >= 0 THEN z ELSE z + W
  <2>1. -W < z /\ z < W
    BY <1>3
  <2>2. z % W = IF z >= 0 THEN z ELSE z + W
    BY <2>1, ModDifference
  <2>. QED
    BY <1>3, <2>2 DEF SeenBetween
<1>. QED
  BY <1>1, <1>2, <1>3, <1>4, <1>5, <1>6

(* The age of a timer never reaches WRAP, so that it is what has elapsed.  *)
LEMMA ExactAge ==
  ASSUME DelaysCounted, ClockInv, LateInv, NEW n \in Running
  PROVE  /\ age[n] \in 0..(2 * MAXINT)
         /\ elapsed(m_timers[n], now) = age[n]
<1>1. MAXINT \in Nat /\ MaxLate \in Nat /\ WRAP \in Nat \ {0} /\ WRAP = 2 * MAXINT + 2
  BY TimerSizes
<1>2. TimersTypeOK /\ now \in Time /\ late \in 0..MaxLate
  BY DEF ClockInv, TimersTypeOK
<1>3. PICK dt \in 1..(MAXINT - 1) : dt = m_timers[n].dt
  BY <1>2, RunningTimer DEF DelaysCounted
<1>4. PICK a \in Nat : a = age[n]
  BY <1>2, RunningTimer
<1>5. a <= dt + late + MaxLate
  BY <1>3, <1>4 DEF LateInv
<1>6. a <= 2 * MAXINT
  BY <1>1, <1>2, <1>5 DEF DelaysCounted
<1>7. PICK e \in 0..(WRAP - 1) : e = elapsed(m_timers[n], now)
  BY <1>2, ElapsedIsTime
<1>8. PICK k \in Nat : a = e + k * WRAP
  BY <1>4, <1>7 DEF ClockInv
<1>9. k = 0
  <2> SUFFICES ASSUME k # 0 PROVE FALSE
    OBVIOUS
  <2>1. PICK j \in Nat : j = k - 1
    OBVIOUS
  <2>2. k * WRAP = j * WRAP + WRAP
    BY <1>1, <2>1
  <2>3. PICK p \in Nat : p = j * WRAP
    BY <1>1
  <2>4. a = e + p + WRAP
    BY <1>1, <1>8, <2>2, <2>3
  <2>. QED
    BY <1>1, <1>6, <2>3, <2>4
<1>10. a = e
  BY <1>1, <1>8, <1>9
<1>. QED
  BY <1>4, <1>6, <1>7, <1>10

(* What updateFromTimer finds: every timer that is running is counted, and *)
(* what remains of it is what remained at the time seen.                   *)
LEMMA AllCounted ==
  ASSUME DelaysCounted, ClockInv, LateInv, task = "update",
         NEW n \in Running
  PROVE  /\ n \in counted
         /\ remaining(m_timers[n], seen)
              = m_timers[n].dt - age[n] + ((now - seen) % WRAP)
<1>1. MAXINT \in Nat /\ MaxLate \in Nat /\ WRAP \in Nat \ {0} /\ WRAP = 2 * MAXINT + 2
  BY TimerSizes
<1>2. /\ TimersTypeOK /\ late \in 0..MaxLate
      /\ now \in 0..(WRAP - 1) /\ seen \in 0..(WRAP - 1) /\ seen \in Time
  BY DEF ClockInv, TimersTypeOK, Time
<1>3. PICK dt \in 1..(MAXINT - 1) : dt = m_timers[n].dt
  BY <1>2, RunningTimer DEF DelaysCounted
<1>4. PICK a \in 0..(2 * MAXINT) : a = age[n] /\ a = elapsed(m_timers[n], now)
  BY ExactAge
<1>5. PICK d \in 0..(WRAP - 1) : d = (now - seen) % WRAP
  <2>1. now - seen \in Int
    BY <1>2
  <2>. QED
    BY <1>1, <2>1, ModRange
<1>6. d <= a
  BY <1>4, <1>5 DEF LateInv
<1>7. PICK start \in 0..(WRAP - 1) : start = m_timers[n].t0
  BY <1>2, RunningTimer
<1>8. PICK s : s = elapsed(m_timers[n], seen)
  OBVIOUS
<1>9. SeenBetween(WRAP, now, seen, start, a, d, s)
  BY <1>4, <1>5, <1>7, <1>8 DEF SeenBetween, elapsed
<1>10. s = a - d
  BY <1>1, <1>2, <1>6, <1>9, ModBetween
<1>11. a <= dt + late + MaxLate
  BY <1>3, <1>4 DEF LateInv
<1>12. dt - s >= -(MAXINT + 1)
  BY <1>1, <1>2, <1>10, <1>11 DEF DelaysCounted
<1>13. remaining(m_timers[n], seen) = dt - s
  BY <1>2, <1>3, <1>8, <1>12, Remaining
<1>14. dt - s = dt - a + d /\ dt - s < MAXINT
  BY <1>1, <1>6, <1>10
<1>. QED
  BY <1>3, <1>4, <1>5, <1>13, <1>14 DEF counted
LEMMA TimerInitLate == TimersInit => LateInv
<1> SUFFICES ASSUME TimersInit PROVE LateInv
  OBVIOUS
<1>1. Running = {}
  <2>1. ~ NotRunning.isrunning
    BY DEF NotRunning
  <2>2. \A n \in Nums : m_timers[n] = NotRunning
    BY DEF TimersInit
  <2>. QED
    BY <2>1, <2>2 DEF Running
<1>. QED
  BY <1>1 DEF LateInv, TimersInit

(* A step while something waits or runs: no timer that keeps running may   *)
(* get older or change its dt.                                             *)
LEMMA LateWhileBusy ==
  ASSUME ClockInv, ClockInv', LateInv, busy', late' = late,
         \A n \in Running' :
           n \in Running /\ m_timers'[n].dt = m_timers[n].dt /\ age'[n] <= age[n],
         \/ task' # "update"
         \/ task = "update" /\ now' = now /\ seen' = seen /\ age' = age
  PROVE  LateInv'
<1>1. MaxLate \in Nat /\ late \in Nat
  BY TimerSizes DEF ClockInv, TimersTypeOK
<1>2. ASSUME NEW n \in Running'
      PROVE  age'[n] <= m_timers'[n].dt + late' + MaxLate
  <2>1. n \in Running /\ m_timers'[n].dt = m_timers[n].dt /\ age'[n] <= age[n]
    BY <1>2
  <2>2. PICK a \in Nat, dt \in Nat : a = age[n] /\ dt = m_timers[n].dt
    <3>1. age[n] \in Nat /\ m_timers[n].dt \in 1..MAXINT
      BY <2>1, RunningTimer DEF ClockInv
    <3>. QED
      BY <3>1
  <2>3. PICK a2 \in Nat : a2 = age'[n]
    BY DEF ClockInv, TimersTypeOK, Running
  <2>4. a <= dt + late + MaxLate
    BY <2>1, <2>2 DEF LateInv
  <2>5. a2 <= a
    BY <2>1, <2>2, <2>3
  <2>6. a2 <= dt + late + MaxLate
    BY <1>1, <2>4, <2>5
  <2>. QED
    BY <2>1, <2>2, <2>3, <2>6
<1>3. task' = "update" =>
        /\ (now' - seen') % WRAP <= late'
        /\ \A n \in Running' : (now' - seen') % WRAP <= age'[n]
  <2> SUFFICES ASSUME task' = "update"
               PROVE  /\ (now' - seen') % WRAP <= late'
                      /\ \A n \in Running' : (now' - seen') % WRAP <= age'[n]
    OBVIOUS
  <2>1. task = "update" /\ now' = now /\ seen' = seen /\ age' = age
    OBVIOUS
  <2>2. (now - seen) % WRAP <= late /\ \A n \in Running : (now - seen) % WRAP <= age[n]
    BY <2>1 DEF LateInv
  <2>. QED
    BY <2>1, <2>2, Zenon
<1>. QED
  BY <1>2, <1>3 DEF LateInv

LEMMA UpdateBeginsLate ==
  ClockInv /\ LateInv /\ UpdateBegins => LateInv'
<1> SUFFICES ASSUME ClockInv, LateInv, UpdateBegins PROVE LateInv'
  OBVIOUS
<1>1. /\ posted /\ task' = "update" /\ seen' = now
      /\ m_timers' = m_timers /\ now' = now /\ late' = late /\ age' = age
  BY DEF UpdateBegins
<1>2. Running' = Running /\ busy'
  BY <1>1 DEF Running, busy
<1>3. WRAP \in Nat \ {0} /\ now \in Int /\ late \in Nat
  BY TimerSizes DEF ClockInv, TimersTypeOK, Time
<1>4. (now - now) % WRAP = 0
  <2>1. now - now = 0 /\ 0 % WRAP = 0
    BY <1>3
  <2>. QED
    BY <2>1
<1>5. (now' - seen') % WRAP = 0
  BY <1>1, <1>4
<1>6. \A n \in Running' : age'[n] \in Nat
  BY <1>1, <1>2, RunningTimer DEF ClockInv
<1>7. \A n \in Running' : age'[n] <= m_timers'[n].dt + late' + MaxLate
  BY <1>1, <1>2, Zenon DEF LateInv
<1>8. (now' - seen') % WRAP <= late'
  BY <1>1, <1>3, <1>5
<1>9. \A n \in Running' : (now' - seen') % WRAP <= age'[n]
  BY <1>5, <1>6
<1>. QED
  BY <1>2, <1>7, <1>8, <1>9 DEF LateInv

(* updateFromTimer fires a timer, or starts the alarm for the nearest.     *)
LEMMA UpdateEndsLate ==
  ASSUME DelaysCounted, ClockInv, ClockInv', LateInv, UpdateEnds
  PROVE  LateInv'
<1>1. /\ task = "update" /\ fired' = fired /\ now' = now
      /\ late' = IF task' = "none" /\ ~posted' /\ ~fired THEN 0 ELSE late
  BY DEF UpdateEnds
<1>2. /\ TimersTypeOK /\ late \in 0..MaxLate
      /\ now \in 0..(WRAP - 1) /\ seen \in 0..(WRAP - 1) /\ seen \in Time
  BY <1>1 DEF ClockInv, TimersTypeOK, Time
<1>3. MAXINT \in Nat /\ MaxLate \in Nat /\ WRAP \in Nat \ {0} /\ WRAP = 2 * MAXINT + 2
  BY TimerSizes
<1>4. CASE counted # {} /\ min_remaining <= 0
  <2>1. fireTimers(seen)
    BY <1>4 DEF UpdateEnds
  <2>2. \A n \in Running : elapsed(m_timers[n], seen) <= age[n]
    BY <1>1 DEF ClockInv
  <2>3. /\ task' \in {"none", "handler"} /\ (posted' \/ task' = "handler")
        /\ \A n \in Running' :
             n \in Running /\ m_timers'[n].dt = m_timers[n].dt /\ age'[n] <= age[n]
    BY <1>2, <2>1, <2>2, FireKeeps
  <2>4. busy' /\ late' = late
    BY <1>1, <2>3 DEF busy
  <2>. QED
    BY <2>3, <2>4, LateWhileBusy
<1>5. CASE ~ (counted # {} /\ min_remaining <= 0)
  <2>1. task' = "none" /\ m_timers' = m_timers /\ posted' = posted /\ age' = age
    BY <1>5 DEF UpdateEnds
  <2>2. Running' = Running
    BY <2>1 DEF Running
  <2>3. \A n \in Running : age[n] \in Nat
    BY <1>2, RunningTimer
  <2>4. CASE posted \/ fired
    <3>1. busy' /\ late' = late
      BY <1>1, <2>1, <2>4 DEF busy, ClockInv, TimersTypeOK
    <3>2. \A n \in Running' :
            n \in Running /\ m_timers'[n].dt = m_timers[n].dt /\ age'[n] <= age[n]
      BY <2>1, <2>2, <2>3
    <3>. QED
      BY <2>1, <3>1, <3>2, LateWhileBusy
  <2>5. CASE ~ posted /\ ~ fired
    <3>1. late' = 0
      BY <1>1, <2>1, <2>5
    <3>2. PICK d \in 0..(WRAP - 1) : d = (now - seen) % WRAP
      <4>1. now - seen \in Int
        BY <1>2
      <4>. QED
        BY <1>3, <4>1, ModRange
    <3>3. d <= MaxLate
      <4>1. d <= late
        BY <1>1, <3>2 DEF LateInv
      <4>. QED
        BY <1>2, <1>3, <4>1
    <3>4. ASSUME NEW n \in Running
          PROVE  /\ age[n] <= m_timers[n].dt + MaxLate
                 /\ alarm' # NONE /\ (age[n] + alarm' <= m_timers[n].dt \/ alarm' = 0)
      <4>1. PICK dt \in 1..MAXINT : dt = m_timers[n].dt
        BY <1>2, RunningTimer
      <4>2. PICK a \in Nat : a = age[n]
        BY <2>3
      <4>3. n \in counted /\ remaining(m_timers[n], seen) = dt - a + d
        BY <1>1, <3>2, <4>1, <4>2, AllCounted
      <4>4. PICK m \in Int : m = min_remaining
        BY <1>2, <4>3, MinRemaining
      <4>5. m <= dt - a + d
        BY <1>2, <4>3, <4>4, MinRemaining
      <4>6. m > 0
        BY <1>5, <4>3, <4>4
      <4>7. alarm' # NONE /\ (alarm' = 0 \/ alarm' = m - d)
        BY <1>2, <3>2, <4>3, <4>4, <4>6, AlarmStarts
      <4>8. a <= dt + MaxLate
        BY <1>3, <3>3, <4>5, <4>6
      <4>9. alarm' = m - d => a + alarm' <= dt
        BY <4>5
      <4>. QED
        BY <4>1, <4>2, <4>7, <4>8, <4>9
    <3>5. \A n \in Running' : age'[n] <= m_timers'[n].dt + late' + MaxLate
      <4>. TAKE n \in Running'
      <4>1. n \in Running /\ age[n] <= m_timers[n].dt + MaxLate
        BY <2>2, <3>4
      <4>2. m_timers[n].dt \in 1..MAXINT
        BY <1>2, <4>1, RunningTimer
      <4>3. m_timers[n].dt + 0 + MaxLate = m_timers[n].dt + MaxLate
        BY <1>3, <4>2
      <4>. QED
        BY <2>1, <3>1, <4>1, <4>3
    <3>6. \A n \in Running' :
            alarm' # NONE /\ (age'[n] + alarm' <= m_timers'[n].dt \/ alarm' = 0)
      BY <2>1, <2>2, <3>4
    <3>. QED
      BY <2>1, <3>1, <3>5, <3>6 DEF LateInv
  <2>. QED
    BY <2>4, <2>5
<1>. QED
  BY <1>4, <1>5
LEMMA StartTimerLate ==
  ASSUME ClockInv, LateInv, NEW n \in Nums, NEW past \in Pasts,
         NEW dt \in Delays, NEW isoneshot \in BOOLEAN, startTimer(n, past, dt, isoneshot)
  PROVE  LateInv'
<1>1. task # "update" /\ posted' = TRUE /\ task' = task /\ late' = late
  BY DEF startTimer
<1>2. busy' /\ task' # "update"
  BY <1>1 DEF busy
<1>3. m_timers'[n].dt = dt /\ age'[n] = past
  BY StartTimerClock
<1>4. MaxLate \in Nat /\ late \in Nat /\ dt \in Nat /\ past \in 0..dt
  BY TimerSizes DEF ClockInv, TimersTypeOK
<1>5. \A m \in Nums \ {n} : m_timers'[m] = m_timers[m] /\ age'[m] = age[m]
  BY DEF startTimer, ClockInv, TimersTypeOK
<1>6. ASSUME NEW m \in Running'
      PROVE  age'[m] <= m_timers'[m].dt + late' + MaxLate
  <2>1. m \in Nums /\ m_timers'[m].isrunning
    BY DEF Running
  <2>2. CASE m = n
    <3>1. past <= dt + late + MaxLate
      BY <1>4
    <3>. QED
      BY <1>1, <1>3, <2>2, <3>1
  <2>3. CASE m # n
    <3>1. m_timers'[m] = m_timers[m] /\ age'[m] = age[m]
      BY <1>5, <2>1, <2>3
    <3>2. m \in Running
      BY <2>1, <3>1 DEF Running
    <3>. QED
      BY <1>1, <3>1, <3>2, Zenon DEF LateInv
  <2>. QED
    BY <2>2, <2>3
<1>. QED
  BY <1>2, <1>6 DEF LateInv

LEMMA StopTimerLate ==
  ASSUME ClockInv, LateInv, NEW n \in Running, stopTimer(n)
  PROVE  LateInv'
<1>1. /\ task # "update" /\ task' = task /\ late' = late /\ alarm' = alarm
      /\ posted' = posted /\ fired' = fired
  BY DEF stopTimer
<1>2. busy' <=> busy
  BY <1>1 DEF busy
<1>3. \A m \in Running' :
        m \in Running /\ m_timers'[m] = m_timers[m] /\ age'[m] = age[m]
  BY StopTimerClock
<1>4. \A m \in Running' : age'[m] <= m_timers'[m].dt + late' + MaxLate
  BY <1>1, <1>3, Zenon DEF LateInv
<1>5. ~ busy' => \A m \in Running' :
        alarm' # NONE /\ (age'[m] + alarm' <= m_timers'[m].dt \/ alarm' = 0)
  BY <1>1, <1>2, <1>3, Zenon DEF LateInv
<1>. QED
  BY <1>1, <1>2, <1>4, <1>5 DEF LateInv

(* While nothing waits the alarm is as near as the nearest timer, and the  *)
(* clock stands still, as it were, once it is due.                         *)
LEMMA TickLate ==
  ASSUME ClockInv, LateInv, Tick
  PROVE  LateInv'
<1>1. /\ alarm # 0
      /\ busy => late < MaxLate
      /\ late' = IF busy THEN late + 1 ELSE 0
      /\ now' = (now + 1) % WRAP
      /\ alarm' = IF alarm = NONE THEN NONE ELSE alarm - 1
      /\ age' = [n \in Nums |-> IF n \in Running THEN age[n] + 1 ELSE 0]
      /\ m_timers' = m_timers /\ posted' = posted /\ fired' = fired /\ task' = task
      /\ seen' = seen
  BY DEF Tick
<1>2. TimersTypeOK /\ late \in 0..MaxLate
  BY DEF ClockInv, TimersTypeOK
<1>3. MAXINT \in Nat /\ MaxLate \in Nat /\ WRAP \in Nat \ {0} /\ NONE = WRAP
      /\ WRAP = 2 * MAXINT + 2
  BY TimerSizes
<1>4. Running' = Running /\ (busy' <=> busy)
  BY <1>1 DEF Running, busy
<1>5. \A n \in Running : age'[n] = age[n] + 1 /\ age[n] \in Nat
  <2>1. \A n \in Running : age'[n] = age[n] + 1
    BY <1>1 DEF Running
  <2>. QED
    BY <1>2, <2>1, RunningTimer
<1>6. CASE busy
  <2>1. late' = late + 1
    BY <1>1, <1>6
  <2>2. ASSUME NEW n \in Running
        PROVE  age'[n] <= m_timers[n].dt + late' + MaxLate
    <3>1. PICK dt \in 1..MAXINT : dt = m_timers[n].dt
      BY <1>2, RunningTimer
    <3>2. PICK a \in Nat : a = age[n] /\ age'[n] = a + 1
      BY <1>5
    <3>3. a <= dt + late + MaxLate
      BY <3>1, <3>2 DEF LateInv
    <3>4. a + 1 <= dt + (late + 1) + MaxLate
      BY <1>2, <1>3, <3>3
    <3>. QED
      BY <2>1, <3>1, <3>2, <3>4
  <2>3. task = "update" =>
          /\ (now' - seen) % WRAP <= late'
          /\ \A n \in Running : (now' - seen) % WRAP <= age'[n]
    <3> SUFFICES ASSUME task = "update"
                 PROVE  /\ (now' - seen) % WRAP <= late'
                        /\ \A n \in Running : (now' - seen) % WRAP <= age'[n]
      OBVIOUS
    <3>1. now \in 0..(WRAP - 1) /\ seen \in 0..(WRAP - 1)
      BY <1>2 DEF ClockInv, TimersTypeOK, Time
    <3>2. PICK d \in 0..(WRAP - 1) : d = (now - seen) % WRAP
      <4>1. now - seen \in Int
        BY <3>1
      <4>. QED
        BY <1>3, <4>1, ModRange
    <3>3. PICK d2 : d2 = (now' - seen) % WRAP
      OBVIOUS
    <3>4. d2 = IF d = WRAP - 1 THEN 0 ELSE d + 1
      <4>1. d2 = (((now + 1) % WRAP) - seen) % WRAP
        BY <1>1, <3>3
      <4>. QED
        BY <1>3, <3>1, <3>2, <4>1, ModTick
    <3>5. d2 <= d + 1
      BY <3>4
    <3>6. d2 \in Int
      BY <3>4
    <3>7. d <= late /\ \A n \in Running : d <= age[n]
      BY <3>2 DEF LateInv
    <3>8. d2 <= late'
      BY <1>2, <2>1, <3>5, <3>6, <3>7
    <3>9. \A n \in Running : d2 <= age'[n]
      BY <1>5, <3>5, <3>6, <3>7
    <3>. QED
      BY <3>3, <3>8, <3>9
  <2>. QED
    BY <1>1, <1>4, <1>6, <2>2, <2>3 DEF LateInv
<1>7. CASE ~ busy
  <2>1. late' = 0 /\ late = 0 /\ task # "update"
    BY <1>1, <1>7 DEF LateInv, busy
  <2>2. ASSUME NEW n \in Running
        PROVE  /\ age'[n] <= m_timers[n].dt + late' + MaxLate
               /\ alarm' # NONE
               /\ age'[n] + alarm' <= m_timers[n].dt
    <3>1. PICK dt \in 1..MAXINT : dt = m_timers[n].dt
      BY <1>2, RunningTimer
    <3>2. PICK a \in Nat : a = age[n] /\ age'[n] = a + 1
      BY <1>5
    <3>3. alarm # NONE /\ a + alarm <= dt
      BY <1>1, <1>7, <3>1, <3>2 DEF LateInv
    <3>4. alarm \in 1..MAXINT
      BY <1>1, <1>2, <3>3 DEF TimersTypeOK
    <3>5. alarm' = alarm - 1
      BY <1>1, <3>3
    <3>6. (a + 1) + (alarm - 1) <= dt /\ a + 1 <= dt + 0 + MaxLate /\ alarm - 1 # NONE
      BY <1>3, <3>3, <3>4
    <3>. QED
      BY <2>1, <3>1, <3>2, <3>5, <3>6
  <2>. QED
    BY <1>1, <1>4, <2>1, <2>2 DEF LateInv
<1>. QED
  BY <1>6, <1>7

LEMMA LateNext ==
  ASSUME DelaysCounted, ClockInv, LateInv, [TimersNext]_timersVars
  PROVE  ClockInv' /\ LateInv'
<1>1. ClockInv'
  BY ClockNext
<1>2. Running = {n \in Nums : m_timers[n].isrunning}
      /\ \A n \in Running : age[n] \in Nat
  BY RunningTimer DEF ClockInv, Running
<1>3. CASE TimerFromFired
  <2>1. /\ task = "none" /\ fireTimers(now) /\ late' = late
    BY <1>3 DEF TimerFromFired
  <2>2. now \in Time /\ \A n \in Running : elapsed(m_timers[n], now) <= age[n]
    BY ElapsedByNow DEF ClockInv, TimersTypeOK
  <2>3. /\ task' \in {"none", "handler"} /\ (posted' \/ task' = "handler")
        /\ \A n \in Running' :
             n \in Running /\ m_timers'[n].dt = m_timers[n].dt /\ age'[n] <= age[n]
    BY <2>1, <2>2, FireKeeps
  <2>4. busy'
    BY <2>3 DEF busy
  <2>. QED
    BY <1>1, <2>1, <2>3, <2>4, LateWhileBusy
<1>4. CASE HandlerReturns \/ AlarmFires \/ Skew
  <2>1. /\ m_timers' = m_timers /\ age' = age /\ late' = late /\ now' = now /\ seen' = seen
        /\ task' = task \/ task' = "none"
        /\ posted' = TRUE \/ fired' = TRUE
    BY <1>4 DEF HandlerReturns, AlarmFires, Skew
  <2>2. busy'
    BY <2>1 DEF busy
  <2>3. \A n \in Running' :
          n \in Running /\ m_timers'[n].dt = m_timers[n].dt /\ age'[n] <= age[n]
    BY <1>2, <2>1 DEF Running
  <2>4. task' # "update" \/ task = "update"
    BY <2>1
  <2>. QED
    BY <1>1, <2>1, <2>2, <2>3, <2>4, LateWhileBusy
<1>5. CASE UNCHANGED timersVars
  <2>1. busy' = busy /\ Running' = Running
    BY <1>5 DEF timersVars, busy, Running
  <2>. QED
    BY <1>1, <1>5, <2>1 DEF LateInv, timersVars
<1>6. ASSUME NEW n \in Nums, NEW past \in Pasts, NEW dt \in Delays, NEW isoneshot \in BOOLEAN,
             startTimer(n, past, dt, isoneshot)
      PROVE  LateInv'
  BY <1>6, StartTimerLate
<1>7. ASSUME NEW n \in Running, stopTimer(n)
      PROVE  LateInv'
  BY <1>7, StopTimerLate
<1>8. CASE UpdateBegins
  BY <1>1, <1>8, UpdateBeginsLate
<1>9. CASE UpdateEnds
  BY <1>1, <1>9, UpdateEndsLate
<1>10. CASE Tick
  BY <1>1, <1>10, TickLate
<1>. QED
  BY <1>1, <1>3, <1>4, <1>5, <1>6, <1>7, <1>8, <1>9, <1>10 DEF TimersNext

(* Every timer fires on time, as soon as the tasks get to it: for every    *)
(* number of timers, when no delay is MAXINT.                              *)
THEOREM TimersOnTime == ASSUME DelaysCounted PROVE TimersSpec => []TimersInv
<1>1. TimersInit => ClockInv /\ LateInv
  BY TimerInitClock, TimerInitLate
<1>2. ClockInv /\ LateInv /\ [TimersNext]_timersVars => (ClockInv /\ LateInv)'
  BY LateNext
<1>3. ClockInv /\ LateInv => TimersTypeOK /\ OnTime
  <2> SUFFICES ASSUME ClockInv, LateInv PROVE TimersTypeOK /\ OnTime
    OBVIOUS
  <2>1. TimersTypeOK /\ late \in 0..MaxLate /\ MaxLate \in Nat
    BY TimerSizes DEF ClockInv, TimersTypeOK
  <2>2. ASSUME NEW n \in Running
        PROVE  age[n] <= m_timers[n].dt + 2 * MaxLate
    <3>1. PICK dt \in Nat, a \in Nat : dt = m_timers[n].dt /\ a = age[n]
      <4>1. m_timers[n].dt \in 1..MAXINT /\ age[n] \in Nat
        BY <2>1, RunningTimer
      <4>. QED
        BY <4>1
    <3>2. a <= dt + late + MaxLate
      BY <3>1 DEF LateInv
    <3>3. a <= dt + 2 * MaxLate
      BY <2>1, <3>2
    <3>. QED
      BY <3>1, <3>3
  <2>. QED
    BY <2>1, <2>2 DEF OnTime
<1>4. TimersSpec => []AgeKnown
  BY TimerAgeKnown
<1>. QED
  BY <1>1, <1>2, <1>3, <1>4, PTL DEF TimersSpec, TimersInv
=============================================================================
