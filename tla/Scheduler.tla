----------------------------- MODULE Scheduler -----------------------------
(***************************************************************************)
(* The TinyOS task scheduler (tos/system/SchedulerBasicP.nc) driven by the *)
(* boot sequence of RealMainP.nc and put to sleep by the msp432 McuSleepC. *)
(*                                                                         *)
(* One main thread boots the node and then loops in Scheduler.taskLoop;    *)
(* interrupts preempt it anywhere outside an atomic section.  Each action  *)
(* of the main thread is one atomic section of the code, or one step taken *)
(* outside of them, so an interrupt may fall between any two actions once  *)
(* interrupts are enabled.                                                 *)
(***************************************************************************)
EXTENDS Naturals, Sequences

CONSTANTS Tasks,     \* 0 .. NUM_TASKS-1 in the code
          NO_TASK    \* 255 in the code

ASSUME NoTaskIsNoTask == NO_TASK \notin Tasks

VARIABLES
  m_head, m_tail,    \* the ends of the queue, NO_TASK when it is empty
  m_next,            \* m_next[t]: the task queued behind t
  lastTask,          \* the task last popped
  phase,             \* how far main() has come
  exec,              \* what the main thread is doing
  event,             \* the event register of the core, which WFE waits for
  fifo               \* history: the tasks posted and not started, oldest first

vars == <<m_head, m_tail, m_next, lastTask, phase, exec, event, fifo>>
queueVars == <<m_head, m_tail, m_next, fifo>>

Phases == {"bootstrap", "platform", "software", "booted", "loop"}

(***************************************************************************)
(* "init"   in PlatformInit.init, SoftwareInit.init or Boot.booted         *)
(* "pop"    about to take the next task                                    *)
(* "task"   in the body of lastTask                                        *)
(* "drowsy" in McuSleep.sleep, interrupts on, WFE not yet executed         *)
(* "asleep" stopped in WFE                                                 *)
(***************************************************************************)
Execs == {"init", "pop", "task", "drowsy", "asleep"}

InterruptsEnabled == phase \in {"booted", "loop"}

TypeOK ==
  /\ m_head \in Tasks \cup {NO_TASK}
  /\ m_tail \in Tasks \cup {NO_TASK}
  /\ m_next \in [Tasks -> Tasks \cup {NO_TASK}]
  /\ lastTask \in Tasks \cup {NO_TASK}
  /\ phase \in Phases
  /\ exec \in Execs
  /\ event \in BOOLEAN
  /\ fifo \in Seq(Tasks)
  /\ exec = "task" => lastTask \in Tasks   \* NO_TASK has no body to run

-----------------------------------------------------------------------------
(* Power-up.  The module's variables are in bss and read 0, which is the   *)
(* id of some task: until Scheduler.init the queue holds nothing sensible. *)

Init ==
  /\ \E zero \in Tasks :
       /\ m_head = zero
       /\ m_tail = zero
       /\ m_next = [t \in Tasks |-> zero]
       /\ lastTask = zero
  /\ phase = "bootstrap"
  /\ exec = "init"
  /\ event = FALSE
  /\ fifo = <<>>

(* Scheduler.init, called from main() before any component runs. *)
SchedulerInit ==
  /\ phase = "bootstrap"
  /\ m_next' = [t \in Tasks |-> NO_TASK]
  /\ m_head' = NO_TASK
  /\ m_tail' = NO_TASK
  /\ phase' = "platform"
  /\ UNCHANGED <<lastTask, exec, event, fifo>>

-----------------------------------------------------------------------------
(* The queue: a list threaded through m_next.                              *)

(* Mutant: the last of the queue, which has no successor, is forgotten. *)
isWaitingByLink(id) == m_next[id] # NO_TASK

isWaiting(id) == m_next[id] # NO_TASK \/ m_tail = id

(* Mutant: a task that is waiting is queued again. *)
pushTaskTwice(id) ==
  /\ IF m_head = NO_TASK
       THEN m_head' = id /\ UNCHANGED m_next
       ELSE m_next' = [m_next EXCEPT ![m_tail] = id] /\ UNCHANGED m_head
  /\ m_tail' = id
  /\ fifo' = Append(fifo, id)

(* Mutant: the task is not linked behind the last one. *)
pushTaskUnlinked(id) ==
  IF isWaiting(id)
    THEN UNCHANGED queueVars
    ELSE /\ m_head' = IF m_head = NO_TASK THEN id ELSE m_head
         /\ m_tail' = id
         /\ fifo' = Append(fifo, id)
         /\ UNCHANGED m_next

pushTask(id) ==
  IF isWaiting(id)
    THEN UNCHANGED queueVars
    ELSE /\ IF m_head = NO_TASK
              THEN m_head' = id /\ UNCHANGED m_next
              ELSE m_next' = [m_next EXCEPT ![m_tail] = id] /\ UNCHANGED m_head
         /\ m_tail' = id
         /\ fifo' = Append(fifo, id)

(* Mutant: the last task leaves the queue, and m_tail still names it. *)
popTaskLeavesTail ==
  /\ lastTask' = m_head
  /\ IF m_head = NO_TASK
       THEN UNCHANGED queueVars
       ELSE /\ m_head' = m_next[m_head]
            /\ m_next' = [m_next EXCEPT ![m_head] = NO_TASK]
            /\ fifo' = Tail(fifo)
            /\ UNCHANGED m_tail

(* lastTask = popTask(), which leaves the queue alone when it is empty. *)
popTask ==
  /\ lastTask' = m_head
  /\ IF m_head = NO_TASK
       THEN UNCHANGED queueVars
       ELSE /\ m_head' = m_next[m_head]
            /\ m_tail' = IF m_next[m_head] = NO_TASK THEN NO_TASK ELSE m_tail
            /\ m_next' = [m_next EXCEPT ![m_head] = NO_TASK]
            /\ fifo' = Tail(fifo)

-----------------------------------------------------------------------------
(* TaskBasic.postTask, from the code the main thread is running ...        *)
PostFromMain(t) ==
  /\ phase # "bootstrap"
  /\ exec \in {"init", "task"}
  /\ pushTask(t)
  /\ UNCHANGED <<lastTask, phase, exec, event>>

(* ... and from an interrupt handler.  Taking the interrupt sets the event *)
(* register and ends WFE; a handler that posts nothing does only that.     *)
InterruptEntry ==
  /\ InterruptsEnabled
  /\ event' = TRUE
  /\ exec' = IF exec = "asleep" THEN "pop" ELSE exec
  /\ UNCHANGED <<lastTask, phase>>

PostFromInterrupt(t) == InterruptEntry /\ pushTask(t)

IdleInterrupt == InterruptEntry /\ UNCHANGED queueVars

(* PlatformInit.init or SoftwareInit.init returns and the boot code spins  *)
(* in runNextTask; or Boot.booted returns and main() enters taskLoop.      *)
InitReturns ==
  /\ exec = "init"
  /\ phase # "bootstrap"
  /\ exec' = "pop"
  /\ phase' = IF phase = "booted" THEN "loop" ELSE phase
  /\ UNCHANGED <<queueVars, lastTask, event>>

(* The code after each `while (runNextTask())' of main(). *)
AfterDrain(p) == IF p = "platform" THEN "software" ELSE "booted"

(* Mutant: the id returned is run without the test for NO_TASK. *)
runNextTaskUntested ==
  /\ phase \in {"platform", "software"}
  /\ exec = "pop"
  /\ popTask
  /\ exec' = "task"
  /\ UNCHANGED <<phase, event>>

(* Scheduler.runNextTask during boot, inside main()'s atomic section. *)
runNextTask ==
  /\ phase \in {"platform", "software"}
  /\ exec = "pop"
  /\ popTask
  /\ IF m_head = NO_TASK
       THEN exec' = "init" /\ phase' = AfterDrain(phase)
       ELSE exec' = "task" /\ UNCHANGED phase
  /\ UNCHANGED event

(* One turn of the atomic while loop of Scheduler.taskLoop: the test for   *)
(* an empty queue and the entry to McuSleep.sleep are one atomic step.     *)
taskLoop ==
  /\ phase = "loop"
  /\ exec = "pop"
  /\ popTask
  /\ exec' = IF m_head = NO_TASK THEN "drowsy" ELSE "task"
  /\ UNCHANGED <<phase, event>>

(* Mutant: WFI, which waits for an interrupt yet to come. *)
WaitForInterrupt ==
  /\ exec = "drowsy"
  /\ exec' = "asleep"
  /\ event' = FALSE
  /\ UNCHANGED <<queueVars, lastTask, phase>>

(* WFE, after McuSleep.sleep has enabled interrupts: it falls through and  *)
(* clears the event register when an interrupt came since it was last      *)
(* cleared, and stops the core otherwise.                                  *)
WaitForEvent ==
  /\ exec = "drowsy"
  /\ exec' = IF event THEN "pop" ELSE "asleep"
  /\ event' = FALSE
  /\ UNCHANGED <<queueVars, lastTask, phase>>

TaskReturns ==
  /\ exec = "task"
  /\ exec' = "pop"
  /\ UNCHANGED <<queueVars, lastTask, phase, event>>

-----------------------------------------------------------------------------
MainThread ==
  SchedulerInit \/ InitReturns \/ runNextTask \/ taskLoop \/ WaitForEvent \/ TaskReturns

Next ==
  \/ MainThread
  \/ IdleInterrupt
  \/ \E t \in Tasks : PostFromMain(t) \/ PostFromInterrupt(t)

Spec == Init /\ [][Next]_vars

(* The processor keeps executing the main thread: handlers return, and so  *)
(* do tasks and the initialisation and boot handlers.                      *)
FairSpec == Spec /\ WF_vars(MainThread)

-----------------------------------------------------------------------------
Posted(t) == \E i \in 1..Len(fifo) : fifo[i] = t

(* From Scheduler.init on, the list threaded through m_next is the queue   *)
(* of tasks posted and not started: its ends and links follow the posting  *)
(* order, no task is in it twice, and a task that is not in it carries no  *)
(* link (pushTask, popTask).                                               *)
LinksMatchFifo ==
  phase # "bootstrap" =>
    /\ fifo = <<>> => m_head = NO_TASK /\ m_tail = NO_TASK
    /\ fifo # <<>> => /\ m_head = fifo[1]
                      /\ m_tail = fifo[Len(fifo)]
                      /\ m_next[fifo[Len(fifo)]] = NO_TASK
    /\ \A i \in 1..Len(fifo) : \A j \in 1..Len(fifo) : fifo[i] = fifo[j] => i = j
    /\ \A i \in 1..(Len(fifo) - 1) : m_next[fifo[i]] = fifo[i + 1]
    /\ \A t \in Tasks : ~Posted(t) => m_next[t] = NO_TASK

(* isWaiting, which decides whether a post is accepted, is exact: TRUE for *)
(* the tasks posted and not started, the last of the queue included, and   *)
(* FALSE for every other (TEP 106: a post fails if and only if the task    *)
(* has been posted and has not started).                                   *)
IsWaitingExact ==
  phase # "bootstrap" => \A t \in Tasks : isWaiting(t) <=> Posted(t)

(* No lost wake-up: the core never stops in WFE with a task in the queue,  *)
(* although McuSleep.sleep enables interrupts before it executes WFE and a *)
(* handler may post in between (taskLoop and McuSleepC.sleep).             *)
NeverSleepsOnWork == exec = "asleep" => fifo = <<>>

(* The queue refines the FIFO of TEP 106. *)
Abstract == INSTANCE TaskQueue WITH queue <- fifo, started <- lastTask
RefinesTaskQueue == Abstract!Spec

(* Every accepted post is followed by a run of the task (TEP 106, section  *)
(* 4: "the scheduler MUST run it eventually, so that starvation is not a   *)
(* concern"), whatever else is posted meanwhile.                           *)
EveryPostRuns ==
  \A t \in Tasks : Posted(t) ~> (exec = "task" /\ lastTask = t)
=============================================================================
