----------------------------- MODULE TaskQueue -----------------------------
(***************************************************************************)
(* What the TinyOS scheduler promises about tasks (TEP 106, section 3):    *)
(* a FIFO queue in which a task waits at most once, a post that has no     *)
(* effect exactly when the task is already waiting, and a task that leaves *)
(* the queue only to be run.                                               *)
(***************************************************************************)
EXTENDS Naturals, Sequences

CONSTANTS Tasks,     \* the ids handed out by unique("TinySchedulerC.TaskBasic")
          NO_TASK    \* the id that no task has

VARIABLES queue,     \* the tasks posted and not started, oldest first
          started    \* the task last taken from the queue, or NO_TASK

qvars == <<queue, started>>

Waiting(t) == \E i \in 1..Len(queue) : queue[i] = t

Init == queue = <<>> /\ started \in Tasks \cup {NO_TASK}

(* A post of t: EBUSY when t is waiting, otherwise t joins at the end. *)
Post(t) ==
  /\ queue' = IF Waiting(t) THEN queue ELSE Append(queue, t)
  /\ UNCHANGED started

(* The oldest waiting task leaves the queue to be run. *)
Start ==
  /\ queue # <<>>
  /\ started' = Head(queue)
  /\ queue' = Tail(queue)

(* The scheduler looks for work and finds none. *)
FindNothing ==
  /\ queue = <<>>
  /\ started' = NO_TASK
  /\ UNCHANGED queue

Next == (\E t \in Tasks : Post(t)) \/ Start \/ FindNothing

Spec == Init /\ [][Next]_qvars
=============================================================================
