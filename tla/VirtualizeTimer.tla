--------------------------- MODULE VirtualizeTimer --------------------------
(***************************************************************************)
(* The virtual timers of tos/lib/timer/VirtualizeTimerImplP.nc: NUM_TIMERS *)
(* timers of clients over one timer, TimerFrom, which is an alarm behind   *)
(* tos/lib/timer/AlarmToTimerC.nc.                                         *)
(*                                                                         *)
(* Clients call from tasks and from the handlers of fired(); interrupts    *)
(* only advance the clock, fire the alarm and signal a skew of the time.   *)
(* Time has 32 bits in the code, and wraps.                                *)
(***************************************************************************)
EXTENDS Integers, FiniteSets, FiniteSetsExt

CONSTANTS NUM_TIMERS,
          MAXINT,    \* the largest int32_t
          Delays,    \* the values of dt that clients use
          Pasts,     \* how far in the past t0 may be
          MaxLate    \* bound: ticks during which tasks are waiting or running

ASSUME TimerAssumption ==
  /\ NUM_TIMERS \in Nat \ {0} /\ MAXINT \in Nat /\ MaxLate \in Nat
  /\ Delays \subseteq 1..MAXINT
  /\ \A past \in Pasts, dt \in Delays : past \in 0..dt

WRAP == 2 * (MAXINT + 1)   \* uint32_t is taken modulo this
Nums == 0..(NUM_TIMERS - 1)
Time == 0..(WRAP - 1)
NONE == WRAP   \* no time
NotRunning == [isrunning |-> FALSE]   \* t0, dt and isoneshot are not read any more

VARIABLES
  m_timers,   \* the timers of the clients
  posted,     \* the task updateFromTimer is posted
  alarm,      \* ticks until the alarm fires, NONE if it is not running
  fired,      \* the task of AlarmToTimerC that signals TimerFrom.fired is posted
  task,       \* what is running: nothing, updateFromTimer or the handler of a client
  now,        \* the clock
  seen,       \* the time updateFromTimer read, NONE if it is not running
  late,       \* history: the ticks since something was waiting or running
  age         \* history: age[n], the ticks since the t0 of timer n, without wrapping

timersVars == <<m_timers, posted, alarm, fired, task, now, seen, late, age>>

TimersTypeOK ==
  /\ m_timers \in [Nums -> {NotRunning} \cup
       [isrunning : {TRUE}, t0 : Time, dt : Delays, isoneshot : BOOLEAN]]
  /\ {posted, fired} \subseteq BOOLEAN
  /\ alarm \in 0..MAXINT \cup {NONE}
  /\ task \in {"none", "update", "handler"}
  /\ now \in Time
  /\ seen \in Time \cup {NONE}
  /\ late \in 0..MaxLate
  /\ age \in [Nums -> Nat]

TimersInit ==
  /\ m_timers = [n \in Nums |-> NotRunning]
  /\ posted = FALSE
  /\ alarm = NONE
  /\ fired = FALSE
  /\ task = "none"
  /\ now = 0
  /\ seen = NONE
  /\ late = 0
  /\ age = [n \in Nums |-> 0]

-----------------------------------------------------------------------------
(* The arithmetic of uint32_t and int32_t. *)
elapsed(timer, at) == (at - timer.t0) % WRAP

(* Mutant: the remaining time is unsigned. *)
remainingUnsigned(timer, at) == (timer.dt - elapsed(timer, at)) % WRAP

remaining(timer, at) ==
  LET difference == (timer.dt - elapsed(timer, at)) % WRAP
  IN  IF difference > MAXINT THEN difference - WRAP ELSE difference

Running == {n \in Nums : m_timers[n].isrunning}

(* Mutant: the alarm is trusted to fire for a timer that is due. *)
dueTrusted(at) == Running

due(at) == {n \in Running : elapsed(m_timers[n], at) >= m_timers[n].dt}

(* What is left of a timer that fires. *)
firedTimer(n) ==
  IF m_timers[n].isoneshot
    THEN NotRunning
    ELSE [m_timers[n] EXCEPT !.t0 = (m_timers[n].t0 + m_timers[n].dt) % WRAP]

(* fireTimers up to the signal of fired(): the first timer that is due, no *)
(* other; the post of updateFromTimer follows the handler.                 *)
fireTimers(at) ==
  IF due(at) = {}
    THEN /\ task' = "none"
         /\ posted' = TRUE
         /\ UNCHANGED <<m_timers, age>>
    ELSE LET n == Min(due(at))
         IN  /\ m_timers' = [m_timers EXCEPT ![n] = firedTimer(n)]
             /\ age' = [age EXCEPT ![n] = IF m_timers[n].isoneshot THEN 0 ELSE @ - m_timers[n].dt]
             /\ task' = "handler"
             /\ UNCHANGED posted

HandlerReturns ==
  /\ task = "handler"
  /\ task' = "none"
  /\ posted' = TRUE
  /\ UNCHANGED <<m_timers, alarm, fired, now, seen, late, age>>

(* updateFromTimer reads the time ... *)
UpdateBegins ==
  /\ task = "none"
  /\ posted
  /\ posted' = FALSE
  /\ task' = "update"
  /\ seen' = now
  /\ UNCHANGED <<m_timers, alarm, fired, now, late, age>>

(* The timers that are nearer than min_remaining's initial value. *)
counted == {n \in Running : remaining(m_timers[n], seen) < MAXINT}

min_remaining == Min({remaining(m_timers[n], seen) : n \in counted})

(* ... stops TimerFrom, and then fires a timer that is due or starts       *)
(* TimerFrom for the nearest one, which may be due by now.                 *)
UpdateEnds ==
  /\ task = "update"
  /\ IF counted # {} /\ min_remaining <= 0
       THEN fireTimers(seen)
       ELSE task' = "none" /\ UNCHANGED <<m_timers, posted, age>>
  /\ alarm' = IF counted # {} /\ min_remaining > 0
                THEN Max({min_remaining - ((now - seen) % WRAP), 0}) ELSE NONE
  /\ seen' = NONE
  /\ late' = IF task' = "none" /\ ~posted' /\ ~fired THEN 0 ELSE late
  /\ UNCHANGED <<fired, now>>

TimerFromFired ==
  /\ task = "none"
  /\ fired
  /\ fired' = FALSE
  /\ fireTimers(now)
  /\ UNCHANGED <<alarm, now, seen, late>>

(* startOneShot, startPeriodic and, with t0 in the past, their -At forms.  *)
startTimer(n, past, dt, isoneshot) ==
  /\ task # "update"
  /\ m_timers' = [m_timers EXCEPT ![n] =
       [isrunning |-> TRUE, t0 |-> (now - past) % WRAP, dt |-> dt, isoneshot |-> isoneshot]]
  /\ age' = [age EXCEPT ![n] = past]
  /\ posted' = TRUE
  /\ UNCHANGED <<alarm, fired, task, now, seen, late>>

(* Timer.stop: TimerFrom is left to fire for nothing. *)
stopTimer(n) ==
  /\ task # "update"
  /\ m_timers' = [m_timers EXCEPT ![n] = NotRunning]
  /\ age' = [age EXCEPT ![n] = 0]
  /\ UNCHANGED <<posted, alarm, fired, task, now, seen, late>>

-----------------------------------------------------------------------------
(* Interrupts.                                                             *)

AlarmFires ==
  /\ alarm = 0
  /\ alarm' = NONE
  /\ fired' = TRUE
  /\ UNCHANGED <<m_timers, posted, task, now, seen, late, age>>

(* TimeSkew.skew. *)
Skew ==
  /\ ~posted
  /\ posted' = TRUE
  /\ UNCHANGED <<m_timers, alarm, fired, task, now, seen, late, age>>

busy == posted \/ fired \/ task # "none"

Tick ==
  /\ alarm # 0
  /\ busy => late < MaxLate
  /\ late' = IF busy THEN late + 1 ELSE 0
  /\ now' = (now + 1) % WRAP
  /\ alarm' = IF alarm = NONE THEN NONE ELSE alarm - 1
  /\ age' = [n \in Nums |-> IF n \in Running THEN age[n] + 1 ELSE 0]
  /\ UNCHANGED <<m_timers, posted, fired, task, seen>>

TimersNext ==
  \/ UpdateBegins \/ UpdateEnds \/ TimerFromFired \/ HandlerReturns
  \/ \E n \in Nums, past \in Pasts, dt \in Delays, isoneshot \in BOOLEAN :
       startTimer(n, past, dt, isoneshot)
  \/ \E n \in Running : stopTimer(n)
  \/ AlarmFires \/ Skew \/ Tick

TimersSpec == TimersInit /\ [][TimersNext]_timersVars

-----------------------------------------------------------------------------
(* Every timer fires on time: a timer that is running was started, or      *)
(* fired last, no longer ago than its dt, what the tasks take to run, and  *)
(* as much again if the alarm became due while they did                    *)
(* (fireTimers, updateFromTimer; Timer.nc: "The fired will be signaled     *)
(* when the timer expires", and the comment in updateFromTimer, "This code *)
(* supports a maximum dt of MAXINT").                                      *)
OnTime == \A n \in Running : age[n] <= m_timers[n].dt + 2 * MaxLate

(* No timer fires early, however often the clock wrapped: when a client is *)
(* signalled, one timer whose time has come is the only one touched        *)
(* (fireTimers and its break).                                             *)
NeverEarly ==
  [][task # "handler" /\ task' = "handler" =>
       \E n \in Running :
         /\ age[n] >= m_timers[n].dt
         /\ \A other \in Nums \ {n} : m_timers'[other] = m_timers[other]]_timersVars

(* A periodic timer loses no time and no event: what its record says with  *)
(* the clock is its age, counted from the times it was due, not from those *)
(* at which it fired.                                                      *)
AgeKnown == \A n \in Running : elapsed(m_timers[n], now) = age[n] % WRAP

(* Both, with the types. *)
TimersInv == TimersTypeOK /\ OnTime /\ AgeKnown
=============================================================================
