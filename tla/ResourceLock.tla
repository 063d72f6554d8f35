---------------------------- MODULE ResourceLock ----------------------------
(***************************************************************************)
(* What a FCFS arbiter promises its clients (TEP 108 and Resource.nc): at  *)
(* most one client holds the resource, accepted requests are granted in    *)
(* the order they were accepted, and the client that gives the resource up *)
(* does not get it back ahead of those already waiting.                    *)
(***************************************************************************)
EXTENDS Sequences

CONSTANTS Clients, NONE   \* NONE: no client

VARIABLES holder,         \* the client that holds the resource, or NONE
          waiting         \* the requests accepted and not granted, oldest first

lvars == <<holder, waiting>>

Init == holder = NONE /\ waiting = <<>>

Accept(c) ==
  /\ c # holder
  /\ waiting' = Append(waiting, c)
  /\ UNCHANGED holder

(* granted() to the oldest of the waiting requests. *)
Grant ==
  /\ holder = NONE
  /\ waiting # <<>>
  /\ holder' = Head(waiting)
  /\ waiting' = Tail(waiting)

(* immediateRequest succeeds: the resource is free at this very moment. *)
GrantNow(c) ==
  /\ holder = NONE
  /\ holder' = c
  /\ UNCHANGED waiting

GiveUp ==
  /\ holder # NONE
  /\ holder' = NONE
  /\ UNCHANGED waiting

Next == Grant \/ GiveUp \/ \E c \in Clients : Accept(c) \/ GrantNow(c)

Spec == Init /\ [][Next]_lvars
=============================================================================
