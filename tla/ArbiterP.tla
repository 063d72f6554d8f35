------------------------------ MODULE ArbiterP ------------------------------
(***************************************************************************)
(* The resource arbiter of TinyProd, tos/system/ArbiterP.nc, over a FCFS   *)
(* queue of waiting clients (FcfsArbiterC), as far as it does not depend   *)
(* on what its default owner does with the resource: a module that fixes   *)
(* the default owner extends this one and supplies the owner's handlers.   *)
(*                                                                         *)
(* The commands are async: interrupt handlers call them too, and preempt   *)
(* them between any two of their atomic sections.  `stack' holds the calls *)
(* in progress on the one processor, the running one last; a call is cut   *)
(* at the boundaries of its atomic sections and at the events it signals.  *)
(***************************************************************************)
EXTENDS Naturals, Sequences, FiniteSets, SequencesExt

CONSTANTS Clients,           \* the ids of Resource[id]
          default_owner_id,  \* the id of the default owner, no client's
          NO_RES,            \* 0xFF in the code
          MaxNest            \* bound: interrupt handlers nested in each other

ASSUME ArbiterAssumption ==
  /\ default_owner_id \notin Clients
  /\ NO_RES \notin Clients
  /\ default_owner_id # NO_RES
  /\ MaxNest \in Nat

VARIABLES
  state, resId, reqResId,  \* the variables of ArbiterP
  queue,                   \* ResourceQueue: the ids enqueued, oldest first
  granting,                \* grantedTask is posted and has not started
  stack,                   \* the calls in progress
  client,                  \* what each client believes of its hold on the resource
  configured,              \* the client the hardware is configured for, or NO_RES
  accepted                 \* history: the requests that returned SUCCESS and were
                           \* not granted yet, oldest first

avars == <<state, resId, reqResId, queue, granting, stack, client, configured, accepted>>

ArbStates == {"DEF_OWNED", "PREGRANT", "GRANTING", "IMM_GRANTING", "BUSY"}

(***************************************************************************)
(* "idle"     the client does not hold the resource                        *)
(* "trying"   it is inside immediateRequest                                *)
(* "owner"    it was signalled granted(), or immediateRequest succeeded    *)
(***************************************************************************)
ClientStates == {"idle", "trying", "owner"}

(* Where a call in progress stands: the next section of it to execute. *)
RequestPoints   == {"enqueue", "notify", "claim", "askOwner"}
ImmediatePoints == {"notifyImm", "take", "askOwnerImm", "check", "giveUp"}
GrantPoints     == {"grant", "configure", "signal"}

(* A frame: the calling client, where the call stands, and whether an      *)
(* interrupt handler made the call.                                        *)
Frames == [id : Clients \cup {NO_RES}, irq : BOOLEAN,
           at : RequestPoints \cup ImmediatePoints \cup GrantPoints]

ArbiterTypeOK ==
  /\ state \in ArbStates
  /\ resId \in Clients \cup {default_owner_id, NO_RES}
  /\ reqResId \in Clients \cup {NO_RES}
  /\ queue \in Seq(Clients)
  /\ granting \in BOOLEAN
  /\ stack \in Seq(Frames)
  /\ client \in [Clients -> ClientStates]
  /\ configured \in Clients \cup {NO_RES}
  /\ accepted \in Seq(Clients)

ArbiterInit ==
  /\ state = "DEF_OWNED"
  /\ resId = default_owner_id
  /\ reqResId = NO_RES
  /\ queue = <<>>
  /\ granting = FALSE
  /\ stack = <<>>
  /\ client = [c \in Clients |-> "idle"]
  /\ configured = NO_RES
  /\ accepted = <<>>

-----------------------------------------------------------------------------
(* The calls in progress.                                                  *)

Running(point) == stack # <<>> /\ stack[Len(stack)].at = point
Caller == stack[Len(stack)].id

Continue(point) == stack' = [stack EXCEPT ![Len(stack)].at = point]
ContinueNested(point, c) ==   \* with a call of c's in between
  stack' = Append([stack EXCEPT ![Len(stack)].at = point],
                  [id |-> c, irq |-> FALSE, at |-> "enqueue"])
Return == stack' = SubSeq(stack, 1, Len(stack) - 1)

Interrupts == {i \in 1..Len(stack) : stack[i].irq}

(* A call made by a task, when no call is in progress, or by the handler   *)
(* of an interrupt that preempts whatever is.                              *)
Call(c, point) ==
  \E irq \in BOOLEAN :
    /\ IF irq THEN Cardinality(Interrupts) < MaxNest ELSE stack = <<>>
    /\ stack' = Append(stack, [id |-> c, irq |-> irq, at |-> point])

-----------------------------------------------------------------------------
(* Mutant: the hardware is left configured for the client. *)
ReleaseConfigured(c, OwnerGranted, OwnerUnchanged) ==
  /\ state = "BUSY" /\ resId = c
  /\ IF queue = <<>>
       THEN /\ resId' = default_owner_id
            /\ state' = "DEF_OWNED"
            /\ OwnerGranted
            /\ UNCHANGED <<reqResId, queue, granting>>
       ELSE /\ reqResId' = Head(queue)
            /\ queue' = Tail(queue)
            /\ resId' = NO_RES
            /\ state' = "GRANTING"
            /\ granting' = TRUE
            /\ OwnerUnchanged
  /\ UNCHANGED configured

(* Mutant: the youngest request is served first. *)
ReleaseToLast(c, OwnerGranted, OwnerUnchanged) ==
  /\ state = "BUSY" /\ resId = c
  /\ configured' = NO_RES
  /\ IF queue = <<>>
       THEN /\ resId' = default_owner_id
            /\ state' = "DEF_OWNED"
            /\ OwnerGranted
            /\ UNCHANGED <<reqResId, queue, granting>>
       ELSE /\ reqResId' = Last(queue)
            /\ queue' = Front(queue)
            /\ resId' = NO_RES
            /\ state' = "GRANTING"
            /\ granting' = TRUE
            /\ OwnerUnchanged

(* Mutant: the grant task is not posted. *)
ReleaseUnposted(c, OwnerGranted, OwnerUnchanged) ==
  /\ state = "BUSY" /\ resId = c
  /\ configured' = NO_RES
  /\ IF queue = <<>>
       THEN /\ resId' = default_owner_id
            /\ state' = "DEF_OWNED"
            /\ OwnerGranted
            /\ UNCHANGED <<reqResId, queue>>
       ELSE /\ reqResId' = Head(queue)
            /\ queue' = Tail(queue)
            /\ resId' = NO_RES
            /\ state' = "GRANTING"
            /\ OwnerUnchanged
  /\ UNCHANGED granting

(* Resource.release[c] of a client that owns the resource; OwnerGranted is *)
(* the handler of ResourceDefaultOwner.granted, signalled inside the       *)
(* atomic section.  It leaves `stack' and `client' to the caller.          *)
ReleaseSection(c, OwnerGranted, OwnerUnchanged) ==
  /\ state = "BUSY" /\ resId = c
  /\ configured' = NO_RES
  /\ IF queue = <<>>
       THEN /\ resId' = default_owner_id
            /\ state' = "DEF_OWNED"
            /\ OwnerGranted
            /\ UNCHANGED <<reqResId, queue, granting>>
       ELSE /\ reqResId' = Head(queue)
            /\ queue' = Tail(queue)
            /\ resId' = NO_RES
            /\ state' = "GRANTING"
            /\ granting' = TRUE
            /\ OwnerUnchanged

(* Mutant: a release is heard only once the grant is under way. *)
OwnerReleaseLate ==
  IF resId = default_owner_id /\ state = "GRANTING"
    THEN /\ granting' = TRUE
         /\ UNCHANGED <<state, resId, reqResId>>
    ELSE IF resId = default_owner_id /\ state = "IMM_GRANTING"
    THEN /\ resId' = reqResId
         /\ reqResId' = NO_RES
         /\ state' = "BUSY"
         /\ UNCHANGED granting
    ELSE UNCHANGED <<state, resId, reqResId, granting>>

(* ResourceDefaultOwner.release, the default owner letting go. *)
OwnerRelease ==
  IF resId = default_owner_id /\ state \in {"GRANTING", "PREGRANT"}
    THEN /\ state' = "GRANTING"
         /\ granting' = TRUE
         /\ UNCHANGED <<resId, reqResId>>
    ELSE IF resId = default_owner_id /\ state = "IMM_GRANTING"
    THEN /\ resId' = reqResId
         /\ reqResId' = NO_RES
         /\ state' = "BUSY"
         /\ UNCHANGED granting
    ELSE UNCHANGED <<state, resId, reqResId, granting>>

(* What OwnerRelease returns. *)
OwnerReleaseSucceeds ==
  resId = default_owner_id /\ state \in {"GRANTING", "PREGRANT", "IMM_GRANTING"}

-----------------------------------------------------------------------------
(* Resource.request                                                        *)

CallRequest(c) ==
  /\ client[c] = "idle"
  /\ Call(c, "enqueue")
  /\ UNCHANGED <<state, resId, reqResId, queue, granting, client, configured, accepted>>

(* The first atomic section: EBUSY if the client is next to be granted or  *)
(* already enqueued, else the request is accepted.                         *)
Enqueue ==
  /\ Running("enqueue")
  /\ IF reqResId = Caller \/ Contains(queue, Caller)
       THEN Return /\ UNCHANGED <<queue, accepted>>
       ELSE /\ queue' = Append(queue, Caller)
            /\ accepted' = Append(accepted, Caller)
            /\ Continue("notify")
  /\ UNCHANGED <<state, resId, reqResId, granting, client, configured>>

(* signal ResourceRequested.requested[resId](), or immediateRequested: the *)
(* current owner may ignore it, release the resource, or release it and    *)
(* request it again behind the caller (the header of ArbiterP.nc).         *)
Notify(point, next, OwnerGranted, OwnerUnchanged) ==
  /\ Running(point)
  /\ \/ /\ Continue(next)
        /\ UNCHANGED <<state, resId, reqResId, queue, granting, client, configured>>
        /\ OwnerUnchanged
     \/ /\ resId \in Clients
        /\ client[resId] = "owner"
        /\ ReleaseSection(resId, OwnerGranted, OwnerUnchanged)
        /\ client' = [client EXCEPT ![resId] = "idle"]
        /\ Continue(next) \/ ContinueNested(next, resId)
  /\ UNCHANGED accepted

(* Mutant: the request claims the resource for its own client. *)
ClaimForCaller ==
  /\ Running("claim")
  /\ IF state # "DEF_OWNED"
       THEN Return /\ UNCHANGED <<state, reqResId, queue>>
       ELSE /\ state' = "PREGRANT"
            /\ reqResId' = Caller
            /\ queue' = IF queue = <<>> THEN queue ELSE Tail(queue)
            /\ Continue("askOwner")
  /\ UNCHANGED <<resId, granting, client, configured, accepted>>

(* Mutant: the owner is recorded as the next to be granted. *)
ClaimForOwner ==
  /\ Running("claim")
  /\ IF state # "DEF_OWNED"
       THEN Return /\ UNCHANGED <<state, reqResId, queue>>
       ELSE /\ state' = "PREGRANT"
            /\ reqResId' = resId
            /\ queue' = IF queue = <<>> THEN queue ELSE Tail(queue)
            /\ Continue("askOwner")
  /\ UNCHANGED <<resId, granting, client, configured, accepted>>

(* The second atomic section: a request that finds the resource with the   *)
(* default owner takes the next client from the queue, not always its own. *)
Claim ==
  /\ Running("claim")
  /\ IF state # "DEF_OWNED"
       THEN Return /\ UNCHANGED <<state, reqResId, queue>>
       ELSE /\ state' = "PREGRANT"
            /\ reqResId' = IF queue = <<>> THEN NO_RES ELSE Head(queue)
            /\ queue' = IF queue = <<>> THEN queue ELSE Tail(queue)
            /\ Continue("askOwner")
  /\ UNCHANGED <<resId, granting, client, configured, accepted>>

(* signal ResourceDefaultOwner.requested(), then return SUCCESS. *)
AskOwner(OwnerRequested) ==
  /\ Running("askOwner")
  /\ OwnerRequested
  /\ Return
  /\ UNCHANGED <<queue, client, configured, accepted>>

-----------------------------------------------------------------------------
(* Resource.immediateRequest                                               *)

CallImmediate(c) ==
  /\ client[c] = "idle"
  /\ ~Contains(accepted, c)
  /\ \A i \in 1..Len(stack) : stack[i].id # c
  /\ Call(c, "notifyImm")
  /\ client' = [client EXCEPT ![c] = "trying"]
  /\ UNCHANGED <<state, resId, reqResId, queue, granting, configured, accepted>>

Fail == Return /\ client' = [client EXCEPT ![Caller] = "idle"]

(* Mutant: the resource is taken from whoever has it. *)
TakeUntested ==
  /\ Running("take")
  /\ state' = "IMM_GRANTING"
  /\ reqResId' = Caller
  /\ Continue("askOwnerImm")
  /\ UNCHANGED <<resId, queue, granting, client, configured, accepted>>

Take ==
  /\ Running("take")
  /\ IF state # "DEF_OWNED"
       THEN Fail /\ UNCHANGED <<state, reqResId>>
       ELSE /\ state' = "IMM_GRANTING"
            /\ reqResId' = Caller
            /\ Continue("askOwnerImm")
            /\ UNCHANGED client
  /\ UNCHANGED <<resId, queue, granting, configured, accepted>>

(* signal ResourceDefaultOwner.immediateRequested(). *)
AskOwnerImm(OwnerImmediateRequested) ==
  /\ Running("askOwnerImm")
  /\ OwnerImmediateRequested
  /\ Continue("check")
  /\ UNCHANGED <<queue, client, configured, accepted>>

Check ==
  /\ Running("check")
  /\ IF resId = Caller
       THEN /\ configured' = resId
            /\ client' = [client EXCEPT ![Caller] = "owner"]
            /\ Return
       ELSE Continue("giveUp") /\ UNCHANGED <<configured, client>>
  /\ UNCHANGED <<state, resId, reqResId, queue, granting, accepted>>

(* The default owner kept the resource: force DEF_OWNED, return FAIL. *)
GiveUp ==
  /\ Running("giveUp")
  /\ state' = "DEF_OWNED"
  /\ Fail
  /\ UNCHANGED <<resId, reqResId, queue, granting, configured, accepted>>

-----------------------------------------------------------------------------
(* grantedTask: a task, so it starts only when no call is in progress.     *)

StartGranted ==
  /\ granting
  /\ stack = <<>>
  /\ granting' = FALSE
  /\ stack' = <<[id |-> NO_RES, irq |-> FALSE, at |-> "grant"]>>
  /\ UNCHANGED <<state, resId, reqResId, queue, client, configured, accepted>>

(* Mutant: the client granted is still next to be granted. *)
GrantUncleared ==
  /\ Running("grant")
  /\ resId' = reqResId
  /\ state' = "BUSY"
  /\ Continue("configure")
  /\ UNCHANGED <<reqResId, queue, granting, client, configured, accepted>>

Grant ==
  /\ Running("grant")
  /\ resId' = reqResId
  /\ reqResId' = NO_RES
  /\ state' = "BUSY"
  /\ Continue("configure")
  /\ UNCHANGED <<queue, granting, client, configured, accepted>>

(* ResourceConfigure.configure[resId], with resId as it is by now. *)
Configure ==
  /\ Running("configure")
  /\ configured' = IF resId \in Clients THEN resId ELSE configured
  /\ Continue("signal")
  /\ UNCHANGED <<state, resId, reqResId, queue, granting, client, accepted>>

(* signal Resource.granted[resId](), with resId as it is by now. *)
SignalGranted ==
  /\ Running("signal")
  /\ IF resId \in Clients
       THEN /\ client' = [client EXCEPT ![resId] = "owner"]
            /\ accepted' = IF accepted = <<>> THEN accepted ELSE Tail(accepted)
       ELSE UNCHANGED <<client, accepted>>
  /\ Return
  /\ UNCHANGED <<state, resId, reqResId, queue, granting, configured>>

-----------------------------------------------------------------------------
(* Resource.release[c] by the client that owns the resource, from a task   *)
(* or from an interrupt handler.                                           *)
Release(c, OwnerGranted, OwnerUnchanged) ==
  /\ client[c] = "owner"
  /\ stack = <<>> \/ Cardinality(Interrupts) < MaxNest
  /\ ReleaseSection(c, OwnerGranted, OwnerUnchanged)
  /\ client' = [client EXCEPT ![c] = "idle"]
  /\ UNCHANGED <<stack, accepted>>

-----------------------------------------------------------------------------
(* A step of the call that is running, given the default owner's handlers  *)
(* of requested(), immediateRequested() and granted(); OwnerUnchanged is   *)
(* said of the steps that do not signal it.                                *)
RunningCall(OwnerRequested, OwnerImmediateRequested, OwnerGranted, OwnerUnchanged) ==
  \/ Enqueue /\ OwnerUnchanged
  \/ Notify("notify", "claim", OwnerGranted, OwnerUnchanged)
  \/ Claim /\ OwnerUnchanged
  \/ AskOwner(OwnerRequested)
  \/ Notify("notifyImm", "take", OwnerGranted, OwnerUnchanged)
  \/ Take /\ OwnerUnchanged
  \/ AskOwnerImm(OwnerImmediateRequested)
  \/ Check /\ OwnerUnchanged
  \/ GiveUp /\ OwnerUnchanged
  \/ Grant /\ OwnerUnchanged
  \/ Configure /\ OwnerUnchanged
  \/ SignalGranted /\ OwnerUnchanged
=============================================================================
