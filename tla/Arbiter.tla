------------------------------ MODULE Arbiter -------------------------------
(***************************************************************************)
(* ArbiterP with any default owner that keeps to the contract of           *)
(* ResourceDefaultOwner.nc: asked for the resource it releases it in the   *)
(* event handler or owes the release and does it later; asked for it       *)
(* immediately it releases it in the handler or, if OwnerMayRefuse, keeps  *)
(* it.  The power managers of tos/lib/power are such owners, and so are    *)
(* the default handlers of ArbiterP.nc, which release at once.             *)
(***************************************************************************)
EXTENDS ArbiterP

CONSTANTS OwnerMayDefer,   \* requested() may leave the release for later
          OwnerMayRefuse   \* immediateRequested() may keep the resource

ASSUME OwnerAssumption == OwnerMayDefer \in BOOLEAN /\ OwnerMayRefuse \in BOOLEAN

VARIABLES
  ownerOwes,   \* the default owner was asked for the resource and owes a release
  ownerHolds   \* the default owner has the hardware, as far as it was told

ownerVars == <<ownerOwes, ownerHolds>>
vars == <<avars, ownerVars>>

TypeOK == ArbiterTypeOK /\ ownerOwes \in BOOLEAN /\ ownerHolds \in BOOLEAN

Init == ArbiterInit /\ ownerOwes = FALSE /\ ownerHolds = TRUE

-----------------------------------------------------------------------------
(* The handlers of the default owner.                                      *)

OwnerLetsGo ==
  /\ OwnerRelease
  /\ ownerOwes' = FALSE
  /\ ownerHolds' = ~OwnerReleaseSucceeds

OwnerKeeps(owes) ==
  /\ ownerOwes' = owes
  /\ UNCHANGED <<state, resId, reqResId, granting, ownerHolds>>

OwnerRequested ==
  \/ OwnerLetsGo
  \/ OwnerMayDefer /\ OwnerKeeps(TRUE)

OwnerImmediateRequested ==
  \/ OwnerLetsGo
  \/ OwnerMayRefuse /\ OwnerKeeps(ownerOwes)

OwnerGranted == ownerHolds' = TRUE /\ UNCHANGED ownerOwes

(* The default owner releases the resource it was asked for earlier. *)
DeferredRelease ==
  /\ ownerOwes
  /\ OwnerLetsGo
  /\ UNCHANGED <<queue, stack, client, configured, accepted>>

-----------------------------------------------------------------------------
RunCall ==
  RunningCall(OwnerRequested, OwnerImmediateRequested, OwnerGranted, UNCHANGED ownerVars)

RunGrantedTask == StartGranted /\ UNCHANGED ownerVars

ClientReleases(c) == Release(c, OwnerGranted, UNCHANGED ownerVars)

ClientCalls(c) == (CallRequest(c) \/ CallImmediate(c)) /\ UNCHANGED ownerVars

Next ==
  \/ RunCall
  \/ RunGrantedTask
  \/ DeferredRelease
  \/ \E c \in Clients : ClientReleases(c) \/ ClientCalls(c)

Spec == Init /\ [][Next]_vars

(***************************************************************************)
(* Calls return: the running one makes progress, and the interrupts that   *)
(* preempt a call, at whatever depth, leave it time to run.  The scheduler *)
(* runs posted tasks; a client that was granted the resource releases it,  *)
(* and the default owner gives up what it owes.                            *)
(***************************************************************************)
FairSpec ==
  /\ Spec
  /\ \A depth \in 0..MaxNest : SF_vars(RunCall /\ Cardinality(Interrupts) = depth)
  /\ SF_vars(RunGrantedTask)
  /\ WF_vars(DeferredRelease)
  /\ \A c \in Clients : SF_vars(ClientReleases(c))

-----------------------------------------------------------------------------
At(points) == \E i \in 1..Len(stack) : stack[i].at \in points

(* A client that was told it has the resource has it: the arbiter is BUSY  *)
(* for it, the hardware is configured for it, and no other client holds    *)
(* it (granted, immediateRequest, release of ArbiterP.nc).                 *)
ExclusiveUse ==
  \A c \in Clients : client[c] = "owner" => state = "BUSY" /\ resId = c /\ configured = c

(* The client being granted, between grantedTask's section and granted(). *)
Granted == IF At({"configure", "signal"}) THEN <<resId>> ELSE <<>>
(* The client next to be granted, once the default owner lets go. *)
NextUp == IF state \in {"PREGRANT", "GRANTING"} THEN <<reqResId>> ELSE <<>>

(* No accepted request is lost, duplicated or overtaken on its way through *)
(* the queue, reqResId and grantedTask: the three together hold exactly    *)
(* the accepted requests that were not granted, in the order of acceptance.*)
AcceptedInOrder == accepted = Granted \o NextUp \o queue

(* The arbiter never hangs: whenever a request was accepted and not        *)
(* granted, some party is about to move it on - a call in progress, the    *)
(* grant task, the default owner, or the client that must release.         *)
NeverHangs ==
  accepted # <<>> =>
    CASE state = "DEF_OWNED"    -> At({"notify", "claim"})
      [] state = "PREGRANT"     -> At({"askOwner"}) \/ ownerOwes
      [] state = "GRANTING"     -> granting \/ At({"grant"})
      [] state = "IMM_GRANTING" -> At({"askOwnerImm", "check", "giveUp"})
      [] state = "BUSY"         -> \/ client[resId] = "owner"
                                   \/ At({"configure", "signal", "check"})

(* The hardware changes hands cleanly: while the default owner has it, no  *)
(* client owns it and none is configured; ResourceDefaultOwner.granted is  *)
(* signalled after unconfigure (Resource.release).                         *)
OwnerUndisturbed ==
  ownerHolds => configured = NO_RES /\ \A c \in Clients : client[c] # "owner"

(* A request is refused only if an earlier one of the same client was      *)
(* accepted and not granted (Resource.nc: "EBUSY You have already          *)
(* requested this resource and a granted event is pending").               *)
RefusedOnlyIfPending ==
  [][\A c \in Clients :
       Running("enqueue") /\ Caller = c /\ Len(stack') < Len(stack)
         => Contains(accepted, c)]_vars

(* The arbiter is a first come, first served lock. *)
holder == IF \E c \in Clients : client[c] = "owner"
            THEN CHOOSE c \in Clients : client[c] = "owner" ELSE NO_RES
Abstract == INSTANCE ResourceLock WITH NONE <- NO_RES, waiting <- accepted
RefinesResourceLock == Abstract!Spec

(* Every accepted request is granted: granted() is signalled to the client.*)
EveryRequestGranted ==
  \A c \in Clients : Contains(accepted, c) ~> client[c] = "owner"
=============================================================================
