------------------------- MODULE AsyncPoweredProofs -------------------------
(***************************************************************************)
(* For every set of clients and every nesting of interrupts: an arbiter    *)
(* with an asynchronous power manager is an arbiter with a default owner   *)
(* that keeps to its contract, so that what ArbiterProofs proves of the    *)
(* latter holds of it; and whoever owns the resource finds the device on.  *)
(***************************************************************************)
EXTENDS AsyncPoweredArbiter, TLAPS

A ==
  INSTANCE ArbiterProofs WITH
    OwnerMayDefer  <- FALSE,
    OwnerMayRefuse <- FALSE,
    ownerOwes  <- FALSE,
    ownerHolds <- Holds

LEMMA Assumptions == A!ArbiterAssumption /\ A!OwnerAssumption
  BY ArbiterAssumption DEF A!ArbiterAssumption, A!OwnerAssumption

-----------------------------------------------------------------------------
(* The text of the arbiter is one, whoever its default owner is. *)
LEMMA SameCalls ==
  /\ \A c : A!CallRequest(c) <=> CallRequest(c)
  /\ \A c : A!CallImmediate(c) <=> CallImmediate(c)
  /\ A!Enqueue <=> Enqueue
  /\ A!Claim <=> Claim
  /\ A!Take <=> Take
  /\ A!Check <=> Check
  /\ A!GiveUp <=> GiveUp
  /\ A!Grant <=> Grant
  /\ A!Configure <=> Configure
  /\ A!SignalGranted <=> SignalGranted
  /\ A!StartGranted <=> StartGranted
  /\ A!OwnerRelease <=> OwnerRelease
  /\ A!OwnerReleaseSucceeds <=> OwnerReleaseSucceeds
<1>1. \A c : A!CallRequest(c) <=> CallRequest(c)
  BY DEF A!CallRequest, A!Call, A!Interrupts, A!Cardinality, Cardinality, CallRequest, Call,
     Interrupts
<1>2. \A c : A!CallImmediate(c) <=> CallImmediate(c)
  BY DEF A!CallImmediate, A!Call, A!Interrupts, A!Cardinality, Cardinality, A!Contains,
     Contains, CallImmediate, Call, Interrupts
<1>3. A!Enqueue <=> Enqueue
  BY DEF A!Enqueue, A!Running, A!Caller, A!Continue, A!Return, A!Contains, Contains,
     Enqueue, Running, Caller, Continue, Return
<1>4. A!Claim <=> Claim
  BY DEF A!Claim, A!Running, A!Continue, A!Return, Claim, Running, Continue, Return
<1>5. A!Take <=> Take
  BY DEF A!Take, A!Running, A!Caller, A!Continue, A!Return, A!Fail, Take, Running, Caller,
     Continue, Return, Fail
<1>6. A!Check <=> Check
  BY DEF A!Check, A!Running, A!Caller, A!Continue, A!Return, Check, Running, Caller,
     Continue, Return
<1>7. A!GiveUp <=> GiveUp
  BY DEF A!GiveUp, A!Running, A!Caller, A!Return, A!Fail, GiveUp, Running, Caller, Return, Fail
<1>8. A!Grant <=> Grant
  BY DEF A!Grant, A!Running, A!Continue, Grant, Running, Continue
<1>9. A!Configure <=> Configure
  BY DEF A!Configure, A!Running, A!Continue, Configure, Running, Continue
<1>10. A!SignalGranted <=> SignalGranted
  BY DEF A!SignalGranted, A!Running, A!Return, SignalGranted, Running, Return
<1>11. A!StartGranted <=> StartGranted
  BY DEF A!StartGranted, StartGranted
<1>12. A!OwnerRelease <=> OwnerRelease
  BY DEF A!OwnerRelease, OwnerRelease
<1>13. A!OwnerReleaseSucceeds <=> OwnerReleaseSucceeds
  BY DEF A!OwnerReleaseSucceeds, OwnerReleaseSucceeds
<1>. QED
  BY <1>1, <1>2, <1>3, <1>4, <1>5, <1>6, <1>7, <1>8, <1>9, <1>10, <1>11, <1>12, <1>13

(* A release by the client that owns the resource. *)
LEMMA ReleaseMaps ==
  ASSUME NEW c, ReleaseSection(c, OwnerGranted, Unchanged)
  PROVE  A!ReleaseSection(c, A!OwnerGranted, UNCHANGED A!ownerVars)
<1>1. CASE queue = <<>>
  BY <1>1 DEF ReleaseSection, A!ReleaseSection, A!OwnerGranted, Holds
<1>2. CASE queue # <<>>
  <2>1. UNCHANGED Holds
    BY <1>2 DEF ReleaseSection, Holds
  <2>. QED
    BY <1>2, <2>1 DEF ReleaseSection, A!ReleaseSection, A!ownerVars
<1>. QED
  BY <1>1, <1>2

(* The current owner hears of a request. *)
LEMMA NotifyMaps ==
  ASSUME NEW point, NEW next, Notify(point, next, OwnerGranted, Unchanged)
  PROVE  A!Notify(point, next, A!OwnerGranted, UNCHANGED A!ownerVars)
<1>1. CASE UNCHANGED state /\ Continue(next)
           /\ UNCHANGED <<state, resId, reqResId, queue, granting, client, configured>>
  <2>1. UNCHANGED A!ownerVars
    BY <1>1 DEF A!ownerVars, Holds
  <2>. QED
    BY <1>1, <2>1 DEF Notify, A!Notify, Running, A!Running, Continue, A!Continue
<1>2. CASE /\ resId \in Clients
           /\ client[resId] = "owner"
           /\ ReleaseSection(resId, OwnerGranted, Unchanged)
           /\ client' = [client EXCEPT ![resId] = "idle"]
           /\ Continue(next) \/ ContinueNested(next, resId)
  <2>1. A!ReleaseSection(resId, A!OwnerGranted, UNCHANGED A!ownerVars)
    BY <1>2, ReleaseMaps
  <2>. QED
    BY <1>2, <2>1 DEF Notify, A!Notify, Running, A!Running, Continue, A!Continue,
       ContinueNested, A!ContinueNested
<1>. QED
  BY <1>1, <1>2 DEF Notify

(* What the invariant of ArbiterProofs says of the running call. *)
LEMMA RunningIs ==
  ASSUME A!IndInv, stack # <<>>
  PROVE  /\ Running("askOwner") => state = "PREGRANT" /\ resId = default_owner_id
         /\ Running("askOwnerImm") => state = "IMM_GRANTING" /\ resId = default_owner_id
         /\ ~Running("giveUp")
         /\ Running("grant") => state = "GRANTING"
<1>1. Len(stack) \in 1..Len(stack)
  BY DEF A!IndInv, A!TypeOK, A!ArbiterTypeOK
<1>2. ASSUME NEW point, Running(point)
      PROVE  A!At({point}) /\ stack[Len(stack)].at = point
  BY <1>1, <1>2 DEF A!At, Running
<1>3. Running("askOwner") => state = "PREGRANT" /\ resId = default_owner_id
  BY <1>2 DEF A!IndInv, A!StateMatchesCalls
<1>4. Running("askOwnerImm") => state = "IMM_GRANTING" /\ resId = default_owner_id
  <2>1. Running("askOwnerImm") => state = "IMM_GRANTING"
    BY <1>1 DEF A!IndInv, A!StateMatchesHanding, Running
  <2>. QED
    BY <2>1 DEF A!IndInv, A!StateMatchesCalls
<1>5. ~Running("giveUp")
  BY <1>1, <1>2 DEF A!IndInv, A!StateMatchesHanding
<1>6. Running("grant") => state = "GRANTING"
  BY <1>2 DEF A!IndInv, A!StateMatchesCalls
<1>. QED
  BY <1>3, <1>4, <1>5, <1>6

(* The power manager lets the resource go in its handler. *)
LEMMA OwnerMaps ==
  ASSUME state \in {"PREGRANT", "IMM_GRANTING"}, resId = default_owner_id, OwnerRequested
  PROVE  A!OwnerLetsGo
<1>1. OwnerRelease /\ Holds' = ~OwnerReleaseSucceeds
  BY DEF OwnerRequested, OwnerRelease, OwnerReleaseSucceeds, Holds
<1>. QED
  BY <1>1, SameCalls DEF A!OwnerLetsGo, A!OwnerReleaseSucceeds, OwnerReleaseSucceeds

-----------------------------------------------------------------------------
(* Each step of the arbiter with its power manager is one of the arbiter   *)
(* with some default owner, or a stutter.                                  *)
LEMMA RunCallMaps ==
  ASSUME A!IndInv, RunCall
  PROVE  A!RunCall
<1>1. CASE Enqueue /\ Unchanged
  <2>1. UNCHANGED A!ownerVars
    BY <1>1 DEF Enqueue, A!ownerVars, Holds
  <2>. QED
    BY <1>1, <2>1, SameCalls DEF A!RunCall, A!RunningCall
<1>2. CASE Notify("notify", "claim", OwnerGranted, Unchanged)
  BY <1>2, NotifyMaps DEF A!RunCall, A!RunningCall
<1>3. CASE Claim /\ Unchanged
  <2>1. UNCHANGED A!ownerVars
    BY <1>3 DEF Claim, A!ownerVars, Holds
  <2>. QED
    BY <1>3, <2>1, SameCalls DEF A!RunCall, A!RunningCall
<1>4. CASE AskOwner(OwnerRequested)
  <2>1. A!OwnerRequested
    BY <1>4, RunningIs, OwnerMaps DEF AskOwner, Running, A!OwnerRequested
  <2>2. A!AskOwner(A!OwnerRequested)
    BY <1>4, <2>1 DEF AskOwner, A!AskOwner, Running, A!Running, Return, A!Return
  <2>. QED
    BY <2>2 DEF A!RunCall, A!RunningCall
<1>5. CASE Notify("notifyImm", "take", OwnerGranted, Unchanged)
  BY <1>5, NotifyMaps DEF A!RunCall, A!RunningCall
<1>6. CASE Take /\ Unchanged
  <2>1. UNCHANGED A!ownerVars
    BY <1>6 DEF Take, A!ownerVars, Holds
  <2>. QED
    BY <1>6, <2>1, SameCalls DEF A!RunCall, A!RunningCall
<1>7. CASE AskOwnerImm(OwnerRequested)
  <2>1. A!OwnerImmediateRequested
    BY <1>7, RunningIs, OwnerMaps DEF AskOwnerImm, Running, A!OwnerImmediateRequested
  <2>2. A!AskOwnerImm(A!OwnerImmediateRequested)
    BY <1>7, <2>1 DEF AskOwnerImm, A!AskOwnerImm, Running, A!Running, Continue, A!Continue
  <2>. QED
    BY <2>2 DEF A!RunCall, A!RunningCall
<1>8. CASE Check /\ Unchanged
  <2>1. UNCHANGED A!ownerVars
    BY <1>8 DEF Check, A!ownerVars, Holds
  <2>. QED
    BY <1>8, <2>1, SameCalls DEF A!RunCall, A!RunningCall
<1>9. CASE GiveUp /\ Unchanged
  BY <1>9, RunningIs DEF GiveUp, Running
<1>10. CASE Grant /\ Unchanged
  <2>1. UNCHANGED A!ownerVars
    BY <1>10, RunningIs DEF Grant, Running, A!ownerVars, Holds
  <2>. QED
    BY <1>10, <2>1, SameCalls DEF A!RunCall, A!RunningCall
<1>11. CASE Configure /\ Unchanged
  <2>1. UNCHANGED A!ownerVars
    BY <1>11 DEF Configure, A!ownerVars, Holds
  <2>. QED
    BY <1>11, <2>1, SameCalls DEF A!RunCall, A!RunningCall
<1>12. CASE SignalGranted /\ Unchanged
  <2>1. UNCHANGED A!ownerVars
    BY <1>12 DEF SignalGranted, A!ownerVars, Holds
  <2>. QED
    BY <1>12, <2>1, SameCalls DEF A!RunCall, A!RunningCall
<1>. QED
  BY <1>1, <1>2, <1>3, <1>4, <1>5, <1>6, <1>7, <1>8, <1>9, <1>10, <1>11, <1>12
     DEF RunCall, RunningCall

LEMMA StepMaps ==
  ASSUME A!IndInv, [Next]_vars
  PROVE  [A!Next]_(A!vars)
<1>1. CASE RunCall
  BY <1>1, RunCallMaps DEF A!Next
<1>2. CASE RunGrantedTask
  <2>1. StartGranted /\ UNCHANGED A!ownerVars
    BY <1>2 DEF RunGrantedTask, StartGranted, A!ownerVars, Holds
  <2>. QED
    BY <2>1, SameCalls DEF A!RunGrantedTask, A!Next
<1>3. CASE PowerStep
  BY <1>3 DEF PowerStep, stopTimerTask, clear, timerTask, startOneShot, fired, stop,
     avars, A!vars, A!avars, A!ownerVars, Holds
<1>4. ASSUME NEW c \in Clients, ClientReleases(c)
      PROVE  A!Next
  <2>1. Release(c, OwnerGranted, Unchanged)
    BY <1>4 DEF ClientReleases
  <2>2. A!ReleaseSection(c, A!OwnerGranted, UNCHANGED A!ownerVars)
    BY <2>1, ReleaseMaps DEF Release
  <2>3. A!ClientReleases(c)
    BY <2>1, <2>2 DEF Release, A!Release, A!ClientReleases, Interrupts, A!Interrupts,
       Cardinality, A!Cardinality
  <2>. QED
    BY <2>3 DEF A!Next
<1>5. ASSUME NEW c \in Clients, ClientCalls(c)
      PROVE  A!Next
  <2>1. UNCHANGED A!ownerVars
    BY <1>5 DEF ClientCalls, CallRequest, CallImmediate, A!ownerVars, Holds
  <2>2. A!ClientCalls(c)
    BY <1>5, <2>1, SameCalls DEF ClientCalls, A!ClientCalls
  <2>. QED
    BY <2>2 DEF A!Next
<1>6. CASE UNCHANGED vars
  BY <1>6 DEF vars, avars, A!vars, A!avars, A!ownerVars, Holds
<1>. QED
  BY <1>1, <1>2, <1>3, <1>4, <1>5, <1>6 DEF Next

LEMMA SpecMaps == Spec => A!Spec /\ []A!IndInv
<1>1. Init => A!Init
  BY DEF Init, A!Init, ArbiterInit, A!ArbiterInit, Holds
<1>2. A!Init => A!IndInv
  BY Assumptions, A!InitIndInv
<1>3. A!IndInv /\ [A!Next]_(A!vars) => A!IndInv'
  BY Assumptions, A!NextIndInv
<1>4. A!IndInv /\ [Next]_vars => [A!Next]_(A!vars)
  BY StepMaps
<1>. QED
  BY <1>1, <1>2, <1>3, <1>4, PTL DEF Spec, A!Spec

(* With an asynchronous power manager, each client told that it has the    *)
(* resource is the only one to have it, and the hardware is configured for *)
(* it.                                                                     *)
THEOREM AsyncExclusive == Spec => []A!ExclusiveUse
  BY SpecMaps, Assumptions, A!ArbiterExclusive, PTL

(* The two ways to name the arbiter, for the proofs and for the runs. *)
LEMMA OneArbiter ==
  /\ \A c : A!CallRequest(c) <=> Generic!CallRequest(c)
  /\ \A c : A!CallImmediate(c) <=> Generic!CallImmediate(c)
  /\ A!Enqueue <=> Generic!Enqueue
  /\ A!Claim <=> Generic!Claim
  /\ A!Take <=> Generic!Take
  /\ A!Check <=> Generic!Check
  /\ A!GiveUp <=> Generic!GiveUp
  /\ A!Grant <=> Generic!Grant
  /\ A!Configure <=> Generic!Configure
  /\ A!SignalGranted <=> Generic!SignalGranted
  /\ A!StartGranted <=> Generic!StartGranted
  /\ A!OwnerLetsGo <=> Generic!OwnerLetsGo
  /\ A!Notify("notify", "claim", A!OwnerGranted, UNCHANGED A!ownerVars)
       <=> Generic!Notify("notify", "claim", Generic!OwnerGranted, UNCHANGED Generic!ownerVars)
  /\ A!Notify("notifyImm", "take", A!OwnerGranted, UNCHANGED A!ownerVars)
       <=> Generic!Notify("notifyImm", "take", Generic!OwnerGranted, UNCHANGED Generic!ownerVars)
  /\ A!AskOwner(A!OwnerRequested) <=> Generic!AskOwner(Generic!OwnerRequested)
  /\ A!AskOwnerImm(A!OwnerImmediateRequested) <=> Generic!AskOwnerImm(Generic!OwnerImmediateRequested)
  /\ A!DeferredRelease <=> Generic!DeferredRelease
  /\ \A c : A!ClientReleases(c) <=> Generic!ClientReleases(c)
<1>1. \A c : A!CallRequest(c) <=> Generic!CallRequest(c)
  BY DEF A!CallRequest, Generic!CallRequest, A!Call, Generic!Call, A!Interrupts,
     Generic!Interrupts, A!Cardinality, Generic!Cardinality
<1>2. \A c : A!CallImmediate(c) <=> Generic!CallImmediate(c)
  BY DEF A!CallImmediate, Generic!CallImmediate, A!Call, Generic!Call, A!Interrupts,
     Generic!Interrupts, A!Cardinality, Generic!Cardinality, A!Contains, Generic!Contains
<1>3. A!Enqueue <=> Generic!Enqueue
  BY DEF A!Enqueue, Generic!Enqueue, A!Running, Generic!Running, A!Caller, Generic!Caller,
     A!Continue, Generic!Continue, A!Return, Generic!Return, A!Contains, Generic!Contains
<1>4. A!Claim <=> Generic!Claim
  BY DEF A!Claim, Generic!Claim, A!Running, Generic!Running, A!Continue, Generic!Continue,
     A!Return, Generic!Return
<1>5. A!Take <=> Generic!Take
  BY DEF A!Take, Generic!Take, A!Running, Generic!Running, A!Caller, Generic!Caller,
     A!Continue, Generic!Continue, A!Return, Generic!Return, A!Fail, Generic!Fail
<1>6. A!Check <=> Generic!Check
  BY DEF A!Check, Generic!Check, A!Running, Generic!Running, A!Caller, Generic!Caller,
     A!Continue, Generic!Continue, A!Return, Generic!Return
<1>7. A!GiveUp <=> Generic!GiveUp
  BY DEF A!GiveUp, Generic!GiveUp, A!Running, Generic!Running, A!Caller, Generic!Caller,
     A!Return, Generic!Return, A!Fail, Generic!Fail
<1>8. A!Grant <=> Generic!Grant
  BY DEF A!Grant, Generic!Grant, A!Running, Generic!Running, A!Continue, Generic!Continue
<1>9. A!Configure <=> Generic!Configure
  BY DEF A!Configure, Generic!Configure, A!Running, Generic!Running, A!Continue,
     Generic!Continue
<1>10. A!SignalGranted <=> Generic!SignalGranted
  BY DEF A!SignalGranted, Generic!SignalGranted, A!Running, Generic!Running, A!Return,
     Generic!Return
<1>11. A!StartGranted <=> Generic!StartGranted
  BY DEF A!StartGranted, Generic!StartGranted
<1>12. A!OwnerLetsGo <=> Generic!OwnerLetsGo
  BY DEF A!OwnerLetsGo, Generic!OwnerLetsGo, A!OwnerRelease, Generic!OwnerRelease,
     A!OwnerReleaseSucceeds, Generic!OwnerReleaseSucceeds
<1>13. A!Notify("notify", "claim", A!OwnerGranted, UNCHANGED A!ownerVars)
       <=> Generic!Notify("notify", "claim", Generic!OwnerGranted, UNCHANGED Generic!ownerVars)
  BY DEF A!Notify, Generic!Notify, A!Running, Generic!Running, A!Continue,
     Generic!Continue, A!ContinueNested, Generic!ContinueNested, A!ReleaseSection,
     Generic!ReleaseSection, A!OwnerGranted, Generic!OwnerGranted, A!ownerVars,
     Generic!ownerVars
<1>14. A!Notify("notifyImm", "take", A!OwnerGranted, UNCHANGED A!ownerVars)
       <=> Generic!Notify("notifyImm", "take", Generic!OwnerGranted, UNCHANGED Generic!ownerVars)
  BY DEF A!Notify, Generic!Notify, A!Running, Generic!Running, A!Continue,
     Generic!Continue, A!ContinueNested, Generic!ContinueNested, A!ReleaseSection,
     Generic!ReleaseSection, A!OwnerGranted, Generic!OwnerGranted, A!ownerVars,
     Generic!ownerVars
<1>15. A!AskOwner(A!OwnerRequested) <=> Generic!AskOwner(Generic!OwnerRequested)
  BY DEF A!AskOwner, Generic!AskOwner, A!OwnerRequested, Generic!OwnerRequested,
     A!OwnerLetsGo, Generic!OwnerLetsGo, A!OwnerKeeps, Generic!OwnerKeeps, A!OwnerRelease,
     Generic!OwnerRelease, A!OwnerReleaseSucceeds, Generic!OwnerReleaseSucceeds,
     A!Running, Generic!Running, A!Return, Generic!Return
<1>16. A!AskOwnerImm(A!OwnerImmediateRequested)
       <=> Generic!AskOwnerImm(Generic!OwnerImmediateRequested)
  BY DEF A!AskOwnerImm, Generic!AskOwnerImm, A!OwnerImmediateRequested,
     Generic!OwnerImmediateRequested, A!OwnerLetsGo, Generic!OwnerLetsGo, A!OwnerKeeps,
     Generic!OwnerKeeps, A!OwnerRelease, Generic!OwnerRelease, A!OwnerReleaseSucceeds,
     Generic!OwnerReleaseSucceeds, A!Running, Generic!Running, A!Continue,
     Generic!Continue
<1>17. A!DeferredRelease <=> Generic!DeferredRelease
  BY DEF A!DeferredRelease, Generic!DeferredRelease
<1>18. \A c : A!ClientReleases(c) <=> Generic!ClientReleases(c)
  BY DEF A!ClientReleases, Generic!ClientReleases, A!Release, Generic!Release,
     A!ReleaseSection, Generic!ReleaseSection, A!Interrupts, Generic!Interrupts,
     A!Cardinality, Generic!Cardinality, A!OwnerGranted, Generic!OwnerGranted,
     A!ownerVars, Generic!ownerVars
<1>. QED
  BY <1>1, <1>2, <1>3, <1>4, <1>5, <1>6, <1>7, <1>8, <1>9, <1>10, <1>11, <1>12, <1>13,
     <1>14, <1>15, <1>16, <1>17, <1>18

(* Each asynchronous power manager is a default owner that keeps to the    *)
(* contract of ResourceDefaultOwner.nc, so that the theorems about Arbiter *)
(* hold of an arbiter that has one.                                        *)
THEOREM AsyncImplements == Spec => RefinesArbiter
<1>1. A!Init <=> Generic!Init
  BY DEF A!Init, Generic!Init, A!ArbiterInit, Generic!ArbiterInit
<1>2. A!Next <=> Generic!Next
  <2>1. A!RunCall <=> Generic!RunCall
    BY OneArbiter DEF A!RunCall, Generic!RunCall, A!RunningCall, Generic!RunningCall,
       A!ownerVars, Generic!ownerVars
  <2>2. A!RunGrantedTask <=> Generic!RunGrantedTask
    BY OneArbiter DEF A!RunGrantedTask, Generic!RunGrantedTask, A!ownerVars, Generic!ownerVars
  <2>3. \A c : A!ClientCalls(c) <=> Generic!ClientCalls(c)
    BY OneArbiter DEF A!ClientCalls, Generic!ClientCalls, A!ownerVars, Generic!ownerVars
  <2>. QED
    BY <2>1, <2>2, <2>3, OneArbiter DEF A!Next, Generic!Next
<1>3. UNCHANGED A!vars <=> UNCHANGED Generic!vars
  BY DEF A!vars, Generic!vars, A!avars, Generic!avars, A!ownerVars, Generic!ownerVars
<1>4. [A!Next]_(A!vars) => [Generic!Next]_(Generic!vars)
  BY <1>2, <1>3
<1>. QED
  BY <1>1, <1>4, SpecMaps, PTL DEF A!Spec, Generic!Spec, RefinesArbiter

-----------------------------------------------------------------------------
(* AsyncPowerManagerP has no timer and no tasks of its own, and the device *)
(* is on from the request that it grants to the last release.              *)
SwitchedInv ==
  /\ manager = "AsyncPowerManagerP"
  /\ power = "none" /\ ~timer
  /\ posted \in Seq({"grantedTask"})
  /\ state \in {"GRANTING", "BUSY"} => device = "on"

LEMMA GrantingPosts == Granting \in Seq({"grantedTask"})
<1>1. Granting = <<"grantedTask">> \/ Granting = <<>>
  <2>1. CASE granting' /\ ~granting
    BY <2>1, Zenon DEF Granting
  <2>2. CASE ~(granting' /\ ~granting)
    BY <2>2, Zenon DEF Granting
  <2>. QED
    BY <2>1, <2>2, Zenon
<1>2. <<"grantedTask">> \in Seq({"grantedTask"}) /\ <<>> \in Seq({"grantedTask"})
  OBVIOUS
<1>. QED
  BY <1>1, <1>2, Zenon

LEMMA PowerStays ==
  ASSUME SwitchedInv, Unchanged, state' \in {"GRANTING", "BUSY"} => state \in {"GRANTING", "BUSY"}
  PROVE  SwitchedInv'
<1>1. posted' \in Seq({"grantedTask"})
  BY GrantingPosts DEF Unchanged, SwitchedInv
<1>. QED
  BY <1>1 DEF Unchanged, SwitchedInv

LEMMA PowerAsked ==
  ASSUME SwitchedInv, OwnerRequested
  PROVE  SwitchedInv'
<1>1. ~Deferred
  BY DEF Deferred, SwitchedInv
<1>2. posted' \in Seq({"grantedTask"})
  BY <1>1, GrantingPosts DEF OwnerRequested, SwitchedInv
<1>. QED
  BY <1>2 DEF OwnerRequested, SwitchedInv

LEMMA PowerReleased ==
  ASSUME SwitchedInv, NEW c, ReleaseSection(c, OwnerGranted, Unchanged)
  PROVE  SwitchedInv'
<1>1. CASE queue = <<>>
  BY <1>1 DEF ReleaseSection, OwnerGranted, Deferred, SwitchedInv
<1>2. CASE queue # <<>>
  <2>1. Unchanged /\ state = "BUSY"
    BY <1>2 DEF ReleaseSection
  <2>. QED
    BY <2>1, PowerStays
<1>. QED
  BY <1>1, <1>2

LEMMA PowerNotified ==
  ASSUME SwitchedInv, NEW point, NEW next, Notify(point, next, OwnerGranted, Unchanged)
  PROVE  SwitchedInv'
<1>1. CASE Unchanged /\ UNCHANGED state
  BY <1>1, PowerStays
<1>2. CASE ReleaseSection(resId, OwnerGranted, Unchanged)
  BY <1>2, PowerReleased
<1>. QED
  BY <1>1, <1>2 DEF Notify

LEMMA PowerNext ==
  ASSUME SwitchedInv, A!IndInv, [Next]_vars
  PROVE  SwitchedInv'
<1>1. CASE RunCall
  <2>1. CASE (Enqueue \/ Claim \/ Take \/ Check \/ GiveUp \/ Configure \/ SignalGranted) /\ Unchanged
    <3>1. state' \in {"GRANTING", "BUSY"} => state \in {"GRANTING", "BUSY"}
      BY <2>1 DEF Enqueue, Claim, Take, Check, GiveUp, Configure, SignalGranted
    <3>. QED
      BY <2>1, <3>1, PowerStays
  <2>2. CASE Grant /\ Unchanged
    <3>1. state = "GRANTING"
      BY <2>2, RunningIs DEF Grant, Running
    <3>. QED
      BY <2>2, <3>1, PowerStays
  <2>3. CASE \/ Notify("notify", "claim", OwnerGranted, Unchanged)
             \/ Notify("notifyImm", "take", OwnerGranted, Unchanged)
    BY <2>3, PowerNotified
  <2>4. CASE AskOwner(OwnerRequested) \/ AskOwnerImm(OwnerRequested)
    BY <2>4, PowerAsked DEF AskOwner, AskOwnerImm
  <2>. QED
    BY <1>1, <2>1, <2>2, <2>3, <2>4 DEF RunCall, RunningCall
<1>2. CASE RunGrantedTask
  BY <1>2 DEF RunGrantedTask, StartGranted, Start, SwitchedInv
<1>3. ~PowerStep
  <2>1. posted # <<>> => Head(posted) = "grantedTask"
    BY DEF SwitchedInv
  <2>. QED
    BY <2>1 DEF PowerStep, stopTimerTask, clear, timerTask, startOneShot, fired, stop,
       Start, SwitchedInv
<1>4. ASSUME NEW c \in Clients, ClientReleases(c)
      PROVE  SwitchedInv'
  BY <1>4, PowerReleased DEF ClientReleases, Release
<1>5. ASSUME NEW c \in Clients, ClientCalls(c)
      PROVE  SwitchedInv'
  BY <1>5 DEF ClientCalls, CallRequest, CallImmediate, powerVars, SwitchedInv
<1>6. CASE UNCHANGED vars
  BY <1>6 DEF vars, avars, powerVars, SwitchedInv
<1>. QED
  BY <1>1, <1>2, <1>3, <1>4, <1>5, <1>6 DEF Next

(* With AsyncPowerManagerP, whoever was told that it has the resource      *)
(* finds the device on (AsyncPowerManagerP.nc: requested, granted).        *)
THEOREM AsyncPowered ==
  ASSUME Managers = {"AsyncPowerManagerP"}
  PROVE  Spec => []PoweredUse
<1>1. Init => SwitchedInv
  BY DEF Init, ArbiterInit, SwitchedInv
<1>2. SwitchedInv /\ A!IndInv /\ [Next]_vars => SwitchedInv'
  BY PowerNext
<1>3. SwitchedInv /\ A!IndInv => PoweredUse
  BY DEF SwitchedInv, PoweredUse, A!IndInv, A!OneHolder
<1>. QED
  BY <1>1, <1>2, <1>3, SpecMaps, PTL DEF Spec

-----------------------------------------------------------------------------
(* The task queue: each task waits in it once, and grantedTask waits as    *)
(* long as the arbiter has a client to grant (the types of AsyncTypes).    *)
AsyncTasks == {"stopTimerTask", "timerTask", "grantedTask"}

LEMMA TaskPosted ==
  ASSUME NEW q \in Seq(AsyncTasks), IsInjective(q), NEW t \in AsyncTasks, ~Contains(q, t)
  PROVE  /\ Append(q, t) \in Seq(AsyncTasks) /\ IsInjective(Append(q, t))
         /\ \A u : Contains(Append(q, t), u) <=> Contains(q, u) \/ u = t
<1>1. /\ Len(Append(q, t)) = Len(q) + 1
      /\ \A i \in 1..Len(q) : Append(q, t)[i] = q[i]
      /\ Append(q, t)[Len(q) + 1] = t
      /\ Append(q, t) \in Seq(AsyncTasks)
  OBVIOUS
<1>2. IsInjective(Append(q, t))
  BY <1>1 DEF IsInjective, Contains
<1>3. \A u : Contains(Append(q, t), u) <=> Contains(q, u) \/ u = t
  BY <1>1 DEF Contains
<1>. QED
  BY <1>1, <1>2, <1>3

LEMMA TaskStarted ==
  ASSUME NEW q \in Seq(AsyncTasks), IsInjective(q), q # <<>>
  PROVE  /\ Tail(q) \in Seq(AsyncTasks) /\ IsInjective(Tail(q))
         /\ \A u : Contains(Tail(q), u) <=> Contains(q, u) /\ u # Head(q)
<1>1. /\ Len(q) \in Nat \ {0}
      /\ Len(Tail(q)) = Len(q) - 1
      /\ \A i \in 1..Len(Tail(q)) : Tail(q)[i] = q[i + 1]
      /\ Tail(q) \in Seq(AsyncTasks)
      /\ Head(q) = q[1] /\ 1 \in 1..Len(q)
  OBVIOUS
<1>2. IsInjective(Tail(q))
  BY <1>1 DEF IsInjective
<1>3. ASSUME NEW u
      PROVE  Contains(Tail(q), u) <=> Contains(q, u) /\ u # Head(q)
  <2>1. ASSUME NEW i \in 1..Len(Tail(q)), Tail(q)[i] = u
        PROVE  Contains(q, u) /\ u # Head(q)
    <3>1. i + 1 \in 1..Len(q) /\ q[i + 1] = u /\ i + 1 # 1
      BY <1>1, <2>1
    <3>. QED
      BY <1>1, <3>1 DEF IsInjective, Contains
  <2>2. ASSUME NEW i \in 1..Len(q), q[i] = u, u # Head(q)
        PROVE  Contains(Tail(q), u)
    <3>1. i - 1 \in 1..Len(Tail(q)) /\ Tail(q)[i - 1] = u
      BY <1>1, <2>2
    <3>. QED
      BY <3>1 DEF Contains
  <2>. QED
    BY <2>1, <2>2 DEF Contains
<1>. QED
  BY <1>1, <1>2, <1>3

(* A queue that is as TypeOK has it, when the arbiter's flag is `flag'. *)
GoodQueue(q, flag) ==
  /\ q \in Seq(AsyncTasks) /\ IsInjective(q)
  /\ flag <=> Contains(q, "grantedTask")

LEMMA PostedTask ==
  ASSUME GoodQueue(posted, granting), NEW t \in {"stopTimerTask", "timerTask"}
  PROVE  GoodQueue(Posted(t), granting)
<1>1. CASE Contains(posted, t)
  BY <1>1 DEF Posted
<1>2. CASE ~Contains(posted, t)
  BY <1>2, TaskPosted DEF Posted, GoodQueue, AsyncTasks
<1>. QED
  BY <1>1, <1>2

LEMMA GrantingPosted ==
  ASSUME NEW q, GoodQueue(q, granting), granting \in BOOLEAN, granting' \in BOOLEAN,
         granting => granting'
  PROVE  GoodQueue(q \o Granting, granting')
<1>1. CASE granting' /\ ~granting
  <2>1. Granting = <<"grantedTask">>
    BY <1>1, Zenon DEF Granting
  <2>2. q \o Granting = Append(q, "grantedTask")
    BY <2>1 DEF GoodQueue
  <2>. QED
    BY <1>1, <2>2, TaskPosted DEF GoodQueue, AsyncTasks
<1>2. CASE ~(granting' /\ ~granting)
  <2>1. Granting = <<>>
    BY <1>2, Zenon DEF Granting
  <2>2. q \o Granting = q
    BY <2>1 DEF GoodQueue
  <2>3. granting' <=> granting
    BY <1>2
  <2>. QED
    BY <2>2, <2>3 DEF GoodQueue
<1>. QED
  BY <1>1, <1>2

LEMMA TaskBegins ==
  ASSUME GoodQueue(posted, granting), NEW t, Start(t), t # "grantedTask"
  PROVE  GoodQueue(posted', granting)
  BY TaskStarted DEF Start, GoodQueue

(* The types of what the power managers keep. *)
PowerTypeOK ==
  /\ manager \in Managers
  /\ stopTimer \in BOOLEAN
  /\ GoodQueue(posted, granting)
  /\ power \in {"none", "clear", "arm", "stop"}
  /\ timer \in BOOLEAN
  /\ device \in {"on", "off"}

LEMMA TypesStay ==
  ASSUME PowerTypeOK, Unchanged, granting \in BOOLEAN, granting' \in BOOLEAN,
         granting => granting'
  PROVE  PowerTypeOK'
<1>1. GoodQueue(posted', granting')
  BY GrantingPosted DEF Unchanged, PowerTypeOK
<1>2. GoodQueue(posted, granting)'
  BY <1>1 DEF GoodQueue
<1>. QED
  BY <1>2 DEF Unchanged, PowerTypeOK

LEMMA TypesReleased ==
  ASSUME PowerTypeOK, NEW c, ReleaseSection(c, OwnerGranted, Unchanged), granting \in BOOLEAN
  PROVE  PowerTypeOK'
<1>1. CASE queue = <<>>
  <2>1. OwnerGranted /\ UNCHANGED granting
    BY <1>1 DEF ReleaseSection
  <2>2. GoodQueue(posted', granting)
    BY <2>1, PostedTask DEF OwnerGranted, PowerTypeOK
  <2>3. GoodQueue(posted, granting)'
    BY <2>1, <2>2 DEF GoodQueue
  <2>4. device' \in {"on", "off"}
    BY <2>1 DEF OwnerGranted, PowerTypeOK
  <2>. QED
    BY <2>1, <2>3, <2>4 DEF OwnerGranted, PowerTypeOK
<1>2. CASE queue # <<>>
  <2>1. Unchanged /\ granting' = TRUE
    BY <1>2 DEF ReleaseSection
  <2>. QED
    BY <2>1, TypesStay
<1>. QED
  BY <1>1, <1>2

LEMMA TypesAsked ==
  ASSUME PowerTypeOK, OwnerRequested, granting \in BOOLEAN
  PROVE  PowerTypeOK'
<1>1. granting' \in BOOLEAN /\ (granting => granting')
  BY DEF OwnerRequested, OwnerRelease
<1>2. PICK q : /\ posted' = q \o Granting
               /\ q = posted \/ q = Posted("stopTimerTask")
  BY DEF OwnerRequested
<1>3. GoodQueue(q, granting)
  BY <1>2, PostedTask DEF PowerTypeOK
<1>4. GoodQueue(posted', granting')
  BY <1>1, <1>2, <1>3, GrantingPosted
<1>5. GoodQueue(posted, granting)'
  BY <1>4 DEF GoodQueue
<1>6. stopTimer' \in BOOLEAN
  BY DEF OwnerRequested, Deferred
<1>. QED
  BY <1>5, <1>6 DEF OwnerRequested, PowerTypeOK

LEMMA TypesNotified ==
  ASSUME PowerTypeOK, granting \in BOOLEAN, NEW point, NEW next,
         Notify(point, next, OwnerGranted, Unchanged)
  PROVE  PowerTypeOK'
<1>1. CASE Unchanged /\ UNCHANGED granting
  BY <1>1, TypesStay
<1>2. CASE ReleaseSection(resId, OwnerGranted, Unchanged)
  BY <1>2, TypesReleased
<1>. QED
  BY <1>1, <1>2 DEF Notify

LEMMA TypesNext ==
  ASSUME PowerTypeOK, granting \in BOOLEAN, [Next]_vars
  PROVE  PowerTypeOK'
<1>1. CASE RunCall
  <2>1. CASE (\/ Enqueue \/ Claim \/ Take \/ Check \/ GiveUp \/ Grant \/ Configure
              \/ SignalGranted) /\ Unchanged
    <3>1. UNCHANGED granting
      BY <2>1 DEF Enqueue, Claim, Take, Check, GiveUp, Grant, Configure, SignalGranted
    <3>. QED
      BY <2>1, <3>1, TypesStay
  <2>2. CASE \/ Notify("notify", "claim", OwnerGranted, Unchanged)
             \/ Notify("notifyImm", "take", OwnerGranted, Unchanged)
    BY <2>2, TypesNotified
  <2>3. CASE AskOwner(OwnerRequested) \/ AskOwnerImm(OwnerRequested)
    BY <2>3, TypesAsked DEF AskOwner, AskOwnerImm
  <2>. QED
    BY <1>1, <2>1, <2>2, <2>3 DEF RunCall, RunningCall
<1>2. CASE RunGrantedTask
  <2>1. granting' = FALSE /\ Start("grantedTask")
    BY <1>2 DEF RunGrantedTask, StartGranted
  <2>2. GoodQueue(posted, granting)'
    BY <2>1, TaskStarted DEF Start, GoodQueue, PowerTypeOK
  <2>. QED
    BY <1>2, <2>2 DEF RunGrantedTask, PowerTypeOK
<1>3. CASE PowerStep
  <2>1. UNCHANGED granting
    BY <1>3 DEF PowerStep, stopTimerTask, clear, timerTask, startOneShot, fired, stop, avars
  <2>2. posted' = posted \/ Start("stopTimerTask") \/ Start("timerTask")
    BY <1>3 DEF PowerStep, stopTimerTask, clear, timerTask, startOneShot, fired, stop
  <2>3. GoodQueue(posted', granting)
    BY <2>2, TaskBegins DEF PowerTypeOK
  <2>4. GoodQueue(posted, granting)'
    BY <2>1, <2>3 DEF GoodQueue
  <2>5. power' \in {"none", "clear", "arm", "stop"}
    BY <1>3 DEF PowerStep, stopTimerTask, clear, timerTask, startOneShot, fired, stop
  <2>. QED
    BY <1>3, <2>4, <2>5 DEF PowerStep, stopTimerTask, clear, timerTask, startOneShot, fired,
       stop, PowerTypeOK
<1>4. ASSUME NEW c \in Clients, ClientReleases(c)
      PROVE  PowerTypeOK'
  BY <1>4, TypesReleased DEF ClientReleases, Release
<1>5. ASSUME NEW c \in Clients, ClientCalls(c)
      PROVE  PowerTypeOK'
  BY <1>5 DEF ClientCalls, CallRequest, CallImmediate, powerVars, PowerTypeOK, GoodQueue
<1>6. CASE UNCHANGED vars
  BY <1>6 DEF vars, avars, powerVars, PowerTypeOK, GoodQueue
<1>. QED
  BY <1>1, <1>2, <1>3, <1>4, <1>5, <1>6 DEF Next

LEMMA SpecPowerTypes == Spec => []PowerTypeOK
<1>1. Init => PowerTypeOK
  <2>1. <<>> \in Seq(AsyncTasks) /\ IsInjective(<<>>) /\ \A u : ~Contains(<<>>, u)
    BY DEF IsInjective, Contains
  <2>. QED
    BY <2>1 DEF Init, ArbiterInit, PowerTypeOK, GoodQueue
<1>2. A!IndInv => granting \in BOOLEAN
  BY DEF A!IndInv, A!TypeOK, A!ArbiterTypeOK
<1>3. PowerTypeOK /\ A!IndInv /\ [Next]_vars => PowerTypeOK'
  BY <1>2, TypesNext
<1>. QED
  BY <1>1, <1>3, SpecMaps, PTL DEF Spec

(* In every state the variables have their types, each task waits once,    *)
(* and grantedTask waits exactly when the arbiter has posted it and it has *)
(* not run: a grant is never lost from the queue nor posted twice.         *)
THEOREM AsyncTypes == Spec => []TypeOK
<1>1. A!IndInv => ArbiterTypeOK
  BY DEF A!IndInv, A!TypeOK, A!ArbiterTypeOK, ArbiterTypeOK, A!ArbStates, ArbStates, A!Frames,
     Frames, A!RequestPoints, RequestPoints, A!ImmediatePoints, ImmediatePoints, A!GrantPoints,
     GrantPoints, A!ClientStates, ClientStates
<1>2. PowerTypeOK /\ A!IndInv => TypeOK
  BY <1>1 DEF PowerTypeOK, TypeOK, GoodQueue, AsyncTasks
<1>. QED
  BY <1>2, SpecMaps, SpecPowerTypes, PTL

-----------------------------------------------------------------------------
(* Whoever has the resource finds the device on, unless a request comes in *)
(* the middle of a handler or tasks merge.  With the deferred manager, from*)
(* the time it lets go of the resource until it has it again: stopTimer is *)
(* set as long as stopTimerTask waits, so that the timer stops nothing;    *)
(* and once that task has stopped the timer nobody starts it.              *)
StopTimerInv ==
  state \in {"GRANTING", "BUSY"} =>
    /\ device = "on" /\ power # "stop"
    /\ \/ stopTimer /\ Contains(posted, "stopTimerTask")
       \/ ~timer /\ power # "arm" /\ ~Contains(posted, "timerTask")

(* The task that the arbiter posts is not one of the manager's. *)
LEMMA GrantingContains ==
  ASSUME NEW q \in Seq(AsyncTasks), NEW t, t # "grantedTask"
  PROVE  Contains(q \o Granting, t) <=> Contains(q, t)
<1>1. CASE granting' /\ ~granting
  <2>1. Granting = <<"grantedTask">>
    BY <1>1, Zenon DEF Granting
  <2>2. q \o Granting = Append(q, "grantedTask")
    BY <2>1
  <2>3. /\ Len(Append(q, "grantedTask")) = Len(q) + 1
        /\ \A i \in 1..Len(q) : Append(q, "grantedTask")[i] = q[i]
        /\ Append(q, "grantedTask")[Len(q) + 1] = "grantedTask"
    BY DEF AsyncTasks
  <2>. QED
    BY <2>2, <2>3 DEF Contains
<1>2. CASE ~(granting' /\ ~granting)
  <2>1. Granting = <<>>
    BY <1>2, Zenon DEF Granting
  <2>. QED
    BY <2>1
<1>. QED
  BY <1>1, <1>2

LEMMA StopTimerStays ==
  ASSUME StopTimerInv, posted \in Seq(AsyncTasks), Unchanged,
         state' \in {"GRANTING", "BUSY"} => state \in {"GRANTING", "BUSY"}
  PROVE  StopTimerInv'
<1>1. /\ posted' = posted \o Granting
      /\ stopTimer' = stopTimer /\ power' = power /\ timer' = timer /\ device' = device
  BY DEF Unchanged
<1>2. /\ Contains(posted \o Granting, "stopTimerTask") <=> Contains(posted, "stopTimerTask")
      /\ Contains(posted \o Granting, "timerTask") <=> Contains(posted, "timerTask")
  BY GrantingContains
<1>3. /\ Contains(posted', "stopTimerTask") <=> Contains(posted, "stopTimerTask")
      /\ Contains(posted', "timerTask") <=> Contains(posted, "timerTask")
  BY <1>1, <1>2
<1>. QED
  BY <1>1, <1>3 DEF StopTimerInv, Contains

LEMMA StopTimerAsked ==
  ASSUME Deferred, PowerTypeOK, OwnerRequested, ~Interrupted'
  PROVE  StopTimerInv'
<1>1. /\ stopTimer' = TRUE /\ device' = "on"
      /\ posted' = Posted("stopTimerTask") \o Granting
  BY DEF OwnerRequested, Deferred
<1>2. power' # "stop"
  BY <1>1 DEF Interrupted
<1>3. Contains(Posted("stopTimerTask"), "stopTimerTask")
      /\ Posted("stopTimerTask") \in Seq(AsyncTasks)
  <2>1. CASE Contains(posted, "stopTimerTask")
    BY <2>1 DEF Posted, PowerTypeOK, GoodQueue
  <2>2. CASE ~Contains(posted, "stopTimerTask")
    BY <2>2, TaskPosted DEF Posted, PowerTypeOK, GoodQueue, AsyncTasks
  <2>. QED
    BY <2>1, <2>2
<1>4. Contains(posted', "stopTimerTask")
  BY <1>1, <1>3, GrantingContains
<1>. QED
  BY <1>1, <1>2, <1>4 DEF StopTimerInv, Contains

LEMMA StopTimerReleased ==
  ASSUME StopTimerInv, posted \in Seq(AsyncTasks), NEW c,
         ReleaseSection(c, OwnerGranted, Unchanged)
  PROVE  StopTimerInv'
<1>1. CASE queue = <<>>
  BY <1>1 DEF ReleaseSection, StopTimerInv
<1>2. CASE queue # <<>>
  <2>1. Unchanged /\ state = "BUSY"
    BY <1>2 DEF ReleaseSection
  <2>. QED
    BY <2>1, StopTimerStays
<1>. QED
  BY <1>1, <1>2

(* The tasks and the timer of the manager. *)
LEMMA StopTimerTasks ==
  ASSUME StopTimerInv, PowerTypeOK, PowerStep, ~Interrupted, ~Merged
  PROVE  StopTimerInv'
<1>1. UNCHANGED state
  BY DEF PowerStep, stopTimerTask, clear, timerTask, startOneShot, fired, stop, avars
<1> SUFFICES ASSUME state \in {"GRANTING", "BUSY"}
             PROVE  /\ device' = "on" /\ power' # "stop"
                    /\ \/ stopTimer' /\ Contains(posted', "stopTimerTask")
                       \/ ~timer' /\ power' # "arm" /\ ~Contains(posted', "timerTask")
  BY <1>1 DEF StopTimerInv, Contains
<1>2. /\ device = "on" /\ power # "stop"
      /\ \/ stopTimer /\ Contains(posted, "stopTimerTask")
         \/ ~timer /\ power # "arm" /\ ~Contains(posted, "timerTask")
  BY DEF StopTimerInv
<1>3. posted \in Seq(AsyncTasks) /\ IsInjective(posted)
  BY DEF PowerTypeOK, GoodQueue
<1>4. posted # <<>> => \A u : Contains(Tail(posted), u) <=> Contains(posted, u) /\ u # Head(posted)
  BY <1>3, TaskStarted
<1>5. CASE stopTimerTask
  <2>1. /\ posted # <<>> /\ Head(posted) = "stopTimerTask" /\ posted' = Tail(posted)
        /\ timer' = FALSE /\ power' = "clear" /\ device' = device
    BY <1>5 DEF stopTimerTask, Start
  <2>2. ~Contains(posted, "timerTask")
    <3> SUFFICES ASSUME NEW j \in 1..Len(posted), posted[j] = "timerTask"
                 PROVE  FALSE
      BY DEF Contains
    <3>1. posted[1] = "stopTimerTask" /\ 1 \in 1..Len(posted)
      BY <1>3, <2>1
    <3>2. 1 < j
      BY <3>1
    <3>3. Before("stopTimerTask", "timerTask")
      BY <3>1, <3>2 DEF Before
    <3>. QED
      BY <3>3 DEF Merged
  <2>3. ~Contains(posted', "timerTask")
    BY <1>4, <2>1, <2>2
  <2>. QED
    BY <1>2, <2>1, <2>3
<1>6. CASE clear
  <2>1. /\ power = "clear" /\ stopTimer' = FALSE /\ power' = "none"
        /\ posted' = posted /\ timer' = timer /\ device' = device
    BY <1>6 DEF clear
  <2>2. ~Contains(posted, "stopTimerTask")
    BY <2>1 DEF Interrupted
  <2>. QED
    BY <1>2, <2>1, <2>2
<1>7. CASE timerTask
  <2>1. /\ posted # <<>> /\ Head(posted) = "timerTask" /\ posted' = Tail(posted)
        /\ power' = IF stopTimer THEN "none" ELSE "arm"
        /\ stopTimer' = stopTimer /\ timer' = timer /\ device' = device
    BY <1>7 DEF timerTask, Start
  <2>2. Contains(posted, "timerTask")
    BY <1>3, <2>1 DEF Contains
  <2>3. Contains(posted', "stopTimerTask") <=> Contains(posted, "stopTimerTask")
    BY <1>4, <2>1
  <2>. QED
    BY <1>2, <2>1, <2>2, <2>3
<1>8. CASE startOneShot
  BY <1>2, <1>8 DEF startOneShot
<1>9. CASE fired
  BY <1>2, <1>9 DEF fired
<1>10. CASE stop
  BY <1>2, <1>10 DEF stop
<1>. QED
  BY <1>5, <1>6, <1>7, <1>8, <1>9, <1>10 DEF PowerStep

LEMMA StopTimerNext ==
  ASSUME StopTimerInv, Deferred, PowerTypeOK, A!IndInv, [Next]_vars,
         ~Interrupted, ~Merged, ~Interrupted'
  PROVE  StopTimerInv'
<1>0. posted \in Seq(AsyncTasks)
  BY DEF PowerTypeOK, GoodQueue
<1>1. CASE RunCall
  <2>1. CASE (Enqueue \/ Claim \/ Take \/ Check \/ GiveUp \/ Configure \/ SignalGranted) /\ Unchanged
    <3>1. state' \in {"GRANTING", "BUSY"} => state \in {"GRANTING", "BUSY"}
      BY <2>1 DEF Enqueue, Claim, Take, Check, GiveUp, Configure, SignalGranted
    <3>. QED
      BY <1>0, <2>1, <3>1, StopTimerStays
  <2>2. CASE Grant /\ Unchanged
    <3>1. state = "GRANTING"
      BY <2>2, RunningIs DEF Grant, Running
    <3>. QED
      BY <1>0, <2>2, <3>1, StopTimerStays
  <2>3. CASE \/ Notify("notify", "claim", OwnerGranted, Unchanged)
             \/ Notify("notifyImm", "take", OwnerGranted, Unchanged)
    <3>1. CASE Unchanged /\ UNCHANGED state
      BY <1>0, <3>1, StopTimerStays
    <3>2. CASE ReleaseSection(resId, OwnerGranted, Unchanged)
      BY <1>0, <3>2, StopTimerReleased
    <3>. QED
      BY <2>3, <3>1, <3>2 DEF Notify
  <2>4. CASE AskOwner(OwnerRequested) \/ AskOwnerImm(OwnerRequested)
    BY <2>4, StopTimerAsked DEF AskOwner, AskOwnerImm
  <2>. QED
    BY <1>1, <2>1, <2>2, <2>3, <2>4 DEF RunCall, RunningCall
<1>2. CASE RunGrantedTask
  <2>1. /\ posted # <<>> /\ Head(posted) = "grantedTask" /\ posted' = Tail(posted)
        /\ UNCHANGED <<state, stopTimer, power, timer, device>>
    BY <1>2 DEF RunGrantedTask, StartGranted, Start
  <2>2. \A u : Contains(Tail(posted), u) <=> Contains(posted, u) /\ u # Head(posted)
    BY <2>1, TaskStarted DEF PowerTypeOK, GoodQueue
  <2>3. /\ Contains(posted', "stopTimerTask") <=> Contains(posted, "stopTimerTask")
        /\ Contains(posted', "timerTask") <=> Contains(posted, "timerTask")
    BY <2>1, <2>2
  <2>. QED
    BY <2>1, <2>3 DEF StopTimerInv, Contains
<1>3. CASE PowerStep
  BY <1>3, StopTimerTasks
<1>4. ASSUME NEW c \in Clients, ClientReleases(c)
      PROVE  StopTimerInv'
  BY <1>0, <1>4, StopTimerReleased DEF ClientReleases, Release
<1>5. ASSUME NEW c \in Clients, ClientCalls(c)
      PROVE  StopTimerInv'
  BY <1>5 DEF ClientCalls, CallRequest, CallImmediate, powerVars, StopTimerInv, Contains
<1>6. CASE UNCHANGED vars
  BY <1>6 DEF vars, avars, powerVars, StopTimerInv, Contains
<1>. QED
  BY <1>1, <1>2, <1>3, <1>4, <1>5, <1>6 DEF Next

(* With either asynchronous manager, whoever was told that it has the      *)
(* resource finds the device on and nobody about to switch it off, unless  *)
(* a request came in the middle of a handler or tasks merged.              *)
THEOREM AsyncPoweredUnlessRaced == Spec => PoweredUnlessRaced
<1>. DEFINE Switched == SwitchedInv \/ (Deferred /\ StopTimerInv)
<1>1. Init => Switched
  <2> SUFFICES ASSUME Init PROVE Switched
    OBVIOUS
  <2>1. manager \in {"AsyncPowerManagerP", "AsyncDeferredPowerManagerP"}
    BY ManagersAssumption DEF Init
  <2>2. CASE manager = "AsyncPowerManagerP"
    BY <2>2 DEF Init, ArbiterInit, SwitchedInv
  <2>3. CASE manager = "AsyncDeferredPowerManagerP"
    BY <2>3 DEF Init, ArbiterInit, Deferred, StopTimerInv
  <2>. QED
    BY <2>1, <2>2, <2>3
<1>2. [Next]_vars => UNCHANGED manager
  BY DEF Next, RunCall, RunningCall, Notify, ReleaseSection, AskOwner, AskOwnerImm,
     OwnerRequested, OwnerGranted, Unchanged, RunGrantedTask, PowerStep, stopTimerTask, clear,
     timerTask, startOneShot, fired, stop, ClientReleases, Release, ClientCalls, powerVars, vars
<1>3. /\ Switched /\ PowerTypeOK /\ A!IndInv /\ [Next]_vars
      /\ ~Interrupted /\ ~Merged /\ ~Interrupted'
      => Switched'
  BY <1>2, PowerNext, StopTimerNext DEF Deferred
<1>4. Switched /\ A!IndInv => PoweredUse
  BY DEF SwitchedInv, StopTimerInv, PoweredUse, A!IndInv, A!OneHolder
<1>. HIDE DEF Switched
<1>5. Spec /\ []~Interrupted /\ []~Merged => []PoweredUse
  BY <1>1, <1>3, <1>4, SpecMaps, SpecPowerTypes, PTL DEF Spec
<1>. QED
  BY <1>5, PTL DEF PoweredUnlessRaced
=============================================================================
