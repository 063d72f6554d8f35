--------------------------- MODULE ArbiterProofs ----------------------------
(***************************************************************************)
(* For every set of clients, every nesting of interrupts and every default *)
(* owner that keeps to its contract: a client told that it has the         *)
(* resource is the only one to have it, no accepted request is lost or     *)
(* overtaken, the arbiter never hangs, and it implements ResourceLock.     *)
(***************************************************************************)
EXTENDS Arbiter, SequenceTheorems, TLAPS

-----------------------------------------------------------------------------
(* The inductive invariant.                                                *)

Handing == {"askOwnerImm", "check", "giveUp"}

(* grantedTask is the outermost call, and every other one is a client's. *)
CallsNested ==
  \A i \in 1..Len(stack) :
    /\ i > 1 => stack[i].at \notin GrantPoints
    /\ stack[i].at \notin GrantPoints => stack[i].id \in Clients

(* One call at a time asks the default owner for the resource, each way. *)
OneCallAsks ==
  \A i, j \in 1..Len(stack) :
    /\ stack[i].at = "askOwner" /\ stack[j].at = "askOwner" => i = j
    /\ stack[i].at \in Handing /\ stack[j].at \in Handing => i = j

(* What the arbiter's state says of the calls in progress ... *)
StateMatchesCalls ==
  /\ state \in {"DEF_OWNED", "PREGRANT", "IMM_GRANTING"} => resId = default_owner_id
  /\ state = "GRANTING" => resId \notin Clients
  /\ state = "BUSY" => resId \in Clients
  /\ state \in {"PREGRANT", "GRANTING"} => reqResId \in Clients
  /\ granting => state = "GRANTING" /\ ~At({"grant"})
  /\ At({"grant"}) => state = "GRANTING"
  /\ At({"configure", "signal"}) => state = "BUSY"
  /\ At({"askOwner"}) => state = "PREGRANT" /\ ~ownerOwes
  /\ ownerOwes => state = "PREGRANT"
  /\ At({"notify", "claim"}) => queue # <<>> \/ state \in {"PREGRANT", "GRANTING"}

(* ... and of the call that hands the resource over immediately. *)
StateMatchesHanding ==
  \A i \in 1..Len(stack) :
    /\ stack[i].at = "askOwnerImm" => state = "IMM_GRANTING" /\ reqResId = stack[i].id
    /\ stack[i].at = "check" => \/ state = "BUSY" /\ resId = stack[i].id
                                \/ state = "IMM_GRANTING" /\ OwnerMayRefuse
    /\ stack[i].at = "giveUp" => state = "IMM_GRANTING" /\ OwnerMayRefuse

(* Whoever has the resource, or is about to, is the only one. *)
OneHolder ==
  /\ \A c \in Clients : client[c] = "owner" => state = "BUSY" /\ resId = c /\ configured = c
  /\ \A c \in Clients : client[c] = "owner" => ~At({"configure", "signal", "check"})
  /\ At({"configure", "signal"}) => ~At({"check"})
  /\ state # "BUSY" => configured = NO_RES
  /\ At({"configure", "check"}) => configured = NO_RES
  /\ At({"signal"}) => configured = resId
  /\ ownerHolds => state \in {"DEF_OWNED", "PREGRANT", "IMM_GRANTING"}

(* A client inside immediateRequest has no other call in progress. *)
ClientsMatchCalls ==
  \A i \in 1..Len(stack) :
    /\ stack[i].at \in ImmediatePoints => client[stack[i].id] = "trying"
    /\ stack[i].at = "enqueue" => client[stack[i].id] = "idle"

OneImmediateEach ==
  \A i, j \in 1..Len(stack) :
    stack[i].at \in ImmediatePoints /\ stack[j].at \in ImmediatePoints
      /\ stack[i].id = stack[j].id => i = j

(* Somebody moves the arbiter on, and nothing stale is in reqResId, unless *)
(* the default owner refuses an immediate request.                         *)
Moving ==
  /\ state = "GRANTING" => granting \/ At({"grant"})
  /\ state = "PREGRANT" => ownerOwes \/ At({"askOwner"})
  /\ state = "IMM_GRANTING" => At(Handing)
  /\ state = "BUSY" => client[resId] = "owner" \/ At({"configure", "signal", "check"})
  /\ ~OwnerMayRefuse =>
       /\ state = "DEF_OWNED" /\ queue # <<>> => At({"notify", "claim"})
       /\ reqResId # NO_RES => \/ state \in {"PREGRANT", "GRANTING"}
                               \/ state = "IMM_GRANTING" /\ At({"askOwnerImm"})

IndInv ==
  /\ TypeOK
  /\ CallsNested
  /\ OneCallAsks
  /\ StateMatchesCalls
  /\ StateMatchesHanding
  /\ OneHolder
  /\ ClientsMatchCalls
  /\ OneImmediateEach
  /\ Moving
  /\ AcceptedInOrder

-----------------------------------------------------------------------------
(* The calls in progress after each of the three things that happen to     *)
(* them: the running call returns, goes on, or is preempted by a new one.  *)
LEMMA ButLast ==
  ASSUME NEW S, NEW s \in Seq(S), NEW n \in Nat, Len(s) = n + 1
  PROVE  /\ SubSeq(s, 1, n) \in Seq(S)
         /\ Len(SubSeq(s, 1, n)) = n
         /\ \A i \in 1..n : SubSeq(s, 1, n)[i] = s[i]
<1>1. 1 \in Int /\ n \in Int /\ \A i \in 1..n : s[i] \in S
  OBVIOUS
<1>2. Len(SubSeq(s, 1, n)) = IF 1 <= n THEN n - 1 + 1 ELSE 0
  BY <1>1, SubSeqProperties
<1>3. SubSeq(s, 1, n) \in Seq(S)
  BY <1>1, SubSeqProperties
<1>4. \A i \in 1..n : SubSeq(s, 1, n)[i] = s[i]
  OBVIOUS
<1>. QED
  BY <1>2, <1>3, <1>4

(* The running call returns to the one it preempted, or to the idle *)
(* level.                                                           *)
LEMMA ReturnFrames ==
  ASSUME stack \in Seq(Frames), stack # <<>>, Return
  PROVE  /\ stack' \in Seq(Frames)
         /\ Len(stack) \in Nat
         /\ Len(stack') = Len(stack) - 1
         /\ Len(stack) \in 1..Len(stack)
         /\ \A i \in 1..Len(stack') : i \in 1..Len(stack) /\ i # Len(stack) /\ stack'[i] = stack[i]
         /\ \A i \in 1..Len(stack) : i # Len(stack) => i \in 1..Len(stack')
<1>1. Len(stack) \in Nat /\ Len(stack) - 1 \in Nat
  OBVIOUS
<1>2. Len(stack) = Len(stack) - 1 + 1
  BY <1>1
<1>3. /\ SubSeq(stack, 1, Len(stack) - 1) \in Seq(Frames)
      /\ Len(SubSeq(stack, 1, Len(stack) - 1)) = Len(stack) - 1
      /\ \A i \in 1..(Len(stack) - 1) : SubSeq(stack, 1, Len(stack) - 1)[i] = stack[i]
  BY <1>1, <1>2, ButLast, Zenon
<1>4. stack' = SubSeq(stack, 1, Len(stack) - 1)
  BY DEF Return
<1>5. /\ Len(stack) \in 1..Len(stack)
      /\ \A i \in 1..(Len(stack) - 1) : i \in 1..Len(stack) /\ i # Len(stack)
      /\ \A i \in 1..Len(stack) : i # Len(stack) => i \in 1..(Len(stack) - 1)
  BY <1>1
<1>. QED
  BY <1>1, <1>3, <1>4, <1>5, Zenon

(* The running call goes on to its next section; the calls below it stand *)
(* still.                                                                 *)
LEMMA ContinueFrames ==
  ASSUME stack \in Seq(Frames), stack # <<>>, NEW point, Continue(point),
         point \in RequestPoints \cup ImmediatePoints \cup GrantPoints
  PROVE  /\ stack' \in Seq(Frames)
         /\ Len(stack) \in 1..Len(stack)
         /\ Len(stack') = Len(stack)
         /\ \A i \in 1..Len(stack) : i # Len(stack) => stack'[i] = stack[i]
         /\ stack'[Len(stack)].at = point
         /\ stack'[Len(stack)].id = Caller
<1>1. Len(stack) \in Nat /\ Len(stack) > 0 /\ Len(stack) \in 1..Len(stack)
  OBVIOUS
<1>2. stack[Len(stack)] \in Frames
  BY <1>1
<1> DEFINE f == [stack[Len(stack)] EXCEPT !.at = point]
<1>3. f \in Frames /\ f.at = point /\ f.id = stack[Len(stack)].id
  BY <1>2 DEF Frames
<1>4. stack' = [stack EXCEPT ![Len(stack)] = f]
  BY DEF Continue
<1>5. stack' \in Seq(Frames) /\ Len(stack') = Len(stack)
  <2>. HIDE DEF f, Frames
  <2>. QED
    BY <1>1, <1>3, <1>4
<1>6. /\ \A i \in 1..Len(stack) : i # Len(stack) => stack'[i] = stack[i]
      /\ stack'[Len(stack)] = f
  <2>. HIDE DEF f, Frames
  <2>. QED
    BY <1>1, <1>3, <1>4
<1>. QED
  BY <1>1, <1>3, <1>5, <1>6, Zenon DEF Caller

(* The running call signals the default owner, which runs on top of it. *)
LEMMA NestedFrames ==
  ASSUME stack \in Seq(Frames), stack # <<>>, NEW point, NEW c \in Clients, ContinueNested(point, c),
         point \in RequestPoints \cup ImmediatePoints \cup GrantPoints
  PROVE  /\ stack' \in Seq(Frames)
         /\ Len(stack) \in 1..Len(stack)
         /\ Len(stack') = Len(stack) + 1
         /\ \A i \in 1..Len(stack) : i # Len(stack) => stack'[i] = stack[i]
         /\ stack'[Len(stack)].at = point
         /\ stack'[Len(stack)].id = Caller
         /\ stack'[Len(stack) + 1].at = "enqueue"
         /\ stack'[Len(stack) + 1].id = c
<1>1. Len(stack) \in Nat /\ Len(stack) > 0 /\ Len(stack) \in 1..Len(stack)
  OBVIOUS
<1>2. stack[Len(stack)] \in Frames
  BY <1>1
<1> DEFINE f == [stack[Len(stack)] EXCEPT !.at = point]
           g == [id |-> c, irq |-> FALSE, at |-> "enqueue"]
<1>3. f \in Frames /\ f.at = point /\ f.id = stack[Len(stack)].id
  BY <1>2 DEF Frames
<1>4. g \in Frames /\ g.at = "enqueue" /\ g.id = c
  BY DEF Frames, RequestPoints
<1>5. stack' = Append([stack EXCEPT ![Len(stack)] = f], g)
  BY DEF ContinueNested
<1> DEFINE under == [stack EXCEPT ![Len(stack)] = f]
<1>6. /\ under \in Seq(Frames) /\ Len(under) = Len(stack)
      /\ \A i \in 1..Len(stack) : i # Len(stack) => under[i] = stack[i]
      /\ under[Len(stack)] = f
  <2>. HIDE DEF f, Frames
  <2>. QED
    BY <1>1, <1>3
<1>7. /\ stack' \in Seq(Frames) /\ Len(stack') = Len(stack) + 1
      /\ \A i \in 1..Len(stack) : stack'[i] = under[i]
      /\ stack'[Len(stack) + 1] = g
  <2>1. stack' = Append(under, g)
    BY <1>5
  <2>. HIDE DEF f, g, under, Frames
  <2>. QED
    BY <1>1, <1>4, <1>6, <2>1
<1>. HIDE DEF f, g, under
<1>. QED
  BY <1>1, <1>3, <1>4, <1>6, <1>7, Zenon DEF Caller

(* A client calls the arbiter and preempts the call that was running. *)
LEMMA CallFrames ==
  ASSUME stack \in Seq(Frames), NEW c \in Clients, NEW point \in RequestPoints \cup ImmediatePoints,
         Call(c, point)
  PROVE  /\ stack' \in Seq(Frames)
         /\ Len(stack) \in Nat
         /\ Len(stack') = Len(stack) + 1
         /\ Len(stack') \in 1..Len(stack')
         /\ \A i \in 1..Len(stack') : i # Len(stack') => i \in 1..Len(stack)
         /\ \A i \in 1..Len(stack) : i \in 1..Len(stack') /\ stack'[i] = stack[i]
         /\ stack'[Len(stack')].at = point
         /\ stack'[Len(stack')].id = c
<1>1. PICK irq \in BOOLEAN : stack' = Append(stack, [id |-> c, irq |-> irq, at |-> point])
  BY DEF Call
<1>2. [id |-> c, irq |-> irq, at |-> point] \in Frames
  BY DEF Frames
<1>. QED
  BY <1>1, <1>2


(* The oldest of a sequence is the one that leaves it. *)
LEMMA TailOfConcat ==
  ASSUME NEW S, NEW t \in Seq(S), NEW e \in S
  PROVE  <<e>> \o t # <<>> /\ Head(<<e>> \o t) = e /\ Tail(<<e>> \o t) = t
<1>1. /\ <<e>> \o t \in Seq(S)
      /\ Len(<<e>> \o t) = Len(t) + 1
      /\ \A i \in 1..Len(t) : (<<e>> \o t)[i + 1] = t[i]
      /\ (<<e>> \o t)[1] = e
  OBVIOUS
<1>2. Tail(<<e>> \o t) \in Seq(S) /\ Len(Tail(<<e>> \o t)) = Len(t)
  BY <1>1
<1>3. \A i \in 1..Len(t) : Tail(<<e>> \o t)[i] = t[i]
  BY <1>1
<1>. QED
  BY <1>1, <1>2, <1>3

(* A client calls request. *)
LEMMA CallRequestKeeps ==
  ASSUME IndInv, NEW c \in Clients, CallRequest(c), UNCHANGED ownerVars
  PROVE  IndInv'
<1> USE ArbiterAssumption, OwnerAssumption
<1> USE DEF RequestPoints, ImmediatePoints, GrantPoints, Handing, At
<1>0. /\ stack \in Seq(Frames) /\ Len(stack) \in Nat
      /\ queue \in Seq(Clients) /\ accepted \in Seq(Clients)
      /\ client \in [Clients -> ClientStates]
  BY DEF IndInv, TypeOK, ArbiterTypeOK
<1>f. /\ stack' \in Seq(Frames)
      /\ Len(stack) \in Nat
      /\ Len(stack') = Len(stack) + 1
      /\ Len(stack') \in 1..Len(stack')
      /\ \A i \in 1..Len(stack') : i # Len(stack') => i \in 1..Len(stack)
      /\ \A i \in 1..Len(stack) : i \in 1..Len(stack') /\ stack'[i] = stack[i]
      /\ stack'[Len(stack')].at = "enqueue"
      /\ stack'[Len(stack')].id = c
  <2>1. "enqueue" \in RequestPoints \cup ImmediatePoints
    OBVIOUS
  <2>. QED
    BY <1>0, <2>1, CallFrames DEF CallRequest
<1>p0. TypeOK'
  BY <1>0, <1>f DEF IndInv, TypeOK, ArbiterTypeOK, ArbStates, ClientStates,
     StateMatchesCalls, CallRequest, ownerVars, Caller, Running
<1>p1. CallsNested'
  BY <1>0, <1>f DEF IndInv, TypeOK, ArbiterTypeOK, ArbStates, CallsNested,
     CallRequest, ownerVars, Caller, Running
<1>p2. OneCallAsks'
  BY <1>0, <1>f DEF IndInv, TypeOK, ArbiterTypeOK, ArbStates, OneCallAsks,
     StateMatchesCalls, StateMatchesHanding, CallRequest, ownerVars, Caller, Running
<1>p3. StateMatchesCalls'
  BY <1>0, <1>f DEF IndInv, TypeOK, ArbiterTypeOK, ArbStates, CallsNested,
     OneCallAsks, StateMatchesCalls, StateMatchesHanding, OneHolder, CallRequest,
     ownerVars, Caller, Running
<1>p4. StateMatchesHanding'
  BY <1>0, <1>f DEF IndInv, TypeOK, ArbiterTypeOK, ArbStates, CallsNested,
     OneCallAsks, StateMatchesCalls, StateMatchesHanding, OneHolder, CallRequest,
     ownerVars, Caller, Running
<1>p5. OneHolder'
  BY <1>0, <1>f DEF IndInv, TypeOK, ArbiterTypeOK, ArbStates, CallsNested,
     OneCallAsks, StateMatchesCalls, StateMatchesHanding, OneHolder,
     ClientsMatchCalls, CallRequest, ownerVars, Caller, Running
<1>p6. ClientsMatchCalls'
  BY <1>0, <1>f DEF IndInv, TypeOK, ArbiterTypeOK, ArbStates, CallsNested,
     ClientsMatchCalls, OneImmediateEach, ClientStates, OneHolder, CallRequest,
     ownerVars, Caller, Running
<1>p7. OneImmediateEach'
  BY <1>0, <1>f DEF IndInv, TypeOK, ArbiterTypeOK, ArbStates, ClientsMatchCalls,
     OneImmediateEach, CallRequest, ownerVars, Caller, Running
<1>p8. Moving'
  BY <1>0, <1>f DEF IndInv, TypeOK, ArbiterTypeOK, ArbStates, CallsNested,
     OneCallAsks, StateMatchesCalls, StateMatchesHanding, OneHolder, Moving,
     CallRequest, ownerVars, Caller, Running
<1>p9. AcceptedInOrder'
  BY <1>0, <1>f DEF IndInv, TypeOK, ArbiterTypeOK, ArbStates, CallsNested,
     StateMatchesCalls, StateMatchesHanding, AcceptedInOrder, Granted, NextUp,
     CallRequest, ownerVars, Caller, Running
<1>. QED
  BY <1>p0, <1>p1, <1>p2, <1>p3, <1>p4, <1>p5, <1>p6, <1>p7, <1>p8, <1>p9 DEF IndInv

(* A client calls immediateRequest. *)
LEMMA CallImmediateKeeps ==
  ASSUME IndInv, NEW c \in Clients, CallImmediate(c), UNCHANGED ownerVars
  PROVE  IndInv'
<1> USE ArbiterAssumption, OwnerAssumption
<1> USE DEF RequestPoints, ImmediatePoints, GrantPoints, Handing, At
<1>0. /\ stack \in Seq(Frames) /\ Len(stack) \in Nat
      /\ queue \in Seq(Clients) /\ accepted \in Seq(Clients)
      /\ client \in [Clients -> ClientStates]
  BY DEF IndInv, TypeOK, ArbiterTypeOK
<1>f. /\ stack' \in Seq(Frames)
      /\ Len(stack) \in Nat
      /\ Len(stack') = Len(stack) + 1
      /\ Len(stack') \in 1..Len(stack')
      /\ \A i \in 1..Len(stack') : i # Len(stack') => i \in 1..Len(stack)
      /\ \A i \in 1..Len(stack) : i \in 1..Len(stack') /\ stack'[i] = stack[i]
      /\ stack'[Len(stack')].at = "notifyImm"
      /\ stack'[Len(stack')].id = c
  <2>1. "notifyImm" \in RequestPoints \cup ImmediatePoints
    OBVIOUS
  <2>. QED
    BY <1>0, <2>1, CallFrames DEF CallImmediate
<1>p0. TypeOK'
  BY <1>0, <1>f DEF IndInv, TypeOK, ArbiterTypeOK, ArbStates, ClientStates,
     StateMatchesCalls, CallImmediate, ownerVars, Caller, Running
<1>p1. CallsNested'
  BY <1>0, <1>f DEF IndInv, TypeOK, ArbiterTypeOK, ArbStates, CallsNested,
     CallImmediate, ownerVars, Caller, Running
<1>p2. OneCallAsks'
  BY <1>0, <1>f DEF IndInv, TypeOK, ArbiterTypeOK, ArbStates, OneCallAsks,
     StateMatchesCalls, StateMatchesHanding, CallImmediate, ownerVars, Caller,
     Running
<1>p3. StateMatchesCalls'
  BY <1>0, <1>f DEF IndInv, TypeOK, ArbiterTypeOK, ArbStates, CallsNested,
     OneCallAsks, StateMatchesCalls, StateMatchesHanding, OneHolder, CallImmediate,
     ownerVars, Caller, Running
<1>p4. StateMatchesHanding'
  BY <1>0, <1>f DEF IndInv, TypeOK, ArbiterTypeOK, ArbStates, CallsNested,
     OneCallAsks, StateMatchesCalls, StateMatchesHanding, OneHolder, CallImmediate,
     ownerVars, Caller, Running
<1>p5. OneHolder'
  BY <1>0, <1>f DEF IndInv, TypeOK, ArbiterTypeOK, ArbStates, CallsNested,
     OneCallAsks, StateMatchesCalls, StateMatchesHanding, OneHolder,
     ClientsMatchCalls, CallImmediate, ownerVars, Caller, Running
<1>p6. ClientsMatchCalls'
  BY <1>0, <1>f DEF IndInv, TypeOK, ArbiterTypeOK, ArbStates, CallsNested,
     ClientsMatchCalls, OneImmediateEach, ClientStates, OneHolder, CallImmediate,
     ownerVars, Caller, Running
<1>p7. OneImmediateEach'
  BY <1>0, <1>f DEF IndInv, TypeOK, ArbiterTypeOK, ArbStates, ClientsMatchCalls,
     OneImmediateEach, CallImmediate, ownerVars, Caller, Running
<1>p8. Moving'
  BY <1>0, <1>f DEF IndInv, TypeOK, ArbiterTypeOK, ArbStates, CallsNested,
     OneCallAsks, StateMatchesCalls, StateMatchesHanding, OneHolder, Moving,
     CallImmediate, ownerVars, Caller, Running
<1>p9. AcceptedInOrder'
  BY <1>0, <1>f DEF IndInv, TypeOK, ArbiterTypeOK, ArbStates, CallsNested,
     StateMatchesCalls, StateMatchesHanding, AcceptedInOrder, Granted, NextUp,
     CallImmediate, ownerVars, Caller, Running
<1>. QED
  BY <1>p0, <1>p1, <1>p2, <1>p3, <1>p4, <1>p5, <1>p6, <1>p7, <1>p8, <1>p9 DEF IndInv

(* A request finds the resource with the default owner. *)
LEMMA ClaimedKeeps ==
  ASSUME IndInv, Claim, UNCHANGED ownerVars, state = "DEF_OWNED"
  PROVE  IndInv'
<1> USE ArbiterAssumption, OwnerAssumption
<1> USE DEF RequestPoints, ImmediatePoints, GrantPoints, Handing, At
<1>0. /\ stack \in Seq(Frames) /\ Len(stack) \in Nat
      /\ queue \in Seq(Clients) /\ accepted \in Seq(Clients)
      /\ client \in [Clients -> ClientStates]
  BY DEF IndInv, TypeOK, ArbiterTypeOK
<1>f. /\ stack' \in Seq(Frames)
      /\ Len(stack) \in 1..Len(stack)
      /\ Len(stack') = Len(stack)
      /\ \A i \in 1..Len(stack) : i # Len(stack) => stack'[i] = stack[i]
      /\ stack'[Len(stack)].at = "askOwner"
      /\ stack'[Len(stack)].id = Caller
  <2>1. "askOwner" \in RequestPoints \cup ImmediatePoints \cup GrantPoints
    OBVIOUS
  <2>. QED
    BY <1>0, <2>1, ContinueFrames DEF Claim, Running
<1>h. /\ queue # <<>> /\ Head(queue) \in Clients /\ Tail(queue) \in Seq(Clients)
      /\ reqResId' = Head(queue)
      /\ queue' = Tail(queue)
      /\ queue = <<Head(queue)>> \o Tail(queue)
  <2>1. At({"notify", "claim"})
    BY <1>f DEF At, Claim, Running
  <2>2. queue # <<>>
    BY <2>1 DEF IndInv, StateMatchesCalls
  <2>. QED
    BY <1>0, <2>2 DEF Claim
<1>p0. TypeOK'
  BY <1>0, <1>h, <1>f DEF IndInv, TypeOK, ArbiterTypeOK, ArbStates, ClientStates,
     StateMatchesCalls, Claim, ownerVars, Caller, Running
<1>p1. CallsNested'
  BY <1>0, <1>h, <1>f DEF IndInv, TypeOK, ArbiterTypeOK, ArbStates, CallsNested,
     Claim, ownerVars, Caller, Running
<1>p2. OneCallAsks'
  BY <1>0, <1>h, <1>f DEF IndInv, TypeOK, ArbiterTypeOK, ArbStates, OneCallAsks,
     StateMatchesCalls, StateMatchesHanding, Claim, ownerVars, Caller, Running
<1>p3. StateMatchesCalls'
  BY <1>0, <1>h, <1>f DEF IndInv, TypeOK, ArbiterTypeOK, ArbStates, CallsNested,
     OneCallAsks, StateMatchesCalls, StateMatchesHanding, OneHolder, Claim,
     ownerVars, Caller, Running
<1>p4. StateMatchesHanding'
  BY <1>0, <1>h, <1>f DEF IndInv, TypeOK, ArbiterTypeOK, ArbStates, CallsNested,
     OneCallAsks, StateMatchesCalls, StateMatchesHanding, OneHolder, Claim,
     ownerVars, Caller, Running
<1>p5. OneHolder'
  BY <1>0, <1>h, <1>f DEF IndInv, TypeOK, ArbiterTypeOK, ArbStates, CallsNested,
     OneCallAsks, StateMatchesCalls, StateMatchesHanding, OneHolder,
     ClientsMatchCalls, Claim, ownerVars, Caller, Running
<1>p6. ClientsMatchCalls'
  BY <1>0, <1>h, <1>f DEF IndInv, TypeOK, ArbiterTypeOK, ArbStates, CallsNested,
     ClientsMatchCalls, OneImmediateEach, ClientStates, OneHolder, Claim, ownerVars,
     Caller, Running
<1>p7. OneImmediateEach'
  BY <1>0, <1>h, <1>f DEF IndInv, TypeOK, ArbiterTypeOK, ArbStates,
     ClientsMatchCalls, OneImmediateEach, Claim, ownerVars, Caller, Running
<1>p8. Moving'
  BY <1>0, <1>h, <1>f DEF IndInv, TypeOK, ArbiterTypeOK, ArbStates, CallsNested,
     OneCallAsks, StateMatchesCalls, StateMatchesHanding, OneHolder, Moving, Claim,
     ownerVars, Caller, Running
<1>p9. AcceptedInOrder'
  BY <1>0, <1>h, <1>f DEF IndInv, TypeOK, ArbiterTypeOK, ArbStates, CallsNested,
     StateMatchesCalls, StateMatchesHanding, AcceptedInOrder, Granted, NextUp,
     Claim, ownerVars, Caller, Running
<1>. QED
  BY <1>p0, <1>p1, <1>p2, <1>p3, <1>p4, <1>p5, <1>p6, <1>p7, <1>p8, <1>p9 DEF IndInv

(* A request finds the resource on its way to a client, or with one. *)
LEMMA NotClaimedKeeps ==
  ASSUME IndInv, Claim, UNCHANGED ownerVars, state # "DEF_OWNED"
  PROVE  IndInv'
<1> USE ArbiterAssumption, OwnerAssumption
<1> USE DEF RequestPoints, ImmediatePoints, GrantPoints, Handing, At
<1>0. /\ stack \in Seq(Frames) /\ Len(stack) \in Nat
      /\ queue \in Seq(Clients) /\ accepted \in Seq(Clients)
      /\ client \in [Clients -> ClientStates]
  BY DEF IndInv, TypeOK, ArbiterTypeOK
<1>f. /\ stack' \in Seq(Frames)
      /\ Len(stack) \in Nat
      /\ Len(stack') = Len(stack) - 1
      /\ Len(stack) \in 1..Len(stack)
      /\ \A i \in 1..Len(stack') : i \in 1..Len(stack) /\ i # Len(stack) /\ stack'[i] = stack[i]
      /\ \A i \in 1..Len(stack) : i # Len(stack) => i \in 1..Len(stack')
  BY <1>0, ReturnFrames DEF Claim, Running
<1>p0. TypeOK'
  BY <1>0, <1>f DEF IndInv, TypeOK, ArbiterTypeOK, ArbStates, ClientStates,
     StateMatchesCalls, Claim, ownerVars, Caller, Running
<1>p1. CallsNested'
  BY <1>f DEF IndInv, CallsNested
<1>p2. OneCallAsks'
  BY <1>f DEF IndInv, OneCallAsks
<1>p3. StateMatchesCalls'
  BY <1>0, <1>f DEF IndInv, TypeOK, ArbiterTypeOK, ArbStates, CallsNested,
     OneCallAsks, StateMatchesCalls, StateMatchesHanding, OneHolder, Claim,
     ownerVars, Caller, Running
<1>p4. StateMatchesHanding'
  BY <1>0, <1>f DEF IndInv, TypeOK, ArbiterTypeOK, ArbStates, CallsNested,
     OneCallAsks, StateMatchesCalls, StateMatchesHanding, OneHolder, Claim,
     ownerVars, Caller, Running
<1>p5. OneHolder'
  BY <1>0, <1>f DEF IndInv, TypeOK, ArbiterTypeOK, ArbStates, CallsNested,
     OneCallAsks, StateMatchesCalls, StateMatchesHanding, OneHolder,
     ClientsMatchCalls, Claim, ownerVars, Caller, Running
<1>p6. ClientsMatchCalls'
  BY <1>0, <1>f DEF IndInv, TypeOK, ArbiterTypeOK, ArbStates, CallsNested,
     ClientsMatchCalls, OneImmediateEach, ClientStates, OneHolder, Claim, ownerVars,
     Caller, Running
<1>p7. OneImmediateEach'
  BY <1>f DEF IndInv, OneImmediateEach
<1>p8. Moving'
  BY <1>0, <1>f DEF IndInv, TypeOK, ArbiterTypeOK, ArbStates, CallsNested,
     OneCallAsks, StateMatchesCalls, StateMatchesHanding, OneHolder, Moving, Claim,
     ownerVars, Caller, Running
<1>p9. AcceptedInOrder'
  BY <1>0, <1>f DEF IndInv, TypeOK, ArbiterTypeOK, ArbStates, CallsNested,
     StateMatchesCalls, StateMatchesHanding, AcceptedInOrder, Granted, NextUp,
     Claim, ownerVars, Caller, Running
<1>. QED
  BY <1>p0, <1>p1, <1>p2, <1>p3, <1>p4, <1>p5, <1>p6, <1>p7, <1>p8, <1>p9 DEF IndInv

(* The default owner is asked for the resource. *)
LEMMA AskOwnerKeeps ==
  ASSUME IndInv, AskOwner(OwnerRequested)
  PROVE  IndInv'
<1> USE ArbiterAssumption, OwnerAssumption
<1> USE DEF RequestPoints, ImmediatePoints, GrantPoints, Handing, At
<1>0. /\ stack \in Seq(Frames) /\ Len(stack) \in Nat
      /\ queue \in Seq(Clients) /\ accepted \in Seq(Clients)
      /\ client \in [Clients -> ClientStates]
  BY DEF IndInv, TypeOK, ArbiterTypeOK
<1>f. /\ stack' \in Seq(Frames)
      /\ Len(stack) \in Nat
      /\ Len(stack') = Len(stack) - 1
      /\ Len(stack) \in 1..Len(stack)
      /\ \A i \in 1..Len(stack') : i \in 1..Len(stack) /\ i # Len(stack) /\ stack'[i] = stack[i]
      /\ \A i \in 1..Len(stack) : i # Len(stack) => i \in 1..Len(stack')
  BY <1>0, ReturnFrames DEF AskOwner, Running
<1>p0. TypeOK'
  BY <1>0, <1>f DEF IndInv, TypeOK, ArbiterTypeOK, ArbStates, ClientStates,
     StateMatchesCalls, AskOwner, OwnerRequested, OwnerLetsGo, OwnerKeeps,
     OwnerRelease, OwnerReleaseSucceeds, Caller, Running
<1>p1. CallsNested'
  BY <1>f DEF IndInv, CallsNested
<1>p2. OneCallAsks'
  BY <1>f DEF IndInv, OneCallAsks
<1>p3. StateMatchesCalls'
  <2>1. /\ state = "PREGRANT" /\ resId = default_owner_id /\ reqResId \in Clients
        /\ ~At({"grant", "configure", "signal"})
        /\ stack[Len(stack)].at = "askOwner"
    BY <1>f DEF IndInv, StateMatchesCalls, AskOwner, Running
  <2>2. ~At({"askOwner"})' /\ ~At({"grant"})' /\ ~At({"configure", "signal"})'
    BY <2>1, <1>f DEF IndInv, OneCallAsks
  <2>3. CASE OwnerLetsGo
    <3>1. state' = "GRANTING" /\ resId' = resId /\ reqResId' = reqResId /\ ~ownerOwes'
      BY <2>1, <2>3 DEF OwnerLetsGo, OwnerRelease
    <3>. HIDE DEF At
    <3>. QED
      BY <2>1, <2>2, <3>1 DEF StateMatchesCalls
  <2>4. CASE OwnerKeeps(TRUE)
    <3>1. UNCHANGED <<state, resId, reqResId, granting>>
      BY <2>4 DEF OwnerKeeps
    <3>2. ~granting
      BY <2>1 DEF IndInv, StateMatchesCalls
    <3>. HIDE DEF At
    <3>. QED
      BY <2>1, <2>2, <3>1, <3>2 DEF StateMatchesCalls
  <2>. QED
    BY <2>3, <2>4 DEF AskOwner, OwnerRequested
<1>p4. StateMatchesHanding'
  BY <1>0, <1>f DEF IndInv, TypeOK, ArbiterTypeOK, ArbStates, CallsNested,
     OneCallAsks, StateMatchesCalls, StateMatchesHanding, OneHolder, AskOwner,
     OwnerRequested, OwnerLetsGo, OwnerKeeps, OwnerRelease, OwnerReleaseSucceeds,
     Caller, Running
<1>p5. OneHolder'
  BY <1>0, <1>f DEF IndInv, TypeOK, ArbiterTypeOK, ArbStates, CallsNested,
     OneCallAsks, StateMatchesCalls, StateMatchesHanding, OneHolder,
     ClientsMatchCalls, AskOwner, OwnerRequested, OwnerLetsGo, OwnerKeeps,
     OwnerRelease, OwnerReleaseSucceeds, Caller, Running
<1>p6. ClientsMatchCalls'
  BY <1>0, <1>f DEF IndInv, TypeOK, ArbiterTypeOK, ArbStates, CallsNested,
     ClientsMatchCalls, OneImmediateEach, ClientStates, OneHolder, AskOwner,
     OwnerRequested, OwnerLetsGo, OwnerKeeps, OwnerRelease, OwnerReleaseSucceeds,
     Caller, Running
<1>p7. OneImmediateEach'
  BY <1>f DEF IndInv, OneImmediateEach
<1>p8. Moving'
  BY <1>0, <1>f DEF IndInv, TypeOK, ArbiterTypeOK, ArbStates, CallsNested,
     OneCallAsks, StateMatchesCalls, StateMatchesHanding, OneHolder, Moving,
     AskOwner, OwnerRequested, OwnerLetsGo, OwnerKeeps, OwnerRelease,
     OwnerReleaseSucceeds, Caller, Running
<1>p9. AcceptedInOrder'
  BY <1>0, <1>f DEF IndInv, TypeOK, ArbiterTypeOK, ArbStates, CallsNested,
     StateMatchesCalls, StateMatchesHanding, AcceptedInOrder, Granted, NextUp,
     AskOwner, OwnerRequested, OwnerLetsGo, OwnerKeeps, OwnerRelease,
     OwnerReleaseSucceeds, Caller, Running
<1>. QED
  BY <1>p0, <1>p1, <1>p2, <1>p3, <1>p4, <1>p5, <1>p6, <1>p7, <1>p8, <1>p9 DEF IndInv

(* An immediate request finds the resource with the default owner. *)
LEMMA TakenKeeps ==
  ASSUME IndInv, Take, UNCHANGED ownerVars, state = "DEF_OWNED"
  PROVE  IndInv'
<1> USE ArbiterAssumption, OwnerAssumption
<1> USE DEF RequestPoints, ImmediatePoints, GrantPoints, Handing, At
<1>0. /\ stack \in Seq(Frames) /\ Len(stack) \in Nat
      /\ queue \in Seq(Clients) /\ accepted \in Seq(Clients)
      /\ client \in [Clients -> ClientStates]
  BY DEF IndInv, TypeOK, ArbiterTypeOK
<1>f. /\ stack' \in Seq(Frames)
      /\ Len(stack) \in 1..Len(stack)
      /\ Len(stack') = Len(stack)
      /\ \A i \in 1..Len(stack) : i # Len(stack) => stack'[i] = stack[i]
      /\ stack'[Len(stack)].at = "askOwnerImm"
      /\ stack'[Len(stack)].id = Caller
  <2>1. "askOwnerImm" \in RequestPoints \cup ImmediatePoints \cup GrantPoints
    OBVIOUS
  <2>. QED
    BY <1>0, <2>1, ContinueFrames DEF Take, Running
<1>p0. TypeOK'
  <2>1. Caller \in Clients
    BY <1>f DEF IndInv, CallsNested, Take, Running, Caller
  <2>. QED
    BY <2>1, <1>f DEF IndInv, TypeOK, ArbiterTypeOK, ArbStates, Take, ownerVars
<1>p1. CallsNested'
  BY <1>0, <1>f DEF IndInv, TypeOK, ArbiterTypeOK, ArbStates, CallsNested, Take,
     ownerVars, Caller, Running
<1>p2. OneCallAsks'
  BY <1>0, <1>f DEF IndInv, TypeOK, ArbiterTypeOK, ArbStates, OneCallAsks,
     StateMatchesCalls, StateMatchesHanding, Take, ownerVars, Caller, Running
<1>p3. StateMatchesCalls'
  BY <1>0, <1>f DEF IndInv, TypeOK, ArbiterTypeOK, ArbStates, CallsNested,
     OneCallAsks, StateMatchesCalls, StateMatchesHanding, OneHolder, Take,
     ownerVars, Caller, Running
<1>p4. StateMatchesHanding'
  BY <1>0, <1>f DEF IndInv, TypeOK, ArbiterTypeOK, ArbStates, CallsNested,
     OneCallAsks, StateMatchesCalls, StateMatchesHanding, OneHolder, Take,
     ownerVars, Caller, Running
<1>p5. OneHolder'
  BY <1>0, <1>f DEF IndInv, TypeOK, ArbiterTypeOK, ArbStates, CallsNested,
     OneCallAsks, StateMatchesCalls, StateMatchesHanding, OneHolder,
     ClientsMatchCalls, Take, ownerVars, Caller, Running
<1>p6. ClientsMatchCalls'
  BY <1>0, <1>f DEF IndInv, TypeOK, ArbiterTypeOK, ArbStates, CallsNested,
     ClientsMatchCalls, OneImmediateEach, ClientStates, OneHolder, Take, ownerVars,
     Caller, Running
<1>p7. OneImmediateEach'
  BY <1>0, <1>f DEF IndInv, TypeOK, ArbiterTypeOK, ArbStates, ClientsMatchCalls,
     OneImmediateEach, Take, ownerVars, Caller, Running
<1>p8. Moving'
  BY <1>0, <1>f DEF IndInv, TypeOK, ArbiterTypeOK, ArbStates, CallsNested,
     OneCallAsks, StateMatchesCalls, StateMatchesHanding, OneHolder, Moving, Take,
     ownerVars, Caller, Running
<1>p9. AcceptedInOrder'
  BY <1>0, <1>f DEF IndInv, TypeOK, ArbiterTypeOK, ArbStates, CallsNested,
     StateMatchesCalls, StateMatchesHanding, AcceptedInOrder, Granted, NextUp, Take,
     ownerVars, Caller, Running
<1>. QED
  BY <1>p0, <1>p1, <1>p2, <1>p3, <1>p4, <1>p5, <1>p6, <1>p7, <1>p8, <1>p9 DEF IndInv

(* An immediate request fails. *)
LEMMA NotTakenKeeps ==
  ASSUME IndInv, Take, UNCHANGED ownerVars, state # "DEF_OWNED"
  PROVE  IndInv'
<1> USE ArbiterAssumption, OwnerAssumption
<1> USE DEF RequestPoints, ImmediatePoints, GrantPoints, Handing, At
<1>0. /\ stack \in Seq(Frames) /\ Len(stack) \in Nat
      /\ queue \in Seq(Clients) /\ accepted \in Seq(Clients)
      /\ client \in [Clients -> ClientStates]
  BY DEF IndInv, TypeOK, ArbiterTypeOK
<1>f. /\ stack' \in Seq(Frames)
      /\ Len(stack) \in Nat
      /\ Len(stack') = Len(stack) - 1
      /\ Len(stack) \in 1..Len(stack)
      /\ \A i \in 1..Len(stack') : i \in 1..Len(stack) /\ i # Len(stack) /\ stack'[i] = stack[i]
      /\ \A i \in 1..Len(stack) : i # Len(stack) => i \in 1..Len(stack')
  BY <1>0, ReturnFrames DEF Take, Fail, Running
<1>h. /\ Caller \in Clients /\ client[Caller] = "trying"
      /\ client' = [client EXCEPT ![Caller] = "idle"]
      /\ \A i \in 1..Len(stack') : stack'[i].at \in ImmediatePoints => stack'[i].id # Caller
  <2>1. Caller \in Clients /\ client[Caller] = "trying" /\ client' = [client EXCEPT ![Caller] = "idle"]
    BY <1>f DEF IndInv, CallsNested, ClientsMatchCalls, Take, Fail, Running, Caller
  <2>2. \A i \in 1..Len(stack') : stack'[i].at \in ImmediatePoints => stack'[i].id # Caller
    BY <1>f DEF IndInv, OneImmediateEach, Take, Running, Caller
  <2>. QED
    BY <2>1, <2>2
<1>p0. TypeOK'
  BY <1>0, <1>f DEF IndInv, TypeOK, ArbiterTypeOK, ArbStates, ClientStates,
     StateMatchesCalls, Take, Fail, ownerVars, Caller, Running
<1>p1. CallsNested'
  BY <1>f DEF IndInv, CallsNested
<1>p2. OneCallAsks'
  BY <1>f DEF IndInv, OneCallAsks
<1>p3. StateMatchesCalls'
  BY <1>0, <1>f DEF IndInv, TypeOK, ArbiterTypeOK, ArbStates, CallsNested,
     OneCallAsks, StateMatchesCalls, StateMatchesHanding, OneHolder, Take, Fail,
     ownerVars, Caller, Running
<1>p4. StateMatchesHanding'
  BY <1>0, <1>f DEF IndInv, TypeOK, ArbiterTypeOK, ArbStates, CallsNested,
     OneCallAsks, StateMatchesCalls, StateMatchesHanding, OneHolder, Take, Fail,
     ownerVars, Caller, Running
<1>p5. OneHolder'
  BY <1>0, <1>f DEF IndInv, TypeOK, ArbiterTypeOK, ArbStates, CallsNested,
     OneCallAsks, StateMatchesCalls, StateMatchesHanding, OneHolder,
     ClientsMatchCalls, Take, Fail, ownerVars, Caller, Running
<1>p6. ClientsMatchCalls'
  <2> SUFFICES ASSUME NEW i \in 1..Len(stack')
               PROVE  /\ stack'[i].at \in ImmediatePoints => client'[stack'[i].id] = "trying"
                      /\ stack'[i].at = "enqueue" => client'[stack'[i].id] = "idle"
    BY DEF ClientsMatchCalls
  <2>1. i \in 1..Len(stack) /\ stack'[i] = stack[i]
    BY <1>f
  <2>2. stack'[i].at \notin GrantPoints => stack'[i].id \in Clients
    BY <2>1 DEF IndInv, CallsNested
  <2>3. /\ stack'[i].at \in ImmediatePoints => client[stack'[i].id] = "trying"
        /\ stack'[i].at = "enqueue" => client[stack'[i].id] = "idle"
    BY <2>1 DEF IndInv, ClientsMatchCalls
  <2>. QED
    BY <1>0, <1>h, <2>2, <2>3
<1>p7. OneImmediateEach'
  BY <1>f DEF IndInv, OneImmediateEach
<1>p8. Moving'
  <2>1. /\ \A S : At(S) => At(S)' \/ "take" \in S
        /\ UNCHANGED <<state, resId, reqResId, queue, granting, ownerOwes>>
    BY <1>f DEF Take, Running, ownerVars
  <2>2. \A c \in Clients : client[c] = "owner" => client'[c] = "owner"
    BY <1>0, <1>h
  <2>3. state = "BUSY" => resId \in Clients
    BY DEF IndInv, StateMatchesCalls
  <2>. HIDE DEF At
  <2>. QED
    BY <2>1, <2>2, <2>3 DEF IndInv, Moving
<1>p9. AcceptedInOrder'
  BY <1>0, <1>f DEF IndInv, TypeOK, ArbiterTypeOK, ArbStates, CallsNested,
     StateMatchesCalls, StateMatchesHanding, AcceptedInOrder, Granted, NextUp, Take,
     Fail, ownerVars, Caller, Running
<1>. QED
  BY <1>p0, <1>p1, <1>p2, <1>p3, <1>p4, <1>p5, <1>p6, <1>p7, <1>p8, <1>p9 DEF IndInv

(* The default owner is asked for the resource immediately. *)
LEMMA AskOwnerImmKeeps ==
  ASSUME IndInv, AskOwnerImm(OwnerImmediateRequested)
  PROVE  IndInv'
<1> USE ArbiterAssumption, OwnerAssumption
<1> USE DEF RequestPoints, ImmediatePoints, GrantPoints, Handing, At
<1>0. /\ stack \in Seq(Frames) /\ Len(stack) \in Nat
      /\ queue \in Seq(Clients) /\ accepted \in Seq(Clients)
      /\ client \in [Clients -> ClientStates]
  BY DEF IndInv, TypeOK, ArbiterTypeOK
<1>f. /\ stack' \in Seq(Frames)
      /\ Len(stack) \in 1..Len(stack)
      /\ Len(stack') = Len(stack)
      /\ \A i \in 1..Len(stack) : i # Len(stack) => stack'[i] = stack[i]
      /\ stack'[Len(stack)].at = "check"
      /\ stack'[Len(stack)].id = Caller
  <2>1. "check" \in RequestPoints \cup ImmediatePoints \cup GrantPoints
    OBVIOUS
  <2>. QED
    BY <1>0, <2>1, ContinueFrames DEF AskOwnerImm, Running
<1>p0. TypeOK'
  BY <1>0, <1>f DEF IndInv, TypeOK, ArbiterTypeOK, ArbStates, ClientStates,
     StateMatchesCalls, AskOwnerImm, OwnerImmediateRequested, OwnerLetsGo,
     OwnerKeeps, OwnerRelease, OwnerReleaseSucceeds, Caller, Running
<1>p1. CallsNested'
  BY <1>0, <1>f DEF IndInv, TypeOK, ArbiterTypeOK, ArbStates, CallsNested,
     AskOwnerImm, OwnerImmediateRequested, OwnerLetsGo, OwnerKeeps, OwnerRelease,
     OwnerReleaseSucceeds, Caller, Running
<1>p2. OneCallAsks'
  BY <1>0, <1>f DEF IndInv, TypeOK, ArbiterTypeOK, ArbStates, OneCallAsks,
     StateMatchesCalls, StateMatchesHanding, AskOwnerImm, OwnerImmediateRequested,
     OwnerLetsGo, OwnerKeeps, OwnerRelease, OwnerReleaseSucceeds, Caller, Running
<1>p3. StateMatchesCalls'
  <2>1. /\ state = "IMM_GRANTING" /\ resId = default_owner_id
        /\ reqResId = Caller /\ Caller \in Clients
        /\ ~ownerOwes /\ ~granting
        /\ ~At({"grant"}) /\ ~At({"configure", "signal"}) /\ ~At({"askOwner"})
        /\ At({"notify", "claim"}) => queue # <<>>
        /\ queue' = queue
    BY <1>f DEF IndInv, CallsNested, StateMatchesCalls, StateMatchesHanding,
       AskOwnerImm, Running, Caller
  <2>2. /\ ~At({"grant"})' /\ ~At({"configure", "signal"})' /\ ~At({"askOwner"})'
        /\ At({"notify", "claim"})' => At({"notify", "claim"})
    BY <2>1, <1>f
  <2>. HIDE DEF At
  <2>3. CASE OwnerLetsGo
    <3>1. state' = "BUSY" /\ resId' = Caller /\ granting' = granting /\ ~ownerOwes'
      BY <2>1, <2>3 DEF OwnerLetsGo, OwnerRelease
    <3>. QED
      BY <2>1, <2>2, <3>1 DEF StateMatchesCalls
  <2>4. CASE OwnerKeeps(ownerOwes)
    <3>1. UNCHANGED <<state, resId, reqResId, granting, ownerOwes>>
      BY <2>4 DEF OwnerKeeps
    <3>. QED
      BY <2>1, <2>2, <3>1 DEF StateMatchesCalls
  <2>. QED
    BY <2>3, <2>4 DEF AskOwnerImm, OwnerImmediateRequested
<1>p4. StateMatchesHanding'
  BY <1>0, <1>f DEF IndInv, TypeOK, ArbiterTypeOK, ArbStates, CallsNested,
     OneCallAsks, StateMatchesCalls, StateMatchesHanding, OneHolder, AskOwnerImm,
     OwnerImmediateRequested, OwnerLetsGo, OwnerKeeps, OwnerRelease,
     OwnerReleaseSucceeds, Caller, Running
<1>p5. OneHolder'
  BY <1>0, <1>f DEF IndInv, TypeOK, ArbiterTypeOK, ArbStates, CallsNested,
     OneCallAsks, StateMatchesCalls, StateMatchesHanding, OneHolder,
     ClientsMatchCalls, AskOwnerImm, OwnerImmediateRequested, OwnerLetsGo,
     OwnerKeeps, OwnerRelease, OwnerReleaseSucceeds, Caller, Running
<1>p6. ClientsMatchCalls'
  BY <1>0, <1>f DEF IndInv, TypeOK, ArbiterTypeOK, ArbStates, CallsNested,
     ClientsMatchCalls, OneImmediateEach, ClientStates, OneHolder, AskOwnerImm,
     OwnerImmediateRequested, OwnerLetsGo, OwnerKeeps, OwnerRelease,
     OwnerReleaseSucceeds, Caller, Running
<1>p7. OneImmediateEach'
  BY <1>0, <1>f DEF IndInv, TypeOK, ArbiterTypeOK, ArbStates, ClientsMatchCalls,
     OneImmediateEach, AskOwnerImm, OwnerImmediateRequested, OwnerLetsGo,
     OwnerKeeps, OwnerRelease, OwnerReleaseSucceeds, Caller, Running
<1>p8. Moving'
  BY <1>0, <1>f DEF IndInv, TypeOK, ArbiterTypeOK, ArbStates, CallsNested,
     OneCallAsks, StateMatchesCalls, StateMatchesHanding, OneHolder, Moving,
     AskOwnerImm, OwnerImmediateRequested, OwnerLetsGo, OwnerKeeps, OwnerRelease,
     OwnerReleaseSucceeds, Caller, Running
<1>p9. AcceptedInOrder'
  BY <1>0, <1>f DEF IndInv, TypeOK, ArbiterTypeOK, ArbStates, CallsNested,
     StateMatchesCalls, StateMatchesHanding, AcceptedInOrder, Granted, NextUp,
     AskOwnerImm, OwnerImmediateRequested, OwnerLetsGo, OwnerKeeps, OwnerRelease,
     OwnerReleaseSucceeds, Caller, Running
<1>. QED
  BY <1>p0, <1>p1, <1>p2, <1>p3, <1>p4, <1>p5, <1>p6, <1>p7, <1>p8, <1>p9 DEF IndInv

(* An immediate request succeeds. *)
LEMMA CheckOwnerKeeps ==
  ASSUME IndInv, Check, UNCHANGED ownerVars, resId = Caller
  PROVE  IndInv'
<1> USE ArbiterAssumption, OwnerAssumption
<1> USE DEF RequestPoints, ImmediatePoints, GrantPoints, Handing, At
<1>0. /\ stack \in Seq(Frames) /\ Len(stack) \in Nat
      /\ queue \in Seq(Clients) /\ accepted \in Seq(Clients)
      /\ client \in [Clients -> ClientStates]
  BY DEF IndInv, TypeOK, ArbiterTypeOK
<1>f. /\ stack' \in Seq(Frames)
      /\ Len(stack) \in Nat
      /\ Len(stack') = Len(stack) - 1
      /\ Len(stack) \in 1..Len(stack)
      /\ \A i \in 1..Len(stack') : i \in 1..Len(stack) /\ i # Len(stack) /\ stack'[i] = stack[i]
      /\ \A i \in 1..Len(stack) : i # Len(stack) => i \in 1..Len(stack')
  BY <1>0, ReturnFrames DEF Check, Running
<1>h. /\ Caller \in Clients /\ client[Caller] = "trying" /\ state = "BUSY" /\ resId = Caller
      /\ ~At({"configure", "signal"}) /\ configured = NO_RES /\ ~ownerHolds
      /\ \A c \in Clients : client[c] # "owner"
  <2>1. Caller \in Clients /\ client[Caller] = "trying" /\ resId = Caller
    BY <1>f DEF IndInv, CallsNested, ClientsMatchCalls, Check, Running, Caller
  <2>2. At({"check"})
    BY <1>f DEF Check, Running
  <2>3. state = "BUSY"
    BY <1>f, <2>1 DEF IndInv, StateMatchesHanding, StateMatchesCalls, Check, Running
  <2>4. ~At({"configure", "signal"}) /\ configured = NO_RES /\ ~ownerHolds
    BY <2>2, <2>3 DEF IndInv, OneHolder
  <2>5. \A c \in Clients : client[c] # "owner"
    BY <2>2 DEF IndInv, OneHolder
  <2>. QED
    BY <2>1, <2>3, <2>4, <2>5
<1>p0. TypeOK'
  BY <1>0, <1>f, <1>h DEF IndInv, TypeOK, ArbiterTypeOK, ClientStates, Check,
     ownerVars
<1>p1. CallsNested'
  BY <1>f DEF IndInv, CallsNested
<1>p2. OneCallAsks'
  BY <1>f DEF IndInv, OneCallAsks
<1>p3. StateMatchesCalls'
  BY <1>0, <1>f DEF IndInv, TypeOK, ArbiterTypeOK, ArbStates, CallsNested,
     OneCallAsks, StateMatchesCalls, StateMatchesHanding, OneHolder, Check,
     ownerVars, Caller, Running
<1>p4. StateMatchesHanding'
  BY <1>0, <1>f DEF IndInv, TypeOK, ArbiterTypeOK, ArbStates, CallsNested,
     OneCallAsks, StateMatchesCalls, StateMatchesHanding, OneHolder, Check,
     ownerVars, Caller, Running
<1>p5. OneHolder'
  <2>1. ~At({"check", "configure", "signal"})'
    BY <1>f, <1>h DEF IndInv, OneCallAsks, Check, Running
  <2>2. /\ client' = [client EXCEPT ![Caller] = "owner"]
        /\ configured' = Caller
        /\ UNCHANGED <<state, resId, ownerHolds>>
    BY DEF Check, ownerVars
  <2>. QED
    BY <1>0, <1>h, <2>1, <2>2 DEF OneHolder
<1>p6. ClientsMatchCalls'
  BY <1>0, <1>f DEF IndInv, TypeOK, ArbiterTypeOK, ArbStates, CallsNested,
     ClientsMatchCalls, OneImmediateEach, ClientStates, OneHolder, Check, ownerVars,
     Caller, Running
<1>p7. OneImmediateEach'
  BY <1>f DEF IndInv, OneImmediateEach
<1>p8. Moving'
  BY <1>0, <1>f DEF IndInv, TypeOK, ArbiterTypeOK, ArbStates, CallsNested,
     OneCallAsks, StateMatchesCalls, StateMatchesHanding, OneHolder, Moving, Check,
     ownerVars, Caller, Running
<1>p9. AcceptedInOrder'
  BY <1>0, <1>f DEF IndInv, TypeOK, ArbiterTypeOK, ArbStates, CallsNested,
     StateMatchesCalls, StateMatchesHanding, AcceptedInOrder, Granted, NextUp,
     Check, ownerVars, Caller, Running
<1>. QED
  BY <1>p0, <1>p1, <1>p2, <1>p3, <1>p4, <1>p5, <1>p6, <1>p7, <1>p8, <1>p9 DEF IndInv

(* The default owner kept the resource. *)
LEMMA CheckNotKeeps ==
  ASSUME IndInv, Check, UNCHANGED ownerVars, resId # Caller
  PROVE  IndInv'
<1> USE ArbiterAssumption, OwnerAssumption
<1> USE DEF RequestPoints, ImmediatePoints, GrantPoints, Handing, At
<1>0. /\ stack \in Seq(Frames) /\ Len(stack) \in Nat
      /\ queue \in Seq(Clients) /\ accepted \in Seq(Clients)
      /\ client \in [Clients -> ClientStates]
  BY DEF IndInv, TypeOK, ArbiterTypeOK
<1>f. /\ stack' \in Seq(Frames)
      /\ Len(stack) \in 1..Len(stack)
      /\ Len(stack') = Len(stack)
      /\ \A i \in 1..Len(stack) : i # Len(stack) => stack'[i] = stack[i]
      /\ stack'[Len(stack)].at = "giveUp"
      /\ stack'[Len(stack)].id = Caller
  <2>1. "giveUp" \in RequestPoints \cup ImmediatePoints \cup GrantPoints
    OBVIOUS
  <2>. QED
    BY <1>0, <2>1, ContinueFrames DEF Check, Running
<1>p0. TypeOK'
  BY <1>0, <1>f DEF IndInv, TypeOK, ArbiterTypeOK, ArbStates, ClientStates,
     StateMatchesCalls, Check, ownerVars, Caller, Running
<1>p1. CallsNested'
  BY <1>0, <1>f DEF IndInv, TypeOK, ArbiterTypeOK, ArbStates, CallsNested, Check,
     ownerVars, Caller, Running
<1>p2. OneCallAsks'
  BY <1>0, <1>f DEF IndInv, TypeOK, ArbiterTypeOK, ArbStates, OneCallAsks,
     StateMatchesCalls, StateMatchesHanding, Check, ownerVars, Caller, Running
<1>p3. StateMatchesCalls'
  BY <1>0, <1>f DEF IndInv, TypeOK, ArbiterTypeOK, ArbStates, CallsNested,
     OneCallAsks, StateMatchesCalls, StateMatchesHanding, OneHolder, Check,
     ownerVars, Caller, Running
<1>p4. StateMatchesHanding'
  BY <1>0, <1>f DEF IndInv, TypeOK, ArbiterTypeOK, ArbStates, CallsNested,
     OneCallAsks, StateMatchesCalls, StateMatchesHanding, OneHolder, Check,
     ownerVars, Caller, Running
<1>p5. OneHolder'
  BY <1>0, <1>f DEF IndInv, TypeOK, ArbiterTypeOK, ArbStates, CallsNested,
     OneCallAsks, StateMatchesCalls, StateMatchesHanding, OneHolder,
     ClientsMatchCalls, Check, ownerVars, Caller, Running
<1>p6. ClientsMatchCalls'
  BY <1>0, <1>f DEF IndInv, TypeOK, ArbiterTypeOK, ArbStates, CallsNested,
     ClientsMatchCalls, OneImmediateEach, ClientStates, OneHolder, Check, ownerVars,
     Caller, Running
<1>p7. OneImmediateEach'
  BY <1>0, <1>f DEF IndInv, TypeOK, ArbiterTypeOK, ArbStates, ClientsMatchCalls,
     OneImmediateEach, Check, ownerVars, Caller, Running
<1>p8. Moving'
  BY <1>0, <1>f DEF IndInv, TypeOK, ArbiterTypeOK, ArbStates, CallsNested,
     OneCallAsks, StateMatchesCalls, StateMatchesHanding, OneHolder, Moving, Check,
     ownerVars, Caller, Running
<1>p9. AcceptedInOrder'
  BY <1>0, <1>f DEF IndInv, TypeOK, ArbiterTypeOK, ArbStates, CallsNested,
     StateMatchesCalls, StateMatchesHanding, AcceptedInOrder, Granted, NextUp,
     Check, ownerVars, Caller, Running
<1>. QED
  BY <1>p0, <1>p1, <1>p2, <1>p3, <1>p4, <1>p5, <1>p6, <1>p7, <1>p8, <1>p9 DEF IndInv

(* An immediate request forces DEF_OWNED and fails. *)
LEMMA GiveUpKeeps ==
  ASSUME IndInv, GiveUp, UNCHANGED ownerVars
  PROVE  IndInv'
<1> USE ArbiterAssumption, OwnerAssumption
<1> USE DEF RequestPoints, ImmediatePoints, GrantPoints, Handing, At
<1>0. /\ stack \in Seq(Frames) /\ Len(stack) \in Nat
      /\ queue \in Seq(Clients) /\ accepted \in Seq(Clients)
      /\ client \in [Clients -> ClientStates]
  BY DEF IndInv, TypeOK, ArbiterTypeOK
<1>f. /\ stack' \in Seq(Frames)
      /\ Len(stack) \in Nat
      /\ Len(stack') = Len(stack) - 1
      /\ Len(stack) \in 1..Len(stack)
      /\ \A i \in 1..Len(stack') : i \in 1..Len(stack) /\ i # Len(stack) /\ stack'[i] = stack[i]
      /\ \A i \in 1..Len(stack) : i # Len(stack) => i \in 1..Len(stack')
  BY <1>0, ReturnFrames DEF GiveUp, Fail, Running
<1>p0. TypeOK'
  BY <1>0, <1>f DEF IndInv, TypeOK, ArbiterTypeOK, ArbStates, ClientStates,
     StateMatchesCalls, GiveUp, Fail, ownerVars, Caller, Running
<1>p1. CallsNested'
  BY <1>f DEF IndInv, CallsNested
<1>p2. OneCallAsks'
  BY <1>f DEF IndInv, OneCallAsks
<1>p3. StateMatchesCalls'
  BY <1>0, <1>f DEF IndInv, TypeOK, ArbiterTypeOK, ArbStates, CallsNested,
     OneCallAsks, StateMatchesCalls, StateMatchesHanding, OneHolder, GiveUp, Fail,
     ownerVars, Caller, Running
<1>p4. StateMatchesHanding'
  BY <1>0, <1>f DEF IndInv, TypeOK, ArbiterTypeOK, ArbStates, CallsNested,
     OneCallAsks, StateMatchesCalls, StateMatchesHanding, OneHolder, GiveUp, Fail,
     ownerVars, Caller, Running
<1>p5. OneHolder'
  BY <1>0, <1>f DEF IndInv, TypeOK, ArbiterTypeOK, ArbStates, CallsNested,
     OneCallAsks, StateMatchesCalls, StateMatchesHanding, OneHolder,
     ClientsMatchCalls, GiveUp, Fail, ownerVars, Caller, Running
<1>p6. ClientsMatchCalls'
  BY <1>0, <1>f DEF IndInv, TypeOK, ArbiterTypeOK, ArbStates, CallsNested,
     ClientsMatchCalls, OneImmediateEach, ClientStates, OneHolder, GiveUp, Fail,
     ownerVars, Caller, Running
<1>p7. OneImmediateEach'
  BY <1>f DEF IndInv, OneImmediateEach
<1>p8. Moving'
  BY <1>0, <1>f DEF IndInv, TypeOK, ArbiterTypeOK, ArbStates, CallsNested,
     OneCallAsks, StateMatchesCalls, StateMatchesHanding, OneHolder, Moving, GiveUp,
     Fail, ownerVars, Caller, Running
<1>p9. AcceptedInOrder'
  BY <1>0, <1>f DEF IndInv, TypeOK, ArbiterTypeOK, ArbStates, CallsNested,
     StateMatchesCalls, StateMatchesHanding, AcceptedInOrder, Granted, NextUp,
     GiveUp, Fail, ownerVars, Caller, Running
<1>. QED
  BY <1>p0, <1>p1, <1>p2, <1>p3, <1>p4, <1>p5, <1>p6, <1>p7, <1>p8, <1>p9 DEF IndInv

(* A request is refused. *)
LEMMA EnqueueRefusedKeeps ==
  ASSUME IndInv, Enqueue, UNCHANGED ownerVars, reqResId = Caller \/ Contains(queue, Caller)
  PROVE  IndInv'
<1> USE ArbiterAssumption, OwnerAssumption
<1> USE DEF RequestPoints, ImmediatePoints, GrantPoints, Handing, At
<1>0. /\ stack \in Seq(Frames) /\ Len(stack) \in Nat
      /\ queue \in Seq(Clients) /\ accepted \in Seq(Clients)
      /\ client \in [Clients -> ClientStates]
  BY DEF IndInv, TypeOK, ArbiterTypeOK
<1>f. /\ stack' \in Seq(Frames)
      /\ Len(stack) \in Nat
      /\ Len(stack') = Len(stack) - 1
      /\ Len(stack) \in 1..Len(stack)
      /\ \A i \in 1..Len(stack') : i \in 1..Len(stack) /\ i # Len(stack) /\ stack'[i] = stack[i]
      /\ \A i \in 1..Len(stack) : i # Len(stack) => i \in 1..Len(stack')
  BY <1>0, ReturnFrames DEF Enqueue, Running
<1>p0. TypeOK'
  BY <1>0, <1>f DEF IndInv, TypeOK, ArbiterTypeOK, ArbStates, ClientStates,
     StateMatchesCalls, Enqueue, ownerVars, Caller, Running
<1>p1. CallsNested'
  BY <1>f DEF IndInv, CallsNested
<1>p2. OneCallAsks'
  BY <1>f DEF IndInv, OneCallAsks
<1>p3. StateMatchesCalls'
  BY <1>0, <1>f DEF IndInv, TypeOK, ArbiterTypeOK, ArbStates, CallsNested,
     OneCallAsks, StateMatchesCalls, StateMatchesHanding, OneHolder, Enqueue,
     ownerVars, Caller, Running
<1>p4. StateMatchesHanding'
  BY <1>0, <1>f DEF IndInv, TypeOK, ArbiterTypeOK, ArbStates, CallsNested,
     OneCallAsks, StateMatchesCalls, StateMatchesHanding, OneHolder, Enqueue,
     ownerVars, Caller, Running
<1>p5. OneHolder'
  BY <1>0, <1>f DEF IndInv, TypeOK, ArbiterTypeOK, ArbStates, CallsNested,
     OneCallAsks, StateMatchesCalls, StateMatchesHanding, OneHolder,
     ClientsMatchCalls, Enqueue, ownerVars, Caller, Running
<1>p6. ClientsMatchCalls'
  BY <1>0, <1>f DEF IndInv, TypeOK, ArbiterTypeOK, ArbStates, CallsNested,
     ClientsMatchCalls, OneImmediateEach, ClientStates, OneHolder, Enqueue,
     ownerVars, Caller, Running
<1>p7. OneImmediateEach'
  BY <1>f DEF IndInv, OneImmediateEach
<1>p8. Moving'
  BY <1>0, <1>f DEF IndInv, TypeOK, ArbiterTypeOK, ArbStates, CallsNested,
     OneCallAsks, StateMatchesCalls, StateMatchesHanding, OneHolder, Moving,
     Enqueue, ownerVars, Caller, Running
<1>p9. AcceptedInOrder'
  BY <1>0, <1>f DEF IndInv, TypeOK, ArbiterTypeOK, ArbStates, CallsNested,
     StateMatchesCalls, StateMatchesHanding, AcceptedInOrder, Granted, NextUp,
     Enqueue, ownerVars, Caller, Running
<1>. QED
  BY <1>p0, <1>p1, <1>p2, <1>p3, <1>p4, <1>p5, <1>p6, <1>p7, <1>p8, <1>p9 DEF IndInv

(* A request is accepted. *)
LEMMA EnqueueAcceptedKeeps ==
  ASSUME IndInv, Enqueue, UNCHANGED ownerVars, ~(reqResId = Caller \/ Contains(queue, Caller))
  PROVE  IndInv'
<1> USE ArbiterAssumption, OwnerAssumption
<1> USE DEF RequestPoints, ImmediatePoints, GrantPoints, Handing, At
<1>0. /\ stack \in Seq(Frames) /\ Len(stack) \in Nat
      /\ queue \in Seq(Clients) /\ accepted \in Seq(Clients)
      /\ client \in [Clients -> ClientStates]
  BY DEF IndInv, TypeOK, ArbiterTypeOK
<1>f. /\ stack' \in Seq(Frames)
      /\ Len(stack) \in 1..Len(stack)
      /\ Len(stack') = Len(stack)
      /\ \A i \in 1..Len(stack) : i # Len(stack) => stack'[i] = stack[i]
      /\ stack'[Len(stack)].at = "notify"
      /\ stack'[Len(stack)].id = Caller
  <2>1. "notify" \in RequestPoints \cup ImmediatePoints \cup GrantPoints
    OBVIOUS
  <2>. QED
    BY <1>0, <2>1, ContinueFrames DEF Enqueue, Running
<1>h. Caller \in Clients /\ queue' = Append(queue, Caller) /\ accepted' = Append(accepted, Caller)
  BY <1>f DEF IndInv, CallsNested, Enqueue, Running, Caller, GrantPoints
<1>p0. TypeOK'
  BY <1>0, <1>h, <1>f DEF IndInv, TypeOK, ArbiterTypeOK, ArbStates, ClientStates,
     StateMatchesCalls, Enqueue, ownerVars, Caller, Running
<1>p1. CallsNested'
  BY <1>0, <1>h, <1>f DEF IndInv, TypeOK, ArbiterTypeOK, ArbStates, CallsNested,
     Enqueue, ownerVars, Caller, Running
<1>p2. OneCallAsks'
  BY <1>0, <1>h, <1>f DEF IndInv, TypeOK, ArbiterTypeOK, ArbStates, OneCallAsks,
     StateMatchesCalls, StateMatchesHanding, Enqueue, ownerVars, Caller, Running
<1>p3. StateMatchesCalls'
  <2>1. \A S : At(S)' => At(S) \/ "notify" \in S
    BY <1>f
  <2>2. queue' # <<>>
    BY <1>0, <1>h
  <2>3. UNCHANGED <<state, resId, reqResId, granting, ownerOwes>>
    BY DEF Enqueue, ownerVars
  <2>. HIDE DEF At
  <2>. QED
    BY <2>1, <2>2, <2>3 DEF IndInv, StateMatchesCalls
<1>p4. StateMatchesHanding'
  BY <1>0, <1>h, <1>f DEF IndInv, TypeOK, ArbiterTypeOK, ArbStates, CallsNested,
     OneCallAsks, StateMatchesCalls, StateMatchesHanding, OneHolder, Enqueue,
     ownerVars, Caller, Running
<1>p5. OneHolder'
  BY <1>0, <1>h, <1>f DEF IndInv, TypeOK, ArbiterTypeOK, ArbStates, CallsNested,
     OneCallAsks, StateMatchesCalls, StateMatchesHanding, OneHolder,
     ClientsMatchCalls, Enqueue, ownerVars, Caller, Running
<1>p6. ClientsMatchCalls'
  BY <1>0, <1>h, <1>f DEF IndInv, TypeOK, ArbiterTypeOK, ArbStates, CallsNested,
     ClientsMatchCalls, OneImmediateEach, ClientStates, OneHolder, Enqueue,
     ownerVars, Caller, Running
<1>p7. OneImmediateEach'
  BY <1>0, <1>h, <1>f DEF IndInv, TypeOK, ArbiterTypeOK, ArbStates,
     ClientsMatchCalls, OneImmediateEach, Enqueue, ownerVars, Caller, Running
<1>p8. Moving'
  BY <1>0, <1>h, <1>f DEF IndInv, TypeOK, ArbiterTypeOK, ArbStates, CallsNested,
     OneCallAsks, StateMatchesCalls, StateMatchesHanding, OneHolder, Moving,
     Enqueue, ownerVars, Caller, Running
<1>p9. AcceptedInOrder'
  <2>1. UNCHANGED <<state, resId, reqResId>>
    BY DEF Enqueue
  <2>2. At({"configure", "signal"})' <=> At({"configure", "signal"})
    BY <1>f DEF Enqueue, Running
  <2>3. Granted' = Granted /\ NextUp' = NextUp
    BY <2>1, <2>2, Zenon DEF Granted, NextUp
  <2>4. Granted \o NextUp \in Seq(Clients)
    <3>1. Granted \in Seq(Clients) /\ NextUp \in Seq(Clients)
      BY DEF Granted, NextUp, IndInv, StateMatchesCalls
    <3>. QED
      BY <3>1
  <2>5. accepted' = (Granted \o NextUp) \o Append(queue, Caller)
    <3>1. accepted = (Granted \o NextUp) \o queue
      BY DEF IndInv, AcceptedInOrder
    <3>2. Append((Granted \o NextUp) \o queue, Caller) = (Granted \o NextUp) \o Append(queue, Caller)
      <4> DEFINE ahead == Granted \o NextUp
      <4>1. ahead \in Seq(Clients) /\ queue \in Seq(Clients) /\ Caller \in Clients
        BY <1>0, <1>h, <2>4
      <4>. HIDE DEF ahead
      <4>2. Append(ahead \o queue, Caller) = ahead \o Append(queue, Caller)
        BY <4>1
      <4>. QED
        BY <4>2 DEF ahead
    <3>. QED
      BY <1>h, <3>1, <3>2, Zenon
  <2>. QED
    BY <1>h, <2>3, <2>5 DEF AcceptedInOrder
<1>. QED
  BY <1>p0, <1>p1, <1>p2, <1>p3, <1>p4, <1>p5, <1>p6, <1>p7, <1>p8, <1>p9 DEF IndInv

(* grantedTask makes the client the owner. *)
LEMMA GrantKeeps ==
  ASSUME IndInv, Grant, UNCHANGED ownerVars
  PROVE  IndInv'
<1> USE ArbiterAssumption, OwnerAssumption
<1> USE DEF RequestPoints, ImmediatePoints, GrantPoints, Handing, At
<1>0. /\ stack \in Seq(Frames) /\ Len(stack) \in Nat
      /\ queue \in Seq(Clients) /\ accepted \in Seq(Clients)
      /\ client \in [Clients -> ClientStates]
  BY DEF IndInv, TypeOK, ArbiterTypeOK
<1>f. /\ stack' \in Seq(Frames)
      /\ Len(stack) \in 1..Len(stack)
      /\ Len(stack') = Len(stack)
      /\ \A i \in 1..Len(stack) : i # Len(stack) => stack'[i] = stack[i]
      /\ stack'[Len(stack)].at = "configure"
      /\ stack'[Len(stack)].id = Caller
  <2>1. "configure" \in RequestPoints \cup ImmediatePoints \cup GrantPoints
    OBVIOUS
  <2>. QED
    BY <1>0, <2>1, ContinueFrames DEF Grant, Running
<1>p0. TypeOK'
  BY <1>0, <1>f DEF IndInv, TypeOK, ArbiterTypeOK, ArbStates, ClientStates,
     StateMatchesCalls, Grant, ownerVars, Caller, Running
<1>p1. CallsNested'
  BY <1>0, <1>f DEF IndInv, TypeOK, ArbiterTypeOK, ArbStates, CallsNested, Grant,
     ownerVars, Caller, Running
<1>p2. OneCallAsks'
  BY <1>0, <1>f DEF IndInv, TypeOK, ArbiterTypeOK, ArbStates, OneCallAsks,
     StateMatchesCalls, StateMatchesHanding, Grant, ownerVars, Caller, Running
<1>p3. StateMatchesCalls'
  BY <1>0, <1>f DEF IndInv, TypeOK, ArbiterTypeOK, ArbStates, CallsNested,
     OneCallAsks, StateMatchesCalls, StateMatchesHanding, OneHolder, Grant,
     ownerVars, Caller, Running
<1>p4. StateMatchesHanding'
  BY <1>0, <1>f DEF IndInv, TypeOK, ArbiterTypeOK, ArbStates, CallsNested,
     OneCallAsks, StateMatchesCalls, StateMatchesHanding, OneHolder, Grant,
     ownerVars, Caller, Running
<1>p5. OneHolder'
  BY <1>0, <1>f DEF IndInv, TypeOK, ArbiterTypeOK, ArbStates, CallsNested,
     OneCallAsks, StateMatchesCalls, StateMatchesHanding, OneHolder,
     ClientsMatchCalls, Grant, ownerVars, Caller, Running
<1>p6. ClientsMatchCalls'
  BY <1>0, <1>f DEF IndInv, TypeOK, ArbiterTypeOK, ArbStates, CallsNested,
     ClientsMatchCalls, OneImmediateEach, ClientStates, OneHolder, Grant, ownerVars,
     Caller, Running
<1>p7. OneImmediateEach'
  BY <1>0, <1>f DEF IndInv, TypeOK, ArbiterTypeOK, ArbStates, ClientsMatchCalls,
     OneImmediateEach, Grant, ownerVars, Caller, Running
<1>p8. Moving'
  BY <1>0, <1>f DEF IndInv, TypeOK, ArbiterTypeOK, ArbStates, CallsNested,
     OneCallAsks, StateMatchesCalls, StateMatchesHanding, OneHolder, Moving, Grant,
     ownerVars, Caller, Running
<1>p9. AcceptedInOrder'
  BY <1>0, <1>f DEF IndInv, TypeOK, ArbiterTypeOK, ArbStates, CallsNested,
     StateMatchesCalls, StateMatchesHanding, AcceptedInOrder, Granted, NextUp,
     Grant, ownerVars, Caller, Running
<1>. QED
  BY <1>p0, <1>p1, <1>p2, <1>p3, <1>p4, <1>p5, <1>p6, <1>p7, <1>p8, <1>p9 DEF IndInv

(* grantedTask configures the hardware. *)
LEMMA ConfigureKeeps ==
  ASSUME IndInv, Configure, UNCHANGED ownerVars
  PROVE  IndInv'
<1> USE ArbiterAssumption, OwnerAssumption
<1> USE DEF RequestPoints, ImmediatePoints, GrantPoints, Handing, At
<1>0. /\ stack \in Seq(Frames) /\ Len(stack) \in Nat
      /\ queue \in Seq(Clients) /\ accepted \in Seq(Clients)
      /\ client \in [Clients -> ClientStates]
  BY DEF IndInv, TypeOK, ArbiterTypeOK
<1>f. /\ stack' \in Seq(Frames)
      /\ Len(stack) \in 1..Len(stack)
      /\ Len(stack') = Len(stack)
      /\ \A i \in 1..Len(stack) : i # Len(stack) => stack'[i] = stack[i]
      /\ stack'[Len(stack)].at = "signal"
      /\ stack'[Len(stack)].id = Caller
  <2>1. "signal" \in RequestPoints \cup ImmediatePoints \cup GrantPoints
    OBVIOUS
  <2>. QED
    BY <1>0, <2>1, ContinueFrames DEF Configure, Running
<1>p0. TypeOK'
  BY <1>0, <1>f DEF IndInv, TypeOK, ArbiterTypeOK, ArbStates, ClientStates,
     StateMatchesCalls, Configure, ownerVars, Caller, Running
<1>p1. CallsNested'
  BY <1>0, <1>f DEF IndInv, TypeOK, ArbiterTypeOK, ArbStates, CallsNested,
     Configure, ownerVars, Caller, Running
<1>p2. OneCallAsks'
  BY <1>0, <1>f DEF IndInv, TypeOK, ArbiterTypeOK, ArbStates, OneCallAsks,
     StateMatchesCalls, StateMatchesHanding, Configure, ownerVars, Caller, Running
<1>p3. StateMatchesCalls'
  BY <1>0, <1>f DEF IndInv, TypeOK, ArbiterTypeOK, ArbStates, CallsNested,
     OneCallAsks, StateMatchesCalls, StateMatchesHanding, OneHolder, Configure,
     ownerVars, Caller, Running
<1>p4. StateMatchesHanding'
  BY <1>0, <1>f DEF IndInv, TypeOK, ArbiterTypeOK, ArbStates, CallsNested,
     OneCallAsks, StateMatchesCalls, StateMatchesHanding, OneHolder, Configure,
     ownerVars, Caller, Running
<1>p5. OneHolder'
  BY <1>0, <1>f DEF IndInv, TypeOK, ArbiterTypeOK, ArbStates, CallsNested,
     OneCallAsks, StateMatchesCalls, StateMatchesHanding, OneHolder,
     ClientsMatchCalls, Configure, ownerVars, Caller, Running
<1>p6. ClientsMatchCalls'
  BY <1>0, <1>f DEF IndInv, TypeOK, ArbiterTypeOK, ArbStates, CallsNested,
     ClientsMatchCalls, OneImmediateEach, ClientStates, OneHolder, Configure,
     ownerVars, Caller, Running
<1>p7. OneImmediateEach'
  BY <1>0, <1>f DEF IndInv, TypeOK, ArbiterTypeOK, ArbStates, ClientsMatchCalls,
     OneImmediateEach, Configure, ownerVars, Caller, Running
<1>p8. Moving'
  BY <1>0, <1>f DEF IndInv, TypeOK, ArbiterTypeOK, ArbStates, CallsNested,
     OneCallAsks, StateMatchesCalls, StateMatchesHanding, OneHolder, Moving,
     Configure, ownerVars, Caller, Running
<1>p9. AcceptedInOrder'
  BY <1>0, <1>f DEF IndInv, TypeOK, ArbiterTypeOK, ArbStates, CallsNested,
     StateMatchesCalls, StateMatchesHanding, AcceptedInOrder, Granted, NextUp,
     Configure, ownerVars, Caller, Running
<1>. QED
  BY <1>p0, <1>p1, <1>p2, <1>p3, <1>p4, <1>p5, <1>p6, <1>p7, <1>p8, <1>p9 DEF IndInv

(* grantedTask signals granted(). *)
LEMMA SignalGrantedKeeps ==
  ASSUME IndInv, SignalGranted, UNCHANGED ownerVars
  PROVE  IndInv'
<1> USE ArbiterAssumption, OwnerAssumption
<1> USE DEF RequestPoints, ImmediatePoints, GrantPoints, Handing, At
<1>0. /\ stack \in Seq(Frames) /\ Len(stack) \in Nat
      /\ queue \in Seq(Clients) /\ accepted \in Seq(Clients)
      /\ client \in [Clients -> ClientStates]
  BY DEF IndInv, TypeOK, ArbiterTypeOK
<1>f. /\ stack' \in Seq(Frames)
      /\ Len(stack) \in Nat
      /\ Len(stack') = Len(stack) - 1
      /\ Len(stack) \in 1..Len(stack)
      /\ \A i \in 1..Len(stack') : i \in 1..Len(stack) /\ i # Len(stack) /\ stack'[i] = stack[i]
      /\ \A i \in 1..Len(stack) : i # Len(stack) => i \in 1..Len(stack')
  BY <1>0, ReturnFrames DEF SignalGranted, Running
<1>h. /\ Len(stack) = 1 /\ stack' = <<>>
      /\ state = "BUSY" /\ resId \in Clients /\ configured = resId /\ ~ownerHolds
      /\ \A c \in Clients : client[c] # "owner"
      /\ client' = [client EXCEPT ![resId] = "owner"]
      /\ accepted = <<resId>> \o queue
      /\ accepted' = queue
  <2>1. Len(stack) = 1
    BY <1>f DEF IndInv, CallsNested, SignalGranted, Running
  <2>2. At({"signal"}) /\ At({"configure", "signal"})
    BY <1>f DEF SignalGranted, Running
  <2>3. state = "BUSY" /\ resId \in Clients /\ configured = resId /\ ~ownerHolds
    BY <2>2 DEF IndInv, StateMatchesCalls, OneHolder
  <2>4. \A c \in Clients : client[c] # "owner"
    BY <1>f DEF IndInv, OneHolder, SignalGranted, Running
  <2>5. Granted = <<resId>> /\ NextUp = <<>>
    BY <2>2, <2>3 DEF Granted, NextUp
  <2>6. accepted = <<resId>> \o queue
    BY <1>0, <2>3, <2>5 DEF IndInv, AcceptedInOrder
  <2>7. accepted' = queue /\ client' = [client EXCEPT ![resId] = "owner"]
    <3>1. accepted # <<>> /\ Tail(accepted) = queue
      BY <1>0, <2>3, <2>6, TailOfConcat
    <3>. QED
      BY <2>3, <3>1 DEF SignalGranted
  <2>8. stack' = <<>>
    BY <1>f, <2>1
  <2>. QED
    BY <2>1, <2>3, <2>4, <2>6, <2>7, <2>8
<1>p0. TypeOK'
  BY <1>0, <1>f, <1>h DEF IndInv, TypeOK, ArbiterTypeOK, ClientStates,
     SignalGranted, ownerVars
<1>p1. CallsNested'
  BY <1>f DEF IndInv, CallsNested
<1>p2. OneCallAsks'
  BY <1>f DEF IndInv, OneCallAsks
<1>p3. StateMatchesCalls'
  BY <1>0, <1>f DEF IndInv, TypeOK, ArbiterTypeOK, ArbStates, CallsNested,
     OneCallAsks, StateMatchesCalls, StateMatchesHanding, OneHolder, SignalGranted,
     ownerVars, Caller, Running
<1>p4. StateMatchesHanding'
  BY <1>0, <1>f DEF IndInv, TypeOK, ArbiterTypeOK, ArbStates, CallsNested,
     OneCallAsks, StateMatchesCalls, StateMatchesHanding, OneHolder, SignalGranted,
     ownerVars, Caller, Running
<1>p5. OneHolder'
  <2>1. UNCHANGED <<state, resId, configured, ownerHolds>>
    BY DEF SignalGranted, ownerVars
  <2>. QED
    BY <1>0, <1>h, <2>1 DEF OneHolder
<1>p6. ClientsMatchCalls'
  BY <1>0, <1>f DEF IndInv, TypeOK, ArbiterTypeOK, ArbStates, CallsNested,
     ClientsMatchCalls, OneImmediateEach, ClientStates, OneHolder, SignalGranted,
     ownerVars, Caller, Running
<1>p7. OneImmediateEach'
  BY <1>f DEF IndInv, OneImmediateEach
<1>p8. Moving'
  BY <1>0, <1>f DEF IndInv, TypeOK, ArbiterTypeOK, ArbStates, CallsNested,
     OneCallAsks, StateMatchesCalls, StateMatchesHanding, OneHolder, Moving,
     SignalGranted, ownerVars, Caller, Running
<1>p9. AcceptedInOrder'
  <2>1. Granted' = <<>> /\ NextUp' = <<>> /\ queue' = queue
    BY <1>h DEF Granted, NextUp, SignalGranted
  <2>. QED
    BY <1>0, <1>h, <2>1 DEF AcceptedInOrder
<1>. QED
  BY <1>p0, <1>p1, <1>p2, <1>p3, <1>p4, <1>p5, <1>p6, <1>p7, <1>p8, <1>p9 DEF IndInv

(* A client releases the resource. *)
LEMMA ClientReleasesKeeps ==
  ASSUME IndInv, NEW c \in Clients, ClientReleases(c)
  PROVE  IndInv'
<1> USE ArbiterAssumption, OwnerAssumption
<1> USE DEF RequestPoints, ImmediatePoints, GrantPoints, Handing, At
<1>0. /\ stack \in Seq(Frames) /\ Len(stack) \in Nat
      /\ queue \in Seq(Clients) /\ accepted \in Seq(Clients)
      /\ client \in [Clients -> ClientStates]
  BY DEF IndInv, TypeOK, ArbiterTypeOK
<1>f. stack' = stack
  BY DEF ClientReleases, Release
<1>h. /\ state = "BUSY" /\ resId = c /\ client[c] = "owner"
      /\ ~At({"configure", "signal", "check", "grant"})
      /\ client' = [client EXCEPT ![c] = "idle"]
      /\ configured' = NO_RES
      /\ accepted = queue /\ accepted' = accepted
  <2>1. /\ state = "BUSY" /\ resId = c /\ client[c] = "owner"
        /\ client' = [client EXCEPT ![c] = "idle"] /\ configured' = NO_RES /\ accepted' = accepted
    BY DEF ClientReleases, Release, ReleaseSection
  <2>2. ~At({"configure", "signal", "check", "grant"})
    BY <2>1 DEF IndInv, OneHolder, StateMatchesCalls
  <2>3. Granted = <<>> /\ NextUp = <<>>
    BY <2>1, <2>2 DEF Granted, NextUp
  <2>4. accepted = queue
    BY <1>0, <2>3 DEF IndInv, AcceptedInOrder
  <2>. QED
    BY <2>1, <2>2, <2>4
<1>p0. TypeOK'
  <2>1. CASE queue = <<>>
    BY <1>0, <1>f, <1>h, <2>1
    DEF IndInv, TypeOK, ArbiterTypeOK, ArbStates, ClientStates, ClientReleases, Release,
        ReleaseSection, OwnerGranted, ownerVars
  <2>2. CASE queue # <<>>
    <3>1. Head(queue) \in Clients /\ Tail(queue) \in Seq(Clients)
      BY <1>0, <2>2
    <3>. QED
      BY <1>0, <1>f, <1>h, <2>2, <3>1
      DEF IndInv, TypeOK, ArbiterTypeOK, ArbStates, ClientStates, ClientReleases, Release,
          ReleaseSection, OwnerGranted, ownerVars
  <2>. QED
    BY <2>1, <2>2
<1>p1. CallsNested'
  BY <1>0, <1>f DEF IndInv, TypeOK, ArbiterTypeOK, ArbStates, CallsNested,
     ClientReleases, Release, ReleaseSection, OwnerGranted, ownerVars, Caller,
     Running
<1>p2. OneCallAsks'
  BY <1>0, <1>f DEF IndInv, TypeOK, ArbiterTypeOK, ArbStates, OneCallAsks,
     StateMatchesCalls, StateMatchesHanding, ClientReleases, Release,
     ReleaseSection, OwnerGranted, ownerVars, Caller, Running
<1>p3. StateMatchesCalls'
  BY <1>0, <1>f DEF IndInv, TypeOK, ArbiterTypeOK, ArbStates, CallsNested,
     OneCallAsks, StateMatchesCalls, StateMatchesHanding, OneHolder, ClientReleases,
     Release, ReleaseSection, OwnerGranted, ownerVars, Caller, Running
<1>p4. StateMatchesHanding'
  BY <1>0, <1>f DEF IndInv, TypeOK, ArbiterTypeOK, ArbStates, CallsNested,
     OneCallAsks, StateMatchesCalls, StateMatchesHanding, OneHolder, ClientReleases,
     Release, ReleaseSection, OwnerGranted, ownerVars, Caller, Running
<1>p5. OneHolder'
  BY <1>0, <1>f DEF IndInv, TypeOK, ArbiterTypeOK, ArbStates, CallsNested,
     OneCallAsks, StateMatchesCalls, StateMatchesHanding, OneHolder,
     ClientsMatchCalls, ClientReleases, Release, ReleaseSection, OwnerGranted,
     ownerVars, Caller, Running
<1>p6. ClientsMatchCalls'
  BY <1>0, <1>f DEF IndInv, TypeOK, ArbiterTypeOK, ArbStates, CallsNested,
     ClientsMatchCalls, OneImmediateEach, ClientStates, OneHolder, ClientReleases,
     Release, ReleaseSection, OwnerGranted, ownerVars, Caller, Running
<1>p7. OneImmediateEach'
  BY <1>0, <1>f DEF IndInv, TypeOK, ArbiterTypeOK, ArbStates, ClientsMatchCalls,
     OneImmediateEach, ClientReleases, Release, ReleaseSection, OwnerGranted,
     ownerVars, Caller, Running
<1>p8. Moving'
  BY <1>0, <1>f DEF IndInv, TypeOK, ArbiterTypeOK, ArbStates, CallsNested,
     OneCallAsks, StateMatchesCalls, StateMatchesHanding, OneHolder, Moving,
     ClientReleases, Release, ReleaseSection, OwnerGranted, ownerVars, Caller,
     Running
<1>p9. AcceptedInOrder'
  <2>1. Granted' = <<>>
    BY <1>f, <1>h DEF Granted
  <2>2. CASE queue = <<>>
    <3>1. NextUp' = <<>> /\ queue' = <<>>
      BY <1>h, <2>2 DEF ClientReleases, Release, ReleaseSection, NextUp
    <3>. QED
      BY <1>h, <2>1, <2>2, <3>1 DEF AcceptedInOrder
  <2>3. CASE queue # <<>>
    <3>1. NextUp' = <<Head(queue)>> /\ queue' = Tail(queue)
      BY <1>h, <2>3 DEF ClientReleases, Release, ReleaseSection, NextUp
    <3>2. queue = <<Head(queue)>> \o Tail(queue)
      BY <1>0, <2>3
    <3>. QED
      BY <1>0, <1>h, <2>1, <3>1, <3>2 DEF AcceptedInOrder
  <2>. QED
    BY <2>2, <2>3
<1>. QED
  BY <1>p0, <1>p1, <1>p2, <1>p3, <1>p4, <1>p5, <1>p6, <1>p7, <1>p8, <1>p9 DEF IndInv

(* The owner releases the resource to the request, and may request it again. *)
LEMMA NotifyReleaseKeeps ==
  ASSUME IndInv, NEW p, NEW next, NEW c \in Clients, resId = c, client[c] = "owner",
         \/ p = "notify" /\ next = "claim"
         \/ p = "notifyImm" /\ next = "take",
         Running(p), ReleaseSection(c, OwnerGranted, UNCHANGED ownerVars),
         client' = [client EXCEPT ![c] = "idle"], accepted' = accepted,
         Continue(next) \/ ContinueNested(next, c)
  PROVE  IndInv'
<1> USE ArbiterAssumption, OwnerAssumption
<1> USE DEF RequestPoints, ImmediatePoints, GrantPoints, Handing, At
<1>0. /\ stack \in Seq(Frames) /\ Len(stack) \in Nat
      /\ queue \in Seq(Clients) /\ accepted \in Seq(Clients)
      /\ client \in [Clients -> ClientStates]
  BY DEF IndInv, TypeOK, ArbiterTypeOK
<1>f. /\ stack' \in Seq(Frames)
      /\ Len(stack) \in 1..Len(stack)
      /\ Len(stack') \in {Len(stack), Len(stack) + 1}
      /\ \A i \in 1..Len(stack) : i # Len(stack) => stack'[i] = stack[i]
      /\ stack'[Len(stack)].at = next
      /\ stack'[Len(stack)].id = Caller
      /\ \A i \in 1..Len(stack') :
           i \notin 1..Len(stack) => stack'[i].at = "enqueue" /\ stack'[i].id = c
  <2>1. next \in RequestPoints \cup ImmediatePoints \cup GrantPoints
    OBVIOUS
  <2>2. CASE Continue(next)
    BY <1>0, <2>1, <2>2, ContinueFrames DEF Running
  <2>3. CASE ContinueNested(next, c)
    BY <1>0, <2>1, <2>3, NestedFrames DEF Running
  <2>. QED
    BY <2>2, <2>3
<1>h. /\ state = "BUSY" /\ resId = c /\ client[c] = "owner"
      /\ ~At({"configure", "signal", "check", "grant"})
      /\ client' = [client EXCEPT ![c] = "idle"]
      /\ configured' = NO_RES
      /\ accepted = queue /\ accepted' = accepted
  <2>1. /\ state = "BUSY" /\ resId = c /\ client[c] = "owner"
        /\ client' = [client EXCEPT ![c] = "idle"] /\ configured' = NO_RES /\ accepted' = accepted
    BY DEF ReleaseSection, Running
  <2>2. ~At({"configure", "signal", "check", "grant"})
    BY <2>1 DEF IndInv, OneHolder, StateMatchesCalls
  <2>3. Granted = <<>> /\ NextUp = <<>>
    BY <2>1, <2>2 DEF Granted, NextUp
  <2>4. accepted = queue
    BY <1>0, <2>3 DEF IndInv, AcceptedInOrder
  <2>. QED
    BY <2>1, <2>2, <2>4
<1>p0. TypeOK'
  <2>1. CASE queue = <<>>
    BY <1>0, <1>f, <1>h, <2>1
    DEF IndInv, TypeOK, ArbiterTypeOK, ArbStates, ClientStates, ClientReleases, Release,
        ReleaseSection, OwnerGranted, ownerVars
  <2>2. CASE queue # <<>>
    <3>1. Head(queue) \in Clients /\ Tail(queue) \in Seq(Clients)
      BY <1>0, <2>2
    <3>. QED
      BY <1>0, <1>f, <1>h, <2>2, <3>1
      DEF IndInv, TypeOK, ArbiterTypeOK, ArbStates, ClientStates, ClientReleases, Release,
          ReleaseSection, OwnerGranted, ownerVars
  <2>. QED
    BY <2>1, <2>2
<1>p1. CallsNested'
  BY <1>0, <1>f DEF IndInv, TypeOK, ArbiterTypeOK, ArbStates, CallsNested,
     ReleaseSection, OwnerGranted, ownerVars, Caller, Running
<1>p2. OneCallAsks'
  BY <1>0, <1>f DEF IndInv, TypeOK, ArbiterTypeOK, ArbStates, OneCallAsks,
     StateMatchesCalls, StateMatchesHanding, ReleaseSection, OwnerGranted,
     ownerVars, Caller, Running
<1>p3. StateMatchesCalls'
  <2>1. ~At({"grant"})' /\ ~At({"configure", "signal"})' /\ ~At({"askOwner"})'
    <3>1. ~At({"askOwner", "grant", "configure", "signal"})
      BY <1>h DEF IndInv, StateMatchesCalls
    <3>. QED
      BY <1>0, <1>f, <3>1
  <2>2. At({"notify", "claim"})' => At({"notify", "claim"}) \/ p = "notify"
    BY <1>0, <1>f
  <2>3. p = "notify" => At({"notify", "claim"})
    BY <1>f DEF Running
  <2>4. At({"notify", "claim"})' => queue # <<>>
    BY <1>h, <2>2, <2>3 DEF IndInv, StateMatchesCalls
  <2>5. CASE queue = <<>>
    <3>1. /\ state' = "DEF_OWNED" /\ resId' = default_owner_id
          /\ UNCHANGED <<granting, ownerOwes>>
      BY <2>5 DEF ReleaseSection, OwnerGranted
    <3>2. ~granting /\ ~ownerOwes
      BY <1>h DEF IndInv, StateMatchesCalls
    <3>. HIDE DEF At
    <3>. QED
      BY <2>1, <2>4, <2>5, <3>1, <3>2 DEF StateMatchesCalls
  <2>6. CASE queue # <<>>
    <3>1. /\ state' = "GRANTING" /\ resId' = NO_RES /\ reqResId' = Head(queue)
          /\ UNCHANGED ownerOwes
      BY <2>6 DEF ReleaseSection, ownerVars
    <3>2. ~ownerOwes /\ Head(queue) \in Clients
      BY <1>0, <1>h, <2>6 DEF IndInv, StateMatchesCalls
    <3>. HIDE DEF At
    <3>. QED
      BY <2>1, <2>6, <3>1, <3>2 DEF StateMatchesCalls
  <2>. QED
    BY <2>5, <2>6
<1>p4. StateMatchesHanding'
  BY <1>0, <1>f DEF IndInv, TypeOK, ArbiterTypeOK, ArbStates, CallsNested,
     OneCallAsks, StateMatchesCalls, StateMatchesHanding, OneHolder, ReleaseSection,
     OwnerGranted, ownerVars, Caller, Running
<1>p5. OneHolder'
  <2>1. ~At({"configure", "signal", "check"})' /\ ~At({"configure", "signal"})' /\ ~At({"check"})'
        /\ ~At({"configure", "check"})' /\ ~At({"signal"})'
    BY <1>0, <1>f, <1>h
  <2>2. \A d \in Clients : client'[d] # "owner"
    BY <1>0, <1>h DEF IndInv, OneHolder
  <2>3. /\ configured' = NO_RES
        /\ ownerHolds' => state' = "DEF_OWNED" \/ ownerHolds
    BY DEF ReleaseSection, OwnerGranted, ownerVars
  <2>4. ~ownerHolds
    BY <1>h DEF IndInv, OneHolder
  <2>. HIDE DEF At
  <2>. QED
    BY <2>1, <2>2, <2>3, <2>4 DEF OneHolder
<1>p6. ClientsMatchCalls'
  <2>1. \A i \in 1..Len(stack) : stack[i].at \in ImmediatePoints => stack[i].id # c
    BY <1>h DEF IndInv, ClientsMatchCalls
  <2>2. \A i \in 1..Len(stack) : stack[i].at \notin GrantPoints => stack[i].id \in Clients
    BY DEF IndInv, CallsNested
  <2>3. \A i \in 1..Len(stack') :
          \/ i \in 1..Len(stack) /\ stack'[i].id = stack[i].id
               /\ (stack'[i].at \in ImmediatePoints => stack[i].at \in ImmediatePoints)
               /\ (stack'[i].at = "enqueue" => stack[i].at = "enqueue")
               /\ (stack'[i].at \in ImmediatePoints \/ stack'[i].at = "enqueue"
                     => stack[i].at \notin GrantPoints)
          \/ stack'[i].at = "enqueue" /\ stack'[i].id = c
    BY <1>0, <1>f DEF Running, Caller
  <2>4. "enqueue" \notin ImmediatePoints
    OBVIOUS
  <2>. HIDE DEF ImmediatePoints, GrantPoints
  <2>. QED
    BY <1>0, <1>h, <2>1, <2>2, <2>3, <2>4 DEF IndInv, ClientsMatchCalls
<1>p7. OneImmediateEach'
  <2>1. \A i \in 1..Len(stack') : stack'[i].at \in ImmediatePoints =>
          i \in 1..Len(stack) /\ stack[i].at \in ImmediatePoints /\ stack'[i].id = stack[i].id
    BY <1>0, <1>f DEF Running, Caller
  <2>. QED
    BY <2>1 DEF IndInv, OneImmediateEach
<1>p8. Moving'
  BY <1>0, <1>f DEF IndInv, TypeOK, ArbiterTypeOK, ArbStates, CallsNested,
     OneCallAsks, StateMatchesCalls, StateMatchesHanding, OneHolder, Moving,
     ReleaseSection, OwnerGranted, ownerVars, Caller, Running
<1>p9. AcceptedInOrder'
  <2>1. Granted' = <<>>
    BY <1>f, <1>h DEF Granted
  <2>2. CASE queue = <<>>
    <3>1. NextUp' = <<>> /\ queue' = <<>>
      BY <1>h, <2>2 DEF ReleaseSection, Running, NextUp
    <3>. QED
      BY <1>h, <2>1, <2>2, <3>1 DEF AcceptedInOrder
  <2>3. CASE queue # <<>>
    <3>1. NextUp' = <<Head(queue)>> /\ queue' = Tail(queue)
      BY <1>h, <2>3 DEF ReleaseSection, Running, NextUp
    <3>2. queue = <<Head(queue)>> \o Tail(queue)
      BY <1>0, <2>3
    <3>. QED
      BY <1>0, <1>h, <2>1, <3>1, <3>2 DEF AcceptedInOrder
  <2>. QED
    BY <2>2, <2>3
<1>. QED
  BY <1>p0, <1>p1, <1>p2, <1>p3, <1>p4, <1>p5, <1>p6, <1>p7, <1>p8, <1>p9 DEF IndInv

(* The default owner releases what it owes. *)
LEMMA DeferredReleaseKeeps ==
  ASSUME IndInv, DeferredRelease
  PROVE  IndInv'
<1> USE ArbiterAssumption, OwnerAssumption
<1> USE DEF RequestPoints, ImmediatePoints, GrantPoints, Handing, At
<1>0. /\ stack \in Seq(Frames) /\ Len(stack) \in Nat
      /\ queue \in Seq(Clients) /\ accepted \in Seq(Clients)
      /\ client \in [Clients -> ClientStates]
  BY DEF IndInv, TypeOK, ArbiterTypeOK
<1>f. stack' = stack
  BY DEF DeferredRelease
<1>p0. TypeOK'
  BY <1>0, <1>f DEF IndInv, TypeOK, ArbiterTypeOK, ArbStates, ClientStates,
     StateMatchesCalls, DeferredRelease, OwnerLetsGo, OwnerRelease,
     OwnerReleaseSucceeds, ownerVars, Caller, Running
<1>p1. CallsNested'
  BY <1>0, <1>f DEF IndInv, TypeOK, ArbiterTypeOK, ArbStates, CallsNested,
     DeferredRelease, OwnerLetsGo, OwnerRelease, OwnerReleaseSucceeds, ownerVars,
     Caller, Running
<1>p2. OneCallAsks'
  BY <1>0, <1>f DEF IndInv, TypeOK, ArbiterTypeOK, ArbStates, OneCallAsks,
     StateMatchesCalls, StateMatchesHanding, DeferredRelease, OwnerLetsGo,
     OwnerRelease, OwnerReleaseSucceeds, ownerVars, Caller, Running
<1>p3. StateMatchesCalls'
  BY <1>0, <1>f DEF IndInv, TypeOK, ArbiterTypeOK, ArbStates, CallsNested,
     OneCallAsks, StateMatchesCalls, StateMatchesHanding, OneHolder,
     DeferredRelease, OwnerLetsGo, OwnerRelease, OwnerReleaseSucceeds, ownerVars,
     Caller, Running
<1>p4. StateMatchesHanding'
  BY <1>0, <1>f DEF IndInv, TypeOK, ArbiterTypeOK, ArbStates, CallsNested,
     OneCallAsks, StateMatchesCalls, StateMatchesHanding, OneHolder,
     DeferredRelease, OwnerLetsGo, OwnerRelease, OwnerReleaseSucceeds, ownerVars,
     Caller, Running
<1>p5. OneHolder'
  BY <1>0, <1>f DEF IndInv, TypeOK, ArbiterTypeOK, ArbStates, CallsNested,
     OneCallAsks, StateMatchesCalls, StateMatchesHanding, OneHolder,
     ClientsMatchCalls, DeferredRelease, OwnerLetsGo, OwnerRelease,
     OwnerReleaseSucceeds, ownerVars, Caller, Running
<1>p6. ClientsMatchCalls'
  BY <1>0, <1>f DEF IndInv, TypeOK, ArbiterTypeOK, ArbStates, CallsNested,
     ClientsMatchCalls, OneImmediateEach, ClientStates, OneHolder, DeferredRelease,
     OwnerLetsGo, OwnerRelease, OwnerReleaseSucceeds, ownerVars, Caller, Running
<1>p7. OneImmediateEach'
  BY <1>0, <1>f DEF IndInv, TypeOK, ArbiterTypeOK, ArbStates, ClientsMatchCalls,
     OneImmediateEach, DeferredRelease, OwnerLetsGo, OwnerRelease,
     OwnerReleaseSucceeds, ownerVars, Caller, Running
<1>p8. Moving'
  BY <1>0, <1>f DEF IndInv, TypeOK, ArbiterTypeOK, ArbStates, CallsNested,
     OneCallAsks, StateMatchesCalls, StateMatchesHanding, OneHolder, Moving,
     DeferredRelease, OwnerLetsGo, OwnerRelease, OwnerReleaseSucceeds, ownerVars,
     Caller, Running
<1>p9. AcceptedInOrder'
  BY <1>0, <1>f DEF IndInv, TypeOK, ArbiterTypeOK, ArbStates, CallsNested,
     StateMatchesCalls, StateMatchesHanding, AcceptedInOrder, Granted, NextUp,
     DeferredRelease, OwnerLetsGo, OwnerRelease, OwnerReleaseSucceeds, ownerVars,
     Caller, Running
<1>. QED
  BY <1>p0, <1>p1, <1>p2, <1>p3, <1>p4, <1>p5, <1>p6, <1>p7, <1>p8, <1>p9 DEF IndInv

(* The owner ignores the request. *)
LEMMA NotifyQuietKeeps ==
  ASSUME IndInv, NEW p, NEW next,
         \/ p = "notify" /\ next = "claim"
         \/ p = "notifyImm" /\ next = "take",
         Running(p), Continue(next), UNCHANGED ownerVars,
         UNCHANGED <<state, resId, reqResId, queue, granting, client, configured, accepted>>
  PROVE  IndInv'
<1> USE ArbiterAssumption, OwnerAssumption
<1> USE DEF RequestPoints, ImmediatePoints, GrantPoints, Handing, At
<1>0. /\ stack \in Seq(Frames) /\ Len(stack) \in Nat
      /\ queue \in Seq(Clients) /\ accepted \in Seq(Clients)
      /\ client \in [Clients -> ClientStates]
  BY DEF IndInv, TypeOK, ArbiterTypeOK
<1>f. /\ stack' \in Seq(Frames)
      /\ Len(stack) \in 1..Len(stack)
      /\ Len(stack') = Len(stack)
      /\ \A i \in 1..Len(stack) : i # Len(stack) => stack'[i] = stack[i]
      /\ stack'[Len(stack)].at = next
      /\ stack'[Len(stack)].id = Caller
  <2>1. next \in RequestPoints \cup ImmediatePoints \cup GrantPoints
    OBVIOUS
  <2>. QED
    BY <1>0, <2>1, ContinueFrames DEF Running
<1>p0. TypeOK'
  BY <1>0, <1>f DEF IndInv, TypeOK, ArbiterTypeOK, ArbStates, ClientStates,
     StateMatchesCalls, ownerVars, Caller, Running
<1>p1. CallsNested'
  BY <1>0, <1>f DEF IndInv, TypeOK, ArbiterTypeOK, ArbStates, CallsNested,
     ownerVars, Caller, Running
<1>p2. OneCallAsks'
  BY <1>0, <1>f DEF IndInv, TypeOK, ArbiterTypeOK, ArbStates, OneCallAsks,
     StateMatchesCalls, StateMatchesHanding, ownerVars, Caller, Running
<1>p3. StateMatchesCalls'
  BY <1>0, <1>f DEF IndInv, TypeOK, ArbiterTypeOK, ArbStates, CallsNested,
     OneCallAsks, StateMatchesCalls, StateMatchesHanding, OneHolder, ownerVars,
     Caller, Running
<1>p4. StateMatchesHanding'
  BY <1>0, <1>f DEF IndInv, TypeOK, ArbiterTypeOK, ArbStates, CallsNested,
     OneCallAsks, StateMatchesCalls, StateMatchesHanding, OneHolder, ownerVars,
     Caller, Running
<1>p5. OneHolder'
  BY <1>0, <1>f DEF IndInv, TypeOK, ArbiterTypeOK, ArbStates, CallsNested,
     OneCallAsks, StateMatchesCalls, StateMatchesHanding, OneHolder,
     ClientsMatchCalls, ownerVars, Caller, Running
<1>p6. ClientsMatchCalls'
  BY <1>0, <1>f DEF IndInv, TypeOK, ArbiterTypeOK, ArbStates, CallsNested,
     ClientsMatchCalls, OneImmediateEach, ClientStates, OneHolder, ownerVars,
     Caller, Running
<1>p7. OneImmediateEach'
  BY <1>0, <1>f DEF IndInv, TypeOK, ArbiterTypeOK, ArbStates, ClientsMatchCalls,
     OneImmediateEach, ownerVars, Caller, Running
<1>p8. Moving'
  BY <1>0, <1>f DEF IndInv, TypeOK, ArbiterTypeOK, ArbStates, CallsNested,
     OneCallAsks, StateMatchesCalls, StateMatchesHanding, OneHolder, Moving,
     ownerVars, Caller, Running
<1>p9. AcceptedInOrder'
  BY <1>0, <1>f DEF IndInv, TypeOK, ArbiterTypeOK, ArbStates, CallsNested,
     StateMatchesCalls, StateMatchesHanding, AcceptedInOrder, Granted, NextUp,
     ownerVars, Caller, Running
<1>. QED
  BY <1>p0, <1>p1, <1>p2, <1>p3, <1>p4, <1>p5, <1>p6, <1>p7, <1>p8, <1>p9 DEF IndInv

(* grantedTask starts when no call is in progress. *)
LEMMA RunGrantedTaskKeeps ==
  ASSUME IndInv, RunGrantedTask
  PROVE  IndInv'
<1> USE ArbiterAssumption, OwnerAssumption
<1> USE DEF RequestPoints, ImmediatePoints, GrantPoints, Handing, At
<1>1. /\ stack = <<>> /\ Len(stack) = 0 /\ granting /\ granting' = FALSE
      /\ UNCHANGED <<state, resId, reqResId, queue, client, configured, accepted, ownerOwes, ownerHolds>>
  BY DEF RunGrantedTask, StartGranted, ownerVars
<1>2. stack' = <<[id |-> NO_RES, irq |-> FALSE, at |-> "grant"]>>
  BY DEF RunGrantedTask, StartGranted
<1>3. /\ [id |-> NO_RES, irq |-> FALSE, at |-> "grant"] \in Frames
      /\ [id |-> NO_RES, irq |-> FALSE, at |-> "grant"].at = "grant"
  BY DEF Frames
<1>4. stack' \in Seq(Frames) /\ Len(stack') = 1 /\ stack'[1].at = "grant"
  BY <1>2, <1>3
<1>5. TypeOK'
  <2>1. granting' \in BOOLEAN
    BY <1>1
  <2>. QED
    BY <1>1, <1>4, <2>1 DEF IndInv, TypeOK, ArbiterTypeOK
<1>6. CallsNested' /\ OneCallAsks' /\ StateMatchesHanding' /\ ClientsMatchCalls' /\ OneImmediateEach'
  BY <1>4 DEF CallsNested, OneCallAsks, StateMatchesHanding, ClientsMatchCalls,
     OneImmediateEach
<1>7. StateMatchesCalls'
  BY <1>1, <1>4 DEF IndInv, StateMatchesCalls
<1>8. OneHolder'
  BY <1>1, <1>4 DEF IndInv, StateMatchesCalls, OneHolder
<1>9. Moving'
  BY <1>1, <1>4 DEF IndInv, StateMatchesCalls, Moving
<1>10. AcceptedInOrder'
  BY <1>1, <1>4 DEF IndInv, AcceptedInOrder, Granted, NextUp
<1>. QED
  BY <1>5, <1>6, <1>7, <1>8, <1>9, <1>10 DEF IndInv

(* The invariant holds after ArbiterP's initialisation. *)
LEMMA InitIndInv == Init => IndInv
<1> USE ArbiterAssumption
<1> SUFFICES ASSUME Init PROVE IndInv
  OBVIOUS
<1>1. TypeOK
  <2>1. state \in ArbStates /\ granting \in BOOLEAN /\ ownerOwes \in BOOLEAN /\ ownerHolds \in BOOLEAN
    BY DEF Init, ArbiterInit, ArbStates
  <2>2. queue \in Seq(Clients) /\ stack \in Seq(Frames) /\ accepted \in Seq(Clients)
    BY DEF Init, ArbiterInit
  <2>3. /\ resId \in Clients \cup {default_owner_id, NO_RES}
        /\ reqResId \in Clients \cup {NO_RES}
        /\ configured \in Clients \cup {NO_RES}
        /\ client \in [Clients -> ClientStates]
    BY DEF Init, ArbiterInit, ClientStates
  <2>. QED
    BY <2>1, <2>2, <2>3 DEF TypeOK, ArbiterTypeOK
<1>2. stack = <<>> /\ Len(stack) = 0
  BY DEF Init, ArbiterInit
<1>3. CallsNested /\ OneCallAsks /\ StateMatchesHanding /\ ClientsMatchCalls /\ OneImmediateEach
  BY <1>2 DEF CallsNested, OneCallAsks, StateMatchesHanding, ClientsMatchCalls,
     OneImmediateEach
<1>4. StateMatchesCalls /\ OneHolder /\ Moving
  BY <1>2 DEF Init, ArbiterInit, StateMatchesCalls, OneHolder, Moving, At, Handing
<1>5. AcceptedInOrder
  BY <1>2 DEF Init, ArbiterInit, AcceptedInOrder, Granted, NextUp, At
<1>. QED
  BY <1>1, <1>3, <1>4, <1>5 DEF IndInv

(* Whatever the default owner does when it is told of a request keeps the *)
(* invariant.                                                             *)
LEMMA NotifyKeeps ==
  ASSUME IndInv, NEW p, NEW next,
         \/ p = "notify" /\ next = "claim"
         \/ p = "notifyImm" /\ next = "take",
         Notify(p, next, OwnerGranted, UNCHANGED ownerVars)
  PROVE  IndInv'
<1>1. CASE /\ Continue(next)
           /\ UNCHANGED ownerVars
           /\ UNCHANGED <<state, resId, reqResId, queue, granting, client, configured>>
  BY <1>1, NotifyQuietKeeps DEF Notify
<1>2. CASE /\ resId \in Clients
           /\ client[resId] = "owner"
           /\ ReleaseSection(resId, OwnerGranted, UNCHANGED ownerVars)
           /\ client' = [client EXCEPT ![resId] = "idle"]
           /\ Continue(next) \/ ContinueNested(next, resId)
  BY <1>2, NotifyReleaseKeeps DEF Notify
<1>. QED
  BY <1>1, <1>2 DEF Notify

(* The next section of the running call, whichever it is, keeps the *)
(* invariant.                                                       *)
LEMMA RunCallKeeps ==
  ASSUME IndInv, RunCall
  PROVE  IndInv'
<1>1. CASE Enqueue /\ UNCHANGED ownerVars
  BY <1>1, EnqueueRefusedKeeps, EnqueueAcceptedKeeps
<1>2. CASE Notify("notify", "claim", OwnerGranted, UNCHANGED ownerVars)
  BY <1>2, NotifyKeeps
<1>3. CASE Claim /\ UNCHANGED ownerVars
  BY <1>3, ClaimedKeeps, NotClaimedKeeps
<1>4. CASE AskOwner(OwnerRequested)
  BY <1>4, AskOwnerKeeps
<1>5. CASE Notify("notifyImm", "take", OwnerGranted, UNCHANGED ownerVars)
  BY <1>5, NotifyKeeps
<1>6. CASE Take /\ UNCHANGED ownerVars
  BY <1>6, TakenKeeps, NotTakenKeeps
<1>7. CASE AskOwnerImm(OwnerImmediateRequested)
  BY <1>7, AskOwnerImmKeeps
<1>8. CASE Check /\ UNCHANGED ownerVars
  BY <1>8, CheckOwnerKeeps, CheckNotKeeps
<1>9. CASE GiveUp /\ UNCHANGED ownerVars
  BY <1>9, GiveUpKeeps
<1>10. CASE Grant /\ UNCHANGED ownerVars
  BY <1>10, GrantKeeps
<1>11. CASE Configure /\ UNCHANGED ownerVars
  BY <1>11, ConfigureKeeps
<1>12. CASE SignalGranted /\ UNCHANGED ownerVars
  BY <1>12, SignalGrantedKeeps
<1>. QED
  BY <1>1, <1>2, <1>3, <1>4, <1>5, <1>6, <1>7, <1>8, <1>9, <1>10, <1>11, <1>12 DEF
     RunCall, RunningCall

(* Every step of the arbiter, its clients and its default owner keeps the *)
(* invariant.                                                             *)
LEMMA NextIndInv == IndInv /\ [Next]_vars => IndInv'
<1> SUFFICES ASSUME IndInv, [Next]_vars PROVE IndInv'
  OBVIOUS
<1>1. CASE RunCall
  BY <1>1, RunCallKeeps
<1>2. CASE RunGrantedTask
  BY <1>2, RunGrantedTaskKeeps
<1>3. CASE DeferredRelease
  BY <1>3, DeferredReleaseKeeps
<1>4. ASSUME NEW c \in Clients, ClientReleases(c)
      PROVE  IndInv'
  BY <1>4, ClientReleasesKeeps
<1>5. ASSUME NEW c \in Clients, ClientCalls(c)
      PROVE  IndInv'
  BY <1>5, CallRequestKeeps, CallImmediateKeeps DEF ClientCalls
<1>6. CASE UNCHANGED vars
  <2>1. UNCHANGED <<state, resId, reqResId, queue, granting, stack, client, configured, accepted,
                    ownerOwes, ownerHolds>>
    BY <1>6 DEF vars, avars, ownerVars
  <2>2. TypeOK' /\ AcceptedInOrder'
    BY <2>1 DEF IndInv, TypeOK, ArbiterTypeOK, AcceptedInOrder, Granted, NextUp, At
  <2>3. CallsNested' /\ OneCallAsks' /\ StateMatchesHanding' /\ ClientsMatchCalls' /\ OneImmediateEach'
    BY <2>1 DEF IndInv, CallsNested, OneCallAsks, StateMatchesHanding,
       ClientsMatchCalls, OneImmediateEach
  <2>4. StateMatchesCalls' /\ OneHolder' /\ Moving'
    BY <2>1 DEF IndInv, StateMatchesCalls, OneHolder, Moving, At
  <2>. QED
    BY <2>2, <2>3, <2>4 DEF IndInv
<1>. QED
  BY <1>1, <1>2, <1>3, <1>4, <1>5, <1>6 DEF Next

(* The invariant holds in every reachable state. *)
LEMMA SpecIndInv == Spec => []IndInv
BY InitIndInv, NextIndInv, PTL DEF Spec

-----------------------------------------------------------------------------
(* The variables of the arbiter keep their types. *)
THEOREM ArbiterTypes == Spec => []TypeOK
<1>1. IndInv => TypeOK
  BY DEF IndInv
<1>. QED
  BY <1>1, SpecIndInv, PTL

(* No two clients own the resource, and the one that does has the hardware *)
(* configured for it, whatever the default owner does.                     *)
THEOREM ArbiterExclusive == Spec => []ExclusiveUse
<1>1. IndInv => ExclusiveUse
  BY DEF IndInv, OneHolder, ExclusiveUse
<1>. QED
  BY <1>1, SpecIndInv, PTL

(* The accepted requests are exactly those on their way, in order. *)
THEOREM ArbiterKeepsRequests == Spec => []AcceptedInOrder
<1>1. IndInv => AcceptedInOrder
  BY DEF IndInv
<1>. QED
  BY <1>1, SpecIndInv, PTL

(* The default owner is never disturbed while it has the hardware. *)
THEOREM ArbiterOwnerUndisturbed == Spec => []OwnerUndisturbed
<1>1. IndInv => OwnerUndisturbed
  BY DEF IndInv, OneHolder, OwnerUndisturbed
<1>. QED
  BY <1>1, SpecIndInv, PTL

(* Unless the default owner refuses immediate requests, some party is      *)
(* always about to move an accepted request on.                            *)
THEOREM ArbiterNeverHangs == ASSUME ~OwnerMayRefuse PROVE Spec => []NeverHangs
<1>1. IndInv => NeverHangs
  <2> SUFFICES ASSUME IndInv, accepted # <<>>
               PROVE  NeverHangs
    BY DEF NeverHangs
  <2>1. state \in ArbStates
    BY DEF IndInv, TypeOK, ArbiterTypeOK
  <2>2. state = "DEF_OWNED" => At({"notify", "claim"})
    <3> SUFFICES ASSUME state = "DEF_OWNED" PROVE At({"notify", "claim"})
      OBVIOUS
    <3>1. Granted = <<>> /\ NextUp = <<>>
      BY DEF IndInv, StateMatchesCalls, Granted, NextUp
    <3>2. queue # <<>>
      BY <3>1 DEF IndInv, AcceptedInOrder, TypeOK, ArbiterTypeOK
    <3>. QED
      BY <3>2 DEF IndInv, Moving
  <2>. QED
    BY <2>1, <2>2 DEF IndInv, Moving, NeverHangs, ArbStates, Handing
<1>. QED
  BY <1>1, SpecIndInv, PTL

(* A request is refused only to a client whose earlier request is pending, *)
(* unless the default owner refuses immediate requests.                    *)
THEOREM ArbiterRefusals == ASSUME ~OwnerMayRefuse PROVE Spec => RefusedOnlyIfPending
<1>1. ASSUME IndInv, [Next]_vars, NEW c \in Clients,
             Running("enqueue"), Caller = c, Len(stack') < Len(stack)
      PROVE  Contains(accepted, c)
  <2>1. stack \in Seq(Frames) /\ Len(stack) \in 1..Len(stack) /\ stack[Len(stack)].at = "enqueue"
    BY <1>1 DEF IndInv, TypeOK, ArbiterTypeOK, Running
  <2>2. stack' # stack
    BY <1>1, <2>1
  <2>3. ~RunGrantedTask /\ ~DeferredRelease /\ ~UNCHANGED vars
    BY <1>1, <2>2 DEF RunGrantedTask, StartGranted, DeferredRelease, Running, vars,
       avars
  <2>4. ~\E d \in Clients : ClientReleases(d) \/ ClientCalls(d)
    <3>1. ASSUME NEW d \in Clients, ClientCalls(d)
          PROVE  FALSE
      <4>1. PICK point \in RequestPoints \cup ImmediatePoints : Call(d, point)
        BY <3>1 DEF ClientCalls, CallRequest, CallImmediate, RequestPoints,
           ImmediatePoints
      <4>. QED
        BY <1>1, <2>1, <4>1, CallFrames
    <3>. QED
      BY <2>2, <3>1 DEF ClientReleases, Release
  <2>5. Enqueue
    BY <1>1, <2>1, <2>3, <2>4
    DEF Next, RunCall, RunningCall, Notify, Claim, AskOwner, Take, AskOwnerImm, Check, GiveUp, Grant, Configure,
        SignalGranted, Running
  <2>6. reqResId = c \/ Contains(queue, c)
    <3>. SUFFICES ASSUME ~(reqResId = c \/ Contains(queue, c)) PROVE FALSE
      OBVIOUS
    <3>1. Continue("notify")
      BY <1>1, <2>5 DEF Enqueue
    <3>. QED
      BY <1>1, <2>1, <3>1, ContinueFrames DEF RequestPoints
  <2>7. client[c] = "idle"
    BY <1>1, <2>1 DEF IndInv, ClientsMatchCalls, Caller
  <2>8. CASE Contains(queue, c)
    <3>1. PICK i \in 1..Len(queue) : queue[i] = c
      BY <2>8 DEF Contains
    <3>2. /\ Granted \o NextUp \in Seq(Clients) /\ queue \in Seq(Clients)
          /\ accepted = (Granted \o NextUp) \o queue
      BY <1>1 DEF IndInv, AcceptedInOrder, TypeOK, ArbiterTypeOK, StateMatchesCalls,
         Granted, NextUp
    <3> DEFINE ahead == Granted \o NextUp
    <3>3. Len(ahead) + i \in 1..Len(accepted) /\ accepted[Len(ahead) + i] = c
      <4>. HIDE DEF ahead
      <4>1. ahead \in Seq(Clients) /\ queue \in Seq(Clients) /\ accepted = ahead \o queue
        BY <3>2 DEF ahead
      <4>. QED
        BY <3>1, <4>1
    <3>. QED
      BY <3>3 DEF Contains
  <2>9. CASE reqResId = c
    <3>1. state \in {"PREGRANT", "GRANTING"}
      <4>1. ~(state = "IMM_GRANTING" /\ At({"askOwnerImm"}))
        BY <1>1, <2>7, <2>9 DEF IndInv, StateMatchesHanding, ClientsMatchCalls, At,
           ImmediatePoints
      <4>. QED
        BY <1>1, <2>9, <4>1, ArbiterAssumption DEF IndInv, Moving
    <3>2. Granted = <<>> /\ NextUp = <<c>> /\ queue \in Seq(Clients)
      BY <1>1, <2>9, <3>1 DEF IndInv, StateMatchesCalls, Granted, NextUp, TypeOK,
         ArbiterTypeOK
    <3>3. accepted = <<c>> \o queue
      BY <1>1, <3>2 DEF IndInv, AcceptedInOrder
    <3>4. 1 \in 1..Len(accepted) /\ accepted[1] = c
      BY <3>2, <3>3
    <3>. QED
      BY <3>4 DEF Contains
  <2>. QED
    BY <2>6, <2>8, <2>9
<1>2. IndInv /\ [Next]_vars =>
        [\A c \in Clients : Running("enqueue") /\ Caller = c /\ Len(stack') < Len(stack)
           => Contains(accepted, c)]_vars
  BY <1>1
<1>. QED
  BY <1>2, SpecIndInv, PTL DEF Spec, RefusedOnlyIfPending

-----------------------------------------------------------------------------
(* The client that ResourceLock sees as the holder. *)
LEMMA HolderIsOwner ==
  ASSUME IndInv
  PROVE  /\ \A c \in Clients : client[c] = "owner" => holder = c
         /\ (\A c \in Clients : client[c] # "owner") => holder = NO_RES
BY DEF IndInv, OneHolder, holder

(* A step after which the same clients hold the resource, or none does. *)
LEMMA HolderUnchanged ==
  ASSUME IndInv, IndInv', \A c \in Clients : client'[c] = "owner" <=> client[c] = "owner"
  PROVE  holder' = holder
<1>1. CASE \E c \in Clients : client[c] = "owner"
  <2>1. PICK c \in Clients : client[c] = "owner"
    BY <1>1
  <2>2. holder' = c
    BY <2>1 DEF IndInv, OneHolder, holder
  <2>. QED
    BY <2>1, <2>2, HolderIsOwner
<1>2. CASE ~\E c \in Clients : client[c] = "owner"
  BY <1>2 DEF holder
<1>. QED
  BY <1>1, <1>2

(* The owner lets go: GiveUp. *)
LEMMA ReleaseGivesUp ==
  ASSUME IndInv, IndInv', NEW c \in Clients, client[c] = "owner",
         client' = [client EXCEPT ![c] = "idle"], accepted' = accepted
  PROVE  Abstract!GiveUp
<1>1. holder = c /\ c # NO_RES
  BY HolderIsOwner, ArbiterAssumption
<1>2. \A d \in Clients : client'[d] # "owner"
  BY DEF IndInv, OneHolder, TypeOK, ArbiterTypeOK
<1>3. holder' = NO_RES
  BY <1>2 DEF holder
<1>. QED
  BY <1>1, <1>3 DEF Abstract!GiveUp

(* Every step of the arbiter is one of the lock's, or leaves the lock *)
(* alone.                                                             *)
LEMMA StepRefines ==
  ASSUME IndInv, IndInv', [Next]_vars
  PROVE  [Abstract!Next]_(Abstract!lvars)
<1>0. client \in [Clients -> ClientStates] /\ accepted \in Seq(Clients) /\ stack \in Seq(Frames)
  BY DEF IndInv, TypeOK, ArbiterTypeOK
<1>1. ASSUME UNCHANGED <<client, accepted>>
      PROVE  UNCHANGED Abstract!lvars
  BY <1>1, HolderUnchanged DEF Abstract!lvars
<1>2. CASE Enqueue
  <2>1. client' = client /\ holder' = holder
    BY <1>2, HolderUnchanged DEF Enqueue
  <2>2. Caller \in Clients /\ client[Caller] = "idle"
    BY <1>0, <1>2 DEF IndInv, CallsNested, ClientsMatchCalls, Enqueue, Running,
       Caller, GrantPoints
  <2>3. Caller # holder
    BY <2>2, HolderIsOwner, ArbiterAssumption DEF holder
  <2>4. accepted' = accepted \/ accepted' = Append(accepted, Caller)
    BY <1>2 DEF Enqueue
  <2>5. UNCHANGED Abstract!lvars \/ Abstract!Accept(Caller)
    BY <2>1, <2>3, <2>4 DEF Abstract!lvars, Abstract!Accept
  <2>. QED
    BY <2>2, <2>5 DEF Abstract!Next
<1>3. ASSUME NEW p, NEW next, Notify(p, next, OwnerGranted, UNCHANGED ownerVars)
      PROVE  [Abstract!Next]_(Abstract!lvars)
  <2>1. CASE UNCHANGED client
    BY <1>1, <1>3, <2>1 DEF Notify
  <2>2. CASE resId \in Clients /\ client[resId] = "owner" /\ client' = [client EXCEPT ![resId] = "idle"]
    BY <1>3, <2>2, ReleaseGivesUp DEF Notify, Abstract!Next
  <2>. QED
    BY <1>3, <2>1, <2>2 DEF Notify
<1>4. CASE Claim \/ AskOwner(OwnerRequested) \/ AskOwnerImm(OwnerImmediateRequested)
             \/ Grant \/ Configure \/ RunGrantedTask \/ DeferredRelease
  BY <1>1, <1>4 DEF Claim, AskOwner, AskOwnerImm, Grant, Configure, RunGrantedTask,
     StartGranted,
     DeferredRelease
<1>5. CASE Take \/ GiveUp
  <2>1. accepted' = accepted
    BY <1>5 DEF Take, GiveUp
  <2>2. Caller \in Clients /\ client[Caller] = "trying"
    BY <1>0, <1>5 DEF IndInv, CallsNested, ClientsMatchCalls, Take, GiveUp, Running,
       Caller,
       GrantPoints, ImmediatePoints
  <2>3. client' = client \/ client' = [client EXCEPT ![Caller] = "idle"]
    BY <1>5 DEF Take, GiveUp, Fail
  <2>4. \A c \in Clients : client'[c] = "owner" <=> client[c] = "owner"
    BY <1>0, <2>2, <2>3
  <2>. QED
    BY <2>1, <2>4, HolderUnchanged DEF Abstract!lvars
<1>6. CASE Check
  <2>1. CASE resId # Caller
    BY <1>1, <1>6, <2>1 DEF Check
  <2>2. CASE resId = Caller
    <3>1. Caller \in Clients /\ At({"check"})
      BY <1>0, <1>6 DEF IndInv, CallsNested, Check, Running, Caller, GrantPoints, At
    <3>2. holder = NO_RES
      <4>1. \A c \in Clients : client[c] # "owner"
        BY <3>1 DEF IndInv, OneHolder, At
      <4>. QED
        BY <4>1, HolderIsOwner
    <3>3. client' = [client EXCEPT ![Caller] = "owner"] /\ accepted' = accepted
      BY <1>6, <2>2 DEF Check
    <3>4. client'[Caller] = "owner"
      BY <1>0, <3>1, <3>3
    <3>5. holder' = Caller
      BY <3>1, <3>4 DEF IndInv, OneHolder, holder
    <3>. QED
      BY <3>1, <3>2, <3>3, <3>5 DEF Abstract!Next, Abstract!GrantNow
  <2>. QED
    BY <2>1, <2>2
<1>7. CASE SignalGranted
  <2>1. At({"signal"}) /\ At({"configure", "signal"})
    BY <1>0, <1>7 DEF SignalGranted, Running, At
  <2>2. resId \in Clients /\ state = "BUSY"
    BY <2>1 DEF IndInv, StateMatchesCalls
  <2>3. holder = NO_RES
    <3>1. \A c \in Clients : client[c] # "owner"
      BY <2>1 DEF IndInv, OneHolder, At
    <3>. QED
      BY <3>1, HolderIsOwner
  <2>4. Granted = <<resId>> /\ NextUp = <<>> /\ queue \in Seq(Clients)
    BY <2>1, <2>2 DEF Granted, NextUp, IndInv, TypeOK, ArbiterTypeOK
  <2>5. accepted = <<resId>> \o queue
    BY <2>2, <2>4 DEF IndInv, AcceptedInOrder
  <2>6. accepted # <<>> /\ Head(accepted) = resId
    BY <2>2, <2>4, <2>5, TailOfConcat
  <2>7. accepted' = Tail(accepted) /\ client' = [client EXCEPT ![resId] = "owner"]
    BY <1>7, <2>2, <2>6 DEF SignalGranted
  <2>8. client'[resId] = "owner" /\ resId' = resId
    BY <1>0, <1>7, <2>2, <2>7 DEF SignalGranted
  <2>9. holder' = resId
    BY <2>2, <2>8 DEF IndInv, OneHolder, holder
  <2>. QED
    BY <2>3, <2>6, <2>7, <2>9 DEF Abstract!Next, Abstract!Grant
<1>8. ASSUME NEW c \in Clients, ClientReleases(c)
      PROVE  [Abstract!Next]_(Abstract!lvars)
  BY <1>8, ReleaseGivesUp DEF ClientReleases, Release, Abstract!Next
<1>9. ASSUME NEW c \in Clients, ClientCalls(c)
      PROVE  [Abstract!Next]_(Abstract!lvars)
  <2>1. accepted' = accepted
    BY <1>9 DEF ClientCalls, CallRequest, CallImmediate
  <2>2. \A d \in Clients : client'[d] = "owner" <=> client[d] = "owner"
    BY <1>0, <1>9 DEF ClientCalls, CallRequest, CallImmediate
  <2>. QED
    BY <2>1, <2>2, HolderUnchanged DEF Abstract!lvars
<1>10. CASE UNCHANGED vars
  BY <1>1, <1>10 DEF vars, avars
<1>. QED
  BY <1>2, <1>3, <1>4, <1>5, <1>6, <1>7, <1>8, <1>9, <1>10 DEF Next, RunCall,
     RunningCall

(* Every behaviour of the arbiter is one of the first come, first served   *)
(* lock, whatever the default owner does.                                  *)
THEOREM ArbiterRefines == Spec => RefinesResourceLock
<1>1. Init => Abstract!Init
  BY DEF Init, ArbiterInit, Abstract!Init, holder
<1>2. IndInv /\ IndInv' /\ [Next]_vars => [Abstract!Next]_(Abstract!lvars)
  BY StepRefines
<1>. QED
  BY <1>1, <1>2, SpecIndInv, PTL DEF Spec, Abstract!Spec, RefinesResourceLock
=============================================================================
