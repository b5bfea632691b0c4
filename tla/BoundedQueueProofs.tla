------------------------- MODULE BoundedQueueProofs -------------------------
(***************************************************************************)
(* What the queue guarantees for any threads, tokens and capacity: the     *)
(* type invariant, the bound on the deque included; that items leave in    *)
(* the order in which push accepted them, each once; that an unstopped     *)
(* consumer is told "empty" only by a closed and drained queue; and that   *)
(* one notification for each push and each pop is enough: no producer      *)
(* sleeps while there is room and nobody on the way to use it, no consumer *)
(* while there are items.  For the producers this takes the assumption     *)
(* that they share one stop token, as the file tasks of a search do: a     *)
(* producer that leaves because of its own token passes its wake-up on to  *)
(* nobody.                                                                 *)
(***************************************************************************)
EXTENDS BoundedQueue, TLAPS, FiniteSetTheorems

(* The thread that holds the mutex is the one between its lock and its     *)
(* unlock, or inside the test of its wait.                                 *)
HolderIsInCall ==
  \A t \in Threads : pc[t] \in {"locked", "granted"} <=> mutex = t

(* The condition a wait returned with still holds when the call goes on:   *)
(* nobody else touches the deque, and stops and close() are never undone.  *)
GrantedMayPush ==
  \A p \in Producers : pc[p] = "granted" => StopRequested(p) \/ RoomOrClosed

GrantedMayPop ==
  \A c \in Consumers : pc[c] = "granted" => StopRequested(c) \/ ItemOrClosed

(* A producer in its call has an item left to offer. *)
ProducerHasItem ==
  \A p \in Producers :
    pc[p] \in {"locked", "blocked", "granted"} => Offered(p) < MaxItems

IInv ==
  /\ TypeOK
  /\ HolderIsInCall
  /\ GrantedMayPush
  /\ GrantedMayPop
  /\ ProducerHasItem
  /\ InOrderExactlyOnce
  /\ DrainedBeforeEnd

-----------------------------------------------------------------------------
(* Moving the head of the right part to the end of the left part leaves    *)
(* the whole as it was.                                                    *)
LEMMA ConcatMoveHead ==
  ASSUME NEW S, NEW s \in Seq(S), NEW t \in Seq(S), t # <<>>
  PROVE  /\ Append(s, Head(t)) \o Tail(t) = s \o t
         /\ Head(t) \in S /\ Tail(t) \in Seq(S) /\ Len(Tail(t)) = Len(t) - 1
OBVIOUS

(* What a producer has offered is a number, and another's item leaves it.  *)
LEMMA OfferedNat ==
  ASSUME accepted \in Seq(Items), NEW p \in Producers
  PROVE  Offered(p) \in Nat
<1>1. IsFiniteSet(1..Len(accepted))
  BY FS_Interval
<1>2. {i \in DOMAIN accepted : accepted[i][1] = p} \subseteq 1..Len(accepted)
  OBVIOUS
<1> QED
  BY <1>1, <1>2, FS_Subset, FS_CardinalityType DEF Offered

LEMMA OfferedOther ==
  ASSUME accepted \in Seq(Items), NEW p, NEW q, p # q, NEW n,
         accepted' = Append(accepted, <<q, n>>)
  PROVE  Offered(p)' = Offered(p)
<1>1. {i \in DOMAIN accepted' : accepted'[i][1] = p}
        = {i \in DOMAIN accepted : accepted[i][1] = p}
  OBVIOUS
<1> QED
  BY <1>1 DEF Offered

LEMMA CapacityPositive == capacityValue \in Nat \ {0}
BY QueueAssumption DEF capacityValue

-----------------------------------------------------------------------------
LEMMA InitInv == Init => IInv
<1> SUFFICES ASSUME Init PROVE IInv
  OBVIOUS
<1>1. TypeOK
  <2>1. <<>> \in Seq(Items) /\ Len(<<>>) <= capacityValue
    BY CapacityPositive
  <2> QED
    BY <2>1 DEF Init, TypeOK
<1>2. HolderIsInCall
  BY NoOneAssumption DEF Init, HolderIsInCall
<1>3. GrantedMayPush /\ GrantedMayPop /\ ProducerHasItem
  BY DEF Init, GrantedMayPush, GrantedMayPop, ProducerHasItem, Threads
<1>4. InOrderExactlyOnce
  BY DEF Init, InOrderExactlyOnce
<1>5. DrainedBeforeEnd
  BY DEF Init, DrainedBeforeEnd, Threads
<1> QED
  BY <1>1, <1>2, <1>3, <1>4, <1>5 DEF IInv

(* Steps that move only control: the deque and its histories stay.         *)
LEMMA ControlSteps ==
  ASSUME IInv, UNCHANGED <<queue, accepted, delivered>>,
         closedValue => closedValue', stopped \subseteq stopped',
         TypeOK', HolderIsInCall',
         \A p \in Producers : pc'[p] = "granted" =>
           pc[p] = "granted" \/ StopRequested(p) \/ RoomOrClosed,
         \A c \in Consumers : pc'[c] = "granted" =>
           pc[c] = "granted" \/ StopRequested(c) \/ ItemOrClosed,
         \A p \in Producers : pc'[p] \in {"locked", "blocked", "granted"} =>
           pc[p] \in {"locked", "blocked", "granted"} \/ Offered(p) < MaxItems,
         \A c \in Consumers : pc'[c] = "ended" => pc[c] = "ended"
  PROVE  IInv'
<1>1. GrantedMayPush'
  BY DEF IInv, GrantedMayPush, StopRequested, RoomOrClosed, TypeOK
<1>2. GrantedMayPop'
  BY DEF IInv, GrantedMayPop, StopRequested, ItemOrClosed, TypeOK
<1>3. ProducerHasItem'
  BY DEF IInv, ProducerHasItem, Offered
<1>4. InOrderExactlyOnce'
  BY DEF IInv, InOrderExactlyOnce
<1>5. DrainedBeforeEnd'
  BY DEF IInv, DrainedBeforeEnd, StopRequested
<1> QED
  BY <1>1, <1>2, <1>3, <1>4, <1>5 DEF IInv

LEMMA EnterInv == ASSUME IInv, NEW t \in Threads, Enter(t) PROVE IInv'
<1>1. TypeOK'
  BY DEF IInv, TypeOK, Enter
<1>2. HolderIsInCall'
  BY NoOneAssumption DEF IInv, TypeOK, HolderIsInCall, Enter
<1> QED
  BY <1>1, <1>2, ControlSteps, QueueAssumption
  DEF IInv, TypeOK, Enter, Threads

LEMMA ReacquireInv == ASSUME IInv, NEW t \in Threads, Reacquire(t) PROVE IInv'
<1>1. TypeOK'
  BY DEF IInv, TypeOK, Reacquire
<1>2. HolderIsInCall'
  BY NoOneAssumption DEF IInv, TypeOK, HolderIsInCall, Reacquire
<1> QED
  BY <1>1, <1>2, ControlSteps DEF IInv, TypeOK, Reacquire, Threads

LEMMA WaitPushInv == ASSUME IInv, NEW p \in Producers, WaitPush(p) PROVE IInv'
<1>1. TypeOK'
  BY DEF IInv, TypeOK, WaitPush, Threads
<1>2. HolderIsInCall'
  BY NoOneAssumption DEF IInv, TypeOK, HolderIsInCall, WaitPush, Threads
<1>3. /\ UNCHANGED <<queue, accepted, delivered, closedValue, stopped>>
      /\ pc[p] = "locked"
      /\ \A q \in Threads : q # p => pc'[q] = pc[q]
      /\ pc'[p] \in {"granted", "blocked"}
      /\ pc'[p] = "granted" => StopRequested(p) \/ RoomOrClosed
  BY DEF IInv, TypeOK, WaitPush, Threads
<1>4. \A c \in Consumers : c # p
  BY QueueAssumption
<1> QED
  BY <1>1, <1>2, <1>3, <1>4, ControlSteps DEF Threads

LEMMA WaitPopInv == ASSUME IInv, NEW c \in Consumers, WaitPop(c) PROVE IInv'
<1>1. TypeOK'
  BY DEF IInv, TypeOK, WaitPop, Threads
<1>2. HolderIsInCall'
  BY NoOneAssumption DEF IInv, TypeOK, HolderIsInCall, WaitPop, Threads
<1>3. /\ UNCHANGED <<queue, accepted, delivered, closedValue, stopped>>
      /\ pc[c] = "locked"
      /\ \A q \in Threads : q # c => pc'[q] = pc[q]
      /\ pc'[c] \in {"granted", "blocked"}
      /\ pc'[c] = "granted" => StopRequested(c) \/ ItemOrClosed
  BY DEF IInv, TypeOK, WaitPop, Threads
<1>4. \A p \in Producers : p # c
  BY QueueAssumption
<1> QED
  BY <1>1, <1>2, <1>3, <1>4, ControlSteps DEF Threads

LEMMA FinishPushInv == ASSUME IInv, NEW p \in Producers, FinishPush(p) PROVE IInv'
<1> DEFINE item == <<p, Offered(p) + 1>>
<1>1. /\ pc[p] = "granted" /\ mutex = p
      /\ mutex' = NoOne
      /\ UNCHANGED <<closedValue, closer, notFull, stopped, delivered>>
  BY DEF FinishPush
<1>2. p \in Threads /\ \A c \in Consumers : c # p
  BY QueueAssumption DEF Threads
<1>3. CASE PushRefused(p) /\ pc' = [pc EXCEPT ![p] = "ended"]
             /\ UNCHANGED <<queue, notEmpty, accepted>>
  <2>1. TypeOK'
    BY <1>1, <1>3 DEF IInv, TypeOK
  <2>2. HolderIsInCall'
    BY <1>1, <1>2, <1>3, NoOneAssumption DEF IInv, TypeOK, HolderIsInCall
  <2> QED
    BY <1>1, <1>2, <1>3, <2>1, <2>2, ControlSteps DEF IInv, TypeOK, Threads
<1>4. CASE /\ ~PushRefused(p)
           /\ queue' = Append(queue, item)
           /\ accepted' = Append(accepted, item)
           /\ WakeConsumer
           /\ pc' = [pc EXCEPT ![p] = "outside"]
  <2>1. item \in Items
    <3>1. Offered(p) \in Nat /\ Offered(p) < MaxItems
      BY <1>1, OfferedNat DEF IInv, TypeOK, ProducerHasItem
    <3> QED
      BY <3>1, QueueAssumption DEF Items
  <2>2. Len(queue) < capacityValue /\ ~closedValue
    BY <1>1, <1>4 DEF IInv, GrantedMayPush, PushRefused, RoomOrClosed
  <2>3. TypeOK'
    <3>1. notEmpty' \subseteq Consumers
      BY <1>4 DEF IInv, TypeOK, WakeConsumer, AfterNotifyOne
    <3>2. Append(queue, item) \in Seq(Items) /\ Append(accepted, item) \in Seq(Items)
          /\ Len(Append(queue, item)) <= capacityValue
      BY <2>1, <2>2, CapacityPositive DEF IInv, TypeOK
    <3> QED
      BY <1>1, <1>4, <3>1, <3>2 DEF IInv, TypeOK
  <2>4. HolderIsInCall'
    BY <1>1, <1>2, <1>4, NoOneAssumption DEF IInv, TypeOK, HolderIsInCall
  <2>5. GrantedMayPush' /\ GrantedMayPop'
    BY <1>1, <1>2, <1>4, <2>4, NoOneAssumption
    DEF HolderIsInCall, GrantedMayPush, GrantedMayPop, Threads
  <2>6. ProducerHasItem'
    <3> SUFFICES ASSUME NEW q \in Producers,
                        pc'[q] \in {"locked", "blocked", "granted"}
                 PROVE  Offered(q)' < MaxItems
      BY DEF ProducerHasItem
    <3>1. q # p /\ pc'[q] = pc[q]
      BY <1>2, <1>4 DEF IInv, TypeOK, Threads
    <3>2. Offered(q)' = Offered(q)
      BY <1>4, <3>1, OfferedOther DEF IInv, TypeOK
    <3> QED
      BY <3>1, <3>2 DEF IInv, ProducerHasItem
  <2>7. InOrderExactlyOnce'
    <3> HIDE DEF item
    <3>1. delivered \in Seq(Items) /\ queue \in Seq(Items)
      BY DEF IInv, TypeOK
    <3>2. Append(delivered \o queue, item) = delivered \o Append(queue, item)
      BY <2>1, <3>1
    <3> QED
      BY <1>1, <1>4, <3>2 DEF IInv, InOrderExactlyOnce
  <2>8. DrainedBeforeEnd'
    BY <1>1, <1>2, <1>4, <2>2 DEF IInv, TypeOK, DrainedBeforeEnd, StopRequested, Threads
  <2> QED
    BY <2>3, <2>4, <2>5, <2>6, <2>7, <2>8 DEF IInv
<1> QED
  BY <1>3, <1>4 DEF FinishPush

LEMMA FinishPopInv == ASSUME IInv, NEW c \in Consumers, FinishPop(c) PROVE IInv'
<1>1. /\ pc[c] = "granted" /\ mutex = c
      /\ mutex' = NoOne
      /\ UNCHANGED <<closedValue, closer, notEmpty, stopped, accepted>>
  BY DEF FinishPop
<1>2. c \in Threads /\ \A p \in Producers : p # c
  BY QueueAssumption DEF Threads
<1>3. CASE queue = <<>> /\ pc' = [pc EXCEPT ![c] = "ended"]
             /\ UNCHANGED <<queue, notFull, delivered>>
  <2>1. TypeOK'
    BY <1>1, <1>3 DEF IInv, TypeOK
  <2>2. HolderIsInCall'
    BY <1>1, <1>2, <1>3, NoOneAssumption DEF IInv, TypeOK, HolderIsInCall
  <2>3. GrantedMayPush' /\ GrantedMayPop'
    BY <1>1, <1>2, <1>3, <2>2, NoOneAssumption
    DEF HolderIsInCall, GrantedMayPush, GrantedMayPop, Threads
  <2>4. ProducerHasItem'
    BY <1>1, <1>2, <1>3 DEF IInv, TypeOK, ProducerHasItem, Offered, Threads
  <2>5. InOrderExactlyOnce'
    BY <1>1, <1>3 DEF IInv, InOrderExactlyOnce
  <2>6. DrainedBeforeEnd'
    <3>1. ~StopRequested(c) => closedValue
      BY <1>1, <1>3 DEF IInv, GrantedMayPop, ItemOrClosed
    <3> QED
      BY <1>1, <1>2, <1>3, <3>1
      DEF IInv, TypeOK, DrainedBeforeEnd, StopRequested, Threads
  <2> QED
    BY <2>1, <2>2, <2>3, <2>4, <2>5, <2>6 DEF IInv
<1>4. CASE queue # <<>> /\ TakeFront /\ WakeProducer
             /\ pc' = [pc EXCEPT ![c] = "outside"]
  <2>1. /\ Head(queue) \in Items /\ Tail(queue) \in Seq(Items)
        /\ Len(Tail(queue)) = Len(queue) - 1
        /\ Append(delivered, Head(queue)) \o Tail(queue) = delivered \o queue
    BY <1>4, ConcatMoveHead DEF IInv, TypeOK
  <2>2. TypeOK'
    <3>1. notFull' \subseteq Producers
      BY <1>4 DEF IInv, TypeOK, WakeProducer, AfterNotifyOne
    <3>2. Append(delivered, Head(queue)) \in Seq(Items)
      BY <2>1 DEF IInv, TypeOK
    <3>3. Len(Tail(queue)) <= capacityValue
      BY <2>1, CapacityPositive DEF IInv, TypeOK
    <3> QED
      BY <1>1, <1>4, <2>1, <3>1, <3>2, <3>3 DEF IInv, TypeOK, TakeFront
  <2>3. HolderIsInCall'
    BY <1>1, <1>2, <1>4, NoOneAssumption DEF IInv, TypeOK, HolderIsInCall
  <2>4. GrantedMayPush' /\ GrantedMayPop'
    BY <1>1, <1>2, <1>4, <2>3, NoOneAssumption
    DEF HolderIsInCall, GrantedMayPush, GrantedMayPop, Threads
  <2>5. ProducerHasItem'
    BY <1>1, <1>2, <1>4 DEF IInv, TypeOK, ProducerHasItem, Offered, Threads
  <2>6. InOrderExactlyOnce'
    BY <1>1, <1>4, <2>1 DEF IInv, InOrderExactlyOnce, TakeFront
  <2>7. DrainedBeforeEnd'
    BY <1>1, <1>2, <1>4
    DEF IInv, TypeOK, DrainedBeforeEnd, StopRequested, TakeFront, Threads
  <2> QED
    BY <2>2, <2>3, <2>4, <2>5, <2>6, <2>7 DEF IInv
<1> QED
  BY <1>3, <1>4 DEF FinishPop

LEMMA CloseInv == ASSUME IInv, CloseMark \/ CloseNotify PROVE IInv'
<1>1. TypeOK'
  BY DEF IInv, TypeOK, CloseMark, CloseNotify
<1>2. HolderIsInCall'
  BY DEF IInv, HolderIsInCall, CloseMark, CloseNotify
<1> QED
  BY <1>1, <1>2, ControlSteps DEF IInv, TypeOK, CloseMark, CloseNotify

LEMMA StopInv == ASSUME IInv, NEW token \in Tokens, RequestStop(token) PROVE IInv'
<1>1. TypeOK'
  BY DEF IInv, TypeOK, RequestStop
<1>2. HolderIsInCall'
  BY DEF IInv, HolderIsInCall, RequestStop
<1> QED
  BY <1>1, <1>2, ControlSteps DEF RequestStop

LEMMA SpuriousInv == ASSUME IInv, NEW t \in Threads, SpuriousWakeup(t) PROVE IInv'
<1>1. TypeOK'
  BY DEF IInv, TypeOK, SpuriousWakeup
<1>2. HolderIsInCall'
  BY DEF IInv, HolderIsInCall, SpuriousWakeup
<1> QED
  BY <1>1, <1>2, ControlSteps DEF SpuriousWakeup

LEMMA StepInv == IInv /\ [Next]_vars => IInv'
<1> SUFFICES ASSUME IInv, [Next]_vars PROVE IInv'
  OBVIOUS
<1>1. ASSUME NEW t \in Threads, ThreadStep(t) PROVE IInv'
  BY <1>1, EnterInv, ReacquireInv, WaitPushInv, FinishPushInv, WaitPopInv,
     FinishPopInv DEF ThreadStep
<1>2. ASSUME NEW t \in Threads, SpuriousWakeup(t) PROVE IInv'
  BY <1>2, SpuriousInv
<1>3. CASE CloseMark \/ CloseNotify
  BY <1>3, CloseInv
<1>4. ASSUME NEW token \in Tokens, RequestStop(token) PROVE IInv'
  BY <1>4, StopInv
<1>5. CASE UNCHANGED vars
  <2>1. TypeOK' /\ HolderIsInCall'
    BY <1>5 DEF IInv, TypeOK, HolderIsInCall, vars
  <2> QED
    BY <1>5, <2>1, ControlSteps DEF vars
<1> QED
  BY <1>1, <1>2, <1>3, <1>4, <1>5 DEF Next

-----------------------------------------------------------------------------
LEMMA InvariantHolds == Spec => []IInv
BY InitInv, StepInv, PTL DEF Spec

(* The queue keeps its shape and never holds more than its capacity        *)
(* (bounded-queue.hpp, the constructor and the wait in push).              *)
THEOREM QueueTypeOK == Spec => []TypeOK
<1>1. IInv => TypeOK
  BY DEF IInv
<1> QED
  BY <1>1, InvariantHolds, PTL

(* Items leave in the order of acceptance, each once, whatever closes or   *)
(* stops the queue in the meantime (push and pop).                         *)
THEOREM QueueInOrderExactlyOnce == Spec => []InOrderExactlyOnce
<1>1. IInv => InOrderExactlyOnce
  BY DEF IInv
<1> QED
  BY <1>1, InvariantHolds, PTL

(* An unstopped consumer that was told "empty" sees a closed queue that    *)
(* stays drained (pop, and the refusal in push after close).               *)
THEOREM QueueDrainedBeforeEnd == Spec => []DrainedBeforeEnd
<1>1. IInv => DrainedBeforeEnd
  BY DEF IInv
<1> QED
  BY <1>1, InvariantHolds, PTL

-----------------------------------------------------------------------------
(* Wake-ups. *)
(* The threads that are on their way to look at the deque. *)
Active(group, blocked) == InCall(group) \cup Notified(group, blocked)

OneProducerToken == \A p, q \in Producers : TokenOf[p] = TokenOf[q]

(* A thread waits on the condition variable of its call only, and a stop   *)
(* request leaves none of its token there.                                 *)
WaitersAreBlocked ==
  /\ \A p \in notFull : pc[p] = "blocked" /\ ~StopRequested(p)
  /\ \A c \in notEmpty : pc[c] = "blocked"

WakeInv ==
  /\ IInv
  /\ WaitersAreBlocked
  /\ OneProducerToken => NoLostProducer
  /\ NoLostConsumer

-----------------------------------------------------------------------------
LEMMA ActiveFinite ==
  ASSUME NEW group, IsFiniteSet(group), NEW blocked
  PROVE  /\ IsFiniteSet(Active(group, blocked))
         /\ Cardinality(Active(group, blocked)) \in Nat
<1>1. Active(group, blocked) \subseteq group
  BY DEF Active, InCall, Notified
<1> QED
  BY <1>1, FS_Subset, FS_CardinalityType

(* A group that loses at most one member, or gains at least one. *)
LEMMA CardinalityBounds ==
  ASSUME NEW S, NEW T, IsFiniteSet(S), IsFiniteSet(T)
  PROVE  /\ S \subseteq T => Cardinality(S) <= Cardinality(T)
         /\ \A x : S \ {x} \subseteq T => Cardinality(S) - 1 <= Cardinality(T)
         /\ \A x : x \notin S /\ S \cup {x} \subseteq T =>
                     Cardinality(S) + 1 <= Cardinality(T)
         /\ Cardinality(S) \in Nat /\ Cardinality(T) \in Nat
<1>1. Cardinality(S) \in Nat /\ Cardinality(T) \in Nat
  BY FS_CardinalityType
<1>2. S \subseteq T => Cardinality(S) <= Cardinality(T)
  BY FS_Subset
<1>3. ASSUME NEW x, S \ {x} \subseteq T PROVE Cardinality(S) - 1 <= Cardinality(T)
  <2>1. Cardinality(S \ {x}) <= Cardinality(T)
    BY <1>3, FS_Subset
  <2>2. Cardinality(S \ {x}) \in {Cardinality(S), Cardinality(S) - 1}
    BY FS_RemoveElement
  <2> QED
    BY <1>1, <2>1, <2>2
<1>4. ASSUME NEW x, x \notin S, S \cup {x} \subseteq T
      PROVE  Cardinality(S) + 1 <= Cardinality(T)
  <2>1. Cardinality(S \cup {x}) <= Cardinality(T)
    BY <1>4, FS_Subset
  <2>2. Cardinality(S \cup {x}) = Cardinality(S) + 1
    BY <1>4, FS_AddElement
  <2> QED
    BY <2>1, <2>2
<1> QED
  BY <1>1, <1>2, <1>3, <1>4

(* The two properties in terms of Active. *)
LEMMA NoLostMeans ==
  /\ NoLostProducer <=>
       (notFull # {} /\ ~closedValue =>
          capacityValue - Len(queue) <= Cardinality(Active(Producers, notFull)))
  /\ NoLostConsumer <=>
       (notEmpty # {} /\ ~closedValue =>
          Len(queue) <= Cardinality(Active(Consumers, notEmpty)))
  /\ NoLostProducer' <=>
       (notFull' # {} /\ ~closedValue' =>
          capacityValue - Len(queue') <= Cardinality(Active(Producers, notFull)'))
  /\ NoLostConsumer' <=>
       (notEmpty' # {} /\ ~closedValue' =>
          Len(queue') <= Cardinality(Active(Consumers, notEmpty)'))
BY DEF NoLostProducer, NoLostConsumer, Active, capacityValue

-----------------------------------------------------------------------------
(* How a step keeps enough threads on their way: "room" is what there is   *)
(* to do for the group, and Len(queue) for the consumers.                  *)
KeepsUp(room, next, active, following) ==
  \/ next <= 0
  \/ next <= room /\ active \subseteq following
  \/ next <= room - 1 /\ \E x : active \ {x} \subseteq following
  \/ next <= room + 1 /\ \E x : x \notin active /\ active \cup {x} \subseteq following

ProducersKeepUp ==
  notFull' # {} /\ ~closedValue' =>
    /\ notFull # {} \/ capacityValue - Len(queue') <= 0
    /\ ~closedValue
    /\ KeepsUp(capacityValue - Len(queue), capacityValue - Len(queue'),
               Active(Producers, notFull), Active(Producers, notFull)')

ConsumersKeepUp ==
  notEmpty' # {} /\ ~closedValue' =>
    /\ notEmpty # {} \/ Len(queue') <= 0
    /\ ~closedValue
    /\ KeepsUp(Len(queue), Len(queue'),
               Active(Consumers, notEmpty), Active(Consumers, notEmpty)')

LEMMA KeepsUpCounts ==
  ASSUME NEW room \in Int, NEW next \in Int, NEW S, NEW T,
         IsFiniteSet(S), IsFiniteSet(T),
         room <= Cardinality(S), KeepsUp(room, next, S, T)
  PROVE  next <= Cardinality(T)
<1>1. /\ Cardinality(S) \in Nat /\ Cardinality(T) \in Nat
      /\ S \subseteq T => Cardinality(S) <= Cardinality(T)
      /\ \A x : S \ {x} \subseteq T => Cardinality(S) - 1 <= Cardinality(T)
      /\ \A x : x \notin S /\ S \cup {x} \subseteq T =>
                  Cardinality(S) + 1 <= Cardinality(T)
  BY CardinalityBounds
<1>2. CASE next <= 0
  BY <1>1, <1>2
<1>3. CASE next <= room /\ S \subseteq T
  BY <1>1, <1>3
<1>4. CASE next <= room - 1 /\ \E x : S \ {x} \subseteq T
  <2>1. Cardinality(S) - 1 <= Cardinality(T)
    BY <1>1, <1>4
  <2> QED
    BY <1>1, <1>4, <2>1
<1>5. CASE next <= room + 1 /\ \E x : x \notin S /\ S \cup {x} \subseteq T
  <2>1. Cardinality(S) + 1 <= Cardinality(T)
    BY <1>1, <1>5
  <2> QED
    BY <1>1, <1>5, <2>1
<1> QED
  BY <1>2, <1>3, <1>4, <1>5 DEF KeepsUp

LEMMA WakeStep ==
  ASSUME WakeInv, IInv', WaitersAreBlocked',
         OneProducerToken => ProducersKeepUp, ConsumersKeepUp,
         IsFiniteSet(Producers), IsFiniteSet(Consumers)
  PROVE  WakeInv'
<1>1. /\ capacityValue - Len(queue) \in Int /\ capacityValue - Len(queue') \in Int
      /\ Len(queue) \in Int /\ Len(queue') \in Int
  BY CapacityPositive DEF WakeInv, IInv, TypeOK
<1>2. /\ IsFiniteSet(Active(Producers, notFull))
      /\ IsFiniteSet(Active(Producers, notFull)')
      /\ IsFiniteSet(Active(Consumers, notEmpty))
      /\ IsFiniteSet(Active(Consumers, notEmpty)')
      /\ Cardinality(Active(Producers, notFull)') \in Nat
      /\ Cardinality(Active(Consumers, notEmpty)') \in Nat
  <2>1. /\ Active(Producers, notFull) \subseteq Producers
        /\ Active(Producers, notFull)' \subseteq Producers
        /\ Active(Consumers, notEmpty) \subseteq Consumers
        /\ Active(Consumers, notEmpty)' \subseteq Consumers
    BY DEF Active, InCall, Notified
  <2> QED
    BY <2>1, FS_Subset, FS_CardinalityType
<1>3. OneProducerToken => NoLostProducer'
  <2> SUFFICES ASSUME OneProducerToken, notFull' # {}, ~closedValue'
               PROVE  capacityValue - Len(queue')
                        <= Cardinality(Active(Producers, notFull)')
    BY NoLostMeans
  <2>1. CASE capacityValue - Len(queue') <= 0
    BY <1>1, <1>2, <2>1
  <2>2. CASE notFull # {}
    <3>1. capacityValue - Len(queue) <= Cardinality(Active(Producers, notFull))
      BY <2>2, NoLostMeans DEF WakeInv, ProducersKeepUp
    <3> QED
      BY <1>1, <1>2, <3>1, KeepsUpCounts DEF ProducersKeepUp
  <2> QED
    BY <2>1, <2>2 DEF ProducersKeepUp
<1>4. NoLostConsumer'
  <2> SUFFICES ASSUME notEmpty' # {}, ~closedValue'
               PROVE  Len(queue') <= Cardinality(Active(Consumers, notEmpty)')
    BY NoLostMeans
  <2>1. CASE Len(queue') <= 0
    BY <1>1, <1>2, <2>1
  <2>2. CASE notEmpty # {}
    <3>1. Len(queue) <= Cardinality(Active(Consumers, notEmpty))
      BY <2>2, NoLostMeans DEF WakeInv, ConsumersKeepUp
    <3> QED
      BY <1>1, <1>2, <3>1, KeepsUpCounts DEF ConsumersKeepUp
  <2> QED
    BY <2>1, <2>2 DEF ConsumersKeepUp
<1> QED
  BY <1>3, <1>4 DEF WakeInv

-----------------------------------------------------------------------------
(* Steps after which the deque is as long as before, every active thread   *)
(* is still active and nobody new is asleep keep up.                       *)
LEMMA QuietStep ==
  ASSUME IInv, IInv', UNCHANGED queue, closedValue => closedValue',
         notFull' \subseteq notFull, notEmpty' \subseteq notEmpty,
         Active(Producers, notFull) \subseteq Active(Producers, notFull)',
         Active(Consumers, notEmpty) \subseteq Active(Consumers, notEmpty)'
  PROVE  ProducersKeepUp /\ ConsumersKeepUp
<1>1. capacityValue - Len(queue) \in Int /\ Len(queue) \in Int
  BY CapacityPositive DEF IInv, TypeOK
<1>2. notFull' # {} => notFull # {}
  OBVIOUS
<1>3. notEmpty' # {} => notEmpty # {}
  OBVIOUS
<1>4. ~closedValue' => ~closedValue
  BY DEF IInv, TypeOK
<1>5. KeepsUp(capacityValue - Len(queue), capacityValue - Len(queue'),
              Active(Producers, notFull), Active(Producers, notFull)')
  BY <1>1 DEF KeepsUp
<1>6. KeepsUp(Len(queue), Len(queue'),
              Active(Consumers, notEmpty), Active(Consumers, notEmpty)')
  BY <1>1 DEF KeepsUp
<1> QED
  BY <1>2, <1>3, <1>4, <1>5, <1>6 DEF ProducersKeepUp, ConsumersKeepUp

LEMMA EnterWake ==
  ASSUME WakeInv, NEW t \in Threads, Enter(t) \/ Reacquire(t)
  PROVE  WaitersAreBlocked' /\ ProducersKeepUp /\ ConsumersKeepUp
<1>1. IInv /\ IInv'
  BY EnterInv, ReacquireInv DEF WakeInv
<1>2. /\ UNCHANGED <<queue, closedValue, notFull, notEmpty, stopped>>
      /\ pc[t] \in {"outside", "blocked"} /\ t \notin notFull \cup notEmpty
      /\ pc' = [pc EXCEPT ![t] = "locked"]
  BY DEF Enter, Reacquire, WakeInv, WaitersAreBlocked
<1>3. pc \in [Threads -> {"outside", "locked", "blocked", "granted", "ended"}]
  BY <1>1 DEF IInv, TypeOK
<1>4. WaitersAreBlocked'
  BY <1>1, <1>2, <1>3 DEF IInv, TypeOK, WakeInv, WaitersAreBlocked, StopRequested, Threads
<1>5. /\ Active(Producers, notFull) \subseteq Active(Producers, notFull)'
      /\ Active(Consumers, notEmpty) \subseteq Active(Consumers, notEmpty)'
  BY <1>2, <1>3 DEF Active, InCall, Notified, Threads
<1> QED
  BY <1>1, <1>2, <1>4, <1>5, QuietStep

LEMMA WaitPushWake ==
  ASSUME WakeInv, NEW p \in Producers, WaitPush(p)
  PROVE  WaitersAreBlocked' /\ ProducersKeepUp /\ ConsumersKeepUp
<1>1. IInv /\ IInv'
  BY WaitPushInv DEF WakeInv
<1>2. pc \in [Threads -> {"outside", "locked", "blocked", "granted", "ended"}]
  BY <1>1 DEF IInv, TypeOK
<1>3. /\ UNCHANGED <<queue, closedValue, notEmpty, stopped>>
      /\ pc[p] = "locked" /\ p \in Threads /\ p \notin Consumers
  BY QueueAssumption DEF WaitPush, Threads
<1>4. CASE pc' = [pc EXCEPT ![p] = "granted"] /\ UNCHANGED notFull
  <2>1. WaitersAreBlocked'
    BY <1>1, <1>2, <1>3, <1>4
    DEF IInv, TypeOK, WakeInv, WaitersAreBlocked, StopRequested, Threads
  <2>2. /\ Active(Producers, notFull) \subseteq Active(Producers, notFull)'
        /\ Active(Consumers, notEmpty) \subseteq Active(Consumers, notEmpty)'
    BY <1>2, <1>3, <1>4 DEF Active, InCall, Notified, Threads
  <2> QED
    BY <1>1, <1>3, <1>4, <2>1, <2>2, QuietStep
<1>5. CASE /\ ~(StopRequested(p) \/ RoomOrClosed)
           /\ pc' = [pc EXCEPT ![p] = "blocked"]
           /\ notFull' = notFull \cup {p}
  <2>1. WaitersAreBlocked'
    BY <1>1, <1>2, <1>3, <1>5
    DEF IInv, TypeOK, WakeInv, WaitersAreBlocked, StopRequested, Threads
  <2>2. Len(queue) \in Nat /\ capacityValue - Len(queue') <= 0 /\ ~closedValue
    BY <1>1, <1>3, <1>5, CapacityPositive DEF IInv, TypeOK, RoomOrClosed
  <2>3. Active(Consumers, notEmpty) \subseteq Active(Consumers, notEmpty)'
    BY <1>2, <1>3, <1>5 DEF Active, InCall, Notified, Threads
  <2> QED
    BY <1>3, <2>1, <2>2, <2>3 DEF ProducersKeepUp, ConsumersKeepUp, KeepsUp
<1> QED
  BY <1>4, <1>5 DEF WaitPush

LEMMA WaitPopWake ==
  ASSUME WakeInv, NEW c \in Consumers, WaitPop(c)
  PROVE  WaitersAreBlocked' /\ ProducersKeepUp /\ ConsumersKeepUp
<1>1. IInv /\ IInv'
  BY WaitPopInv DEF WakeInv
<1>2. pc \in [Threads -> {"outside", "locked", "blocked", "granted", "ended"}]
  BY <1>1 DEF IInv, TypeOK
<1>3. /\ UNCHANGED <<queue, closedValue, notFull, stopped>>
      /\ pc[c] = "locked" /\ c \in Threads /\ c \notin Producers
  BY QueueAssumption DEF WaitPop, Threads
<1>4. CASE pc' = [pc EXCEPT ![c] = "granted"] /\ UNCHANGED notEmpty
  <2>1. WaitersAreBlocked'
    BY <1>1, <1>2, <1>3, <1>4
    DEF IInv, TypeOK, WakeInv, WaitersAreBlocked, StopRequested, Threads
  <2>2. /\ Active(Producers, notFull) \subseteq Active(Producers, notFull)'
        /\ Active(Consumers, notEmpty) \subseteq Active(Consumers, notEmpty)'
    BY <1>2, <1>3, <1>4 DEF Active, InCall, Notified, Threads
  <2> QED
    BY <1>1, <1>3, <1>4, <2>1, <2>2, QuietStep
<1>5. CASE /\ ~(StopRequested(c) \/ ItemOrClosed)
           /\ pc' = [pc EXCEPT ![c] = "blocked"]
           /\ notEmpty' = notEmpty \cup {c}
  <2>1. WaitersAreBlocked'
    BY <1>1, <1>2, <1>3, <1>5
    DEF IInv, TypeOK, WakeInv, WaitersAreBlocked, StopRequested, Threads
  <2>2. Len(queue) = 0 /\ ~closedValue
    BY <1>5 DEF ItemOrClosed
  <2>3. Active(Producers, notFull) \subseteq Active(Producers, notFull)'
    BY <1>2, <1>3, <1>5 DEF Active, InCall, Notified, Threads
  <2>4. capacityValue - Len(queue) \in Int
    BY <2>2, CapacityPositive
  <2> QED
    BY <1>3, <2>1, <2>2, <2>3, <2>4 DEF ProducersKeepUp, ConsumersKeepUp, KeepsUp
<1> QED
  BY <1>4, <1>5 DEF WaitPop

LEMMA FinishPushWake ==
  ASSUME WakeInv, NEW p \in Producers, FinishPush(p)
  PROVE  /\ WaitersAreBlocked' /\ ConsumersKeepUp
         /\ OneProducerToken => ProducersKeepUp
<1>1. IInv /\ IInv'
  BY FinishPushInv DEF WakeInv
<1>2. /\ pc \in [Threads -> {"outside", "locked", "blocked", "granted", "ended"}]
      /\ queue \in Seq(Items)
  BY <1>1 DEF IInv, TypeOK
<1>3. /\ UNCHANGED <<closedValue, notFull, stopped>>
      /\ pc[p] = "granted" /\ p \in Threads /\ p \notin Consumers
  BY QueueAssumption DEF FinishPush, Threads
<1>4. CASE PushRefused(p) /\ pc' = [pc EXCEPT ![p] = "ended"]
             /\ UNCHANGED <<queue, notEmpty>>
  <2>1. WaitersAreBlocked'
    BY <1>1, <1>2, <1>3, <1>4
    DEF IInv, TypeOK, WakeInv, WaitersAreBlocked, StopRequested, Threads
  <2>2. OneProducerToken => notFull = {} \/ closedValue
    BY <1>1, <1>4
    DEF IInv, TypeOK, WakeInv, WaitersAreBlocked, OneProducerToken, PushRefused,
        StopRequested
  <2>3. Active(Consumers, notEmpty) \subseteq Active(Consumers, notEmpty)'
    BY <1>2, <1>3, <1>4 DEF Active, InCall, Notified, Threads
  <2>4. Len(queue) \in Nat
    BY <1>2
  <2> QED
    BY <1>3, <1>4, <2>1, <2>2, <2>3, <2>4 DEF ProducersKeepUp, ConsumersKeepUp, KeepsUp
<1>5. CASE /\ ~PushRefused(p)
           /\ queue' = Append(queue, <<p, Offered(p) + 1>>)
           /\ WakeConsumer
           /\ pc' = [pc EXCEPT ![p] = "outside"]
  <2>1. WaitersAreBlocked'
    BY <1>1, <1>2, <1>3, <1>5
    DEF IInv, TypeOK, WakeInv, WaitersAreBlocked, StopRequested, Threads,
        WakeConsumer, AfterNotifyOne
  <2>2. Len(queue) \in Nat /\ Len(queue') = Len(queue) + 1 /\ ~closedValue
    BY <1>2, <1>5 DEF PushRefused
  <2>3. Active(Producers, notFull) \ {p} \subseteq Active(Producers, notFull)'
    BY <1>2, <1>3, <1>5 DEF Active, InCall, Notified, Threads
  <2>4. ProducersKeepUp
    <3>1. notFull' # {} => notFull # {}
      BY <1>3
    <3>2. capacityValue - Len(queue') <= (capacityValue - Len(queue)) - 1
      BY <2>2, CapacityPositive
    <3> QED
      BY <2>2, <2>3, <3>1, <3>2 DEF ProducersKeepUp, KeepsUp
  <2>5. ConsumersKeepUp
    <3> SUFFICES ASSUME notEmpty' # {}
                 PROVE  /\ notEmpty # {}
                        /\ KeepsUp(Len(queue), Len(queue'),
                              Active(Consumers, notEmpty), Active(Consumers, notEmpty)')
      BY <2>2 DEF ConsumersKeepUp
    <3>1. PICK c \in notEmpty : notEmpty' = notEmpty \ {c}
      BY <1>5 DEF WakeConsumer, AfterNotifyOne
    <3>2. /\ c \notin Active(Consumers, notEmpty)
          /\ Active(Consumers, notEmpty) \cup {c} \subseteq Active(Consumers, notEmpty)'
      <4>1. c \in Consumers /\ pc[c] = "blocked" /\ c # p
        BY <1>1, <1>3, <3>1 DEF IInv, TypeOK, WakeInv, WaitersAreBlocked
      <4> QED
        BY <1>2, <1>3, <1>5, <3>1, <4>1 DEF Active, InCall, Notified, Threads
    <3>3. Len(queue') <= Len(queue) + 1
      BY <2>2
    <3> QED
      BY <3>1, <3>2, <3>3 DEF KeepsUp
  <2> QED
    BY <2>1, <2>4, <2>5
<1> QED
  BY <1>4, <1>5 DEF FinishPush

LEMMA FinishPopWake ==
  ASSUME WakeInv, NEW c \in Consumers, FinishPop(c)
  PROVE  WaitersAreBlocked' /\ ProducersKeepUp /\ ConsumersKeepUp
<1>1. IInv /\ IInv'
  BY FinishPopInv DEF WakeInv
<1>2. /\ pc \in [Threads -> {"outside", "locked", "blocked", "granted", "ended"}]
      /\ queue \in Seq(Items)
  BY <1>1 DEF IInv, TypeOK
<1>3. /\ UNCHANGED <<closedValue, notEmpty, stopped>>
      /\ pc[c] = "granted" /\ c \in Threads /\ c \notin Producers
  BY QueueAssumption DEF FinishPop, Threads
<1>4. CASE queue = <<>> /\ pc' = [pc EXCEPT ![c] = "ended"]
             /\ UNCHANGED <<queue, notFull>>
  <2>1. WaitersAreBlocked'
    BY <1>1, <1>2, <1>3, <1>4
    DEF IInv, TypeOK, WakeInv, WaitersAreBlocked, StopRequested, Threads
  <2>2. Active(Producers, notFull) \subseteq Active(Producers, notFull)'
    BY <1>2, <1>3, <1>4 DEF Active, InCall, Notified, Threads
  <2>3. Len(queue') = 0 /\ capacityValue - Len(queue') \in Int /\ queue' = queue
    BY <1>4, CapacityPositive
  <2>4. ~closedValue' => ~closedValue
    BY <1>3
  <2> QED
    BY <1>3, <1>4, <2>1, <2>2, <2>3, <2>4 DEF ProducersKeepUp, ConsumersKeepUp, KeepsUp
<1>5. CASE queue # <<>> /\ TakeFront /\ WakeProducer
             /\ pc' = [pc EXCEPT ![c] = "outside"]
  <2>1. WaitersAreBlocked'
    BY <1>1, <1>2, <1>3, <1>5
    DEF IInv, TypeOK, WakeInv, WaitersAreBlocked, StopRequested, Threads,
        WakeProducer, AfterNotifyOne
  <2>2. Len(queue) \in Nat /\ Len(queue') = Len(queue) - 1
    BY <1>2, <1>5 DEF TakeFront
  <2>3. Active(Consumers, notEmpty) \ {c} \subseteq Active(Consumers, notEmpty)'
    BY <1>2, <1>3, <1>5 DEF Active, InCall, Notified, Threads
  <2>4. ConsumersKeepUp
    <3>1. notEmpty' # {} => notEmpty # {}
      BY <1>3
    <3>2. ~closedValue' => ~closedValue
      BY <1>3
    <3> QED
      BY <2>2, <2>3, <3>1, <3>2 DEF ConsumersKeepUp, KeepsUp
  <2>5. ProducersKeepUp
    <3> SUFFICES ASSUME notFull' # {}
                 PROVE  /\ notFull # {}
                        /\ KeepsUp(capacityValue - Len(queue), capacityValue - Len(queue'),
                              Active(Producers, notFull), Active(Producers, notFull)')
      BY <1>3 DEF ProducersKeepUp
    <3>1. PICK p \in notFull : notFull' = notFull \ {p}
      BY <1>5 DEF WakeProducer, AfterNotifyOne
    <3>2. /\ p \notin Active(Producers, notFull)
          /\ Active(Producers, notFull) \cup {p} \subseteq Active(Producers, notFull)'
      <4>1. p \in Producers /\ pc[p] = "blocked" /\ p # c
        BY <1>1, <1>3, <3>1 DEF IInv, TypeOK, WakeInv, WaitersAreBlocked
      <4> QED
        BY <1>2, <1>3, <1>5, <3>1, <4>1 DEF Active, InCall, Notified, Threads
    <3>3. capacityValue - Len(queue') <= (capacityValue - Len(queue)) + 1
      BY <2>2, CapacityPositive
    <3> QED
      BY <3>1, <3>2, <3>3 DEF KeepsUp
  <2> QED
    BY <2>1, <2>4, <2>5
<1> QED
  BY <1>4, <1>5 DEF FinishPop

(* Steps that change no call: close(), a stop request, a spurious wake-up. *)
LEMMA NotifyWake ==
  ASSUME WakeInv, CloseMark \/ CloseNotify
                    \/ (\E token \in Tokens : RequestStop(token))
                    \/ (\E t \in Threads : SpuriousWakeup(t))
                    \/ UNCHANGED vars
  PROVE  IInv' /\ WaitersAreBlocked' /\ ProducersKeepUp /\ ConsumersKeepUp
<1>1. IInv /\ IInv'
  BY StepInv DEF WakeInv, Next
<1>2. /\ UNCHANGED <<queue, pc>>
      /\ closedValue => closedValue'
      /\ notFull' \subseteq notFull /\ notEmpty' \subseteq notEmpty
  BY DEF CloseMark, CloseNotify, RequestStop, SpuriousWakeup, vars
<1>3. WaitersAreBlocked'
  <2>1. CASE UNCHANGED stopped
    BY <1>2, <2>1 DEF WakeInv, WaitersAreBlocked, StopRequested
  <2>2. ASSUME NEW token \in Tokens, RequestStop(token) PROVE WaitersAreBlocked'
    <3>1. \A p \in notFull : p \in Producers
      BY <1>1 DEF IInv, TypeOK
    <3>2. \A p \in notFull' : TokenOf[p] # token
      BY <2>2, <3>1 DEF RequestStop, Registered, WakeInv, WaitersAreBlocked
    <3> QED
      BY <1>2, <2>2, <3>2 DEF WakeInv, WaitersAreBlocked, StopRequested, RequestStop
  <2> QED
    BY <2>1, <2>2 DEF CloseMark, CloseNotify, SpuriousWakeup, vars
<1>4. /\ Active(Producers, notFull) \subseteq Active(Producers, notFull)'
      /\ Active(Consumers, notEmpty) \subseteq Active(Consumers, notEmpty)'
  BY <1>2 DEF Active, InCall, Notified
<1> QED
  BY <1>1, <1>2, <1>3, <1>4, QuietStep

-----------------------------------------------------------------------------
LEMMA WakeInit == Init => WakeInv
<1> SUFFICES ASSUME Init PROVE WakeInv
  OBVIOUS
<1>1. WaitersAreBlocked /\ NoLostProducer /\ NoLostConsumer
  BY DEF Init, WaitersAreBlocked, NoLostProducer, NoLostConsumer
<1> QED
  BY <1>1, InitInv DEF WakeInv

LEMMA WakeNext ==
  ASSUME IsFiniteSet(Producers), IsFiniteSet(Consumers)
  PROVE  WakeInv /\ [Next]_vars => WakeInv'
<1> SUFFICES ASSUME WakeInv, [Next]_vars PROVE WakeInv'
  OBVIOUS
<1>1. IInv'
  BY StepInv DEF WakeInv
<1>2. ASSUME NEW t \in Threads, ThreadStep(t)
      PROVE  /\ WaitersAreBlocked' /\ ConsumersKeepUp
             /\ OneProducerToken => ProducersKeepUp
  BY <1>2, EnterWake, WaitPushWake, WaitPopWake, FinishPushWake, FinishPopWake
  DEF ThreadStep
<1>3. /\ WaitersAreBlocked' /\ ConsumersKeepUp
      /\ OneProducerToken => ProducersKeepUp
  BY <1>2, NotifyWake DEF Next
<1> QED
  BY <1>1, <1>3, WakeStep

(* No producer is forgotten: while one sleeps unnotified and the queue is  *)
(* open, at least as many producers as there are free slots are awake in   *)
(* push or notified (push's wait, pop's notify_one, the stop callbacks).   *)
THEOREM QueueNoLostProducer ==
  ASSUME IsFiniteSet(Producers), IsFiniteSet(Consumers), OneProducerToken
  PROVE  Spec => []NoLostProducer
<1>1. WakeInv => NoLostProducer
  BY DEF WakeInv
<1> QED
  BY <1>1, WakeInit, WakeNext, PTL DEF Spec

(* No consumer is forgotten: the same for the items the deque holds.       *)
THEOREM QueueNoLostConsumer ==
  ASSUME IsFiniteSet(Producers), IsFiniteSet(Consumers)
  PROVE  Spec => []NoLostConsumer
<1>1. WakeInv => NoLostConsumer
  BY DEF WakeInv
<1> QED
  BY <1>1, WakeInit, WakeNext, PTL DEF Spec
=============================================================================
