---------------------------- MODULE BoundedQueue ----------------------------
(***************************************************************************)
(* src/core/concurrency/bounded-queue.hpp: the cancellation-aware queue    *)
(* behind the worker pool and behind every per-file result queue of the    *)
(* direct search.                                                          *)
(*                                                                         *)
(* One mutex, two condition variables.  A call takes the mutex, waits on   *)
(* its condition variable until its predicate or its stop token holds and  *)
(* finishes before it lets the mutex go.  Only two things happen to a call *)
(* that holds the mutex: its token is stopped (a stop source takes no      *)
(* lock), and the notifications of close(), which come after the unlock.   *)
(* The step between the return of wait and the test of the token that      *)
(* follows it is therefore an action boundary of its own.                  *)
(*                                                                         *)
(* std::condition_variable_any::wait(lock, token, predicate) registers a   *)
(* stop callback that calls notify_all for the duration of the wait, tests *)
(* the token before the predicate, and may wake up without a notification. *)
(***************************************************************************)
EXTENDS Integers, Sequences, FiniteSets

CONSTANTS
  Producers,          \* threads that push
  Consumers,          \* threads that pop
  Tokens,             \* stop tokens
  TokenOf,            \* the token each thread passes to its calls
  RequestedCapacity,  \* the constructor's argument
  MaxItems            \* bound: items each producer offers

Threads == Producers \cup Consumers

ASSUME QueueAssumption ==
  /\ Producers \cap Consumers = {}
  /\ RequestedCapacity \in Nat
  /\ MaxItems \in Nat
  /\ TokenOf \in [Threads -> Tokens]

NoOne == "no thread"

ASSUME NoOneAssumption == NoOne \notin Threads

VARIABLES
  queue,        \* the deque
  closedValue,  \* set under the mutex by close()
  closer,       \* progress of close(): "open", "marked", "closed"
  mutex,        \* the thread that holds the mutex, or NoOne
  pc,           \* where each thread is in its call
  notFull,      \* threads blocked on notFull
  notEmpty,     \* threads blocked on notEmpty
  stopped,      \* tokens with stop requested
  accepted,     \* history: items push returned true for
  delivered     \* history: items pop returned

vars == <<queue, closedValue, closer, mutex, pc, notFull, notEmpty, stopped,
          accepted, delivered>>

(* BoundedQueue(0) is a queue of one. *)
capacityValue == IF RequestedCapacity = 0 THEN 1 ELSE RequestedCapacity

Items == Producers \X (1..MaxItems)

TypeOK ==
  /\ queue \in Seq(Items) /\ Len(queue) <= capacityValue
  /\ closedValue \in BOOLEAN
  /\ closer \in {"open", "marked", "closed"}
  /\ mutex \in Threads \cup {NoOne}
  /\ pc \in [Threads -> {"outside", "locked", "blocked", "granted", "ended"}]
  /\ notFull \subseteq Producers
  /\ notEmpty \subseteq Consumers
  /\ stopped \subseteq Tokens
  /\ accepted \in Seq(Items)
  /\ delivered \in Seq(Items)

Init ==
  /\ queue = <<>>
  /\ closedValue = FALSE
  /\ closer = "open"
  /\ mutex = NoOne
  /\ pc = [t \in Threads |-> "outside"]
  /\ notFull = {}
  /\ notEmpty = {}
  /\ stopped = {}
  /\ accepted = <<>>
  /\ delivered = <<>>

StopRequested(t) == TokenOf[t] \in stopped
RoomOrClosedOffByOne == closedValue \/ Len(queue) <= capacityValue
RoomOrClosed     == closedValue \/ Len(queue) < capacityValue
ItemOrClosed     == closedValue \/ queue # <<>>

(* notify_one removes one thread from the blocked threads, if there is one. *)
AfterNotifyOne(blocked) ==
  IF blocked = {} THEN {{}} ELSE {blocked \ {t} : t \in blocked}

(* The notification of push and that of pop; the mutated forms save the    *)
(* call when the deque was neither empty nor full.                         *)
WakeConsumerIfEmpty ==
  notEmpty' \in IF queue = <<>> THEN AfterNotifyOne(notEmpty) ELSE {notEmpty}
WakeConsumer == notEmpty' \in AfterNotifyOne(notEmpty)

WakeProducerIfFull ==
  notFull' \in IF Len(queue) = capacityValue
              THEN AfterNotifyOne(notFull) ELSE {notFull}
WakeProducer == notFull' \in AfterNotifyOne(notFull)

(* push tests both again after its wait. *)
PushRefusedIfStopped(p) == StopRequested(p)
PushRefused(p) == closedValue \/ StopRequested(p)

TakeBack ==
  /\ queue' = SubSeq(queue, 1, Len(queue) - 1)
  /\ delivered' = Append(delivered, queue[Len(queue)])
TakeFront ==
  /\ queue' = Tail(queue)
  /\ delivered' = Append(delivered, Head(queue))

Offered(p) == Cardinality({i \in DOMAIN accepted : accepted[i][1] = p})

-----------------------------------------------------------------------------
(* push and pop: std::unique_lock lock(mutex). *)
Enter(t) ==
  /\ pc[t] = "outside" /\ mutex = NoOne
  /\ t \in Producers => Offered(t) < MaxItems
  /\ mutex' = t
  /\ pc' = [pc EXCEPT ![t] = "locked"]
  /\ UNCHANGED <<queue, closedValue, closer, notFull, notEmpty, stopped,
                 accepted, delivered>>

(* The loop of the wait in push: return, or release the mutex and block. *)
WaitPush(p) ==
  /\ pc[p] = "locked" /\ mutex = p
  /\ \/ /\ StopRequested(p) \/ RoomOrClosed
        /\ pc' = [pc EXCEPT ![p] = "granted"]
        /\ UNCHANGED <<mutex, notFull>>
     \/ /\ ~(StopRequested(p) \/ RoomOrClosed)
        /\ pc' = [pc EXCEPT ![p] = "blocked"]
        /\ mutex' = NoOne
        /\ notFull' = notFull \cup {p}
  /\ UNCHANGED <<queue, closedValue, closer, notEmpty, stopped, accepted,
                 delivered>>

(* The loop of the wait in pop. *)
WaitPop(c) ==
  /\ pc[c] = "locked" /\ mutex = c
  /\ \/ /\ StopRequested(c) \/ ItemOrClosed
        /\ pc' = [pc EXCEPT ![c] = "granted"]
        /\ UNCHANGED <<mutex, notEmpty>>
     \/ /\ ~(StopRequested(c) \/ ItemOrClosed)
        /\ pc' = [pc EXCEPT ![c] = "blocked"]
        /\ mutex' = NoOne
        /\ notEmpty' = notEmpty \cup {c}
  /\ UNCHANGED <<queue, closedValue, closer, notFull, stopped, accepted,
                 delivered>>

(* A notified thread takes the mutex back and tests again. *)
Reacquire(t) ==
  /\ pc[t] = "blocked" /\ t \notin notFull \cup notEmpty /\ mutex = NoOne
  /\ mutex' = t
  /\ pc' = [pc EXCEPT ![t] = "locked"]
  /\ UNCHANGED <<queue, closedValue, closer, notFull, notEmpty, stopped,
                 accepted, delivered>>

(* push after its wait: refuse, or append and notify one consumer.  The    *)
(* callers in the program stop pushing after a refusal.                    *)
FinishPush(p) ==
  /\ pc[p] = "granted" /\ mutex = p
  /\ mutex' = NoOne
  /\ \/ /\ PushRefused(p)
        /\ pc' = [pc EXCEPT ![p] = "ended"]
        /\ UNCHANGED <<queue, notEmpty, accepted>>
     \/ /\ ~PushRefused(p)
        /\ LET item == <<p, Offered(p) + 1>> IN
             /\ queue' = Append(queue, item)
             /\ accepted' = Append(accepted, item)
        /\ WakeConsumer
        /\ pc' = [pc EXCEPT ![p] = "outside"]
  /\ UNCHANGED <<closedValue, closer, notFull, stopped, delivered>>

(* pop after its wait: the end when the deque is empty, whatever woke it;  *)
(* otherwise the front item, even when the token is stopped or the queue   *)
(* closed.  The callers stop popping after an empty answer.                *)
FinishPop(c) ==
  /\ pc[c] = "granted" /\ mutex = c
  /\ mutex' = NoOne
  /\ \/ /\ queue = <<>>
        /\ pc' = [pc EXCEPT ![c] = "ended"]
        /\ UNCHANGED <<queue, notFull, delivered>>
     \/ /\ queue # <<>>
        /\ TakeFront
        /\ WakeProducer
        /\ pc' = [pc EXCEPT ![c] = "outside"]
  /\ UNCHANGED <<closedValue, closer, notEmpty, stopped, accepted>>

(* close(): the flag under the mutex, then the notifications without it. *)
CloseMark ==
  /\ closer = "open" /\ mutex = NoOne
  /\ closedValue' = TRUE
  /\ closer' = "marked"
  /\ UNCHANGED <<queue, mutex, pc, notFull, notEmpty, stopped, accepted,
                 delivered>>

CloseNotifiesProducers ==
  /\ closer = "marked"
  /\ closer' = "closed"
  /\ notFull' = {}
  /\ UNCHANGED <<queue, closedValue, mutex, pc, notEmpty, stopped, accepted,
                 delivered>>

CloseNotify ==
  /\ closer = "marked"
  /\ closer' = "closed"
  /\ notFull' = {}
  /\ notEmpty' = {}
  /\ UNCHANGED <<queue, closedValue, mutex, pc, stopped, accepted, delivered>>

(* A stop request on a token runs the callbacks of the waits registered    *)
(* with it; each callback notifies all the threads of its condition.       *)
NotRegistered(group, token) == FALSE
Registered(group, token) ==
  \E t \in group : TokenOf[t] = token /\ pc[t] \in {"locked", "blocked"}

RequestStop(token) ==
  /\ token \in Tokens \ stopped
  /\ stopped' = stopped \cup {token}
  /\ notFull' = IF Registered(Producers, token) THEN {} ELSE notFull
  /\ notEmpty' = IF Registered(Consumers, token) THEN {} ELSE notEmpty
  /\ UNCHANGED <<queue, closedValue, closer, mutex, pc, accepted, delivered>>

(* A wake-up without a notification. *)
SpuriousWakeup(t) ==
  /\ t \in notFull \cup notEmpty
  /\ notFull' = notFull \ {t}
  /\ notEmpty' = notEmpty \ {t}
  /\ UNCHANGED <<queue, closedValue, closer, mutex, pc, stopped, accepted,
                 delivered>>

ThreadStep(t) ==
  \/ Enter(t) \/ Reacquire(t)
  \/ t \in Producers /\ (WaitPush(t) \/ FinishPush(t))
  \/ t \in Consumers /\ (WaitPop(t) \/ FinishPop(t))

Next ==
  \/ \E t \in Threads : ThreadStep(t) \/ SpuriousWakeup(t)
  \/ CloseMark \/ CloseNotify
  \/ \E token \in Tokens : RequestStop(token)

Spec == Init /\ [][Next]_vars

(* A thread that can run does, a woken thread that finds the mutex free    *)
(* again and again gets it (spurious wake-ups of others may come between), *)
(* and close() completes once it has begun.  Nobody has to close the       *)
(* queue, stop a token or wake up spuriously.                              *)
FairSpec ==
  /\ Spec
  /\ WF_vars(CloseNotify)
  /\ \A t \in Threads : WF_vars(ThreadStep(t)) /\ SF_vars(Reacquire(t))

-----------------------------------------------------------------------------
(* What pop returned, followed by what the deque still holds, is what push *)
(* accepted: nothing is lost, doubled or overtaken by close or a stop.     *)
InOrderExactlyOnce == accepted = delivered \o queue

(* pop answers "empty" to a consumer that was not stopped only when the    *)
(* queue is closed and drained, and it stays drained: no push that was     *)
(* already past its wait slips an item in behind the last consumer.        *)
DrainedBeforeEnd ==
  \A c \in Consumers :
    pc[c] = "ended" /\ ~StopRequested(c) => closedValue /\ queue = <<>>

(* A producer blocked without a notification while there is room is not    *)
(* forgotten: a wake-up for each free slot is on its way (a producer that  *)
(* was notified or is in its call), or close() is about to notify all.     *)
InCall(group) == {t \in group : pc[t] \in {"locked", "granted"}}
Notified(group, blocked) ==
  {t \in group : pc[t] = "blocked" /\ t \notin blocked}

NoLostProducer ==
  (notFull # {} /\ ~closedValue) =>
    capacityValue - Len(queue)
      <= Cardinality(InCall(Producers) \cup Notified(Producers, notFull))

(* The same for a consumer blocked while the deque holds items. *)
NoLostConsumer ==
  (notEmpty # {} /\ ~closedValue) =>
    Len(queue)
      <= Cardinality(InCall(Consumers) \cup Notified(Consumers, notEmpty))

(* close() releases everybody: after it, no call waits for ever. *)
NoCallOf(group) == \A t \in group : pc[t] \in {"outside", "ended"}

CloseReleasesAll == closedValue ~> NoCallOf(Threads)

(* A stop request releases every call that passed its token. *)
StopReleasesItsCalls ==
  \A token \in Tokens :
    token \in stopped ~> NoCallOf({t \in Threads : TokenOf[t] = token})
=============================================================================
