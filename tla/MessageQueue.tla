---------------------------- MODULE MessageQueue ----------------------------
(***************************************************************************)
(* base::MessageQueue<T>, src/base/message_queue.hpp: a blocking queue of  *)
(* two linked lists.  Producers append to the put list under put_mutex_;   *)
(* a consumer, which holds get_mutex_ for the whole of Pop, takes from the *)
(* get list and swaps the two lists when the get list is empty.            *)
(*                                                                         *)
(* The grain is what the mutexes and condition variables make observable:  *)
(* a step is a critical section, a notification, or a change of a wait     *)
(* set.  cv.wait(lock, pred) is its loop: evaluate pred with the mutex     *)
(* held; if false, sleep (atomically releasing the mutex and joining the   *)
(* wait set), be woken by a notification or spuriously, take the mutex     *)
(* again and re-evaluate.  Evaluating the predicate and falling asleep are *)
(* two steps: SetNotWait writes non_block without put_mutex_ and may come  *)
(* between them.                                                           *)
(*                                                                         *)
(*   pc[t]      thread t is ...                                            *)
(*   idle       outside the queue                                          *)
(*   head       (consumer) holding get_mutex_, looking at get_head_        *)
(*   locked     holding put_mutex_, about to evaluate its predicate        *)
(*   sleeping   holding put_mutex_, its predicate found false              *)
(*   waiting    in the wait set of put_cv_ (producer) or get_cv_ (consumer)*)
(*   woken      out of the wait set, about to take put_mutex_ again        *)
(*   notify     past its critical section, about to notify                 *)
(***************************************************************************)
EXTENDS Naturals, Sequences

CONSTANTS
  Producers,         \* threads that call Push
  Consumers,         \* threads that call Pop
  MaxMessageCount,   \* max_massage_count_
  Quota,             \* bound: the number of messages a producer pushes
  NoThread,          \* owner of a free mutex
  Empty              \* std::nullopt

ASSUME MaxAssumption == MaxMessageCount \in Nat \ {0}
ASSUME QuotaAssumption == Quota \in Nat
ASSUME ThreadAssumption ==
  /\ Producers \cap Consumers = {}
  /\ NoThread \notin Producers \cup Consumers

VARIABLES
  nonBlock,       \* non_block
  messageCount,   \* message_count_
  putList,        \* the list from put_head_ to put_tail_
  getList,        \* the list from get_head_
  putMutex,       \* owner of put_mutex_
  getMutex,       \* owner of get_mutex_
  pc,             \* where each thread is
  sent,           \* sent[p]: how many messages p has enqueued
  swapped,        \* what the last SwapQueue returned
  result,         \* result[c]: the optional of the last (or current) Pop of c
  switchPc        \* the caller of SetNotWait: idle, notifyGet, notifyPut, done

vars == <<nonBlock, messageCount, putList, getList, putMutex, getMutex, pc,
          sent, swapped, result, switchPc>>

Threads == Producers \cup Consumers
Message == Producers \X (1 .. Quota)

ASSUME EmptyAssumption == Empty \notin Message

Init ==
  /\ nonBlock = FALSE
  /\ messageCount = 0
  /\ putList = <<>>
  /\ getList = <<>>
  /\ putMutex = NoThread
  /\ getMutex = NoThread
  /\ pc = [t \in Threads |-> "idle"]
  /\ sent = [p \in Producers |-> 0]
  /\ swapped = 0
  /\ result = [c \in Consumers |-> Empty]
  /\ switchPc = "idle"

-----------------------------------------------------------------------------
(* Condition variables *)

PutWaiters == {p \in Producers : pc[p] = "waiting"}
GetWaiters == {c \in Consumers : pc[c] = "waiting"}

\* The program counters once the threads of W have left their wait set.
Wake(W) == [t \in Threads |-> IF t \in W THEN "woken" ELSE pc[t]]

\* What notify_one may wake of the wait set W.
OneOf_Silent(W) == {{}}
OneOf(W) == IF W = {} THEN {{}} ELSE {{t} : t \in W}

\* The predicate is false: the thread decides to sleep ...
Block(t, predicate) ==
  /\ pc[t] = "locked"
  /\ ~predicate
  /\ pc' = [pc EXCEPT ![t] = "sleeping"]
  /\ UNCHANGED <<nonBlock, messageCount, putList, getList, putMutex, getMutex,
                 sent, swapped, result, switchPc>>

\* ... and sleeps, giving put_mutex_ back.
Sleep(t) ==
  /\ pc[t] = "sleeping"
  /\ pc' = [pc EXCEPT ![t] = "waiting"]
  /\ putMutex' = NoThread
  /\ UNCHANGED <<nonBlock, messageCount, putList, getList, getMutex, sent,
                 swapped, result, switchPc>>

SpuriousWakeup(t) ==
  /\ pc[t] = "waiting"
  /\ pc' = Wake({t})
  /\ UNCHANGED <<nonBlock, messageCount, putList, getList, putMutex, getMutex,
                 sent, swapped, result, switchPc>>

Relock(t) ==
  /\ pc[t] = "woken"
  /\ putMutex = NoThread
  /\ putMutex' = t
  /\ pc' = [pc EXCEPT ![t] = "locked"]
  /\ UNCHANGED <<nonBlock, messageCount, putList, getList, getMutex, sent,
                 swapped, result, switchPc>>

-----------------------------------------------------------------------------
(* Push *)

\* The predicate a producer waits for.
HasRoom_OffByOne == nonBlock \/ messageCount <= MaxMessageCount
HasRoom == nonBlock \/ messageCount < MaxMessageCount

CountAfterPush == messageCount + 1

PushLock(p) ==
  /\ pc[p] = "idle"
  /\ sent[p] < Quota
  /\ putMutex = NoThread
  /\ putMutex' = p
  /\ pc' = [pc EXCEPT ![p] = "locked"]
  /\ UNCHANGED <<nonBlock, messageCount, putList, getList, getMutex, sent,
                 swapped, result, switchPc>>

PushEnqueue(p) ==
  /\ pc[p] = "locked"
  /\ HasRoom
  /\ sent' = [sent EXCEPT ![p] = @ + 1]
  /\ putList' = Append(putList, <<p, sent[p] + 1>>)
  /\ messageCount' = CountAfterPush
  /\ putMutex' = NoThread
  /\ pc' = [pc EXCEPT ![p] = "notify"]
  /\ UNCHANGED <<nonBlock, getList, getMutex, swapped, result, switchPc>>

PushNotify(p) ==
  /\ pc[p] = "notify"
  /\ \E W \in OneOf(GetWaiters) : pc' = [Wake(W) EXCEPT ![p] = "idle"]
  /\ UNCHANGED <<nonBlock, messageCount, putList, getList, putMutex, getMutex,
                 sent, swapped, result, switchPc>>

-----------------------------------------------------------------------------
(* Pop and SwapQueue *)

\* The predicate a consumer waits for.
HasMessage_OffByOne == nonBlock \/ messageCount >= 0
HasMessage == nonBlock \/ messageCount > 0

\* The swapped list was full, so producers may be waiting for the room.
WasFull_OffByOne(n) == n > MaxMessageCount
WasFull(n) == n > MaxMessageCount - 1

\* SwapQueue empties the put list and its count together.
CountAfterSwap == 0

\* Pop holds get_mutex_ until it returns, also while it waits for a message.
MayPop == getMutex = NoThread

PopLock(c) ==
  /\ pc[c] = "idle"
  /\ MayPop
  /\ getMutex' = c
  /\ pc' = [pc EXCEPT ![c] = "head"]
  /\ result' = [result EXCEPT ![c] = Empty]
  /\ UNCHANGED <<nonBlock, messageCount, putList, getList, putMutex, sent,
                 swapped, switchPc>>

PopTake(c) ==
  /\ pc[c] = "head"
  /\ getList # <<>>
  /\ result' = [result EXCEPT ![c] = Head(getList)]
  /\ getList' = Tail(getList)
  /\ getMutex' = NoThread
  /\ pc' = [pc EXCEPT ![c] = "idle"]
  /\ UNCHANGED <<nonBlock, messageCount, putList, putMutex, sent, swapped,
                 switchPc>>

SwapLock(c) ==
  /\ pc[c] = "head"
  /\ getList = <<>>
  /\ putMutex = NoThread
  /\ putMutex' = c
  /\ pc' = [pc EXCEPT ![c] = "locked"]
  /\ UNCHANGED <<nonBlock, messageCount, putList, getList, getMutex, sent,
                 swapped, result, switchPc>>

SwapLists(c) ==
  /\ pc[c] = "locked"
  /\ HasMessage
  /\ getList' = putList
  /\ putList' = <<>>
  /\ swapped' = messageCount
  /\ messageCount' = CountAfterSwap
  /\ putMutex' = NoThread
  /\ pc' = [pc EXCEPT ![c] = "notify"]
  /\ UNCHANGED <<nonBlock, getMutex, sent, result, switchPc>>

\* Notify the producers; then Pop goes on to the head of the list it was
\* given, or returns the empty optional if it was given none.
SwapNotify(c) ==
  /\ pc[c] = "notify"
  /\ pc' = [Wake(IF WasFull(swapped) THEN PutWaiters ELSE {})
              EXCEPT ![c] = IF swapped > 0 THEN "head" ELSE "idle"]
  /\ getMutex' = IF swapped > 0 THEN getMutex ELSE NoThread
  /\ UNCHANGED <<nonBlock, messageCount, putList, getList, putMutex, sent,
                 swapped, result, switchPc>>

-----------------------------------------------------------------------------
(* SetNotWait: an unlocked store and two notifications *)

SetNonBlock ==
  /\ switchPc = "idle"
  /\ nonBlock' = TRUE
  /\ switchPc' = "notifyGet"
  /\ UNCHANGED <<messageCount, putList, getList, putMutex, getMutex, pc, sent,
                 swapped, result>>

SwitchNotifyGet ==
  /\ switchPc = "notifyGet"
  /\ \E W \in OneOf(GetWaiters) : pc' = Wake(W)
  /\ switchPc' = "notifyPut"
  /\ UNCHANGED <<nonBlock, messageCount, putList, getList, putMutex, getMutex,
                 sent, swapped, result>>

SwitchNotifyPut ==
  /\ switchPc = "notifyPut"
  /\ pc' = Wake(PutWaiters)
  /\ switchPc' = "done"
  /\ UNCHANGED <<nonBlock, messageCount, putList, getList, putMutex, getMutex,
                 sent, swapped, result>>

-----------------------------------------------------------------------------
ProducerNext(p) ==
  \/ PushLock(p) \/ PushEnqueue(p) \/ PushNotify(p)
  \/ Block(p, HasRoom) \/ Sleep(p) \/ SpuriousWakeup(p) \/ Relock(p)

ConsumerNext(c) ==
  \/ PopLock(c) \/ PopTake(c) \/ SwapLock(c) \/ SwapLists(c) \/ SwapNotify(c)
  \/ Block(c, HasMessage) \/ Sleep(c) \/ SpuriousWakeup(c) \/ Relock(c)

SetNotWait == SetNonBlock \/ SwitchNotifyGet \/ SwitchNotifyPut

Next ==
  \/ \E p \in Producers : ProducerNext(p)
  \/ \E c \in Consumers : ConsumerNext(c)
  \/ SetNotWait

Spec == Init /\ [][Next]_vars

\* A thread inside the queue keeps running, and a mutex that is free again
\* and again is eventually given to each thread that wants it.  Nobody has to
\* start a Push or a SetNotWait; a consumer calls Pop again and again, as the
\* worker of base::Log does.  Spurious wakeups are possible, never promised.
Fairness ==
  /\ \A p \in Producers :
       /\ WF_vars(PushEnqueue(p) \/ PushNotify(p) \/ Block(p, HasRoom) \/ Sleep(p))
       /\ SF_vars(Relock(p))
  /\ \A c \in Consumers :
       /\ WF_vars(PopTake(c) \/ SwapLists(c) \/ SwapNotify(c)
                    \/ Block(c, HasMessage) \/ Sleep(c))
       /\ SF_vars(PopLock(c))
       /\ SF_vars(SwapLock(c) \/ Relock(c))
  /\ WF_vars(SwitchNotifyGet \/ SwitchNotifyPut)

FairSpec == Spec /\ Fairness

-----------------------------------------------------------------------------
(* Safety *)

States == {"idle", "head", "locked", "sleeping", "waiting", "woken", "notify"}

\* The variables have the types of the class members they stand for.
TypeOK ==
  /\ nonBlock \in BOOLEAN
  /\ messageCount \in Nat
  /\ putList \in Seq(Message)
  /\ getList \in Seq(Message)
  /\ putMutex \in Threads \cup {NoThread}
  /\ getMutex \in Consumers \cup {NoThread}
  /\ pc \in [Threads -> States]
  /\ sent \in [Producers -> 0 .. Quota]
  /\ swapped \in Nat
  /\ result \in [Consumers -> Message \cup {Empty}]
  /\ switchPc \in {"idle", "notifyGet", "notifyPut", "done"}

\* message_count_, which every predicate reads instead of the list, is the
\* length of the put list (lines 70 and 111-112 keep them together).
CountMatches == messageCount = Len(putList)

\* In blocking mode each of the two lists respects max_length.
ListsBounded ==
  ~nonBlock => Len(putList) <= MaxMessageCount /\ Len(getList) <= MaxMessageCount

\* get_mutex_ is held while waiting, so at most one consumer is in the wait
\* set of get_cv_: this is why Push may use notify_one.
OneConsumerWaits ==
  \A c, d \in GetWaiters : c = d

\* No push is lost on a sleeping consumer: if one sleeps although a message
\* is there, the producer that will wake it has not notified yet.
NoLostPush ==
  GetWaiters # {} /\ putList # <<>> => \E p \in Producers : pc[p] = "notify"

\* No swap is lost on a sleeping producer: in blocking mode, if one sleeps
\* although there is room, the consumer that made the room is about to wake it.
NoLostRoom ==
  PutWaiters # {} /\ HasRoom =>
    nonBlock \/ \E c \in Consumers : pc[c] = "notify" /\ WasFull(swapped)

\* The two lists together are one FIFO queue that loses, duplicates and
\* reorders nothing, and an empty optional is returned only when it is empty
\* and SetNotWait was called.  A Pop takes effect when it unlinks the head, or
\* when it swaps in an empty list.
Queue == INSTANCE FifoQueue WITH
  queue <- getList \o putList,
  asking <- {c \in Consumers : pc[c] # "idle" /\ ~(pc[c] = "notify" /\ swapped = 0)}

ImplementsFifoQueue == Queue!Spec

-----------------------------------------------------------------------------
(* Liveness, under FairSpec *)

\* SetNotWait releases every consumer that is asleep when it notifies.
SleeperReleased ==
  \A c \in Consumers :
    (switchPc = "notifyGet" /\ pc[c] = "waiting") ~> pc[c] = "idle"

-----------------------------------------------------------------------------
(* What the comments of the class say, and the code does not do *)

\* Lines 32 and 38: max_length is the greatest length of the queue, unless it is
\* in non-blocking mode.  (A swap resets the count while the consumers' list is
\* full, and as many messages may be pushed again.)
QueueBounded == ~nonBlock => Len(putList) + Len(getList) <= MaxMessageCount

\* Line 40: once SetNotWait is called, Pop returns at once when the queue is
\* empty.  (A consumer between its predicate and its sleep misses the
\* notification and sleeps until the next Push.)
PopReturns ==
  \A c \in Consumers :
    (switchPc = "done" /\ pc[c] # "idle") ~> pc[c] = "idle"
=============================================================================
