------------------------ MODULE MessageQueueProofs ------------------------
(***************************************************************************)
(* Proofs about MessageQueue, for any number of producers and consumers,   *)
(* any max_length and any number of messages:                              *)
(*   - its type invariant, the agreement of message_count_ with the list,  *)
(*     the bound on the lists and the absence of lost wakeups;             *)
(*   - that it implements the abstract FIFO queue.                         *)
(* Both rest on one inductive invariant, IInv.                             *)
(***************************************************************************)
EXTENDS MessageQueue, SequenceTheorems, TLAPS

-----------------------------------------------------------------------------
(* The inductive invariant *)

\* A mutex is owned by exactly the thread whose program counter says so.
MutexInv ==
  /\ \A t \in Threads : pc[t] \in {"locked", "sleeping"} <=> putMutex = t
  /\ \A c \in Consumers : pc[c] # "idle" <=> getMutex = c

\* Only a consumer looks at the get list; a producer in Push has a message left.
ProducerInv ==
  \A p \in Producers :
    /\ pc[p] # "head"
    /\ pc[p] \in {"locked", "sleeping", "waiting", "woken"} => sent[p] < Quota

\* A consumer swaps only after emptying its own list, and what SwapQueue
\* returns is the length of the list it got.
SwapInv ==
  \A c \in Consumers :
    /\ pc[c] \in {"locked", "sleeping", "waiting", "woken"} => getList = <<>>
    /\ pc[c] = "notify" => swapped = Len(getList)

\* A thread that decided to sleep still finds what made it decide so.
SleepInv ==
  /\ \A p \in Producers :
       pc[p] = "sleeping" => nonBlock \/ messageCount >= MaxMessageCount
  /\ \A c \in Consumers : pc[c] = "sleeping" => putList = <<>>

IInv ==
  /\ TypeOK
  /\ MutexInv
  /\ ProducerInv
  /\ SwapInv
  /\ SleepInv
  /\ CountMatches
  /\ ListsBounded
  /\ NoLostPush
  /\ NoLostRoom
-----------------------------------------------------------------------------
(* Every step preserves IInv *)

\* get_mutex_ is held while waiting, so two consumers cannot both wait.
LEMMA OneConsumerWaitsFromIInv ==
  ASSUME IInv
  PROVE  OneConsumerWaits
BY DEF IInv, MutexInv, OneConsumerWaits, GetWaiters

LEMMA PushLockPreserves ==
  ASSUME IInv, NEW p \in Producers, PushLock(p)
  PROVE  IInv'
<1>1. TypeOK'
  BY DEF IInv, TypeOK, Threads, States, PushLock
<1>2. MutexInv' /\ ProducerInv'
  BY ThreadAssumption DEF IInv, TypeOK, MutexInv, ProducerInv, Threads, PushLock
<1>3. SwapInv' /\ SleepInv'
  BY ThreadAssumption DEF IInv, SwapInv, SleepInv, PushLock
<1>4. CountMatches' /\ ListsBounded'
  BY DEF IInv, CountMatches, ListsBounded, PushLock
<1>5. NoLostPush' /\ NoLostRoom'
  BY DEF IInv, NoLostPush, NoLostRoom, HasRoom, PutWaiters, GetWaiters, PushLock
<1>6. QED
  BY <1>1, <1>2, <1>3, <1>4, <1>5 DEF IInv

LEMMA PushEnqueuePreserves ==
  ASSUME IInv, NEW p \in Producers, PushEnqueue(p)
  PROVE  IInv'
<1>1. TypeOK'
  <2>1. /\ sent[p] + 1 \in 1 .. Quota
        /\ sent' \in [Producers -> 0 .. Quota]
    BY QuotaAssumption DEF IInv, TypeOK, ProducerInv, PushEnqueue
  <2>2. putList' \in Seq(Message)
    <3>1. <<p, sent[p] + 1>> \in Message
      BY <2>1 DEF Message
    <3>2. QED
      BY <3>1 DEF IInv, TypeOK, PushEnqueue
  <2>3. QED
    BY <2>1, <2>2 DEF IInv, TypeOK, Threads, States, PushEnqueue, CountAfterPush
<1>2. MutexInv' /\ ProducerInv'
  BY ThreadAssumption DEF IInv, TypeOK, MutexInv, ProducerInv, Threads, PushEnqueue
<1>3. SwapInv' /\ SleepInv'
  BY ThreadAssumption DEF IInv, MutexInv, SwapInv, SleepInv, Threads, PushEnqueue
<1>4. CountMatches' /\ ListsBounded'
  BY MaxAssumption DEF IInv, CountMatches, ListsBounded, PushEnqueue, HasRoom, CountAfterPush
<1>5. NoLostPush' /\ NoLostRoom'
  BY DEF IInv, TypeOK, NoLostPush, NoLostRoom, Threads, PutWaiters, PushEnqueue
<1>6. QED
  BY <1>1, <1>2, <1>3, <1>4, <1>5 DEF IInv

LEMMA PushNotifyPreserves ==
  ASSUME IInv, NEW p \in Producers, PushNotify(p)
  PROVE  IInv'
<1>1. TypeOK'
  BY DEF IInv, TypeOK, States, PushNotify, Wake
<1>2. MutexInv' /\ ProducerInv'
  BY ThreadAssumption DEF IInv, MutexInv, ProducerInv, Threads, GetWaiters, PushNotify, OneOf, Wake
<1>3. SwapInv' /\ SleepInv'
  BY DEF IInv, SwapInv, SleepInv, Threads, GetWaiters, PushNotify, OneOf, Wake
<1>4. CountMatches' /\ ListsBounded'
  BY DEF IInv, CountMatches, ListsBounded, PushNotify
<1>5. NoLostPush' /\ NoLostRoom'
  <2>1. PICK W \in OneOf(GetWaiters) : pc' = [Wake(W) EXCEPT ![p] = "idle"]
    BY DEF PushNotify
  <2>2. GetWaiters' = {}
    <3>1. GetWaiters \subseteq W
      BY OneConsumerWaitsFromIInv DEF OneOf, OneConsumerWaits
    <3>2. QED
      BY <2>1, <3>1 DEF GetWaiters, Wake, Threads
  <2>3. NoLostRoom'
    <3>1. PutWaiters' \subseteq PutWaiters
      BY <2>1 DEF PutWaiters, Wake, Threads
    <3>2. \A c \in Consumers : pc[c] = "notify" => pc'[c] = "notify"
      BY <2>1, ThreadAssumption DEF GetWaiters, OneOf, Wake, Threads
    <3>3. QED
      BY <3>1, <3>2 DEF IInv, NoLostRoom, HasRoom, PushNotify
  <2>4. QED
    BY <2>2, <2>3 DEF NoLostPush
<1>6. QED
  BY <1>1, <1>2, <1>3, <1>4, <1>5 DEF IInv

LEMMA PushBlockPreserves ==
  ASSUME IInv, NEW p \in Producers, Block(p, HasRoom)
  PROVE  IInv'
<1>1. TypeOK'
  BY DEF IInv, TypeOK, States, Block
<1>2. MutexInv' /\ ProducerInv'
  BY DEF IInv, MutexInv, ProducerInv, Block
<1>3. SwapInv' /\ SleepInv'
  BY ThreadAssumption, MaxAssumption DEF IInv, TypeOK, SwapInv, SleepInv, Block, HasRoom
<1>4. CountMatches' /\ ListsBounded'
  BY DEF IInv, CountMatches, ListsBounded, Block
<1>5. NoLostPush' /\ NoLostRoom'
  BY DEF IInv, NoLostPush, NoLostRoom, HasRoom, GetWaiters, Block, HasRoom
<1>6. QED
  BY <1>1, <1>2, <1>3, <1>4, <1>5 DEF IInv

LEMMA SleepPreserves ==
  ASSUME IInv, NEW t \in Threads, Sleep(t)
  PROVE  IInv'
<1>1. TypeOK'
  BY DEF IInv, TypeOK, States, Sleep
<1>2. MutexInv' /\ ProducerInv'
  BY ThreadAssumption DEF IInv, TypeOK, MutexInv, ProducerInv, Threads, Sleep
<1>3. SwapInv' /\ SleepInv'
  BY DEF IInv, SwapInv, SleepInv, Sleep
<1>4. CountMatches' /\ ListsBounded'
  BY DEF IInv, CountMatches, ListsBounded, Sleep
<1>5. NoLostPush' /\ NoLostRoom'
  BY MaxAssumption DEF IInv, TypeOK, SleepInv, NoLostPush, NoLostRoom, HasRoom, PutWaiters, GetWaiters, Sleep
<1>6. QED
  BY <1>1, <1>2, <1>3, <1>4, <1>5 DEF IInv

LEMMA SpuriousWakeupPreserves ==
  ASSUME IInv, NEW t \in Threads, SpuriousWakeup(t)
  PROVE  IInv'
<1>1. TypeOK'
  BY DEF IInv, TypeOK, States, SpuriousWakeup, Wake
<1>2. MutexInv' /\ ProducerInv'
  BY DEF IInv, MutexInv, ProducerInv, Threads, SpuriousWakeup, Wake
<1>3. SwapInv' /\ SleepInv'
  BY DEF IInv, SwapInv, SleepInv, Threads, SpuriousWakeup, Wake
<1>4. CountMatches' /\ ListsBounded'
  BY DEF IInv, CountMatches, ListsBounded, SpuriousWakeup
<1>5. NoLostPush' /\ NoLostRoom'
  BY DEF IInv, NoLostPush, NoLostRoom, HasRoom, Threads, PutWaiters, GetWaiters, SpuriousWakeup, Wake
<1>6. QED
  BY <1>1, <1>2, <1>3, <1>4, <1>5 DEF IInv

LEMMA RelockPreserves ==
  ASSUME IInv, NEW t \in Threads, Relock(t)
  PROVE  IInv'
<1>1. TypeOK'
  BY DEF IInv, TypeOK, States, Relock
<1>2. MutexInv' /\ ProducerInv'
  BY ThreadAssumption DEF IInv, TypeOK, MutexInv, ProducerInv, Threads, Relock
<1>3. SwapInv' /\ SleepInv'
  BY DEF IInv, SwapInv, SleepInv, Relock
<1>4. CountMatches' /\ ListsBounded'
  BY DEF IInv, CountMatches, ListsBounded, Relock
<1>5. NoLostPush' /\ NoLostRoom'
  BY DEF IInv, NoLostPush, NoLostRoom, HasRoom, PutWaiters, GetWaiters, Relock
<1>6. QED
  BY <1>1, <1>2, <1>3, <1>4, <1>5 DEF IInv

LEMMA PopLockPreserves ==
  ASSUME IInv, NEW c \in Consumers, PopLock(c)
  PROVE  IInv'
<1>1. TypeOK'
  BY DEF IInv, TypeOK, States, PopLock
<1>2. MutexInv' /\ ProducerInv'
  BY ThreadAssumption DEF IInv, TypeOK, MutexInv, ProducerInv, Threads, PopLock, MayPop
<1>3. SwapInv' /\ SleepInv'
  BY DEF IInv, SwapInv, SleepInv, PopLock
<1>4. CountMatches' /\ ListsBounded'
  BY DEF IInv, CountMatches, ListsBounded, PopLock
<1>5. NoLostPush' /\ NoLostRoom'
  BY DEF IInv, NoLostPush, NoLostRoom, HasRoom, PutWaiters, GetWaiters, PopLock
<1>6. QED
  BY <1>1, <1>2, <1>3, <1>4, <1>5 DEF IInv

LEMMA PopTakePreserves ==
  ASSUME IInv, NEW c \in Consumers, PopTake(c)
  PROVE  IInv'
<1>1. TypeOK'
  BY DEF IInv, TypeOK, Threads, States, PopTake
<1>2. MutexInv' /\ ProducerInv'
  BY ThreadAssumption DEF IInv, TypeOK, MutexInv, ProducerInv, Threads, PopTake
<1>3. SwapInv' /\ SleepInv'
  BY DEF IInv, MutexInv, SwapInv, SleepInv, PopTake
<1>4. CountMatches' /\ ListsBounded'
  BY MaxAssumption DEF IInv, CountMatches, ListsBounded, PopTake
<1>5. NoLostPush' /\ NoLostRoom'
  BY DEF IInv, NoLostPush, NoLostRoom, HasRoom, PutWaiters, GetWaiters, PopTake
<1>6. QED
  BY <1>1, <1>2, <1>3, <1>4, <1>5 DEF IInv

LEMMA SwapLockPreserves ==
  ASSUME IInv, NEW c \in Consumers, SwapLock(c)
  PROVE  IInv'
<1>1. TypeOK'
  BY DEF IInv, TypeOK, Threads, States, SwapLock
<1>2. MutexInv' /\ ProducerInv'
  <2>1. MutexInv'
    BY ThreadAssumption DEF IInv, TypeOK, MutexInv, Threads, SwapLock
  <2>2. ProducerInv'
    BY ThreadAssumption DEF IInv, TypeOK, ProducerInv, Threads, SwapLock
  <2> QED  BY <2>1, <2>2
<1>3. SwapInv' /\ SleepInv'
  BY DEF IInv, SwapInv, SleepInv, SwapLock
<1>4. CountMatches' /\ ListsBounded'
  BY DEF IInv, CountMatches, ListsBounded, SwapLock
<1>5. NoLostPush' /\ NoLostRoom'
  BY DEF IInv, NoLostPush, NoLostRoom, HasRoom, PutWaiters, GetWaiters, SwapLock
<1>6. QED
  BY <1>1, <1>2, <1>3, <1>4, <1>5 DEF IInv

LEMMA SwapListsPreserves ==
  ASSUME IInv, NEW c \in Consumers, SwapLists(c)
  PROVE  IInv'
<1>1. TypeOK'
  BY DEF IInv, TypeOK, SwapInv, States, SwapLists, CountAfterSwap
<1>2. MutexInv' /\ ProducerInv'
  BY ThreadAssumption DEF IInv, TypeOK, MutexInv, ProducerInv, Threads, SwapLists
<1>3. SwapInv' /\ SleepInv'
  BY DEF IInv, TypeOK, MutexInv, SwapInv, SleepInv, CountMatches, Threads, SwapLists
<1>4. CountMatches' /\ ListsBounded'
  BY MaxAssumption DEF IInv, CountMatches, ListsBounded, SwapLists, CountAfterSwap
<1>5. NoLostPush' /\ NoLostRoom'
  BY ThreadAssumption, MaxAssumption DEF IInv, TypeOK, MutexInv, NoLostPush, NoLostRoom, HasRoom, WasFull, Threads, PutWaiters, SwapLists
<1>6. QED
  BY <1>1, <1>2, <1>3, <1>4, <1>5 DEF IInv

LEMMA SwapNotifyPreserves ==
  ASSUME IInv, NEW c \in Consumers, SwapNotify(c)
  PROVE  IInv'
<1>1. TypeOK'
  BY DEF IInv, TypeOK, States, SwapNotify, Wake
<1>2. MutexInv' /\ ProducerInv'
  BY ThreadAssumption DEF IInv, MutexInv, ProducerInv, Threads, PutWaiters, SwapNotify, Wake
<1>3. SwapInv' /\ SleepInv'
  BY DEF IInv, SwapInv, SleepInv, Threads, PutWaiters, SwapNotify, Wake
<1>4. CountMatches' /\ ListsBounded'
  BY DEF IInv, CountMatches, ListsBounded, SwapNotify
<1>5. NoLostPush' /\ NoLostRoom'
  BY ThreadAssumption DEF IInv, NoLostPush, NoLostRoom, HasRoom, Threads, PutWaiters, GetWaiters, SwapNotify, Wake
<1>6. QED
  BY <1>1, <1>2, <1>3, <1>4, <1>5 DEF IInv

LEMMA SwapBlockPreserves ==
  ASSUME IInv, NEW c \in Consumers, Block(c, HasMessage)
  PROVE  IInv'
<1>1. TypeOK'
  BY DEF IInv, TypeOK, States, Block
<1>2. MutexInv' /\ ProducerInv'
  BY DEF IInv, MutexInv, ProducerInv, Block
<1>3. SwapInv' /\ SleepInv'
  BY ThreadAssumption DEF IInv, SwapInv, SleepInv, CountMatches, Block, HasMessage
<1>4. CountMatches' /\ ListsBounded'
  BY DEF IInv, CountMatches, ListsBounded, Block
<1>5. NoLostPush' /\ NoLostRoom'
  BY DEF IInv, NoLostPush, NoLostRoom, HasRoom, PutWaiters, GetWaiters, Block
<1>6. QED
  BY <1>1, <1>2, <1>3, <1>4, <1>5 DEF IInv

LEMMA SetNonBlockPreserves ==
  ASSUME IInv, SetNonBlock
  PROVE  IInv'
<1>1. TypeOK'
  BY DEF IInv, TypeOK, SetNonBlock
<1>2. MutexInv' /\ ProducerInv'
  BY DEF IInv, MutexInv, ProducerInv, SetNonBlock
<1>3. SwapInv' /\ SleepInv'
  BY DEF IInv, SwapInv, SleepInv, SetNonBlock
<1>4. CountMatches' /\ ListsBounded'
  BY DEF IInv, CountMatches, ListsBounded, SetNonBlock
<1>5. NoLostPush' /\ NoLostRoom'
  BY DEF IInv, NoLostPush, NoLostRoom, GetWaiters, SetNonBlock
<1>6. QED
  BY <1>1, <1>2, <1>3, <1>4, <1>5 DEF IInv

LEMMA SwitchNotifyGetPreserves ==
  ASSUME IInv, SwitchNotifyGet
  PROVE  IInv'
<1>1. TypeOK'
  BY DEF IInv, TypeOK, States, SwitchNotifyGet, Wake
<1>2. MutexInv' /\ ProducerInv'
  BY DEF IInv, MutexInv, ProducerInv, Threads, GetWaiters, SwitchNotifyGet, OneOf, Wake
<1>3. SwapInv' /\ SleepInv'
  BY DEF IInv, SwapInv, SleepInv, Threads, GetWaiters, SwitchNotifyGet, OneOf, Wake
<1>4. CountMatches' /\ ListsBounded'
  BY DEF IInv, CountMatches, ListsBounded, SwitchNotifyGet
<1>5. NoLostPush' /\ NoLostRoom'
  BY DEF IInv, NoLostPush, NoLostRoom, HasRoom, Threads, PutWaiters, GetWaiters, SwitchNotifyGet, OneOf, Wake
<1>6. QED
  BY <1>1, <1>2, <1>3, <1>4, <1>5 DEF IInv

LEMMA SwitchNotifyPutPreserves ==
  ASSUME IInv, SwitchNotifyPut
  PROVE  IInv'
<1>1. TypeOK'
  BY DEF IInv, TypeOK, States, SwitchNotifyPut, Wake
<1>2. MutexInv' /\ ProducerInv'
  BY DEF IInv, MutexInv, ProducerInv, Threads, PutWaiters, SwitchNotifyPut, Wake
<1>3. SwapInv' /\ SleepInv'
  BY DEF IInv, SwapInv, SleepInv, Threads, PutWaiters, SwitchNotifyPut, Wake
<1>4. CountMatches' /\ ListsBounded'
  BY DEF IInv, CountMatches, ListsBounded, SwitchNotifyPut
<1>5. NoLostPush' /\ NoLostRoom'
  BY DEF IInv, NoLostPush, NoLostRoom, Threads, PutWaiters, GetWaiters, SwitchNotifyPut, Wake
<1>6. QED
  BY <1>1, <1>2, <1>3, <1>4, <1>5 DEF IInv

-----------------------------------------------------------------------------
(* The theorems *)

LEMMA InitIInv == Init => IInv
<1> SUFFICES ASSUME Init
             PROVE  IInv
  OBVIOUS
<1>1. TypeOK
  <2>1. <<>> \in Seq(Message)
    BY EmptySeq
  <2>2. sent \in [Producers -> 0 .. Quota]
    BY QuotaAssumption DEF Init
  <2>3. pc \in [Threads -> States] /\ result \in [Consumers -> Message \cup {Empty}]
    BY DEF Init, States
  <2>4. QED
    BY <2>1, <2>2, <2>3 DEF Init, TypeOK
<1>2. \A t \in Threads : pc[t] = "idle" /\ t # NoThread
  BY ThreadAssumption DEF Init, Threads
<1>3. MutexInv /\ ProducerInv /\ SwapInv /\ SleepInv
  BY <1>2 DEF Init, Threads, MutexInv, ProducerInv, SwapInv, SleepInv
<1>4. CountMatches /\ ListsBounded /\ NoLostPush /\ NoLostRoom
  BY <1>2, EmptySeq, MaxAssumption DEF Init, Threads, CountMatches, ListsBounded,
     NoLostPush, NoLostRoom, PutWaiters
<1>5. QED
  BY <1>1, <1>3, <1>4 DEF IInv

LEMMA NextIInv == IInv /\ [Next]_vars => IInv'
<1> SUFFICES ASSUME IInv, [Next]_vars
             PROVE  IInv'
  OBVIOUS
<1>1. ASSUME NEW p \in Producers, ProducerNext(p)
      PROVE  IInv'
  <2>1. p \in Threads
    BY DEF Threads
  <2>2. QED
    BY <1>1, <2>1, PushLockPreserves, PushEnqueuePreserves, PushNotifyPreserves,
       PushBlockPreserves, SleepPreserves, SpuriousWakeupPreserves, RelockPreserves
       DEF ProducerNext
<1>2. ASSUME NEW c \in Consumers, ConsumerNext(c)
      PROVE  IInv'
  <2>1. c \in Threads
    BY DEF Threads
  <2>2. QED
    BY <1>2, <2>1, PopLockPreserves, PopTakePreserves, SwapLockPreserves,
       SwapListsPreserves, SwapNotifyPreserves, SwapBlockPreserves, SleepPreserves,
       SpuriousWakeupPreserves, RelockPreserves
       DEF ConsumerNext
<1>3. CASE SetNotWait
  BY <1>3, SetNonBlockPreserves, SwitchNotifyGetPreserves, SwitchNotifyPutPreserves
     DEF SetNotWait
<1>4. CASE UNCHANGED vars
  BY <1>4 DEF vars, IInv, TypeOK, MutexInv, ProducerInv, SwapInv, SleepInv, CountMatches,
     ListsBounded, NoLostPush, NoLostRoom, PutWaiters, GetWaiters, HasRoom, WasFull
<1>5. QED
  BY <1>1, <1>2, <1>3, <1>4 DEF Next

LEMMA Invariance == Spec => []IInv
BY InitIInv, NextIInv, PTL DEF Spec

\* The class members keep their types.
THEOREM TypeCorrect == Spec => []TypeOK
<1>1. IInv => TypeOK
  BY DEF IInv
<1>2. QED
  BY <1>1, Invariance, PTL

\* message_count_ is always the length of the put list, so that no predicate
\* is evaluated on a stale count.
THEOREM CountCorrect == Spec => []CountMatches
<1>1. IInv => CountMatches
  BY DEF IInv
<1>2. QED
  BY <1>1, Invariance, PTL

\* In blocking mode neither list grows beyond max_length.
THEOREM ListsBoundedCorrect == Spec => []ListsBounded
<1>1. IInv => ListsBounded
  BY DEF IInv
<1>2. QED
  BY <1>1, Invariance, PTL

\* At most one consumer sleeps, so notify_one in Push wakes whoever sleeps.
THEOREM OneConsumerWaitsCorrect == Spec => []OneConsumerWaits
<1>1. IInv => OneConsumerWaits
  BY OneConsumerWaitsFromIInv
<1>2. QED
  BY <1>1, Invariance, PTL

\* No consumer sleeps beside a message unless its wakeup is on the way.
THEOREM NoLostPushCorrect == Spec => []NoLostPush
<1>1. IInv => NoLostPush
  BY DEF IInv
<1>2. QED
  BY <1>1, Invariance, PTL

\* In blocking mode no producer sleeps beside free room unless its wakeup is
\* on the way.
THEOREM NoLostRoomCorrect == Spec => []NoLostRoom
<1>1. IInv => NoLostRoom
  BY DEF IInv
<1>2. QED
  BY <1>1, Invariance, PTL

-----------------------------------------------------------------------------
(* MessageQueue implements FifoQueue *)

contents == getList \o putList
asking == {c \in Consumers : pc[c] # "idle" /\ ~(pc[c] = "notify" /\ swapped = 0)}

\* Taking from a concatenation takes from its first part.
LEMMA HeadTailOfConcat ==
  ASSUME NEW S, NEW s \in Seq(S), NEW t \in Seq(S), s # <<>>
  PROVE  /\ s \o t # <<>>
         /\ Head(s \o t) = Head(s)
         /\ Tail(s \o t) = Tail(s) \o t
<1>1. /\ s \o t \in Seq(S)
      /\ Len(s \o t) = Len(s) + Len(t)
      /\ \A i \in 1 .. Len(s) + Len(t) :
           (s \o t)[i] = IF i <= Len(s) THEN s[i] ELSE t[i - Len(s)]
  BY ConcatProperties
<1>2. Len(s) \in Nat \ {0} /\ Len(t) \in Nat
  BY EmptySeq, LenProperties
<1>3. s \o t # <<>>
  BY <1>1, <1>2
<1>4. Head(s \o t) = Head(s)
  BY <1>1, <1>2, <1>3
<1>5. /\ Tail(s) \in Seq(S)
      /\ Len(Tail(s)) = Len(s) - 1
      /\ \A i \in 1 .. Len(Tail(s)) : Tail(s)[i] = s[i + 1]
  BY HeadTailProperties
<1>6. /\ Tail(s \o t) \in Seq(S)
      /\ Len(Tail(s \o t)) = Len(s) + Len(t) - 1
      /\ \A i \in 1 .. Len(Tail(s \o t)) : Tail(s \o t)[i] = (s \o t)[i + 1]
  BY <1>1, <1>3, HeadTailProperties
<1>7. /\ Tail(s) \o t \in Seq(S)
      /\ Len(Tail(s) \o t) = Len(s) - 1 + Len(t)
      /\ \A i \in 1 .. Len(s) - 1 + Len(t) :
           (Tail(s) \o t)[i] = IF i <= Len(s) - 1 THEN Tail(s)[i] ELSE t[i - (Len(s) - 1)]
  BY <1>5, ConcatProperties
<1>8. Len(Tail(s) \o t) = Len(Tail(s \o t))
  BY <1>2, <1>6, <1>7
<1>9. ASSUME NEW i \in 1 .. Len(Tail(s \o t))
      PROVE  Tail(s \o t)[i] = (Tail(s) \o t)[i]
  <2>1. i \in 1 .. Len(s) - 1 + Len(t) /\ i + 1 \in 1 .. Len(s) + Len(t)
    BY <1>2, <1>6
  <2>2. CASE i <= Len(s) - 1
    BY <1>1, <1>2, <1>5, <1>6, <1>7, <2>1, <2>2
  <2>3. CASE i > Len(s) - 1
    BY <1>1, <1>2, <1>6, <1>7, <2>1, <2>3
  <2>4. QED
    BY <1>2, <2>1, <2>2, <2>3
<1>10. Tail(s \o t) = Tail(s) \o t
  BY <1>6, <1>7, <1>8, <1>9, SeqEqual
<1>11. QED
  BY <1>3, <1>4, <1>10

\* A push appends at the end of both lists together.
LEMMA PushRefines ==
  ASSUME IInv, NEW p \in Producers, PushEnqueue(p)
  PROVE  Queue!Put(p)
<1>1. /\ putList \in Seq(Message) /\ getList \in Seq(Message)
      /\ Len(putList) \in Nat /\ Len(getList) \in Nat
  BY DEF IInv, TypeOK
<1>2. <<p, sent[p] + 1>> \in Message
  BY QuotaAssumption DEF IInv, TypeOK, ProducerInv, PushEnqueue, Message
<1>3. contents' = Append(contents, <<p, sent[p] + 1>>)
  <2>1. putList' = putList \o <<<<p, sent[p] + 1>>>>
    BY <1>1, <1>2, AppendIsConcat DEF PushEnqueue
  <2>2. contents' = (getList \o putList) \o <<<<p, sent[p] + 1>>>>
    <3>1. <<<<p, sent[p] + 1>>>> \in Seq(Message)
      BY <1>2
    <3>2. contents' = getList \o (putList \o <<<<p, sent[p] + 1>>>>)
      BY <2>1 DEF contents, PushEnqueue
    <3>3. QED
      BY <1>1, <3>1, <3>2, ConcatAssociative
  <2>3. contents \in Seq(Message)
    BY <1>1, ConcatProperties DEF contents
  <2>4. QED
    BY <1>2, <2>2, <2>3, AppendIsConcat DEF contents
<1>4. asking' = asking
  BY ThreadAssumption DEF IInv, TypeOK, Threads, PushEnqueue, asking
<1>5. sent[p] < Quota
  BY DEF IInv, ProducerInv, PushEnqueue
<1>6. QED
  BY <1>3, <1>4, <1>5 DEF Queue!Put, contents, asking, PushEnqueue

LEMMA PopLockRefines ==
  ASSUME IInv, NEW c \in Consumers, PopLock(c)
  PROVE  Queue!Ask(c)
<1>1. c \notin asking /\ asking' = asking \cup {c}
  BY DEF IInv, TypeOK, Threads, PopLock, asking
<1>2. QED
  BY <1>1 DEF Queue!Ask, asking, PopLock

LEMMA PopTakeRefines ==
  ASSUME IInv, NEW c \in Consumers, PopTake(c)
  PROVE  Queue!Take(c)
<1>1. /\ contents # <<>>
      /\ Head(contents) = Head(getList)
      /\ contents' = Tail(contents)
  BY HeadTailOfConcat DEF IInv, TypeOK, PopTake, contents
<1>2. c \in asking /\ asking' = asking \ {c}
  BY DEF IInv, TypeOK, Threads, PopTake, asking
<1>3. QED
  BY <1>1, <1>2 DEF Queue!Take, contents, asking, PopTake

\* Swapping moves the queue from one list to the other; swapping in nothing
\* is the moment an empty Pop takes effect.
LEMMA SwapRefines ==
  ASSUME IInv, NEW c \in Consumers, SwapLists(c)
  PROVE  Queue!TakeNothing(c) \/ UNCHANGED Queue!vars
<1>1. getList = <<>> /\ putList \in Seq(Message) /\ messageCount \in Nat
  BY DEF IInv, TypeOK, SwapInv, SwapLists
<1>2. contents' = contents /\ contents = putList
  BY <1>1, ConcatEmptySeq DEF SwapLists, contents
<1>3. \A d \in Consumers \ {c} : pc[d] = "idle"
  BY DEF IInv, MutexInv, SwapLists
<1>4. CASE messageCount = 0
  <2>1. contents = <<>> /\ nonBlock
    <3>1. Len(putList) = 0 /\ nonBlock
      BY <1>4 DEF IInv, CountMatches, SwapLists, HasMessage
    <3>2. QED
      BY <1>1, <1>2, <3>1, EmptySeq
  <2>2. c \in asking /\ asking' = asking \ {c}
    BY <1>3, <1>4 DEF IInv, TypeOK, Threads, SwapLists, asking
  <2>3. QED
    BY <1>2, <2>1, <2>2 DEF Queue!TakeNothing, contents, asking, SwapLists
<1>5. CASE messageCount # 0
  <2>1. asking' = asking
    BY <1>3, <1>5 DEF IInv, TypeOK, Threads, SwapLists, asking
  <2>2. QED
    BY <1>2, <2>1 DEF Queue!vars, contents, asking, SwapLists
<1>6. QED
  BY <1>4, <1>5

\* Locking, sleeping, waking and notifying change nothing a caller can see.
LEMMA InternalStutters ==
  ASSUME IInv,
         UNCHANGED <<getList, putList, nonBlock, sent, result>>,
         asking' = asking
  PROVE  UNCHANGED Queue!vars
BY DEF Queue!vars, asking

LEMMA ProducerStutters ==
  ASSUME IInv, NEW p \in Producers,
         PushLock(p) \/ PushNotify(p) \/ Block(p, HasRoom) \/ Sleep(p)
           \/ SpuriousWakeup(p) \/ Relock(p)
  PROVE  UNCHANGED Queue!vars
<1>1. asking' = asking
  BY ThreadAssumption DEF IInv, TypeOK, Threads, PushLock, PushNotify, Block, Sleep,
     SpuriousWakeup, Relock, OneOf, Wake, GetWaiters, asking
<1>2. QED
  BY <1>1, InternalStutters DEF PushLock, PushNotify, Block, Sleep, SpuriousWakeup, Relock

LEMMA ConsumerStutters ==
  ASSUME IInv, NEW c \in Consumers,
         SwapLock(c) \/ SwapNotify(c) \/ Block(c, HasMessage) \/ Sleep(c)
           \/ SpuriousWakeup(c) \/ Relock(c)
  PROVE  UNCHANGED Queue!vars
<1>1. asking' = asking
  <2>1. CASE SwapNotify(c)
    <3>1. \A d \in Consumers \ {c} : pc'[d] = "idle" /\ pc[d] = "idle"
      BY <2>1, ThreadAssumption DEF IInv, TypeOK, MutexInv, Threads, SwapNotify, Wake, PutWaiters
    <3>2. pc'[c] = (IF swapped > 0 THEN "head" ELSE "idle") /\ pc[c] = "notify"
      BY <2>1 DEF IInv, TypeOK, Threads, SwapNotify, Wake
    <3>3. swapped' = swapped /\ swapped \in Nat
      BY <2>1 DEF IInv, TypeOK, SwapNotify
    <3>4. QED
      BY <3>1, <3>2, <3>3 DEF asking
  <2>2. CASE ~SwapNotify(c)
    BY <2>2, ThreadAssumption DEF IInv, TypeOK, Threads, SwapLock, Block, Sleep,
       SpuriousWakeup, Relock, Wake, asking
  <2>3. QED
    BY <2>1, <2>2
<1>2. QED
  BY <1>1, InternalStutters DEF SwapLock, SwapNotify, Block, Sleep, SpuriousWakeup, Relock

LEMMA SwitchRefines ==
  ASSUME IInv, SetNotWait
  PROVE  Queue!StopWaiting \/ UNCHANGED Queue!vars
<1>1. asking' = asking
  BY ThreadAssumption DEF IInv, TypeOK, Threads, SetNotWait, SetNonBlock, SwitchNotifyGet,
     SwitchNotifyPut, OneOf, Wake, PutWaiters, GetWaiters, asking
<1>2. CASE SetNonBlock /\ ~nonBlock
  BY <1>1, <1>2 DEF SetNonBlock, Queue!StopWaiting, asking
<1>3. CASE ~(SetNonBlock /\ ~nonBlock)
  <2>1. UNCHANGED <<getList, putList, nonBlock, sent, result>>
    BY <1>3 DEF SetNotWait, SetNonBlock, SwitchNotifyGet, SwitchNotifyPut, IInv, TypeOK
  <2>2. QED
    BY <1>1, <2>1, InternalStutters
<1>4. QED
  BY <1>2, <1>3

LEMMA InitRefines == Init => Queue!Init
<1>1. Init => contents = <<>>
  BY EmptySeq, ConcatEmptySeq DEF Init, contents
<1>2. Init => asking = {}
  BY DEF Init, Threads, asking
<1>3. QED
  BY <1>1, <1>2 DEF Init, Queue!Init, contents, asking

LEMMA NextRefines == IInv /\ [Next]_vars => [Queue!Next]_(Queue!vars)
<1> SUFFICES ASSUME IInv, [Next]_vars
             PROVE  Queue!Next \/ UNCHANGED Queue!vars
  OBVIOUS
<1>1. ASSUME NEW p \in Producers, ProducerNext(p)
      PROVE  Queue!Put(p) \/ UNCHANGED Queue!vars
  BY <1>1, PushRefines, ProducerStutters DEF ProducerNext
<1>2. ASSUME NEW c \in Consumers, ConsumerNext(c)
      PROVE  Queue!Ask(c) \/ Queue!Take(c) \/ Queue!TakeNothing(c) \/ UNCHANGED Queue!vars
  BY <1>2, PopLockRefines, PopTakeRefines, SwapRefines, ConsumerStutters DEF ConsumerNext
<1>3. CASE SetNotWait
  BY <1>3, SwitchRefines DEF Queue!Next
<1>4. CASE UNCHANGED vars
  BY <1>4 DEF vars, Queue!vars
<1>5. QED
  BY <1>1, <1>2, <1>3, <1>4 DEF Next, Queue!Next

\* The two lists, the two mutexes and the two condition variables implement
\* one FIFO queue that loses, duplicates and reorders nothing.
THEOREM Refinement == Spec => ImplementsFifoQueue
<1>1. Spec => Queue!Spec
  BY InitRefines, NextRefines, Invariance, PTL DEF Spec, Queue!Spec
<1>2. QED
  BY <1>1 DEF ImplementsFifoQueue
=============================================================================
