--------------------------------- MODULE Log ---------------------------------
(***************************************************************************)
(* base::Log (src/base/log.hpp): threads post entries to a MessageQueue,   *)
(* and a worker thread, started by the first constructor, pops and writes  *)
(* them.  The last destructor stops the worker, and pops and writes what   *)
(* is left beside it.  Every Log belongs to the thread Closer, as all of   *)
(* the server's do; every step of the queue is that of MessageQueue, with  *)
(* the worker and the closer as its consumers.                             *)
(*                                                                         *)
(*   life      the thread that owns the objects is ...                     *)
(*   start     about to create the worker                                  *)
(*   test      evaluating the predicate of notify_run_                     *)
(*   deciding  its predicate found false, not yet asleep                   *)
(*   waiting   in the wait set of notify_run_                              *)
(*   alive     past the first constructor                                  *)
(*   switch    in the last destructor, past stop_ = true, in SetNotWait    *)
(*   drain     about to call Pop                                           *)
(*   popping   in Pop                                                      *)
(*   text      about to write the text of an entry                         *)
(*   join      waiting for the worker to end                               *)
(*   gone      past the last destructor                                    *)
(*   aborted   the process was ended                                       *)
(*                                                                         *)
(*   worker    the worker is ...                                           *)
(*   unborn, born (about to store stop_ = false), tell (about to notify),  *)
(*   loop (about to test stop_), pop (about to call Pop), popping, text,   *)
(*   ended                                                                 *)
(***************************************************************************)
EXTENDS MessageQueue, FixedBuffer, SequencesExt

CONSTANTS
  Worker,   \* worker_
  Closer,      \* the thread that owns every Log
  MaxObjects,  \* bound: Log objects alive at once
  TextLength   \* TextLength[i]: the length of the text of a thread's i-th entry

ASSUME ConsumersAssumption == Consumers = {Worker, Closer} /\ Worker # Closer
ASSUME TextAssumption == TextLength \in [1 .. Quota -> Nat]
ASSUME HeaderAssumption == BufferSize > 2

VARIABLES
  stop,      \* stop_
  life,
  worker,
  objects,   \* ref_count_
  buffer,    \* buffer[c]: the thread_local buffer of LogTo
  written    \* what was written, call by call, by whichever thread

logVars == <<stop, life, worker, objects, buffer, written>>
allVars == <<vars, logVars>>

LogInit ==
  /\ Init
  /\ stop = TRUE
  /\ life = "start"
  /\ worker = "unborn"
  /\ objects = 0
  /\ buffer = [c \in Consumers |-> NewBuffer]
  /\ written = <<>>

-----------------------------------------------------------------------------
(* The constructor, and the start of the worker *)

CreateWorker ==
  /\ life = "start"
  /\ life' = "test"
  /\ worker' = "born"
  /\ objects' = 1
  /\ UNCHANGED <<vars, stop, buffer, written>>

\* The mutex that is held here is a local variable: the worker does not take it.
ConstructorWaits_Never == FALSE
ConstructorWaits == stop

TestStarted ==
  /\ life = "test"
  /\ life' = IF ConstructorWaits THEN "deciding" ELSE "alive"
  /\ UNCHANGED <<vars, stop, worker, objects, buffer, written>>

SleepUntilStarted ==
  /\ life = "deciding"
  /\ life' = "waiting"
  /\ UNCHANGED <<vars, stop, worker, objects, buffer, written>>

WakeSpuriously ==
  /\ life = "waiting"
  /\ life' = "test"
  /\ UNCHANGED <<vars, stop, worker, objects, buffer, written>>

WorkerStarts ==
  /\ worker = "born"
  /\ stop' = FALSE
  /\ worker' = "tell"
  /\ UNCHANGED <<vars, life, objects, buffer, written>>

WorkerTells ==
  /\ worker = "tell"
  /\ worker' = "loop"
  /\ life' = IF life = "waiting" THEN "test" ELSE life
  /\ UNCHANGED <<vars, stop, objects, buffer, written>>

-----------------------------------------------------------------------------
(* Other Logs, made and destroyed by the same thread while one is left *)

AnotherLog ==
  /\ life = "alive"
  /\ objects < MaxObjects
  /\ objects' = objects + 1
  /\ UNCHANGED <<vars, stop, life, worker, buffer, written>>

ReleaseLog ==
  /\ life = "alive"
  /\ objects > 1
  /\ objects' = objects - 1
  /\ UNCHANGED <<vars, stop, life, worker, buffer, written>>

\* exit(1) by a server that cannot listen destroys the static Log only: it is not
\* the last, and the worker, still joinable, is destroyed: std::terminate.
Exit ==
  /\ life = "alive"
  /\ objects > 1
  /\ \A p \in Producers : pc[p] = "idle"
  /\ objects' = objects - 1
  /\ life' = "aborted"
  /\ UNCHANGED <<vars, stop, worker, buffer, written>>

-----------------------------------------------------------------------------
(* LogEntry::LogTo: two calls of write for each entry *)

HeaderOf(m) == <<<<m, "time">>, <<m, "level">>>>
TextOf(m) == [i \in 1 .. TextLength[m[2]] |-> <<m, "text", i>>]
IsLong(m) == TextLength[m[2]] >= BufferSize

\* The time is formatted into the buffer, and the rest appended to it.
WithHeader(b, m) ==
  Appended(Update(Formatted(b, SubSeq(HeaderOf(m), 1, 1)), 1), SubSeq(HeaderOf(m), 2, 2))

\* A text that does not fit is formatted into the same buffer once more, and what
\* is written is the new one, which is large enough and still zero.
TextCells(b, m) ==
  IF IsLong(m) THEN [i \in 1 .. TextLength[m[2]] |-> Nul]
  ELSE SubSeq(Formatted(b, TextOf(m)).data, 1, TextLength[m[2]])

Write(m, part, cells) ==
  written' = Append(written, [entry |-> m, part |-> part, cells |-> cells])

WriteHeader(c) ==
  IF result[c] = Empty THEN UNCHANGED <<buffer, written>>
  ELSE LET b == WithHeader(buffer[c], result[c]) IN
       /\ Write(result[c], "header", UsedCells(b))
       /\ buffer' = [buffer EXCEPT ![c] = Clear(Zeroed(b))]

WriteText(c) ==
  /\ Write(result[c], "text", TextCells(buffer[c], result[c]))
  /\ buffer' = [buffer EXCEPT ![c] = Formatted(@, TextOf(result[c]))]

-----------------------------------------------------------------------------
(* Posting, and the loop of the worker *)

\* Post, by any thread that has the Log.
Post(p) ==
  /\ ProducerNext(p)
  /\ pc[p] = "idle" => life = "alive"
  /\ UNCHANGED logVars

WorkerStops_Never == FALSE
WorkerStops == stop

WorkerTests ==
  /\ worker = "loop"
  /\ worker' = IF WorkerStops THEN "ended" ELSE "pop"
  /\ UNCHANGED <<vars, stop, life, objects, buffer, written>>

WorkerPops ==
  \/ /\ worker = "pop"
     /\ PopLock(Worker)
     /\ worker' = "popping"
     /\ UNCHANGED <<stop, life, objects, buffer, written>>
  \/ /\ pc[Worker] # "idle"
     /\ ConsumerNext(Worker)
     /\ UNCHANGED logVars

WorkerWrites ==
  /\ worker = "popping"
  /\ pc[Worker] = "idle"
  /\ WriteHeader(Worker)
  /\ worker' = IF result[Worker] = Empty THEN "loop" ELSE "text"
  /\ UNCHANGED <<vars, stop, life, objects>>

WorkerWritesText ==
  /\ worker = "text"
  /\ WriteText(Worker)
  /\ worker' = "loop"
  /\ UNCHANGED <<vars, stop, life, objects>>

-----------------------------------------------------------------------------
(* The destructor *)

\* A Log is destroyed when nobody is logging any more.
LastObject_Any == TRUE
LastObject == objects = 1

Destroy ==
  /\ life = "alive"
  /\ LastObject
  /\ \A p \in Producers : pc[p] = "idle"
  /\ stop' = TRUE
  /\ objects' = objects - 1
  /\ life' = "switch"
  /\ UNCHANGED <<vars, worker, buffer, written>>

\* SetNotWait; the 100 ms that follow order nothing.
SwitchQueue ==
  /\ life = "switch"
  /\ SetNotWait
  /\ life' = IF switchPc' = "done" THEN "drain" ELSE "switch"
  /\ UNCHANGED <<stop, worker, objects, buffer, written>>

CloserPops ==
  \/ /\ life = "drain"
     /\ PopLock(Closer)
     /\ life' = "popping"
     /\ UNCHANGED <<stop, worker, objects, buffer, written>>
  \/ /\ pc[Closer] # "idle"
     /\ ConsumerNext(Closer)
     /\ UNCHANGED logVars

\* The closer drains the queue until Pop returns an empty optional.
AfterDrain_Once == "join"
AfterDrain == "drain"

CloserWrites ==
  /\ life = "popping"
  /\ pc[Closer] = "idle"
  /\ WriteHeader(Closer)
  /\ life' = IF result[Closer] = Empty THEN "join" ELSE "text"
  /\ UNCHANGED <<vars, stop, worker, objects>>

CloserWritesText ==
  /\ life = "text"
  /\ WriteText(Closer)
  /\ life' = AfterDrain
  /\ UNCHANGED <<vars, stop, worker, objects>>

\* notify_ has no waiter: the notification before join wakes nobody.
Join ==
  /\ life = "join"
  /\ worker = "ended"
  /\ life' = "gone"
  /\ UNCHANGED <<vars, stop, worker, objects, buffer, written>>

-----------------------------------------------------------------------------
Constructor == CreateWorker \/ TestStarted \/ SleepUntilStarted \/ WakeSpuriously

WorkerFunction ==
  WorkerStarts \/ WorkerTells \/ WorkerTests \/ WorkerPops \/ WorkerWrites \/ WorkerWritesText

Destructor ==
  Destroy \/ SwitchQueue \/ CloserPops \/ CloserWrites \/ CloserWritesText \/ Join

OtherObjects == AnotherLog \/ ReleaseLog \/ Exit

Running == life # "aborted"

LogNext ==
  /\ Running
  /\ \/ Constructor \/ WorkerFunction \/ Destructor \/ OtherObjects
     \/ \E p \in Producers : Post(p)

LogSpec == LogInit /\ [][LogNext]_allVars

InQueue(A) == Running /\ A /\ UNCHANGED logVars

\* As for MessageQueue: running threads keep running, a mutex is given to
\* each thread that goes on wanting it, and nobody has to log, to destroy or to exit.
LogFairness ==
  /\ WF_allVars(CreateWorker \/ TestStarted \/ SleepUntilStarted)
  /\ WF_allVars(Running /\ (WorkerStarts \/ WorkerTells \/ WorkerTests \/ WorkerWrites
                               \/ WorkerWritesText))
  /\ WF_allVars(SwitchQueue \/ CloserWrites \/ CloserWritesText \/ Join)
  /\ \A c \in Consumers :
       /\ WF_allVars(InQueue(PopTake(c) \/ SwapLists(c) \/ SwapNotify(c)
                               \/ Block(c, HasMessage) \/ Sleep(c)))
       /\ SF_allVars(InQueue(SwapLock(c) \/ Relock(c)))
  /\ SF_allVars(Running /\ PopLock(Worker) /\ WorkerPops)
  /\ SF_allVars(PopLock(Closer) /\ CloserPops)
  /\ \A p \in Producers :
       /\ WF_allVars(InQueue(PushEnqueue(p) \/ PushNotify(p) \/ Block(p, HasRoom) \/ Sleep(p)))
       /\ SF_allVars(InQueue(Relock(p)))

FairLogSpec == LogSpec /\ LogFairness

-----------------------------------------------------------------------------
(* Properties *)

Pushed(m) == sent[m[1]] >= m[2]

Header(m) == [entry |-> m, part |-> "header", cells |-> HeaderOf(m)]

\* The text comes out if it fits the buffer.
Text(m) ==
  [entry |-> m, part |-> "text",
   cells |-> IF IsLong(m) THEN [i \in 1 .. TextLength[m[2]] |-> Nul] ELSE TextOf(m)]

IsWritten(piece) == \E i \in DOMAIN written : written[i] = piece

\* When the last destructor has returned, every entry was written, and once:
\* what the worker had popped when it was told to stop, what was still in
\* either list, and what the closer popped beside it (lines 209-235).  Nothing of
\* another entry is written with it, though all share one buffer in each thread.
AllWrittenOnce ==
  /\ \A i \in DOMAIN written : LET m == written[i].entry IN
       /\ written[i] \in {Header(m), Text(m)}
       /\ written[i] = Text(m) => \E j \in 1 .. i : written[j] = Header(m)
  /\ \A i, j \in DOMAIN written : written[i] = written[j] => i = j
  /\ life = "gone" => \A m \in Message : Pushed(m) => IsWritten(Text(m))

\* An entry is torn when another comes between its header and its text.
Torn ==
  {i \in 1 .. Len(written) - 1 :
     written[i].part = "header" /\ written[i + 1].entry # written[i].entry}

\* Lines are whole while the worker alone writes, and it writes at most one entry
\* once stop_ is set: beside it the closer tears that one, and is torn itself
\* where its two parts come (lines 218-227, 290-297).
FewTorn ==
  /\ life \notin {"drain", "popping", "text", "join", "gone"} => Torn = {}
  /\ Cardinality(Torn) <= 3

Destroying == {"switch", "drain", "popping", "text", "join", "gone"}

\* stop_ is written by two threads, and the last write is the one that counts:
\* while a constructed Log is left, its worker goes round, and the worker's stop_ =
\* false never undoes the destructor's stop_ = true (lines 189-197, 211-214, 288).
StopAgrees ==
  /\ life = "alive" => worker \notin {"unborn", "born"} /\ objects > 0
  /\ life \in Destroying => stop
  /\ stop => life \in {"start", "test", "deciding", "waiting"} \/ objects = 0
  /\ worker = "ended" => life \in Destroying

\* Every entry posted is eventually written, even by a Log that is destroyed
\* meanwhile, and even by one whose destructor never returns; but not when the
\* process exits.
EntriesWritten ==
  \A m \in Message : Pushed(m) ~> (IsWritten(Text(m)) \/ life = "aborted")
==============================================================================
